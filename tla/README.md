# Verification of 721sim

721sim (`src/uarchsim`) is a cycle-level simulator of an out-of-order superscalar
RISC-V core, with a stride value predictor added to rename. It is checked, instruction
by instruction as it retires, against a functional simulator (`src/riscv-base`). This directory holds
TLA+ models of both and of what connects them, the TLC runs that check the models on small
instances, and TLAPS proofs for every instance.

The simulator is one thread (its front-end server has two, of which one runs). What is concurrent is
the machine it simulates: instructions rename in program order, execute in any order, retire in program
order, and three kinds of recovery (misfetch, branch misprediction, complete squash)
cut the machine back at any moment. A component's module takes the functions of
the component as its actions and lets them interleave in every order that the callers'
guards allow; a cycle is one such order. `Pipeline` has the one order in which
`step_micro()` calls the stages. Loops whose intermediate states matter
(the walk of `vpu::repair`, the scan of `issue_queue::select_and_issue`,
`issue_queue::squash`) take a step per iteration and keep other actions out until they end.

## 1. Inventory

| Component | State | Operations | What makes it correct |
|---|---|---|---|
| Value prediction unit (`vpu.cc`) | SVP table, VPQ ring with phase bits, VPQ tail per branch checkpoint | `predict`, `train`, `repair`, free-entry count | `instance` counts exactly the copies in flight that will decrement it; repairs discard exactly the younger instructions; a confident prediction of a strided value is short by what `instance` does not count, and by no more |
| Renamer (`renamer.cc`) | RMT, AMT, free list, active list, ready bits, GBM, checkpoints | `stall_*`, `rename_*`, `checkpoint`, `dispatch_inst`, `set_ready`, `set_complete`, `resolve`, `commit`, `squash` | registers neither leak nor are held twice; sources map to the youngest older writer, after recoveries too; masks name exactly the older unresolved branches |
| Issue queue (`issue_queue.cc`, `dispatch.cc`) | entries, free list, age list, round-robin partition | `dispatch`, `wakeup`, `select_and_issue`, `remove`, `squash`, `clear_branch_bit`, `flush` | lists stay consistent, no wakeup is lost, the oldest ready instruction issues first, nothing starves |
| Load/store unit (`lsu.cc`) | LQ, SQ with phases and lengths, load reservation | `dispatch`, `load_addr`, `store_addr`, `store_value`, `load_unstall`, `checkpoint`, `restore`, `commit`, `flush` | retired loads have the values of program order; early loads are caught; stalled loads end |
| Fetch unit (`fetchunit.cc`, `bq.cc`, `gshare.cc`, `ras.cc`) | `fetch_active`, FETCH2 bundle, branch queue, histories, RAS and their logs | `fetch1`, `fetch2`, `mispredict`, `commit`, `flush` | the speculative context is that of the path in front of it; the queue is the branches in flight; fetch is never off for good |
| BTB, perfect trace cache (`btb.cc`, `tc.cc`) | banks of entries | `lookup`, `update`, `invalidate` | a bundle leaves FETCH2 as its instructions want it, after few misfetches |
| TAGE-SC-L (`tage-sc-l.cc`, wrapper) | speculative histories and their log, tables, loop entries, corrector counters, weights and thresholds | predict, speculative update, recover, train | histories are those of the path; a commit changes no more of the tables than its logged prediction entitles it to, whoever has the entries by then; training moves the corrector towards the outcome |
| Payload buffer (`payload.cc`) | ring of instructions, head and tail | `push`, `pop`, `checkpoint`, `restore`, `rollback`, `clear`, `predict` | no entry is given out while a stage holds it; an entry is linked to its own execution in the functional simulator |
| Decode, fetch queue, rename1 (`decode.cc`, `fetch_queue.cc`, `rename.cc`) | DECODE, FQ, RENAME2 registers | decode, move bundles | the tables agree with their readers; order is kept; the stalls end |
| Execution lanes (`schedule.cc` to `writeback.cc`) | pipeline registers of each lane | move, wake up, execute, write back, detect mispredictions | a consumer reads what its producer wrote or predicted |
| Retirement and squash (`retire.cc`, `squash.cc`) | none of their own | commit, train, complete squash, resolve | what retires is what the instruction set says |
| Caches (`CacheClass.cc`, `ic.cc`) | lines, MHSRs, ports | `Access` | a line is there when its miss resolves; MHSRs and lines agree; the next level is not asked for more than it can hold |
| Checker (`debug.cc`, `checker.cc`) | ring of what the functional simulator did | `push`, `pop`, `first`, `check_next`, compare | both simulators stay at the same instruction, across traps and host ticks |
| Host (`htif.cc`, `fesvr/`) | packets, devices, descriptors, the queue of mirrored calls, two threads | tick, memory requests, system calls, replay, `switch_to` | a call happens once and both memories see its effect; one thread runs |
| Memory port (`mmu.cc`, `mmu.h`) | TLB, decoded instructions by address | load, store, fetch, walk, refill, flushes by `set_pcr`, `get_pcr` and FENCE.I | nobody sees the TLB and the decoded instructions |
| Driver, statistics, `checkpoint.cc`, MDP library | | | outside the models, see section 6 |

**Interactions.** `step_micro()` calls the stages from the back once a cycle.
`rename2` asks renamer and VPU whether the whole bundle fits, then renames, predicts and
checkpoints one instruction after another. `dispatch` reads ready bits and fills issue
queue, active list and LSU. Lanes wake the issue queue and set ready bits and complete
flags. `writeback` resolves branches: `mispredict` in the fetch unit,
`resolve` in the renamer, `restore` in the LSU, then a selective squash by branch mask in every stage
and `repair` in the VPU. `retire` commits the oldest instruction in renamer, LSU, branch
queue and VPU, or calls `squash_complete`; it calls the checker, which pops the debug buffer and lets the functional
simulator run ahead. Every `INTERLEAVE` instructions each simulator ticks its own host; the pipeline's host
replays the system calls that the other has executed.

**Hard behaviours.** Ring buffers whose full and empty states differ in a phase bit
only (VPQ, LQ, SQ, FL, AL, BQ); state saved at a branch and restored after other
branches have come and gone; branch IDs, table entries and MHSRs that are used again while older
users are in flight; wakeup racing dispatch; lists edited while they are scanned; loads
that pass stores; predictors that run ahead of the queue that logs them; stalls of four stages that wait
for each other; two simulators whose hosts must act at the same instruction. `PROJECT.json`
lists each at its line under `hazards`.

## 2. Modules

| Module | Models | Implements |
|---|---|---|
| `Vpu` | `vpu.cc` and its callers in rename2, retire, resolve, squash_complete | `InOrderWindow`, through `VpuRefinement` |
| `VpuStrided` | `Vpu` under a program of strided values | |
| `VpuProofs` | theorems about `Vpu` and `VpuStrided` | |
| `Renamer` | `renamer.cc` and its callers | `InOrderRename` |
| `RenamerProofs` | the instructions in flight as a value, and theorems about `Renamer` | |
| `IssueQueue` | `issue_queue.cc`, the operand part of `dispatch.cc`, the ready bits | `DispatchWindow` (the mapping of the age list is `Line`, the instance is in `MCIssueQueue`) |
| `IssueQueueWindow` | `IssueQueue` behind an active list of bounded size | |
| `IssueQueueProofs` | theorems about `IssueQueue` | |
| `Lsu` | `lsu.cc` and its callers | (stated against program order) |
| `LsuProofs` | one circular queue of the instructions of a kind, and theorems about `Lsu` | |
| `FetchUnit` | `fetchunit.cc`, `bq.cc`, recovery state of `gshare.cc` and `ras.cc`, bundle rules of `btb.cc` | |
| `FetchUnitProofs` | theorems about `FetchUnit` | |
| `Counting` | lemmas that the proofs share: places on a circle, counting in a list, what a list makes of a value step by step | |
| `Decode`, `DecodedEntry` | `decode.cc`'s tables and a payload entry that is used again and again | |
| `FrontEnd` (on `Decode`) | `payload.cc`, FETCH2, decode, `fetch_queue.cc`, rename1, the stalls of rename2 and dispatch, what retirement and recovery give back | |
| `Isa` | the instruction set: what one instruction does | |
| `Pipeline` | rename2 to retire, cycle by cycle | `Isa` |
| `Processor` | the processor class both simulators share, `sim.cc`, the host's tick | |
| `Checker` (on `Processor`) | debug buffer, payload links, retire loop, comparison | |
| `CheckerProofs` | theorems about `Checker` | |
| `Syscalls`, `Htif` | system calls; host interface, twice, with the mirror | |
| `Context` | the two threads of `fesvr/context.cc` | |
| `TageHistory`, `TageTables`, `TageLoop`, `TageCorrector` | the predictor's histories, tables, loop entries, statistical corrector | |
| `Cache` | instruction, data and shared cache | |
| `Btb` | BTB, trace cache, FETCH2's check of a bundle | |
| `Mmu` | a processor's port to memory: page tables, TLB, decoded instructions | |
| `BlockProofs` | theorems about `Context`, `Mmu` and `TageLoop` | |

**Composition.** `Pipeline` does not repeat the components: it uses what their modules show of them. A source maps to its
youngest older writer (`InOrderRename`, implemented by `Renamer`); any ready instruction
issues to a free lane (`DispatchWindow`, implemented by `IssueQueue`); a load
takes the youngest older store's value and a late store marks the oldest younger load that ran early (`Lsu`);
a squash cuts the tail of the window (`MapsAndMasksExact`, `ListsExact`: masks select exactly the younger instructions). `Checker`
takes over that results are right at retirement (`ImplementsIsa`) and adds the order of fetch, link, retire and tick.

Definitions that end in `_<Fault>` in front of an original are seeded faults: with the original replaced by
one, the property named in `PROJECT.json` must break.

### How state corresponds to code

* **Vpu.** `svp`, `vpq`, `vpq_head`, `vpq_tail` are the fields of `class vpu`; a `Pointer` is a
  position with its phase. `vpq_tail_checkpoint` is the array of `pipeline_t`; `GBM` and
  `checkpoint_GBM` are the renamer's, as far as they say which branches live.
  `rename_bundle` is what is left of the bundle `rename2` has accepted: `Rename2` makes the stall checks,
  `Predict` and `Checkpoint` take one instruction each. `RepairStep`/`RepairEnd` are the
  loop of `repair`. Words are integers modulo `WordSize`. `SvpNumTags` bounds the PC bits that
  reach the tag. `uncounted` of `VpuStrided` is a history variable: how many copies that had missed were in flight at the prediction in a slot.
* **Renamer.** Fields as in `renamer.h`. An entry of `AL` also holds what the payload buffer and the lanes
  know of the instruction. `DISPATCH` is the pipeline register. A wakeup is a bit; values are in `Pipeline`.
* **IssueQueue.** `prev`, `next`, `oldest`, `youngest` are the age list, `fl` the free list, `part_next`
  the round-robin pointer; `todo` says where the running loop stands; `rr` the occupied lanes.
  `ready` is `PRF_ready` and `open` the unresolved branches in order. `age_based` is the parameter `IDEAL_AGE_BASED`, chosen once.
* **Lsu.** `LQ`, `SQ` and their pointers as in `lsu.h`; `window` is the active list with each memory
  instruction's saved indices, phases and flags. Memory is a few bytes, values are
  tuples of bytes, so that partial overlaps and forwarding of sub-words are as in the code.
* **FetchUnit.** `bhr`, `ras`, `tos`, `fetch2`, the branch queue pointers; `log` joins the `bq`, gshare and RAS log entries of a
  `pred_tag`. A bundle is the sequence of its branches and serializing or excepting
  instructions. `window` is everything from DECODE to the active list. `dropped` and `base` are history
  variables: what FETCH2 discarded behind a serializing instruction, and the context in front of the window.
* **FrontEnd.** `head`, `tail`, `length` are the payload buffer's; the queues hold payload indices and classes of
  instructions, each of which stands for an instruction of `Decode`. An instruction owns two entries.
* **Pipeline.** `window` is the active list with the payload entry and stage of each instruction; `step` is the position in the
  order of `step_micro`; `prf`, `ready`, `amt` as in the renamer; `arch` memory and control registers.
* **Processor, Checker.** `isa` and `micro` are two records of the same class; `db`, `head`, `length` are the ring of `debug.h`;
  `pay` is the payload buffer with each instruction's `db_index` (`entry`) and fate; `stage`, `lane`, `instret`, `limit` are the locals of `step_micro`.
* **Htif.** Indexed by simulator: `tgt` the target's registers and memory, `host` the coroutine's remaining work, `os` the external operating
  system, `queued` the mirrored sequences, `trace` what the
  program did in the turns that the functional simulator is ahead; `lag` is how many these may be (the debug buffer and `INTERLEAVE` fix it), `threw` why the mirror has stopped the simulation.
  `want`, and `packets` of the active sequence, are bookkeeping: the memory as requested, and the ticks a call has taken.
* **TageHistory.** `tage` is the set of speculative histories; the log entry of a branch in flight is part of `window`; `first` is what the
  uninitialised ring held (`reinit` clears only its element 0, `tage-sc-l.cc:69`).
* **TageTables, TageLoop.** All branches share the one entry of each table, which is when sharing hurts. `FirstH`, `SecondH`, `TICK`, `use_alt_on_na` as in the code. An entry is trained through the index
  of the prediction and without a look at its tag (`tage-sc-l.cc:1347`), so also when another branch has it by then. The corrector's sum is its size in quarters of the threshold; who decides a prediction (`Decider`) and
  which counters its commit trains (`Trained`) are translated from the two places of the code that have to agree.
  Random choices are choices.
* **TageCorrector.** `bias`, `gehl` and `weight` are `Bias*[]`, the groups' tables and `W*`; an entry of `window` is what the branch logged
  (`LSUM`, `THRES`, the confidence, the histories). `LSUM` is the member of the class, the sum of the branch that was predicted last: `UpdatePredictorMicro` uses the
  logged sum for the bias tables, but `Gupdate` reads the member (`tage-sc-l.cc:1412`).
* **Cache.** One set per cache, lines in LRU order, each with its MHSR; `ic_miss` is what FETCH1 waits for; `refused` is bookkeeping, that a call of the L1 caches, for a line
  or for a victim, found no MHSR in the L2.
* **Btb.** A bank has one set in LRU order; `code` may change between a training and a lookup.
* **Mmu.** `mem` is words of two to a page; a word is an instruction, data or a page table entry. `tlb` has a page and, for each kind of access, a tag;
  `icache` the decoded instructions. `pipeline` says whose port it is: only the functional simulator executes FENCE.I. `remapped` and `edited` are history variables, what a
  program has changed since the last flush.

## 3. Runs

A run takes one question each of a component; several small instances of a module, or several modules, are joined
by a constant variable (`variant`, `subject`, `age_based`) that says which one moves.

| Run | Instance | Shows |
|---|---|---|
| `vpu` | 3 VPQ slots, 1 SVP entry, 2 aliased PCs with strides 1 and 3 mod 4, 2 checkpoints, bundles of 2 | counters, saved tails, stall checks; a confident prediction (after two equal strides, `SvpConfMax` 1) that commits is short by a stride for each copy in flight that missed, and is otherwise right |
| `vpu_storage` | 4 slots, 1 PC | **violation**: `instance` needs one bit more than `print_storage` prints |
| `renamer` | 2 logical, 4 physical registers, AL 2, 2 branches, bundles of 2 | registers, maps, masks, readers; refinement of the in-order renamer |
| `issue_queue` | 3 entries and loads that wait for a predicted store; by age behind 2 branches, or by turns over 3 partitions behind one | lists and wakeup; oldest first; nothing ready left behind; refinement of the dispatch window |
| `lsu` | 3 in flight over two bytes, queues of 2: with a branch, traps and LR/SC; with accesses of mixed sizes, whose bytes tell the size of the store they come from; with a branch and no speculative disambiguation | queue order, early loads are caught, retired values |
| `windows` | 2 VPQ slots; 3 entries behind an active list of 4; a load, a store and a branch; all fair | refinement of the in-order window; repairs end, ready instructions issue, stalled loads end |
| `fetch` | BQ 3, bundles of 2, history of 2, RAS of 2 with walk recovery | queue, history, logs, RAS, fetch activity |
| `fetch_flush` | the same with the default recovery | **violation**: a squash that finds the queue empty leaves the predictors of the squashed path |
| `frontend` | bundles of 2, FQ 5, active list 2, payload 32; branches with AMOs, split stores with faults, loads | payload entries exact; the stalls always end |
| `pipeline` | 5 looping programs, 2 lanes of depth 1 and 2, AL 3, IQ 2, 4 physical registers | refinement of the instruction set; instructions keep retiring |
| `blocks` | one of `Context`, `DecodedEntry`, `Checker`, `Htif`, `TageHistory`, `TageTables`, `TageLoop`, `TageCorrector`, `Cache`, `Btb`, `Mmu` | eleven properties, one or two for each part; `Htif` with three lags, `Cache` with an L2 of 3 MHSRs under caches of 1 |
| `cache_shared` | caches of 2 and 1 MHSRs above an L2 of 2 | **violation**: the L2 refuses a miss |

**Bounds.** Every ring is empty, full and wrapped, with
both phases, in some run, and there are two branches in flight where the order of branches
matters. Two PCs that share an SVP entry are enough for replacement with copies in flight. Two addresses are enough
for overlap and conflict. A physical register file two larger than the logical one makes the free list
run out and wrap. In `FetchUnit`, `WindowSize` bounds the
instructions behind FETCH2, as the active list and the queues before it do, and the queue has an entry for each
of them, as `AUTO_BQ_SIZE` arranges (`pipeline.cc:189`); calls stay
within `RasSize`, since beyond it the stack overwrites itself by design. `Programs` splits the
inputs into one behaviour per instruction mix, because their product is too large; a
conditional branch in front of a call in one bundle is therefore not covered with a queue of three. `FrontEnd` splits by `Mixes` in the
same way. In the blocks, programs are listed instead of enumerated where their order matters (`MCChecked`, `MCCommands`);
the debug buffer of 4 is smaller than the programs, so the ring wraps; an `INTERLEAVE` of 3 falls between and inside retire bundles of 2.
Counters that grow for ever are cut off by named bounds: `MaxUpdates` (branches on a path of `TageHistory`, with a ring of 4 so that it wraps), `MaxCommits`
(`TageTables`, enough to reach the reset of the useful bits with `BORNTICK` 1; `TageCorrector`), `MaxCycle` (`Cache`), `Busy` (`Htif`), `MaxStores` (`Mmu`: one store changes a translation or an instruction, and is then fenced or not). The tables of `Mmu` map two pages with different
permissions to one TLB entry. `MaxCycle` 9 is long enough for victims to be on their way to an L2 that has lost them while both caches miss: with two MHSRs in the L2 in place of three,
TLC finds a refusal by then; `cache_shared` finds its own by cycle 5. The calls of `Htif` take up to 8 packets and `Lags` is 6, 8 and 9: calls that take longer than the pipeline lags, as long and
less. In the code the lag is `PIPE_QUEUE_SIZE / INTERLEAVE`, 128 ticks, and a packet carries at most 1024 bytes, so the limit is a read or write of a little under 128 KB. `Bound` of `MCIssueQueue` leaves one branch unresolved where the scan
goes by turns, since branches and scans meet only in the entries' valid bits; by age there are two. Timer and
cycle words are modulo a power of two.

**What the sizes assume.** `FrontEnd` assumes of the configuration what keeps rename from waiting for ever: a fetch queue of at least
`DispatchWidth - 1 + 2 * FetchWidth` entries, and checkpoints, free registers, VPQ and active list for a whole dispatch bundle.
`pipeline.cc` does not check these.

**VIEW.** The views drop what no action reads before it is overwritten: entries outside the
live part of a ring, checkpoints of unused branch IDs, log entries of no branch in flight, the round-robin pointer of a queue that selects by age, and
in the renamer and the load/store unit the absolute phases, of which only comparisons are used; in the latter also
what a load waited for once it has its value. Runs with liveness
use no view.

**Fairness.** `step_micro` runs each stage every cycle, so a step that stays possible is taken:
loops of `Vpu` and `IssueQueue` run to completion, the replay slot is offered to a stalled load, misses
resolve, addresses of older instructions get computed, branches resolve, the oldest complete
instruction retires, each stage of `FrontEnd` moves. These are weak fairness conditions on those actions; in `windows` each is
that of the part that moves. `Pipeline` is deterministic in its order, so that `WF(Next)` is time going on; `SF(Rename2)` says that the front end delivers
again and again to a stage that is again and again free (`FrontEndMoves`), and `SF(LoadReplay)` that a miss, tried every cycle, resolves. There is
no fairness on mispredictions, squashes, new instructions or traps: `KeepsRetiring` holds although every value and branch prediction may be wrong.

**Deadlock** is checked, except in `blocks` and `cache_shared`, where programs exit and bounds are reached.

## 4. Proofs

Each component's theorems are about its specification for every value of the constants that its assumption allows
(`VpuAssumption`, `StrideAssumption`, `RenamerAssumption`, `IssueQueueAssumption`, `LsuAssumption`, `FetchUnitAssumption`, `CheckerAssumption`, `MmuAssumption`, `TageLoopAssumption`: sizes are positive, rings and windows fit
each other as the constructors make them). Each proof has one lemma per action, and under it one step per part of the
inductive invariant. Arithmetic of pointers and phases is done once per ring and used as lemmas.

**`VpuProofs`.**

* `TypeCorrect`: `Spec => []TypeOK`; the asserts `instance > 0` of `train` and `repair` hold.
* `InstanceCorrect`: every `instance` is the number of entries in flight that will decrement it.
* `WalksInWindow`: saved tails lie between head and tail, in the order of the branches.
* `BundlesFit`: an accepted bundle finds its VPQ entries and branch IDs (the assert of `predict`).
* `SlotsStable`: no step changes an entry that is in flight before and after it.
* `BranchesInOrder`: the mask of an unresolved branch holds the unresolved branches older than it.
* `ConfidenceIsRight`: `StridedSpec => []ConfidentRight`, for every stride of every instruction and every size and confidence: at the head, a
  confident prediction is the value that commits, less one stride for each copy of the instruction that had missed and was in flight when it was made.

The inductive invariant is `IInv == TypeOK /\ InstanceExact /\ CheckpointsInWindow /\
BranchesOrdered /\ BundleFits`. No part is inductive alone: `InstanceExact` survives a walk only
if the walk stops inside the window (`CheckpointsInWindow`); that survives a
misprediction only if the branches squashed with it are the younger ones (`BranchesOrdered`); and
prediction stays inside the ring only because the bundle was measured before (`BundleFits`).
Pointers are dealt with in the lemmas about `distance` (`GrowTail`, `ShrinkTail`, `ShrinkHead`, `DistanceInjective`).

`ConfidenceIsRight` adds `StridedInv` to `IInv`. `Foretold`: the prediction of a confident entry in flight is the last committed value of its
instruction plus one stride for each copy up to it, without those that `uncounted` has for its slot. `Learned`: an owned entry of the table holds that last value, and the stride
once `conf` is not 0. `Recorded`: an entry of the queue names the table entry of its PC. A prediction reads `instance`, which by `InstanceExact` is the number of
copies in flight that hit, so all of them but the missed ones; a training moves the committed value by a stride and takes one copy from the front, whether it was counted
or not, and a walk takes copies from the back, where no older prediction counted them. The arithmetic is that of one more copy modulo `WordSize`.

There is no hypothesis about the configuration. Two conditions are part of `ConfidentRight`, for each prediction: the instruction's tag tells it from the
others (`Alone`), since else it may be trained with strange values; and `SvpConfMax` is not 0, since else the first value counts as a stride. Why the copies that missed
are in the formula: `instance` counts hits only (`vpu.cc:89`), and a low threshold is reached while a copy that missed, because another instruction had the
entry then, is still in flight behind those that restored the confidence. With 300 entries and a confidence of 31, the example of `SUBMISSION_OVERVIEW.md:337`, this can
happen; the prediction is then wrong, which is found when the instruction executes and costs a squash when it retires. The theorem says by how
much it is wrong, and that nothing else makes it wrong. On the instance of `vpu` (three entries, `SvpConfMax` 1) both cases occur.

**`RenamerProofs`.**

* `RegistersAreExact`: every physical register is committed, in flight or free, and only one of these; the free list
  holds what recovery will find there.
* `MapsAndMasksAreExact`: the map table and each checkpoint are the committed map with the destinations
  in front of them; masks select the instructions younger than their branch.
* `ReadersAreSafe`: a ready bit says whether the value is there or predicted, and a register that is freed is in no map left.
* `RenamerIsInOrder`: every step is a step of in-order renaming or a stutter (`ImplementsInOrder`).

The invariant speaks of `InFlight`, the instructions of the active list followed by those in the dispatch
register, and not of the rings: `Conserved` (the committed registers and the whole free list, free part or not, are all the
registers, each once), `Order` (the slots of the free list between the tail and the head hold the destinations in
flight, in program order, and each checkpoint its head at its branch), `Maps`, `Masks`, `Entries` (the active list is the
window), `Ready` and `BundleFits`. `Order` is the strengthening that matters: resolve and squash move only the head of the free list, so
conservation survives only because what the head goes back over is exactly what the squashed instructions had taken.
The first part of the module has what each predicate becomes when an instruction enters the window, is resolved, leaves at the head or is cut off the tail; the refinement
follows step by step, from `Conserved` (a register handed out is held by nothing) and `Maps`.

**`IssueQueueProofs`.**

* `ListsStayExact` (`ListsExact`): the age list threads exactly the valid entries and the free list holds exactly the others; masks are nested
  along the age list; an operand waits exactly while its register is not ready; the scan by age stays on the list. The assertions of
  `dispatch`, `wakeup`, `remove` and `select_and_issue` hold.
* `OldestFirst` (`OldestIssues`): a lane never goes to an instruction while an older ready one could have used it.
* `ScansLeaveNone` (`NoneLeftBehind`): a scan of either kind ends only when each ready instruction that stays has found its lanes taken.

The proof speaks of the age list as a value: `Chain(p, n, ...)` says that `p` lists `n` entries and the four pointers agree with it. `LinkChain` and
`UnlinkChain` say what `dispatch` and `remove` make of that value, at either end and in the middle, and `TakeSpare` and `GiveSpare` the same for
the free list (`Spares`). The invariant adds how far the running loop has come. A scan by age has visited all that is in front of where it stands,
and has as many steps left as the list has entries behind it (`Reached`): `issue_queue.cc` stops after `size` steps, and this is
why it never stops early, although entries leave the list under it. A scan by turns has visited the places from `part_next` on (`Passed`); it returns to where it
started because `part_next` is the beginning of a partition (`Turns`). Masks stay nested through a squash only if no branch ID stands for two unresolved
branches (`OpenOnce`), and the squash is complete because what lies behind its index names the branch no more (`Swept`): this is what lets the ID be used again.

**`LsuProofs`.**

* `QueuesStayInOrder`: load queue and store queue are the loads and stores of the window in program order.
* `EarlyLoadsAreCaught`: a load that took its value too early is marked, or something older is.
* `LoadsRetireInOrder`: a load retires with the value that memory has once all older stores are in it.

The invariant is `TypeOK`, the two rings (`LoadRing`, `StoreRing`), `Links` (a load's saved place in the store queue is
where it stood at dispatch; an atomic instruction is the youngest in flight, which is why a failed
store-conditional harms nobody), what the entries hold, and `ValuesRight`: a load that has its value, with nothing marked up to it, has byte by byte
the value of its youngest older store whose address is known, or of memory. Without speculative
disambiguation one would like to say that all older addresses are known when a load has its value. That is not inductive, and
not true: a store in between that covers the load forwards while an older address is open. `Covered` in `WaitAt` says so.

**`FetchUnitProofs`.**

* `QueueStaysInOrder`: the branch queue and the log of the return address stack are the branches in flight, in order.
* `IdleUntilRestarted`: FETCH1 is idle only while something in flight will restart it, and nothing is fetched behind that.
* `ContextsAreExact`: history, top of stack and every log entry are those of the path in front.
* `StackIsExact` (`ContextExact`): so is, with walk recovery, what the stack holds, and a misfetched bundle finds the entry it started from
  as it left it. It assumes `RasSize > 1` (the default is 64): with one entry a misfetched call overwrites the entry that
  `restore_fetch2_context` asserts, so the theorem would be false.
* `SquashRestores`: a squash that finds a branch in the queue restores the context in front of the oldest
  instruction, which is the part of `flush`'s header that holds (compare `fetch_flush`).

The strengthening is `Bundling` (what a bundle is: only its last instruction is taken or faults; FETCH2 holds a misfetched bundle only while FETCH1 runs) and
`BundleContext` (FETCH2 has saved the context in front of its bundle), without which neither a misfetch nor the move into
the queue keeps the contexts. What a list of instructions makes of a context is a recursive function, whose existence and
uniqueness `Counting` proves by the least position at which they could fail (`FollowsExists`, `FollowsUnique`): this is where induction is needed.

For the stack it is not enough that the array holds the calls of the path in front of FETCH1: every branch in flight may have to go back to its own.
`RasKept` says that each of them can. `Held` is the array a point of the window would get back: at each position what the first younger branch
that logged this position saw there, or else what is there now. It holds every call that has not returned at that point. The walk computes it (`WalkIs`, by
downward induction over the window); a new call may overwrite a popped entry only because the return that popped it has logged it (`LiveUntil`: a
call that is live at a point is still live at the end of the window, unless a branch in between has logged its position). TLC checked
`RasKept` on the instance of `fetch` before it was proved.

**`CheckerProofs`**, about the part of `blocks` that ties the two simulators together.

* `ChecksPass` (`CheckerAgrees`): no check ever fails, for every program that has a trap handler, every width, INTERLEAVE and retire bundle, and a ring
  larger than the payload buffer: what retires is compared with the entry of its own execution and agrees with it, and each host tick comes at the same instruction.
* `LinksHold` (`LinksExact`, `PerfectPath`): the linked instructions are the oldest ones, each at the entry that follows its elder's; one that is not linked
  is off the path; with perfect prediction fetch leaves the path only behind a trap, a serializing instruction or a squash to come.

The two processors are never equal: the functional simulator is ahead by what the ring holds, and has ticked its host where the pipeline's may not have yet. The
invariant says that there are processors `st[0], st[1], ..` that the functional simulator went through since the entry at the head (`Through`), and that the pipeline's
one, *if* it ticked its host now for the instructions it retired this cycle, would be `st[0]` but for the PC (`Facing`). The bundle's limit never goes past a tick
(`Fits`, `LimitIs`), so inside a cycle the two agree as they are, and a step does the same to both (`StepsSame`, over each instruction that reads or writes what the host
does). A pop fills the ring before it releases its head (`PopIs`), which only adds to `st`. For the links, `Queue` says of every instruction in flight what may be behind it
(`WayAt`), that none is behind one that fetch waits for (`KindAt`), and where its entry is (`LinkAt`); the instruction that retires then is the one of the head, or
a squash would have emptied the window. Filling is a recursive function of which the proof needs existence (`FillExists`, by the least position at which it could fail).
That results are right at retirement, unless their instruction's fate is a squash, is part of `Checker` and comes from `Pipeline`, so the theorems are about the link and not about execution.

**`BlockProofs`**, about three more of the parts that `blocks` checks on their own.

* `HandsOver` (`HandOver`): of the two threads of the context switch one runs, and no hand-over is lost. The strengthening `Context!IInv` adds that
  control is one token (a flag that is set, a thread about to set the other's, or the creation of the host's thread), which a thread that runs holds; and who holds each mutex. Waking up
  for no reason is part of the model, so the proof does not rest on condition variables being exact.
* `PortIsTransparent` (`Transparent`, which `CachesExact` checks): for every size of the TLB and of the instruction cache, an access goes where a walk
  of the page tables goes, and a decoded instruction is the word of memory, unless a translation or the word has changed since the last flush. The
  invariant says this of all entries, not only of the next access (`TlbExact`, `InsnsExact`). An entry serves accesses of one kind to one page, and
  a walk gives all addresses of the page the same answer (`OnePage`); this needs memory to be whole pages, since a page of which a part lies beyond
  the end of memory has no such answer (`MmuAssumption`; `sim.cc:31` takes whole megabytes). A refill replaces the tags of three kinds and keeps only those that its walk permits (`RefillKeeps`).
* `LoopsCountTrips` (`LoopTrips`): an entry of the loop predictor with confidence n has seen n trips in a row of its number of iterations, and a valid prediction
  knows three iterations or more. The strengthening (`LoopTrained`) says what the current count is worth while others train the entry and free it: an entry that knows a number
  of iterations has counted all of the current trip (a freed one has not, and this is why its first trip after that is learnt and not trusted), and an entry that is
  confident knows three or more, which `Left` establishes when it learns a trip of one or two and frees the entry at the second.

Only model-checked, and why:

* Liveness. Temporal properties under fairness are out of the prover's reach.
* The refinements of `InOrderWindow` and `DispatchWindow`: their mappings put the window together from a list of lists (`FlattenSeq`, `SelectSeq`), and
  the laws of these need induction over operators. What the queues promise one by one is proved (`InstanceCorrect`, `WalksInWindow`,
  `SlotsStable`; `ListsStayExact`, `OldestFirst`).
* `Pipeline`, and so its refinement of `Isa`: what the components promise it is proved component by component, the composition is checked on programs.
* `PayloadExact` of `FrontEnd`, which flattens the bundles of five stages into one list.
* The blocks other than `Checker`, `Context`, `Mmu` and `TageLoop`. `TageHistory` and `TageCorrector` use bitwise operators, which the prover does not know.

## 5. Findings and disagreements

* `fetch_flush`: the header of `fetchunit_t::flush` (`fetchunit.cc:707`) says it restores histories and RAS;
  with an empty branch queue it does not, although FETCH1 may have moved them. Only accuracy suffers.
* `vpu_storage`: `print_storage` (`vpu.cc:295`) prints one bit too few for `instance`.
* `cache_shared`: a comment (`CacheClass.cc:321`) excludes that the next level refuses a miss, and the result of `Access` is used as a cycle. With an L2
  shared by two caches it can refuse; the cycle is then -1, the largest there is.
  An L2 with as many MHSRs as both caches have together (the sum, where the comment asks for the maximum) is not enough either: a miss of the data cache asks for its line and for its victim's, which the L2 may have lost.
* `MirrorsAgree` (in `blocks`) says where the mirror fails: `syscall_handler_mirror` asserts that the functional simulator has finished the call (`syscall_bypass.cc:48`),
  which is at most 128 ticks ahead and needs a tick for each packet of the call. A read or write of some 126 KB or more reaches the assertion.
* Noticed while modelling, without a run: `vpu.h:21` describes `instance` as the number of copies in flight, but copies that
  missed do not count (`vpu.cc:84-94`); `renamer.h:65` says `val_misp` is never set by the
  pipeline, `execute.cc` sets it; `debug.h:168` asserts that an instruction fetched with nothing in flight is the one at the head of the
  ring, also when the program has ended and the ring is empty; `IMLIcount` (`tage-sc-l.cc:658`) is never reset, since a branch that is not taken
  comes with its fall-through as target; the weights of the corrector's groups train with the sum of another branch (`tage-sc-l.cc:1412`); FENCE.I does
  nothing in the pipeline, whose port keeps its decoded instructions until the status register is written (`decode.cc:449` says that the I-cache should be flushed and calls
  the present state trivial).

## 6. Not modelled

* `checkpoint.cc`: the whole file is commented out. Statistics, parameters and the command line are input and output.
* The memory dependence predictor comes as a library without source: its predictions are choices of `IssueQueue` and `Lsu`.
* The instructions themselves, softfloat and the ELF loader: `Isa` and `Processor` have a few that stand for each kind of control. The other
  transports of the front-end server (serial, Ethernet, Zedboard) are not used by the simulator.
* Interrupts: they stay disabled in `Processor`. `take_interrupt` in `step_micro` takes the PC of FETCH1 for the one of retirement, see the hazards.
* The functions of TAGE-SC-L that its wrapper never calls (`UpdatePredictor`, `baseupdate`, `loopupdate`); the counters `FirstH` and `SecondH` are those of `TageTables`, and `TageCorrector` chooses the side they take.
* More than one set of a table or cache; the counters of gshare.
* Perfect branch prediction is in `Checker` and not in the components (masks keep bits of resolved branches then, `writeback.cc:65`, which
  is harmless only because nothing is squashed by them). Perfect value prediction and oracle confidence are not modelled.
* The `ucontext` variant of `context.cc`, which has no threads.

## 7. Plan

1. Components, front end, composition, checker, host, predictors and caches with their runs: done, as above.
2. Theorems: for `Vpu` (and `VpuStrided`), `Renamer`, `IssueQueue`, `Lsu`, `FetchUnit`, `Checker`, `Context`, `Mmu` and `TageLoop`, as in section 4. What stays with TLC is listed there.
