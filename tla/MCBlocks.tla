------------------------------ MODULE MCBlocks ------------------------------
(***************************************************************************)
(* The parts of the simulator that are checked on their own: the context   *)
(* switch, the decoder, the checker, the host interface, the four parts    *)
(* of the TAGE-SC-L predictor, the caches, the branch target buffer and a  *)
(* processor's port to memory.                                             *)
(* A behaviour is one of its subject, the others stand still.              *)
(***************************************************************************)
EXTENDS Context

VARIABLES
    subject,                                                    \* the part that is checked
    insn, payload,                                              \* DecodedEntry
    program, perfect, isa, db, head, length, micro, pay, fpc,   \* Checker
    stalled, stage, lane, instret, limit, agreed,
    commands, tgt, host, os, active, queued, turn, lag,         \* Htif
    trace, want, threw,
    tage, tage_fetch2, tage_window, base, first,                \* TageHistory
    gtable, bim, use_alt_on_na, FirstH, SecondH, TICK,          \* TageTables
    tables_window, commits,
    ltable, loop_window, trips, trip,                           \* TageLoop
    bias, gehl, weight, updatethreshold, Pupdatethreshold,      \* TageCorrector
    WITHLOOP, LSUM, sc_window, sc_commits,
    cache, cycle, ic_miss, loads,                               \* Cache
    btb, code, fetch_pc, tc_enable, btb_fetch2, retries,        \* Btb
    mem, supervisor, vm, ptbr, tlb, icache, pipeline, stores,   \* Mmu
    remapped, edited

I(op, target) == [op |-> op, target |-> target]
B(op) == I(op, 1)
(* A system call with a poll of its answer, the counter, traps, and exits. *)
MCChecked ==
    { << B("tohost"), B("fromhost"), B("add"), B("add"), I("branch", 2), B("clear"), B("exit"), I("jump", 8) >>,
      << B("add"), B("count"), I("branch", 1), B("store"), B("exit"), B("store"), I("jump", 6) >>,
      << B("add"), B("compare"), I("branch", 5), B("scall"), B("fault"), B("exit"), B("add"), I("jump", 7) >> }

(* Two chunks of an image, and system calls whose buffers overlap chunks.  *)
(* They take up to 8 packets, and the pipeline lags by more, by as many,   *)
(* and by less.                                                            *)
MCImage == [at |-> 3, bytes |-> <<2, 1, 0, 2, 1, 1, 2>>]
C(fn) == [fn |-> fn, magic |-> 0, name |-> 4, name2 |-> 6, size |-> 3, buf |-> 6, len |-> 3, fd |-> 4]
MCCommands ==
    { << C("openat"), C("read"), C("close"), C("exit") >>,
      << C("fstat"), C("chdir"), C("linkat"), C("getcwd"), C("pass") >>,
      << C("write"), C("putchar"), C("readlinkat"), C("getrandom"), C("exit") >> }

MCBranches == {[kind |-> "cond", pc |-> 12, target |-> 4, fall |-> 16],
               [kind |-> "cond", pc |-> 24, target |-> 40, fall |-> 32],
               [kind |-> "jump", pc |-> 20, target |-> 8, fall |-> 24]}
MCFound == {[k \in 0..3 |-> 0], [k \in 0..3 |-> IF k = 0 THEN 0 ELSE 1]}

(* Branches with every confidence of TAGE, one of them in a loop. *)
MCVetoed ==
    { [pc |-> 0, conf |-> "high", tage_pred |-> TRUE, differs |-> FALSE, alt |-> FALSE,
       LVALID |-> TRUE, predloop |-> FALSE, hist |-> [G |-> 1, IM |-> 0]],
      [pc |-> 1, conf |-> "low", tage_pred |-> FALSE, differs |-> TRUE, alt |-> TRUE,
       LVALID |-> FALSE, predloop |-> FALSE, hist |-> [G |-> 2, IM |-> 1]],
      [pc |-> 0, conf |-> "medium", tage_pred |-> FALSE, differs |-> FALSE, alt |-> TRUE,
       LVALID |-> FALSE, predloop |-> FALSE, hist |-> [G |-> 3, IM |-> 1]] }

(* Caches of one MHSR, and an L2 with one for the instruction cache and    *)
(* two for the data cache, whose victims can be gone from it: with one     *)
(* less it refuses a call, by cycle 9.                                     *)
Each(ic, dc, l2) == [c \in {"IC", "DC", "L2"} |-> CASE c = "IC" -> ic [] c = "DC" -> dc [] OTHER -> l2]

(* Branches of every kind, some of which memory changes into others. *)
MCCodes == { << I("other", 0), I("cond", 2), I("call", 0), I("serial", 0) >>,
             << I("cond", 2), I("cond", 0), I("trap", 0), I("jal", 1) >>,
             << I("ret", 0), I("other", 0), I("cond", 0), I("icall", 0) >>,
             << I("cond", 3), I("jalr", 0), I("other", 0), I("cond", 1) >> }
MCCode == {[a \in 0..3 |-> c[a + 1]] : c \in MCCodes}

(* A root table in page 0 and a table in page 1. In supervisor mode two    *)
(* virtual pages that share a TLB entry have different permissions, one of *)
(* them a part of a large page that holds the tables; in user mode the     *)
(* same words permit something else.                                       *)
Pte(t, ppn, u, s) == [v |-> TRUE, t |-> t, ppn |-> ppn, u |-> u, s |-> s]
Unmapped  == [v |-> FALSE, t |-> FALSE, ppn |-> 0, u |-> {}, s |-> {}]
ATable    == Pte(TRUE, 1, {}, {})
APage     == Pte(FALSE, 2, {"r", "w"}, {"r", "x"})
TheTables == Pte(FALSE, 0, {}, {"r", "w"})
MCMemory == [i \in 0..5 |-> CASE i \in {0, 5} -> ATable [] i = 1 -> TheTables
                              [] i = 2 -> APage [] OTHER -> Unmapped]

Decoder == INSTANCE DecodedEntry WITH NXPR <- 2, SPLIT_STORES <- TRUE
Checks  == INSTANCE Checker
    WITH Width <- 8, Interleave <- 3, Handler <- 6, DebugSize <- 4, PaySize <- 3, RetireWidth <- 2,
         Programs <- MCChecked
Server  == INSTANCE Htif
    WITH MagicLen <- 2, StatLen <- 3, Align <- 4, MaxChunk <- 4, MemSize <- 12, Lags <- {6, 8, 9}, Busy <- 1,
         Image <- MCImage, Programs <- MCCommands, program <- commands
History == INSTANCE TageHistory
    WITH Branches <- MCBranches, Found <- MCFound, Folds <- {<<3, 2>>, <<2, 3>>},
         HISTBUFFERLENGTH <- 4, PHISTWIDTH <- 5, LongBits <- 2, ImBits <- 1, BqSize <- 2, MaxUpdates <- 3,
         window <- tage_window, fetch2 <- tage_fetch2
Tables  == INSTANCE TageTables
    WITH NHIST <- 4, NOSKIP <- {2, 3}, NNN <- 1, BORNTICK <- 1, ALTWIDTH <- 2, CONFWIDTH <- 2,
         Branches <- {1, 2}, InFlight <- 2, MaxCommits <- 4, window <- tables_window
Loops   == INSTANCE TageLoop
    WITH Branches <- {1, 2}, WIDTHNBITERLOOP <- 3, CONFLOOP <- 2, NEWAGE <- 1, CONFITER <- 128,
         InFlight <- 2, window <- loop_window
Vetoes  == INSTANCE TageCorrector
    WITH Groups <- {"G", "IM"}, Lengths <- [G |-> <<2, 1>>, IM |-> <<1, 1>>], Logs <- 2,
         PERCWIDTH <- 3, EWIDTH <- 2, WIDTHRES <- 4, WIDTHRESP <- 3,
         Weights <- [G |-> 0, IM |-> 0, B |-> 0], Threshold <- 8,
         Branches <- MCVetoed, InFlight <- 2, MaxCommits <- 4,
         window <- sc_window, commits <- sc_commits
Caches  == INSTANCE Cache
    WITH Lines <- {1, 2}, Ways <- Each(2, 1, 1), numMHSR <- Each(1, 1, 3),
         numMissSrvPorts <- Each(1, 1, 1), hitLatency <- Each(1, 1, 1), missSrvLatency <- Each(1, 1, 1),
         missLatency <- 2, CycleBits <- 6, MaxCycle <- 9
Targets == INSTANCE Btb
    WITH Size <- 4, banks <- 2, assoc <- 1, max_cb <- 2, Codes <- MCCode, TcEnable <- {TRUE, FALSE},
         pc <- fetch_pc, fetch2 <- btb_fetch2
Ports   == INSTANCE Mmu
    WITH memsz <- 6, TlbEntries <- 2, IcacheEntries <- 1, Memory <- MCMemory, Ptbrs <- {0, 1},
         Words <- {Unmapped, ATable, APage, TheTables}, MaxStores <- 1

ASSUME BlocksAssumption ==
    /\ Checks!CheckerAssumption /\ Server!HtifAssumption /\ History!TageHistoryAssumption
    /\ Tables!TageTablesAssumption /\ Loops!TageLoopAssumption /\ Vetoes!TageCorrectorAssumption
    /\ Caches!CacheAssumption /\ Targets!BtbAssumption /\ Ports!MmuAssumption
-----------------------------------------------------------------------------
Parts == {"context", "decoder", "checker", "htif", "history", "tables", "loops",
          "corrector", "caches", "btb", "port"}

(* The variables of each part; nothing happens to the ones that are not    *)
(* the subject.                                                            *)
decoder_vars == <<insn, payload>>
checker_vars == <<program, perfect, isa, db, head, length, micro, pay, fpc, stalled, stage, lane,
                  instret, limit, agreed>>
htif_vars    == <<commands, tgt, host, os, active, queued, turn, lag, trace, want, threw>>
history_vars == <<tage, tage_fetch2, tage_window, base, first>>
tables_vars  == <<gtable, bim, use_alt_on_na, FirstH, SecondH, TICK, tables_window, commits>>
loops_vars   == <<ltable, loop_window, trips, trip>>
corrector_vars == <<bias, gehl, weight, updatethreshold, Pupdatethreshold, WITHLOOP, LSUM,
                    sc_window, sc_commits>>
caches_vars  == <<cache, cycle, ic_miss, loads>>
btb_vars     == <<btb, code, fetch_pc, tc_enable, btb_fetch2, retries>>
port_vars    == <<mem, supervisor, vm, ptbr, tlb, icache, pipeline, stores, remapped, edited>>
blocks_vars  == <<subject, vars, decoder_vars, checker_vars, htif_vars, history_vars, tables_vars,
                  loops_vars, corrector_vars, caches_vars, btb_vars, port_vars>>

BlocksInit ==
    /\ subject \in Parts
    /\ Init
    /\ IF subject = "decoder" THEN Decoder!Init
       ELSE insn = 0 /\ payload = 0
    /\ IF subject = "checker" THEN Checks!Init
       ELSE program = 0 /\ perfect = 0 /\ isa = 0 /\ db = 0 /\ head = 0 /\ length = 0 /\
            micro = 0 /\ pay = 0 /\ fpc = 0 /\ stalled = 0 /\ stage = 0 /\ lane = 0 /\
            instret = 0 /\ limit = 0 /\ agreed = 0
    /\ IF subject = "htif" THEN Server!Init
       ELSE commands = 0 /\ tgt = 0 /\ host = 0 /\ os = 0 /\ active = 0 /\ queued = 0 /\
            turn = 0 /\ lag = 0 /\ trace = 0 /\ want = 0 /\ threw = 0
    /\ IF subject = "history" THEN History!Init
       ELSE tage = 0 /\ tage_fetch2 = 0 /\ tage_window = 0 /\ base = 0 /\ first = 0
    /\ IF subject = "tables" THEN Tables!Init
       ELSE gtable = 0 /\ bim = 0 /\ use_alt_on_na = 0 /\ FirstH = 0 /\ SecondH = 0 /\
            TICK = 0 /\ tables_window = 0 /\ commits = 0
    /\ IF subject = "loops" THEN Loops!Init
       ELSE ltable = 0 /\ loop_window = 0 /\ trips = 0 /\ trip = 0
    /\ IF subject = "corrector" THEN Vetoes!Init
       ELSE bias = 0 /\ gehl = 0 /\ weight = 0 /\ updatethreshold = 0 /\ Pupdatethreshold = 0 /\
            WITHLOOP = 0 /\ LSUM = 0 /\ sc_window = 0 /\ sc_commits = 0
    /\ IF subject = "caches" THEN Caches!Init
       ELSE cache = 0 /\ cycle = 0 /\ ic_miss = 0 /\ loads = 0
    /\ IF subject = "btb" THEN Targets!Init
       ELSE btb = 0 /\ code = 0 /\ fetch_pc = 0 /\ tc_enable = 0 /\ btb_fetch2 = 0 /\
            retries = 0
    /\ IF subject = "port" THEN Ports!Init
       ELSE mem = 0 /\ supervisor = 0 /\ vm = 0 /\ ptbr = 0 /\ tlb = 0 /\ icache = 0 /\
            pipeline = 0 /\ stores = 0 /\ remapped = 0 /\ edited = 0

Still(part, its_vars) == IF subject = part THEN TRUE ELSE UNCHANGED its_vars
Only(part) ==
    /\ subject = part /\ UNCHANGED subject
    /\ Still("context", vars)
    /\ Still("decoder", decoder_vars)
    /\ Still("checker", checker_vars)
    /\ Still("htif", htif_vars)
    /\ Still("history", history_vars)
    /\ Still("tables", tables_vars)
    /\ Still("loops", loops_vars)
    /\ Still("corrector", corrector_vars)
    /\ Still("caches", caches_vars)
    /\ Still("btb", btb_vars)
    /\ Still("port", port_vars)
BlocksNext == \/ Only("context") /\ Next
              \/ Only("decoder") /\ Decoder!DecodeNext
              \/ Only("checker") /\ Checks!Next
              \/ Only("htif")    /\ Server!Next
              \/ Only("history") /\ History!Next
              \/ Only("tables")  /\ Tables!Next
              \/ Only("loops")   /\ Loops!Next
              \/ Only("corrector") /\ Vetoes!Next
              \/ Only("caches")  /\ Caches!Next
              \/ Only("btb")     /\ Targets!Next
              \/ Only("port")    /\ Ports!Next
BlocksSpec == BlocksInit /\ [][BlocksNext]_blocks_vars
-----------------------------------------------------------------------------
(* The tables of decode.cc agree with those of their readers, see          *)
(* DecodedEntry.                                                           *)
DecodeSound == subject = "decoder" => Decoder!DecodeSound

(* What the pipeline retires is what the functional simulator executed:    *)
(* the instructions, their values, the interrupts and the hand-overs to    *)
(* the host (retire.cc, debug.cc), see Checker.                            *)
CheckerAgrees == subject = "checker" => Checks!CheckerAgrees

(* An instruction in flight is linked to its entry of the debug buffer, or *)
(* to none when it is on a wrong path; with perfect branch prediction      *)
(* there is no wrong path (payload.cc, debug.cc), see Checker.             *)
LinksExact == subject = "checker" => Checks!LinksExact /\ Checks!PerfectPath

(* The pipeline's host gives the answers that the operating system gave to *)
(* the functional simulator's, to all calls that take less than its lag    *)
(* and to no other (syscall_bypass.cc), see Htif.                          *)
MirrorsAgree == subject = "htif" => Server!MirrorsAgree

(* Requests of any address and length, in chunks, read and write exactly   *)
(* their bytes, and the table of descriptors has those that are open       *)
(* (memif.cc, syscall.cc), see Htif.                                       *)
MemoryExact == subject = "htif" => Server!MemoryExact /\ Server!DescriptorsExact

(* The predictor's speculative histories are those of the path that is     *)
(* fetched, after every misfetch, misprediction and flush (tage-sc-l.cc,   *)
(* its wrapper), see TageHistory.                                          *)
HistoriesExact == subject = "history" => History!ContextExact /\ History!FoldsExact

(* A commit changes no more of the TAGE tables than its logged prediction  *)
(* entitles it to, whatever they have come to hold since, see TageTables;  *)
(* and it never moves the corrector's sum for the branch away from its     *)
(* outcome, see TageCorrector (tage-sc-l.cc).                              *)
TrainsExact == Tables!TrainsExact /\ Vetoes!CorrectorLearns

(* A loop entry that predicts has seen the trips it predicts, see          *)
(* TageLoop.                                                               *)
LoopTrips == subject = "loops" => Loops!LoopTrips

(* Lines and MHSRs of the three caches agree, and an L2 with one MHSR for  *)
(* each of the instruction cache's and two for each of the data cache's    *)
(* refuses no miss and no write-back (CacheClass.cc), see Cache; and the   *)
(* TLB and the decoded instructions of a processor's port change nothing   *)
(* but its speed (mmu.h, mmu.cc), see Mmu.                                 *)
CachesExact ==
    /\ subject = "caches" => Caches!CachesExact
    /\ subject = "port" => Ports!Transparent

(* A bundle leaves FETCH2 as its instructions want it, after at most one   *)
(* misfetch for every bank (btb.cc, fetchunit.cc), see Btb.                *)
BundleExact == subject = "btb" => Targets!BundleExact
=============================================================================
