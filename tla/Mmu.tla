--------------------------------- MODULE Mmu ---------------------------------
(***************************************************************************)
(* A processor's port to memory (riscv-base/mmu.h, mmu.cc): the page table *)
(* walk, a TLB whose entries share one page among three tags, and decoded  *)
(* instructions by virtual address, with what flushes them (processor.cc). *)
(* Both simulators have one. The functional simulator's executes FENCE.I,  *)
(* in the pipeline that instruction skips the issue queue and does nothing *)
(* (decode.cc, OP_MISC_MEM).                                               *)
(*                                                                         *)
(* Memory is words, two to a page. A word is an instruction, data or a     *)
(* page table entry. There are two levels of tables instead of three, so   *)
(* that a large page is two pages. Accesses are aligned; one that faults   *)
(* changes nothing here, its trap writes the status register.              *)
(***************************************************************************)
EXTENDS Integers

CONSTANTS
    memsz,              \* words of memory
    TlbEntries, IcacheEntries,
    Words,              \* what a word may be: [v, t, ppn, u, s]
    Memory,             \* what it is at first
    Ptbrs,              \* pages that are made the root
    MaxStores           \* bound: stores of a behaviour

Kind   == {"x", "r", "w"}       \* fetch, load, store
VaSize == 8                     \* canonical addresses
Addr   == 0..VaSize             \* and one that is not
Page   == 0..(memsz \div 2 - 1)

MmuAssumption ==
    /\ memsz \in Nat \ {0} /\ memsz % 2 = 0         \* whole pages (sim.cc:31, :40)
    /\ {TlbEntries, IcacheEntries} \subseteq Nat \ {0} /\ MaxStores \in Nat
    /\ Words \subseteq [v : BOOLEAN, t : BOOLEAN, ppn : Nat, u : SUBSET Kind, s : SUBSET Kind]
    /\ Memory \in [0..(memsz - 1) -> Words] /\ Ptbrs \subseteq Page

VARIABLES
    mem,
    supervisor, vm, ptbr,       \* SR_S and SR_VM of the status register
    tlb,                        \* [page, vpn] with a vpn for each kind, or -1
    icache,                     \* [tag, data]
    pipeline,                   \* whether this is the pipeline's
    stores,
    remapped, edited            \* history, see Transparent

vars == <<mem, supervisor, vm, ptbr, tlb, icache, pipeline, stores, remapped, edited>>

NoPage  == [page |-> 0, vpn |-> [k \in Kind |-> -1]]
Invalid == [v |-> FALSE, t |-> FALSE, ppn |-> 0, u |-> {}, s |-> {}]
NoInsn  == [tag |-> -1, data |-> Invalid]

Init ==
    /\ mem = Memory
    /\ supervisor = TRUE /\ vm = FALSE /\ ptbr = 0
    /\ tlb = [i \in 0..(TlbEntries - 1) |-> NoPage]
    /\ icache = [i \in 0..(IcacheEntries - 1) |-> NoInsn]
    /\ pipeline \in BOOLEAN
    /\ stores = 0 /\ remapped = FALSE /\ edited = {}
-----------------------------------------------------------------------------
Vpn(a) == a \div 2
Entry(page, i) == IF page \in Page THEN mem[2 * page + i] ELSE Invalid
(* A leaf of the root table takes the low bit of the virtual page; a page  *)
(* out of range faults.                                                    *)
Large(e, vpn) == [e EXCEPT !.ppn = IF @ % 2 = 1 THEN @ ELSE @ + (vpn % 2)]
InRange(e) == IF e.v /\ ~e.t /\ e.ppn \in Page THEN e ELSE Invalid
Bare(a) == IF a < memsz THEN [Invalid EXCEPT !.v = TRUE, !.ppn = Vpn(a), !.u = Kind, !.s = Kind]
           ELSE Invalid
walk(a) ==
    LET root == Entry(ptbr, Vpn(a) \div 2)
    IN  CASE a >= VaSize      -> Invalid
          [] a < VaSize /\ ~vm -> Bare(a)
          [] OTHER -> IF root.v /\ root.t THEN InRange(Entry(root.ppn, Vpn(a) % 2))
                      ELSE InRange(Large(root, Vpn(a)))
Perm(e) == IF ~e.v THEN {} ELSE IF supervisor THEN e.s ELSE e.u

(* Where an access goes without the caches: a set, empty for a fault.      *)
Walked(k, a) == IF k \in Perm(walk(a)) THEN {2 * walk(a).ppn + (a % 2)} ELSE {}

(* translate() and refill_tlb(): only one kind has to miss for all three   *)
(* tags of the entry to be replaced.                                       *)
Cached(k, a) == tlb[Vpn(a) % TlbEntries].vpn[k] = Vpn(a)
translate(k, a) ==
    IF Cached(k, a) THEN {2 * tlb[Vpn(a) % TlbEntries].page + (a % 2)} ELSE Walked(k, a)
(* Seeded fault: a kind that is not permitted keeps its tag. *)
Refilled_KeepsTags(a) ==
    [page |-> walk(a).ppn,
     vpn  |-> [k \in Kind |-> IF k \in Perm(walk(a)) THEN Vpn(a) ELSE tlb[Vpn(a) % TlbEntries].vpn[k]]]
Refilled(a) ==
    [page |-> walk(a).ppn,
     vpn  |-> [k \in Kind |-> IF k \in Perm(walk(a)) THEN Vpn(a) ELSE -1]]
refill_tlb(k, a) ==
    tlb' = IF Cached(k, a) THEN tlb ELSE [tlb EXCEPT ![Vpn(a) % TlbEntries] = Refilled(a)]
-----------------------------------------------------------------------------
Load(a) ==
    /\ translate("r", a) # {}
    /\ refill_tlb("r", a)
    /\ UNCHANGED <<mem, supervisor, vm, ptbr, icache, pipeline, stores, remapped, edited>>

(* What has changed since the last flush: a translation, and the words.    *)
Remapped == remapped' = (remapped \/ \E k \in Kind, a \in Addr : Walked(k, a)' # Walked(k, a))
Store(a) ==
    /\ stores < MaxStores /\ stores' = stores + 1
    /\ \E p \in translate("w", a), w \in Words :
          /\ mem' = [mem EXCEPT ![p] = w]
          /\ edited' = edited \cup {p}
    /\ refill_tlb("w", a)
    /\ UNCHANGED <<supervisor, vm, ptbr, icache, pipeline>>
    /\ Remapped

access_icache(a) ==
    /\ icache[a % IcacheEntries].tag # a
    /\ \E p \in translate("x", a) :
          icache' = [icache EXCEPT ![a % IcacheEntries] = [tag |-> a, data |-> mem[p]]]
    /\ refill_tlb("x", a)
    /\ UNCHANGED <<mem, supervisor, vm, ptbr, pipeline, stores, remapped, edited>>

flush_icache == icache' = [i \in DOMAIN icache |-> NoInsn] /\ edited' = {}
flush_tlb ==
    /\ tlb' = [i \in DOMAIN tlb |-> NoPage]
    /\ remapped' = FALSE
    /\ flush_icache

(* A CSR instruction writes the status register, or SRET does; or a trap,  *)
(* which leaves SR_VM alone. The root of the tables is written without a   *)
(* flush, for which a program reads CSR_FATC.                              *)
WriteStatus ==
    /\ \E s, v \in BOOLEAN :
          /\ supervisor \/ (s /\ v = vm)
          /\ supervisor' = s /\ vm' = v
    /\ flush_tlb
    /\ UNCHANGED <<mem, ptbr, pipeline, stores>>
WritePtbr ==
    /\ supervisor /\ ptbr' \in Ptbrs
    /\ UNCHANGED <<mem, supervisor, vm, tlb, icache, pipeline, stores, edited>>
    /\ Remapped
ReadFatc ==
    /\ supervisor /\ flush_tlb
    /\ UNCHANGED <<mem, supervisor, vm, ptbr, pipeline, stores>>
FenceI ==
    /\ ~pipeline /\ flush_icache
    /\ UNCHANGED <<mem, supervisor, vm, ptbr, tlb, pipeline, stores, remapped>>

Next ==
    \/ \E a \in Addr : Load(a) \/ Store(a) \/ access_icache(a)
    \/ WriteStatus \/ WritePtbr \/ ReadFatc \/ FenceI

Spec == Init /\ [][Next]_vars
-----------------------------------------------------------------------------
(* Nobody sees the TLB and the decoded instructions: whatever was accessed *)
(* before, in whatever mode and on whatever wrong path, an access goes to  *)
(* the word, or ends in the fault, that a walk of the tables gives now,    *)
(* unless a translation has changed since the last flush; and a decoded    *)
(* instruction is one that may be fetched, and is the word in memory       *)
(* unless that has been written since.                                     *)
Transparent == ~remapped =>
    /\ \A k \in Kind, a \in Addr : translate(k, a) = Walked(k, a)
    /\ \A i \in DOMAIN icache : icache[i].tag # -1 =>
          \E p \in Walked("x", icache[i].tag) : p \in edited \/ icache[i].data = mem[p]
=============================================================================
