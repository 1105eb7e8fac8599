----------------------------- MODULE BlockProofs -----------------------------
(***************************************************************************)
(* Theorems about three of the parts that MCBlocks checks on their own:    *)
(* the context switch (Context), a processor's port to memory (Mmu) and    *)
(* the loop predictor (TageLoop).                                          *)
(***************************************************************************)
EXTENDS Context, Integers, SequenceTheorems, TLAPS

CONSTANTS
    memsz, TlbEntries, IcacheEntries, Words, Memory, Ptbrs, MaxStores,      \* Mmu
    Branches, WIDTHNBITERLOOP, CONFLOOP, NEWAGE, CONFITER, InFlight         \* TageLoop

VARIABLES
    mem, supervisor, vm, ptbr, tlb, icache, pipeline, stores, remapped, edited,
    ltable, window, trips, trip

Ports == INSTANCE Mmu
Loops == INSTANCE TageLoop
-----------------------------------------------------------------------------
(* Context.                                                                *)
(* The first state: the target is about to create the host's thread. *)
LEMMA InitIInv == Init => IInv
BY DEF Init, IInv, TypeOK, Token, Mutexes, NoneLost, Held, Context, Other, Step

(* Creating the host's thread keeps the invariant. *)
LEMMA CreateIInv == IInv /\ Create => IInv'
BY DEF Create, IInv, TypeOK, Token, Mutexes, NoneLost, Held, Context, Other, Step

(* Every step of a thread keeps the invariant. *)
LEMMA ThreadIInv ==
    ASSUME IInv, NEW c \in Context, Thread(c)
    PROVE  IInv'
<1> USE DEF IInv, TypeOK, Token, Mutexes, NoneLost, Held, Context, Other, Step, Goto
<1>1. CASE Switch(c)
  BY <1>1 DEF Switch
<1>2. CASE Set(c)
  BY <1>2 DEF Set
<1>3. CASE Lock(c)
  BY <1>3 DEF Lock
<1>4. CASE Signal(c)
  BY <1>4 DEF Signal
<1>5. CASE Unlock(c)
  BY <1>5 DEF Unlock
<1>6. CASE Own(c)
  BY <1>6 DEF Own
<1>7. CASE Check(c)
  BY <1>7 DEF Check
<1>8. CASE Spurious(c)
  BY <1>8 DEF Spurious
<1>9. CASE Leave(c)
  BY <1>9 DEF Leave
<1> QED
  BY <1>1, <1>2, <1>3, <1>4, <1>5, <1>6, <1>7, <1>8, <1>9 DEF Thread

(* Two running threads would both have been let go: control is one token.  *)
LEMMA IInvHandOver == IInv => HandOver
BY DEF IInv, HandOver, Exclusive, Token, Held, Context, Other

(* In every interleaving of the two threads and with wakeups for no reason, *)
(* the target and its host never run together, and neither sleeps for ever  *)
(* on a hand-over that was already made (context_t::switch_to()).           *)
THEOREM HandsOver == Spec => []HandOver
<1>1. IInv /\ [Next]_vars => IInv'
  <2> SUFFICES ASSUME IInv, [Next]_vars PROVE IInv'
    OBVIOUS
  <2>1. CASE Create
    BY <2>1, CreateIInv
  <2>2. CASE \E c \in Context : Thread(c)
    BY <2>2, ThreadIInv
  <2>3. CASE UNCHANGED vars
    BY <2>3 DEF vars, IInv, TypeOK, Token, Mutexes, NoneLost, Held
  <2> QED
    BY <2>1, <2>2, <2>3 DEF Next
<1> QED
  BY InitIInv, <1>1, IInvHandOver, PTL DEF Spec

-----------------------------------------------------------------------------
(* Mmu. What the steps keep besides Transparent.                           *)
PortTypes ==
    /\ DOMAIN tlb = 0 .. TlbEntries - 1 /\ DOMAIN icache = 0 .. IcacheEntries - 1
    /\ \A i \in DOMAIN icache : icache[i].tag = -1 \/ icache[i].tag \in Ports!Addr

(* The two parts of Transparent: of the TLB and of the instructions.       *)
TlbExact == \A k \in Ports!Kind, a \in Ports!Addr : Ports!translate(k, a) = Ports!Walked(k, a)
InsnsExact == \A i \in DOMAIN icache : icache[i].tag # -1 =>
    \E p \in Ports!Walked("x", icache[i].tag) : p \in edited \/ icache[i].data = mem[p]

PortInv == PortTypes /\ (~remapped => TlbExact /\ InsnsExact)

LEMMA PortInvIs ==
  /\ PortInv => Ports!Transparent
  /\ PortTypes /\ Ports!Transparent => PortInv
BY DEF PortInv, Ports!Transparent, TlbExact, InsnsExact

(* An address has a page, and the page a place in the TLB.                 *)
LEMMA Pages ==
  ASSUME Ports!MmuAssumption, NEW a \in Ports!Addr
  PROVE  /\ Ports!Vpn(a) \in Nat /\ a = 2 * Ports!Vpn(a) + (a % 2) /\ a % 2 \in {0, 1}
         /\ Ports!Vpn(a) % TlbEntries \in 0 .. TlbEntries - 1
         /\ a % IcacheEntries \in 0 .. IcacheEntries - 1
<1>1. a \in Nat /\ TlbEntries \in Nat \ {0} /\ IcacheEntries \in Nat \ {0}
  BY DEF Ports!Addr, Ports!VaSize, Ports!MmuAssumption
<1>2. Ports!Vpn(a) \in Nat /\ a = 2 * Ports!Vpn(a) + (a % 2) /\ a % 2 \in {0, 1}
  BY <1>1 DEF Ports!Vpn
<1> QED
  BY <1>1, <1>2

(* Addresses on one page are translated alike.                             *)
LEMMA OnePage ==
  ASSUME Ports!MmuAssumption, NEW a \in Ports!Addr, NEW b \in Ports!Addr,
         Ports!Vpn(a) = Ports!Vpn(b)
  PROVE  Ports!walk(a) = Ports!walk(b)
<1>1. a < Ports!VaSize <=> b < Ports!VaSize
  BY DEF Ports!Addr, Ports!VaSize, Ports!Vpn
<1> PICK n \in Nat : n = Ports!Vpn(a)
  BY Pages
<1>2. a < memsz <=> b < memsz
  <2>1. memsz = 2 * (memsz \div 2) /\ memsz \div 2 \in Nat
    BY DEF Ports!MmuAssumption
  <2>2. a \in Nat /\ a = 2 * n + (a % 2) /\ a % 2 \in {0, 1}
    <3>1. a = 2 * Ports!Vpn(a) + (a % 2) /\ a % 2 \in {0, 1}
      BY Pages
    <3>2. a \in Nat
      BY DEF Ports!Addr, Ports!VaSize
    <3> QED
      BY <3>1, <3>2
  <2>3. b \in Nat /\ b = 2 * n + (b % 2) /\ b % 2 \in {0, 1}
    <3>1. b = 2 * Ports!Vpn(b) + (b % 2) /\ b % 2 \in {0, 1}
      BY Pages
    <3>2. b \in Nat
      BY DEF Ports!Addr, Ports!VaSize
    <3> QED
      BY <3>1, <3>2
  <2> QED
    BY <2>1, <2>2, <2>3
<1>3. Ports!Bare(a) = Ports!Bare(b)
  BY <1>2 DEF Ports!Bare
<1> QED
  BY <1>1, <1>3 DEF Ports!walk, Ports!Large, Ports!Addr, Ports!VaSize

(* An empty TLB is exact, and so are no instructions.                      *)
EmptyTlb   == tlb = [i \in 0 .. TlbEntries - 1 |-> Ports!NoPage]
EmptyInsns == icache = [i \in 0 .. IcacheEntries - 1 |-> Ports!NoInsn]

LEMMA NothingCached == Ports!MmuAssumption /\ EmptyTlb => TlbExact
<1> SUFFICES ASSUME Ports!MmuAssumption, EmptyTlb PROVE TlbExact
  OBVIOUS
<1> SUFFICES ASSUME NEW k \in Ports!Kind, NEW a \in Ports!Addr PROVE ~Ports!Cached(k, a)
  BY DEF TlbExact, Ports!translate
<1> PICK n \in Nat : n = Ports!Vpn(a)
  BY Pages
<1> PICK i \in 0 .. TlbEntries - 1 : i = Ports!Vpn(a) % TlbEntries
  BY Pages
<1>1. tlb[i].vpn[k] = -1
  BY DEF EmptyTlb, Ports!NoPage
<1> QED
  BY <1>1 DEF Ports!Cached

(* A refill puts a walk in the place of what was cached there.             *)
LEMMA RefillKeeps ==
  ASSUME Ports!MmuAssumption, PortTypes, TlbExact,
         NEW k \in Ports!Kind, NEW a \in Ports!Addr, Ports!refill_tlb(k, a),
         \A l \in Ports!Kind, b \in Ports!Addr : Ports!Walked(l, b)' = Ports!Walked(l, b)
  PROVE  TlbExact' /\ DOMAIN tlb' = 0 .. TlbEntries - 1
<1> PICK i \in 0 .. TlbEntries - 1 : i = Ports!Vpn(a) % TlbEntries
  BY Pages
<1>1. tlb' = IF Ports!Cached(k, a) THEN tlb ELSE [tlb EXCEPT ![i] = Ports!Refilled(a)]
  BY DEF Ports!refill_tlb
<1>2. DOMAIN tlb = 0 .. TlbEntries - 1 /\ DOMAIN tlb' = 0 .. TlbEntries - 1
  BY <1>1 DEF PortTypes
<1>3. ASSUME NEW l \in Ports!Kind, NEW b \in Ports!Addr
      PROVE  Ports!translate(l, b)' = Ports!Walked(l, b)'
  <2> PICK j \in 0 .. TlbEntries - 1 : j = Ports!Vpn(b) % TlbEntries
    BY Pages
  <2> PICK n \in Nat : n = Ports!Vpn(b)
    BY Pages
  <2>1. Ports!Walked(l, b)' = Ports!Walked(l, b)
    OBVIOUS
  <2>2. CASE tlb'[j] = tlb[j]
    <3>1. Ports!Cached(l, b)' <=> Ports!Cached(l, b)
      BY <2>2 DEF Ports!Cached
    <3>2. Ports!translate(l, b) = Ports!Walked(l, b)
      BY DEF TlbExact
    <3> QED
      BY <2>1, <2>2, <3>1, <3>2 DEF Ports!translate
  <2>3. CASE j = i /\ tlb'[j] = Ports!Refilled(a)
    <3>1. Ports!Cached(l, b)' <=>
            (IF l \in Ports!Perm(Ports!walk(a)) THEN Ports!Vpn(a) ELSE -1) = n
      BY <2>3 DEF Ports!Cached, Ports!Refilled
    <3>2. CASE l \in Ports!Perm(Ports!walk(a)) /\ Ports!Vpn(a) = n
      <4>1. Ports!walk(b) = Ports!walk(a)
        BY <3>2, OnePage
      <4>2. tlb'[j].page = Ports!walk(a).ppn
        BY <2>3 DEF Ports!Refilled
      <4> QED
        BY <2>1, <3>1, <3>2, <4>1, <4>2 DEF Ports!translate, Ports!Walked
    <3>3. CASE ~(l \in Ports!Perm(Ports!walk(a)) /\ Ports!Vpn(a) = n)
      <4>1. ~Ports!Cached(l, b)'
        BY <3>1, <3>3
      <4> QED
        BY <4>1 DEF Ports!translate
    <3> QED
      BY <3>2, <3>3
  <2> QED
    BY <1>1, <1>2, <2>2, <2>3
<1> QED
  BY <1>2, <1>3 DEF TlbExact

(* A step after which the tables say what they said, and no cached         *)
(* instruction and no other word than those noted has changed.             *)
LEMMA InsnsKeep ==
  ASSUME InsnsExact, PortTypes, icache' = icache, edited \subseteq edited',
         \A p : p \in edited' \/ mem'[p] = mem[p],
         \A l \in Ports!Kind, b \in Ports!Addr : Ports!Walked(l, b)' = Ports!Walked(l, b)
  PROVE  InsnsExact'
<1>1. "x" \in Ports!Kind
  BY DEF Ports!Kind
<1>2. \A i \in DOMAIN icache : icache[i].tag # -1 =>
         Ports!Walked("x", icache[i].tag)' = Ports!Walked("x", icache[i].tag)
  BY <1>1 DEF PortTypes
<1>3. ASSUME NEW i \in DOMAIN icache, icache[i].tag # -1
      PROVE  \E p \in Ports!Walked("x", icache[i].tag) : p \in edited' \/ icache[i].data = mem'[p]
  BY <1>3 DEF InsnsExact
<1> QED
  BY <1>2, <1>3 DEF InsnsExact

LEMMA NoInsns == EmptyInsns => InsnsExact
BY DEF EmptyInsns, InsnsExact, Ports!NoInsn

(* Without a change of the tables, of the mode or of what the table words  *)
(* hold, walks stay the same.                                              *)
LEMMA WalksStay ==
  ASSUME UNCHANGED <<mem, supervisor, vm, ptbr>>
  PROVE  \A l \in Ports!Kind, b \in Ports!Addr : Ports!Walked(l, b)' = Ports!Walked(l, b)
BY DEF Ports!Walked, Ports!Perm, Ports!walk, Ports!Bare, Ports!InRange, Ports!Large, Ports!Entry
LEMMA PortStarts == Ports!MmuAssumption /\ Ports!Init => PortInv
<1> SUFFICES ASSUME Ports!MmuAssumption, Ports!Init PROVE PortInv
  OBVIOUS
<1>1. EmptyTlb /\ EmptyInsns
  BY DEF Ports!Init, EmptyTlb, EmptyInsns
<1> QED
  BY <1>1, NothingCached, NoInsns DEF PortInv, PortTypes, EmptyTlb, EmptyInsns, Ports!NoInsn

(* Loads, stores and fetches.                                              *)
LEMMA AccessKeeps ==
  ASSUME Ports!MmuAssumption, PortInv, NEW a \in Ports!Addr,
         Ports!Load(a) \/ Ports!Store(a) \/ Ports!access_icache(a)
  PROVE  PortInv'
<1> USE DEF PortInv
<1>1. CASE Ports!Load(a)
  <2>1. /\ Ports!refill_tlb("r", a) /\ "r" \in Ports!Kind
        /\ UNCHANGED <<mem, supervisor, vm, ptbr, icache, remapped, edited>>
    BY <1>1 DEF Ports!Load, Ports!Kind
  <2>2. \A l \in Ports!Kind, b \in Ports!Addr : Ports!Walked(l, b)' = Ports!Walked(l, b)
    BY <2>1, WalksStay
  <2>3. DOMAIN tlb' = 0 .. TlbEntries - 1
    BY <2>1 DEF Ports!refill_tlb, PortTypes
  <2>4. PortTypes'
    BY <2>1, <2>3 DEF PortTypes
  <2>5. ASSUME ~remapped PROVE TlbExact' /\ InsnsExact'
    BY <2>1, <2>2, <2>5, RefillKeeps, InsnsKeep
  <2> QED
    BY <2>1, <2>4, <2>5
<1>2. CASE Ports!Store(a)
  <2>1. /\ Ports!refill_tlb("w", a) /\ "w" \in Ports!Kind
        /\ UNCHANGED icache
        /\ remapped' = (remapped \/ \E l \in Ports!Kind, b \in Ports!Addr :
                                       Ports!Walked(l, b)' # Ports!Walked(l, b))
    BY <1>2 DEF Ports!Store, Ports!Kind, Ports!Remapped
  <2>2. edited \subseteq edited' /\ \A p : p \in edited' \/ mem'[p] = mem[p]
    <3> PICK p, w : mem' = [mem EXCEPT ![p] = w] /\ edited' = edited \cup {p}
      BY <1>2 DEF Ports!Store
    <3> QED
      OBVIOUS
  <2>3. DOMAIN tlb' = 0 .. TlbEntries - 1
    BY <2>1 DEF Ports!refill_tlb, PortTypes
  <2>4. PortTypes'
    BY <2>1, <2>3 DEF PortTypes
  <2>5. ASSUME ~remapped' PROVE TlbExact' /\ InsnsExact'
    BY <2>1, <2>2, <2>5, RefillKeeps, InsnsKeep
  <2> QED
    BY <2>4, <2>5
<1>3. CASE Ports!access_icache(a)
  <2> PICK i \in 0 .. IcacheEntries - 1 : i = a % IcacheEntries
    BY Pages
  <2>1. /\ Ports!refill_tlb("x", a) /\ "x" \in Ports!Kind
        /\ UNCHANGED <<mem, supervisor, vm, ptbr, remapped, edited>>
    BY <1>3 DEF Ports!access_icache, Ports!Kind
  <2> PICK p \in Ports!translate("x", a) :
           icache' = [icache EXCEPT ![i] = [tag |-> a, data |-> mem[p]]]
    BY <1>3 DEF Ports!access_icache
  <2>2. \A l \in Ports!Kind, b \in Ports!Addr : Ports!Walked(l, b)' = Ports!Walked(l, b)
    BY <2>1, WalksStay
  <2>3. DOMAIN tlb' = 0 .. TlbEntries - 1
    BY <2>1 DEF Ports!refill_tlb, PortTypes
  <2>4. PortTypes'
    BY <2>1, <2>3 DEF PortTypes
  <2>5. ASSUME ~remapped PROVE TlbExact' /\ InsnsExact'
    <3>1. TlbExact'
      BY <2>1, <2>2, <2>5, RefillKeeps
    <3>2. ASSUME NEW j \in DOMAIN icache', NEW g, g = icache'[j].tag, g # -1
          PROVE  \E q \in Ports!Walked("x", g)' : q \in edited' \/ icache'[j].data = mem'[q]
      <4>1. CASE j = i
        <5>1. icache'[j].tag = a /\ icache'[j].data = mem[p]
          BY <4>1 DEF PortTypes
        <5>2. p \in Ports!Walked("x", a)'
          BY <2>1, <2>2, <2>5 DEF TlbExact
        <5> QED
          BY <2>1, <3>2, <5>1, <5>2
      <4>2. CASE j # i
        <5>1. icache'[j] = icache[j] /\ j \in DOMAIN icache
          BY <4>2 DEF PortTypes
        <5>2. g = icache[j].tag /\ g \in Ports!Addr
          BY <3>2, <5>1 DEF PortTypes
        <5>3. Ports!Walked("x", g)' = Ports!Walked("x", g)
          BY <2>1, <2>2, <5>2
        <5>4. \E q \in Ports!Walked("x", g) : q \in edited \/ icache[j].data = mem[q]
          BY <2>5, <3>2, <5>1, <5>2 DEF InsnsExact
        <5> QED
          BY <2>1, <5>1, <5>3, <5>4
      <4> QED
        BY <4>1, <4>2
    <3> QED
      BY <3>1, <3>2 DEF InsnsExact
  <2> QED
    BY <2>1, <2>4, <2>5
<1> QED
  BY <1>1, <1>2, <1>3

(* What the mode and the tables are changed by, with what it flushes.      *)
LEMMA FlushKeeps ==
  ASSUME Ports!MmuAssumption, PortInv, Ports!WriteStatus \/ Ports!ReadFatc
  PROVE  PortInv'
<1>1. /\ tlb' = [i \in DOMAIN tlb |-> Ports!NoPage]
      /\ icache' = [i \in DOMAIN icache |-> Ports!NoInsn]
  BY DEF Ports!WriteStatus, Ports!ReadFatc, Ports!flush_tlb, Ports!flush_icache
<1>2. EmptyTlb' /\ EmptyInsns'
  BY <1>1 DEF PortInv, PortTypes, EmptyTlb, EmptyInsns
<1>3. TlbExact'
  BY <1>2, NothingCached, PTL
<1>4. InsnsExact'
  BY <1>2, NoInsns, PTL
<1> QED
  BY <1>2, <1>3, <1>4 DEF PortInv, PortTypes, EmptyTlb, EmptyInsns, Ports!NoInsn

LEMMA WritePtbrKeeps == PortInv /\ Ports!WritePtbr => PortInv'
<1> SUFFICES ASSUME PortInv, Ports!WritePtbr PROVE PortInv'
  OBVIOUS
<1>1. /\ UNCHANGED <<mem, tlb, icache, edited>>
      /\ remapped' = (remapped \/ \E l \in Ports!Kind, b \in Ports!Addr :
                                     Ports!Walked(l, b)' # Ports!Walked(l, b))
  BY DEF Ports!WritePtbr, Ports!Remapped
<1>2. PortTypes /\ PortTypes'
  BY <1>1 DEF PortInv, PortTypes
<1>3. ASSUME ~remapped' PROVE TlbExact' /\ InsnsExact'
  <2>1. /\ TlbExact /\ InsnsExact
        /\ \A l \in Ports!Kind, b \in Ports!Addr : Ports!Walked(l, b)' = Ports!Walked(l, b)
    BY <1>1, <1>3 DEF PortInv
  <2>2. TlbExact'
    BY <1>1, <2>1 DEF TlbExact, Ports!translate, Ports!Cached
  <2> QED
    BY <1>1, <1>2, <2>1, <2>2, InsnsKeep
<1> QED
  BY <1>2, <1>3 DEF PortInv

LEMMA FenceIKeeps == PortInv /\ Ports!FenceI => PortInv'
<1> SUFFICES ASSUME PortInv, Ports!FenceI PROVE PortInv'
  OBVIOUS
<1>1. EmptyInsns' /\ UNCHANGED <<mem, supervisor, vm, ptbr, tlb, remapped>>
  BY DEF EmptyInsns, Ports!FenceI, Ports!flush_icache, PortInv, PortTypes
<1>2. InsnsExact'
  BY <1>1, NoInsns, PTL
<1>3. TlbExact => TlbExact'
  BY <1>1, WalksStay DEF TlbExact, Ports!translate, Ports!Cached
<1> QED
  BY <1>1, <1>2, <1>3 DEF PortInv, PortTypes, EmptyInsns, Ports!NoInsn

LEMMA PortStep ==
  ASSUME Ports!MmuAssumption, PortInv, [Ports!Next]_(Ports!vars)
  PROVE  PortInv'
<1>1. CASE \E a \in Ports!Addr : Ports!Load(a) \/ Ports!Store(a) \/ Ports!access_icache(a)
  BY <1>1, AccessKeeps
<1>2. CASE Ports!WriteStatus \/ Ports!ReadFatc
  BY <1>2, FlushKeeps
<1>3. CASE Ports!WritePtbr
  BY <1>3, WritePtbrKeeps
<1>4. CASE Ports!FenceI
  BY <1>4, FenceIKeeps
<1>5. CASE UNCHANGED Ports!vars
  <2>1. UNCHANGED <<mem, supervisor, vm, ptbr, tlb, icache, remapped, edited>>
    BY <1>5 DEF Ports!vars
  <2>2. TlbExact => TlbExact'
    BY <2>1, WalksStay DEF TlbExact, Ports!translate, Ports!Cached
  <2>3. PortTypes /\ PortTypes'
    BY <2>1 DEF PortInv, PortTypes
  <2>4. InsnsExact => InsnsExact'
    BY <2>1, <2>3, WalksStay, InsnsKeep
  <2> QED
    BY <2>1, <2>2, <2>3, <2>4 DEF PortInv
<1> QED
  BY <1>1, <1>2, <1>3, <1>4, <1>5 DEF Ports!Next

(* Whatever a program stores, maps and flushes, and for every size of the  *)
(* TLB and of the instruction cache: an access goes where a walk of the    *)
(* tables goes, unless a translation has changed since the last flush, and *)
(* a decoded instruction is the word of memory unless that has been        *)
(* written since (mmu.h, mmu.cc).                                          *)
THEOREM PortIsTransparent ==
  ASSUME Ports!MmuAssumption
  PROVE  Ports!Spec => []Ports!Transparent
<1>1. Ports!Init => PortInv
  BY PortStarts
<1>2. PortInv /\ [Ports!Next]_(Ports!vars) => PortInv'
  BY PortStep
<1>3. PortInv => Ports!Transparent
  BY PortInvIs
<1> QED
  BY <1>1, <1>2, <1>3, PTL DEF Ports!Spec
-----------------------------------------------------------------------------
(* TageLoop. An entry, and what the trips that trained it say of it: it    *)
(* counts the current trip as long as it knows a number of iterations.     *)
LoopEntry == [TAG : Branches \cup {0}, NbIter : 0 .. Loops!Iterations - 1,
              confid : 0 .. CONFLOOP, CurrentIter : 0 .. Loops!Iterations - 1,
              age : Nat, dir : BOOLEAN]

LoopTrained(e, ts, t) ==
    /\ ts \in Seq(Int) /\ Len(ts) <= CONFLOOP /\ t \in Nat
    /\ e.confid <= Len(ts)
    /\ \A k \in 0 .. e.confid - 1 : ts[Len(ts) - k] = e.NbIter
    /\ e.confid > 0 => e.NbIter >= 3
    /\ e.NbIter # 0 => e.CurrentIter = t

LoopWindow == [pc : Branches, LHIT : BOOLEAN, LVALID : BOOLEAN,
               NbIter : 0 .. Loops!Iterations - 1, predloop : BOOLEAN]

LoopInv ==
    /\ ltable \in LoopEntry /\ trip \in 0 .. Loops!Iterations - 1 /\ LoopTrained(ltable, trips, trip)
    /\ window \in Seq(LoopWindow)
    /\ \A k \in DOMAIN window : window[k].LVALID => window[k].NbIter >= 3

LEMMA LoopSizes ==
  ASSUME Loops!TageLoopAssumption
  PROVE  /\ Loops!Iterations \in Nat \ {0} /\ CONFLOOP \in Nat \ {0} /\ CONFITER \in Nat
         /\ NEWAGE \in Nat /\ InFlight \in Nat
BY DEF Loops!TageLoopAssumption, Loops!Iterations

LEMMA LoopStarts == Loops!TageLoopAssumption /\ Loops!Init => LoopInv
<1> SUFFICES ASSUME Loops!TageLoopAssumption, Loops!Init PROVE LoopInv
  OBVIOUS
<1> QED
  BY LoopSizes DEF Loops!Init, LoopInv, LoopEntry, LoopTrained

(* The trips that are kept: the newest ones, with the one that has ended.  *)
Newer(new, ts, t) ==
    /\ new \in Seq(Int) /\ Len(new) <= CONFLOOP /\ Len(new) \in Nat \ {0}
    /\ Len(new) = IF Len(ts) = CONFLOOP THEN CONFLOOP ELSE Len(ts) + 1
    /\ new[Len(new)] = t
    /\ \A k \in 1 .. Len(new) - 1 : new[Len(new) - k] = ts[Len(ts) - (k - 1)]

(* Positions counted from the end of a list.                               *)
LEMMA FromTheEnd ==
  ASSUME NEW l \in Nat
  PROVE  /\ \A k \in 1 .. l : (l + 1) - k \in 1 .. l /\ (l + 1) - k = l - (k - 1)
         /\ \A k \in 1 .. l - 1 :
              l - k \in 1 .. l /\ (l - k) + 1 = l - (k - 1) /\ (l - k) + 1 \in 1 .. l
OBVIOUS

LEMMA OneFewer ==
  ASSUME NEW c \in Nat, NEW d \in Nat, NEW m \in Nat, d <= m, d <= c + 1,
         NEW k \in 0 .. d - 1, k # 0
  PROVE  k \in 1 .. m - 1 /\ k - 1 \in 0 .. c - 1
OBVIOUS

LEMMA NewestTrips ==
  ASSUME Loops!TageLoopAssumption, NEW ts \in Seq(Int), Len(ts) <= CONFLOOP, NEW t \in Int
  PROVE  Newer(Loops!Newest(Append(ts, t)), ts, t)
<1> PICK s : s = Append(ts, t)
  OBVIOUS
<1> PICK l \in Nat : l = Len(ts)
  OBVIOUS
<1> PICK c \in Nat \ {0} : c = CONFLOOP
  BY LoopSizes
<1>1. /\ s \in Seq(Int) /\ Len(s) = l + 1
      /\ \A k \in 1 .. l : s[k] = ts[k]
      /\ s[l + 1] = t
  OBVIOUS
<1> PICK f \in Int : f = IF l + 1 > c THEN 2 ELSE 1
  OBVIOUS
<1> PICK new : new = SubSeq(s, f, l + 1)
  OBVIOUS
<1>2. new = Loops!Newest(Append(ts, t))
  BY <1>1 DEF Loops!Newest
<1> HIDE DEF Loops!Newest
<1>3. l <= c /\ ((f = 1 /\ l < c) \/ (f = 2 /\ l = c))
  OBVIOUS
<1>4. /\ new \in Seq(Int) /\ Len(new) = l + 2 - f
      /\ \A k \in 1 .. l + 2 - f : new[k] = s[f + k - 1]
  <2>1. \A k \in f .. l + 1 : s[k] \in Int
    BY <1>1, <1>3
  <2>2. /\ SubSeq(s, f, l + 1) \in Seq(Int)
        /\ Len(SubSeq(s, f, l + 1)) = IF f <= l + 1 THEN l + 1 - f + 1 ELSE 0
        /\ \A k \in 1 .. l + 1 - f + 1 : SubSeq(s, f, l + 1)[k] = s[f + k - 1]
    BY <2>1, SubSeqProperties
  <2>3. f <= l + 1 /\ l + 1 - f + 1 = l + 2 - f
    BY <1>3
  <2> QED
    BY <2>2, <2>3
<1>5. CASE f = 1 /\ l < c
  <2>1. /\ Len(new) = l + 1 /\ new[l + 1] = s[l + 1] /\ \A k \in 1 .. l : new[k] = s[k]
    BY <1>4, <1>5
  <2>2. ASSUME NEW k \in 1 .. l PROVE new[(l + 1) - k] = ts[l - (k - 1)]
    <3>1. (l + 1) - k \in 1 .. l /\ (l + 1) - k = l - (k - 1)
      BY FromTheEnd
    <3> PICK i \in 1 .. l : i = (l + 1) - k /\ i = l - (k - 1)
      BY <3>1
    <3>2. new[i] = s[i] /\ s[i] = ts[i]
      BY <1>1, <2>1
    <3> QED
      BY <3>2, Zenon
  <2>3. l # CONFLOOP /\ (l + 1) - 1 = l /\ l + 1 \in Nat \ {0} /\ l + 1 <= CONFLOOP
    BY <1>5
  <2>4. PICK m \in Nat \ {0} : m = l + 1
    OBVIOUS
  <2>5. new \in Seq(Int) /\ Len(new) = m /\ new[m] = t
    BY <1>1, <1>4, <2>1, <2>4
  <2>6. \A k \in 1 .. m - 1 : new[m - k] = ts[l - (k - 1)]
    BY <2>2, <2>3, <2>4
  <2>7. Newer(new, ts, t)
    BY <2>3, <2>4, <2>5, <2>6 DEF Newer
  <2> QED
    BY <1>2, <2>7, Zenon
<1>6. CASE f = 2 /\ l = c
  <2>1. Len(new) = l /\ \A k \in 1 .. l : new[k] = s[k + 1]
    <3>1. l + 2 - f = l /\ \A k \in 1 .. l : f + k - 1 = k + 1
      BY <1>6
    <3> QED
      BY <1>4, <3>1
  <2>2. ASSUME NEW k \in 1 .. l - 1 PROVE new[l - k] = ts[l - (k - 1)]
    <3> PICK i \in 1 .. l : i = l - k /\ i + 1 = l - (k - 1)
      BY FromTheEnd
    <3>1. i + 1 = l - (k - 1) /\ i + 1 \in 1 .. l
      BY FromTheEnd
    <3>2. new[i] = s[i + 1] /\ s[i + 1] = ts[i + 1]
      BY <1>1, <2>1, <3>1
    <3> QED
      BY <3>1, <3>2
  <2>3. l = CONFLOOP /\ l \in Nat \ {0} /\ new[l] = t
    BY <1>1, <1>6, <2>1
  <2>4. /\ new \in Seq(Int) /\ Len(new) <= CONFLOOP /\ Len(new) \in Nat \ {0}
        /\ Len(new) = IF l = CONFLOOP THEN CONFLOOP ELSE l + 1
    <3>1. l <= l
      OBVIOUS
    <3> QED
      BY <1>4, <2>1, <2>3, <3>1, Zenon
  <2>5. \A k \in 1 .. Len(new) - 1 : new[Len(new) - k] = ts[Len(ts) - (k - 1)]
    <3>1. Len(ts) = l
      OBVIOUS
    <3>2. Len(new) = l
      BY <2>1
    <3> QED
      BY <2>2, <3>1, <3>2, Zenon
  <2>6. Newer(new, ts, t)
    BY <2>1, <2>3, <2>4, <2>5 DEF Newer
  <2> QED
    BY <1>2, <2>6, Zenon
<1> QED
  BY <1>3, <1>5, <1>6

(* A freed entry knows nothing: nothing is said of its trips.              *)
LEMMA FreedTrained ==
  ASSUME Loops!TageLoopAssumption, NEW e \in LoopEntry, e.confid = 0, e.NbIter = 0,
         NEW ts \in Seq(Int), Len(ts) <= CONFLOOP, NEW t \in Nat
  PROVE  LoopTrained(e, ts, t)
BY DEF LoopTrained

(* One more trip of the same number of iterations.                         *)
LEMMA SameTrip ==
  ASSUME Loops!TageLoopAssumption, NEW e \in LoopEntry, NEW ts, NEW t, LoopTrained(e, ts, t),
         NEW n \in Int, n = e.NbIter, n >= 3,
         NEW new \in LoopEntry, new.NbIter = n,
         new.confid = IF e.confid < CONFLOOP THEN e.confid + 1 ELSE e.confid,
         new.CurrentIter = 0
  PROVE  LoopTrained(new, Loops!Newest(Append(ts, n)), 0)
<1> PICK s : s = Loops!Newest(Append(ts, n))
  OBVIOUS
<1> PICK top \in Nat \ {0} : top = CONFLOOP
  BY LoopSizes
<1> PICK c \in Nat : c = e.confid
  BY DEF LoopEntry
<1> PICK d \in Nat : d = new.confid
  BY DEF LoopEntry
<1>1. /\ ts \in Seq(Int) /\ Len(ts) <= CONFLOOP
      /\ c <= Len(ts) /\ \A k \in 0 .. c - 1 : ts[Len(ts) - k] = n
  BY DEF LoopTrained
<1> PICK l \in Nat : l = Len(ts)
  BY <1>1
<1>2. Newer(s, ts, n)
  BY <1>1, NewestTrips
<1> PICK m \in Nat \ {0} : m = Len(s)
  BY <1>2 DEF Newer
<1>3. /\ s \in Seq(Int) /\ m <= top /\ m = (IF l = top THEN top ELSE l + 1) /\ s[m] = n
      /\ \A k \in 1 .. m - 1 : s[m - k] = ts[l - (k - 1)]
  BY <1>2 DEF Newer
<1>4. d = (IF c < top THEN c + 1 ELSE c) /\ c <= l /\ l <= top
  BY <1>1
<1>5. d <= m /\ d <= c + 1
  BY <1>3, <1>4
<1>6. ASSUME NEW k \in 0 .. d - 1 PROVE s[m - k] = n
  <2>1. CASE k = 0
    BY <1>3, <2>1
  <2>2. CASE k # 0
    <3>1. k \in 1 .. m - 1 /\ k - 1 \in 0 .. c - 1
      BY <1>5, <2>2, OneFewer
    <3>2. s[m - k] = ts[l - (k - 1)]
      BY <1>3, <3>1
    <3>3. ts[l - (k - 1)] = n
      BY <1>1, <3>1
    <3> QED
      BY <3>2, <3>3
  <2> QED
    BY <2>1, <2>2
<1> QED
  BY <1>3, <1>5, <1>6 DEF LoopTrained

(* A trip goes on: the entry counts it, or gives its number up.            *)
LEMMA TripGoesOn ==
  ASSUME Loops!TageLoopAssumption, NEW e \in LoopEntry, NEW ts, NEW t \in 0 .. Loops!Iterations - 1,
         LoopTrained(e, ts, t), NEW new \in LoopEntry,
         \/ new.confid = 0 /\ new.NbIter = 0
         \/ /\ new.confid = e.confid /\ new.NbIter = e.NbIter
            /\ new.CurrentIter = (e.CurrentIter + 1) % Loops!Iterations
  PROVE  LoopTrained(new, ts, (t + 1) % Loops!Iterations)
<1>1. (t + 1) % Loops!Iterations \in Nat
  BY LoopSizes
<1>2. CASE new.confid = 0 /\ new.NbIter = 0
  BY <1>1, <1>2 DEF LoopTrained
<1>3. CASE /\ new.confid = e.confid /\ new.NbIter = e.NbIter
           /\ new.CurrentIter = (e.CurrentIter + 1) % Loops!Iterations
  BY <1>1, <1>3 DEF LoopTrained
<1> QED
  BY <1>2, <1>3

-----------------------------------------------------------------------------
(* What the updates of an entry leave alone.                               *)
LEMMA Cleared ==
  ASSUME Loops!TageLoopAssumption, NEW e \in LoopEntry,
         NEW new, new = [e EXCEPT !.confid = 0, !.NbIter = 0]
  PROVE  /\ new \in LoopEntry /\ new.TAG = e.TAG /\ new.dir = e.dir
         /\ new.CurrentIter = e.CurrentIter /\ new.confid = 0 /\ new.NbIter = 0
<1>1. 0 \in 0 .. CONFLOOP /\ 0 \in 0 .. Loops!Iterations - 1
  BY LoopSizes
<1> QED
  BY <1>1 DEF LoopEntry

LEMMA FreedIs ==
  ASSUME Loops!TageLoopAssumption, NEW e \in LoopEntry, NEW new, new = Loops!Freed(e)
  PROVE  /\ new \in LoopEntry /\ new.TAG = e.TAG /\ new.dir = e.dir
         /\ new.CurrentIter = e.CurrentIter /\ new.confid = 0 /\ new.NbIter = 0
<1>1. 0 \in 0 .. CONFLOOP /\ 0 \in 0 .. Loops!Iterations - 1 /\ 0 \in Nat
  BY LoopSizes
<1>2. new = [e EXCEPT !.NbIter = 0, !.age = 0, !.confid = 0]
  BY DEF Loops!Freed
<1> QED
  BY <1>1, <1>2 DEF LoopEntry

LEMMA Restarted ==
  ASSUME Loops!TageLoopAssumption, NEW e \in LoopEntry,
         NEW new, new = [e EXCEPT !.CurrentIter = 0]
  PROVE  /\ new \in LoopEntry /\ new.TAG = e.TAG /\ new.dir = e.dir
         /\ new.CurrentIter = 0 /\ new.confid = e.confid /\ new.NbIter = e.NbIter
<1>1. 0 \in 0 .. Loops!Iterations - 1
  BY LoopSizes
<1> QED
  BY <1>1 DEF LoopEntry

LEMMA LeftIs ==
  ASSUME Loops!TageLoopAssumption, NEW e \in LoopEntry, NEW taken \in BOOLEAN,
         NEW new, new = Loops!Left(e, taken)
  PROVE  /\ new \in LoopEntry /\ new.TAG = e.TAG
         /\ \/ new.confid = 0 /\ new.NbIter = 0
            \/ new.confid = 0 /\ new.dir = e.dir
            \/ /\ new.dir = e.dir /\ new.NbIter = e.NbIter /\ e.NbIter >= 3
               /\ e.CurrentIter = e.NbIter
               /\ new.confid = IF e.confid < CONFLOOP THEN e.confid + 1 ELSE e.confid
<1> PICK c \in 0 .. CONFLOOP : c = IF e.confid < CONFLOOP THEN e.confid + 1 ELSE e.confid
  BY LoopSizes DEF LoopEntry
<1> PICK same : same = [e EXCEPT !.confid = c]
  OBVIOUS
<1>1. /\ same \in LoopEntry /\ same.TAG = e.TAG /\ same.dir = e.dir /\ same.confid = c
      /\ same.NbIter = e.NbIter
  BY DEF LoopEntry
<1>2. new = IF e.CurrentIter = e.NbIter
            THEN IF e.NbIter < 3 THEN [Loops!Freed(same) EXCEPT !.dir = taken] ELSE same
            ELSE [e EXCEPT !.confid = 0, !.NbIter = IF @ = 0 THEN e.CurrentIter ELSE 0]
  BY DEF Loops!Left
<1>3. CASE e.CurrentIter = e.NbIter /\ e.NbIter < 3
  <2> PICK freed : freed = Loops!Freed(same)
    OBVIOUS
  <2>1. freed \in LoopEntry /\ freed.TAG = e.TAG /\ freed.confid = 0 /\ freed.NbIter = 0
    BY <1>1, FreedIs
  <2>2. new = [freed EXCEPT !.dir = taken]
    BY <1>2, <1>3
  <2> QED
    BY <2>1, <2>2 DEF LoopEntry
<1>4. CASE e.CurrentIter = e.NbIter /\ ~(e.NbIter < 3)
  <2>1. e.NbIter >= 3
    BY <1>4, LoopSizes DEF LoopEntry
  <2> QED
    BY <1>1, <1>2, <1>4, <2>1
<1>5. CASE e.CurrentIter # e.NbIter
  <2> PICK n : n = IF e.NbIter = 0 THEN e.CurrentIter ELSE 0
    OBVIOUS
  <2>1. n \in 0 .. Loops!Iterations - 1 /\ 0 \in 0 .. CONFLOOP
    BY LoopSizes DEF LoopEntry
  <2>2. new = [e EXCEPT !.confid = 0, !.NbIter = n]
    BY <1>2, <1>5
  <2> QED
    BY <2>1, <2>2 DEF LoopEntry
<1> QED
  BY <1>3, <1>4, <1>5

(* Trained, by what happens to the entry.                                  *)
LEMMA TrainedIs ==
  ASSUME Loops!TageLoopAssumption, NEW e \in LoopEntry, e = ltable,
         NEW w \in LoopWindow, NEW taken \in BOOLEAN, NEW useful \in BOOLEAN,
         NEW new, new = Loops!Trained(w, taken, useful)
  PROVE  /\ new \in LoopEntry /\ new.TAG = e.TAG
         /\ \/ new.confid = 0 /\ new.NbIter = 0
            \/ /\ taken # e.dir /\ new.dir = e.dir /\ new.CurrentIter = 0 /\ new.confid = 0
            \/ /\ taken # e.dir /\ new.dir = e.dir /\ new.CurrentIter = 0
               /\ new.NbIter = e.NbIter /\ e.NbIter >= 3
               /\ e.NbIter = (e.CurrentIter + 1) % Loops!Iterations
               /\ new.confid = IF e.confid < CONFLOOP THEN e.confid + 1 ELSE e.confid
            \/ /\ taken = e.dir /\ new.dir = e.dir
               /\ new.confid = e.confid /\ new.NbIter = e.NbIter
               /\ new.CurrentIter = (e.CurrentIter + 1) % Loops!Iterations
<1> PICK it \in Nat \ {0} : it = Loops!Iterations
  BY LoopSizes
<1> DEFINE aged == [e EXCEPT !.age = IF w.LVALID /\ useful /\ @ < CONFLOOP THEN @ + 1 ELSE @,
                             !.CurrentIter = (@ + 1) % it]
           f == IF aged.CurrentIter > aged.NbIter THEN [aged EXCEPT !.confid = 0, !.NbIter = 0] ELSE aged
<1>1. new = IF w.LVALID /\ taken # w.predloop THEN [Loops!Freed(e) EXCEPT !.CurrentIter = 0]
            ELSE IF taken # f.dir THEN [Loops!Left(f, taken) EXCEPT !.CurrentIter = 0]
            ELSE f
  BY DEF Loops!Trained
<1>2. /\ aged \in LoopEntry /\ aged.TAG = e.TAG /\ aged.dir = e.dir /\ aged.confid = e.confid
      /\ aged.NbIter = e.NbIter /\ aged.CurrentIter = (e.CurrentIter + 1) % it
  <2>1. (e.CurrentIter + 1) % it \in 0 .. it - 1
    BY DEF LoopEntry
  <2>2. (IF w.LVALID /\ useful /\ e.age < CONFLOOP THEN e.age + 1 ELSE e.age) \in Nat
    BY DEF LoopEntry
  <2> QED
    BY <2>1, <2>2 DEF LoopEntry
<1> HIDE DEF aged
<1>3. /\ f \in LoopEntry /\ f.TAG = e.TAG /\ f.dir = e.dir
      /\ f.CurrentIter = (e.CurrentIter + 1) % it
      /\ \/ f.confid = 0 /\ f.NbIter = 0
         \/ f.confid = e.confid /\ f.NbIter = e.NbIter
  <2>1. CASE aged.CurrentIter > aged.NbIter
    <3>1. f = [aged EXCEPT !.confid = 0, !.NbIter = 0]
      BY <2>1
    <3>2. aged \in LoopEntry
      BY <1>2
    <3>3. f \in LoopEntry /\ f.TAG = aged.TAG /\ f.dir = aged.dir
          /\ f.CurrentIter = aged.CurrentIter /\ f.confid = 0 /\ f.NbIter = 0
      <4> HIDE DEF f
      <4> QED
        BY <3>1, <3>2, Cleared
    <3> QED
      BY <1>2, <3>3
  <2>2. CASE ~(aged.CurrentIter > aged.NbIter)
    BY <1>2, <2>2
  <2> QED
    BY <2>1, <2>2
<1> HIDE DEF f
<1>4. CASE w.LVALID /\ taken # w.predloop
  <2> PICK freed : freed = Loops!Freed(e)
    OBVIOUS
  <2>1. new = [freed EXCEPT !.CurrentIter = 0]
    BY <1>1, <1>4
  <2> QED
    BY <2>1, FreedIs, Restarted
<1>5. CASE ~(w.LVALID /\ taken # w.predloop) /\ taken # f.dir
  <2> PICK left : left = Loops!Left(f, taken)
    OBVIOUS
  <2>1. new = [left EXCEPT !.CurrentIter = 0]
    BY <1>1, <1>5
  <2>2. /\ left \in LoopEntry /\ left.TAG = e.TAG
        /\ \/ left.confid = 0 /\ left.NbIter = 0
           \/ left.confid = 0 /\ left.dir = f.dir
           \/ /\ left.dir = f.dir /\ left.NbIter = f.NbIter /\ f.NbIter >= 3
              /\ f.CurrentIter = f.NbIter
              /\ left.confid = IF f.confid < CONFLOOP THEN f.confid + 1 ELSE f.confid
    BY <1>3, LeftIs
  <2>3. /\ new \in LoopEntry /\ new.TAG = left.TAG /\ new.dir = left.dir
        /\ new.CurrentIter = 0 /\ new.confid = left.confid /\ new.NbIter = left.NbIter
    BY <2>1, <2>2, Restarted
  <2> QED
    BY <1>3, <1>5, <2>2, <2>3
<1>6. CASE ~(w.LVALID /\ taken # w.predloop) /\ taken = f.dir
  BY <1>1, <1>3, <1>6
<1> QED
  BY <1>4, <1>5, <1>6

(* Allocated: the old entry ages, or the branch takes it over.             *)
LEMMA AllocatedIs ==
  ASSUME Loops!TageLoopAssumption, NEW e \in LoopEntry, e = ltable,
         NEW b \in Branches, NEW taken \in BOOLEAN, NEW new, new = Loops!Allocated(b, taken)
  PROVE  /\ new \in LoopEntry
         /\ \/ /\ e.age # 0 /\ new.TAG = e.TAG /\ new.dir = e.dir /\ new.confid = e.confid
               /\ new.NbIter = e.NbIter /\ new.CurrentIter = e.CurrentIter
            \/ e.age = 0 /\ new.confid = 0 /\ new.NbIter = 0
<1>1. CASE e.age > 0
  <2>1. e.age - 1 \in Nat /\ e.age # 0
    BY <1>1 DEF LoopEntry
  <2>2. new = [e EXCEPT !.age = e.age - 1]
    BY <1>1 DEF Loops!Allocated
  <2> QED
    BY <2>1, <2>2 DEF LoopEntry
<1>2. CASE ~(e.age > 0)
  <2>1. e.age = 0
    BY <1>2 DEF LoopEntry
  <2>2. new = [TAG |-> b, NbIter |-> 0, confid |-> 0, CurrentIter |-> 0, age |-> NEWAGE,
               dir |-> ~taken]
    BY <1>2 DEF Loops!Allocated
  <2>3. 0 \in 0 .. CONFLOOP /\ 0 \in 0 .. Loops!Iterations - 1 /\ NEWAGE \in Nat
    BY LoopSizes
  <2> QED
    BY <2>1, <2>2, <2>3 DEF LoopEntry
<1> QED
  BY <1>1, <1>2

-----------------------------------------------------------------------------
(* What getloop() finds: a valid prediction knows three iterations.        *)
LoopsFound(win) == /\ win \in Seq(LoopWindow)
                   /\ \A k \in DOMAIN win : win[k].LVALID => win[k].NbIter >= 3

LEMMA LoopLookup == Loops!TageLoopAssumption /\ LoopInv /\ Loops!getloop => LoopInv'
<1> SUFFICES ASSUME Loops!TageLoopAssumption, LoopInv, Loops!getloop PROVE LoopInv'
  OBVIOUS
<1> PICK b \in Branches :
      /\ window' = Append(window,
           [pc |-> b, LHIT |-> ltable.TAG = b,
            LVALID |-> ltable.TAG = b
                       /\ (ltable.confid = CONFLOOP \/ ltable.confid * ltable.NbIter > CONFITER),
            NbIter |-> IF ltable.TAG = b THEN ltable.NbIter ELSE 0,
            predloop |-> ltable.TAG = b /\ ltable.dir = ~(ltable.CurrentIter + 1 = ltable.NbIter)])
      /\ UNCHANGED <<ltable, trips, trip>>
  BY Zenon DEF Loops!getloop
<1> PICK hit \in BOOLEAN : hit = (ltable.TAG = b)
  OBVIOUS
<1> PICK exit \in BOOLEAN : exit = (ltable.CurrentIter + 1 = ltable.NbIter)
  OBVIOUS
<1> PICK c \in Nat : c = ltable.confid
  BY DEF LoopInv, LoopEntry
<1> PICK n \in 0 .. Loops!Iterations - 1 : n = ltable.NbIter
  BY DEF LoopInv, LoopEntry
<1> PICK q \in Int : q = c * n
  OBVIOUS
<1> PICK v \in BOOLEAN : v = (hit /\ (c = CONFLOOP \/ q > CONFITER))
  OBVIOUS
<1> PICK p \in BOOLEAN : p = (hit /\ ltable.dir = ~exit)
  OBVIOUS
<1> PICK m \in 0 .. Loops!Iterations - 1 : m = IF hit THEN n ELSE 0
  BY LoopSizes
<1> PICK w : w = [pc |-> b, LHIT |-> hit, LVALID |-> v, NbIter |-> m, predloop |-> p]
  OBVIOUS
<1>1. window' = Append(window, w)
  OBVIOUS
<1>2. w \in LoopWindow
  BY DEF LoopWindow
<1>3. w.LVALID => w.NbIter >= 3
  <2>1. v => c # 0
    <3>1. c = 0 => q = 0
      BY SMT
    <3>2. v => c = CONFLOOP \/ q > CONFITER
      OBVIOUS
    <3> QED
      BY <3>1, <3>2, LoopSizes
  <2>2. c # 0 => n >= 3
    BY DEF LoopInv, LoopTrained
  <2>3. v => m = n
    OBVIOUS
  <2> QED
    BY <2>1, <2>2, <2>3
<1>4. LoopsFound(window)'
  BY <1>1, <1>2, <1>3 DEF LoopInv, LoopsFound
<1> QED
  BY <1>4 DEF LoopInv, LoopsFound

LEMMA LoopSquash == Loops!TageLoopAssumption /\ LoopInv /\ Loops!Squash => LoopInv'
<1> SUFFICES ASSUME Loops!TageLoopAssumption, LoopInv, NEW k \in 0 .. Len(window) - 1,
                    window' = SubSeq(window, 1, k), UNCHANGED <<ltable, trips, trip>>
             PROVE  LoopInv'
  BY DEF Loops!Squash
<1>1. window \in Seq(LoopWindow) /\ k \in Int /\ k >= 0 /\ k <= Len(window)
  BY DEF LoopInv
<1>2. \A i \in 1 .. k : window[i] \in LoopWindow
  BY <1>1
<1>3. /\ window' \in Seq(LoopWindow) /\ Len(window') = k
      /\ \A i \in 1 .. k : window'[i] = window[i]
  BY <1>1, <1>2, SubSeqProperties
<1>4. LoopsFound(window)'
  BY <1>1, <1>3 DEF LoopInv, LoopsFound
<1> QED
  BY <1>4 DEF LoopInv, LoopsFound

(* The bookkeeping after a branch has trained the entry it found.          *)
LEMMA LoopHit ==
  ASSUME Loops!TageLoopAssumption, NEW e \in LoopEntry, e = ltable,
         NEW ts, NEW t \in 0 .. Loops!Iterations - 1, LoopTrained(e, ts, t),
         NEW w \in LoopWindow, NEW taken \in BOOLEAN, NEW useful \in BOOLEAN,
         NEW new, new = Loops!Trained(w, taken, useful)
  PROVE  /\ new \in LoopEntry /\ new.TAG = e.TAG
         /\ new.dir # e.dir => LoopTrained(new, <<>>, 0)
         /\ new.dir = e.dir =>
              IF taken # e.dir
              THEN LoopTrained(new, Loops!Newest(Append(ts, (t + 1) % Loops!Iterations)), 0)
              ELSE LoopTrained(new, ts, (t + 1) % Loops!Iterations)
<1> PICK n \in Nat : n = (t + 1) % Loops!Iterations
  BY LoopSizes
<1> PICK s : s = Loops!Newest(Append(ts, n))
  OBVIOUS
<1>1. /\ ts \in Seq(Int) /\ Len(ts) <= CONFLOOP
  BY DEF LoopTrained
<1>2. s \in Seq(Int) /\ Len(s) <= CONFLOOP
  BY <1>1, NewestTrips DEF Newer
<1>3. <<>> \in Seq(Int) /\ Len(<<>>) <= CONFLOOP
  BY LoopSizes
<1>4. /\ new \in LoopEntry /\ new.TAG = e.TAG
      /\ \/ new.confid = 0 /\ new.NbIter = 0
         \/ /\ taken # e.dir /\ new.dir = e.dir /\ new.CurrentIter = 0 /\ new.confid = 0
         \/ /\ taken # e.dir /\ new.dir = e.dir /\ new.CurrentIter = 0
            /\ new.NbIter = e.NbIter /\ e.NbIter >= 3
            /\ e.NbIter = (e.CurrentIter + 1) % Loops!Iterations
            /\ new.confid = IF e.confid < CONFLOOP THEN e.confid + 1 ELSE e.confid
         \/ /\ taken = e.dir /\ new.dir = e.dir
            /\ new.confid = e.confid /\ new.NbIter = e.NbIter
            /\ new.CurrentIter = (e.CurrentIter + 1) % Loops!Iterations
  BY TrainedIs
<1>5. CASE new.confid = 0 /\ new.NbIter = 0
  <2>1. LoopTrained(new, <<>>, 0) /\ LoopTrained(new, s, 0) /\ LoopTrained(new, ts, n)
    BY <1>1, <1>2, <1>3, <1>4, <1>5, FreedTrained
  <2> QED
    BY <1>4, <2>1
<1>6. CASE taken # e.dir /\ new.dir = e.dir /\ new.CurrentIter = 0 /\ new.confid = 0
  <2>1. LoopTrained(new, s, 0)
    BY <1>2, <1>6 DEF LoopTrained
  <2> QED
    BY <1>4, <1>6, <2>1
<1>7. CASE /\ taken # e.dir /\ new.dir = e.dir /\ new.CurrentIter = 0
           /\ new.NbIter = e.NbIter /\ e.NbIter >= 3
           /\ e.NbIter = (e.CurrentIter + 1) % Loops!Iterations
           /\ new.confid = IF e.confid < CONFLOOP THEN e.confid + 1 ELSE e.confid
  <2>1. e.CurrentIter = t
    BY <1>7 DEF LoopTrained
  <2>2. n = e.NbIter
    BY <1>7, <2>1
  <2>3. LoopTrained(new, s, 0)
    BY <1>4, <1>7, <2>2, SameTrip
  <2> QED
    BY <1>4, <1>7, <2>3
<1>8. CASE /\ taken = e.dir /\ new.dir = e.dir
           /\ new.confid = e.confid /\ new.NbIter = e.NbIter
           /\ new.CurrentIter = (e.CurrentIter + 1) % Loops!Iterations
  <2>1. LoopTrained(new, ts, n)
    BY <1>4, <1>8, TripGoesOn
  <2> QED
    BY <1>4, <1>8, <2>1
<1> QED
  BY <1>4, <1>5, <1>6, <1>7, <1>8

LEMMA LoopTrains == Loops!TageLoopAssumption /\ LoopInv /\ Loops!loopupdateMicro => LoopInv'
<1> SUFFICES ASSUME Loops!TageLoopAssumption, LoopInv,
                    NEW taken \in BOOLEAN, NEW useful \in BOOLEAN, NEW alloc \in BOOLEAN,
                    NEW w, w = Head(window), window # <<>>, window' = Tail(window),
                    ltable' = IF w.LHIT THEN Loops!Trained(w, taken, useful)
                              ELSE IF alloc THEN Loops!Allocated(w.pc, taken) ELSE ltable,
                    IF \/ ltable'.TAG # ltable.TAG \/ ltable'.dir # ltable.dir
                       \/ ~w.LHIT /\ alloc /\ ltable.age = 0
                    THEN trips' = <<>> /\ trip' = 0
                    ELSE IF ~w.LHIT THEN UNCHANGED <<trips, trip>>
                    ELSE IF taken # ltable.dir
                    THEN trips' = Loops!Newest(Append(trips, (trip + 1) % Loops!Iterations)) /\ trip' = 0
                    ELSE trip' = (trip + 1) % Loops!Iterations /\ UNCHANGED trips
             PROVE  LoopInv'
  BY DEF Loops!loopupdateMicro
<1>1. LoopsFound(window)'
  <2>1. /\ window' \in Seq(LoopWindow) /\ Len(window') = Len(window) - 1
        /\ \A i \in 1 .. Len(window') : window'[i] = window[i + 1]
    BY HeadTailProperties DEF LoopInv
  <2> QED
    BY <2>1 DEF LoopInv, LoopsFound
<1>2. w \in LoopWindow /\ w.pc \in Branches
  <2>1. w \in LoopWindow
    BY HeadTailProperties DEF LoopInv
  <2> QED
    BY <2>1 DEF LoopWindow
<1> PICK e : e = ltable
  OBVIOUS
<1>3. /\ e \in LoopEntry /\ trip \in 0 .. Loops!Iterations - 1 /\ LoopTrained(e, trips, trip)
  BY DEF LoopInv
<1>4. /\ 0 \in 0 .. Loops!Iterations - 1
      /\ (trip + 1) % Loops!Iterations \in 0 .. Loops!Iterations - 1
      /\ <<>> \in Seq(Int) /\ Len(<<>>) <= CONFLOOP
  BY <1>3, LoopSizes
<1>5. /\ ltable' \in LoopEntry /\ trip' \in 0 .. Loops!Iterations - 1
      /\ LoopTrained(ltable', trips', trip')
  <2> PICK new : new = ltable'
    OBVIOUS
  <2>1. CASE w.LHIT
    <3>1. new = Loops!Trained(w, taken, useful)
      BY <2>1
    <3>2. /\ new \in LoopEntry /\ new.TAG = e.TAG
          /\ new.dir # e.dir => LoopTrained(new, <<>>, 0)
          /\ new.dir = e.dir =>
               IF taken # e.dir
               THEN LoopTrained(new, Loops!Newest(Append(trips, (trip + 1) % Loops!Iterations)), 0)
               ELSE LoopTrained(new, trips, (trip + 1) % Loops!Iterations)
      BY <1>2, <1>3, <3>1, LoopHit
    <3>3. CASE new.dir # e.dir
      <4>1. trips' = <<>> /\ trip' = 0
        BY <3>3
      <4> QED
        BY <1>4, <3>2, <3>3, <4>1
    <3>4. CASE new.dir = e.dir /\ taken # e.dir
      <4>1. trips' = Loops!Newest(Append(trips, (trip + 1) % Loops!Iterations)) /\ trip' = 0
        BY <2>1, <3>2, <3>4
      <4> QED
        BY <1>4, <3>2, <3>4, <4>1
    <3>5. CASE new.dir = e.dir /\ taken = e.dir
      <4>1. trip' = (trip + 1) % Loops!Iterations /\ trips' = trips
        BY <2>1, <3>2, <3>5
      <4> QED
        BY <1>4, <3>2, <3>5, <4>1
    <3> QED
      BY <3>3, <3>4, <3>5
  <2>2. CASE ~w.LHIT /\ alloc
    <3>1. new = Loops!Allocated(w.pc, taken)
      BY <2>2
    <3>2. /\ new \in LoopEntry
          /\ \/ /\ e.age # 0 /\ new.TAG = e.TAG /\ new.dir = e.dir /\ new.confid = e.confid
                /\ new.NbIter = e.NbIter /\ new.CurrentIter = e.CurrentIter
             \/ e.age = 0 /\ new.confid = 0 /\ new.NbIter = 0
      BY <1>2, <1>3, <3>1, AllocatedIs
    <3>3. CASE /\ e.age # 0 /\ new.TAG = e.TAG /\ new.dir = e.dir /\ new.confid = e.confid
               /\ new.NbIter = e.NbIter /\ new.CurrentIter = e.CurrentIter
      <4>1. trips' = trips /\ trip' = trip
        BY <2>2, <3>3
      <4>2. LoopTrained(new, trips, trip)
        BY <1>3, <3>3 DEF LoopTrained
      <4> QED
        BY <1>3, <3>2, <4>1, <4>2
    <3>4. CASE e.age = 0 /\ new.confid = 0 /\ new.NbIter = 0
      <4>1. trips' = <<>> /\ trip' = 0
        BY <2>2, <3>4
      <4>2. LoopTrained(new, <<>>, 0)
        BY <1>4, <3>2, <3>4, FreedTrained
      <4> QED
        BY <1>4, <3>2, <4>1, <4>2
    <3> QED
      BY <3>2, <3>3, <3>4
  <2>3. CASE ~w.LHIT /\ ~alloc
    <3>1. new = e /\ trips' = trips /\ trip' = trip
      BY <2>3
    <3> QED
      BY <1>3, <3>1
  <2> QED
    BY <2>1, <2>2, <2>3
<1> QED
  BY <1>1, <1>5 DEF LoopInv, LoopsFound

(* Whoever trains, frees and takes over the entry of a loop: it is as      *)
(* confident as the trips in a row that had its number of iterations, and  *)
(* a valid prediction knows three iterations or more (LoopTrips).          *)
THEOREM LoopsCountTrips ==
  ASSUME Loops!TageLoopAssumption
  PROVE  Loops!Spec => []Loops!LoopTrips
<1>1. Loops!Init => LoopInv
  BY LoopStarts
<1>2. LoopInv /\ [Loops!Next]_Loops!vars => LoopInv'
  <2>1. ASSUME LoopInv, UNCHANGED Loops!vars PROVE LoopInv'
    BY <2>1 DEF Loops!vars, LoopInv, LoopTrained
  <2> QED
    BY <2>1, LoopLookup, LoopTrains, LoopSquash DEF Loops!Next
<1>3. LoopInv => Loops!LoopTrips
  BY DEF LoopInv, LoopTrained, Loops!LoopTrips
<1> QED
  BY <1>1, <1>2, <1>3, PTL DEF Loops!Spec
=============================================================================
