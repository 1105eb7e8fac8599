---------------------------- MODULE CheckerProofs ----------------------------
(***************************************************************************)
(* Theorems about Checker: the pipeline and the functional simulator take  *)
(* the same steps, and the links between them hold.                        *)
(***************************************************************************)
EXTENDS Checker, Counting, SequenceTheorems

-----------------------------------------------------------------------------
(* A processor: what its fields hold, as far as the proofs depend on it.   *)
IsHost(h) ==
    /\ h = [at |-> h.at, old |-> h.old, pending |-> h.pending, exit |-> h.exit]
    /\ h.pending \in Seq(Nat)
    /\ h.at = "fromhost" /\ h.old = 0 => h.pending # <<>>

Shape(p) ==
    p = [pc |-> p.pc, x |-> p.x, count |-> p.count, compare |-> p.compare, timer |-> p.timer,
         supervisor |-> p.supervisor, previous |-> p.previous, epc |-> p.epc,
         tohost |-> p.tohost, fromhost |-> p.fromhost, serialized |-> p.serialized,
         run |-> p.run, step |-> p.step, host |-> p.host]

IsProc(p) ==
    /\ Shape(p)
    /\ {p.pc, p.x, p.count, p.compare, p.epc, p.tohost, p.fromhost, p.step} \subseteq Nat
    /\ IsHost(p.host)

(* Two processors that differ in nothing but the PC and the steps since    *)
(* the host's last turn.                                                   *)
Alike(p, q) ==
    /\ p.x = q.x /\ p.count = q.count /\ p.compare = q.compare /\ p.timer = q.timer
    /\ p.supervisor = q.supervisor /\ p.previous = q.previous /\ p.epc = q.epc
    /\ p.tohost = q.tohost /\ p.fromhost = q.fromhost /\ p.serialized = q.serialized
    /\ p.run = q.run /\ p.host = q.host

(* A booted processor is one, with no steps since the host's last turn.    *)
LEMMA BootIs == IsProc(Boot) /\ Boot.step = 0
<1> PICK h : h = Boot.host
  OBVIOUS
<1>1. h = [at |-> "fromhost", old |-> 1, pending |-> <<>>, exit |-> FALSE]
  BY DEF Boot
<1>2. IsHost(h)
  BY <1>1 DEF IsHost
<1>3. /\ Shape(Boot)
      /\ {Boot.x, Boot.count, Boot.compare, Boot.tohost, Boot.fromhost, Boot.step} = {0}
      /\ Boot.pc = 1 /\ Boot.epc = 1
  BY DEF Boot, Shape
<1>4. Boot.step = 0
  BY DEF Boot
<1> QED
  BY <1>2, <1>3, <1>4 DEF IsProc

(* The host's queues are still queues after its turn.                      *)
LEMMA TurnIs ==
  ASSUME NEW h, IsHost(h)
  PROVE  /\ HostTurn(h) = [at |-> HostTurn(h).at, old |-> h.old,
                           pending |-> HostTurn(h).pending, exit |-> HostTurn(h).exit]
         /\ HostTurn(h).pending \in Seq(Nat)
         /\ HostTurn(h).at = "fromhost" => HostTurn(h).pending # <<>>
<1> DEFINE answer == IF h.at = "tohost" /\ h.old = Read THEN Append(h.pending, Reply) ELSE h.pending
           rest   == IF h.at = "fromhost" /\ h.old = 0 THEN Tail(h.pending) ELSE answer
           exit   == h.exit \/ (h.at = "tohost" /\ h.old = Exit)
           at     == CASE h.at = "tohost" /\ rest # <<>> -> "fromhost"
                       [] OTHER -> IF exit THEN "reset" ELSE "tohost"
<1>1. HostTurn(h) = [h EXCEPT !.pending = rest, !.exit = exit, !.at = at]
  BY DEF HostTurn
<1>2. answer \in Seq(Nat)
  BY DEF IsHost, Reply, Read
<1>3. rest \in Seq(Nat)
  BY <1>2, HeadTailProperties DEF IsHost
<1>4. at = "fromhost" => rest # <<>>
  OBVIOUS
<1> HIDE DEF rest, exit, at
<1>5. HostTurn(h) = [at |-> at, old |-> h.old, pending |-> rest, exit |-> exit]
  BY <1>1 DEF IsHost
<1> QED
  BY <1>3, <1>4, <1>5

(* What a packet of the host leaves alone; and what a reset does.          *)
Set(r, p, tohost, fromhost, host) ==
    /\ Shape(r) /\ r.pc = p.pc /\ r.x = p.x /\ r.count = p.count /\ r.compare = p.compare
    /\ r.timer = p.timer /\ r.supervisor = p.supervisor /\ r.previous = p.previous
    /\ r.epc = p.epc /\ r.tohost = tohost /\ r.fromhost = fromhost
    /\ r.serialized = p.serialized /\ r.run = p.run /\ r.step = p.step /\ r.host = host

WasReset(r, p, host) ==
    /\ Shape(r) /\ r.pc = 1 /\ r.x = 0 /\ r.count = 0 /\ r.compare = 0 /\ r.timer = FALSE
    /\ r.supervisor = TRUE /\ r.previous = FALSE /\ r.epc = 1 /\ r.tohost = 0 /\ r.fromhost = 0
    /\ r.serialized = p.serialized /\ r.run = FALSE /\ r.step = p.step /\ r.host = host

LEMMA HostGets ==
  ASSUME NEW p, Shape(p), NEW g, NEW r, r = [p EXCEPT !.tohost = 0, !.host = g]
  PROVE  Set(r, p, 0, p.fromhost, g)
BY DEF Shape, Set

LEMMA HostGives ==
  ASSUME NEW p, Shape(p), NEW v, NEW g, NEW r, r = [p EXCEPT !.fromhost = v, !.host = g]
  PROVE  Set(r, p, p.tohost, v, g)
BY DEF Shape, Set

LEMMA HostResets ==
  ASSUME NEW p, Shape(p), NEW g, NEW r, r = Reset([p EXCEPT !.host = g])
  PROVE  WasReset(r, p, g)
<1> PICK t : t = [p EXCEPT !.host = g]
  OBVIOUS
<1>1. t.host = g /\ t.step = p.step /\ t.serialized = p.serialized
  BY DEF Shape
<1>2. r = [Boot EXCEPT !.run = FALSE, !.step = p.step, !.host = g, !.serialized = p.serialized]
  BY <1>1 DEF Reset
<1>3. r = [pc |-> 1, x |-> 0, count |-> 0, compare |-> 0, timer |-> FALSE,
           supervisor |-> TRUE, previous |-> FALSE, epc |-> 1, tohost |-> 0, fromhost |-> 0,
           serialized |-> p.serialized, run |-> FALSE, step |-> p.step, host |-> g]
  BY <1>2, ZenonT(60) DEF Boot
<1> QED
  BY <1>3 DEF Shape, WasReset

(* The host's turn moves no step, and leaves a processor.                  *)
LEMMA TickIs ==
  ASSUME NEW p, IsProc(p)
  PROVE  IsProc(Tick(p)) /\ Tick(p).step = p.step
<1> PICK h : h = HostTurn(p.host)
  OBVIOUS
<1>1. /\ h = [at |-> h.at, old |-> p.host.old, pending |-> h.pending, exit |-> h.exit]
      /\ h.pending \in Seq(Nat) /\ (h.at = "fromhost" => h.pending # <<>>)
  BY TurnIs DEF IsProc
<1>2. Tick(p) = IF ~p.run THEN p
        ELSE CASE h.at = "tohost" ->
                    [p EXCEPT !.tohost = 0, !.host = [h EXCEPT !.old = p.tohost]]
               [] h.at = "fromhost" ->
                    [p EXCEPT !.fromhost = IF p.fromhost = 0 THEN Head(h.pending) ELSE p.fromhost,
                              !.host = [h EXCEPT !.old = p.fromhost]]
               [] OTHER -> Reset([p EXCEPT !.host = h])
  BY DEF Tick
<1>3. CASE ~p.run
  BY <1>2, <1>3
<1>4. CASE p.run /\ h.at = "tohost"
  <2> PICK g : g = [h EXCEPT !.old = p.tohost]
    OBVIOUS
  <2>1. g = [at |-> h.at, old |-> p.tohost, pending |-> h.pending, exit |-> h.exit]
    BY <1>1
  <2>2. IsHost(g)
    BY <1>1, <1>4, <2>1 DEF IsHost
  <2>3. Tick(p) = [p EXCEPT !.tohost = 0, !.host = g]
    BY <1>2, <1>4
  <2>4. Set(Tick(p), p, 0, p.fromhost, g)
    BY <2>3, HostGets DEF IsProc
  <2> QED
    BY <2>2, <2>4 DEF IsProc, Set
<1>5. CASE p.run /\ h.at = "fromhost"
  <2> PICK g : g = [h EXCEPT !.old = p.fromhost]
    OBVIOUS
  <2>1. g = [at |-> h.at, old |-> p.fromhost, pending |-> h.pending, exit |-> h.exit]
    BY <1>1
  <2>2. IsHost(g)
    BY <1>1, <1>5, <2>1 DEF IsHost
  <2> PICK v : v = IF p.fromhost = 0 THEN Head(h.pending) ELSE p.fromhost
    OBVIOUS
  <2>3. v \in Nat
    <3>1. Head(h.pending) \in Nat
      BY <1>1, <1>5, HeadTailProperties
    <3> QED
      BY <3>1 DEF IsProc
  <2>4. Tick(p) = [p EXCEPT !.fromhost = v, !.host = g]
    BY <1>2, <1>5
  <2>5. Set(Tick(p), p, p.tohost, v, g)
    BY <2>4, HostGives DEF IsProc
  <2> QED
    BY <2>2, <2>3, <2>5 DEF IsProc, Set
<1>6. CASE p.run /\ h.at # "tohost" /\ h.at # "fromhost"
  <2>1. Tick(p) = Reset([p EXCEPT !.host = h])
    BY <1>2, <1>6
  <2>2. IsHost(h)
    BY <1>1, <1>6 DEF IsHost
  <2>3. WasReset(Tick(p), p, h)
    BY <2>1, HostResets DEF IsProc
  <2> QED
    BY <2>2, <2>3 DEF IsProc, WasReset
<1> QED
  BY <1>3, <1>4, <1>5, <1>6

(* Two processors that differ in nothing else still do so after it.        *)
LEMMA TickAlike ==
  ASSUME NEW p, NEW q, IsProc(p), IsProc(q), Alike(p, q)
  PROVE  Alike(Tick(p), Tick(q))
<1> PICK h : h = HostTurn(p.host)
  OBVIOUS
<1>1. h = HostTurn(q.host) /\ p.run = q.run /\ p.tohost = q.tohost /\ p.fromhost = q.fromhost
  BY DEF Alike
<1> PICK g : g = [h EXCEPT !.old = p.tohost]
  OBVIOUS
<1> PICK f : f = [h EXCEPT !.old = p.fromhost]
  OBVIOUS
<1> PICK v : v = IF p.fromhost = 0 THEN Head(h.pending) ELSE p.fromhost
  OBVIOUS
<1>2. /\ Tick(p) = IF ~p.run THEN p
                   ELSE CASE h.at = "tohost" -> [p EXCEPT !.tohost = 0, !.host = g]
                          [] h.at = "fromhost" -> [p EXCEPT !.fromhost = v, !.host = f]
                          [] OTHER -> Reset([p EXCEPT !.host = h])
      /\ Tick(q) = IF ~p.run THEN q
                   ELSE CASE h.at = "tohost" -> [q EXCEPT !.tohost = 0, !.host = g]
                          [] h.at = "fromhost" -> [q EXCEPT !.fromhost = v, !.host = f]
                          [] OTHER -> Reset([q EXCEPT !.host = h])
  BY <1>1 DEF Tick
<1>3. CASE ~p.run
  BY <1>2, <1>3
<1>4. CASE p.run /\ h.at = "tohost"
  <2>1. /\ Tick(p) = [p EXCEPT !.tohost = 0, !.host = g]
        /\ Tick(q) = [q EXCEPT !.tohost = 0, !.host = g]
    BY <1>2, <1>4
  <2>2. Set(Tick(p), p, 0, p.fromhost, g) /\ Set(Tick(q), q, 0, q.fromhost, g)
    BY <2>1, HostGets DEF IsProc
  <2> QED
    BY <2>2 DEF Set, Alike
<1>5. CASE p.run /\ h.at = "fromhost"
  <2>1. /\ Tick(p) = [p EXCEPT !.fromhost = v, !.host = f]
        /\ Tick(q) = [q EXCEPT !.fromhost = v, !.host = f]
    BY <1>2, <1>5
  <2>2. Set(Tick(p), p, p.tohost, v, f) /\ Set(Tick(q), q, q.tohost, v, f)
    BY <2>1, HostGives DEF IsProc
  <2> QED
    BY <2>2 DEF Set, Alike
<1>6. CASE p.run /\ h.at # "tohost" /\ h.at # "fromhost"
  <2>1. /\ Tick(p) = Reset([p EXCEPT !.host = h])
        /\ Tick(q) = Reset([q EXCEPT !.host = h])
    BY <1>2, <1>6
  <2>2. WasReset(Tick(p), p, h) /\ WasReset(Tick(q), q, h)
    BY <2>1, HostResets DEF IsProc
  <2> QED
    BY <2>2 DEF WasReset, Alike
<1> QED
  BY <1>3, <1>4, <1>5, <1>6

-----------------------------------------------------------------------------
(* What the updates of a processor leave alone. Done to two processors     *)
(* that are alike, they leave them alike.                                  *)
LEMMA SetsSerialized ==
  ASSUME NEW p, NEW q, IsProc(p), IsProc(q), Alike(p, q),
         NEW r, r = [p EXCEPT !.serialized = TRUE],
         NEW t, t = [q EXCEPT !.serialized = TRUE]
  PROVE  IsProc(r) /\ IsProc(t) /\ r.step = p.step /\ Alike(r, t)
<1>1. /\ Shape(r) /\ r.pc = p.pc /\ r.x = p.x /\ r.count = p.count /\ r.compare = p.compare
      /\ r.timer = p.timer /\ r.supervisor = p.supervisor /\ r.previous = p.previous
      /\ r.epc = p.epc /\ r.tohost = p.tohost /\ r.fromhost = p.fromhost
      /\ r.serialized = TRUE /\ r.run = p.run /\ r.step = p.step /\ r.host = p.host
  BY DEF IsProc, Shape
<1>2. /\ Shape(t) /\ t.pc = q.pc /\ t.x = q.x /\ t.count = q.count /\ t.compare = q.compare
      /\ t.timer = q.timer /\ t.supervisor = q.supervisor /\ t.previous = q.previous
      /\ t.epc = q.epc /\ t.tohost = q.tohost /\ t.fromhost = q.fromhost
      /\ t.serialized = TRUE /\ t.run = q.run /\ t.step = q.step /\ t.host = q.host
  BY DEF IsProc, Shape
<1>3. Alike(r, t)
  BY <1>1, <1>2 DEF Alike
<1> QED
  BY <1>1, <1>2, <1>3 DEF IsProc

LEMMA ClearsSerialized ==
  ASSUME NEW p, NEW q, IsProc(p), IsProc(q), Alike(p, q),
         NEW r, r = [p EXCEPT !.serialized = FALSE],
         NEW t, t = [q EXCEPT !.serialized = FALSE]
  PROVE  IsProc(r) /\ IsProc(t) /\ r.step = p.step /\ Alike(r, t)
<1>1. /\ Shape(r) /\ r.pc = p.pc /\ r.x = p.x /\ r.count = p.count /\ r.compare = p.compare
      /\ r.timer = p.timer /\ r.supervisor = p.supervisor /\ r.previous = p.previous
      /\ r.epc = p.epc /\ r.tohost = p.tohost /\ r.fromhost = p.fromhost
      /\ r.serialized = FALSE /\ r.run = p.run /\ r.step = p.step /\ r.host = p.host
  BY DEF IsProc, Shape
<1>2. /\ Shape(t) /\ t.pc = q.pc /\ t.x = q.x /\ t.count = q.count /\ t.compare = q.compare
      /\ t.timer = q.timer /\ t.supervisor = q.supervisor /\ t.previous = q.previous
      /\ t.epc = q.epc /\ t.tohost = q.tohost /\ t.fromhost = q.fromhost
      /\ t.serialized = FALSE /\ t.run = q.run /\ t.step = q.step /\ t.host = q.host
  BY DEF IsProc, Shape
<1>3. Alike(r, t)
  BY <1>1, <1>2 DEF Alike
<1> QED
  BY <1>1, <1>2, <1>3 DEF IsProc

LEMMA ReadsCount ==
  ASSUME NEW p, NEW q, IsProc(p), IsProc(q), Alike(p, q),
         NEW r, r = [p EXCEPT !.x = p.count],
         NEW t, t = [q EXCEPT !.x = q.count]
  PROVE  IsProc(r) /\ IsProc(t) /\ r.step = p.step /\ Alike(r, t)
<1>1. /\ Shape(r) /\ r.pc = p.pc /\ r.x = p.count /\ r.count = p.count
      /\ r.compare = p.compare /\ r.timer = p.timer /\ r.supervisor = p.supervisor
      /\ r.previous = p.previous /\ r.epc = p.epc /\ r.tohost = p.tohost
      /\ r.fromhost = p.fromhost /\ r.serialized = p.serialized /\ r.run = p.run
      /\ r.step = p.step /\ r.host = p.host
  BY DEF IsProc, Shape
<1>2. /\ Shape(t) /\ t.pc = q.pc /\ t.x = q.count /\ t.count = q.count
      /\ t.compare = q.compare /\ t.timer = q.timer /\ t.supervisor = q.supervisor
      /\ t.previous = q.previous /\ t.epc = q.epc /\ t.tohost = q.tohost
      /\ t.fromhost = q.fromhost /\ t.serialized = q.serialized /\ t.run = q.run
      /\ t.step = q.step /\ t.host = q.host
  BY DEF IsProc, Shape
<1>3. Alike(r, t)
  BY <1>1, <1>2 DEF Alike
<1> QED
  BY <1>1, <1>2, <1>3 DEF IsProc

Compared(p, v) == [p EXCEPT !.compare = v, !.timer = FALSE]
LEMMA SetsCompare ==
  ASSUME NEW p, NEW q, IsProc(p), IsProc(q), Alike(p, q), NEW v \in Nat,
         NEW r, r = Compared(p, v),
         NEW t, t = Compared(q, v)
  PROVE  IsProc(r) /\ IsProc(t) /\ r.step = p.step /\ Alike(r, t)
<1>1. /\ Shape(r) /\ r.pc = p.pc /\ r.x = p.x /\ r.count = p.count /\ r.compare = v
      /\ r.timer = FALSE /\ r.supervisor = p.supervisor /\ r.previous = p.previous
      /\ r.epc = p.epc /\ r.tohost = p.tohost /\ r.fromhost = p.fromhost
      /\ r.serialized = p.serialized /\ r.run = p.run /\ r.step = p.step /\ r.host = p.host
  BY DEF IsProc, Shape, Compared
<1>2. /\ Shape(t) /\ t.pc = q.pc /\ t.x = q.x /\ t.count = q.count /\ t.compare = v
      /\ t.timer = FALSE /\ t.supervisor = q.supervisor /\ t.previous = q.previous
      /\ t.epc = q.epc /\ t.tohost = q.tohost /\ t.fromhost = q.fromhost
      /\ t.serialized = q.serialized /\ t.run = q.run /\ t.step = q.step /\ t.host = q.host
  BY DEF IsProc, Shape, Compared
<1>3. Alike(r, t)
  BY <1>1, <1>2 DEF Alike
<1> QED
  BY <1>1, <1>2, <1>3 DEF IsProc

LEMMA SetsTohost ==
  ASSUME NEW p, NEW q, IsProc(p), IsProc(q), Alike(p, q), NEW v \in Nat,
         NEW r, r = [p EXCEPT !.tohost = v],
         NEW t, t = [q EXCEPT !.tohost = v]
  PROVE  IsProc(r) /\ IsProc(t) /\ r.step = p.step /\ Alike(r, t)
<1>1. /\ Shape(r) /\ r.pc = p.pc /\ r.x = p.x /\ r.count = p.count /\ r.compare = p.compare
      /\ r.timer = p.timer /\ r.supervisor = p.supervisor /\ r.previous = p.previous
      /\ r.epc = p.epc /\ r.tohost = v /\ r.fromhost = p.fromhost
      /\ r.serialized = p.serialized /\ r.run = p.run /\ r.step = p.step /\ r.host = p.host
  BY DEF IsProc, Shape
<1>2. /\ Shape(t) /\ t.pc = q.pc /\ t.x = q.x /\ t.count = q.count /\ t.compare = q.compare
      /\ t.timer = q.timer /\ t.supervisor = q.supervisor /\ t.previous = q.previous
      /\ t.epc = q.epc /\ t.tohost = v /\ t.fromhost = q.fromhost
      /\ t.serialized = q.serialized /\ t.run = q.run /\ t.step = q.step /\ t.host = q.host
  BY DEF IsProc, Shape
<1>3. Alike(r, t)
  BY <1>1, <1>2 DEF Alike
<1> QED
  BY <1>1, <1>2, <1>3 DEF IsProc

LEMMA ReadsFromhost ==
  ASSUME NEW p, NEW q, IsProc(p), IsProc(q), Alike(p, q),
         NEW r, r = [p EXCEPT !.x = p.fromhost],
         NEW t, t = [q EXCEPT !.x = q.fromhost]
  PROVE  IsProc(r) /\ IsProc(t) /\ r.step = p.step /\ Alike(r, t)
<1>1. /\ Shape(r) /\ r.pc = p.pc /\ r.x = p.fromhost /\ r.count = p.count
      /\ r.compare = p.compare /\ r.timer = p.timer /\ r.supervisor = p.supervisor
      /\ r.previous = p.previous /\ r.epc = p.epc /\ r.tohost = p.tohost
      /\ r.fromhost = p.fromhost /\ r.serialized = p.serialized /\ r.run = p.run
      /\ r.step = p.step /\ r.host = p.host
  BY DEF IsProc, Shape
<1>2. /\ Shape(t) /\ t.pc = q.pc /\ t.x = q.fromhost /\ t.count = q.count
      /\ t.compare = q.compare /\ t.timer = q.timer /\ t.supervisor = q.supervisor
      /\ t.previous = q.previous /\ t.epc = q.epc /\ t.tohost = q.tohost
      /\ t.fromhost = q.fromhost /\ t.serialized = q.serialized /\ t.run = q.run
      /\ t.step = q.step /\ t.host = q.host
  BY DEF IsProc, Shape
<1>3. Alike(r, t)
  BY <1>1, <1>2 DEF Alike
<1> QED
  BY <1>1, <1>2, <1>3 DEF IsProc

LEMMA ClearsFromhost ==
  ASSUME NEW p, NEW q, IsProc(p), IsProc(q), Alike(p, q),
         NEW r, r = [p EXCEPT !.fromhost = 0],
         NEW t, t = [q EXCEPT !.fromhost = 0]
  PROVE  IsProc(r) /\ IsProc(t) /\ r.step = p.step /\ Alike(r, t)
<1>1. /\ Shape(r) /\ r.pc = p.pc /\ r.x = p.x /\ r.count = p.count /\ r.compare = p.compare
      /\ r.timer = p.timer /\ r.supervisor = p.supervisor /\ r.previous = p.previous
      /\ r.epc = p.epc /\ r.tohost = p.tohost /\ r.fromhost = 0 /\ r.serialized = p.serialized
      /\ r.run = p.run /\ r.step = p.step /\ r.host = p.host
  BY DEF IsProc, Shape
<1>2. /\ Shape(t) /\ t.pc = q.pc /\ t.x = q.x /\ t.count = q.count /\ t.compare = q.compare
      /\ t.timer = q.timer /\ t.supervisor = q.supervisor /\ t.previous = q.previous
      /\ t.epc = q.epc /\ t.tohost = q.tohost /\ t.fromhost = 0 /\ t.serialized = q.serialized
      /\ t.run = q.run /\ t.step = q.step /\ t.host = q.host
  BY DEF IsProc, Shape
<1>3. Alike(r, t)
  BY <1>1, <1>2 DEF Alike
<1> QED
  BY <1>1, <1>2, <1>3 DEF IsProc

LEMMA SetsSupervisor ==
  ASSUME NEW p, NEW q, IsProc(p), IsProc(q), Alike(p, q),
         NEW r, r = [p EXCEPT !.supervisor = p.previous],
         NEW t, t = [q EXCEPT !.supervisor = q.previous]
  PROVE  IsProc(r) /\ IsProc(t) /\ r.step = p.step /\ Alike(r, t)
<1>1. /\ Shape(r) /\ r.pc = p.pc /\ r.x = p.x /\ r.count = p.count /\ r.compare = p.compare
      /\ r.timer = p.timer /\ r.supervisor = p.previous /\ r.previous = p.previous
      /\ r.epc = p.epc /\ r.tohost = p.tohost /\ r.fromhost = p.fromhost
      /\ r.serialized = p.serialized /\ r.run = p.run /\ r.step = p.step /\ r.host = p.host
  BY DEF IsProc, Shape
<1>2. /\ Shape(t) /\ t.pc = q.pc /\ t.x = q.x /\ t.count = q.count /\ t.compare = q.compare
      /\ t.timer = q.timer /\ t.supervisor = q.previous /\ t.previous = q.previous
      /\ t.epc = q.epc /\ t.tohost = q.tohost /\ t.fromhost = q.fromhost
      /\ t.serialized = q.serialized /\ t.run = q.run /\ t.step = q.step /\ t.host = q.host
  BY DEF IsProc, Shape
<1>3. Alike(r, t)
  BY <1>1, <1>2 DEF Alike
<1> QED
  BY <1>1, <1>2, <1>3 DEF IsProc

LEMMA Adds ==
  ASSUME NEW p, NEW q, IsProc(p), IsProc(q), Alike(p, q), Width \in Nat \ {0},
         NEW r, r = [p EXCEPT !.x = (p.x + 1) % Width],
         NEW t, t = [q EXCEPT !.x = (q.x + 1) % Width]
  PROVE  IsProc(r) /\ IsProc(t) /\ r.step = p.step /\ Alike(r, t)
<1>1. /\ Shape(r) /\ r.pc = p.pc /\ r.x = (p.x + 1) % Width /\ r.count = p.count
      /\ r.compare = p.compare /\ r.timer = p.timer /\ r.supervisor = p.supervisor
      /\ r.previous = p.previous /\ r.epc = p.epc /\ r.tohost = p.tohost
      /\ r.fromhost = p.fromhost /\ r.serialized = p.serialized /\ r.run = p.run
      /\ r.step = p.step /\ r.host = p.host
  BY DEF IsProc, Shape
<1>2. /\ Shape(t) /\ t.pc = q.pc /\ t.x = (q.x + 1) % Width /\ t.count = q.count
      /\ t.compare = q.compare /\ t.timer = q.timer /\ t.supervisor = q.supervisor
      /\ t.previous = q.previous /\ t.epc = q.epc /\ t.tohost = q.tohost
      /\ t.fromhost = q.fromhost /\ t.serialized = q.serialized /\ t.run = q.run
      /\ t.step = q.step /\ t.host = q.host
  BY DEF IsProc, Shape
<1>3. Alike(r, t)
  BY <1>1, <1>2 DEF Alike
<1> QED
  BY <1>1, <1>2, <1>3 DEF IsProc

LEMMA TakesTrap ==
  ASSUME NEW p, NEW q, IsProc(p), IsProc(q), Alike(p, q), NEW e \in Nat,
         NEW r, r = take_trap(p, e),
         NEW t, t = take_trap(q, e)
  PROVE  IsProc(r) /\ IsProc(t) /\ r.step = p.step /\ Alike(r, t)
<1>1. /\ Shape(r) /\ r.pc = p.pc /\ r.x = p.x /\ r.count = p.count /\ r.compare = p.compare
      /\ r.timer = p.timer /\ r.supervisor = TRUE /\ r.previous = p.supervisor /\ r.epc = e
      /\ r.tohost = p.tohost /\ r.fromhost = p.fromhost /\ r.serialized = p.serialized
      /\ r.run = p.run /\ r.step = p.step /\ r.host = p.host
  BY DEF IsProc, Shape, take_trap
<1>2. /\ Shape(t) /\ t.pc = q.pc /\ t.x = q.x /\ t.count = q.count /\ t.compare = q.compare
      /\ t.timer = q.timer /\ t.supervisor = TRUE /\ t.previous = q.supervisor /\ t.epc = e
      /\ t.tohost = q.tohost /\ t.fromhost = q.fromhost /\ t.serialized = q.serialized
      /\ t.run = q.run /\ t.step = q.step /\ t.host = q.host
  BY DEF IsProc, Shape, take_trap
<1>3. Alike(r, t)
  BY <1>1, <1>2 DEF Alike
<1> QED
  BY <1>1, <1>2, <1>3 DEF IsProc

(* An instruction does the same to both; s: the steps of the first one.    *)
Same(a, b, s) ==
    /\ IsProc(a.p) /\ a.p.step = s /\ Alike(a.p, b.p)
    /\ a.throws = b.throws /\ a.next = b.next /\ a.next \in Nat

LEMMA DoneSame ==
  ASSUME NEW p, NEW q, IsProc(p), Alike(p, q), NEW next \in Nat
  PROVE  Same(Done(p, next), Done(q, next), p.step)
BY DEF Same, Done

LEMMA SerializedSame ==
  ASSUME NEW p, NEW q, IsProc(p), IsProc(q), Alike(p, q), NEW pc \in Nat,
         NEW r, NEW t, IsProc(r), IsProc(t), Alike(r, t), r.step = p.step,
         NEW a, a = Serialized(p, pc, r), NEW b, b = Serialized(q, pc, t)
  PROVE  Same(a, b, p.step) /\ a.throws # "trap"
<1>1. p.serialized = q.serialized
  BY DEF Alike
<1>2. CASE p.serialized
  <2> PICK c : c = [r EXCEPT !.serialized = FALSE]
    OBVIOUS
  <2> PICK d : d = [t EXCEPT !.serialized = FALSE]
    OBVIOUS
  <2>1. a = Done(c, pc + 1) /\ b = Done(d, pc + 1)
    BY <1>1, <1>2 DEF Serialized
  <2>2. IsProc(c) /\ c.step = p.step /\ Alike(c, d)
    BY ClearsSerialized
  <2>3. Same(a, b, p.step)
    <3>1. pc + 1 \in Nat
      OBVIOUS
    <3> QED
      BY <2>1, <2>2, <3>1, DoneSame
  <2>4. a.throws = "none"
    BY <2>1 DEF Done
  <2> QED
    BY <2>3, <2>4
<1>3. CASE ~p.serialized
  <2> PICK c : c = [p EXCEPT !.serialized = TRUE]
    OBVIOUS
  <2> PICK d : d = [q EXCEPT !.serialized = TRUE]
    OBVIOUS
  <2>1. a = [p |-> c, throws |-> "serialize", next |-> pc] /\ b = [p |-> d, throws |-> "serialize", next |-> pc]
    BY <1>1, <1>3 DEF Serialized
  <2>2. IsProc(c) /\ c.step = p.step /\ Alike(c, d)
    BY SetsSerialized
  <2>3. /\ a.p = c /\ b.p = d /\ a.throws = "serialize" /\ b.throws = "serialize"
        /\ a.next = pc /\ b.next = pc
    BY <2>1
  <2> QED
    BY <2>2, <2>3 DEF Same
<1> QED
  BY <1>2, <1>3

(* A trap leaves the processor alone, see take_trap.                       *)
Right(a, b, p) == Same(a, b, p.step) /\ (a.throws = "trap" => a.p = p)

LEMMA CsrSame ==
  ASSUME NEW p, NEW q, IsProc(p), IsProc(q), Alike(p, q), NEW pc \in Nat, NEW op,
         NEW a, a = CsrInsn(p, Tick(p), pc, op), NEW b, b = CsrInsn(q, Tick(q), pc, op)
  PROVE  Right(a, b, p)
<1> PICK r : r = Tick(p)
  OBVIOUS
<1> PICK t : t = Tick(q)
  OBVIOUS
<1>1. IsProc(r) /\ IsProc(t) /\ r.step = p.step /\ Alike(r, t)
  BY TickIs, TickAlike
<1>2. p.supervisor = q.supervisor /\ p.epc = q.epc /\ r.tohost = t.tohost /\ p.epc \in Nat
  BY <1>1 DEF Alike, IsProc
<1>3. CASE ~p.supervisor /\ op # "count"
  <2>1. a = Trapped(p, pc) /\ b = Trapped(q, pc)
    BY <1>2, <1>3 DEF CsrInsn
  <2> QED
    BY <2>1 DEF Trapped, Right, Same
<1>13. ASSUME NEW c, NEW d, IsProc(c), IsProc(d), c.step = p.step, Alike(c, d),
              a = Serialized(p, pc, c), b = Serialized(q, pc, d)
       PROVE  Right(a, b, p)
  <2>1. Same(a, b, p.step) /\ a.throws # "trap"
    BY <1>13, SerializedSame
  <2> QED
    BY <2>1 DEF Right
<1>4. CASE op = "count"
  <2> PICK c : c = [p EXCEPT !.x = p.count]
    OBVIOUS
  <2> PICK d : d = [q EXCEPT !.x = q.count]
    OBVIOUS
  <2>1. a = Serialized(p, pc, c) /\ b = Serialized(q, pc, d)
    BY <1>4 DEF CsrInsn
  <2>2. IsProc(c) /\ IsProc(d) /\ c.step = p.step /\ Alike(c, d)
    BY ReadsCount
  <2> QED
    BY <1>13, <2>1, <2>2, Zenon
<1>5. CASE p.supervisor /\ op = "compare"
  <2> PICK v \in Nat : v = p.x /\ v = q.x
    BY DEF Alike, IsProc
  <2> PICK c : c = Compared(p, v)
    OBVIOUS
  <2> PICK d : d = Compared(q, v)
    OBVIOUS
  <2>1. a = Serialized(p, pc, c) /\ b = Serialized(q, pc, d)
    BY <1>2, <1>5 DEF CsrInsn, Compared
  <2>2. IsProc(c) /\ IsProc(d) /\ c.step = p.step /\ Alike(c, d)
    BY SetsCompare, SMTT(30)
  <2> QED
    BY <1>13, <2>1, <2>2, Zenon
<1>6. ASSUME NEW v \in Nat, a = Done(Command(r, v), pc + 1), b = Done(Command(t, v), pc + 1)
      PROVE  Right(a, b, p)
  <2> PICK c : c = Command(r, v)
    OBVIOUS
  <2> PICK d : d = Command(t, v)
    OBVIOUS
  <2>1. IsProc(c) /\ c.step = p.step /\ Alike(c, d)
    BY <1>1, <1>2, SetsTohost DEF Command
  <2>2. Same(a, b, p.step)
    BY <1>6, <2>1, DoneSame
  <2>3. a.throws = "none"
    BY <1>6 DEF Done
  <2> QED
    BY <2>2, <2>3 DEF Right
<1>7. CASE p.supervisor /\ op = "tohost"
  <2>1. a = Done(Command(r, Read), pc + 1) /\ b = Done(Command(t, Read), pc + 1)
    BY <1>2, <1>7 DEF CsrInsn
  <2>2. Read \in Nat
    BY DEF Read
  <2> QED
    BY <1>6, <2>1, <2>2
<1>8. CASE p.supervisor /\ op = "exit"
  <2>1. a = Done(Command(r, Exit), pc + 1) /\ b = Done(Command(t, Exit), pc + 1)
    BY <1>2, <1>8 DEF CsrInsn
  <2>2. Exit \in Nat
    BY DEF Exit
  <2> QED
    BY <1>6, <2>1, <2>2
<1>9. ASSUME NEW c, NEW d, IsProc(c), c.step = p.step, Alike(c, d), NEW next \in Nat,
             a = Done(c, next), b = Done(d, next)
      PROVE  Right(a, b, p)
  <2>1. Same(a, b, p.step)
    BY <1>9, DoneSame
  <2>2. a.throws = "none"
    BY <1>9 DEF Done
  <2> QED
    BY <2>1, <2>2 DEF Right
<1>10. CASE p.supervisor /\ op = "fromhost"
  <2> PICK c : c = [r EXCEPT !.x = r.fromhost]
    OBVIOUS
  <2> PICK d : d = [t EXCEPT !.x = t.fromhost]
    OBVIOUS
  <2>1. a = Done(c, pc + 1) /\ b = Done(d, pc + 1)
    BY <1>2, <1>10 DEF CsrInsn
  <2>2. IsProc(c) /\ c.step = p.step /\ Alike(c, d)
    BY <1>1, ReadsFromhost
  <2>3. pc + 1 \in Nat
    OBVIOUS
  <2> QED
    BY <1>9, <2>1, <2>2, <2>3, Zenon
<1>11. CASE p.supervisor /\ op = "clear"
  <2> PICK c : c = [r EXCEPT !.fromhost = 0]
    OBVIOUS
  <2> PICK d : d = [t EXCEPT !.fromhost = 0]
    OBVIOUS
  <2>1. a = Done(c, pc + 1) /\ b = Done(d, pc + 1)
    BY <1>2, <1>11 DEF CsrInsn
  <2>2. IsProc(c) /\ c.step = p.step /\ Alike(c, d)
    BY <1>1, ClearsFromhost
  <2>3. pc + 1 \in Nat
    OBVIOUS
  <2> QED
    BY <1>9, <2>1, <2>2, <2>3, Zenon
<1>12. CASE p.supervisor /\ op \notin {"count", "compare", "tohost", "exit", "fromhost", "clear"}
  <2> PICK c : c = [p EXCEPT !.supervisor = p.previous]
    OBVIOUS
  <2> PICK d : d = [q EXCEPT !.supervisor = q.previous]
    OBVIOUS
  <2>1. a = Done(c, p.epc) /\ b = Done(d, p.epc)
    BY <1>2, <1>12 DEF CsrInsn
  <2>2. IsProc(c) /\ c.step = p.step /\ Alike(c, d)
    BY SetsSupervisor
  <2> QED
    BY <1>2, <1>9, <2>1, <2>2, Zenon
<1> QED
  BY <1>3, <1>4, <1>5, <1>7, <1>8, <1>10, <1>11, <1>12

(* Executing an instruction on two processors that are alike.              *)
LEMMA ExecuteSame ==
  ASSUME CheckerAssumption, NEW p, NEW q, IsProc(p), IsProc(q), Alike(p, q), NEW pc \in Nat,
         NEW i, i.target \in Nat,
         NEW a, a = execute_insn(p, pc, i), NEW b, b = execute_insn(q, pc, i)
  PROVE  Right(a, b, p)
<1>1. p.x = q.x
  BY DEF Alike
<1>2. CASE i.op \in Csr
  <2>1. a = CsrInsn(p, Tick(p), pc, i.op) /\ b = CsrInsn(q, Tick(q), pc, i.op)
    BY <1>2 DEF execute_insn
  <2> QED
    BY <2>1, CsrSame
<1>3. CASE i.op \notin Csr /\ i.op \in Traps
  <2>1. a = Trapped(p, pc) /\ b = Trapped(q, pc)
    BY <1>3 DEF execute_insn
  <2> QED
    BY <2>1 DEF Trapped, Right, Same
<1>4. CASE i.op \notin Csr /\ i.op \notin Traps
  <2> PICK next \in Nat : next = IF i.op = "jump" \/ (i.op = "branch" /\ p.x % 2 = 0) THEN i.target ELSE pc + 1
    OBVIOUS
  <2> PICK c : c = IF i.op = "add" THEN [p EXCEPT !.x = (p.x + 1) % Width] ELSE p
    OBVIOUS
  <2> PICK d : d = IF i.op = "add" THEN [q EXCEPT !.x = (q.x + 1) % Width] ELSE q
    OBVIOUS
  <2>1. a = Done(c, next) /\ b = Done(d, next)
    BY <1>1, <1>4 DEF execute_insn
  <2>2. IsProc(c) /\ c.step = p.step /\ Alike(c, d)
    <3>1. CASE i.op = "add"
      <4>1. c = [p EXCEPT !.x = (p.x + 1) % Width] /\ d = [q EXCEPT !.x = (q.x + 1) % Width]
        BY <3>1
      <4>2. Width \in Nat \ {0}
        BY DEF CheckerAssumption
      <4> QED
        BY <4>1, <4>2, Adds
    <3>2. CASE i.op # "add"
      BY <3>2
    <3> QED
      BY <3>1, <3>2
  <2>3. Same(a, b, p.step)
    BY <2>1, <2>2, DoneSame
  <2>4. a.throws = "none"
    BY <2>1 DEF Done
  <2> QED
    BY <2>3, <2>4 DEF Right
<1> QED
  BY <1>2, <1>3, <1>4

-----------------------------------------------------------------------------
(* The ends of a step: the timer, the PC, and the host's turn.             *)
Updated(p, q, r, t) ==
    IsProc(r) /\ IsProc(t) /\ r.step = p.step /\ t.step = q.step /\ Alike(r, t)

LEMMA UpdatesTimer ==
  ASSUME NEW p, NEW q, IsProc(p), IsProc(q), Alike(p, q), Width \in Nat \ {0},
         NEW r, r = update_timer(p, 1),
         NEW t, t = update_timer(q, 1)
  PROVE  Updated(p, q, r, t)
<1> PICK v : v = (p.timer \/ (p.count < p.compare /\ p.count + 1 >= p.compare))
  OBVIOUS
<1> PICK w : w = (q.timer \/ (q.count < q.compare /\ q.count + 1 >= q.compare))
  OBVIOUS
<1>0. v = w
  BY DEF Alike
<1>1. /\ Shape(r) /\ r.pc = p.pc /\ r.x = p.x /\ r.count = (p.count + 1) % Width
      /\ r.compare = p.compare /\ r.timer = v /\ r.supervisor = p.supervisor
      /\ r.previous = p.previous /\ r.epc = p.epc /\ r.tohost = p.tohost
      /\ r.fromhost = p.fromhost /\ r.serialized = p.serialized /\ r.run = p.run
      /\ r.step = p.step /\ r.host = p.host
  BY DEF IsProc, Shape, update_timer
<1>2. /\ Shape(t) /\ t.pc = q.pc /\ t.x = q.x /\ t.count = (q.count + 1) % Width
      /\ t.compare = q.compare /\ t.timer = w /\ t.supervisor = q.supervisor
      /\ t.previous = q.previous /\ t.epc = q.epc /\ t.tohost = q.tohost
      /\ t.fromhost = q.fromhost /\ t.serialized = q.serialized /\ t.run = q.run
      /\ t.step = q.step /\ t.host = q.host
  BY DEF IsProc, Shape, update_timer
<1>3. Alike(r, t)
  BY <1>0, <1>1, <1>2 DEF Alike
<1>4. r.count \in Nat /\ t.count \in Nat
  BY <1>1, <1>2 DEF IsProc
<1>5. IsProc(r) /\ IsProc(t)
  BY <1>1, <1>2, <1>4 DEF IsProc
<1> QED
  BY <1>1, <1>2, <1>3, <1>5 DEF Updated

(* Another PC leaves a processor alike.                                    *)
LEMMA MovesPc ==
  ASSUME NEW p, IsProc(p), NEW n \in Nat, NEW r, r = [p EXCEPT !.pc = n]
  PROVE  IsProc(r) /\ r.pc = n /\ r.step = p.step /\ Alike(r, p)
<1>1. /\ Shape(r) /\ r.pc = n /\ r.x = p.x /\ r.count = p.count /\ r.compare = p.compare
      /\ r.timer = p.timer /\ r.supervisor = p.supervisor /\ r.previous = p.previous
      /\ r.epc = p.epc /\ r.tohost = p.tohost /\ r.fromhost = p.fromhost
      /\ r.serialized = p.serialized /\ r.run = p.run /\ r.step = p.step /\ r.host = p.host
  BY DEF IsProc, Shape
<1>2. Alike(r, p)
  BY <1>1 DEF Alike
<1> QED
  BY <1>1, <1>2 DEF IsProc

(* So do other steps since the host's last turn.                           *)
LEMMA MovesStep ==
  ASSUME NEW p, IsProc(p), NEW n \in Nat, NEW r, r = [p EXCEPT !.step = n]
  PROVE  IsProc(r) /\ r.pc = p.pc /\ r.step = n /\ Alike(r, p)
<1>1. /\ Shape(r) /\ r.pc = p.pc /\ r.x = p.x /\ r.count = p.count /\ r.compare = p.compare
      /\ r.timer = p.timer /\ r.supervisor = p.supervisor /\ r.previous = p.previous
      /\ r.epc = p.epc /\ r.tohost = p.tohost /\ r.fromhost = p.fromhost
      /\ r.serialized = p.serialized /\ r.run = p.run /\ r.step = n /\ r.host = p.host
  BY DEF IsProc, Shape
<1>2. Alike(r, p)
  BY <1>1 DEF Alike
<1> QED
  BY <1>1, <1>2 DEF IsProc

(* Alike is an equivalence that the checker sees nothing of.               *)
LEMMA AlikeIs ==
  ASSUME NEW p, NEW q, Alike(p, q)
  PROVE  /\ Alike(q, p) /\ Checked(p) = Checked(q) /\ p.run = q.run
         /\ \A r : Alike(q, r) => Alike(p, r)
BY DEF Alike, Checked

(* Only a reset moves the PC, and nothing runs on after it.                *)
LEMMA TickGoesOn ==
  ASSUME NEW p, IsProc(p), Tick(p).run
  PROVE  Tick(p).pc = p.pc
<1> PICK h : h = HostTurn(p.host)
  OBVIOUS
<1> PICK g : g = [h EXCEPT !.old = p.tohost]
  OBVIOUS
<1> PICK f : f = [h EXCEPT !.old = p.fromhost]
  OBVIOUS
<1> PICK v : v = IF p.fromhost = 0 THEN Head(h.pending) ELSE p.fromhost
  OBVIOUS
<1>1. Tick(p) = IF ~p.run THEN p
                ELSE CASE h.at = "tohost" -> [p EXCEPT !.tohost = 0, !.host = g]
                       [] h.at = "fromhost" -> [p EXCEPT !.fromhost = v, !.host = f]
                       [] OTHER -> Reset([p EXCEPT !.host = h])
  BY DEF Tick
<1>2. CASE ~p.run
  BY <1>1, <1>2
<1>3. CASE p.run /\ h.at = "tohost"
  <2>1. Tick(p) = [p EXCEPT !.tohost = 0, !.host = g]
    BY <1>1, <1>3
  <2>2. Set(Tick(p), p, 0, p.fromhost, g)
    BY <2>1, HostGets DEF IsProc
  <2> QED
    BY <2>2 DEF Set
<1>4. CASE p.run /\ h.at = "fromhost"
  <2>1. Tick(p) = [p EXCEPT !.fromhost = v, !.host = f]
    BY <1>1, <1>4
  <2>2. Set(Tick(p), p, p.tohost, v, f)
    BY <2>1, HostGives DEF IsProc
  <2> QED
    BY <2>2 DEF Set
<1>5. CASE p.run /\ h.at # "tohost" /\ h.at # "fromhost"
  <2>1. Tick(p) = Reset([p EXCEPT !.host = h])
    BY <1>1, <1>5
  <2>2. WasReset(Tick(p), p, h)
    BY <2>1, HostResets DEF IsProc
  <2> QED
    BY <2>2 DEF WasReset
<1> QED
  BY <1>2, <1>3, <1>4, <1>5

(* p has n instructions to count before the host's next turn, or at most   *)
(* these; where its steps stand then; whether it runs on from where it     *)
(* was; and p and q stand at the same.                                     *)
Fits(p, n) == p.step + n <= Interleave
StepAfter(p, n) == IF p.step + n = Interleave THEN 0 ELSE p.step + n
GoesOn(r, p) == r.run => r.pc = p.pc
Even(p, n, q, m) == p.step + n = q.step + m

(* The host's turn, if it is due after n more instructions.                *)
LEMMA SteppedIs ==
  ASSUME Interleave \in Nat \ {0}, NEW p, IsProc(p), NEW n \in Nat, Fits(p, n),
         NEW r, r = Stepped(p, n)
  PROVE  /\ IsProc(r) /\ r.step < Interleave
         /\ r.step = StepAfter(p, n)
         /\ GoesOn(r, p)
         /\ p.step + n < Interleave => Alike(r, p)
<1> USE DEF Fits, StepAfter, GoesOn
<1>0. p.step \in Nat
  BY DEF IsProc
<1>1. CASE p.step + n = Interleave
  <2> PICK q : q = [p EXCEPT !.step = 0]
    OBVIOUS
  <2>1. r = Tick(q)
    BY <1>1 DEF Stepped
  <2>2. IsProc(q) /\ q.pc = p.pc /\ q.step = 0
    BY MovesStep
  <2>3. IsProc(r) /\ r.step = 0
    BY <2>1, <2>2, TickIs
  <2>4. r.run => r.pc = p.pc
    BY <2>1, <2>2, TickGoesOn
  <2> QED
    BY <1>0, <1>1, <2>3, <2>4
<1>2. CASE p.step + n # Interleave
  <2>1. r = [p EXCEPT !.step = p.step + n]
    BY <1>2 DEF Stepped
  <2>2. p.step + n \in Nat
    BY <1>0
  <2>3. IsProc(r) /\ r.pc = p.pc /\ r.step = p.step + n /\ Alike(r, p)
    BY <2>1, <2>2, MovesStep
  <2> QED
    BY <1>0, <1>2, <2>3
<1> QED
  BY <1>1, <1>2

(* Two processors that come to the same step stay alike.                   *)
LEMMA SteppedAlike ==
  ASSUME Interleave \in Nat \ {0}, NEW p, NEW q, IsProc(p), IsProc(q), Alike(p, q),
         NEW n \in Nat, NEW m \in Nat, Even(p, n, q, m)
  PROVE  Alike(Stepped(p, n), Stepped(q, m))
<1> USE DEF Even
<1>0. p.step \in Nat /\ q.step \in Nat
  BY DEF IsProc
<1>1. CASE p.step + n = Interleave
  <2> PICK r : r = [p EXCEPT !.step = 0]
    OBVIOUS
  <2> PICK t : t = [q EXCEPT !.step = 0]
    OBVIOUS
  <2>1. Stepped(p, n) = Tick(r) /\ Stepped(q, m) = Tick(t)
    BY <1>1 DEF Stepped
  <2>2. IsProc(r) /\ Alike(r, p)
    BY MovesStep
  <2>3. IsProc(t) /\ Alike(t, q)
    BY MovesStep
  <2>4. Alike(r, t)
    BY <2>2, <2>3, AlikeIs
  <2> QED
    BY <2>1, <2>2, <2>3, <2>4, TickAlike
<1>2. CASE p.step + n # Interleave
  <2> PICK r : r = [p EXCEPT !.step = p.step + n]
    OBVIOUS
  <2> PICK t : t = [q EXCEPT !.step = q.step + m]
    OBVIOUS
  <2>1. Stepped(p, n) = r /\ Stepped(q, m) = t
    BY <1>2 DEF Stepped
  <2>5. p.step + n \in Nat /\ q.step + m \in Nat
    BY <1>0
  <2>2. Alike(r, p)
    BY <2>5, MovesStep
  <2>3. Alike(t, q)
    BY <2>5, MovesStep
  <2>4. Alike(r, t)
    BY <2>2, <2>3, AlikeIs
  <2> QED
    BY <2>1, <2>4
<1> QED
  BY <1>1, <1>2

-----------------------------------------------------------------------------
(* The step of the functional simulator, of a processor s of the program   *)
(* pg: as IsaStep, of which the program is a parameter.                    *)
InsnOf(pg, pc) == IF pc \in DOMAIN pg THEN pg[pc] ELSE Nowhere
StepOf(pg, s) == Completed(s.pc, execute_insn(s, s.pc, InsnOf(pg, s.pc)))

At(h, i) == (h + i) % DebugSize

(* The processors st[0], st[1], .. that the functional simulator went      *)
(* through since the entry at the head of the ring r, up to where it is:   *)
(* the entries are what each of their steps logged.                        *)
Through(pg, st, r) ==
    /\ \A i \in 0 .. r.length : IsProc(st[i]) /\ st[i].step < Interleave
    /\ st[r.length] = r.isa
    /\ \A i \in 0 .. r.length - 1 :
        /\ st[i].run
        /\ r.db[At(r.head, i)] = StepOf(pg, st[i]).entry
        /\ st[i + 1] = StepOf(pg, st[i]).p

Nexts(r) == \A a \in Slot : r.db[a].next \in Nat
RingType(r) ==
    /\ r = [isa |-> r.isa, db |-> r.db, head |-> r.head, length |-> r.length]
    /\ DOMAIN r.db = Slot /\ r.head \in Slot /\ r.length \in 0 .. DebugSize
    /\ Nexts(r)

(* The pipeline's processor, once it has ticked its host for the n         *)
(* instructions it retired this cycle, is s but for the PC.                *)
Facing(m, n, s) == Alike(Stepped(m, n), s) /\ Stepped(m, n).step = s.step

(* Where the instruction i at pc goes, as far as its kind decides it.      *)
Goes(i, pc, next) ==
    /\ i.op = "jump" => next = i.target
    /\ i.op \in {"add", "store"} => next = pc + 1
    /\ i.op \in Traps => next = Handler

(* Every PC has an instruction, and the trap handler is at a PC.           *)
LEMMA InsnIs ==
  ASSUME CheckerAssumption, NEW pg \in Programs, NEW pc \in Nat
  PROVE  InsnOf(pg, pc).target \in Nat /\ InsnOf(pg, pc).op \in Op /\ Handler \in Nat
<1>1. pg \in Seq([op : Op, target : Nat]) /\ Handler \in DOMAIN pg
  BY DEF CheckerAssumption
<1>2. Handler \in Nat
  BY <1>1
<1>3. CASE pc \in DOMAIN pg
  <2>1. pg[pc] \in [op : Op, target : Nat]
    <3>1. pc \in 1 .. Len(pg)
      BY <1>1, <1>3
    <3> QED
      BY <1>1, <3>1, ElementOfSeq
  <2>2. InsnOf(pg, pc) = pg[pc]
    BY <1>3 DEF InsnOf
  <2> QED
    BY <1>2, <2>1, <2>2
<1>4. CASE pc \notin DOMAIN pg
  BY <1>2, <1>4 DEF InsnOf, Nowhere, Op, Traps
<1> QED
  BY <1>3, <1>4

(* What the kind of an instruction decides about its execution.            *)
LEMMA ExecuteGoes ==
  ASSUME NEW p, NEW pc, NEW i, NEW x, x = execute_insn(p, pc, i)
  PROVE  /\ i.op = "jump" => x.throws = "none" /\ x.next = i.target
         /\ i.op \in {"add", "store"} => x.throws = "none" /\ x.next = pc + 1
         /\ i.op \in Traps => x.throws = "trap"
         /\ i.op \notin Csr \cup Traps => x.throws = "none"
         /\ i.op = "store" => x.p = p
         /\ x.throws \in {"none", "trap", "serialize"}
         /\ x.throws = "serialize" => x.next = pc
<1> USE DEF execute_insn, Csr, Traps
<1>1. CASE i.op \in Csr
  <2>1. x = CsrInsn(p, Tick(p), pc, i.op)
    BY <1>1
  <2>2. ASSUME NEW c
        PROVE  /\ Serialized(p, pc, c).throws \in {"none", "serialize"}
               /\ Serialized(p, pc, c).throws = "serialize" => Serialized(p, pc, c).next = pc
    BY DEF Serialized, Done
  <2>3. ASSUME NEW c, NEW n PROVE Done(c, n).throws = "none"
    BY DEF Done
  <2>4. Trapped(p, pc).throws = "trap"
    BY DEF Trapped
  <2>5. x.throws \in {"none", "trap", "serialize"} /\ (x.throws = "serialize" => x.next = pc)
    BY <2>1, <2>2, <2>3, <2>4 DEF CsrInsn
  <2> QED
    BY <1>1, <2>5
<1>2. CASE i.op \in Traps
  <2>1. x = Trapped(p, pc)
    BY <1>2
  <2> QED
    BY <1>2, <2>1 DEF Trapped
<1>3. CASE i.op \notin Csr /\ i.op \notin Traps
  <2>1. x.throws = "none"
    BY <1>3 DEF Done
  <2>2. i.op = "jump" => x.next = i.target
    BY <1>3 DEF Done
  <2>3. i.op \in {"add", "store"} => x.next = pc + 1
    BY <1>3 DEF Done
  <2>4. i.op = "store" => x.p = p
    BY <1>3 DEF Done
  <2> QED
    BY <1>3, <2>1, <2>2, <2>3, <2>4
<1> QED
  BY <1>1, <1>2, <1>3

(* What a step logs, with or without a trap, and where it moves on from q. *)
Moved(q, next) == Stepped([update_timer(q, 1) EXCEPT !.pc = next], 1)
Logs(e, pc, q, next, x) ==
    /\ e.p = Moved(q, next)
    /\ e.entry.pc = pc /\ e.entry.next = next /\ e.entry.state = Checked(q)
    /\ e.entry.exception = (x.throws = "trap")

LEMMA CompletedIs ==
  ASSUME NEW pc, NEW x,
         NEW q, q = IF x.throws = "trap" THEN take_trap(x.p, pc) ELSE x.p,
         NEW next, next = IF x.throws = "trap" THEN Handler ELSE x.next,
         NEW e, e = Completed(pc, x)
  PROVE  Logs(e, pc, q, next, x)
<1>1. CASE x.throws = "trap"
  <2>1. e = Logged(pc, q, next, TRUE)
    BY <1>1 DEF Completed
  <2>2. (x.throws = "trap") = TRUE
    BY <1>1
  <2>3. /\ e.p = Moved(q, next)
        /\ e.entry.pc = pc /\ e.entry.next = next /\ e.entry.state = Checked(q)
        /\ e.entry.exception = TRUE
    BY <2>1 DEF Logged, Moved
  <2> QED
    BY <2>2, <2>3, Zenon DEF Logs
<1>2. CASE x.throws # "trap"
  <2>1. e = Logged(pc, q, next, FALSE)
    BY <1>2 DEF Completed
  <2>2. (x.throws = "trap") = FALSE
    BY <1>2
  <2>3. /\ e.p = Moved(q, next)
        /\ e.entry.pc = pc /\ e.entry.next = next /\ e.entry.state = Checked(q)
        /\ e.entry.exception = FALSE
    BY <2>1 DEF Logged, Moved
  <2> QED
    BY <2>2, <2>3, Zenon DEF Logs
<1> QED
  BY <1>1, <1>2

(* Retiring n more instructions, p stands where q does.                    *)
Due(p, n, q) == p.step + n = q.step /\ q.step < Interleave

(* The timer, the PC and the host's turn, of two processors that are alike.*)
Finished(p, n, t, f, next) ==
    /\ IsProc(t) /\ t.step = p.step /\ Facing(t, n + 1, f)
    /\ IsProc(f) /\ f.step < Interleave /\ (f.run => f.pc = next)

LEMMA Finishes ==
  ASSUME CheckerAssumption, NEW p, NEW q, IsProc(p), IsProc(q), Alike(p, q), NEW n \in Nat,
         Due(p, n, q), NEW next \in Nat,
         NEW t, t = update_timer(p, 1),
         NEW f, f = Moved(q, next)
  PROVE  Finished(p, n, t, f, next)
<1> PICK v : v = update_timer(q, 1)
  OBVIOUS
<1> PICK w : w = [v EXCEPT !.pc = next]
  OBVIOUS
<1>1. p.step \in Nat /\ q.step \in Nat
  BY DEF IsProc
<1>11. Width \in Nat \ {0}
  BY DEF CheckerAssumption
<1>12. Interleave \in Nat \ {0}
  BY DEF CheckerAssumption
<1>2. IsProc(t) /\ IsProc(v) /\ t.step = p.step /\ v.step = q.step /\ Alike(t, v)
  <2>1. Updated(p, q, t, v)
    BY <1>11, UpdatesTimer
  <2> QED
    BY <2>1 DEF Updated
<1>3. IsProc(w) /\ w.pc = next /\ w.step = q.step /\ Alike(w, v)
  BY <1>2, MovesPc
<1>4. Alike(t, w)
  BY <1>2, <1>3, AlikeIs
<1>5. f = Stepped(w, 1)
  BY DEF Moved
<1>6. /\ Even(t, n + 1, w, 1) /\ Fits(t, n + 1) /\ Fits(w, 1)
      /\ StepAfter(t, n + 1) = StepAfter(w, 1)
  BY <1>1, <1>2, <1>3, <1>12 DEF Due, Even, Fits, StepAfter
<1>13. n + 1 \in Nat /\ 1 \in Nat
  OBVIOUS
<1>7. IsProc(f) /\ f.step < Interleave /\ (f.run => f.pc = w.pc) /\ f.step = StepAfter(w, 1)
  <2> PICK h : h = Stepped(w, 1)
    OBVIOUS
  <2>1. IsProc(h) /\ h.step < Interleave /\ (h.run => h.pc = w.pc) /\ h.step = StepAfter(w, 1)
    <3>1. 1 \in Nat
      OBVIOUS
    <3>2. Fits(w, 1) /\ IsProc(w)
      BY <1>3, <1>6
    <3>3. IsProc(h) /\ h.step < Interleave /\ h.step = StepAfter(w, 1) /\ GoesOn(h, w)
      BY <3>1, <3>2, <1>12, SteppedIs
    <3> QED
      BY <3>3 DEF GoesOn
  <2>2. f = h
    BY <1>5
  <2> QED
    BY <2>1, <2>2, Zenon
<1> PICK g : g = Stepped(t, n + 1)
  OBVIOUS
<1>8. g.step = StepAfter(t, n + 1)
  BY <1>2, <1>6, <1>12, <1>13, SteppedIs
<1>9. Alike(g, f)
  <2>1. Alike(Stepped(t, n + 1), Stepped(w, 1))
    BY <1>2, <1>3, <1>4, <1>6, <1>12, <1>13, SteppedAlike
  <2> QED
    BY <1>5, <2>1
<1>10. Facing(t, n + 1, f)
  BY <1>6, <1>7, <1>8, <1>9 DEF Facing
<1> QED
  BY <1>2, <1>3, <1>7, <1>10 DEF Finished

(* A step of the functional simulator from s, and the retirement of the    *)
(* same instruction in the pipeline, whose processor is m.                 *)
LEMMA StepsSame ==
  ASSUME CheckerAssumption, NEW m, NEW s, IsProc(m), IsProc(s), NEW n \in Nat,
         Due(m, n, s), Alike(m, s), NEW pg \in Programs,
         NEW x, x = execute_insn(m, s.pc, InsnOf(pg, s.pc)),
         NEW p, p = IF x.throws = "trap" THEN take_trap(m, s.pc) ELSE x.p,
         NEW e, e = StepOf(pg, s)
  PROVE  /\ IsProc(update_timer(p, 1)) /\ update_timer(p, 1).step = m.step
         /\ Facing(update_timer(p, 1), n + 1, e.p)
         /\ IsProc(e.p) /\ e.p.step < Interleave
         /\ e.p.run => e.p.pc = e.entry.next
         /\ e.entry.pc = s.pc /\ e.entry.state = Checked(p)
         /\ e.entry.exception = (x.throws = "trap")
         /\ e.entry.next = (IF x.throws = "trap" THEN Handler ELSE x.next) /\ e.entry.next \in Nat
<1> PICK pc \in Nat : pc = s.pc
  BY DEF IsProc
<1> PICK i : i = InsnOf(pg, pc)
  OBVIOUS
<1>1. i.target \in Nat /\ Handler \in Nat
  BY InsnIs
<1> PICK y : y = execute_insn(s, pc, i)
  OBVIOUS
<1>2. x = execute_insn(m, pc, i)
  OBVIOUS
<1>3. Right(x, y, m)
  BY <1>1, <1>2, ExecuteSame
<1>4. Alike(s, m)
  BY AlikeIs
<1>5. Right(y, x, s)
  BY <1>1, <1>2, <1>4, ExecuteSame
<1> PICK q : q = IF y.throws = "trap" THEN take_trap(y.p, pc) ELSE y.p
  OBVIOUS
<1> PICK next : next = IF x.throws = "trap" THEN Handler ELSE x.next
  OBVIOUS
<1>6. IsProc(p) /\ IsProc(q) /\ p.step = m.step /\ q.step = s.step /\ Alike(p, q)
  <2>1. CASE x.throws = "trap"
    <3>1. y.throws = "trap" /\ x.p = m /\ y.p = s
      BY <1>3, <1>5, <2>1 DEF Right, Same
    <3>2. p = take_trap(m, pc) /\ q = take_trap(s, pc)
      BY <2>1, <3>1
    <3>3. IsProc(p) /\ IsProc(q) /\ p.step = m.step /\ Alike(p, q)
      BY <3>2, TakesTrap, SMTT(30)
    <3>4. q.step = s.step
      <4> PICK a : a = take_trap(s, pc)
        OBVIOUS
      <4> PICK b : b = take_trap(m, pc)
        OBVIOUS
      <4>1. a.step = s.step
        BY <1>4, TakesTrap
      <4> QED
        BY <3>2, <4>1
    <3> QED
      BY <3>3, <3>4
  <2>2. CASE x.throws # "trap"
    <3>1. y.throws # "trap"
      BY <1>3, <2>2 DEF Right, Same
    <3>2. p = x.p /\ q = y.p
      BY <2>2, <3>1
    <3> QED
      BY <1>3, <1>5, <3>2 DEF Right, Same
  <2> QED
    BY <2>1, <2>2
<1>7. x.throws = y.throws /\ next = (IF y.throws = "trap" THEN Handler ELSE y.next) /\ next \in Nat
  BY <1>1, <1>3 DEF Right, Same
<1> PICK t : t = update_timer(p, 1)
  OBVIOUS
<1> PICK f : f = Moved(q, next)
  OBVIOUS
<1>8. /\ IsProc(t) /\ t.step = p.step /\ Facing(t, n + 1, f)
      /\ IsProc(f) /\ f.step < Interleave /\ (f.run => f.pc = next)
  <2>1. Due(p, n, q)
    BY <1>6 DEF Due
  <2>2. Finished(p, n, t, f, next)
    BY <1>6, <1>7, <2>1, Finishes
  <2> QED
    BY <2>2 DEF Finished
<1>11. /\ e.p = f
       /\ e.entry.pc = pc /\ e.entry.next = next /\ e.entry.state = Checked(q)
       /\ e.entry.exception = (y.throws = "trap")
  <2>1. e = Completed(pc, y)
    BY DEF StepOf
  <2>2. Logs(e, pc, q, next, y)
    BY <1>7, <2>1, CompletedIs
  <2> QED
    BY <2>2 DEF Logs
<1>15. Checked(p) = Checked(q)
  BY <1>6, AlikeIs
<1> QED
  BY <1>6, <1>7, <1>8, <1>11, <1>15

(* What a step of the functional simulator says of its entry.              *)
LEMMA StepIs ==
  ASSUME CheckerAssumption, NEW s, IsProc(s), s.step < Interleave, NEW pg \in Programs,
         NEW e, e = StepOf(pg, s)
  PROVE  /\ IsProc(e.p) /\ e.p.step < Interleave
         /\ e.p.run => e.p.pc = e.entry.next
         /\ e.entry.pc = s.pc /\ s.pc \in Nat /\ e.entry.next \in Nat
         /\ Goes(InsnOf(pg, s.pc), s.pc, e.entry.next)
<1> PICK x : x = execute_insn(s, s.pc, InsnOf(pg, s.pc))
  OBVIOUS
<1> PICK p : p = IF x.throws = "trap" THEN take_trap(s, s.pc) ELSE x.p
  OBVIOUS
<1>1. Alike(s, s) /\ s.step \in Nat /\ s.pc \in Nat
  BY DEF Alike, IsProc
<1>2. /\ IsProc(e.p) /\ e.p.step < Interleave
      /\ e.p.run => e.p.pc = e.entry.next
      /\ e.entry.pc = s.pc
      /\ e.entry.next = (IF x.throws = "trap" THEN Handler ELSE x.next) /\ e.entry.next \in Nat
  <2>1. Due(s, 0, s) /\ 0 \in Nat
    BY <1>1 DEF Due
  <2> QED
    BY <1>1, <2>1, StepsSame
<1>3. Goes(InsnOf(pg, s.pc), s.pc, e.entry.next)
  BY <1>2, ExecuteGoes DEF Goes
<1> QED
  BY <1>1, <1>2, <1>3

-----------------------------------------------------------------------------
(* Filling the ring. Where it stood, it says what it said; and it stops at *)
(* the end of the program or when it is full.                              *)
More(s) == IF Hungry(s) THEN Push(s, IsaStep(s.isa)) ELSE s
Fills(g, s, m) == g = [n \in 0 .. m |-> IF n = 0 THEN s ELSE More(g[n - 1])]

(* The function by which Filled is defined exists.                         *)
LEMMA FillExists ==
  ASSUME NEW s, NEW n \in Nat
  PROVE  \E g : Fills(g, s, n)
<1> DEFINE P(k) == \E g : Fills(g, s, k)
           S == {k \in 0 .. n : ~P(k)}
<1>1. SUFFICES ASSUME S # {} PROVE FALSE
  <2>1. n \in 0 .. n
    OBVIOUS
  <2> QED
    BY <2>1
<1>2. PICK p \in S : \A q \in S : p <= q
  <2>1. S \in SUBSET Int
    OBVIOUS
  <2>2. IsFiniteSet(0 .. n)
    BY FS_Interval
  <2>3. IsFiniteSet(S)
    BY <2>2, FS_Subset
  <2> QED
    BY <1>1, <2>1, <2>3, LeastExists
<1>3. CASE p = 0
  <2> DEFINE g == [k \in 0 .. 0 |-> s]
  <2>1. Fills(g, s, 0)
    BY DEF Fills
  <2> QED
    BY <1>2, <1>3, <2>1
<1>4. CASE p # 0
  <2>1. p - 1 \in 0 .. n /\ p - 1 \notin S /\ p \in 1 .. n
    BY <1>2, <1>4
  <2>2. PICK h : Fills(h, s, p - 1)
    BY <2>1
  <2> DEFINE g == [k \in 0 .. p |-> IF k = p THEN More(h[p - 1]) ELSE h[k]]
  <2>3. \A k \in 0 .. p - 1 : g[k] = h[k] /\ h[k] = (IF k = 0 THEN s ELSE More(h[k - 1]))
    BY <2>1, <2>2 DEF Fills
  <2>4. g[p] = More(h[p - 1]) /\ p # 0
    BY <2>1
  <2>5. \A k \in 0 .. p : g[k] = IF k = 0 THEN s ELSE More(g[k - 1])
    <3> HIDE DEF g
    <3> TAKE k \in 0 .. p
    <3>1. CASE k = p
      <4>1. p - 1 \in 0 .. p - 1
        BY <2>1
      <4>2. g[p - 1] = h[p - 1]
        BY <2>3, <4>1
      <4> QED
        BY <2>4, <3>1, <4>2
    <3>2. CASE k # p /\ k # 0
      <4>1. k \in 0 .. p - 1 /\ k - 1 \in 0 .. p - 1
        BY <2>1, <3>2
      <4>2. g[k] = h[k] /\ h[k] = More(h[k - 1]) /\ g[k - 1] = h[k - 1]
        BY <2>3, <3>2, <4>1
      <4> QED
        BY <3>2, <4>2
    <3>3. CASE k = 0
      <4>1. 0 \in 0 .. p - 1
        BY <2>1
      <4> QED
        BY <2>3, <3>3, <4>1
    <3> QED
      BY <3>1, <3>2, <3>3
  <2>6. Fills(g, s, p)
    <3>1. DOMAIN g = 0 .. p /\ g = [k \in 0 .. p |-> g[k]]
      OBVIOUS
    <3> HIDE DEF g
    <3> QED
      BY <2>5, <3>1 DEF Fills
  <2> HIDE DEF g
  <2> QED
    BY <1>2, <2>6
<1> QED
  BY <1>3, <1>4

(* Filling is as many times one more entry, where there is room.           *)
LEMMA FilledBy ==
  ASSUME CheckerAssumption, NEW s
  PROVE  \E g : /\ g[0] = s /\ g[DebugSize] = Filled(s)
                /\ \A n \in 1 .. DebugSize : g[n] = More(g[n - 1])
<1>1. DebugSize \in Nat
  BY DEF CheckerAssumption
<1> DEFINE fill == CHOOSE g : Fills(g, s, DebugSize)
<1>2. Fills(fill, s, DebugSize)
  BY <1>1, FillExists
<1>3. Filled(s) = fill[DebugSize]
  BY DEF Filled, Fills, More
<1> HIDE DEF fill
<1>4. \A n \in 0 .. DebugSize : fill[n] = IF n = 0 THEN s ELSE More(fill[n - 1])
  BY <1>2 DEF Fills
<1>5. fill[0] = s
  BY <1>1, <1>4
<1>6. \A n \in 1 .. DebugSize : fill[n] = More(fill[n - 1])
  BY <1>1, <1>4
<1> QED
  BY <1>3, <1>5, <1>6

(* Places of the ring.                                                     *)
LEMMA AtIs ==
  ASSUME CheckerAssumption, NEW h \in Slot
  PROVE  /\ \A i \in 0 .. DebugSize : At(h, i) \in Slot
         /\ \A i \in 0 .. DebugSize - 1 : \A j \in 0 .. DebugSize - 1 :
                At(h, i) = At(h, j) => i = j
         /\ At(h, 0) = h
         /\ \A i \in 0 .. DebugSize - 1 : At(h, i + 1) = At(At(h, 1), i)
<1>1. DebugSize \in Nat \ {0} /\ h \in 0 .. DebugSize - 1
  BY DEF CheckerAssumption, Slot
<1>2. ASSUME NEW g \in 0 .. DebugSize - 1, NEW i \in 0 .. DebugSize
      PROVE  At(g, i) = IF g + i < DebugSize THEN g + i ELSE g + i - DebugSize
  BY <1>1, <1>2, Forward DEF At
<1>3. \A i \in 0 .. DebugSize : At(h, i) \in 0 .. DebugSize - 1
  BY <1>1, <1>2
<1>4. ASSUME NEW i \in 0 .. DebugSize - 1, NEW j \in 0 .. DebugSize - 1, At(h, i) = At(h, j)
      PROVE  i = j
  <2>1. At(h, i) = IF h + i < DebugSize THEN h + i ELSE h + i - DebugSize
    BY <1>1, <1>2
  <2>2. At(h, j) = IF h + j < DebugSize THEN h + j ELSE h + j - DebugSize
    BY <1>1, <1>2
  <2> PICK a : a = At(h, i)
    OBVIOUS
  <2>3. a = (IF h + i < DebugSize THEN h + i ELSE h + i - DebugSize)
    BY <2>1
  <2>4. a = (IF h + j < DebugSize THEN h + j ELSE h + j - DebugSize)
    BY <1>4, <2>2
  <2> QED
    BY <1>1, <2>3, <2>4
<1>5. At(h, 0) = h
  BY <1>1, <1>2
<1>6. ASSUME NEW i \in 0 .. DebugSize - 1
      PROVE  At(h, i + 1) = At(At(h, 1), i)
  <2>1. 1 \in 0 .. DebugSize /\ i \in 0 .. DebugSize /\ i + 1 \in 0 .. DebugSize
    BY <1>1
  <2>2. At(h, 1) = IF h + 1 < DebugSize THEN h + 1 ELSE h + 1 - DebugSize
    BY <1>1, <1>2, <2>1
  <2>3. At(h, 1) \in 0 .. DebugSize - 1
    BY <1>3, <2>1
  <2>4. At(At(h, 1), i) = IF At(h, 1) + i < DebugSize THEN At(h, 1) + i ELSE At(h, 1) + i - DebugSize
    BY <1>2, <2>1, <2>3
  <2>5. At(h, i + 1) = IF h + (i + 1) < DebugSize THEN h + (i + 1) ELSE h + (i + 1) - DebugSize
    BY <1>1, <1>2, <2>1
  <2> QED
    BY <1>1, <2>2, <2>4, <2>5
<1> QED
  BY <1>3, <1>4, <1>5, <1>6 DEF Slot

(* An entry more leaves the ones before it alone.                          *)
LEMMA PushIs ==
  ASSUME CheckerAssumption, NEW r, RingType(r), r.length < DebugSize, NEW e,
         e.entry.next \in Nat, NEW q, q = Push(r, e)
  PROVE  /\ RingType(q) /\ q.isa = e.p /\ q.head = r.head /\ q.length = r.length + 1
         /\ q.db[At(r.head, r.length)] = e.entry
         /\ \A i \in 0 .. r.length - 1 : q.db[At(r.head, i)] = r.db[At(r.head, i)]
<1> PICK n \in 0 .. DebugSize - 1 : n = r.length
  BY DEF RingType, CheckerAssumption
<1>1. DebugSize \in Nat \ {0} /\ r.head \in Slot /\ DOMAIN r.db = Slot
  BY DEF CheckerAssumption, RingType
<1> PICK a \in Slot : a = At(r.head, n)
  BY <1>1, AtIs
<1>2. q = [r EXCEPT !.isa = e.p, !.length = n + 1, !.db[a] = e.entry]
  BY DEF Push, At
<1>3. q.isa = e.p /\ q.head = r.head /\ q.length = n + 1 /\ q.db = [r.db EXCEPT ![a] = e.entry]
  BY <1>2 DEF RingType
<1>4. q = [isa |-> q.isa, db |-> q.db, head |-> q.head, length |-> q.length]
  BY <1>2 DEF RingType
<1>5. DOMAIN q.db = Slot /\ q.db[a] = e.entry /\ \A b \in Slot : b # a => q.db[b] = r.db[b]
  BY <1>1, <1>3
<1>6. ASSUME NEW i \in 0 .. n - 1
      PROVE  q.db[At(r.head, i)] = r.db[At(r.head, i)]
  <2>1. i \in 0 .. DebugSize - 1 /\ i \in 0 .. DebugSize /\ i # n
    BY <1>1
  <2>2. At(r.head, i) \in Slot /\ At(r.head, i) # a
    BY <1>1, <2>1, AtIs
  <2> QED
    BY <1>5, <2>2
<1>7. n + 1 \in 0 .. DebugSize
  BY <1>1
<1>8. Nexts(q)
  <2>1. \A b \in Slot : r.db[b].next \in Nat
    BY DEF RingType, Nexts
  <2> QED
    BY <1>5, <2>1 DEF Nexts
<1>9. RingType(q)
  BY <1>1, <1>3, <1>4, <1>5, <1>7, <1>8 DEF RingType
<1> QED
  BY <1>3, <1>5, <1>6, <1>9

(* The step it is of is one more that the simulator went through.          *)
LEMMA PushThrough ==
  ASSUME CheckerAssumption, NEW pg \in Programs, NEW r, RingType(r), NEW st, Through(pg, st, r),
         r.length < DebugSize, r.isa.run, NEW q, q = Push(r, StepOf(pg, r.isa))
  PROVE  \E f : Through(pg, f, q) /\ f[0] = st[0]
<1> PICK e : e = StepOf(pg, r.isa)
  OBVIOUS
<1> PICK n \in 0 .. DebugSize - 1 : n = r.length
  BY DEF RingType, CheckerAssumption
<1>2. n \in Nat /\ n \in 0 .. n /\ st[n] = r.isa /\ IsProc(r.isa) /\ r.isa.step < Interleave
  BY DEF Through
<1>3. IsProc(e.p) /\ e.p.step < Interleave /\ e.entry.next \in Nat
  BY <1>2, StepIs
<1>1. /\ q.isa = e.p /\ q.head = r.head /\ q.length = n + 1
      /\ q.db[At(r.head, n)] = e.entry
      /\ \A i \in 0 .. n - 1 : q.db[At(r.head, i)] = r.db[At(r.head, i)]
  <2>1. q = Push(r, e)
    OBVIOUS
  <2> QED
    BY <1>3, <2>1, PushIs
<1> DEFINE f == [i \in 0 .. n + 1 |-> IF i = n + 1 THEN e.p ELSE st[i]]
<1>4. f[n + 1] = e.p /\ \A i \in 0 .. n : f[i] = st[i]
  BY <1>2
<1> HIDE DEF f
<1>5. ASSUME NEW i \in 0 .. q.length
      PROVE  IsProc(f[i]) /\ f[i].step < Interleave
  <2>1. i \in 0 .. n \/ i = n + 1
    BY <1>1, <1>2
  <2> QED
    BY <1>3, <1>4, <2>1 DEF Through
<1>6. ASSUME NEW i \in 0 .. q.length - 1
      PROVE  /\ f[i].run
             /\ q.db[At(q.head, i)] = StepOf(pg, f[i]).entry
             /\ f[i + 1] = StepOf(pg, f[i]).p
  <2>1. CASE i = n
    BY <1>1, <1>2, <1>4, <2>1
  <2>2. CASE i # n
    <3>1. i \in 0 .. n - 1 /\ i \in 0 .. n /\ i + 1 \in 0 .. n
      BY <1>1, <1>2, <2>2
    <3>2. st[i].run /\ r.db[At(r.head, i)] = StepOf(pg, st[i]).entry /\ st[i + 1] = StepOf(pg, st[i]).p
      BY <3>1 DEF Through
    <3> QED
      BY <1>1, <1>4, <3>1, <3>2
  <2> QED
    BY <2>1, <2>2
<1>7. f[q.length] = q.isa
  BY <1>1, <1>4
<1>8. Through(pg, f, q)
  BY <1>5, <1>6, <1>7 DEF Through
<1>9. f[0] = st[0]
  BY <1>2, <1>4
<1> QED
  BY <1>8, <1>9

(* What filling the ring r, that began at st[0], makes of it.              *)
Fuller(pg, st, r, q) ==
    /\ RingType(q) /\ q.head = r.head /\ q.length >= r.length
    /\ \A i \in 0 .. r.length - 1 : q.db[At(r.head, i)] = r.db[At(r.head, i)]
    /\ \E f : Through(pg, f, q) /\ f[0] = st[0]
    /\ ~r.isa.run => q = r

(* One more entry keeps what filling has made so far.                      *)
LEMMA MoreIs ==
  ASSUME CheckerAssumption, program \in Programs, NEW r, RingType(r), NEW st,
         NEW s, Fuller(program, st, r, s), NEW q, q = More(s)
  PROVE  /\ Fuller(program, st, r, q)
         /\ Hungry(q) => q.length = s.length + 1
<1> PICK m \in 0 .. DebugSize : m = r.length
  BY DEF RingType
<1> PICK n \in 0 .. DebugSize : n = s.length
  BY DEF RingType, Fuller
<1>0. DebugSize \in Nat
  BY DEF CheckerAssumption
<1>1. CASE Hungry(s)
  <2>1. q = Push(s, StepOf(program, s.isa)) /\ s.length < DebugSize /\ s.isa.run
    BY <1>1 DEF More, Hungry, IsaStep, StepOf, Insn, InsnOf
  <2>2. RingType(s) /\ s.head = r.head /\ n >= m
    BY DEF Fuller
  <2>3. PICK g : Through(program, g, s) /\ g[0] = st[0]
    BY DEF Fuller
  <2>4. \E f : Through(program, f, q) /\ f[0] = st[0]
    BY <2>1, <2>2, <2>3, PushThrough
  <2>5. /\ RingType(q) /\ q.head = s.head /\ q.length = n + 1
        /\ \A i \in 0 .. n - 1 : q.db[At(s.head, i)] = s.db[At(s.head, i)]
    <3> PICK e : e = StepOf(program, s.isa)
      OBVIOUS
    <3>1. IsProc(s.isa) /\ s.isa.step < Interleave
      <4>1. n \in 0 .. n
        BY <1>0
      <4> QED
        BY <2>3, <4>1 DEF Through
    <3>2. e.entry.next \in Nat
      BY <3>1, StepIs
    <3>3. q = Push(s, e)
      BY <2>1
    <3> QED
      BY <2>1, <2>2, <3>2, <3>3, PushIs
  <2>6. \A i \in 0 .. m - 1 : q.db[At(r.head, i)] = r.db[At(r.head, i)]
    <3> TAKE i \in 0 .. m - 1
    <3>1. i \in 0 .. n - 1
      BY <2>2
    <3> QED
      BY <2>2, <2>5, <3>1 DEF Fuller
  <2>7. r.isa.run
    BY <2>1 DEF Fuller
  <2> QED
    BY <2>2, <2>4, <2>5, <2>6, <2>7 DEF Fuller
<1>2. CASE ~Hungry(s)
  BY <1>2 DEF More
<1> QED
  BY <1>1, <1>2

(* The filled ring: as before, and full unless the program ended.          *)
LEMMA FilledIs ==
  ASSUME CheckerAssumption, program \in Programs, NEW r, RingType(r), NEW st,
         Through(program, st, r), NEW q, q = Filled(r)
  PROVE  Fuller(program, st, r, q) /\ (q.isa.run => q.length = DebugSize)
<1> PICK m \in 0 .. DebugSize : m = r.length
  BY DEF RingType
<1>0. DebugSize \in Nat
  BY DEF CheckerAssumption
<1>1. PICK g : /\ g[0] = r /\ g[DebugSize] = q
               /\ \A n \in 1 .. DebugSize : g[n] = More(g[n - 1])
  BY FilledBy
<1> DEFINE P(k) == Fuller(program, st, r, g[k]) /\ (Hungry(g[k]) => g[k].length = m + k)
           S == {k \in 0 .. DebugSize : ~P(k)}
<1>2. S = {}
  <2>1. SUFFICES ASSUME S # {} PROVE FALSE
    OBVIOUS
  <2>2. PICK p \in S : \A k \in S : p <= k
    <3>1. S \in SUBSET Int
      OBVIOUS
    <3>2. IsFiniteSet(0 .. DebugSize)
      BY <1>0, FS_Interval
    <3>3. IsFiniteSet(S)
      BY <3>2, FS_Subset
    <3> QED
      BY <2>1, <3>1, <3>3, LeastExists
  <2>3. CASE p = 0
    <3>1. Fuller(program, st, r, r)
      BY DEF Fuller
    <3>2. P(0)
      BY <1>1, <3>1
    <3> QED
      BY <2>2, <2>3, <3>2
  <2>4. CASE p # 0
    <3>1. p - 1 \in 0 .. DebugSize /\ p - 1 \notin S /\ p \in 1 .. DebugSize
      BY <1>0, <2>2, <2>4
    <3>2. Fuller(program, st, r, g[p - 1]) /\ (Hungry(g[p - 1]) => g[p - 1].length = m + (p - 1))
      BY <3>1
    <3>3. g[p] = More(g[p - 1])
      BY <1>1, <3>1
    <3> PICK s : s = g[p - 1]
      OBVIOUS
    <3> PICK t : t = g[p]
      OBVIOUS
    <3>4. Fuller(program, st, r, t) /\ (Hungry(t) => t.length = s.length + 1)
      BY <3>2, <3>3, MoreIs
    <3>5. Hungry(t) => Hungry(s)
      BY <3>3 DEF More
    <3>6. Hungry(t) => t.length = m + p
      BY <3>1, <3>2, <3>4, <3>5
    <3>7. P(p)
      BY <3>4, <3>6
    <3> QED
      BY <2>2, <3>7
  <2> QED
    BY <2>3, <2>4
<1>3. P(DebugSize)
  BY <1>0, <1>2
<1>4. Fuller(program, st, r, q) /\ (Hungry(q) => q.length = m + DebugSize)
  BY <1>1, <1>3
<1> PICK n \in 0 .. DebugSize : n = q.length
  BY <1>4 DEF Fuller, RingType
<1>5. q.isa.run => n = DebugSize
  BY <1>0, <1>4 DEF Hungry
<1> QED
  BY <1>4, <1>5

(* What the entries of the ring say of the instructions they are of: each  *)
(* goes on where the one before it went.                                   *)
Says(pg, r) ==
    \A i \in 0 .. r.length - 1 :
        /\ r.db[At(r.head, i)].pc \in Nat
        /\ Goes(InsnOf(pg, r.db[At(r.head, i)].pc), r.db[At(r.head, i)].pc, r.db[At(r.head, i)].next)
        /\ i + 1 < r.length => r.db[At(r.head, i)].next = r.db[At(r.head, i + 1)].pc

(* Entries of consecutive steps follow one another.                        *)
LEMMA ThroughSays ==
  ASSUME CheckerAssumption, NEW pg \in Programs, NEW r, RingType(r), NEW st, Through(pg, st, r)
  PROVE  Says(pg, r)
<1> PICK n \in 0 .. DebugSize : n = r.length
  BY DEF RingType
<1>0. DebugSize \in Nat
  BY DEF CheckerAssumption
<1>1. ASSUME NEW i \in 0 .. n - 1
      PROVE  /\ st[i].run /\ IsProc(st[i]) /\ st[i].step < Interleave
             /\ r.db[At(r.head, i)] = StepOf(pg, st[i]).entry
             /\ st[i + 1] = StepOf(pg, st[i]).p
  <2>1. i \in 0 .. n
    BY <1>0
  <2> QED
    BY <2>1 DEF Through
<1>2. ASSUME NEW i \in 0 .. n - 1
      PROVE  /\ r.db[At(r.head, i)].pc = st[i].pc /\ st[i].pc \in Nat
             /\ Goes(InsnOf(pg, st[i].pc), st[i].pc, r.db[At(r.head, i)].next)
             /\ st[i + 1].run => st[i + 1].pc = r.db[At(r.head, i)].next
  <2> PICK s : s = st[i]
    OBVIOUS
  <2> PICK e : e = StepOf(pg, s)
    OBVIOUS
  <2>1. IsProc(s) /\ s.step < Interleave /\ r.db[At(r.head, i)] = e.entry /\ st[i + 1] = e.p
    BY <1>1
  <2>2. /\ e.p.run => e.p.pc = e.entry.next
        /\ e.entry.pc = s.pc /\ s.pc \in Nat /\ Goes(InsnOf(pg, s.pc), s.pc, e.entry.next)
    BY <2>1, StepIs
  <2> QED
    BY <2>1, <2>2
<1>3. ASSUME NEW i \in 0 .. n - 1
      PROVE  /\ r.db[At(r.head, i)].pc \in Nat
             /\ Goes(InsnOf(pg, r.db[At(r.head, i)].pc), r.db[At(r.head, i)].pc, r.db[At(r.head, i)].next)
  BY <1>2
<1>4. ASSUME NEW i \in 0 .. n - 1, i + 1 < n
      PROVE  r.db[At(r.head, i)].next = r.db[At(r.head, i + 1)].pc
  <2>1. i + 1 \in 0 .. n - 1
    BY <1>0, <1>4
  <2>2. st[i + 1].run /\ r.db[At(r.head, i + 1)].pc = st[i + 1].pc
    BY <1>1, <1>2, <2>1
  <2> QED
    BY <1>2, <2>2
<1> QED
  BY <1>3, <1>4 DEF Says

(* What is left when the entry at the head is popped.                      *)
LEMMA ReleasedIs ==
  ASSUME CheckerAssumption, NEW q, RingType(q), q.length > 0, NEW w, w = Released(q)
  PROVE  /\ RingType(w) /\ w.isa = q.isa /\ w.db = q.db
         /\ w.head = At(q.head, 1) /\ w.length = q.length - 1
<1>1. w.isa = q.isa /\ w.db = q.db /\ w.head = At(q.head, 1) /\ w.length = q.length - 1
  BY DEF Released, RingType, At
<1>2. w = [isa |-> w.isa, db |-> w.db, head |-> w.head, length |-> w.length]
  BY DEF Released, RingType
<1>3. DebugSize \in Nat \ {0} /\ 1 \in 0 .. DebugSize
  BY DEF CheckerAssumption
<1>4. w.head \in Slot
  BY <1>1, <1>3, AtIs DEF RingType
<1>5. w.length \in 0 .. DebugSize
  BY <1>1, <1>3 DEF RingType
<1>6. Nexts(w)
  BY <1>1 DEF RingType, Nexts
<1> QED
  BY <1>1, <1>2, <1>4, <1>5, <1>6 DEF RingType

(* The simulator went through one step less since the new head.            *)
LEMMA ReleasedThrough ==
  ASSUME CheckerAssumption, NEW pg \in Programs, NEW q, RingType(q), q.length > 0,
         NEW st, Through(pg, st, q), NEW w, w = Released(q)
  PROVE  \E f : Through(pg, f, w) /\ f[0] = StepOf(pg, st[0]).p
<1> PICK n \in 1 .. DebugSize : n = q.length
  BY DEF RingType, CheckerAssumption
<1>0. DebugSize \in Nat \ {0}
  BY DEF CheckerAssumption
<1>1. w.isa = q.isa /\ w.db = q.db /\ w.head = At(q.head, 1) /\ w.length = n - 1
  BY ReleasedIs
<1> DEFINE f == [i \in 0 .. n - 1 |-> st[i + 1]]
<1>2. \A i \in 0 .. n - 1 : f[i] = st[i + 1]
  OBVIOUS
<1> HIDE DEF f
<1>3. ASSUME NEW i \in 0 .. w.length
      PROVE  IsProc(f[i]) /\ f[i].step < Interleave
  <2>1. i \in 0 .. n - 1 /\ i + 1 \in 0 .. n
    BY <1>1
  <2> QED
    BY <1>2, <2>1 DEF Through
<1>4. ASSUME NEW i \in 0 .. w.length - 1
      PROVE  f[i].run /\ w.db[At(w.head, i)] = StepOf(pg, f[i]).entry /\ f[i + 1] = StepOf(pg, f[i]).p
  <2>1. i \in 0 .. n - 1 /\ i + 1 \in 0 .. n - 1 /\ i \in 0 .. DebugSize - 1
    BY <1>0, <1>1
  <2>2. f[i] = st[i + 1] /\ f[i + 1] = st[(i + 1) + 1]
    BY <1>2, <2>1
  <2>3. /\ st[i + 1].run
        /\ q.db[At(q.head, i + 1)] = StepOf(pg, st[i + 1]).entry
        /\ st[(i + 1) + 1] = StepOf(pg, st[i + 1]).p
    BY <2>1 DEF Through
  <2>4. At(q.head, i + 1) = At(w.head, i)
    BY <1>1, <2>1, AtIs DEF RingType
  <2> QED
    BY <1>1, <2>2, <2>3, <2>4
<1>5. f[w.length] = w.isa
  <2>1. n - 1 \in 0 .. n - 1 /\ (n - 1) + 1 = n
    OBVIOUS
  <2>2. f[n - 1] = st[n]
    BY <1>2, <2>1
  <2> QED
    BY <1>1, <2>2 DEF Through
<1>6. Through(pg, f, w)
  BY <1>3, <1>4, <1>5 DEF Through
<1>7. f[0] = StepOf(pg, st[0]).p
  <2>1. 0 \in 0 .. n - 1 /\ 0 + 1 = 1
    OBVIOUS
  <2> QED
    BY <1>2, <2>1 DEF Through
<1> QED
  BY <1>6, <1>7

(* What a pop makes of the ring r, whose oldest entry is what st[0] did.   *)
Pops(pg, st, r, w) ==
    /\ RingType(w) /\ w.head = At(r.head, 1) /\ w.length >= r.length - 1
    /\ w.isa.run => w.length >= DebugSize - 1
    /\ w.db[r.head] = StepOf(pg, st[0]).entry
    /\ \E f : Through(pg, f, w) /\ f[0] = StepOf(pg, st[0]).p
    /\ \A i \in 0 .. r.length - 1 : w.db[At(r.head, i)] = r.db[At(r.head, i)]
    /\ w.length > 0 => w.db[w.head].pc = StepOf(pg, st[0]).entry.next
    /\ ~r.isa.run => ~w.isa.run /\ w.length = r.length - 1

(* Popping is filling and releasing.                                       *)
LEMMA PopIs ==
  ASSUME CheckerAssumption, program \in Programs, NEW r, RingType(r), r.length > 0, NEW st,
         Through(program, st, r), NEW w, w = Released(Filled(r))
  PROVE  Pops(program, st, r, w)
<1> PICK q : q = Filled(r)
  OBVIOUS
<1>0. DebugSize \in Nat \ {0}
  BY DEF CheckerAssumption
<1>1. Fuller(program, st, r, q) /\ (q.isa.run => q.length = DebugSize)
  BY FilledIs
<1> PICK m \in 1 .. DebugSize : m = r.length
  BY DEF RingType, CheckerAssumption
<1> PICK n \in 1 .. DebugSize : n = q.length
  BY <1>0, <1>1 DEF Fuller, RingType
<1>2. /\ RingType(q) /\ q.head = r.head /\ n >= m /\ (~r.isa.run => q = r)
      /\ \A i \in 0 .. m - 1 : q.db[At(r.head, i)] = r.db[At(r.head, i)]
  BY <1>1 DEF Fuller
<1>3. w.isa = q.isa /\ w.db = q.db /\ w.head = At(q.head, 1) /\ w.length = n - 1 /\ RingType(w)
  BY <1>2, ReleasedIs
<1>4. PICK g : Through(program, g, q) /\ g[0] = st[0]
  BY <1>1 DEF Fuller
<1>5. PICK f : Through(program, f, w) /\ f[0] = StepOf(program, st[0]).p
  BY <1>2, <1>4, ReleasedThrough
<1>6. w.db[r.head] = StepOf(program, st[0]).entry
  <2>1. At(r.head, 0) = r.head
    BY AtIs DEF RingType
  <2>2. 0 \in 0 .. m - 1
    OBVIOUS
  <2>3. r.db[At(r.head, 0)] = StepOf(program, st[0]).entry
    BY <2>2 DEF Through
  <2> QED
    BY <1>2, <1>3, <2>1, <2>2, <2>3
<1>7. ASSUME w.length > 0
      PROVE  w.db[w.head].pc = StepOf(program, st[0]).entry.next
  <2>1. At(w.head, 0) = w.head
    BY <1>3, AtIs DEF RingType
  <2>2. n > 1 /\ 0 \in 0 .. n - 1 /\ 0 + 1 < n /\ 0 + 1 = 1
    BY <1>3, <1>7
  <2>3. Says(program, q)
    BY <1>2, <1>4, ThroughSays
  <2>4. q.db[At(q.head, 0)].next = q.db[At(q.head, 1)].pc
    BY <2>2, <2>3 DEF Says
  <2>5. At(r.head, 0) = r.head
    BY AtIs DEF RingType
  <2> QED
    BY <1>2, <1>3, <1>6, <2>4, <2>5
<1>8. w.isa.run => w.length >= DebugSize - 1
  BY <1>1, <1>3
<1>9. \E h : Through(program, h, w) /\ h[0] = StepOf(program, st[0]).p
  BY <1>5
<1>10. \A i \in 0 .. r.length - 1 : w.db[At(r.head, i)] = r.db[At(r.head, i)]
  BY <1>2, <1>3
<1>11. ~r.isa.run => ~w.isa.run /\ w.length = r.length - 1
  BY <1>2, <1>3
<1>12. w.head = At(r.head, 1) /\ w.length >= r.length - 1
  BY <1>2, <1>3
<1> QED
  BY <1>3, <1>6, <1>7, <1>8, <1>9, <1>10, <1>11, <1>12 DEF Pops

-----------------------------------------------------------------------------
(* The instructions in flight, pl, where fetch goes on, fp, and whether it *)
(* waits, sl, against the ring r; pf: branches are predicted perfectly.    *)
Row == [pc : Nat, entry : 0 .. DebugSize, halves : {1, 2}, resolved : BOOLEAN,
        fate : {"fine", "violation", "value"}]
Linked(pl, k) == pl[k].entry # Invalid
Onward(pl, fp, k) == IF k < Len(pl) THEN pl[k + 1].pc ELSE fp
Stopping(pg, pc) == pc \notin DOMAIN pg \/ InsnOf(pg, pc).op \in Csr \cup {"scall"}
Fine(pl, k) == \A j \in 1 .. k - 1 : pl[j].fate = "fine"

(* Nothing is behind an instruction that fetch waits for; only additions   *)
(* are squashed, only stores have two halves, only branches resolve.       *)
KindAt(pg, pl, sl, k) ==
    /\ Stopping(pg, pl[k].pc) => k = Len(pl) /\ sl
    /\ InsnOf(pg, pl[k].pc).op # "add" => pl[k].fate = "fine"
    /\ pl[k].halves = 2 => InsnOf(pg, pl[k].pc).op = "store"
    /\ ~pl[k].resolved => InsnOf(pg, pl[k].pc).op = "branch"

(* Behind an instruction is the one it goes to, if its kind decides that,  *)
(* or if it has resolved, or was predicted perfectly, with right values.   *)
WayAt(pg, pf, r, pl, fp, k) ==
    /\ InsnOf(pg, pl[k].pc).op = "jump" => Onward(pl, fp, k) = InsnOf(pg, pl[k].pc).target
    /\ InsnOf(pg, pl[k].pc).op \in {"add", "store"} => Onward(pl, fp, k) = pl[k].pc + 1
    /\ /\ InsnOf(pg, pl[k].pc).op = "branch" /\ (pf \/ pl[k].resolved)
       /\ Linked(pl, k) /\ r.length > 0 /\ Fine(pl, k)
       => Onward(pl, fp, k) = r.db[pl[k].entry].next

(* The linked instructions are the oldest ones, at the oldest entries, of  *)
(* the same instructions; the first one that is not left their path.       *)
LinkAt(r, pl, k) ==
    /\ Linked(pl, k) /\ r.length > 0 =>
          k <= r.length /\ pl[k].entry = At(r.head, k - 1) /\ pl[k].pc = r.db[At(r.head, k - 1)].pc
    /\ k = 1 /\ r.length > 0 => Linked(pl, k)
    /\ k >= 2 /\ Linked(pl, k) => Linked(pl, k - 1) /\ r.length > 0
    /\ k >= 2 /\ ~Linked(pl, k) => \/ ~Linked(pl, k - 1)
                                   \/ ~r.isa.run /\ k > r.length
                                   \/ r.db[pl[k - 1].entry].next # pl[k].pc

Queue(pg, pf, r, pl, fp, sl) ==
    /\ pl \in Seq(Row) /\ fp \in Nat
    /\ \A k \in 1 .. Len(pl) : KindAt(pg, pl, sl, k)
    /\ \A k \in 1 .. Len(pl) : WayAt(pg, pf, r, pl, fp, k)
    /\ \A k \in 1 .. Len(pl) : LinkAt(r, pl, k)
    /\ pl = <<>> /\ r.length > 0 => fp = r.db[r.head].pc

(* With none in flight, only where fetch goes on matters.                  *)
LEMMA QueueEmpty ==
  ASSUME NEW pg, NEW pf, NEW r, NEW fp \in Nat, NEW sl, r.length > 0 => fp = r.db[r.head].pc
  PROVE  Queue(pg, pf, r, <<>>, fp, sl)
<1>1. <<>> \in Seq(Row) /\ Len(<<>>) = 0 /\ 1 .. 0 = {}
  OBVIOUS
<1> QED
  BY <1>1 DEF Queue

(* The fields of a row.                                                    *)
LEMMA RowIs ==
  ASSUME NEW pl \in Seq(Row), NEW k \in 1 .. Len(pl)
  PROVE  /\ pl[k] \in Row
         /\ pl[k].pc \in Nat /\ pl[k].entry \in 0 .. DebugSize /\ pl[k].halves \in {1, 2}
         /\ pl[k].resolved \in BOOLEAN
<1>1. pl[k] \in Row
  BY ElementOfSeq
<1> QED
  BY <1>1 DEF Row

(* One row of a sequence replaced.                                         *)
Replaced(s, k, y) == [s EXCEPT ![k] = y]

LEMMA ReplacedIs ==
  ASSUME NEW s \in Seq(Row), NEW k \in 1 .. Len(s), NEW y \in Row
  PROVE  /\ Replaced(s, k, y) \in Seq(Row) /\ Len(Replaced(s, k, y)) = Len(s)
         /\ Replaced(s, k, y)[k] = y
         /\ \A j \in 1 .. Len(s) : j # k => Replaced(s, k, y)[j] = s[j]
BY ExceptSeq DEF Replaced

(* The instructions up to some place, of which the k-th resolves, or the   *)
(* first one's upper half retires.                                         *)
LEMMA QueueUpdates ==
  ASSUME NEW pg, NEW pf, NEW r, NEW pl, NEW fp, NEW sl, Queue(pg, pf, r, pl, fp, sl),
         NEW p2 \in Seq(Row), NEW f2 \in Nat, NEW s2, NEW k \in 1 .. Len(p2), Len(p2) <= Len(pl),
         \A j \in 1 .. Len(p2) : /\ p2[j].pc = pl[j].pc /\ p2[j].entry = pl[j].entry
                                 /\ p2[j].fate = pl[j].fate
                                 /\ p2[j].halves = 2 => pl[j].halves = 2
                                 /\ p2[j].resolved = pl[j].resolved \/ (j = k /\ p2[j].resolved),
         \A j \in 1 .. Len(p2) : j # k => Onward(p2, f2, j) = Onward(pl, fp, j),
         \/ p2[k].resolved = pl[k].resolved /\ Onward(p2, f2, k) = Onward(pl, fp, k)
         \/ /\ InsnOf(pg, pl[k].pc).op = "branch"
            /\ Linked(pl, k) /\ Fine(pl, k) => Onward(p2, f2, k) = r.db[pl[k].entry].next,
         \A j \in 1 .. Len(p2) : Stopping(pg, pl[j].pc) => Len(p2) = Len(pl) /\ s2 = sl
  PROVE  Queue(pg, pf, r, p2, f2, s2)
<1>0. pl \in Seq(Row) /\ Len(pl) \in Nat /\ Len(p2) \in Nat
  BY DEF Queue
<1>1. ASSUME NEW j \in 1 .. Len(p2)
      PROVE  /\ j \in 1 .. Len(pl) /\ KindAt(pg, pl, sl, j) /\ WayAt(pg, pf, r, pl, fp, j)
             /\ LinkAt(r, pl, j)
  <2>1. j \in 1 .. Len(pl)
    BY <1>0
  <2> QED
    BY <2>1 DEF Queue
<1>2. ASSUME NEW j \in 1 .. Len(p2)
      PROVE  Linked(p2, j) = Linked(pl, j) /\ Fine(p2, j) = Fine(pl, j)
  <2>1. \A i \in 1 .. j - 1 : p2[i].fate = pl[i].fate
    BY <1>0
  <2> QED
    BY <2>1 DEF Linked, Fine
<1>3. ASSUME NEW j \in 1 .. Len(p2)
      PROVE  KindAt(pg, p2, s2, j)
  BY <1>0, <1>1 DEF KindAt
<1>4. ASSUME NEW j \in 1 .. Len(p2)
      PROVE  WayAt(pg, pf, r, p2, f2, j)
  <2>1. /\ p2[j].pc = pl[j].pc /\ p2[j].entry = pl[j].entry
        /\ Linked(p2, j) = Linked(pl, j) /\ Fine(p2, j) = Fine(pl, j)
        /\ WayAt(pg, pf, r, pl, fp, j)
    BY <1>1, <1>2
  <2>2. CASE p2[j].resolved = pl[j].resolved /\ Onward(p2, f2, j) = Onward(pl, fp, j)
    BY <2>1, <2>2 DEF WayAt
  <2>3. CASE ~(p2[j].resolved = pl[j].resolved /\ Onward(p2, f2, j) = Onward(pl, fp, j))
    <3>1. /\ InsnOf(pg, pl[j].pc).op = "branch"
          /\ Linked(pl, j) /\ Fine(pl, j) => Onward(p2, f2, j) = r.db[pl[j].entry].next
      BY <2>3
    <3> QED
      BY <2>1, <3>1 DEF WayAt
  <2> QED
    BY <2>2, <2>3
<1>5. ASSUME NEW j \in 1 .. Len(p2)
      PROVE  LinkAt(r, p2, j)
  <2>1. j >= 2 => j - 1 \in 1 .. Len(p2)
    BY <1>0
  <2>2. j >= 2 => p2[j - 1].entry = pl[j - 1].entry /\ Linked(p2, j - 1) = Linked(pl, j - 1)
    BY <1>2, <2>1
  <2> QED
    BY <1>1, <1>2, <2>2 DEF LinkAt
<1>6. p2 # <<>>
  BY <1>0
<1> QED
  BY <1>3, <1>4, <1>5, <1>6 DEF Queue

(* The entry behind prev, if it is one of pc.                              *)
Behind(r, prev, pc) ==
    IF (((prev + 1) % DebugSize) + DebugSize - r.head) % DebugSize < r.length
          /\ r.db[(prev + 1) % DebugSize].pc = pc
    THEN (prev + 1) % DebugSize ELSE Invalid

LEMMA BehindIs ==
  ASSUME CheckerAssumption, NEW r, RingType(r), NEW pc
  PROVE  /\ \A n \in 1 .. DebugSize - 1 :
                Behind(r, At(r.head, n - 1), pc) =
                    IF n < r.length /\ r.db[At(r.head, n)].pc = pc THEN At(r.head, n) ELSE Invalid
         /\ r.length = 0 => \A e \in Slot : Behind(r, e, pc) = Invalid
<1>1. DebugSize \in Nat \ {0} /\ r.head \in 0 .. DebugSize - 1 /\ r.length \in 0 .. DebugSize
  BY DEF CheckerAssumption, RingType, Slot
<1>2. ASSUME NEW n \in 1 .. DebugSize - 1
      PROVE  Behind(r, At(r.head, n - 1), pc) =
                IF n < r.length /\ r.db[At(r.head, n)].pc = pc THEN At(r.head, n) ELSE Invalid
  <2> PICK h \in 0 .. DebugSize - 1 : h = r.head
    BY <1>1
  <2>1. At(h, n - 1) = IF h + (n - 1) < DebugSize THEN h + (n - 1) ELSE h + (n - 1) - DebugSize
    <3>1. n - 1 \in 0 .. DebugSize
      BY <1>1
    <3> QED
      BY <1>1, <3>1, Forward DEF At
  <2>2. At(h, n) = IF h + n < DebugSize THEN h + n ELSE h + n - DebugSize
    <3>1. n \in 0 .. DebugSize
      BY <1>1
    <3> QED
      BY <1>1, <3>1, Forward DEF At
  <2> PICK p \in 0 .. DebugSize - 1 : p = At(h, n - 1)
    BY <1>1, <2>1
  <2>3. (p + 1) % DebugSize = IF p + 1 < DebugSize THEN p + 1 ELSE p + 1 - DebugSize
    <3>1. 1 \in 0 .. DebugSize
      BY <1>1
    <3> QED
      BY <1>1, <3>1, Forward
  <2>4. (p + 1) % DebugSize = At(h, n)
    <3>1. p = (IF h + (n - 1) < DebugSize THEN h + (n - 1) ELSE h + (n - 1) - DebugSize)
      BY <2>1
    <3>2. (p + 1) % DebugSize = IF h + n < DebugSize THEN h + n ELSE h + n - DebugSize
      BY <1>1, <2>3, <3>1
    <3> QED
      BY <2>2, <3>2
  <2> PICK a \in 0 .. DebugSize - 1 : a = At(h, n)
    BY <1>1, <2>2
  <2>5. (a + DebugSize - h) % DebugSize = n
    <3>1. a = (IF h + n < DebugSize THEN h + n ELSE h + n - DebugSize)
      BY <2>2
    <3>2. a + DebugSize - h = n \/ a + DebugSize - h = n + DebugSize
      BY <1>1, <3>1
    <3>3. (n + DebugSize) % DebugSize = n /\ n % DebugSize = n
      <4>1. DebugSize \in 0 .. DebugSize /\ n \in 0 .. DebugSize - 1 /\ 0 \in 0 .. DebugSize
        BY <1>1
      <4>2. (n + DebugSize) % DebugSize = IF n + DebugSize < DebugSize THEN n + DebugSize ELSE n + DebugSize - DebugSize
        BY <1>1, <4>1, Forward
      <4>3. (n + 0) % DebugSize = IF n + 0 < DebugSize THEN n + 0 ELSE n + 0 - DebugSize
        BY <1>1, <4>1, Forward
      <4> QED
        BY <1>1, <4>2, <4>3
    <3> QED
      BY <3>2, <3>3
  <2> QED
    BY <2>4, <2>5 DEF Behind
<1>3. ASSUME r.length = 0, NEW e \in Slot
      PROVE  Behind(r, e, pc) = Invalid
  <2> PICK a : a = (e + 1) % DebugSize
    OBVIOUS
  <2>1. a \in 0 .. DebugSize - 1
    BY <1>1 DEF Slot
  <2>2. (a + DebugSize - r.head) % DebugSize >= 0
    BY <1>1, <2>1
  <2>3. (a + DebugSize - r.head) % DebugSize \in Int
    BY <1>1, <2>1
  <2>4. ~((a + DebugSize - r.head) % DebugSize < r.length)
    BY <1>3, <2>2, <2>3
  <2> QED
    BY <2>4 DEF Behind
<1> QED
  BY <1>2, <1>3

(* The row w of the instruction i at fp that joins pl; and fetch goes on   *)
(* to f2 from there.                                                       *)
Enters(r, pl, fp, i, w) ==
    /\ w.pc = fp
    /\ w.entry = IF pl = <<>> THEN r.head
                 ELSE IF pl[Len(pl)].entry = Invalid THEN Invalid
                 ELSE Behind(r, pl[Len(pl)].entry, fp)
    /\ i.op # "add" => w.fate = "fine"
    /\ w.halves = 2 => i.op = "store"
    /\ w.resolved = (i.op # "branch")
GoesOnTo(pf, r, fp, i, w, f2) ==
    /\ i.op = "jump" => f2 = i.target
    /\ i.op \in {"add", "store"} => f2 = fp + 1
    /\ i.op = "branch" /\ pf /\ w.entry # Invalid => f2 = r.db[w.entry].next

(* Fetch of an instruction w at fp, behind which it goes on at f2.         *)
LEMMA QueuePushes ==
  ASSUME CheckerAssumption, NEW pg \in Programs, NEW pf, NEW r, RingType(r), Says(pg, r),
         r.isa.run => r.length >= DebugSize - 1,
         NEW pl, NEW fp, NEW sl, Queue(pg, pf, r, pl, fp, sl), ~sl, Len(pl) < PaySize,
         NEW i, i = InsnOf(pg, fp), NEW w \in Row, Enters(r, pl, fp, i, w),
         NEW f2 \in Nat, GoesOnTo(pf, r, fp, i, w, f2)
  PROVE  Queue(pg, pf, r, Append(pl, w), f2, Stopping(pg, fp))
<1> USE DEF Enters, GoesOnTo
<1> PICK p2 : p2 = Append(pl, w)
  OBVIOUS
<1>0. /\ pl \in Seq(Row) /\ Len(pl) \in Nat /\ PaySize < DebugSize /\ PaySize \in Nat
      /\ DebugSize \in Nat \ {0}
  BY SMTT(30) DEF Queue, CheckerAssumption
<1> PICK n \in 0 .. PaySize - 1 : n = Len(pl)
  BY <1>0
<1>1. p2 \in Seq(Row) /\ Len(p2) = n + 1 /\ p2[n + 1] = w /\ \A j \in 1 .. n : p2[j] = pl[j]
  BY <1>0
<1>2. \A j \in 1 .. n + 1 : j \in 1 .. n \/ j = n + 1
  OBVIOUS
<1>3. ASSUME NEW j \in 1 .. n
      PROVE  /\ KindAt(pg, pl, sl, j) /\ WayAt(pg, pf, r, pl, fp, j) /\ LinkAt(r, pl, j)
             /\ Linked(p2, j) = Linked(pl, j) /\ Fine(p2, j) = Fine(pl, j)
             /\ Onward(p2, f2, j) = Onward(pl, fp, j)
  <2>1. \A k \in 1 .. j - 1 : p2[k] = pl[k]
    BY <1>1
  <2>2. Linked(p2, j) = Linked(pl, j)
    BY <1>1 DEF Linked
  <2>3. Fine(p2, j) = Fine(pl, j)
    BY <2>1 DEF Fine
  <2>4. Onward(p2, f2, j) = Onward(pl, fp, j)
    <3>1. CASE j = n
      BY <1>1, <3>1 DEF Onward
    <3>2. CASE j < n
      <4>1. j + 1 \in 1 .. n
        BY <3>2
      <4> QED
        BY <1>1, <3>2, <4>1 DEF Onward
    <3> QED
      BY <3>1, <3>2
  <2> QED
    BY <2>2, <2>3, <2>4 DEF Queue
<1>4. ASSUME NEW j \in 1 .. n
      PROVE  KindAt(pg, p2, Stopping(pg, fp), j)
  BY <1>1, <1>3 DEF KindAt
<1>5. ASSUME NEW j \in 1 .. n
      PROVE  WayAt(pg, pf, r, p2, f2, j)
  BY <1>1, <1>3 DEF WayAt
<1>6. ASSUME NEW j \in 1 .. n
      PROVE  LinkAt(r, p2, j)
  <2>1. j >= 2 => j - 1 \in 1 .. n
    OBVIOUS
  <2>2. j >= 2 => p2[j - 1].entry = pl[j - 1].entry /\ Linked(p2, j - 1) = Linked(pl, j - 1)
    BY <1>1, <1>3, <2>1
  <2> QED
    BY <1>1, <1>3, <2>2 DEF LinkAt
<1>7. KindAt(pg, p2, Stopping(pg, fp), n + 1)
  BY <1>1 DEF KindAt
<1>8. WayAt(pg, pf, r, p2, f2, n + 1)
  <2>1. Onward(p2, f2, n + 1) = f2
    BY <1>1 DEF Onward
  <2> QED
    BY <1>1, <2>1 DEF WayAt, Linked
<1>9. LinkAt(r, p2, n + 1)
  <2>0. r.length \in 0 .. DebugSize /\ r.head \in Slot /\ Invalid \notin Slot
    BY <1>0 DEF RingType, Invalid, Slot
  <2>1. CASE n = 0
    <3>1. pl = <<>>
      BY <1>0, <2>1, EmptySeq
    <3>2. w.entry = r.head /\ (r.length > 0 => fp = r.db[r.head].pc)
      BY <3>1 DEF Queue
    <3>3. Linked(p2, 1) /\ p2[1].entry = r.head /\ p2[1].pc = fp
      BY <1>1, <2>0, <2>1, <3>2 DEF Linked
    <3>4. At(r.head, 1 - 1) = r.head
      BY <2>0, AtIs
    <3> QED
      BY <2>0, <2>1, <3>2, <3>3, <3>4 DEF LinkAt
  <2>2. CASE n # 0 /\ ~Linked(pl, n)
    <3>1. pl # <<>> /\ n \in 1 .. n
      BY <1>0, <2>2
    <3>2. ~Linked(p2, n + 1) /\ ~Linked(p2, n)
      BY <1>1, <1>3, <2>2, <3>1 DEF Linked
    <3>3. n + 1 >= 2 /\ (n + 1) - 1 = n
      BY <2>2
    <3> QED
      BY <3>2, <3>3 DEF LinkAt
  <2>3. CASE n # 0 /\ Linked(pl, n) /\ r.length = 0
    <3>1. pl # <<>> /\ n \in 1 .. n /\ n \in 1 .. Len(pl)
      BY <1>0, <2>3
    <3>2. pl[n].entry \in Slot
      BY <1>0, <2>3, <3>1, RowIs DEF Linked, Slot, Invalid
    <3>3. w.entry = Invalid
      <4>1. Behind(r, pl[n].entry, fp) = Invalid
        BY <2>3, <3>2, BehindIs
      <4> QED
        BY <2>3, <3>1, <4>1 DEF Linked
    <3>4. ~Linked(p2, n + 1)
      BY <1>1, <3>3 DEF Linked
    <3>5. ~r.isa.run
      BY <1>0, <2>3
    <3>6. n + 1 >= 2 /\ n + 1 > r.length
      BY <2>3
    <3> QED
      BY <2>3, <3>4, <3>5, <3>6 DEF LinkAt
  <2>4. CASE n # 0 /\ Linked(pl, n) /\ r.length > 0
    <3>1. pl # <<>> /\ n \in 1 .. n /\ n \in 1 .. DebugSize - 1
      BY <1>0, <2>4
    <3>2. LinkAt(r, pl, n)
      BY <1>3, <3>1
    <3>3. n <= r.length /\ pl[n].entry = At(r.head, n - 1)
      BY <2>4, <3>2 DEF LinkAt
    <3>4. w.entry = Behind(r, At(r.head, n - 1), fp)
      BY <2>4, <3>1, <3>3 DEF Linked
    <3>5. w.entry = IF n < r.length /\ r.db[At(r.head, n)].pc = fp THEN At(r.head, n) ELSE Invalid
      BY <3>1, <3>4, BehindIs
    <3>6. n + 1 >= 2 /\ (n + 1) - 1 = n /\ n + 1 # 1
      BY <3>1
    <3>7. Linked(p2, n) /\ p2[n].entry = pl[n].entry
      BY <1>1, <1>3, <2>4, <3>1
    <3>8. CASE n < r.length /\ r.db[At(r.head, n)].pc = fp
      <4>1. w.entry = At(r.head, n) /\ n + 1 <= r.length
        BY <2>0, <3>5, <3>8
      <4>2. n \in 0 .. DebugSize
        BY <1>0, <3>1
      <4>3. At(r.head, n) \in Slot
        BY <2>0, <4>2, AtIs
      <4>4. Linked(p2, n + 1)
        BY <1>1, <2>0, <4>1, <4>3 DEF Linked
      <4> QED
        BY <1>1, <2>4, <3>6, <3>7, <3>8, <4>1, <4>4 DEF LinkAt
    <3>9. CASE n < r.length /\ r.db[At(r.head, n)].pc # fp
      <4>1. ~Linked(p2, n + 1)
        BY <1>1, <3>5, <3>9 DEF Linked
      <4>2. n - 1 \in 0 .. r.length - 1 /\ (n - 1) + 1 = n
        BY <2>0, <3>1, <3>9
      <4>3. r.db[At(r.head, n - 1)].next = r.db[At(r.head, n)].pc
        BY <3>9, <4>2 DEF Says
      <4>4. r.db[p2[n].entry].next # p2[n + 1].pc
        BY <1>1, <3>3, <3>7, <3>9, <4>3
      <4> QED
        BY <3>6, <4>1, <4>4 DEF LinkAt
    <3>10. CASE ~(n < r.length)
      <4>1. ~Linked(p2, n + 1)
        BY <1>1, <3>5, <3>10 DEF Linked
      <4>2. ~r.isa.run /\ n + 1 > r.length
        BY <1>0, <2>0, <3>10
      <4> QED
        BY <3>6, <4>1, <4>2 DEF LinkAt
    <3> QED
      BY <3>8, <3>9, <3>10
  <2> QED
    BY <2>0, <2>1, <2>2, <2>3, <2>4
<1>10. p2 # <<>>
  BY <1>1
<1>11. Queue(pg, pf, r, p2, f2, Stopping(pg, fp))
  BY <1>1, <1>2, <1>4, <1>5, <1>6, <1>7, <1>8, <1>9, <1>10 DEF Queue
<1> QED
  BY <1>11

(* The oldest instruction retires, and the entry at the head is popped.    *)
LEMMA QueuePops ==
  ASSUME CheckerAssumption, NEW pg \in Programs, NEW pf, NEW r, RingType(r), r.length > 0,
         NEW pl, NEW fp, NEW sl, Queue(pg, pf, r, pl, fp, sl), pl # <<>>, pl[1].fate = "fine",
         NEW st, NEW w, Pops(pg, st, r, w), Onward(pl, fp, 1) = StepOf(pg, st[0]).entry.next
  PROVE  Queue(pg, pf, w, Tail(pl), fp, sl)
<1> PICK p2 : p2 = Tail(pl)
  OBVIOUS
<1> PICK next : next = StepOf(pg, st[0]).entry.next
  OBVIOUS
<1>0. /\ pl \in Seq(Row) /\ Len(pl) \in Nat \ {0} /\ fp \in Nat /\ DebugSize \in Nat \ {0}
      /\ r.head \in Slot /\ w.head = At(r.head, 1)
      /\ w.db[r.head].next = next /\ (w.length > 0 => w.db[w.head].pc = next)
  BY EmptySeq DEF Queue, CheckerAssumption, RingType, Pops
<1> PICK n \in Nat : n + 1 = Len(pl)
  BY <1>0
<1> PICK m \in 1 .. DebugSize : m = r.length
  BY <1>0 DEF RingType
<1> PICK l \in 0 .. DebugSize : l = w.length
  BY DEF RingType, Pops
<1>1. /\ l >= m - 1 /\ (~r.isa.run => ~w.isa.run /\ l = m - 1)
      /\ \A i \in 0 .. m - 1 : w.db[At(r.head, i)] = r.db[At(r.head, i)]
  BY DEF Pops
<1>2. p2 \in Seq(Row) /\ Len(p2) = n /\ \A j \in 1 .. n : p2[j] = pl[j + 1]
  BY <1>0, HeadTailProperties
<1>3. ASSUME NEW j \in 1 .. n
      PROVE  /\ j + 1 \in 1 .. n + 1 /\ KindAt(pg, pl, sl, j + 1) /\ WayAt(pg, pf, r, pl, fp, j + 1)
             /\ LinkAt(r, pl, j + 1)
             /\ Linked(p2, j) = Linked(pl, j + 1)
             /\ Onward(p2, fp, j) = Onward(pl, fp, j + 1)
  <2>1. j + 1 \in 1 .. Len(pl)
    OBVIOUS
  <2>2. Linked(p2, j) = Linked(pl, j + 1)
    BY <1>2 DEF Linked
  <2>3. Onward(p2, fp, j) = Onward(pl, fp, j + 1)
    <3>1. CASE j = n
      BY <1>2, <3>1 DEF Onward
    <3>2. CASE j < n
      <4>1. j + 1 \in 1 .. n /\ j + 1 < Len(pl) /\ j < Len(p2)
        BY <1>2, <3>2
      <4>2. p2[j + 1] = pl[(j + 1) + 1]
        BY <1>2, <4>1
      <4> QED
        BY <4>1, <4>2 DEF Onward
    <3> QED
      BY <3>1, <3>2
  <2> QED
    BY <2>1, <2>2, <2>3 DEF Queue
<1>4. ASSUME NEW j \in 1 .. n, Fine(p2, j)
      PROVE  Fine(pl, j + 1)
  <2>1. \A i \in 1 .. (j + 1) - 1 : i = 1 \/ (i - 1 \in 1 .. j - 1 /\ i - 1 \in 1 .. n /\ (i - 1) + 1 = i)
    OBVIOUS
  <2>2. ASSUME NEW i \in 1 .. (j + 1) - 1
        PROVE  pl[i].fate = "fine"
    <3>1. CASE i = 1
      BY <3>1
    <3>2. CASE i # 1
      <4>1. i - 1 \in 1 .. j - 1 /\ i - 1 \in 1 .. n /\ (i - 1) + 1 = i
        BY <2>1, <3>2
      <4>2. p2[i - 1] = pl[i]
        BY <1>2, <4>1
      <4> QED
        BY <1>4, <4>1, <4>2 DEF Fine
    <3> QED
      BY <3>1, <3>2
  <2> QED
    BY <2>2 DEF Fine
<1>5. ASSUME NEW j \in 1 .. n
      PROVE  KindAt(pg, p2, sl, j)
  <2>1. j + 1 = Len(pl) => j = Len(p2)
    BY <1>2
  <2> QED
    BY <1>2, <1>3, <2>1 DEF KindAt
<1>6. ASSUME NEW j \in 1 .. n, Linked(p2, j)
      PROVE  /\ j + 1 <= m /\ pl[j + 1].entry = At(r.head, j)
             /\ pl[j + 1].pc = r.db[At(r.head, j)].pc
             /\ w.db[At(r.head, j)] = r.db[At(r.head, j)]
             /\ At(r.head, j) = At(w.head, j - 1)
  <2>1. LinkAt(r, pl, j + 1) /\ Linked(pl, j + 1) /\ (j + 1) - 1 = j
    BY <1>3, <1>6
  <2>2. /\ j + 1 <= m /\ pl[j + 1].entry = At(r.head, j)
        /\ pl[j + 1].pc = r.db[At(r.head, j)].pc
    BY <2>1 DEF LinkAt
  <2>3. j \in 0 .. m - 1 /\ j - 1 \in 0 .. DebugSize - 1 /\ (j - 1) + 1 = j
    BY <1>0, <2>2
  <2>4. At(r.head, (j - 1) + 1) = At(At(r.head, 1), j - 1)
    BY <1>0, <2>3, AtIs
  <2> QED
    BY <1>0, <1>1, <2>2, <2>3, <2>4
<1>7. ASSUME NEW j \in 1 .. n
      PROVE  WayAt(pg, pf, w, p2, fp, j)
  <2>1. Linked(p2, j) => w.db[p2[j].entry] = r.db[pl[j + 1].entry]
    BY <1>2, <1>6
  <2>2. r.length > 0 /\ (Fine(p2, j) => Fine(pl, j + 1))
    BY <1>4
  <2> QED
    BY <1>2, <1>3, <2>1, <2>2 DEF WayAt
<1>8. ASSUME NEW j \in 1 .. n
      PROVE  LinkAt(w, p2, j)
  <2>1. ASSUME Linked(p2, j), l > 0
        PROVE  j <= l /\ p2[j].entry = At(w.head, j - 1) /\ p2[j].pc = w.db[At(w.head, j - 1)].pc
    <3>1. j <= l
      BY <1>1, <1>6, <2>1
    <3> QED
      BY <1>2, <1>6, <2>1, <3>1
  <2>2. ASSUME j = 1, l > 0
        PROVE  Linked(p2, j)
    <3>1. SUFFICES ASSUME ~Linked(pl, 2) PROVE FALSE
      BY <1>3, <2>2
    <3>2. /\ LinkAt(r, pl, 1) /\ LinkAt(r, pl, 2) /\ 1 < Len(pl) /\ 2 - 1 = 1 /\ 1 - 1 = 0
      BY <1>3, <2>2 DEF Queue
    <3>3. Linked(pl, 1) /\ pl[1].entry = At(r.head, 0)
      BY <3>2 DEF LinkAt
    <3>4. \/ ~r.isa.run /\ 2 > m
          \/ r.db[pl[1].entry].next # pl[2].pc
      BY <3>1, <3>2, <3>3 DEF LinkAt
    <3>5. CASE ~r.isa.run /\ 2 > m
      BY <1>1, <2>2, <3>5
    <3>6. r.db[pl[1].entry].next = next
      <4>1. At(r.head, 0) = r.head /\ 0 \in 0 .. m - 1
        BY <1>0, AtIs
      <4> QED
        BY <1>0, <1>1, <3>3, <4>1
    <3>7. pl[2].pc = next
      BY <3>2 DEF Onward
    <3> QED
      BY <3>4, <3>5, <3>6, <3>7
  <2>3. ASSUME j >= 2
        PROVE  j - 1 \in 1 .. n /\ (j - 1) + 1 = j /\ j + 1 >= 2 /\ (j + 1) - 1 = j /\ j # 1
    BY <2>3
  <2>4. ASSUME j >= 2, Linked(p2, j)
        PROVE  Linked(p2, j - 1) /\ l > 0
    <3>1. Linked(pl, j) /\ Linked(p2, j - 1) = Linked(pl, j)
      BY <1>3, <2>3, <2>4 DEF LinkAt
    <3>2. l > 0
      BY <1>1, <1>6, <2>4
    <3> QED
      BY <3>1, <3>2
  <2>5. ASSUME j >= 2, ~Linked(p2, j)
        PROVE  \/ ~Linked(p2, j - 1)
               \/ ~w.isa.run /\ j > l
               \/ w.db[p2[j - 1].entry].next # p2[j].pc
    <3>1. LinkAt(r, pl, j + 1) /\ ~Linked(pl, j + 1) /\ Linked(p2, j - 1) = Linked(pl, j)
      BY <1>3, <2>3, <2>5
    <3>2. \/ ~Linked(pl, j)
          \/ ~r.isa.run /\ j + 1 > m
          \/ r.db[pl[j].entry].next # pl[j + 1].pc
      BY <2>3, <2>5, <3>1 DEF LinkAt
    <3>3. CASE ~Linked(pl, j)
      BY <3>1, <3>3
    <3>4. CASE ~r.isa.run /\ j + 1 > m
      BY <1>1, <3>4
    <3>5. CASE Linked(pl, j) /\ r.db[pl[j].entry].next # pl[j + 1].pc
      <4> PICK i \in 1 .. n : i = j - 1 /\ i + 1 = j
        BY <2>3, <2>5
      <4>1. /\ pl[i + 1].entry = At(r.head, i) /\ w.db[At(r.head, i)] = r.db[At(r.head, i)]
            /\ p2[i] = pl[i + 1]
        BY <1>2, <1>6, <3>1, <3>5
      <4>2. w.db[p2[i].entry] = r.db[pl[j].entry] /\ p2[j].pc = pl[j + 1].pc
        BY <1>2, <4>1
      <4> QED
        BY <3>5, <4>2
    <3> QED
      BY <3>2, <3>3, <3>4, <3>5
  <2> QED
    BY <2>1, <2>2, <2>4, <2>5 DEF LinkAt
<1>9. ASSUME p2 = <<>>, l > 0
      PROVE  fp = w.db[w.head].pc
  <2>1. n = 0
    BY <1>2, <1>9
  <2>2. Onward(pl, fp, 1) = fp
    <3>1. ~(1 < Len(pl))
      BY <1>0, <2>1
    <3> QED
      BY <3>1 DEF Onward
  <2> QED
    BY <1>0, <1>9, <2>2
<1>10. Queue(pg, pf, w, p2, fp, sl)
  BY <1>0, <1>2, <1>5, <1>7, <1>8, <1>9 DEF Queue
<1> QED
  BY <1>10

-----------------------------------------------------------------------------
(* The invariant. The functional simulator is ahead of the pipeline by the *)
(* entries of the ring, from the processor that the pipeline's one is;     *)
(* they stand at the same step between two turns of the host; and the      *)
(* instructions in flight are the ones of the entries, as long as they are *)
(* linked.                                                                 *)
AheadOk ==
    /\ RingType(Ring) /\ (isa.run => length >= DebugSize - 1)
    /\ \E st : Through(program, st, Ring) /\ Facing(micro, instret, st[0])
CycleOk ==
    /\ IsProc(micro) /\ micro.step < Interleave
    /\ instret \in Nat /\ Fits(micro, instret)
    /\ limit \in Int /\ limit <= Interleave - micro.step
QueueOk == Queue(program, perfect, Ring, pay, fpc, stalled)
IInv == program \in Programs /\ AheadOk /\ CycleOk /\ QueueOk /\ agreed = TRUE

(* The retire bundle ends at the host's turn at the latest.                *)
LEMMA LimitIs ==
  ASSUME CheckerAssumption, NEW p, IsProc(p), p.step < Interleave
  PROVE  Limit(p) \in Int /\ Limit(p) <= Interleave - p.step
<1>1. /\ Width \in Nat \ {0} /\ Interleave \in Nat /\ p.step \in Nat
      /\ p.compare \in Nat /\ p.count \in Nat
  BY DEF CheckerAssumption, IsProc
<1> PICK t \in Int : t = NextTimer(p)
  BY <1>1 DEF NextTimer
<1> PICK odd \in Int : odd = t + 1 - (t % 2)
  OBVIOUS
<1>2. Limit(p) = IF odd < Interleave - p.step THEN odd ELSE Interleave - p.step
  BY DEF Limit
<1> QED
  BY <1>1, <1>2

(* The ring is filled from the booted processor, and none is in flight.    *)
LEMMA InitInv ==
  ASSUME CheckerAssumption, Init
  PROVE  IInv
<1> PICK r : r = [isa |-> Boot, db |-> [e \in Slot |-> Nothing], head |-> 0, length |-> 0]
  OBVIOUS
<1>0. DebugSize \in Nat \ {0} /\ Interleave \in Nat \ {0} /\ program \in Programs /\ 0 \in Slot
  BY DEF CheckerAssumption, Init, Slot
<1>1. IsProc(Boot) /\ Boot.step = 0 /\ Boot.pc = 1
  BY BootIs DEF Boot
<1>2. r.isa = Boot /\ DOMAIN r.db = Slot /\ r.head = 0 /\ r.length = 0
  OBVIOUS
<1>3. RingType(r)
  <2>1. Nothing.next = 0 /\ \A a \in Slot : r.db[a] = Nothing
    BY DEF Nothing
  <2>2. Nexts(r)
    BY <2>1 DEF Nexts
  <2> QED
    BY <1>0, <1>2, <2>2 DEF RingType
<1> DEFINE st == [i \in 0 .. 0 |-> Boot]
<1>4. st[0] = Boot
  OBVIOUS
<1> HIDE DEF st
<1>5. Through(program, st, r)
  BY <1>0, <1>1, <1>2, <1>4 DEF Through
<1> PICK q : q = Filled(r)
  OBVIOUS
<1>6. Fuller(program, st, r, q) /\ (q.isa.run => q.length = DebugSize)
  BY <1>0, <1>3, <1>5, FilledIs
<1>7. isa = q.isa /\ db = q.db /\ head = q.head /\ length = q.length
  BY DEF Init
<1>8. Ring = q
  BY <1>6, <1>7 DEF Ring, Fuller, RingType
<1>9. PICK f : Through(program, f, q) /\ f[0] = Boot
  BY <1>4, <1>6 DEF Fuller
<1>10. micro = Boot /\ instret = 0 /\ limit = Limit(Boot) /\ pay = <<>> /\ fpc = 1 /\ agreed = TRUE
  BY DEF Init
<1>11. Fits(micro, instret) /\ micro.step < Interleave
  BY <1>0, <1>1, <1>10 DEF Fits
<1>12. CycleOk
  <2>1. Limit(Boot) \in Int /\ Limit(Boot) <= Interleave - Boot.step
    BY <1>1, <1>10, <1>11, LimitIs
  <2> QED
    BY <1>1, <1>10, <1>11, <2>1 DEF CycleOk
<1>13. AheadOk
  <2> PICK s : s = Stepped(micro, instret)
    OBVIOUS
  <2>1. Alike(s, micro) /\ s.step = StepAfter(micro, instret)
    <3>1. IsProc(micro) /\ instret \in Nat /\ micro.step + instret < Interleave
      BY <1>0, <1>1, <1>10
    <3> QED
      BY <1>0, <1>11, <3>1, SteppedIs
  <2>2. StepAfter(micro, instret) = 0
    BY <1>0, <1>1, <1>10 DEF StepAfter
  <2>3. Facing(micro, instret, f[0])
    BY <1>1, <1>9, <1>10, <2>1, <2>2 DEF Facing
  <2>4. RingType(q) /\ (isa.run => length >= DebugSize - 1)
    BY <1>0, <1>6, <1>7 DEF Fuller
  <2> QED
    BY <1>8, <1>9, <2>3, <2>4 DEF AheadOk
<1>14. QueueOk
  <2>1. ASSUME Ring.length > 0
        PROVE  fpc = Ring.db[Ring.head].pc
    <3> PICK n \in 0 .. DebugSize : n = q.length
      BY <1>6 DEF Fuller, RingType
    <3>1. 0 \in 0 .. n - 1 /\ 0 \in 0 .. n
      BY <1>8, <2>1
    <3>2. q.db[At(q.head, 0)] = StepOf(program, f[0]).entry /\ At(q.head, 0) = q.head
      BY <1>6, <1>9, <3>1, AtIs DEF Through, Fuller, RingType
    <3> PICK e : e = StepOf(program, Boot)
      OBVIOUS
    <3>3. e.entry.pc = Boot.pc
      BY <1>0, <1>1, StepIs
    <3> QED
      BY <1>1, <1>8, <1>9, <1>10, <3>2, <3>3
  <2>2. 1 \in Nat
    OBVIOUS
  <2> QED
    BY <1>10, <2>1, <2>2, QueueEmpty DEF QueueOk
<1> QED
  BY <1>0, <1>10, <1>12, <1>13, <1>14 DEF IInv

-----------------------------------------------------------------------------
(* The instruction that retires is the one that the oldest entry is of,    *)
(* and the processor is the one it was executed on.                        *)
Meets(st) ==
    /\ Through(program, st, Ring) /\ IsProc(st[0])
    /\ Alike(micro, st[0]) /\ Due(micro, instret, st[0])
    /\ length > 0 /\ u = pay[1] /\ u.pc = st[0].pc /\ u.entry = head /\ u.entry # Invalid
    /\ db[head] = StepOf(program, st[0]).entry
    /\ pay \in Seq(Row) /\ 1 \in 1 .. Len(pay)
    /\ KindAt(program, pay, stalled, 1) /\ WayAt(program, perfect, Ring, pay, fpc, 1)

(* Whatever can retire meets the oldest entry.                             *)
LEMMA RetirableMeets ==
  ASSUME CheckerAssumption, IInv, Retirable
  PROVE  \E st : Meets(st)
<1>0. /\ DebugSize \in Nat /\ PaySize \in 1 .. DebugSize - 1 /\ Interleave \in Nat \ {0}
      /\ RingType(Ring) /\ (isa.run => length >= DebugSize - 1)
      /\ Ring.isa = isa /\ Ring.db = db /\ Ring.head = head /\ Ring.length = length
  BY DEF CheckerAssumption, IInv, AheadOk, Ring
<1>1. PICK st : Through(program, st, Ring) /\ Facing(micro, instret, st[0])
  BY DEF IInv, AheadOk
<1>2. /\ IsProc(micro) /\ micro.run /\ instret \in Nat /\ micro.step + instret < Interleave
      /\ Fits(micro, instret)
  <2>1. IsProc(micro) /\ instret \in Nat /\ instret < limit /\ limit \in Int
        /\ limit <= Interleave - micro.step /\ micro.step \in Nat /\ Fits(micro, instret)
        /\ micro.run
    BY DEF IInv, CycleOk, Retirable, IsProc
  <2>2. Interleave \in Nat
    BY <1>0
  <2>3. micro.step + instret < Interleave
    <3> PICK b \in Nat : b = micro.step
      BY <2>1
    <3>1. /\ instret \in Nat /\ instret < limit /\ limit \in Int /\ limit <= Interleave - b
      BY <2>1
    <3>2. b + instret < Interleave
      BY <2>2, <3>1
    <3> QED
      BY <3>2
  <2> QED
    BY <2>1, <2>3
<1> PICK s : s = Stepped(micro, instret)
  OBVIOUS
<1>3. Alike(s, micro) /\ s.step = StepAfter(micro, instret) /\ s.step < Interleave
  BY <1>0, <1>2, SteppedIs
<1>4. Alike(s, st[0]) /\ s.step = st[0].step
  BY <1>1 DEF Facing
<1>5. Alike(micro, st[0])
  BY <1>3, <1>4, AlikeIs
<1>6. Due(micro, instret, st[0])
  <2>1. StepAfter(micro, instret) = micro.step + instret
    <3>1. micro.step \in Nat /\ Interleave \in Nat /\ instret \in Nat
      BY <1>0, <1>2 DEF IsProc
    <3>2. micro.step + instret # Interleave
      BY <1>2, <3>1
    <3> QED
      BY <3>2 DEF StepAfter
  <2>5. s.step = micro.step + instret
    BY <1>3, <2>1, Zenon
  <2>2. micro.step + instret = s.step /\ s.step = st[0].step /\ s.step < Interleave
    BY <1>3, <1>4, <2>5, Zenon
  <2>3. micro.step + instret = st[0].step
    BY <2>2, Zenon
  <2>4. st[0].step < Interleave
    BY <2>2, Zenon
  <2> QED
    BY <2>3, <2>4 DEF Due
<1> PICK n \in 0 .. DebugSize : n = length
  BY <1>0 DEF RingType
<1>7. IsProc(st[0]) /\ st[n] = isa
  <2>1. 0 \in 0 .. n
    OBVIOUS
  <2> QED
    BY <1>0, <1>1, <2>1 DEF Through
<1>8. n > 0
  <2>1. SUFFICES ASSUME n = 0 PROVE FALSE
    OBVIOUS
  <2>2. isa.run
    BY <1>2, <1>5, <1>7, <2>1, AlikeIs
  <2> QED
    BY <1>0, <2>1, <2>2
<1>9. At(head, 0) = head /\ head \in Slot
  BY <1>0, AtIs DEF RingType
<1>10. db[head] = StepOf(program, st[0]).entry
  <2>1. 0 \in 0 .. n - 1
    BY <1>8
  <2> QED
    BY <1>0, <1>1, <1>9, <2>1 DEF Through
<1>11. pay \in Seq(Row) /\ pay # <<>> /\ Len(pay) \in Nat \ {0} /\ 1 \in 1 .. Len(pay)
  <2>1. pay \in Seq(Row) /\ pay # <<>>
    BY DEF IInv, QueueOk, Queue, Retirable
  <2>2. Len(pay) \in Nat \ {0}
    BY <2>1, EmptySeq
  <2> QED
    BY <2>1, <2>2
<1>12. /\ KindAt(program, pay, stalled, 1) /\ WayAt(program, perfect, Ring, pay, fpc, 1)
       /\ LinkAt(Ring, pay, 1)
  BY <1>11 DEF IInv, QueueOk, Queue
<1>13. u = pay[1]
  BY <1>11 DEF u
<1>14. Linked(pay, 1) /\ 1 - 1 = 0
  BY <1>0, <1>8, <1>12 DEF LinkAt
<1>15. pay[1].entry = head /\ pay[1].pc = db[head].pc
  BY <1>0, <1>8, <1>9, <1>12, <1>14 DEF LinkAt
<1>16. db[head].pc = st[0].pc
  <2> PICK z : z = st[0]
    OBVIOUS
  <2> PICK e : e = StepOf(program, z)
    OBVIOUS
  <2>1. IsProc(z) /\ z.step < Interleave /\ program \in Programs
    BY <1>3, <1>4, <1>7 DEF IInv
  <2>2. e.entry.pc = z.pc
    BY <2>1, StepIs
  <2> QED
    BY <1>10, <2>2
<1> QED
  BY <1>1, <1>5, <1>6, <1>7, <1>8, <1>10, <1>11, <1>12, <1>13, <1>14, <1>15, <1>16 DEF Meets, Linked

(* What it does, as its kind has it.                                       *)
LEMMA ExecutedIs ==
  ASSUME CheckerAssumption, IInv, NEW st, Meets(st)
  PROVE  /\ Executed = execute_insn(micro, st[0].pc, InsnOf(program, st[0].pc))
         /\ Insn(u.pc) = InsnOf(program, u.pc) /\ InsnOf(program, u.pc).op \in Op /\ u.pc \in Nat
<1>1. Insn(u.pc) = InsnOf(program, u.pc) /\ u.pc = st[0].pc
  BY DEF Insn, InsnOf, Meets
<1>2. u.pc \in Nat
  BY RowIs DEF Meets
<1>3. InsnOf(program, u.pc).op \in Op
  BY <1>2, InsnIs DEF IInv
<1> QED
  BY <1>1, <1>2, <1>3 DEF Executed

(* Where the processor is once it retired and what the checker says.       *)
Checks(st, next) ==
    /\ Pops(program, st, Ring, Ring') /\ agreed' = TRUE
    /\ next = (IF Executed.throws = "trap" THEN Handler ELSE Executed.next) /\ next \in Nat
    /\ StepOf(program, st[0]).entry.next = next

LEMMA RetiresRight ==
  ASSUME CheckerAssumption, IInv, Retirable, NEW st, Meets(st), program' = program, limit' = limit,
         NEW p, p = IF Executed.throws = "trap" THEN take_trap(micro, u.pc) ELSE Executed.p,
         checker(p, Executed.throws = "trap"), Retired(p)
  PROVE  AheadOk' /\ CycleOk' /\ \E next \in Nat : Checks(st, next)
<1> PICK x : x = Executed
  OBVIOUS
<1> PICK s : s = st[0]
  OBVIOUS
<1> PICK e : e = StepOf(program, s)
  OBVIOUS
<1> PICK w : w = Popped
  OBVIOUS
<1>0. /\ program \in Programs /\ RingType(Ring) /\ Ring.length = length /\ Ring.head = head
      /\ Interleave \in Nat \ {0} /\ IsProc(micro) /\ instret \in Nat
  BY DEF IInv, AheadOk, Ring, CheckerAssumption, CycleOk
<1>1. x = execute_insn(micro, s.pc, InsnOf(program, s.pc)) /\ s.pc = u.pc
  BY ExecutedIs DEF Meets
<1>2. p = IF x.throws = "trap" THEN take_trap(micro, s.pc) ELSE x.p
  BY <1>1
<1>3. IsProc(s) /\ Alike(micro, s) /\ Due(micro, instret, s) /\ Through(program, st, Ring) /\ length > 0
  BY DEF Meets
<1> PICK t : t = update_timer(p, 1)
  OBVIOUS
<1>4. /\ IsProc(t) /\ t.step = micro.step
      /\ Facing(t, instret + 1, e.p)
      /\ e.entry.pc = s.pc /\ e.entry.state = Checked(p)
      /\ e.entry.exception = (x.throws = "trap")
      /\ e.entry.next = (IF x.throws = "trap" THEN Handler ELSE x.next) /\ e.entry.next \in Nat
  BY <1>0, <1>1, <1>2, <1>3, StepsSame
<1>5. Pops(program, st, Ring, w)
  <2>1. w = Released(Filled(Ring))
    BY DEF Popped
  <2> QED
    BY <1>0, <1>3, <2>1, PopIs
<1>6. Ring' = w
  <2>1. w = [isa |-> w.isa, db |-> w.db, head |-> w.head, length |-> w.length]
    BY <1>5 DEF Pops, RingType
  <2>2. isa' = w.isa /\ db' = w.db /\ head' = w.head /\ length' = w.length
    BY DEF checker, SetRing
  <2>3. Ring' = [isa |-> w.isa, db |-> w.db, head |-> w.head, length |-> w.length]
    BY <2>2 DEF Ring
  <2> QED
    BY <2>1, <2>3
<1>7. w.db[head] = e.entry
  BY <1>0, <1>5 DEF Pops
<1>8. agreed' = TRUE
  <2>1. u.entry = head /\ u.entry # Invalid /\ length > 0 /\ u.pc = s.pc
    BY <1>1, <1>3 DEF Meets
  <2>2. Agrees(p, w.db[u.entry], x.throws = "trap")
    BY <1>4, <1>7, <2>1 DEF Agrees
  <2>3. agreed
    BY DEF IInv
  <2>4. agreed' = (/\ agreed /\ u.entry = head /\ length > 0
                   /\ u.entry # Invalid /\ Agrees(p, w.db[u.entry], x.throws = "trap"))
    BY DEF checker
  <2> QED
    BY <2>1, <2>2, <2>3, <2>4
<1>9. micro' = t /\ instret' = instret + 1
  BY DEF Retired
<1>10. AheadOk'
  <2>1. PICK f : Through(program, f, w) /\ f[0] = e.p
    BY <1>5 DEF Pops
  <2>2. RingType(w) /\ (w.isa.run => w.length >= DebugSize - 1)
    BY <1>5 DEF Pops
  <2>3. isa' = w.isa /\ length' = w.length
    BY DEF checker, SetRing
  <2>4. Facing(micro', instret', f[0])
    BY <1>4, <1>9, <2>1
  <2>5. Through(program', f, Ring')
    BY <1>6, <2>1
  <2> QED
    BY <1>6, <2>2, <2>3, <2>4, <2>5 DEF AheadOk
<1>11. CycleOk'
  <2> PICK b \in Nat : b = micro.step
    BY <1>0 DEF IsProc
  <2>1. /\ limit \in Int /\ limit <= Interleave - b /\ instret < limit /\ b < Interleave
    BY DEF IInv, CycleOk, Retirable
  <2>2. micro'.step = b /\ IsProc(micro') /\ instret' \in Nat
    BY <1>0, <1>4, <1>9
  <2>3. b + (instret + 1) <= Interleave
    BY <1>0, <2>1
  <2>4. Fits(micro', instret')
    BY <1>9, <2>2, <2>3 DEF Fits
  <2> QED
    BY <2>1, <2>2, <2>4 DEF CycleOk
<1> PICK next \in Nat : next = e.entry.next
  BY <1>4
<1>12. Checks(st, next)
  BY <1>4, <1>5, <1>6, <1>8 DEF Checks
<1> QED
  BY <1>10, <1>11, <1>12

(* None is in flight behind a squash; fetch goes on where the entry does.  *)
LEMMA SquashInv ==
  ASSUME CheckerAssumption, IInv, program' = program, AheadOk', CycleOk',
         NEW st, NEW next \in Nat, Checks(st, next), pay' = <<>>, fpc' = next
  PROVE  IInv'
<1>1. Ring'.length > 0 => next = Ring'.db[Ring'.head].pc
  BY DEF Checks, Pops
<1>2. Queue(program', perfect', Ring', <<>>, next, stalled')
  BY <1>1, QueueEmpty
<1>3. QueueOk'
  BY <1>2 DEF QueueOk
<1> QED
  BY <1>3 DEF IInv, Checks

(* An exception takes the trap, or fetches the instruction again.          *)
LEMMA ExceptionInv ==
  ASSUME CheckerAssumption, IInv, Retirable, program' = program, limit' = limit, RetireException
  PROVE  IInv'
<1>1. PICK st : Meets(st)
  BY RetirableMeets
<1> PICK p : p = IF Executed.throws = "trap" THEN take_trap(micro, u.pc) ELSE Executed.p
  OBVIOUS
<1>2. checker(p, Executed.throws = "trap") /\ Retired(p) /\ Executed.throws # "none"
  BY DEF RetireException
<1>3. AheadOk' /\ CycleOk' /\ \E next \in Nat : Checks(st, next)
  BY <1>1, <1>2, RetiresRight
<1>4. PICK next \in Nat : Checks(st, next)
  BY <1>3
<1>5. pay' = <<>> /\ fpc' = next
  <2>1. pay' = <<>> /\ fpc' = IF Executed.throws = "trap" THEN Handler ELSE u.pc
    BY DEF RetireException, Squash
  <2>2. CASE Executed.throws = "trap"
    BY <1>4, <2>1, <2>2 DEF Checks
  <2>3. CASE Executed.throws # "trap"
    <3> PICK x : x = Executed
      OBVIOUS
    <3>1. x = execute_insn(micro, u.pc, InsnOf(program, u.pc))
      BY <1>1, ExecutedIs DEF Meets
    <3>2. x.next = u.pc
      BY <1>2, <2>3, <3>1, ExecuteGoes
    <3> QED
      BY <1>4, <2>1, <2>3, <3>2 DEF Checks
  <2> QED
    BY <2>2, <2>3
<1> QED
  BY <1>3, <1>4, <1>5, SquashInv

(* Behind a system instruction none is in flight.                          *)
LEMMA SystemInv ==
  ASSUME CheckerAssumption, IInv, Retirable, program' = program, limit' = limit, RetireSystem
  PROVE  IInv'
<1>1. PICK st : Meets(st)
  BY RetirableMeets
<1> PICK p : p = Executed.p
  OBVIOUS
<1>2. checker(p, FALSE) /\ Retired(p) /\ Executed.throws = "none"
  BY DEF RetireSystem
<1>3. (Executed.throws = "trap") = FALSE
  BY <1>2
<1>4. p = IF Executed.throws = "trap" THEN take_trap(micro, u.pc) ELSE Executed.p
  BY <1>3
<1>5. AheadOk' /\ CycleOk' /\ \E next \in Nat : Checks(st, next)
  BY <1>1, <1>2, <1>3, <1>4, RetiresRight
<1>6. PICK next \in Nat : Checks(st, next)
  BY <1>5
<1>7. fpc' = next
  BY <1>3, <1>6 DEF Checks, RetireSystem
<1>8. pay' = <<>>
  <2>1. InsnOf(program, pay[1].pc).op \in Csr
    BY <1>1, ExecutedIs DEF RetireSystem, Meets
  <2>2. Len(pay) = 1
    BY <1>1, <2>1 DEF Meets, KindAt, Stopping
  <2>3. pay \in Seq(Row) /\ pay # <<>>
    BY <1>1 DEF Meets, Retirable
  <2>4. Tail(pay) \in Seq(Row) /\ Len(Tail(pay)) = 0
    BY <2>2, <2>3, HeadTailProperties
  <2>5. Tail(pay) = <<>>
    BY <2>4, EmptySeq
  <2> QED
    BY <2>5 DEF RetireSystem
<1> QED
  BY <1>5, <1>6, <1>7, <1>8, SquashInv

(* Any other instruction leaves, or is the last one before a squash.       *)
LEMMA PlainInv ==
  ASSUME CheckerAssumption, IInv, Retirable, program' = program, perfect' = perfect, limit' = limit,
         RetirePlain
  PROVE  IInv'
<1>1. PICK st : Meets(st)
  BY RetirableMeets
<1> PICK p : p = Executed.p
  OBVIOUS
<1> PICK i : i = InsnOf(program, u.pc)
  OBVIOUS
<1>2. checker(p, FALSE) /\ Retired(p) /\ Executed.throws = "none"
  BY DEF RetirePlain
<1>3. (Executed.throws = "trap") = FALSE
  BY <1>2
<1>4. p = IF Executed.throws = "trap" THEN take_trap(micro, u.pc) ELSE Executed.p
  BY <1>3
<1>5. AheadOk' /\ CycleOk' /\ \E next \in Nat : Checks(st, next)
  BY <1>1, <1>2, <1>3, <1>4, RetiresRight
<1>6. PICK next \in Nat : Checks(st, next)
  BY <1>5
<1> PICK x : x = Executed
  OBVIOUS
<1>7. x = execute_insn(micro, u.pc, i) /\ i.op \in Op /\ i.op \notin Csr /\ u = pay[1] /\ x.next = next
  BY <1>1, <1>3, <1>6, ExecutedIs DEF Meets, RetirePlain, Checks
<1>8. i.op \notin Traps /\ i.op \in {"add", "branch", "jump", "store"}
  <2>1. i.op \notin Traps
    BY <1>2, <1>7, ExecuteGoes
  <2> QED
    BY <1>7, <2>1 DEF Op
<1>9. CASE u.fate = "value"
  <2>1. i.op = "add"
    BY <1>1, <1>7, <1>9 DEF Meets, KindAt
  <2>2. next = u.pc + 1
    BY <1>7, <2>1, ExecuteGoes
  <2>3. pay' = <<>> /\ fpc' = next
    BY <1>9, <2>2 DEF RetirePlain, Squash
  <2> QED
    BY <1>5, <1>6, <2>3, SquashInv
<1>10. CASE u.fate # "value"
  <2>1. pay' = Tail(pay) /\ fpc' = fpc /\ stalled' = stalled /\ u.fate # "violation" /\ u.resolved
    BY <1>10 DEF RetirePlain, Retirable
  <2>2. pay[1].fate = "fine" /\ pay # <<>> /\ pay[1] \in Row
    <3>1. pay[1] \in Row
      BY <1>1, RowIs DEF Meets
    <3> QED
      BY <1>7, <1>10, <2>1, <3>1 DEF Row, Retirable
  <2>3. Onward(pay, fpc, 1) = next
    <3>1. WayAt(program, perfect, Ring, pay, fpc, 1) /\ i = InsnOf(program, pay[1].pc)
      BY <1>1, <1>7 DEF Meets
    <3>2. CASE i.op = "jump"
      BY <1>7, <3>1, <3>2, ExecuteGoes DEF WayAt
    <3>3. CASE i.op \in {"add", "store"}
      BY <1>7, <3>1, <3>3, ExecuteGoes DEF WayAt
    <3>4. CASE i.op = "branch"
      <4>1. Linked(pay, 1) /\ Ring.length > 0 /\ pay[1].resolved /\ Ring.db = db /\ pay[1].entry = head
        BY <1>1, <1>7, <2>1 DEF Linked, Meets, Ring
      <4>2. Fine(pay, 1)
        BY DEF Fine
      <4>3. Onward(pay, fpc, 1) = Ring.db[pay[1].entry].next
        BY <3>1, <3>4, <4>1, <4>2 DEF WayAt
      <4> QED
        BY <1>1, <1>6, <4>1, <4>3 DEF Meets, Checks
    <3> QED
      BY <1>8, <3>2, <3>3, <3>4
  <2>4. Queue(program, perfect, Ring', Tail(pay), fpc, stalled)
    <3>1. program \in Programs /\ RingType(Ring) /\ Queue(program, perfect, Ring, pay, fpc, stalled)
      BY DEF IInv, AheadOk, QueueOk
    <3>2. Ring.length > 0
      BY <1>1 DEF Meets, Ring
    <3>3. Pops(program, st, Ring, Ring') /\ Onward(pay, fpc, 1) = StepOf(program, st[0]).entry.next
      BY <1>6, <2>3 DEF Checks
    <3> QED
      BY <2>2, <3>1, <3>2, <3>3, QueuePops
  <2>5. QueueOk'
    BY <2>1, <2>4 DEF QueueOk
  <2> QED
    BY <1>5, <1>6, <2>5 DEF IInv, Checks
<1> QED
  BY <1>9, <1>10

(* A load that read too early is fetched again: no entry is popped.        *)
LEMMA ViolationInv ==
  ASSUME CheckerAssumption, IInv, Retirable, program' = program, perfect' = perfect, limit' = limit,
         RetireViolation
  PROVE  IInv'
<1>1. PICK st : Meets(st)
  BY RetirableMeets
<1>2. /\ pay' = <<>> /\ fpc' = u.pc /\ isa' = isa /\ db' = db /\ head' = head /\ length' = length
      /\ micro' = micro /\ instret' = instret /\ agreed' = agreed
  BY DEF RetireViolation, Squash, ring
<1>3. Ring' = Ring /\ Ring.db = db /\ Ring.head = head
  BY <1>2 DEF Ring
<1>4. AheadOk' /\ CycleOk'
  BY <1>2, <1>3 DEF IInv, AheadOk, CycleOk, Fits
<1>5. u.pc \in Nat /\ u.pc = st[0].pc /\ db[head] = StepOf(program, st[0]).entry
  BY <1>1, ExecutedIs DEF Meets
<1>6. db[head].pc = st[0].pc
  <2> PICK z : z = st[0]
    OBVIOUS
  <2> PICK e : e = StepOf(program, z)
    OBVIOUS
  <2>1. IsProc(z) /\ z.step < Interleave /\ program \in Programs
    BY <1>1 DEF IInv, Meets, Due
  <2>2. e.entry.pc = z.pc
    BY <2>1, StepIs
  <2> QED
    BY <1>5, <2>2
<1>7. Queue(program, perfect, Ring, <<>>, u.pc, stalled')
  BY <1>3, <1>5, <1>6, QueueEmpty
<1>8. QueueOk'
  BY <1>2, <1>3, <1>7 DEF QueueOk
<1> QED
  BY <1>2, <1>4, <1>8 DEF IInv

(* Rows that differ in their halves alone, of which none gets another.     *)
Alongside(p2, pl) ==
    /\ p2 \in Seq(Row) /\ Len(p2) = Len(pl) /\ 1 \in 1 .. Len(pl)
    /\ \A j \in 1 .. Len(p2) : /\ p2[j].pc = pl[j].pc /\ p2[j].entry = pl[j].entry
                               /\ p2[j].fate = pl[j].fate
                               /\ p2[j].halves = 2 => pl[j].halves = 2
                               /\ p2[j].resolved = pl[j].resolved

(* They are linked as well, and go where they did.                         *)
LEMMA AlongsideQueue ==
  ASSUME NEW pg, NEW pf, NEW r, NEW pl, NEW fp, NEW sl, Queue(pg, pf, r, pl, fp, sl),
         NEW p2, Alongside(p2, pl)
  PROVE  Queue(pg, pf, r, p2, fp, sl)
<1>0. p2 \in Seq(Row) /\ pl \in Seq(Row) /\ fp \in Nat /\ Len(p2) = Len(pl) /\ Len(pl) \in Nat
  BY DEF Alongside, Queue
<1>1. \A j \in 1 .. Len(p2) : Onward(p2, fp, j) = Onward(pl, fp, j)
  <2> TAKE j \in 1 .. Len(p2)
  <2>1. j < Len(pl) => j + 1 \in 1 .. Len(p2)
    BY <1>0
  <2>2. j < Len(pl) => p2[j + 1].pc = pl[j + 1].pc
    BY <2>1 DEF Alongside
  <2> QED
    BY <1>0, <2>2 DEF Onward
<1>2. 1 \in 1 .. Len(p2) /\ Len(p2) <= Len(pl)
  BY <1>0 DEF Alongside
<1>3. \A j \in 1 .. Len(p2) : /\ p2[j].pc = pl[j].pc /\ p2[j].entry = pl[j].entry
                              /\ p2[j].fate = pl[j].fate
                              /\ p2[j].halves = 2 => pl[j].halves = 2
                              /\ p2[j].resolved = pl[j].resolved
  BY DEF Alongside
<1> QED
  BY <1>0, <1>1, <1>2, <1>3, QueueUpdates

(* The upper half of a store looks at the entry and stays.                 *)
LEMMA UpperInv ==
  ASSUME CheckerAssumption, IInv, Retirable, program' = program, perfect' = perfect, limit' = limit,
         RetireUpper
  PROVE  IInv'
<1>1. PICK st : Meets(st)
  BY RetirableMeets
<1> PICK s : s = st[0]
  OBVIOUS
<1> PICK e : e = StepOf(program, s)
  OBVIOUS
<1>2. /\ pay' = [pay EXCEPT ![1].halves = 1] /\ fpc' = fpc /\ stalled' = stalled
      /\ isa' = isa /\ db' = db /\ head' = head /\ length' = length
      /\ micro' = micro /\ instret' = instret
      /\ agreed' = (agreed /\ u.entry # Invalid /\ is_active(u.entry) /\ Agrees(micro, db[u.entry], FALSE))
  BY DEF RetireUpper, checkerUpper, ring
<1>3. Ring' = Ring /\ Ring.length = length /\ Ring.head = head
  BY <1>2 DEF Ring
<1>4. AheadOk' /\ CycleOk'
  BY <1>2, <1>3 DEF IInv, AheadOk, CycleOk, Fits
<1>5. InsnOf(program, u.pc).op = "store"
  BY <1>1 DEF RetireUpper, Meets, KindAt
<1> PICK x : x = execute_insn(micro, s.pc, InsnOf(program, s.pc))
  OBVIOUS
<1>6. x.throws = "none" /\ x.p = micro
  BY <1>1, <1>5, ExecuteGoes DEF Meets
<1>7. db[head] = e.entry /\ e.entry.pc = s.pc /\ e.entry.state = Checked(micro) /\ e.entry.exception = FALSE
  <2>1. (x.throws = "trap") = FALSE
    BY <1>6
  <2>2. micro = IF x.throws = "trap" THEN take_trap(micro, s.pc) ELSE x.p
    BY <1>6
  <2>3. /\ IsProc(micro) /\ IsProc(s) /\ instret \in Nat /\ Due(micro, instret, s) /\ Alike(micro, s)
        /\ program \in Programs /\ db[head] = e.entry
    BY <1>1 DEF IInv, CycleOk, Meets
  <2>4. e.entry.pc = s.pc /\ e.entry.state = Checked(micro) /\ e.entry.exception = (x.throws = "trap")
    BY <2>2, <2>3, StepsSame
  <2> QED
    BY <2>1, <2>3, <2>4
<1>8. u.entry = head /\ u.entry # Invalid /\ length > 0 /\ u.pc = s.pc /\ head \in Slot
  BY <1>1, <1>3 DEF Meets, IInv, AheadOk, RingType
<1>9. is_active(head)
  <2>1. DebugSize \in Nat \ {0} /\ head \in 0 .. DebugSize - 1
    BY <1>8 DEF CheckerAssumption, Slot
  <2>2. head + DebugSize - head = 0 + DebugSize
    BY <2>1
  <2>3. (0 + DebugSize) % DebugSize = IF 0 + DebugSize < DebugSize THEN 0 + DebugSize ELSE 0 + DebugSize - DebugSize
    <3>1. 0 \in 0 .. DebugSize - 1 /\ DebugSize \in 0 .. DebugSize
      BY <2>1
    <3> QED
      BY <2>1, <3>1, Forward
  <2>4. (head + DebugSize - head) % DebugSize = 0
    BY <2>1, <2>2, <2>3
  <2> QED
    BY <1>8, <2>4 DEF is_active
<1>10. agreed' = TRUE
  <2>1. Agrees(micro, db[u.entry], FALSE)
    BY <1>7, <1>8 DEF Agrees
  <2> QED
    BY <1>2, <1>8, <1>9, <2>1 DEF IInv
<1>11. QueueOk'
  <2>0. Queue(program, perfect, Ring, pay, fpc, stalled) /\ pay \in Seq(Row) /\ 1 \in 1 .. Len(pay) /\ fpc \in Nat
    BY <1>1 DEF IInv, QueueOk, Meets, Queue
  <2> PICK p2 : p2 = pay'
    OBVIOUS
  <2>1. pay[1] \in Row
    BY <2>0, RowIs
  <2> PICK y : y = [pay[1] EXCEPT !.halves = 1]
    OBVIOUS
  <2>2. /\ y \in Row /\ y.pc = pay[1].pc /\ y.entry = pay[1].entry /\ y.fate = pay[1].fate
        /\ y.halves = 1 /\ y.resolved = pay[1].resolved
    BY <2>1 DEF Row
  <2>3. p2 = Replaced(pay, 1, y)
    BY <1>2 DEF Replaced
  <2>4. p2 \in Seq(Row) /\ Len(p2) = Len(pay) /\ p2[1] = y /\ \A j \in 1 .. Len(pay) : j # 1 => p2[j] = pay[j]
    <3>1. pay \in Seq(Row) /\ y \in Row /\ 1 \in 1 .. Len(pay)
      BY <2>0, <2>2
    <3>2. /\ Replaced(pay, 1, y) \in Seq(Row) /\ Len(Replaced(pay, 1, y)) = Len(pay)
          /\ Replaced(pay, 1, y)[1] = y
          /\ \A j \in 1 .. Len(pay) : j # 1 => Replaced(pay, 1, y)[j] = pay[j]
      BY <3>1, ReplacedIs
    <3> QED
      BY <2>3, <3>2
  <2>5. ASSUME NEW j \in 1 .. Len(p2)
        PROVE  /\ p2[j].pc = pay[j].pc /\ p2[j].entry = pay[j].entry
               /\ p2[j].fate = pay[j].fate
               /\ p2[j].halves = 2 => pay[j].halves = 2
               /\ p2[j].resolved = pay[j].resolved
    <3>1. CASE j = 1
      <4>1. p2[j] = y /\ pay[j] = pay[1]
        BY <2>4, <3>1
      <4>2. y.halves # 2
        BY <2>2
      <4> QED
        BY <2>2, <4>1, <4>2
    <3>2. CASE j # 1
      BY <2>4, <3>2
    <3> QED
      BY <3>1, <3>2
  <2>6. Alongside(p2, pay)
    BY <2>0, <2>4, <2>5 DEF Alongside
  <2>8. Queue(program, perfect, Ring, p2, fpc, stalled)
    BY <2>0, <2>6, AlongsideQueue
  <2> QED
    BY <1>2, <1>3, <2>8 DEF QueueOk
<1> QED
  BY <1>4, <1>10, <1>11 DEF IInv

(* Every way to retire keeps the invariant.                                *)
LEMMA RetireInv ==
  ASSUME CheckerAssumption, IInv, Retire
  PROVE  IInv'
<1>1. Retirable /\ program' = program /\ perfect' = perfect /\ limit' = limit
  BY DEF Retire
<1>2. CASE RetireException
  BY <1>1, <1>2, ExceptionInv
<1>3. CASE RetireViolation
  BY <1>1, <1>3, ViolationInv
<1>4. CASE RetireSystem
  BY <1>1, <1>4, SystemInv
<1>5. CASE RetireUpper
  BY <1>1, <1>5, UpperInv
<1>6. CASE RetirePlain
  BY <1>1, <1>6, PlainInv
<1> QED
  BY <1>2, <1>3, <1>4, <1>5, <1>6 DEF Retire

(* The host's turn comes at the same instruction for both.                 *)
LEMMA EndCycleInv ==
  ASSUME CheckerAssumption, IInv, EndCycle
  PROVE  IInv'
<1>1. /\ program' = program /\ perfect' = perfect /\ isa' = isa /\ db' = db /\ head' = head
      /\ length' = length /\ pay' = pay /\ fpc' = fpc /\ stalled' = stalled /\ agreed' = agreed
      /\ instret' = 0 /\ micro' = Stepped(micro, instret) /\ limit' = Limit(micro')
  BY DEF EndCycle, ring, front
<1>2. Ring' = Ring
  BY <1>1 DEF Ring
<1>3. QueueOk'
  BY <1>1, <1>2 DEF IInv, QueueOk
<1>4. Interleave \in Nat \ {0} /\ IsProc(micro) /\ instret \in Nat /\ Fits(micro, instret)
  BY DEF CheckerAssumption, IInv, CycleOk
<1> PICK m : m = micro'
  OBVIOUS
<1>5. IsProc(m) /\ m.step < Interleave /\ m = Stepped(micro, instret)
  BY <1>1, <1>4, SteppedIs
<1> PICK b \in Nat : b = m.step
  BY <1>5 DEF IsProc
<1>6. 0 \in Nat /\ Fits(m, 0) /\ StepAfter(m, 0) = m.step /\ m.step + 0 < Interleave
  <2>1. b + 0 = b /\ b < Interleave /\ b # Interleave /\ b <= Interleave
    BY <1>4, <1>5
  <2> QED
    BY <2>1 DEF Fits, StepAfter
<1>7. CycleOk'
  <2>1. Limit(m) \in Int /\ Limit(m) <= Interleave - m.step
    BY <1>5, LimitIs
  <2> QED
    BY <1>1, <1>5, <1>6, <2>1 DEF CycleOk
<1>8. AheadOk'
  <2>1. PICK st : Through(program, st, Ring) /\ Facing(micro, instret, st[0])
    BY DEF IInv, AheadOk
  <2> PICK g : g = Stepped(m, 0)
    OBVIOUS
  <2>2. Alike(g, m) /\ g.step = StepAfter(m, 0)
    BY <1>4, <1>5, <1>6, SteppedIs
  <2>3. Alike(m, st[0]) /\ m.step = st[0].step
    BY <1>5, <2>1 DEF Facing
  <2>4. Alike(g, st[0])
    BY <2>2, <2>3, AlikeIs
  <2>5. Facing(micro', instret', st[0])
    BY <1>1, <1>6, <2>2, <2>3, <2>4 DEF Facing
  <2> QED
    BY <1>1, <1>2, <2>1, <2>5 DEF IInv, AheadOk
<1> QED
  BY <1>1, <1>3, <1>7, <1>8 DEF IInv

(* What keeps both processors and the ring.                                *)
LEMMA KeepsAhead ==
  ASSUME IInv, program' = program, UNCHANGED <<isa, db, head, length, micro, instret, limit>>
  PROVE  Ring' = Ring /\ AheadOk' /\ CycleOk'
<1>1. Ring' = Ring
  BY DEF Ring
<1> QED
  BY <1>1 DEF IInv, AheadOk, CycleOk, Fits

(* Where fetch goes on, whatever entry it looks at.                        *)
LEMMA PredictedIs ==
  ASSUME CheckerAssumption, program \in Programs, RingType(Ring), fpc \in Nat,
         NEW w \in 0 .. DebugSize, NEW f2 \in Predicted(fpc, w),
         NEW i, i = InsnOf(program, fpc)
  PROVE  /\ f2 \in Nat
         /\ i.op = "jump" => f2 = i.target
         /\ i.op \in {"add", "store"} => f2 = fpc + 1
         /\ i.op = "branch" /\ perfect /\ w # Invalid => f2 = db[w].next
<1>1. Insn(fpc) = i /\ i.target \in Nat /\ i.op \in Op
  BY InsnIs DEF Insn, InsnOf
<1>2. w # Invalid => db[w].next \in Nat
  <2>1. DebugSize \in Nat \ {0} /\ Ring.db = db
    BY DEF CheckerAssumption, Ring
  <2>2. w # Invalid => w \in Slot
    BY <2>1 DEF Invalid, Slot
  <2> QED
    BY <2>1, <2>2 DEF RingType, Nexts
<1>3. CASE i.op = "jump"
  <2>1. f2 = i.target
    BY <1>1, <1>3 DEF Predicted
  <2> QED
    BY <1>1, <1>3, <2>1
<1>4. CASE i.op = "branch"
  <2>1. CASE ~perfect
    <3>1. f2 \in {i.target, fpc + 1}
      BY <1>1, <1>4, <2>1 DEF Predicted
    <3> QED
      BY <1>1, <1>4, <2>1, <3>1
  <2>2. CASE perfect
    <3>1. f2 = IF w = Invalid THEN fpc + 1 ELSE db[w].next
      BY <1>1, <1>4, <2>2 DEF Predicted
    <3> QED
      BY <1>2, <1>4, <2>2, <3>1
  <2> QED
    BY <2>1, <2>2
<1>5. CASE i.op # "jump" /\ i.op # "branch"
  <2>1. f2 = fpc + 1
    BY <1>1, <1>5 DEF Predicted
  <2> QED
    BY <1>5, <2>1
<1> QED
  BY <1>3, <1>4, <1>5

(* Fetch adds a row that is linked if it is on the path.                   *)
LEMMA FetchInv ==
  ASSUME CheckerAssumption, IInv, Fetch
  PROVE  IInv'
<1>1. /\ program' = program /\ perfect' = perfect /\ agreed' = agreed
      /\ UNCHANGED <<isa, db, head, length, micro, instret, limit>>
      /\ ~stalled /\ Len(pay) < PaySize /\ stalled' = Stops(fpc)
  BY DEF Fetch, ring, cycle
<1>2. Ring' = Ring /\ AheadOk' /\ CycleOk'
  BY <1>1, KeepsAhead
<1>3. /\ program \in Programs /\ RingType(Ring) /\ (Ring.isa.run => Ring.length >= DebugSize - 1)
      /\ Queue(program, perfect, Ring, pay, fpc, stalled) /\ fpc \in Nat /\ pay \in Seq(Row)
      /\ Ring.head = head /\ Ring.length = length /\ Ring.db = db
  BY DEF IInv, AheadOk, QueueOk, Queue, Ring
<1>4. Says(program, Ring)
  BY <1>3, ThroughSays DEF IInv, AheadOk
<1> PICK i : i = InsnOf(program, fpc)
  OBVIOUS
<1>5. Insn(fpc) = i /\ Stops(fpc) = Stopping(program, fpc)
  BY DEF Insn, InsnOf, Stops, Stopping
<1> PICK en : en = map_to_actual(fpc)
  OBVIOUS
<1>6. en = IF pay = <<>> THEN Ring.head
           ELSE IF pay[Len(pay)].entry = Invalid THEN Invalid
           ELSE Behind(Ring, pay[Len(pay)].entry, fpc)
  BY <1>3 DEF map_to_actual, check_next, is_active, Behind
<1>7. en \in 0 .. DebugSize
  <2>1. DebugSize \in Nat \ {0} /\ Ring.head \in 0 .. DebugSize - 1
    BY <1>3 DEF CheckerAssumption, RingType, Slot
  <2>2. CASE pay = <<>>
    BY <1>6, <2>1, <2>2
  <2>3. CASE pay # <<>>
    <3>1. Len(pay) \in 1 .. Len(pay)
      BY <1>3, <2>3, EmptySeq
    <3>2. pay[Len(pay)].entry \in 0 .. DebugSize
      BY <1>3, <3>1, RowIs
    <3> PICK v \in 0 .. DebugSize : v = pay[Len(pay)].entry
      BY <3>2
    <3>3. (v + 1) % DebugSize \in 0 .. DebugSize
      BY <2>1
    <3>4. Behind(Ring, v, fpc) \in {(v + 1) % DebugSize, Invalid}
      BY DEF Behind
    <3>5. Invalid \in 0 .. DebugSize
      BY <2>1 DEF Invalid
    <3> QED
      BY <1>6, <2>3, <3>3, <3>4, <3>5
  <2> QED
    BY <2>2, <2>3
<1>8. PICK fate \in {"fine", "violation", "value"} :
          /\ pay' = Append(pay, [pc |-> fpc, entry |-> en, halves |-> IF i.op = "store" THEN 2 ELSE 1,
                                 resolved |-> i.op # "branch", fate |-> fate])
          /\ i.op # "add" => fate = "fine"
  BY <1>5 DEF Fetch
<1> PICK w : w = [pc |-> fpc, entry |-> en, halves |-> IF i.op = "store" THEN 2 ELSE 1,
                  resolved |-> i.op # "branch", fate |-> fate]
  OBVIOUS
<1>9. /\ w \in Row /\ w.pc = fpc /\ w.entry = en /\ w.fate = fate
      /\ (w.halves = 2 => i.op = "store") /\ w.resolved = (i.op # "branch")
  <2>1. (IF i.op = "store" THEN 2 ELSE 1) \in {1, 2} /\ (i.op # "branch") \in BOOLEAN
    OBVIOUS
  <2> QED
    BY <1>3, <1>7, <2>1 DEF Row
<1>10. fpc' \in Predicted(fpc, en)
  BY DEF Fetch
<1> PICK f2 : f2 = fpc'
  OBVIOUS
<1>11. /\ f2 \in Nat
       /\ i.op = "jump" => f2 = i.target
       /\ i.op \in {"add", "store"} => f2 = fpc + 1
       /\ i.op = "branch" /\ perfect /\ en # Invalid => f2 = db[en].next
  BY <1>3, <1>7, <1>10, PredictedIs
<1>12. Queue(program, perfect, Ring, Append(pay, w), f2, Stopping(program, fpc))
  <2>1. Enters(Ring, pay, fpc, i, w)
    BY <1>6, <1>8, <1>9 DEF Enters
  <2>2. GoesOnTo(perfect, Ring, fpc, i, w, f2)
    BY <1>3, <1>9, <1>11 DEF GoesOnTo
  <2>3. w \in Row /\ f2 \in Nat
    BY <1>9, <1>11
  <2> QED
    BY <1>1, <1>3, <1>4, <2>1, <2>2, <2>3, QueuePushes
<1>13. QueueOk'
  BY <1>1, <1>2, <1>5, <1>8, <1>12 DEF QueueOk
<1> QED
  BY <1>1, <1>2, <1>13 DEF IInv

(* The rows p2 up to some place of pl, the k-th of them resolved: they     *)
(* stand as they did, each but the k-th goes where it did, and fetch still *)
(* waits if it has to.                                                     *)
Marks(p2, pl, k) ==
    /\ p2 \in Seq(Row) /\ k \in 1 .. Len(p2) /\ Len(p2) <= Len(pl)
    /\ \A j \in 1 .. Len(p2) : /\ p2[j].pc = pl[j].pc /\ p2[j].entry = pl[j].entry
                               /\ p2[j].fate = pl[j].fate
                               /\ p2[j].halves = 2 => pl[j].halves = 2
                               /\ p2[j].resolved = pl[j].resolved \/ (j = k /\ p2[j].resolved)
Others(p2, f2, pl, fp, k) == \A j \in 1 .. Len(p2) : j # k => Onward(p2, f2, j) = Onward(pl, fp, j)
Waits(pg, p2, s2, pl, sl) ==
    \A j \in 1 .. Len(p2) : Stopping(pg, pl[j].pc) => Len(p2) = Len(pl) /\ s2 = sl
Rights(pg, r, p2, f2, pl, k) ==
    /\ InsnOf(pg, pl[k].pc).op = "branch"
    /\ Linked(pl, k) /\ Fine(pl, k) => Onward(p2, f2, k) = r.db[pl[k].entry].next

(* What is left is still linked, and goes where it has to.                 *)
LEMMA MarkedQueue ==
  ASSUME NEW pg, NEW pf, NEW r, NEW pl, NEW fp, NEW sl, Queue(pg, pf, r, pl, fp, sl),
         NEW p2, NEW f2 \in Nat, NEW s2, NEW k, Marks(p2, pl, k), Others(p2, f2, pl, fp, k),
         Rights(pg, r, p2, f2, pl, k), Waits(pg, p2, s2, pl, sl)
  PROVE  Queue(pg, pf, r, p2, f2, s2)
BY QueueUpdates DEF Marks, Others, Waits, Rights

(* Resolving only marks the row.                                           *)
LEMMA MarksIs ==
  ASSUME NEW pl, NEW p2 \in Seq(Row), NEW k \in 1 .. Len(p2), Len(p2) <= Len(pl),
         \A j \in 1 .. Len(p2) : j # k => p2[j] = pl[j],
         p2[k] = [pl[k] EXCEPT !.resolved = TRUE], pl[k] \in Row
  PROVE  Marks(p2, pl, k)
<1> PICK y : y = p2[k]
  OBVIOUS
<1>1. /\ y.pc = pl[k].pc /\ y.entry = pl[k].entry /\ y.fate = pl[k].fate
      /\ y.halves = pl[k].halves /\ y.resolved
  BY DEF Row
<1>2. ASSUME NEW j \in 1 .. Len(p2)
      PROVE  /\ p2[j].pc = pl[j].pc /\ p2[j].entry = pl[j].entry
             /\ p2[j].fate = pl[j].fate
             /\ p2[j].halves = 2 => pl[j].halves = 2
             /\ p2[j].resolved = pl[j].resolved \/ (j = k /\ p2[j].resolved)
  <2>1. CASE j = k
    BY <1>1, <2>1
  <2>2. CASE j # k
    BY <2>2
  <2> QED
    BY <2>1, <2>2
<1> QED
  BY <1>2 DEF Marks

CutAt(pl, k, y) == Replaced(SubSeq(pl, 1, k), k, y)

(* The rows up to the k-th, which is replaced.                             *)
LEMMA CutIs ==
  ASSUME NEW pl \in Seq(Row), NEW k \in 1 .. Len(pl), NEW y \in Row
  PROVE  /\ CutAt(pl, k, y) \in Seq(Row) /\ Len(CutAt(pl, k, y)) = k
         /\ CutAt(pl, k, y)[k] = y
         /\ \A j \in 1 .. k : j # k => CutAt(pl, k, y)[j] = pl[j]
<1>1. /\ SubSeq(pl, 1, k) \in Seq(Row) /\ Len(SubSeq(pl, 1, k)) = k /\ k \in 1 .. k
      /\ \A j \in 1 .. k : SubSeq(pl, 1, k)[j] = pl[j]
  OBVIOUS
<1>2. \E s \in Seq(Row) : Len(s) = k /\ (\A j \in 1 .. k : s[j] = pl[j]) /\ CutAt(pl, k, y) = Replaced(s, k, y)
  BY <1>1 DEF CutAt
<1>3. PICK s \in Seq(Row) : Len(s) = k /\ (\A j \in 1 .. k : s[j] = pl[j]) /\ CutAt(pl, k, y) = Replaced(s, k, y)
  BY <1>2
<1>4. k \in 1 .. Len(s)
  BY <1>1, <1>3
<1>5. /\ Replaced(s, k, y) \in Seq(Row) /\ Len(Replaced(s, k, y)) = Len(s)
      /\ Replaced(s, k, y)[k] = y
      /\ \A j \in 1 .. Len(s) : j # k => Replaced(s, k, y)[j] = s[j]
  BY <1>4, ReplacedIs
<1> QED
  BY <1>3, <1>5

(* A branch that goes as predicted is only marked; one that does not loses *)
(* what was fetched behind it.                                             *)
LEMMA ResolveInv ==
  ASSUME CheckerAssumption, IInv, NEW k \in DOMAIN pay, Resolve(k)
  PROVE  IInv'
<1>1. /\ program' = program /\ perfect' = perfect /\ agreed' = agreed
      /\ UNCHANGED <<isa, db, head, length, micro, instret, limit>>
      /\ ~pay[k].resolved
  BY DEF Resolve, ring, cycle
<1>2. Ring' = Ring /\ AheadOk' /\ CycleOk'
  BY <1>1, KeepsAhead
<1>3. /\ program \in Programs
      /\ Queue(program, perfect, Ring, pay, fpc, stalled) /\ fpc \in Nat /\ pay \in Seq(Row)
      /\ Ring.db = db
  BY DEF IInv, QueueOk, Queue, Ring
<1>4. k \in 1 .. Len(pay) /\ Len(pay) \in Nat
  BY <1>3
<1> PICK i : i = InsnOf(program, pay[k].pc)
  OBVIOUS
<1> PICK y : y = [pay[k] EXCEPT !.resolved = TRUE]
  OBVIOUS
<1>5. pay[k] \in Row /\ pay[k].pc \in Nat
  BY <1>3, <1>4, RowIs
<1>6. y \in Row /\ y.pc = pay[k].pc /\ y.entry = pay[k].entry /\ y.fate = pay[k].fate
  BY <1>5 DEF Row
<1>7. y.halves = pay[k].halves /\ y.resolved
  BY <1>5 DEF Row
<1>8. Insn(pay[k].pc) = i /\ i.target \in Nat /\ i.op \in Op
  BY <1>3, <1>5, InsnIs DEF Insn, InsnOf
<1>9. i.op = "branch"
  BY <1>1, <1>3, <1>4 DEF Queue, KindAt
<1>10. PICK next \in {i.target, pay[k].pc + 1} :
        /\ pay[k].entry # Invalid /\ (\A j \in 1..(k - 1) : pay[j].fate = "fine")
              => next = db[pay[k].entry].next
        /\ IF next = (IF k < Len(pay) THEN pay[k + 1].pc ELSE fpc)
           THEN pay' = [pay EXCEPT ![k].resolved = TRUE] /\ UNCHANGED <<fpc, stalled>>
           ELSE /\ pay' = [SubSeq(pay, 1, k) EXCEPT ![k].resolved = TRUE]
                /\ fpc' = next /\ stalled' = FALSE
  BY <1>8 DEF Resolve
<1>11. next \in Nat /\ (Linked(pay, k) /\ Fine(pay, k) => next = Ring.db[pay[k].entry].next)
  BY <1>3, <1>5, <1>8, <1>10 DEF Linked, Fine
<1>12. \A j \in 1 .. Len(pay) : Stopping(program, pay[j].pc) => j = Len(pay) /\ stalled
  BY <1>3 DEF Queue, KindAt
<1>13. ~Stopping(program, pay[k].pc)
  <2>1. CASE pay[k].pc \notin DOMAIN program
    BY <1>9, <2>1 DEF InsnOf, Nowhere
  <2>2. CASE pay[k].pc \in DOMAIN program
    BY <1>9, <2>2 DEF Stopping, Csr
  <2> QED
    BY <2>1, <2>2
<1> PICK p2 : p2 = pay'
  OBVIOUS
<1> PICK f2 : f2 = fpc'
  OBVIOUS
<1> PICK s2 : s2 = stalled'
  OBVIOUS
<1>14. CASE next = Onward(pay, fpc, k)
  <2>1. p2 = Replaced(pay, k, y) /\ f2 = fpc /\ s2 = stalled
    BY <1>10, <1>14 DEF Onward, Replaced
  <2>2. /\ p2 \in Seq(Row) /\ Len(p2) = Len(pay) /\ p2[k] = y
        /\ \A j \in 1 .. Len(pay) : j # k => p2[j] = pay[j]
    <3>1. pay \in Seq(Row) /\ y \in Row /\ k \in 1 .. Len(pay)
      BY <1>3, <1>4, <1>6
    <3>2. /\ Replaced(pay, k, y) \in Seq(Row) /\ Len(Replaced(pay, k, y)) = Len(pay)
          /\ Replaced(pay, k, y)[k] = y
          /\ \A j \in 1 .. Len(pay) : j # k => Replaced(pay, k, y)[j] = pay[j]
      BY <3>1, ReplacedIs
    <3> QED
      BY <2>1, <3>2
  <2>3. \A j \in 1 .. Len(p2) : Onward(p2, f2, j) = Onward(pay, fpc, j)
    <3> TAKE j \in 1 .. Len(p2)
    <3>1. j < Len(pay) => j + 1 \in 1 .. Len(pay)
      BY <1>4, <2>2
    <3>2. j < Len(pay) => p2[j + 1].pc = pay[j + 1].pc
      <4>1. CASE j + 1 = k
        BY <1>6, <2>2, <4>1
      <4>2. CASE j + 1 # k
        BY <2>2, <3>1, <4>2
      <4> QED
        BY <4>1, <4>2
    <3> QED
      BY <2>1, <2>2, <3>2 DEF Onward
  <2>4. Marks(p2, pay, k)
    <3>1. k \in 1 .. Len(p2) /\ Len(p2) <= Len(pay) /\ \A j \in 1 .. Len(p2) : j # k => p2[j] = pay[j]
      BY <1>4, <2>2
    <3> QED
      BY <1>5, <2>2, <3>1, MarksIs
  <2>5. Waits(program, p2, s2, pay, stalled)
    BY <2>1, <2>2 DEF Waits
  <2>6. Others(p2, f2, pay, fpc, k) /\ f2 \in Nat
    BY <1>3, <2>1, <2>3 DEF Others
  <2>7. Linked(pay, k) /\ Fine(pay, k) => Onward(p2, f2, k) = Ring.db[pay[k].entry].next
    BY <1>4, <1>11, <1>14, <2>2, <2>3
  <2>9. Rights(program, Ring, p2, f2, pay, k)
    BY <1>9, <2>7 DEF Rights
  <2>10. Queue(program, perfect, Ring, p2, f2, s2)
    BY <1>3, <2>4, <2>5, <2>6, <2>9, MarkedQueue
  <2>11. QueueOk'
    BY <1>1, <1>2, <2>10 DEF QueueOk
  <2> QED
    BY <1>1, <1>2, <2>11 DEF IInv
<1>15. CASE next # Onward(pay, fpc, k)
  <2>1. p2 = CutAt(pay, k, y) /\ f2 = next /\ s2 = FALSE
    <3>1. SubSeq(pay, 1, k)[k] = pay[k]
      BY <1>3, <1>4
    <3> QED
      BY <1>10, <1>15, <3>1 DEF Onward, CutAt, Replaced
  <2>2. k \in 1 .. Len(pay) /\ y \in Row
    BY <1>4, <1>6
  <2>3. /\ p2 \in Seq(Row) /\ Len(p2) = k /\ p2[k] = y
        /\ \A j \in 1 .. k : j # k => p2[j] = pay[j]
    <3>1. pay \in Seq(Row)
      BY <1>3
    <3>2. /\ CutAt(pay, k, y) \in Seq(Row) /\ Len(CutAt(pay, k, y)) = k
          /\ CutAt(pay, k, y)[k] = y
          /\ \A j \in 1 .. k : j # k => CutAt(pay, k, y)[j] = pay[j]
      BY <2>2, <3>1, CutIs
    <3> QED
      BY <2>1, <3>2
  <2>4. \A j \in 1 .. Len(p2) : j # k => Onward(p2, f2, j) = Onward(pay, fpc, j)
    <3> SUFFICES ASSUME NEW j \in 1 .. Len(p2), j # k
                 PROVE  Onward(p2, f2, j) = Onward(pay, fpc, j)
      OBVIOUS
    <3>1. j < k /\ j < Len(pay) /\ j + 1 \in 1 .. k
      BY <1>4, <2>3
    <3>2. p2[j + 1].pc = pay[j + 1].pc
      <4>1. CASE j + 1 = k
        BY <1>6, <2>3, <4>1
      <4>2. CASE j + 1 # k
        BY <2>3, <3>1, <4>2
      <4> QED
        BY <4>1, <4>2
    <3> QED
      BY <2>3, <3>1, <3>2 DEF Onward
  <2>5. Marks(p2, pay, k)
    <3>1. k \in 1 .. Len(p2) /\ Len(p2) <= Len(pay) /\ \A j \in 1 .. Len(p2) : j # k => p2[j] = pay[j]
      BY <1>4, <2>3
    <3> QED
      BY <1>5, <2>3, <3>1, MarksIs
  <2>6. Waits(program, p2, s2, pay, stalled)
    <3> USE DEF Waits
    <3> SUFFICES ASSUME NEW j \in 1 .. Len(p2), Stopping(program, pay[j].pc)
                 PROVE  FALSE
      OBVIOUS
    <3>1. j \in 1 .. Len(pay) /\ j <= k
      BY <1>4, <2>3
    <3>2. j = Len(pay)
      BY <1>12, <3>1
    <3>3. j = k
      BY <1>4, <3>1, <3>2
    <3> QED
      BY <1>13, <3>3
  <2>7. Others(p2, f2, pay, fpc, k) /\ f2 \in Nat
    BY <1>11, <2>1, <2>4 DEF Others
  <2>8. Linked(pay, k) /\ Fine(pay, k) => Onward(p2, f2, k) = Ring.db[pay[k].entry].next
    <3>1. Onward(p2, f2, k) = next
      BY <1>4, <2>1, <2>3 DEF Onward
    <3> QED
      BY <1>11, <3>1
  <2>9. Rights(program, Ring, p2, f2, pay, k)
    BY <1>9, <2>8 DEF Rights
  <2>10. Queue(program, perfect, Ring, p2, f2, s2)
    BY <1>3, <2>5, <2>6, <2>7, <2>9, MarkedQueue
  <2>11. QueueOk'
    BY <1>1, <1>2, <2>10 DEF QueueOk
  <2> QED
    BY <1>1, <1>2, <2>11 DEF IInv
<1> QED
  BY <1>14, <1>15

(* The rest of the cycle touches nothing of it.                            *)
LEMMA RestInv ==
  ASSUME IInv, Rest \/ UNCHANGED vars
  PROVE  IInv'
<1>1. /\ program' = program /\ perfect' = perfect /\ agreed' = agreed
      /\ UNCHANGED <<isa, db, head, length, micro, instret, limit, pay, fpc, stalled>>
  BY DEF Rest, vars, ring, front, cycle
<1>2. Ring' = Ring /\ AheadOk' /\ CycleOk'
  BY <1>1, KeepsAhead
<1>3. QueueOk'
  BY <1>1, <1>2 DEF IInv, QueueOk
<1> QED
  BY <1>1, <1>2, <1>3 DEF IInv

(* The invariant is inductive.                                             *)
LEMMA NextInv ==
  ASSUME CheckerAssumption, IInv, [Next]_vars
  PROVE  IInv'
<1>1. CASE Fetch
  BY <1>1, FetchInv
<1>2. CASE Retire
  BY <1>2, RetireInv
<1>3. CASE Rest \/ UNCHANGED vars
  BY <1>3, RestInv
<1>4. CASE EndCycle
  BY <1>4, EndCycleInv
<1>5. ASSUME NEW k \in DOMAIN pay, Resolve(k)
      PROVE  IInv'
  BY <1>5, ResolveInv
<1> QED
  BY <1>1, <1>2, <1>3, <1>4, <1>5 DEF Next

-----------------------------------------------------------------------------
(* What the invariant says of the links.                                   *)
LEMMA LinksFollow ==
  ASSUME CheckerAssumption, IInv
  PROVE  LinksExact
<1>1. /\ program \in Programs /\ RingType(Ring) /\ Queue(program, perfect, Ring, pay, fpc, stalled)
      /\ Ring.isa = isa /\ Ring.db = db /\ Ring.head = head /\ Ring.length = length
      /\ (isa.run => length >= DebugSize - 1)
  BY DEF IInv, AheadOk, QueueOk, Ring
<1>2. Says(program, Ring)
  BY <1>1, ThroughSays DEF IInv, AheadOk
<1> PICK n \in 0 .. DebugSize : n = length
  BY <1>1 DEF RingType
<1>0. DebugSize \in Nat \ {0} /\ PaySize \in 1 .. DebugSize - 1 /\ head \in Slot
  BY <1>1 DEF CheckerAssumption, RingType
<1>3. pay = <<>> /\ length > 0 => fpc = db[head].pc
  BY <1>1 DEF Queue
<1>4. pay \in Seq(Row) /\ DOMAIN pay = 1 .. Len(pay) /\ Len(pay) \in Nat
  BY <1>1 DEF Queue
<1>5. \A k \in 1 .. Len(pay) : LinkAt(Ring, pay, k)
  BY <1>1 DEF Queue
<1>6. ASSUME NEW k \in DOMAIN pay
      PROVE  IF k = 1 THEN pay[k].entry = head \/ (~isa.run /\ length = 0)
             ELSE IF pay[k].entry # Invalid
                  THEN /\ pay[k - 1].entry # Invalid /\ k <= length
                       /\ pay[k].entry = (head + k - 1) % DebugSize
                       /\ db[pay[k - 1].entry].next = pay[k].pc
             ELSE \/ pay[k - 1].entry = Invalid
                  \/ db[pay[k - 1].entry].next # pay[k].pc
                  \/ ~isa.run /\ k > length
  <2>0. k \in 1 .. Len(pay) /\ LinkAt(Ring, pay, k)
    BY <1>4, <1>5
  <2>1. CASE k = 1
    <3>1. CASE n > 0
      <4>1. pay[1].entry = At(head, 1 - 1)
        BY <1>1, <2>0, <2>1, <3>1 DEF LinkAt
      <4>2. At(head, 1 - 1) = head
        BY <1>0, AtIs
      <4> QED
        BY <2>1, <4>1, <4>2
    <3>2. CASE n = 0
      <4>1. isa.run => DebugSize = 1
        BY <1>0, <1>1, <3>2
      <4>2. ~isa.run
        BY <1>0, <4>1
      <4> QED
        BY <2>1, <3>2, <4>2
    <3> QED
      BY <3>1, <3>2
  <2>2. CASE k >= 2 /\ Linked(pay, k)
    <3>1. /\ Linked(pay, k - 1) /\ n > 0 /\ k <= n /\ k - 1 \in 1 .. Len(pay)
          /\ pay[k].entry = At(head, k - 1) /\ pay[k].pc = db[At(head, k - 1)].pc
      BY <1>1, <2>0, <2>2 DEF LinkAt
    <3>2. pay[k - 1].entry = At(head, (k - 1) - 1)
      BY <1>1, <1>5, <3>1 DEF LinkAt
    <3>3. (k - 1) - 1 \in 0 .. n - 1 /\ ((k - 1) - 1) + 1 = k - 1 /\ k - 1 < n
      BY <2>0, <2>2, <3>1
    <3>4. db[At(head, (k - 1) - 1)].next = db[At(head, k - 1)].pc
      BY <1>1, <1>2, <3>3 DEF Says
    <3>5. At(head, k - 1) = (head + k - 1) % DebugSize
      <4>1. head + (k - 1) = head + k - 1
        BY <1>0, <2>0 DEF Slot
      <4> QED
        BY <4>1 DEF At
    <3> QED
      BY <2>0, <2>2, <3>1, <3>2, <3>4, <3>5 DEF Linked
  <2>3. CASE k >= 2 /\ ~Linked(pay, k)
    BY <1>1, <2>0, <2>3 DEF LinkAt, Linked
  <2> QED
    BY <2>0, <2>1, <2>2, <2>3
<1> QED
  BY <1>3, <1>6 DEF LinksExact

(* The first instruction that is not linked, with perfect prediction:      *)
(* what it is behind goes elsewhere, and only a wrong value, a violation,  *)
(* a trap or a serializing instruction does, as long as the program runs.  *)
LEMMA PathFollows ==
  ASSUME CheckerAssumption, IInv
  PROVE  PerfectPath
<1>1. /\ program \in Programs /\ RingType(Ring) /\ Queue(program, perfect, Ring, pay, fpc, stalled)
      /\ Ring.isa = isa /\ Ring.db = db /\ Ring.head = head /\ Ring.length = length
      /\ (isa.run => length >= DebugSize - 1)
  BY DEF IInv, AheadOk, QueueOk, Ring
<1>2. Says(program, Ring)
  BY <1>1, ThroughSays DEF IInv, AheadOk
<1>0. DebugSize \in Nat \ {0} /\ PaySize \in 1 .. DebugSize - 1 /\ head \in Slot
  BY <1>1 DEF CheckerAssumption, RingType
<1> PICK n \in 0 .. DebugSize : n = length
  BY <1>1 DEF RingType
<1>4. pay \in Seq(Row) /\ DOMAIN pay = 1 .. Len(pay) /\ Len(pay) \in Nat
  BY <1>1 DEF Queue
<1> SUFFICES ASSUME perfect, isa.run, NEW m \in 1 .. Len(pay), ~Linked(pay, m)
             PROVE  \E j \in 1 .. (m - 1) : pay[j].fate # "fine" \/ Insn(pay[j].pc).op \in Traps
  BY <1>4 DEF PerfectPath, Linked
<1>5. n > 0
  BY <1>0, <1>1
<1> DEFINE S == {k \in 1 .. Len(pay) : ~Linked(pay, k)}
<1>6. PICK k \in S : \A j \in S : k <= j
  <2>1. S \in SUBSET Int /\ S # {}
    OBVIOUS
  <2>2. IsFiniteSet(1 .. Len(pay))
    BY <1>4, FS_Interval
  <2>3. IsFiniteSet(S)
    BY <2>2, FS_Subset
  <2> QED
    BY <2>1, <2>3, LeastExists
<1>7. k \in 1 .. Len(pay) /\ ~Linked(pay, k) /\ k <= m
  BY <1>6
<1>8. LinkAt(Ring, pay, k) /\ k >= 2
  <2>1. LinkAt(Ring, pay, k)
    BY <1>1, <1>7 DEF Queue
  <2>2. k # 1
    BY <1>1, <1>5, <1>7, <2>1 DEF LinkAt
  <2> QED
    BY <1>7, <2>1, <2>2
<1> PICK i \in 1 .. Len(pay) : i = k - 1
  BY <1>7, <1>8
<1>9. i < k /\ i + 1 = k /\ i < Len(pay) /\ i \in 1 .. m - 1 /\ Linked(pay, i)
  <2>1. i < k /\ i + 1 = k /\ i < Len(pay) /\ i \in 1 .. m - 1
    BY <1>4, <1>7, <1>8
  <2>2. i \notin S
    BY <1>6, <1>7, <2>1
  <2> QED
    BY <2>1, <2>2
<1>10. /\ i <= n /\ pay[i].entry = At(head, i - 1) /\ pay[i].pc = db[At(head, i - 1)].pc
  BY <1>1, <1>5, <1>9 DEF Queue, LinkAt
<1>11. KindAt(program, pay, stalled, i) /\ WayAt(program, perfect, Ring, pay, fpc, i)
  BY <1>1 DEF Queue
<1> PICK e : e = db[At(head, i - 1)]
  OBVIOUS
<1> PICK c : c = InsnOf(program, pay[i].pc)
  OBVIOUS
<1>12. pay[i].pc \in Nat /\ c.op \in Op
  BY <1>1, <1>4, RowIs, InsnIs
<1>13. Goes(c, pay[i].pc, e.next)
  <2>1. i - 1 \in 0 .. n - 1
    BY <1>10
  <2> QED
    BY <1>1, <1>2, <1>10, <2>1 DEF Says
<1>14. Onward(pay, fpc, i) = pay[k].pc
  BY <1>9 DEF Onward
<1>16. e.next # pay[k].pc
  <2>1. Ring.isa.run
    BY <1>1
  <2> QED
    BY <1>1, <1>7, <1>8, <1>9, <1>10, <2>1 DEF LinkAt
<1>17. ~Stopping(program, pay[i].pc)
  BY <1>9, <1>11 DEF KindAt
<1>18. Insn(pay[i].pc) = c
  BY DEF Insn, InsnOf
<1>19. CASE c.op \in Traps
  BY <1>9, <1>18, <1>19
<1>20. CASE c.op = "branch"
  <2>1. ~Fine(pay, i)
    BY <1>1, <1>5, <1>9, <1>10, <1>11, <1>14, <1>16, <1>20 DEF WayAt
  <2>2. PICK j \in 1 .. i - 1 : pay[j].fate # "fine"
    BY <2>1 DEF Fine
  <2>3. j \in 1 .. m - 1
    BY <1>9
  <2> QED
    BY <2>2, <2>3
<1>21. CASE c.op = "jump"
  BY <1>11, <1>13, <1>14, <1>16, <1>21 DEF WayAt, Goes
<1>22. CASE c.op \in {"add", "store"}
  BY <1>11, <1>13, <1>14, <1>16, <1>22 DEF WayAt, Goes
<1>23. c.op \notin Csr \cup {"scall"}
  BY <1>17 DEF Stopping
<1> QED
  BY <1>12, <1>19, <1>20, <1>21, <1>22, <1>23 DEF Op, Traps

-----------------------------------------------------------------------------
(* No check ever fails. What retires is compared with the entry of its own *)
(* execution, past squashes, traps, loops and refetched instructions, and  *)
(* the two hosts act at the same instructions: the pipeline's processor is *)
(* the functional simulator's of as many instructions ago (checker.cc,     *)
(* debug.h), for every program that holds a handler and all sizes of which *)
(* the ring is larger than the payload buffer.                             *)
THEOREM ChecksPass ==
  ASSUME CheckerAssumption
  PROVE  Spec => []CheckerAgrees
<1>1. Init => IInv
  BY InitInv
<1>2. IInv /\ [Next]_vars => IInv'
  BY NextInv
<1>3. IInv => CheckerAgrees
  BY DEF IInv, CheckerAgrees
<1> QED
  BY <1>1, <1>2, <1>3, PTL DEF Spec

(* The linked instructions are exactly the oldest ones that are on the     *)
(* functional simulator's path, each at its own entry; and with perfect    *)
(* prediction fetch leaves that path only behind a trap, a serializing     *)
(* instruction or a squash to come (payload::map_to_actual and predict).   *)
THEOREM LinksHold ==
  ASSUME CheckerAssumption
  PROVE  Spec => [](LinksExact /\ PerfectPath)
<1>1. Init => IInv
  BY InitInv
<1>2. IInv /\ [Next]_vars => IInv'
  BY NextInv
<1>3. IInv => LinksExact /\ PerfectPath
  BY LinksFollow, PathFollows
<1> QED
  BY <1>1, <1>2, <1>3, PTL DEF Spec
=============================================================================
