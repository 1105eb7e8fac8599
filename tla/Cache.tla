-------------------------------- MODULE Cache --------------------------------
(***************************************************************************)
(* The timing caches (CacheClass.cc, cache.h): an instruction and a data   *)
(* cache in front of one shared cache and memory. A call of Access() looks *)
(* a line up, allocates it on a miss, and says in which cycle it will be   *)
(* there; nothing happens later. A cache can have as many misses under way *)
(* as it has miss status registers (MHSRs), and these are freed by later   *)
(* calls that happen to see that they are done. The shared cache is called *)
(* with cycles in the future, in no particular order.                      *)
(*                                                                         *)
(* A cache has one set: its lines, the most recently used first, are the   *)
(* lru counters of the code.                                               *)
(***************************************************************************)
EXTENDS Integers, Sequences, SequencesExt, FiniteSetsExt

CONSTANTS
    Lines,          \* line addresses
    Ways, numMHSR, numMissSrvPorts,     \* of each cache
    hitLatency, missSrvLatency,
    missLatency,    \* of memory
    CycleBits,      \* bits of a cycle_t
    MaxCycle        \* bound: the simulation ends here

L1 == {"IC", "DC"}
Caches == L1 \cup {"L2"}

CacheAssumption ==
    /\ {Ways, numMHSR, numMissSrvPorts} \subseteq [Caches -> Nat \ {0}]
    /\ {hitLatency, missSrvLatency} \subseteq [Caches -> Nat]
    /\ missLatency \in Nat \ {0} /\ MaxCycle \in 0..(2^CycleBits - 1)

VARIABLES
    cache,      \* array, mhsr[] and missPortAvail[] of each cache
    cycle,      \* pipeline_t's
    ic_miss,    \* what the fetch unit waits for: [line, resolve], or none
    loads       \* loads that wait for the data cache: [line, resolve]

vars == <<cache, cycle, ic_miss, loads>>

Width == 2^CycleBits
Refused == Width - 1        \* (cycle_t) -1
-----------------------------------------------------------------------------
Fresh(c) == [array |-> <<>>,
             mhsr |-> [i \in 1..numMHSR[c] |-> [busy |-> FALSE, resolved |-> 0, lineAddress |-> 0]],
             missPortAvail |-> [p \in 1..numMissSrvPorts[c] |-> 0],
             refused |-> FALSE]     \* bookkeeping: a caller got no register

(* get_contents() and the search of lookup(). *)
Holds(a, line) == \E k \in DOMAIN a : a[k].line = line
Way(a, line) == CHOOSE k \in DOMAIN a : a[k].line = line

(* FindFreeMHSR(): the first that is not busy, or whose miss is over; then *)
(* its line is no longer being loaded, if it is still this line's.         *)
Free(m, now) == {i \in DOMAIN m : ~m[i].busy \/ m[i].resolved < now}
(* Seeded fault: the line keeps waiting for the register. *)
Released_KeepsLine(k, i) == [k EXCEPT !.mhsr[i].busy = FALSE, !.mhsr[i].resolved = 0]
Released(k, i) ==
    [k EXCEPT !.mhsr[i].busy = FALSE, !.mhsr[i].resolved = 0,
              !.array = [w \in DOMAIN @ |->
                  IF k.mhsr[i].busy /\ @[w].line = k.mhsr[i].lineAddress /\ @[w].mhsr = i
                  THEN [@[w] EXCEPT !.mhsr = 0] ELSE @[w]]]

(* FindNextPort(): the one that is available first. *)
NextPort(avail) == CHOOSE p \in DOMAIN avail :
    /\ \A q \in DOMAIN avail : avail[p] <= avail[q]
    /\ \A q \in 1..(p - 1) : avail[p] < avail[q]

(* At least the time of a hit must pass before a line is there. *)
AtLeast(c, at, now) == IF (at - now) % Width < hitLatency[c] THEN (now + hitLatency[c]) % Width ELSE at

(* Access() on a line that has been allocated, and maybe is being loaded.  *)
Hit(s, c, now, line, isStore) ==
    LET k == s[c]
        e == k.array[Way(k.array, line)]
        over == e.mhsr # 0 /\ k.mhsr[e.mhsr].resolved <= now
        at == IF e.mhsr = 0 \/ over THEN now ELSE AtLeast(c, k.mhsr[e.mhsr].resolved, now)
        e2 == [e EXCEPT !.dirty = @ \/ isStore, !.mhsr = IF over THEN 0 ELSE @]
        k2 == [k EXCEPT !.array = <<e2>> \o SelectSeq(@, LAMBDA f : f.line # line)]
    IN  [s |-> [s EXCEPT ![c] = IF over THEN [k2 EXCEPT !.mhsr[e.mhsr].busy = FALSE,
                                                       !.mhsr[e.mhsr].resolved = 0] ELSE k2],
         at |-> (at + hitLatency[c]) % Width, hit |-> at = now]

(* Access() on another line, first part: a register, a port, the line for  *)
(* its victim, and the cycle at which the victim's own miss is over.       *)
Allocated(s, c, now, line, isStore) ==
    LET i == Min(Free(s[c].mhsr, now))
        k == Released(s[c], i)
        p == NextPort(k.missPortAvail)
        full  == Len(k.array) = Ways[c]
        old   == Last(k.array)
        start == AtLeast(c, Max({k.missPortAvail[p], now}), now)
        new   == [line |-> line, dirty |-> isStore, mhsr |-> i]
    IN  [mhsr |-> i, port |-> p, c |-> c, line |-> line,
         victim |-> IF full /\ old.dirty THEN {old.line} ELSE {},
         s  |-> [s EXCEPT ![c] = [k EXCEPT !.array = <<new>> \o IF full THEN Front(@) ELSE @]],
         at |-> IF full /\ old.mhsr # 0 THEN Max({start, k.mhsr[old.mhsr].resolved}) ELSE start]

(* Last part: the port is taken from the cycle in which the write-back is  *)
(* acknowledged, and the register until the next level has the line.       *)
Served(m, wb, next) ==
    [s |-> [next.s EXCEPT ![m.c].missPortAvail[m.port] = (wb.at + missSrvLatency[m.c]) % Width,
                          ![m.c].mhsr[m.mhsr] = [busy |-> TRUE, resolved |-> next.at,
                                                 lineAddress |-> m.line]],
     at |-> (next.at + hitLatency[m.c]) % Width, hit |-> FALSE]

Refusal(s) == [s |-> s, at |-> Refused, hit |-> FALSE]

(* The last cache: memory is never busy. *)
Memory(s, now) == [s |-> s, at |-> (now + missLatency) % Width]
ReadL2(m, wb) == Served(m, wb, Memory(wb.s, wb.at))
MissL2(m) == ReadL2(m, IF m.victim = {} THEN m ELSE Memory(m.s, m.at))
AccessL2(s, now, line, isStore) ==
    IF Holds(s["L2"].array, line) THEN Hit(s, "L2", now, line, isStore)
    ELSE IF Free(s["L2"].mhsr, now) = {} THEN Refusal([s EXCEPT !["L2"].refused = TRUE])
    ELSE MissL2(Allocated(s, "L2", now, line, isStore))

(* The caches in front of it write back to and read from it, one after the *)
(* other, and take what it returns for the cycle in which it is done.      *)
ReadL1(m, wb) == Served(m, wb, AccessL2(wb.s, wb.at, m.line, FALSE))
MissL1(m) == ReadL1(m, IF m.victim = {} THEN m ELSE AccessL2(m.s, m.at, Min(m.victim), TRUE))
AccessL1(s, c, now, line, isStore) ==
    IF Holds(s[c].array, line) THEN Hit(s, c, now, line, isStore)
    ELSE IF Free(s[c].mhsr, now) = {} THEN Refusal(s)
    ELSE MissL1(Allocated(s, c, now, line, isStore))
-----------------------------------------------------------------------------
Init ==
    /\ cache = [c \in Caches |-> Fresh(c)] /\ cycle = 0
    /\ ic_miss = {} /\ loads = {}

(* lsu.cc: a load accesses the data cache when it executes, and again if   *)
(* it got no register. A load whose line has come leaves.                  *)
Waits(line, a) ==
    /\ cache' = a.s
    /\ loads' = {l \in loads : l.line # line}
                  \cup IF a.hit THEN {} ELSE {[line |-> line, resolve |-> a.at]}
Load(line) ==
    /\ \A l \in loads : l.line = line => l.resolve = Refused
    /\ Waits(line, AccessL1(cache, "DC", cycle, line, FALSE))
    /\ UNCHANGED <<cycle, ic_miss>>
Store(line) ==
    /\ cache' = AccessL1(cache, "DC", cycle, line, TRUE).s
    /\ UNCHANGED <<cycle, ic_miss, loads>>
Loaded == \E l \in loads :
    /\ l.resolve <= cycle
    /\ loads' = loads \ {l} /\ UNCHANGED <<cache, cycle, ic_miss>>

(* ic_t::lookup(): FETCH1 reads a line and the one behind it, and waits    *)
(* for the later of the two. A line address has a successor in Lines.      *)
Behind(line) == IF line + 1 \in Lines THEN line + 1 ELSE Min(Lines)
Both(line, a, b) ==
    /\ cache' = b.s
    /\ ic_miss' = IF a.hit /\ b.hit THEN {}
                  ELSE {[line |-> line, resolve |-> Max({IF a.hit THEN 0 ELSE a.at,
                                                         IF b.hit THEN 0 ELSE b.at})]}
Second(line, a) == Both(line, a, AccessL1(a.s, "IC", cycle, Behind(line), FALSE))
Fetch1(line) ==
    /\ \A m \in ic_miss : m.resolve <= cycle
    /\ Second(line, AccessL1(cache, "IC", cycle, line, FALSE))
    /\ UNCHANGED <<cycle, loads>>
(* A squash discards the pending miss, but not the registers it took. *)
Squash == ic_miss # {} /\ ic_miss' = {} /\ UNCHANGED <<cache, cycle, loads>>

Tick == cycle < MaxCycle /\ cycle' = cycle + 1 /\ UNCHANGED <<cache, ic_miss, loads>>

Next == \/ Tick \/ Squash \/ Loaded
        \/ \E line \in Lines : Load(line) \/ Store(line) \/ Fetch1(line)
Spec == Init /\ [][Next]_vars
-----------------------------------------------------------------------------
(* A register that a line waits for is busy with the miss of just this     *)
(* line: registers are reused, by calls for other lines and at cycles out  *)
(* of order, never under a line that still believes it is being loaded.    *)
LinesExact == \A c \in Caches : \A k \in DOMAIN cache[c].array :
    LET e == cache[c].array[k]
    IN  e.mhsr # 0 => /\ cache[c].mhsr[e.mhsr].busy
                      /\ cache[c].mhsr[e.mhsr].lineAddress = e.line

(* "Cannot miss in MHSR in the next level if the next level has as many or *)
(* more MHSRs as this level": Access() takes the refusal of the shared     *)
(* cache, -1, for the cycle in which a line comes, or in which a victim    *)
(* has been written back. The registers of one cache are not enough, nor   *)
(* those of both: a miss of the data cache can hold one for its victim and *)
(* one for its line, and a call for an earlier cycle finds both taken.     *)
NextLevelAccepts == ~cache["L2"].refused

CachesExact == LinesExact /\ NextLevelAccepts
=============================================================================
