-------------------------------- MODULE Htif --------------------------------
(***************************************************************************)
(* The host-target interface (riscv-base/htif.cc, fesvr/htif.cc, memif.cc, *)
(* htif_pthread.cc, device.cc, syscall_bypass.cc) between a program and    *)
(* the host that loads it and serves its commands, twice: the functional   *)
(* simulator's host executes system calls, and the pipeline's host, which  *)
(* lags behind, replays what they did (the mirror), so that a call happens *)
(* once and has the same effect on both memories.                          *)
(*                                                                         *)
(* The host is a coroutine. It writes a packet and waits; the target runs; *)
(* a tick of the target first resumes the host, up to its next packet, and *)
(* then answers that packet. The host's program is the sequence todo of    *)
(* what it still has to do. Packets are atomic and their sequence numbers, *)
(* which count both sides' packets, are left out.                          *)
(***************************************************************************)
EXTENDS Syscalls, FiniteSetsExt

CONSTANTS
    Align,      \* chunk_align(), in bytes
    MaxChunk,   \* chunk_max_size()
    MemSize,    \* bytes of memory
    Image,      \* the program's image: where, and its bytes
    Programs,   \* the programs to run: sequences of commands
    Lags,       \* turns that the functional simulator may be ahead, see MicroTurn
    Busy        \* bound: turns of those in which the program does other things

HtifAssumption ==
    /\ Align \in Nat \ {0} /\ MaxChunk \in Nat \ {0} /\ MaxChunk % Align = 0
    /\ MemSize % Align = 0 /\ Lags \subseteq Nat \ {0}

Side == {"isa", "micro"}

VARIABLES
    program,  \* the commands of the program
    tgt,      \* each target: memory, registers, and how far its program is
    host,     \* each host: what it has to do, and what it knows
    os,       \* the operating system, and the main host's descriptors
    active,   \* syscall_main_t's active_sequence
    queued,   \* the mirror's cores_queued_service_seq
    turn,     \* whose tick it is, if any
    lag,      \* the turns that the pipeline lags behind: fixed
    trace,    \* what the program did in them
    want,     \* bookkeeping: the memories as the requests leave them
    threw     \* why the mirror has stopped the simulation, or "no"

vars == <<program, tgt, host, os, active, queued, turn, lag, trace, want, threw>>
-----------------------------------------------------------------------------
Byte == 0..(MemSize - 1)
Slice(mem, at, n) == [i \in 1..n |-> mem[at + i - 1]]
Written(mem, at, bytes) ==
    [x \in DOMAIN mem |-> IF x \in at..(at + Len(bytes) - 1) THEN bytes[x - at + 1] ELSE mem[x]]

(* The packets. *)
Cr(reg, val) == [k |-> "cr", reg |-> reg, val |-> val]
Rc(base, size) == [k |-> "rc", base |-> base, size |-> size]
Wc(base, size, at, bytes) == [k |-> "wc", base |-> base, size |-> size, at |-> at, bytes |-> bytes]
IsPacket(i) == i.k \in {"cr", "rc", "wc"}

(* How memif cuts an access into chunks: the partial ones at both ends     *)
(* first, then the rest in pieces of at most MaxChunk.                     *)
Pieces(at, n) ==
    LET head == IF n > 0 /\ at % Align # 0 THEN Min({n, Align - (at % Align)}) ELSE 0
        tail == (n - head) % Align
        mid  == n - head - tail
        from == at + head
        Piece(b, a, m, s) == [base |-> b, at |-> a, n |-> m, size |-> s]
    IN  (IF head > 0 THEN <<Piece(at - (at % Align), at, head, Align)>> ELSE <<>>)
        \o (IF tail > 0 THEN <<Piece(from + mid, from + mid, tail, Align)>> ELSE <<>>)
        \o [i \in 1..((mid + MaxChunk - 1) \div MaxChunk) |->
              LET a == from + (i - 1) * MaxChunk
                  m == Min({MaxChunk, mid - (i - 1) * MaxChunk})
              IN  Piece(a, a, m, m)]

(* memif_t::read and write, each followed by the tap's listener. *)
Read(at, n) ==
    LET p == Pieces(at, n)
    IN  [i \in DOMAIN p |-> Rc(p[i].base, p[i].size)]
Tap(write, at, bytes) == [k |-> "tap", write |-> write, at |-> at, bytes |-> bytes]
Write(at, bytes) ==
    LET p == Pieces(at, Len(bytes))
        Chunk(q) == Wc(q.base, q.size, q.at, SubSeq(bytes, q.at - at + 1, q.at - at + q.n))
    IN  FlattenSeq([i \in DOMAIN p |->
            IF p[i].n < p[i].size THEN <<Rc(p[i].base, p[i].size), Chunk(p[i])>>
            ELSE <<Chunk(p[i])>>])

Do(k, c) == [k |-> k, c |-> c]
ReadMem(at, n) == Read(at, n) \o <<[k |-> "heard", at |-> at, n |-> n]>>
WriteMem(at, bytes) == <<[k |-> "want", at |-> at, bytes |-> bytes]>> \o Write(at, bytes)
                        \o <<[k |-> "tap", at |-> at, bytes |-> bytes]>>

(* htif_t::start: load_program, then reset, which leaves the size of the   *)
(* memory in its first bytes.                                              *)
Boot == WriteMem(Image.at, Image.bytes)
        \o <<Cr("mem", 0), Cr("cores", 0), [k |-> "want", at |-> 0, bytes |-> <<1>>],
             Rc(0, Align), Wc(0, Align, 0, <<1>>), Cr("reset", 1), Cr("reset", 0),
             Do("next", 0)>>

(* The last field is bookkeeping: packets since the command was taken.     *)
Idle == [payload |-> 0, trans |-> <<>>, exit |-> 0, packets |-> 0]
Init ==
    /\ program \in Programs
    /\ tgt = [s \in Side |-> [tohost |-> 0, fromhost |-> 0, mem |-> [x \in Byte |-> 0],
                              running |-> FALSE, reset |-> TRUE, issued |-> 0, wait |-> FALSE]]
    /\ host = [s \in Side |-> [todo |-> Boot, buf |-> [x \in {} |-> 0], queue |-> <<>>,
                               exit |-> 0, stopped |-> FALSE]]
    /\ os = Booted /\ active = Idle /\ queued = <<>>
    /\ turn = "isa" /\ lag \in Lags /\ trace = <<>>
    /\ want = [s \in Side |-> [x \in Byte |-> 0]]
    /\ threw = "no"

todo(s) == host[s].todo
i(s) == Head(todo(s))
Then(s, items) == items \o Tail(todo(s))

(* The program, between two ticks: it takes a reply, or issues its next    *)
(* command: the number and the argument of a system call are in magicmem,  *)
(* and it waits for the call's reply. A command is lost on nobody: the     *)
(* program writes tohost only when the last one is taken.                  *)
Waits(c) == c.fn # "putchar"
Ran(t) ==
    IF t.fromhost # 0 THEN [t EXCEPT !.fromhost = 0, !.wait = FALSE]
    ELSE IF ~t.wait /\ t.tohost = 0 /\ t.issued < Len(program)
    THEN LET n == t.issued + 1
             c == program[n]
         IN  [t EXCEPT !.issued = n, !.tohost = n, !.wait = Waits(c),
                       !.mem = IF c.fn \in Fn THEN [@ EXCEPT ![c.magic] = n] ELSE @]
    ELSE t
Run(s, runs) ==
    LET t == IF runs THEN Ran(tgt[s]) ELSE tgt[s]
    IN  /\ tgt' = [tgt EXCEPT ![s] = t]
        /\ want' = [want EXCEPT ![s] = IF t.mem = tgt[s].mem THEN @
                                       ELSE [@ EXCEPT ![program[t.issued].magic] = t.issued]]
(* A turn of the functional simulator, and the same turn of the pipeline,  *)
(* later: as many instructions, then a tick (sim_t::step). The debug       *)
(* buffer keeps the functional simulator ahead, until it stops, by its     *)
(* size: PIPE_QUEUE_SIZE / INTERLEAVE is 128 turns, the time in which a    *)
(* host exchanges 128 packets.                                             *)
IsaTurn ==
    /\ turn = "none" /\ tgt["isa"].running /\ Len(trace) < lag
    /\ \E runs \in BOOLEAN : Run("isa", runs) /\ trace' = Append(trace, runs)
    /\ Cardinality({j \in DOMAIN trace' : ~trace'[j]}) <= Busy
    /\ turn' = "isa"
    /\ UNCHANGED <<program, host, os, active, queued, lag, threw>>
MicroTurn ==
    /\ turn = "none"
    /\ Len(trace) = lag \/ ~tgt["isa"].running
    /\ tgt["micro"].running \/ tgt["micro"].reset
    /\ IF tgt["micro"].reset THEN UNCHANGED <<tgt, want, trace>>
       ELSE Run("micro", Head(trace)) /\ trace' = Tail(trace)
    /\ turn' = "micro"
    /\ UNCHANGED <<program, host, os, active, queued, lag, threw>>
-----------------------------------------------------------------------------
(* tick_once: the target answers the packet that the host has waiting. The *)
(* tick ends, unless the processor is still in reset.                      *)
Answered(s, t, then, buf) ==
    /\ tgt' = [tgt EXCEPT ![s] = t]
    /\ host' = [host EXCEPT ![s].todo = Then(s, then), ![s].buf = buf]
    /\ turn' = IF t.reset THEN s ELSE "none"
    /\ active' = IF s = "isa" /\ active.payload # 0 THEN [active EXCEPT !.packets = @ + 1] ELSE active
    /\ UNCHANGED <<program, os, queued, lag, trace, want, threw>>

ReadChunk(s) ==
    LET chunk == i(s).base..(i(s).base + i(s).size - 1)
        buf   == host[s].buf
    IN  /\ i(s).k = "rc"
        /\ Answered(s, tgt[s], <<>>, [x \in DOMAIN buf \cup chunk |->
                                        IF x \in chunk THEN tgt[s].mem[x] ELSE buf[x]])
(* Seeded fault: the rest of a chunk written in part is cleared. *)
WriteChunk_Clears(s) ==
    LET chunk == i(s).base..(i(s).base + i(s).size - 1)
        new   == i(s).at..(i(s).at + Len(i(s).bytes) - 1)
    IN  /\ i(s).k = "wc"
        /\ Answered(s, [tgt[s] EXCEPT !.mem = [x \in Byte |->
                            IF x \in new THEN i(s).bytes[x - i(s).at + 1]
                            ELSE IF x \in chunk THEN 0 ELSE @[x]]],
                    <<>>, host[s].buf)
WriteChunk(s) ==
    LET chunk == i(s).base..(i(s).base + i(s).size - 1)
        new   == i(s).at..(i(s).at + Len(i(s).bytes) - 1)
    IN  /\ i(s).k = "wc"
        /\ Answered(s, [tgt[s] EXCEPT !.mem = [x \in Byte |->
                            IF x \in new THEN i(s).bytes[x - i(s).at + 1]
                            ELSE IF x \in chunk THEN host[s].buf[x] ELSE @[x]]],
                    <<>>, host[s].buf)

(* Control registers: the answer is the old value.                         *)
ControlRegister(s) ==
    LET t == tgt[s]
    IN  /\ i(s).k = "cr"
        /\ CASE i(s).reg = "tohost" ->
                  Answered(s, [t EXCEPT !.tohost = 0],
                           <<IF t.tohost = 0 THEN Do("tick", 0) ELSE Do("command", t.tohost)>>, <<>>)
             [] i(s).reg = "fromhost" ->
                  Answered(s, [t EXCEPT !.fromhost = IF @ = 0 THEN i(s).val ELSE @],
                           IF t.fromhost = 0 THEN <<Do("pop", 0)>> ELSE <<>>, host[s].buf)
             [] i(s).reg = "reset" ->
                  Answered(s, [t EXCEPT !.reset = @ /\ i(s).val = 1, !.running = i(s).val = 0],
                           <<>>, host[s].buf)
             [] OTHER -> Answered(s, t, <<>>, host[s].buf)
-----------------------------------------------------------------------------
(* The host between two packets. *)
Host(s, h) ==
    /\ host' = [host EXCEPT ![s] = h]
    /\ UNCHANGED <<program, tgt, turn, lag, trace>>
Goes(s, items) == [host[s] EXCEPT !.todo = Then(s, items)]
Quiet == UNCHANGED <<os, active, queued, want, threw>>

(* The listener of a request: the main host records it.                    *)
Record(s, write, at, bytes) ==
    /\ active' = IF s = "isa" /\ active.payload # 0
                 THEN [active EXCEPT !.trans = Append(@, [write |-> write, at |-> at, bytes |-> bytes])]
                 ELSE active
    /\ UNCHANGED <<os, queued, want, threw>>
Want(s) ==
    /\ i(s).k = "want"
    /\ want' = [want EXCEPT ![s] = Written(@, i(s).at, i(s).bytes)]
    /\ Host(s, Goes(s, <<>>)) /\ UNCHANGED <<os, active, queued, threw>>
Wrote(s) ==
    i(s).k = "tap" /\ Record(s, TRUE, i(s).at, i(s).bytes) /\ Host(s, Goes(s, <<>>))
Heard(s) ==
    /\ i(s).k = "heard"
    /\ Record(s, FALSE, i(s).at, Slice(host[s].buf, i(s).at, i(s).n))
    /\ Host(s, Goes(s, <<>>))

(* A command. A system call whose payload is odd ends the program; the     *)
(* console's putchar has no reply; the mirror replays the calls.           *)
Dispatched(c, n) ==
    ReadMem(c.magic, MagicLen)
    \o (IF c.fn = "chdir" THEN <<[k |-> "string", c |-> n, at |-> c.name]>>
        ELSE FlattenSeq([j \in DOMAIN Inputs(c) |-> ReadMem(Inputs(c)[j][1], Inputs(c)[j][2])]))
    \o <<Do("os", n)>>
Serve(s) ==
    LET n == i(s).c
        c == program[n]
        main == s = "isa"
    IN  /\ i(s).k = "command" /\ (main \/ c.fn \notin Fn \cup {"pass"})
        /\ IF c.fn = "putchar" THEN Host(s, Goes(s, <<Do("tick", 0)>>)) /\ UNCHANGED active
           ELSE /\ active' = [Idle EXCEPT !.payload = n]
                /\ IF c.fn = "pass"
                   THEN Host(s, [Goes(s, <<Do("respond", n)>>) EXCEPT !.exit = 1])
                   ELSE Host(s, Goes(s, Dispatched(c, n) \o <<Do("respond", n)>>))
        /\ UNCHANGED <<os, queued, want, threw>>
(* The mirror's queue must have the call, and be about the same one: an    *)
(* assertion, and two exceptions. Each of them ends the simulation.        *)
Stops(why) == threw' = why /\ UNCHANGED <<host, queued, program, tgt, turn, lag, trace>>
Replay(s) ==
    LET n == i(s).c
        seq == Head(queued)
        Again(t) == IF t.write THEN WriteMem(t.at, t.bytes)
                    ELSE Read(t.at, Len(t.bytes)) \o <<[k |-> "expect", at |-> t.at, bytes |-> t.bytes]>>
    IN  /\ i(s).k = "command" /\ s = "micro" /\ program[n].fn \in Fn \cup {"pass"}
        /\ CASE queued = <<>> -> Stops("late")
             [] queued # <<>> /\ seq.payload # n -> Stops("differs")
             [] OTHER ->
                  /\ Host(s, Goes(s, FlattenSeq([j \in DOMAIN seq.trans |-> Again(seq.trans[j])])
                                     \o <<Do("replayed", seq.exit)>>))
                  /\ queued' = Tail(queued) /\ UNCHANGED threw
        /\ UNCHANGED <<os, active, want>>
Expect(s) ==
    /\ i(s).k = "expect"
    /\ IF Slice(host[s].buf, i(s).at, Len(i(s).bytes)) = i(s).bytes
       THEN Host(s, Goes(s, <<>>)) /\ UNCHANGED <<queued, threw>>
       ELSE Stops("differs")
    /\ UNCHANGED <<os, active, want>>
Replayed(s) ==
    /\ i(s).k = "replayed"
    /\ Host(s, [Goes(s, <<Do("tick", 0)>>) EXCEPT !.exit = i(s).c, !.queue = Append(@, 1)])
    /\ Quiet

(* sys_chdir reads its path byte by byte, up to the end of the string. *)
Path(s) ==
    LET c == program[i(s).c]
        at == i(s).at
        more == at < c.name + c.size /\ (at = c.name \/ host[s].buf[at - 1] # 0)
    IN  /\ i(s).k = "string"
        /\ Host(s, Goes(s, IF more THEN ReadMem(at, 1) \o <<[i(s) EXCEPT !.at = at + 1]>> ELSE <<>>))
        /\ Quiet
(* The call itself; its result goes to magicmem. *)
Call(s) ==
    LET n == i(s).c
        c == program[n]
    IN  /\ i(s).k = "os"
        /\ \E r \in Outcomes(c, os) :
            /\ os' = r.os
            /\ LET h == Goes(s, (IF r.bytes = <<>> THEN <<>> ELSE WriteMem(c.buf, r.bytes))
                               \o WriteMem(c.magic, <<r.ret>> \o Slice(host[s].buf, c.magic + 1, MagicLen - 1)))
               IN  Host(s, IF c.fn = "exit" THEN [h EXCEPT !.exit = 1] ELSE h)
        /\ UNCHANGED <<active, queued, want, threw>>

(* The reply: the main host also hands the recorded sequence to the mirror. *)
(* Seeded fault: the mirror is not told of the program's end. *)
Sequence_NoExit(h) == active
Sequence(h) == [active EXCEPT !.exit = h.exit]
Respond(s) ==
    /\ i(s).k = "respond"
    /\ Host(s, [Goes(s, <<Do("tick", 0)>>) EXCEPT !.queue = Append(@, 1)])
    /\ queued' = Append(queued, Sequence(host[s])) /\ active' = Idle
    /\ UNCHANGED <<os, want, threw>>

(* htif_t::run: the reply in front of the queue is offered until it is     *)
(* taken; then the next command, or the end.                               *)
Offer(s) ==
    /\ i(s).k = "tick"
    /\ Host(s, Goes(s, (IF host[s].queue = <<>> THEN <<>> ELSE <<Cr("fromhost", Head(host[s].queue))>>)
                       \o <<Do("next", 0)>>))
    /\ Quiet
Pop(s) ==
    /\ i(s).k = "pop"
    /\ Host(s, [Goes(s, <<>>) EXCEPT !.queue = Tail(@)]) /\ Quiet
Loop(s) ==
    /\ i(s).k = "next"
    /\ Host(s, Goes(s, IF host[s].exit = 0 THEN <<Cr("tohost", 0)>>
                       ELSE <<Cr("count", 0), Cr("reset", 1)>>))
    /\ Quiet

HostStep(s) == \/ Want(s) \/ Wrote(s) \/ Heard(s) \/ Serve(s) \/ Replay(s) \/ Expect(s) \/ Replayed(s)
               \/ Path(s) \/ Call(s) \/ Respond(s) \/ Offer(s) \/ Pop(s) \/ Loop(s)
Packet(s) == ReadChunk(s) \/ WriteChunk(s) \/ ControlRegister(s)

Next == /\ threw = "no"
        /\ \/ IsaTurn \/ MicroTurn
           \/ turn # "none" /\ (HostStep(turn) \/ Packet(turn))
Spec == Init /\ [][Next]_vars
-----------------------------------------------------------------------------
(* The mirror finds the system call that its program makes, made by the    *)
(* same program with the same memory, and when it has caught up both       *)
(* targets and their hosts are in the same state: a call happened once and *)
(* had its effect twice (syscall_mirror_t::syscall_handler_mirror). But it *)
(* finds a call only when that is over, and a call takes a turn per packet *)
(* of at most chunk_max_size() bytes. The calls that take less than the    *)
(* pipeline's lag are there, and exactly the others are not: the mirror    *)
(* asks for them while the main host is still at them, after all of the    *)
(* lag (the assertion on cores_queued_service_seq).                        *)
Caught == turn = "none" /\ trace = <<>> /\ ~tgt["micro"].reset
Unfinished == i("micro").c = active.payload /\ active.packets >= lag
MirrorsAgree ==
    /\ threw # "differs"
    /\ threw = "late" => Unfinished
    /\ \A j \in DOMAIN queued : queued[j].packets < lag
    /\ Caught => /\ tgt["isa"] = tgt["micro"] /\ queued = <<>>
                 /\ host["isa"].queue = host["micro"].queue
                 /\ host["isa"].exit = host["micro"].exit

(* A host's accesses, whatever their alignment and length, write the bytes *)
(* they are asked to write and no other, though each of their packets is   *)
(* a chunk (memif_t::write); and they return what is in memory.            *)
MemoryExact ==
    \A s \in Side :
        /\ (\A j \in DOMAIN todo(s) : todo(s)[j].k # "wc") => tgt[s].mem = want[s]
        /\ todo(s) # <<>> /\ i(s).k \in {"heard", "expect"} =>
            LET n == IF i(s).k = "heard" THEN i(s).n ELSE Len(i(s).bytes)
            IN  Slice(host[s].buf, i(s).at, n) = Slice(tgt[s].mem, i(s).at, n)

(* The program's open descriptors name the host's open files, one each     *)
(* (fds_t): no file is lost and none is reached by two descriptors.        *)
DescriptorsExact ==
    LET live == {f \in DOMAIN os.fds : os.fds[f] # Closed}
    IN  /\ {os.fds[f] : f \in live} = os.open
        /\ \A f, g \in live : os.fds[f] = os.fds[g] => f = g
=============================================================================
