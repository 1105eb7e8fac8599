------------------------------- MODULE Syscalls -------------------------------
(***************************************************************************)
(* The system calls the host proxies for a program (fesvr/syscall.cc), as  *)
(* pure operators: which of the program's memory a call reads, what the    *)
(* host's operating system may answer, what is written back, and the table *)
(* of file descriptors (fds_t). The operating system itself is external: a *)
(* file of which pos bytes have been read, and its set of open files.      *)
(***************************************************************************)
EXTENDS Integers, SequencesExt

CONSTANTS
    MagicLen,  \* bytes of magicmem: the call's number, then its result
    StatLen    \* sizeof(riscv_stat)

(* The entries of the table that behave alike. *)
StatCall   == {"fstat", "lstat", "fstatat"}
OneName    == {"lstat", "openat", "fstatat", "faccessat", "unlinkat", "mkdirat", "readlinkat"}
TwoNames   == {"linkat", "renameat2"}
InBuffer   == {"write", "pwrite"}
OutBuffer  == {"read", "pread", "getdents64", "getrandom"}
WholeAnswer == {"getcwd", "getmainvars"}
Plain      == {"lseek", "fcntl", "ftruncate"}
Fn == StatCall \cup OneName \cup TwoNames \cup InBuffer \cup OutBuffer \cup WholeAnswer
        \cup Plain \cup {"exit", "close", "chdir"}
Failed == -2      \* -errno
Eperm  == -1      \* -EPERM, which the callers take for the value -1
Closed == -1

(* A call: its number, where the names are, the buffer, and a descriptor.  *)
(* What it reads of memory before it runs, as <<address, length>>.         *)
Inputs(c) ==
    IF c.fn \in TwoNames THEN << <<c.name, c.size>>, <<c.name2, c.size>> >>
    ELSE IF c.fn \in OneName THEN << <<c.name, c.size>> >>
    ELSE IF c.fn \in InBuffer THEN << <<c.buf, c.len>> >>
    ELSE <<>>

(* fds_t: the lowest free descriptor of the program, the file behind one.  *)
alloc(fds, file) ==
    LET free == {i \in DOMAIN fds : fds[i] = Closed}
    IN  IF free = {} THEN Append(fds, file)
        ELSE [fds EXCEPT ![CHOOSE i \in free : \A j \in free : i <= j] = file]
dealloc(fds, fd) == [fds EXCEPT ![fd] = Closed]
lookup(fds, fd) == IF fd \in DOMAIN fds THEN fds[fd] ELSE Closed

(* What a call may give: its result, the bytes written to its buffer, and  *)
(* the state of the operating system and of the table after it.            *)
Answer(ret, bytes, o) == [ret |-> ret, bytes |-> bytes, os |-> o]
Failure(o) == Answer(Failed, <<>>, o)
File(from, n) == [i \in 1..n |-> 1 + ((from + i) % 3)]

Reading(c, o) ==
    LET n == IF c.fn \in {"read", "getdents64"} THEN c.len ELSE 0
    IN  {Answer(c.len, File(o.pos, c.len), [o EXCEPT !.pos = (o.pos + n) % 3])}
        \cup (IF c.fn = "getrandom" THEN {} ELSE {Failure(o), Answer(0, <<>>, o)})

(* The test ret != -1 lets a failure through, since sysret_errno has made  *)
(* it -errno: what was on the stack is written to the program's buffer.    *)
Stat(c, o) ==
    {Answer(0, File(o.pos, StatLen), o), Answer(Eperm, <<>>, o)}
    \cup {Answer(Failed, [i \in 1..StatLen |-> garbage], o) : garbage \in {4, 5}}

Opening(o) ==
    LET file == CHOOSE f \in 0..Len(o.fds) : f \notin o.open
        fds  == alloc(o.fds, file)
    IN  {Failure(o), Answer(CHOOSE i \in DOMAIN fds : fds[i] = file, <<>>,
                            [o EXCEPT !.open = @ \cup {file}, !.fds = fds])}
Closing(c, o) ==
    LET file == lookup(o.fds, c.fd)
    IN  IF file \notin o.open THEN {Failure(o)}
        ELSE {Answer(0, <<>>, [o EXCEPT !.open = @ \ {file}, !.fds = dealloc(o.fds, c.fd)])}

(* getcwd and getmainvars answer all or nothing. readlinkat fills the      *)
(* buffer also with a target that does not fit, and calls that a failure.  *)
Whole(c, o) == {Answer(0, File(0, c.len), o), Failure(o)}
Link(c, o)  == {Failure(o), Answer(Failed, File(0, c.len), o)}
               \cup {Answer(n, File(0, n), o) : n \in {1, c.len}}

Outcomes(c, o) ==
    CASE c.fn \in OutBuffer   -> Reading(c, o)
      [] c.fn \in StatCall    -> Stat(c, o)
      [] c.fn \in WholeAnswer -> Whole(c, o)
      [] c.fn = "readlinkat"  -> Link(c, o)
      [] c.fn = "openat"      -> Opening(o)
      [] c.fn = "close"       -> Closing(c, o)
      [] c.fn = "exit"        -> {Answer(0, <<>>, o)}
      [] OTHER                -> {Answer(0, <<>>, o), Failure(o)}

(* stdin and twice stdout *)
Booted == [pos |-> 0, open |-> {0, 1, 2}, fds |-> <<0, 1, 2>>]
=============================================================================
