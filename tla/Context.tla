------------------------------- MODULE Context -------------------------------
(***************************************************************************)
(* The coroutines of the target and its host (fesvr/context.cc), where     *)
(* there is no ucontext: each is a thread of its own, and switch_to hands  *)
(* control over through flags, mutexes and condition variables. The flags  *)
(* are set before the mutex is taken, and waiting threads may wake up for  *)
(* no reason; still only one of the two may run, and no wakeup is lost.    *)
(***************************************************************************)
EXTENDS Naturals

Context == {"target", "host"}
Other(c) == IF c = "target" THEN "host" ELSE "target"

VARIABLES
    flag,   \* context_t's flag
    mutex,  \* who holds each context's mutex, or "none"
    pc      \* what each thread does next

vars == <<flag, mutex, pc>>

(* A thread runs, or is in switch_to: sets the other's flag, locks its     *)
(* mutex, signals, unlocks, locks its own mutex, checks its own flag,      *)
(* sleeps, or unlocks and runs.                                            *)
Step == {"create", "unborn", "run", "set", "lock", "signal", "unlock", "own", "check", "sleep", "leave"}

(* context_t::init: the target holds its mutex, clears its flag, creates   *)
(* the host's thread and waits; that thread begins with a switch back.     *)
Init ==
    /\ flag = [c \in Context |-> 0]
    /\ mutex = [c \in Context |-> IF c = "target" THEN "target" ELSE "none"]
    /\ pc = [c \in Context |-> IF c = "target" THEN "create" ELSE "unborn"]

Goto(c, step) == pc' = [pc EXCEPT ![c] = step]

Create ==
    /\ pc["target"] = "create" /\ pc["host"] = "unborn"
    /\ pc' = [pc EXCEPT !["target"] = "check", !["host"] = "set"]
    /\ UNCHANGED <<flag, mutex>>
(* switch_to, from here on. Seeded fault: the other one is let go first. *)
Switch_SetFirst(c) ==
    /\ pc[c] = "run" /\ Goto(c, "set")
    /\ UNCHANGED <<flag, mutex>>
Switch(c) ==
    /\ pc[c] = "run" /\ Goto(c, "set")
    /\ flag' = [flag EXCEPT ![c] = 0] /\ UNCHANGED mutex
Set(c) ==
    /\ pc[c] = "set" /\ Goto(c, "lock")
    /\ flag' = [flag EXCEPT ![Other(c)] = 1] /\ UNCHANGED mutex
Lock(c) ==
    /\ pc[c] = "lock" /\ mutex[Other(c)] = "none" /\ Goto(c, "signal")
    /\ mutex' = [mutex EXCEPT ![Other(c)] = c] /\ UNCHANGED flag
(* The signal wakes the other one if it sleeps; it then needs its mutex.   *)
Signal(c) ==
    /\ pc[c] = "signal"
    /\ pc' = [pc EXCEPT ![c] = "unlock",
                        ![Other(c)] = IF @ = "sleep" THEN "own" ELSE @]
    /\ UNCHANGED <<flag, mutex>>
Unlock(c) ==
    /\ pc[c] = "unlock" /\ Goto(c, "own")
    /\ mutex' = [mutex EXCEPT ![Other(c)] = "none"] /\ UNCHANGED flag
Own(c) ==
    /\ pc[c] = "own" /\ mutex[c] = "none" /\ Goto(c, "check")
    /\ mutex' = [mutex EXCEPT ![c] = c] /\ UNCHANGED flag
Check(c) ==
    /\ pc[c] = "check"
    /\ IF flag[c] = 1 THEN Goto(c, "leave") /\ UNCHANGED mutex
       ELSE Goto(c, "sleep") /\ mutex' = [mutex EXCEPT ![c] = "none"]
    /\ UNCHANGED flag
Spurious(c) ==
    /\ pc[c] = "sleep" /\ Goto(c, "own") /\ UNCHANGED <<flag, mutex>>
Leave(c) ==
    /\ pc[c] = "leave" /\ Goto(c, "run")
    /\ mutex' = [mutex EXCEPT ![c] = "none"] /\ UNCHANGED flag

Thread(c) == \/ Switch(c) \/ Set(c) \/ Lock(c) \/ Signal(c) \/ Unlock(c)
             \/ Own(c) \/ Check(c) \/ Spurious(c) \/ Leave(c)
Next == Create \/ \E c \in Context : Thread(c)
Spec == Init /\ [][Next]_vars
-----------------------------------------------------------------------------
TypeOK ==
    /\ flag \in [Context -> {0, 1}]
    /\ mutex \in [Context -> Context \cup {"none"}]
    /\ pc \in [Context -> Step]

(* Only one of the two runs: the target and the host share their queues    *)
(* and the simulator's state without any other lock (htif_pthread.cc).     *)
Exclusive == ~(pc["target"] = "run" /\ pc["host"] = "run")

(* A thread that sleeps though it has been let go is about to be signalled, *)
(* so no hand-over is lost between the flag and the condition variable.    *)
NoneLost == \A c \in Context :
    pc[c] = "sleep" /\ flag[c] = 1 => pc[Other(c)] \in {"lock", "signal"}

HandOver == Exclusive /\ NoneLost

(* Control is one token: a flag, or a thread about to set the other's, or  *)
(* the creation of the host's thread.                                      *)
Held(c) == flag[c] = 1 \/ pc[c] = "set"
Token ==
    /\ \A c \in Context : ~(Held(c) /\ Held(Other(c)))
    /\ \A c \in Context : /\ pc[c] \in {"run", "leave"} => flag[c] = 1
                          /\ pc[c] = "set" => flag[c] = 0
                          /\ pc[c] \in {"create", "unborn"} => flag["target"] = 0 /\ flag["host"] = 0
    /\ pc["target"] = "create" <=> pc["host"] = "unborn"
    /\ pc["target"] # "unborn" /\ pc["host"] # "create"
Mutexes ==
    \A c \in Context :
        /\ mutex[c] = c <=> pc[c] \in {"create", "check", "leave"}
        /\ mutex[c] = Other(c) <=> pc[Other(c)] \in {"signal", "unlock"}
IInv == TypeOK /\ Token /\ Mutexes /\ NoneLost
=============================================================================
