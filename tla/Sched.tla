--------------------------------- MODULE Sched ---------------------------------
(***************************************************************************)
(* The hand-over of CPUs in kernel/proc.c: scheduler(), sched(), yield(),  *)
(* forkret(), sleep() and wakeup(), with the interrupt state that goes     *)
(* with it (push_off() and pop_off() keep it per CPU, but it belongs to    *)
(* the kernel thread).  Threads wait for a condition protected by a lock,  *)
(* as the callers of sleep() do, and device interrupts make it true; the   *)
(* timer interrupts threads wherever interrupts are on.                    *)
(*                                                                         *)
(* acquire() and release() are single steps here; SpinLock has their       *)
(* details.  A lock is held by a CPU, since it passes from thread to       *)
(* scheduler and back in swtch().                                          *)
(***************************************************************************)
EXTENDS Naturals

CONSTANTS Proc, CPU, NULL

ASSUME SchedAssumption == NULL \notin Proc /\ NULL \notin CPU

VARIABLES
  state, chan,     \* of each process: p->state, p->chan (TRUE: on the channel)
  plock,           \* of each process: the CPU that holds p->lock, or NULL
  lk,              \* the CPU that holds the lock of the condition, or NULL
  cond,            \* the condition
  proc, noff, intena,  \* struct cpu
  sie,             \* the interrupt enable bit of each CPU
  on,              \* what each CPU runs: "scan" and "back" in scheduler(), a
                   \* "thread", or an interrupt handler, "intr"
  pick,            \* the local variable p of scheduler()
  pc, ret,         \* where each thread is, and where yield() returns to
  saved,           \* the local variable intena of sched()
  todo             \* of each CPU: the processes its wakeup() has still to look at

cpus == <<proc, noff, intena, sie, on, pick>>
threads == <<state, chan, plock, pc, ret, saved, todo>>
vars == <<state, chan, plock, lk, cond, proc, noff, intena, sie, on, pick, pc, ret, saved, todo>>

PC == {"forkret", "user", "kernel", "yield", "sched_yield", "yielded", "trapret",
       "check", "sleep", "sleep_set", "sched_sleep", "slept", "reacquire"}

(* Thread p runs on CPU c and is at l. *)
at(c, p, l) == on[c] = "thread" /\ proc[c] = p /\ pc[p] = l
goto(p, l) == pc' = [pc EXCEPT ![p] = l]

(* After userinit() and fork(): threads that have not run yet. *)
Init ==
  /\ state = [p \in Proc |-> "RUNNABLE"]
  /\ chan = [p \in Proc |-> FALSE]
  /\ plock = [p \in Proc |-> NULL]
  /\ lk = NULL
  /\ cond = FALSE
  /\ proc = [c \in CPU |-> NULL]
  /\ noff = [c \in CPU |-> 0]
  /\ intena = [c \in CPU |-> FALSE]
  /\ sie = [c \in CPU |-> FALSE]
  /\ on = [c \in CPU |-> "scan"]
  /\ pick = [c \in CPU |-> NULL]
  /\ pc = [p \in Proc |-> "forkret"]
  /\ ret = [p \in Proc |-> NULL]
  /\ saved = [p \in Proc |-> FALSE]
  /\ todo = [c \in CPU |-> {}]

(* push_off() and pop_off() of the acquire() and release() on CPU c; *)
push_off(c) ==
  /\ noff' = [noff EXCEPT ![c] = @ + 1]
  /\ intena' = [intena EXCEPT ![c] = IF noff[c] = 0 THEN sie[c] ELSE @]
  /\ sie' = [sie EXCEPT ![c] = FALSE]

(* e is what sched() has made of intena. *)
pop_off(c, e) ==
  /\ noff' = [noff EXCEPT ![c] = @ - 1]
  /\ intena' = [intena EXCEPT ![c] = e]
  /\ sie' = [sie EXCEPT ![c] = noff[c] = 1 /\ e]

(***************************************************************************)
(* scheduler()                                                             *)
(***************************************************************************)

(* intr_on() at the top of the loop and before wfi.  (Mutant: none.) *)
intr_stays(c) == sie
intr_on(c) == [sie EXCEPT ![c] = TRUE]

scheduler_loop(c) ==
  /\ on[c] = "scan" /\ ~sie[c]
  /\ sie' = intr_on(c)
  /\ UNCHANGED <<threads, lk, cond, proc, noff, intena, on, pick>>

(* It acquires p->lock, finds p RUNNABLE and switches to it.               *)
acquire(p) == plock[p] = NULL

scheduler_run(c, p) ==
  /\ on[c] = "scan"
  /\ acquire(p) /\ state[p] = "RUNNABLE"
  /\ plock' = [plock EXCEPT ![p] = c]
  /\ push_off(c)
  /\ state' = [state EXCEPT ![p] = "RUNNING"]
  /\ proc' = [proc EXCEPT ![c] = p]
  /\ pick' = [pick EXCEPT ![c] = p]
  /\ on' = [on EXCEPT ![c] = "thread"]
  /\ UNCHANGED <<chan, lk, cond, pc, ret, saved, todo>>

(* A thread has switched back: c->proc = 0; release(&p->lock). *)
scheduler_back(c) ==
  /\ on[c] = "back"
  /\ proc' = [proc EXCEPT ![c] = NULL]
  /\ plock' = [plock EXCEPT ![pick[c]] = NULL]
  /\ pop_off(c, intena[c])
  /\ pick' = [pick EXCEPT ![c] = NULL]
  /\ on' = [on EXCEPT ![c] = "scan"]
  /\ UNCHANGED <<state, chan, lk, cond, pc, ret, saved, todo>>

(***************************************************************************)
(* A new thread starts in forkret(): release(&p->lock), usertrapret().     *)
(***************************************************************************)
forkret(c, p) ==
  /\ at(c, p, "forkret")
  /\ plock' = [plock EXCEPT ![p] = NULL]
  /\ noff' = [noff EXCEPT ![c] = @ - 1]
  /\ sie' = [sie EXCEPT ![c] = TRUE]
  /\ goto(p, "user")
  /\ UNCHANGED <<state, chan, lk, cond, proc, intena, on, pick, ret, saved, todo>>

(* A system call: usertrap() turns interrupts on.  Its return to user     *)
(* space ends with them on too.                                            *)
syscall(c, p) ==
  /\ at(c, p, "user")
  /\ goto(p, "kernel")
  /\ UNCHANGED <<state, chan, plock, lk, cond, cpus, ret, saved, todo>>

usertrapret(c, p) ==
  /\ at(c, p, "kernel")
  /\ goto(p, "user")
  /\ UNCHANGED <<state, chan, plock, lk, cond, cpus, ret, saved, todo>>

(* A timer interrupt, in usertrap() or kerneltrap(): on to yield() with    *)
(* interrupts off.                                                         *)
timer(c, p) ==
  /\ \E l \in {"user", "kernel", "reacquire"} : at(c, p, l)
  /\ sie[c]
  /\ sie' = [sie EXCEPT ![c] = FALSE]
  /\ ret' = [ret EXCEPT ![p] = pc[p]]
  /\ goto(p, "yield")
  /\ UNCHANGED <<state, chan, plock, lk, cond, proc, noff, intena, on, pick, saved, todo>>

(* yield(): acquire(&p->lock); p->state = RUNNABLE. *)
yield(c, p) ==
  /\ at(c, p, "yield") /\ acquire(p)
  /\ plock' = [plock EXCEPT ![p] = c]
  /\ push_off(c)
  /\ state' = [state EXCEPT ![p] = "RUNNABLE"]
  /\ goto(p, "sched_yield")
  /\ UNCHANGED <<chan, lk, cond, proc, on, pick, ret, saved, todo>>

(* sched(): intena is saved, and swtch() to the scheduler. *)
sched(c, p) ==
  /\ at(c, p, "sched_yield") \/ at(c, p, "sched_sleep")
  /\ saved' = [saved EXCEPT ![p] = intena[c]]
  /\ on' = [on EXCEPT ![c] = "back"]
  /\ goto(p, IF pc[p] = "sched_yield" THEN "yielded" ELSE "slept")
  /\ UNCHANGED <<state, chan, plock, lk, cond, proc, noff, intena, sie, pick, ret, todo>>

(* The end of sched(), on whatever CPU the thread now has: intena is       *)
(* restored.  (Mutant: it is not.)                                         *)
intena_of_cpu(c, p) == intena[c]
restored(c, p) == saved[p]

(* yield() returns: release(&p->lock); *)
yielded(c, p) ==
  /\ at(c, p, "yielded")
  /\ plock' = [plock EXCEPT ![p] = NULL]
  /\ pop_off(c, restored(c, p))
  /\ saved' = [saved EXCEPT ![p] = FALSE]
  /\ goto(p, "trapret")
  /\ UNCHANGED <<state, chan, lk, cond, proc, on, pick, ret, todo>>

(* the trap returns, and sret turns interrupts on again. *)
trapret(c, p) ==
  /\ at(c, p, "trapret")
  /\ sie' = [sie EXCEPT ![c] = TRUE]
  /\ goto(p, ret[p])
  /\ ret' = [ret EXCEPT ![p] = NULL]
  /\ UNCHANGED <<state, chan, plock, lk, cond, proc, noff, intena, on, pick, saved, todo>>

(***************************************************************************)
(* acquire(lk); while(!cond) sleep(chan, lk); cond = 0; release(lk);       *)
(***************************************************************************)
wait(c, p) ==
  /\ at(c, p, "kernel") \/ at(c, p, "reacquire")
  /\ lk = NULL /\ lk' = c
  /\ push_off(c)
  /\ goto(p, "check")
  /\ UNCHANGED <<state, chan, plock, cond, proc, on, pick, ret, saved, todo>>

proceed(c, p) ==
  /\ at(c, p, "check") /\ cond
  /\ cond' = FALSE
  /\ lk' = NULL
  /\ pop_off(c, intena[c])
  /\ goto(p, "kernel")
  /\ UNCHANGED <<state, chan, plock, proc, on, pick, ret, saved, todo>>

(* sleep(): acquire(&p->lock), *)
sleep(c, p) ==
  /\ at(c, p, "check") /\ ~cond /\ acquire(p)
  /\ plock' = [plock EXCEPT ![p] = c]
  /\ push_off(c)
  /\ goto(p, "sleep")
  /\ UNCHANGED <<state, chan, lk, cond, proc, on, pick, ret, saved, todo>>

(* release(lk), *)
sleep_release(c, p) ==
  /\ at(c, p, "sleep")
  /\ lk' = NULL
  /\ pop_off(c, intena[c])
  /\ goto(p, "sleep_set")
  /\ UNCHANGED <<state, chan, plock, cond, proc, on, pick, ret, saved, todo>>

(* p->chan = chan; p->state = SLEEPING; sched() follows, *)
sleep_set(c, p) ==
  /\ at(c, p, "sleep_set")
  /\ chan' = [chan EXCEPT ![p] = TRUE]
  /\ state' = [state EXCEPT ![p] = "SLEEPING"]
  /\ goto(p, "sched_sleep")
  /\ UNCHANGED <<plock, lk, cond, cpus, ret, saved, todo>>

(* and after it p->chan = 0; release(&p->lock); acquire(lk). *)
slept(c, p) ==
  /\ at(c, p, "slept")
  /\ chan' = [chan EXCEPT ![p] = FALSE]
  /\ plock' = [plock EXCEPT ![p] = NULL]
  /\ pop_off(c, restored(c, p))
  /\ saved' = [saved EXCEPT ![p] = FALSE]
  /\ goto(p, "reacquire")
  /\ UNCHANGED <<state, lk, cond, proc, on, pick, ret, todo>>

(***************************************************************************)
(* A device interrupt on CPU c, over a thread or the idle scheduler:       *)
(* acquire(lk); cond = 1; wakeup(chan); release(lk).                       *)
(***************************************************************************)
devintr(c) ==
  /\ on[c] \in {"scan", "thread"} /\ sie[c]
  /\ lk = NULL /\ lk' = c
  /\ cond' = TRUE
  /\ noff' = [noff EXCEPT ![c] = @ + 1]
  /\ intena' = [intena EXCEPT ![c] = FALSE]
  /\ sie' = [sie EXCEPT ![c] = FALSE]
  /\ on' = [on EXCEPT ![c] = "intr"]
  /\ todo' = [todo EXCEPT ![c] = Proc \ {proc[c]}]
  /\ UNCHANGED <<state, chan, plock, proc, pick, pc, ret, saved>>

(* One turn of wakeup()'s loop.  (Mutant: it looks without q->lock.) *)
looks_without_lock(q) == TRUE
wakeup_acquire(q) == plock[q] = NULL

wakeup(c, q) ==
  /\ q \in todo[c] /\ wakeup_acquire(q)
  /\ state' = [state EXCEPT ![q] = IF @ = "SLEEPING" /\ chan[q] THEN "RUNNABLE" ELSE @]
  /\ todo' = [todo EXCEPT ![c] = @ \ {q}]
  /\ UNCHANGED <<chan, plock, lk, cond, cpus, pc, ret, saved>>

devintr_return(c) ==
  /\ on[c] = "intr" /\ todo[c] = {}
  /\ lk' = NULL
  /\ noff' = [noff EXCEPT ![c] = @ - 1]
  /\ sie' = [sie EXCEPT ![c] = TRUE]
  /\ on' = [on EXCEPT ![c] = IF proc[c] = NULL THEN "scan" ELSE "thread"]
  /\ UNCHANGED <<state, chan, plock, cond, proc, intena, pick, pc, ret, saved, todo>>

(* The steps that follow of themselves. *)
thread_step(c, p) ==
  \/ forkret(c, p) \/ yield(c, p) \/ sched(c, p) \/ yielded(c, p) \/ trapret(c, p)
  \/ proceed(c, p) \/ sleep(c, p) \/ sleep_release(c, p) \/ sleep_set(c, p) \/ slept(c, p)

cpu_step(c) ==
  \/ scheduler_loop(c) \/ scheduler_back(c) \/ devintr_return(c)
  \/ \E p \in Proc : thread_step(c, p) \/ wakeup(c, p)

Next ==
  \E c \in CPU :
    \/ scheduler_loop(c)
    \/ scheduler_back(c)
    \/ devintr(c)
    \/ devintr_return(c)
    \/ \E p \in Proc :
         \/ scheduler_run(c, p)
         \/ forkret(c, p)
         \/ syscall(c, p)
         \/ usertrapret(c, p)
         \/ timer(c, p)
         \/ yield(c, p)
         \/ sched(c, p)
         \/ yielded(c, p)
         \/ trapret(c, p)
         \/ wait(c, p)
         \/ proceed(c, p)
         \/ sleep(c, p)
         \/ sleep_release(c, p)
         \/ sleep_set(c, p)
         \/ slept(c, p)
         \/ wakeup(c, p)

Spec == Init /\ [][Next]_vars

(* A CPU goes on with what it has begun, and a pending device interrupt is *)
(* taken by some CPU that keeps turning its interrupts on.                 *)
FairSpec ==
  /\ Spec
  /\ \A c \in CPU : WF_vars(cpu_step(c))
  /\ SF_vars(\E c \in CPU : devintr(c))
-------------------------------------------------------------------------------
TypeOK ==
  /\ state \in [Proc -> {"RUNNABLE", "RUNNING", "SLEEPING"}] /\ chan \in [Proc -> BOOLEAN]
  /\ plock \in [Proc -> CPU \cup {NULL}] /\ lk \in CPU \cup {NULL} /\ cond \in BOOLEAN
  /\ proc \in [CPU -> Proc \cup {NULL}] /\ pick \in [CPU -> Proc \cup {NULL}]
  /\ noff \in [CPU -> 0 .. 2] /\ intena \in [CPU -> BOOLEAN] /\ sie \in [CPU -> BOOLEAN]
  /\ on \in [CPU -> {"scan", "back", "thread", "intr"}] /\ todo \in [CPU -> SUBSET Proc]
  /\ pc \in [Proc -> PC] /\ ret \in [Proc -> PC \cup {NULL}] /\ saved \in [Proc -> BOOLEAN]

(* Where a thread has its p->lock, where it can be interrupted, and how    *)
(* many locks it holds.                                                    *)
Locked == {"forkret", "sched_yield", "sched_sleep", "yielded", "slept", "sleep", "sleep_set"}
Interruptible == {"user", "kernel", "reacquire"}
Depth(l) == IF l = "sleep" THEN 2 ELSE IF l \in Locked \cup {"check"} THEN 1 ELSE 0

(* What a CPU knows of itself: the process it runs, noff, its interrupt    *)
(* bit, intena (the thread's own setting, once sched() has restored it),   *)
(* and whether it holds the lock of the condition.                         *)
CpuOK(c) ==
  /\ on[c] = "scan" => proc[c] = NULL /\ noff[c] = 0
  /\ on[c] # "scan" /\ proc[c] # NULL => pick[c] = proc[c]
  /\ on[c] = "back" => proc[c] # NULL /\ pc[proc[c]] \in {"yielded", "slept"} /\ noff[c] = 1 /\ ~sie[c]
  /\ on[c] = "thread" =>
       /\ proc[c] # NULL /\ noff[c] = Depth(pc[proc[c]])
       /\ sie[c] <=> noff[c] = 0 /\ pc[proc[c]] \notin {"yield", "trapret"}
       /\ pc[proc[c]] \in {"check", "sleep", "sleep_set", "sched_sleep"} => intena[c]
       /\ pc[proc[c]] = "sched_yield" => ~intena[c]
  /\ on[c] = "intr" =>
       noff[c] = 1 /\ ~sie[c] /\ (proc[c] # NULL => pc[proc[c]] \in Interruptible)
  /\ todo[c] # {} => on[c] = "intr"
  /\ lk = c <=> on[c] = "intr" \/ (on[c] = "thread" /\ pc[proc[c]] \in {"check", "sleep"})

(* What holds of a thread: p->lock is with its CPU while it is in one of   *)
(* the places between acquire(&p->lock) and release(&p->lock); on a CPU it *)
(* is RUNNING but for these; off the CPUs it is where swtch() left it; and *)
(* what sched() and the trap have saved for its return.                    *)
ThreadOK(p) ==
  /\ \A c \in CPU : plock[p] = c <=> proc[c] = p /\ pc[p] \in Locked
  /\ \A c \in CPU : proc[c] = p =>
       (state[p] = "RUNNING" <=> on[c] # "back" /\ pc[p] \notin {"sched_yield", "sched_sleep"})
  /\ (\A c \in CPU : proc[c] # p) => state[p] # "RUNNING" /\ pc[p] \in {"forkret", "yielded", "slept"}
  /\ pc[p] = "slept" => saved[p]
  /\ pc[p] = "yielded" => ~saved[p]
  /\ pc[p] \in {"yield", "sched_yield", "yielded", "trapret"} => ret[p] \in Interruptible

(* The inductive invariant: a thread is on one CPU at most, and each CPU   *)
(* and each thread is in order.                                            *)
SchedInv ==
  /\ TypeOK
  /\ \A c, d \in CPU : (proc[c] # NULL /\ proc[c] = proc[d]) => c = d
  /\ \A c \in CPU : CpuOK(c)
  /\ \A p \in Proc : ThreadOK(p)

(* A thread, and with it its kernel stack, is on one CPU at a time, and    *)
(* exactly while it is RUNNING or its CPU holds its p->lock in sched():    *)
(* another scheduler() may find it RUNNABLE before it has switched away.   *)
OneCPUPerThread ==
  /\ \A c, d \in CPU : (proc[c] # NULL /\ proc[c] = proc[d]) => c = d
  /\ \A p \in Proc : state[p] = "RUNNING" => \E c \in CPU : proc[c] = p
  /\ \A c \in CPU : (proc[c] # NULL /\ state[proc[c]] # "RUNNING") => plock[proc[c]] = c

(* The four tests of sched() never panic: it is called with p->lock, with  *)
(* no other lock, not in state RUNNING and with interrupts off.            *)
SchedNeverPanics ==
  \A c \in CPU, p \in Proc : (at(c, p, "sched_yield") \/ at(c, p, "sched_sleep")) =>
    plock[p] = c /\ noff[c] = 1 /\ state[p] # "RUNNING" /\ ~sie[c]

(* "intena is a property of this kernel thread, not this CPU": outside all *)
(* locks a thread has the interrupt setting it had before it slept or      *)
(* yielded, whichever CPU it is on now and whoever ran there before.       *)
IntenaIsTheThreads ==
  \A c \in CPU, p \in Proc : (on[c] = "thread" /\ proc[c] = p /\ noff[c] = 0) =>
    sie[c] = (pc[p] \notin {"yield", "trapret"})

(* Threads move between CPUs without two of them sharing one, a panic in   *)
(* sched(), or one thread's interrupt setting left to another.             *)
ThreadsSafe == SchedInv /\ OneCPUPerThread /\ SchedNeverPanics /\ IntenaIsTheThreads

(* "Once we hold p->lock, we can be guaranteed that we won't miss any      *)
(* wakeup": when the condition holds, nobody sleeps or is in sleep() on    *)
(* the way to it, except while the wakeup() for it has still to look at    *)
(* that process, for which it needs p->lock.                               *)
Sleeping(p) == pc[p] = "sleep_set" \/ (state[p] = "SLEEPING" /\ chan[p])
NoMissedWakeup ==
  cond => \A p \in Proc :
    /\ pc[p] # "sleep"
    /\ Sleeping(p) => \E c \in CPU : on[c] = "intr" /\ p \in todo[c]

(* Every sleeper is woken in the end, also when all threads sleep and the  *)
(* last one left its CPU with interrupts off: scheduler() enables them "to *)
(* avoid a deadlock if all processes are waiting".                         *)
SleepersWake == \A p \in Proc : state[p] = "SLEEPING" ~> state[p] # "SLEEPING"
===============================================================================
