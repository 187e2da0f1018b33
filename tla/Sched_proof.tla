------------------------------ MODULE Sched_proof ------------------------------
(***************************************************************************)
(* Proof that SchedInv is an inductive invariant of Sched for any number   *)
(* of CPUs and threads, that the safety of threads follows from it, and    *)
(* that with it no wakeup is missed.                                       *)
(***************************************************************************)
EXTENDS Sched, TLAPS

(* intr_on() in scheduler(): only the interrupt bit of an idle CPU         *)
(* changes.                                                                *)
LEMMA SchedulerLoop ==
  ASSUME SchedInv, NEW c \in CPU, scheduler_loop(c)
  PROVE  SchedInv'
<1>1. TypeOK'
  BY SchedAssumption DEF scheduler_loop, intr_on, threads, SchedInv, TypeOK
<1>2. \A d, e \in CPU : (proc'[d] # NULL /\ proc'[d] = proc'[e]) => d = e
  BY DEF scheduler_loop, intr_on, threads, SchedInv
<1>3. ASSUME NEW d \in CPU PROVE CpuOK(d)'
  <2>1. CASE d = c
    BY <2>1, SchedAssumption DEF scheduler_loop, intr_on, threads, SchedInv, TypeOK, CpuOK, Locked,
       Interruptible, Depth
  <2>2. CASE d # c
    BY <2>2, SchedAssumption DEF scheduler_loop, intr_on, threads, SchedInv, TypeOK, CpuOK, Locked,
       Interruptible, Depth
  <2> QED BY <2>1, <2>2
<1>4. ASSUME NEW q \in Proc PROVE ThreadOK(q)'
  BY SchedAssumption DEF scheduler_loop, intr_on, threads, SchedInv, TypeOK, ThreadOK, Locked,
     Interruptible, Depth
<1> QED BY <1>1, <1>2, <1>3, <1>4 DEF SchedInv

(* The CPU lets go of the process that has switched back to it. *)
LEMMA SchedulerBack ==
  ASSUME SchedInv, NEW c \in CPU, scheduler_back(c)
  PROVE  SchedInv'
<1>1. TypeOK'
  BY SchedAssumption DEF scheduler_back, pop_off, SchedInv, TypeOK, CpuOK, Locked, Interruptible, Depth
<1>2. \A d, e \in CPU : (proc'[d] # NULL /\ proc'[d] = proc'[e]) => d = e
  BY SchedAssumption DEF scheduler_back, pop_off, SchedInv, TypeOK, CpuOK, ThreadOK, Locked
<1>3. ASSUME NEW d \in CPU PROVE CpuOK(d)'
  <2>1. CASE d = c
    BY <2>1, SchedAssumption DEF scheduler_back, pop_off, SchedInv, TypeOK, CpuOK, Locked, Interruptible,
       Depth
  <2>2. CASE d # c
    BY <2>2, SchedAssumption DEF scheduler_back, pop_off, SchedInv, TypeOK, CpuOK, Locked, Interruptible,
       Depth
  <2> QED BY <2>1, <2>2
<1>4. ASSUME NEW q \in Proc PROVE ThreadOK(q)'
  BY SchedAssumption DEF scheduler_back, pop_off, SchedInv, TypeOK, CpuOK, ThreadOK, Locked,
     Interruptible, Depth
<1> QED BY <1>1, <1>2, <1>3, <1>4 DEF SchedInv

(* A device interrupt: the interrupted thread, if any, holds no lock. *)
LEMMA Devintr ==
  ASSUME SchedInv, NEW c \in CPU, devintr(c)
  PROVE  SchedInv'
<1>1. TypeOK'
  BY SchedAssumption DEF devintr, SchedInv, TypeOK, CpuOK, Locked, Interruptible, Depth
<1>2. \A d, e \in CPU : (proc'[d] # NULL /\ proc'[d] = proc'[e]) => d = e
  BY DEF devintr, SchedInv
<1>3. ASSUME NEW d \in CPU PROVE CpuOK(d)'
  <2>1. CASE d = c
    BY <2>1, SchedAssumption DEF devintr, SchedInv, TypeOK, PC, CpuOK, Locked, Interruptible, Depth
  <2>2. CASE d # c
    BY <2>2, SchedAssumption DEF devintr, SchedInv, TypeOK, CpuOK, Locked, Interruptible, Depth
  <2> QED BY <2>1, <2>2
<1>4. ASSUME NEW q \in Proc PROVE ThreadOK(q)'
  BY SchedAssumption DEF devintr, SchedInv, TypeOK, ThreadOK, Locked, Interruptible, Depth
<1> QED BY <1>1, <1>2, <1>3, <1>4 DEF SchedInv

(* The handler releases the lock and returns to what it interrupted. *)
LEMMA DevintrReturn ==
  ASSUME SchedInv, NEW c \in CPU, devintr_return(c)
  PROVE  SchedInv'
<1>1. TypeOK'
  BY SchedAssumption DEF devintr_return, SchedInv, TypeOK, CpuOK, Locked, Interruptible, Depth
<1>2. \A d, e \in CPU : (proc'[d] # NULL /\ proc'[d] = proc'[e]) => d = e
  BY DEF devintr_return, SchedInv
<1>3. ASSUME NEW d \in CPU PROVE CpuOK(d)'
  <2>1. CASE d = c
    <3>1. noff'[c] = 0 /\ sie'[c] = TRUE /\ todo'[c] = {} /\ lk' # c
      BY SchedAssumption DEF devintr_return, SchedInv, TypeOK, CpuOK, Locked, Interruptible, Depth
    <3>2. CASE proc[c] = NULL
      BY <2>1, <3>1, <3>2, SchedAssumption DEF devintr_return, SchedInv, TypeOK, CpuOK, Locked,
         Interruptible, Depth
    <3>3. CASE proc[c] # NULL
      <4>1. proc[c] \in Proc /\ pc[proc[c]] \in Interruptible /\ pick[c] = proc[c] /\ on'[c] = "thread"
        BY <3>3, SchedAssumption DEF devintr_return, SchedInv, TypeOK, CpuOK, Locked, Interruptible,
           Depth
      <4> QED BY <2>1, <3>1, <4>1, SchedAssumption DEF devintr_return, CpuOK, Locked, Interruptible,
         Depth
    <3> QED BY <3>2, <3>3
  <2>2. CASE d # c
    BY <2>2, SchedAssumption DEF devintr_return, SchedInv, TypeOK, CpuOK, Locked, Interruptible, Depth
  <2> QED BY <2>1, <2>2
<1>4. ASSUME NEW q \in Proc PROVE ThreadOK(q)'
  BY SchedAssumption DEF devintr_return, SchedInv, TypeOK, ThreadOK, Locked, Interruptible, Depth
<1> QED BY <1>1, <1>2, <1>3, <1>4 DEF SchedInv

(* The first return of a thread to user space. *)
LEMMA Forkret ==
  ASSUME SchedInv, NEW c \in CPU, NEW p \in Proc, forkret(c, p)
  PROVE  SchedInv'
<1>1. TypeOK'
  BY SchedAssumption DEF forkret, goto, at, SchedInv, TypeOK, PC, CpuOK, Locked, Interruptible, Depth
<1>2. \A d, e \in CPU : (proc'[d] # NULL /\ proc'[d] = proc'[e]) => d = e
  BY DEF forkret, goto, at, SchedInv
<1>3. ASSUME NEW d \in CPU PROVE CpuOK(d)'
  <2>1. CASE d = c
    BY <2>1, SchedAssumption DEF forkret, goto, at, SchedInv, TypeOK, CpuOK, Locked, Interruptible, Depth
  <2>2. CASE d # c
    BY <2>2, SchedAssumption DEF forkret, goto, at, SchedInv, TypeOK, CpuOK, Locked, Interruptible, Depth
  <2> QED BY <2>1, <2>2
<1>4. ASSUME NEW q \in Proc PROVE ThreadOK(q)'
  <2>1. CASE q = p
    BY SMTT(30), <2>1, SchedAssumption DEF forkret, goto, at, SchedInv, TypeOK, ThreadOK, Locked,
       Interruptible, Depth
  <2>2. CASE q # p
    BY <2>2, SchedAssumption DEF forkret, goto, at, SchedInv, TypeOK, ThreadOK, Locked, Interruptible,
       Depth
  <2> QED BY <2>1, <2>2
<1> QED BY <1>1, <1>2, <1>3, <1>4 DEF SchedInv

(* A system call changes nothing but the place of the thread, ... *)
LEMMA Syscall ==
  ASSUME SchedInv, NEW c \in CPU, NEW p \in Proc, syscall(c, p)
  PROVE  SchedInv'
<1>1. TypeOK'
  BY SchedAssumption DEF syscall, goto, at, cpus, SchedInv, TypeOK, PC
<1>2. \A d, e \in CPU : (proc'[d] # NULL /\ proc'[d] = proc'[e]) => d = e
  BY DEF syscall, goto, at, cpus, SchedInv
<1>3. ASSUME NEW d \in CPU PROVE CpuOK(d)'
  <2>1. CASE d = c
    BY <2>1, SchedAssumption DEF syscall, goto, at, cpus, SchedInv, TypeOK, CpuOK, Locked, Interruptible,
       Depth
  <2>2. CASE d # c
    BY <2>2, SchedAssumption DEF syscall, goto, at, cpus, SchedInv, TypeOK, CpuOK, Locked, Interruptible,
       Depth
  <2> QED BY <2>1, <2>2
<1>4. ASSUME NEW q \in Proc PROVE ThreadOK(q)'
  <2>1. CASE q = p
    BY SMTT(30), <2>1, SchedAssumption DEF syscall, goto, at, cpus, SchedInv, TypeOK, ThreadOK, Locked,
       Interruptible, Depth
  <2>2. CASE q # p
    BY <2>2, SchedAssumption DEF syscall, goto, at, cpus, SchedInv, TypeOK, ThreadOK, Locked,
       Interruptible, Depth
  <2> QED BY <2>1, <2>2
<1> QED BY <1>1, <1>2, <1>3, <1>4 DEF SchedInv

(* ... and so does its return. *)
LEMMA Usertrapret ==
  ASSUME SchedInv, NEW c \in CPU, NEW p \in Proc, usertrapret(c, p)
  PROVE  SchedInv'
<1>1. TypeOK'
  BY SchedAssumption DEF usertrapret, goto, at, cpus, SchedInv, TypeOK, PC
<1>2. \A d, e \in CPU : (proc'[d] # NULL /\ proc'[d] = proc'[e]) => d = e
  BY DEF usertrapret, goto, at, cpus, SchedInv
<1>3. ASSUME NEW d \in CPU PROVE CpuOK(d)'
  <2>1. CASE d = c
    BY <2>1, SchedAssumption DEF usertrapret, goto, at, cpus, SchedInv, TypeOK, CpuOK, Locked,
       Interruptible, Depth
  <2>2. CASE d # c
    BY <2>2, SchedAssumption DEF usertrapret, goto, at, cpus, SchedInv, TypeOK, CpuOK, Locked,
       Interruptible, Depth
  <2> QED BY <2>1, <2>2
<1>4. ASSUME NEW q \in Proc PROVE ThreadOK(q)'
  <2>1. CASE q = p
    BY <2>1, SchedAssumption DEF usertrapret, goto, at, cpus, SchedInv, TypeOK, CpuOK, ThreadOK, Locked,
       Interruptible, Depth
  <2>2. CASE q # p
    BY <2>2, SchedAssumption DEF usertrapret, goto, at, cpus, SchedInv, TypeOK, ThreadOK, Locked,
       Interruptible, Depth
  <2> QED BY <2>1, <2>2
<1> QED BY <1>1, <1>2, <1>3, <1>4 DEF SchedInv

(* A timer interrupt turns interrupts off on the way to yield(). *)
LEMMA Timer ==
  ASSUME SchedInv, NEW c \in CPU, NEW p \in Proc, timer(c, p)
  PROVE  SchedInv'
<1>1. TypeOK'
  BY SchedAssumption DEF timer, goto, at, SchedInv, TypeOK, PC
<1>2. \A d, e \in CPU : (proc'[d] # NULL /\ proc'[d] = proc'[e]) => d = e
  BY DEF timer, goto, at, SchedInv
<1>3. ASSUME NEW d \in CPU PROVE CpuOK(d)'
  <2>1. CASE d = c
    BY <2>1, SchedAssumption DEF timer, goto, at, SchedInv, TypeOK, CpuOK, Locked, Interruptible, Depth
  <2>2. CASE d # c
    BY <2>2, SchedAssumption DEF timer, goto, at, SchedInv, TypeOK, CpuOK, Locked, Interruptible, Depth
  <2> QED BY <2>1, <2>2
<1>4. ASSUME NEW q \in Proc PROVE ThreadOK(q)'
  <2>1. CASE q = p
    BY SMTT(30), <2>1, SchedAssumption DEF timer, goto, at, SchedInv, TypeOK, ThreadOK, Locked,
       Interruptible, Depth
  <2>2. CASE q # p
    BY <2>2, SchedAssumption DEF timer, goto, at, SchedInv, TypeOK, ThreadOK, Locked, Interruptible,
       Depth
  <2> QED BY <2>1, <2>2
<1> QED BY <1>1, <1>2, <1>3, <1>4 DEF SchedInv

(* yield() takes p->lock with interrupts off: intena is FALSE. *)
LEMMA Yield ==
  ASSUME SchedInv, NEW c \in CPU, NEW p \in Proc, yield(c, p)
  PROVE  SchedInv'
<1>1. TypeOK'
  BY SchedAssumption DEF yield, goto, at, acquire, push_off, SchedInv, TypeOK, PC, CpuOK, Locked,
     Interruptible, Depth
<1>2. \A d, e \in CPU : (proc'[d] # NULL /\ proc'[d] = proc'[e]) => d = e
  BY SMTT(30), SchedAssumption DEF yield, goto, at, acquire, push_off, SchedInv, TypeOK, CpuOK, ThreadOK,
     Locked, Interruptible, Depth
<1>3. ASSUME NEW d \in CPU PROVE CpuOK(d)'
  <2>1. CASE d = c
    BY <2>1, SchedAssumption DEF yield, goto, at, acquire, push_off, SchedInv, TypeOK, CpuOK, Locked,
       Interruptible, Depth
  <2>2. CASE d # c
    BY <2>2, SchedAssumption DEF yield, goto, at, acquire, push_off, SchedInv, TypeOK, CpuOK, Locked,
       Interruptible, Depth
  <2> QED BY <2>1, <2>2
<1>4. ASSUME NEW q \in Proc PROVE ThreadOK(q)'
  <2>1. CASE q = p
    BY <2>1, SchedAssumption DEF yield, goto, at, acquire, push_off, SchedInv, TypeOK, ThreadOK, Locked,
       Interruptible, Depth
  <2>2. CASE q # p
    BY <2>2, SchedAssumption DEF yield, goto, at, acquire, push_off, SchedInv, TypeOK, ThreadOK, Locked,
       Interruptible, Depth
  <2> QED BY <2>1, <2>2
<1> QED BY <1>1, <1>2, <1>3, <1>4 DEF SchedInv

(* sched() saves intena and hands CPU and p->lock to the scheduler. *)
LEMMA Sched ==
  ASSUME SchedInv, NEW c \in CPU, NEW p \in Proc, sched(c, p)
  PROVE  SchedInv'
<1>1. TypeOK'
  BY SchedAssumption DEF sched, goto, at, SchedInv, TypeOK, PC
<1>2. \A d, e \in CPU : (proc'[d] # NULL /\ proc'[d] = proc'[e]) => d = e
  BY DEF sched, goto, at, SchedInv
<1>3. ASSUME NEW d \in CPU PROVE CpuOK(d)'
  <2>1. CASE d = c
    BY SMTT(30), <2>1, SchedAssumption DEF sched, goto, at, SchedInv, TypeOK, CpuOK, Locked,
       Interruptible, Depth
  <2>2. CASE d # c
    BY <2>2, SchedAssumption DEF sched, goto, at, SchedInv, TypeOK, CpuOK, Locked, Interruptible, Depth
  <2> QED BY <2>1, <2>2
<1>4. ASSUME NEW q \in Proc PROVE ThreadOK(q)'
  <2>1. CASE q = p
    BY <2>1, SchedAssumption DEF sched, goto, at, SchedInv, TypeOK, CpuOK, ThreadOK, Locked,
       Interruptible, Depth
  <2>2. CASE q # p
    BY <2>2, SchedAssumption DEF sched, goto, at, SchedInv, TypeOK, ThreadOK, Locked, Interruptible,
       Depth
  <2> QED BY <2>1, <2>2
<1> QED BY <1>1, <1>2, <1>3, <1>4 DEF SchedInv

(* yield() returns with the intena that sched() has saved. *)
LEMMA Yielded ==
  ASSUME SchedInv, NEW c \in CPU, NEW p \in Proc, yielded(c, p)
  PROVE  SchedInv'
<1>1. TypeOK'
  BY SchedAssumption DEF yielded, goto, at, pop_off, restored, SchedInv, TypeOK, PC, CpuOK, Locked,
     Interruptible, Depth
<1>2. \A d, e \in CPU : (proc'[d] # NULL /\ proc'[d] = proc'[e]) => d = e
  BY SMTT(30), SchedAssumption DEF yielded, goto, at, pop_off, restored, SchedInv, TypeOK, CpuOK,
     ThreadOK, Locked, Interruptible, Depth
<1>3. ASSUME NEW d \in CPU PROVE CpuOK(d)'
  <2>1. CASE d = c
    BY SMTT(30), <2>1, SchedAssumption DEF yielded, goto, at, pop_off, restored, SchedInv, TypeOK, CpuOK,
       ThreadOK, Locked, Interruptible, Depth
  <2>2. CASE d # c
    BY <2>2, SchedAssumption DEF yielded, goto, at, pop_off, restored, SchedInv, TypeOK, CpuOK, Locked,
       Interruptible, Depth
  <2> QED BY <2>1, <2>2
<1>4. ASSUME NEW q \in Proc PROVE ThreadOK(q)'
  <2>1. CASE q = p
    BY SMTT(30), <2>1, SchedAssumption DEF yielded, goto, at, pop_off, restored, SchedInv, TypeOK,
       ThreadOK, Locked, Interruptible, Depth
  <2>2. CASE q # p
    BY <2>2, SchedAssumption DEF yielded, goto, at, pop_off, restored, SchedInv, TypeOK, ThreadOK,
       Locked, Interruptible, Depth
  <2> QED BY <2>1, <2>2
<1> QED BY <1>1, <1>2, <1>3, <1>4 DEF SchedInv

(* The trap returns to where it came from, with interrupts on. *)
LEMMA Trapret ==
  ASSUME SchedInv, NEW c \in CPU, NEW p \in Proc, trapret(c, p)
  PROVE  SchedInv'
<1>1. TypeOK'
  BY SMTT(30), SchedAssumption DEF trapret, goto, at, SchedInv, TypeOK, PC, CpuOK, ThreadOK, Locked,
     Interruptible, Depth
<1>2. \A d, e \in CPU : (proc'[d] # NULL /\ proc'[d] = proc'[e]) => d = e
  BY SMTT(30) DEF trapret, goto, at, SchedInv
<1>3. ASSUME NEW d \in CPU PROVE CpuOK(d)'
  <2>1. CASE d = c
    <3>1. ret[p] \in Interruptible /\ pc'[p] = ret[p] /\ sie'[c] = TRUE
      BY SchedAssumption DEF trapret, goto, at, SchedInv, TypeOK, ThreadOK, Locked, Interruptible, Depth
    <3>2. noff[c] = 0 /\ pick[c] = p /\ todo[c] = {} /\ lk # c
      BY SMTT(30), SchedAssumption DEF trapret, goto, at, SchedInv, TypeOK, CpuOK, Locked, Interruptible,
         Depth
    <3> QED BY <2>1, <3>1, <3>2, SchedAssumption DEF trapret, goto, at, CpuOK, Locked, Interruptible,
       Depth
  <2>2. CASE d # c
    BY SMTT(30), <2>2, SchedAssumption DEF trapret, goto, at, SchedInv, TypeOK, CpuOK, Locked,
       Interruptible, Depth
  <2> QED BY <2>1, <2>2
<1>4. ASSUME NEW q \in Proc PROVE ThreadOK(q)'
  <2>1. CASE q = p
    BY <2>1, SchedAssumption DEF trapret, goto, at, SchedInv, TypeOK, PC, CpuOK, ThreadOK, Locked,
       Interruptible, Depth
  <2>2. CASE q # p
    BY SMTT(30), <2>2, SchedAssumption DEF trapret, goto, at, SchedInv, TypeOK, ThreadOK, Locked,
       Interruptible, Depth
  <2> QED BY <2>1, <2>2
<1> QED BY <1>1, <1>2, <1>3, <1>4 DEF SchedInv

(* A thread takes the lock of its condition with interrupts on. *)
LEMMA Wait ==
  ASSUME SchedInv, NEW c \in CPU, NEW p \in Proc, wait(c, p)
  PROVE  SchedInv'
<1>1. TypeOK'
  BY SMTT(30), SchedAssumption DEF wait, goto, at, push_off, SchedInv, TypeOK, PC, CpuOK, Locked,
     Interruptible, Depth
<1>2. \A d, e \in CPU : (proc'[d] # NULL /\ proc'[d] = proc'[e]) => d = e
  BY SMTT(30), SchedAssumption DEF wait, goto, at, push_off, SchedInv, TypeOK, CpuOK, ThreadOK, Locked,
     Interruptible, Depth
<1>3. ASSUME NEW d \in CPU PROVE CpuOK(d)'
  <2>1. CASE d = c
    BY <2>1, SchedAssumption DEF wait, goto, at, push_off, SchedInv, TypeOK, CpuOK, Locked,
       Interruptible, Depth
  <2>2. CASE d # c
    BY <2>2, SchedAssumption DEF wait, goto, at, push_off, SchedInv, TypeOK, CpuOK, Locked,
       Interruptible, Depth
  <2> QED BY <2>1, <2>2
<1>4. ASSUME NEW q \in Proc PROVE ThreadOK(q)'
  <2>1. CASE q = p
    BY SMTT(30), <2>1, SchedAssumption DEF wait, goto, at, push_off, SchedInv, TypeOK, ThreadOK, Locked,
       Interruptible, Depth
  <2>2. CASE q # p
    BY <2>2, SchedAssumption DEF wait, goto, at, push_off, SchedInv, TypeOK, ThreadOK, Locked,
       Interruptible, Depth
  <2> QED BY <2>1, <2>2
<1> QED BY <1>1, <1>2, <1>3, <1>4 DEF SchedInv

(* The condition holds: the thread releases its lock. *)
LEMMA Proceed ==
  ASSUME SchedInv, NEW c \in CPU, NEW p \in Proc, proceed(c, p)
  PROVE  SchedInv'
<1>1. TypeOK'
  <2>1. /\ at(c, p, "check") /\ cond' = FALSE /\ lk' = NULL /\ goto(p, "kernel")
        /\ noff' = [noff EXCEPT ![c] = @ - 1]
        /\ intena' = [intena EXCEPT ![c] = intena[c]]
        /\ sie' = [sie EXCEPT ![c] = noff[c] = 1 /\ intena[c]]
        /\ UNCHANGED <<state, chan, plock, proc, on, pick, ret, saved, todo>>
    BY Zenon DEF proceed, pop_off
  <2>2. noff[c] = 1 /\ noff'[c] = 0
    BY <2>1 DEF at, SchedInv, TypeOK, CpuOK, Locked, Depth
  <2>3. lk' \in CPU \cup {NULL} /\ pc' \in [Proc -> PC] /\ noff' \in [CPU -> 0 .. 2]
    BY <2>1, <2>2 DEF goto, SchedInv, TypeOK, PC
  <2>4. cond' \in BOOLEAN /\ intena' \in [CPU -> BOOLEAN] /\ sie' \in [CPU -> BOOLEAN]
    BY <2>1, Zenon DEF SchedInv, TypeOK
  <2> QED BY <2>1, <2>3, <2>4 DEF SchedInv, TypeOK
<1>2. \A d, e \in CPU : (proc'[d] # NULL /\ proc'[d] = proc'[e]) => d = e
  BY SMTT(30) DEF proceed, goto, at, pop_off, SchedInv
<1>3. ASSUME NEW d \in CPU PROVE CpuOK(d)'
  <2>1. CASE d = c
    BY SMTT(30), <2>1, SchedAssumption DEF proceed, goto, at, pop_off, SchedInv, TypeOK, CpuOK, Locked,
       Interruptible, Depth
  <2>2. CASE d # c
    BY SMTT(30), <2>2, SchedAssumption DEF proceed, goto, at, pop_off, SchedInv, TypeOK, CpuOK, Locked,
       Interruptible, Depth
  <2> QED BY <2>1, <2>2
<1>4. ASSUME NEW q \in Proc PROVE ThreadOK(q)'
  <2>1. CASE q = p
    BY SMTT(30), <2>1, SchedAssumption DEF proceed, goto, at, pop_off, SchedInv, TypeOK, ThreadOK,
       Locked, Interruptible, Depth
  <2>2. CASE q # p
    BY <2>2, SchedAssumption DEF proceed, goto, at, pop_off, SchedInv, TypeOK, ThreadOK, Locked,
       Interruptible, Depth
  <2> QED BY <2>1, <2>2
<1> QED BY <1>1, <1>2, <1>3, <1>4 DEF SchedInv

(* sleep() takes p->lock, the second lock of the thread, ... *)
LEMMA Sleep ==
  ASSUME SchedInv, NEW c \in CPU, NEW p \in Proc, sleep(c, p)
  PROVE  SchedInv'
<1>1. TypeOK'
  BY SMTT(30), SchedAssumption DEF sleep, goto, at, acquire, push_off, SchedInv, TypeOK, PC, CpuOK,
     Locked, Interruptible, Depth
<1>2. \A d, e \in CPU : (proc'[d] # NULL /\ proc'[d] = proc'[e]) => d = e
  BY SMTT(30), SchedAssumption DEF sleep, goto, at, acquire, push_off, SchedInv, TypeOK, CpuOK, ThreadOK,
     Locked, Interruptible, Depth
<1>3. ASSUME NEW d \in CPU PROVE CpuOK(d)'
  <2>1. CASE d = c
    BY SMTT(30), <2>1, SchedAssumption DEF sleep, goto, at, acquire, push_off, SchedInv, TypeOK, CpuOK,
       Locked, Interruptible, Depth
  <2>2. CASE d # c
    BY SMTT(30), <2>2, SchedAssumption DEF sleep, goto, at, acquire, push_off, SchedInv, TypeOK, CpuOK,
       Locked, Interruptible, Depth
  <2> QED BY <2>1, <2>2
<1>4. ASSUME NEW q \in Proc PROVE ThreadOK(q)'
  <2>1. CASE q = p
    BY SMTT(30), <2>1, SchedAssumption DEF sleep, goto, at, acquire, push_off, SchedInv, TypeOK, CpuOK,
       ThreadOK, Locked, Interruptible, Depth
  <2>2. CASE q # p
    BY SMTT(30), <2>2, SchedAssumption DEF sleep, goto, at, acquire, push_off, SchedInv, TypeOK,
       ThreadOK, Locked, Interruptible, Depth
  <2> QED BY <2>1, <2>2
<1> QED BY <1>1, <1>2, <1>3, <1>4 DEF SchedInv

(* ... releases the lock of the condition, ... *)
LEMMA SleepRelease ==
  ASSUME SchedInv, NEW c \in CPU, NEW p \in Proc, sleep_release(c, p)
  PROVE  SchedInv'
<1>1. TypeOK'
  BY SchedAssumption DEF sleep_release, goto, at, pop_off, SchedInv, TypeOK, PC, CpuOK, Locked,
     Interruptible, Depth
<1>2. \A d, e \in CPU : (proc'[d] # NULL /\ proc'[d] = proc'[e]) => d = e
  BY DEF sleep_release, goto, at, pop_off, SchedInv
<1>3. ASSUME NEW d \in CPU PROVE CpuOK(d)'
  <2>1. CASE d = c
    BY SMTT(30), <2>1, SchedAssumption DEF sleep_release, goto, at, pop_off, SchedInv, TypeOK, CpuOK,
       Locked, Interruptible, Depth
  <2>2. CASE d # c
    BY SMTT(30), <2>2, SchedAssumption DEF sleep_release, goto, at, pop_off, SchedInv, TypeOK, CpuOK,
       Locked, Interruptible, Depth
  <2> QED BY <2>1, <2>2
<1>4. ASSUME NEW q \in Proc PROVE ThreadOK(q)'
  <2>1. CASE q = p
    BY SMTT(30), <2>1, SchedAssumption DEF sleep_release, goto, at, pop_off, SchedInv, TypeOK, ThreadOK,
       Locked, Interruptible, Depth
  <2>2. CASE q # p
    BY <2>2, SchedAssumption DEF sleep_release, goto, at, pop_off, SchedInv, TypeOK, ThreadOK, Locked,
       Interruptible, Depth
  <2> QED BY <2>1, <2>2
<1> QED BY <1>1, <1>2, <1>3, <1>4 DEF SchedInv

(* ... and makes the process SLEEPING, under p->lock. *)
LEMMA SleepSet ==
  ASSUME SchedInv, NEW c \in CPU, NEW p \in Proc, sleep_set(c, p)
  PROVE  SchedInv'
<1>1. TypeOK'
  BY SMTT(30), SchedAssumption DEF sleep_set, goto, at, cpus, SchedInv, TypeOK, PC
<1>2. \A d, e \in CPU : (proc'[d] # NULL /\ proc'[d] = proc'[e]) => d = e
  BY SMTT(30) DEF sleep_set, goto, at, cpus, SchedInv
<1>3. ASSUME NEW d \in CPU PROVE CpuOK(d)'
  <2>1. CASE d = c
    BY SMTT(30), <2>1, SchedAssumption DEF sleep_set, goto, at, cpus, SchedInv, TypeOK, CpuOK, Locked,
       Interruptible, Depth
  <2>2. CASE d # c
    BY SMTT(30), <2>2, SchedAssumption DEF sleep_set, goto, at, cpus, SchedInv, TypeOK, CpuOK, Locked,
       Interruptible, Depth
  <2> QED BY <2>1, <2>2
<1>4. ASSUME NEW q \in Proc PROVE ThreadOK(q)'
  <2>1. CASE q = p
    BY SMTT(30), <2>1, SchedAssumption DEF sleep_set, goto, at, cpus, SchedInv, TypeOK, ThreadOK, Locked,
       Interruptible, Depth
  <2>2. CASE q # p
    BY SMTT(30), <2>2, SchedAssumption DEF sleep_set, goto, at, cpus, SchedInv, TypeOK, ThreadOK, Locked,
       Interruptible, Depth
  <2> QED BY <2>1, <2>2
<1> QED BY <1>1, <1>2, <1>3, <1>4 DEF SchedInv

(* sleep() returns with the intena that sched() has saved. *)
LEMMA Slept ==
  ASSUME SchedInv, NEW c \in CPU, NEW p \in Proc, slept(c, p)
  PROVE  SchedInv'
<1>1. TypeOK'
  BY SMTT(30), SchedAssumption DEF slept, goto, at, pop_off, restored, SchedInv, TypeOK, PC, CpuOK,
     Locked, Interruptible, Depth
<1>2. \A d, e \in CPU : (proc'[d] # NULL /\ proc'[d] = proc'[e]) => d = e
  BY SMTT(30), SchedAssumption DEF slept, goto, at, pop_off, restored, SchedInv, TypeOK, CpuOK, ThreadOK,
     Locked, Interruptible, Depth
<1>3. ASSUME NEW d \in CPU PROVE CpuOK(d)'
  <2>1. CASE d = c
    BY SMTT(30), <2>1, SchedAssumption DEF slept, goto, at, pop_off, restored, SchedInv, TypeOK, CpuOK,
       ThreadOK, Locked, Interruptible, Depth
  <2>2. CASE d # c
    BY SMTT(30), <2>2, SchedAssumption DEF slept, goto, at, pop_off, restored, SchedInv, TypeOK, CpuOK,
       Locked, Interruptible, Depth
  <2> QED BY <2>1, <2>2
<1>4. ASSUME NEW q \in Proc PROVE ThreadOK(q)'
  <2>1. CASE q = p
    BY SMTT(30), <2>1, SchedAssumption DEF slept, goto, at, pop_off, restored, SchedInv, TypeOK, CpuOK,
       ThreadOK, Locked, Interruptible, Depth
  <2>2. CASE q # p
    BY SMTT(30), <2>2, SchedAssumption DEF slept, goto, at, pop_off, restored, SchedInv, TypeOK,
       ThreadOK, Locked, Interruptible, Depth
  <2> QED BY <2>1, <2>2
<1> QED BY <1>1, <1>2, <1>3, <1>4 DEF SchedInv

(* A RUNNABLE process whose p->lock is free is on no CPU. *)
LEMMA SchedulerRun ==
  ASSUME SchedInv, NEW c \in CPU, NEW p \in Proc, scheduler_run(c, p)
  PROVE  SchedInv'
<1>1. TypeOK'
  BY SMTT(30), SchedAssumption DEF scheduler_run, acquire, push_off, SchedInv, TypeOK, CpuOK, Locked,
     Interruptible, Depth
<1>2. \A d, e \in CPU : (proc'[d] # NULL /\ proc'[d] = proc'[e]) => d = e
  BY SMTT(30), SchedAssumption DEF scheduler_run, acquire, push_off, SchedInv, TypeOK, CpuOK, ThreadOK,
     Locked
<1>3. ASSUME NEW d \in CPU PROVE CpuOK(d)'
  <2>1. CASE d = c
    BY SMTT(30), <2>1, SchedAssumption DEF scheduler_run, acquire, push_off, SchedInv, TypeOK, CpuOK,
       ThreadOK, Locked, Interruptible, Depth
  <2>2. CASE d # c
    BY SMTT(30), <2>2, SchedAssumption DEF scheduler_run, acquire, push_off, SchedInv, TypeOK, CpuOK,
       Locked, Interruptible, Depth
  <2> QED BY <2>1, <2>2
<1>4. ASSUME NEW q \in Proc PROVE ThreadOK(q)'
  <2>1. CASE q = p
    BY SMTT(30), <2>1, SchedAssumption DEF scheduler_run, acquire, push_off, SchedInv, TypeOK, CpuOK,
       ThreadOK, Locked, Interruptible, Depth
  <2>2. CASE q # p
    BY SMTT(30), <2>2, SchedAssumption DEF scheduler_run, acquire, push_off, SchedInv, TypeOK, CpuOK,
       ThreadOK, Locked, Interruptible, Depth
  <2> QED BY <2>1, <2>2
<1> QED BY <1>1, <1>2, <1>3, <1>4 DEF SchedInv

(* wakeup() changes a process whose p->lock is free: one on no CPU. *)
LEMMA Wakeup ==
  ASSUME SchedInv, NEW c \in CPU, NEW p \in Proc, wakeup(c, p)
  PROVE  SchedInv'
<1>1. TypeOK'
  BY SMTT(30), SchedAssumption DEF wakeup, cpus, wakeup_acquire, SchedInv, TypeOK
<1>2. \A d, e \in CPU : (proc'[d] # NULL /\ proc'[d] = proc'[e]) => d = e
  BY SMTT(30), SchedAssumption DEF wakeup, cpus, wakeup_acquire, SchedInv, TypeOK, CpuOK, ThreadOK,
     Locked, Interruptible, Depth
<1>3. ASSUME NEW d \in CPU PROVE CpuOK(d)'
  <2>1. CASE d = c
    BY SMTT(30), <2>1, SchedAssumption DEF wakeup, cpus, wakeup_acquire, SchedInv, TypeOK, CpuOK, Locked,
       Interruptible, Depth
  <2>2. CASE d # c
    BY SMTT(30), <2>2, SchedAssumption DEF wakeup, cpus, wakeup_acquire, SchedInv, TypeOK, CpuOK, Locked,
       Interruptible, Depth
  <2> QED BY <2>1, <2>2
<1>4. ASSUME NEW q \in Proc PROVE ThreadOK(q)'
  <2>1. CASE q = p
    BY SMTT(30), <2>1, SchedAssumption DEF wakeup, cpus, wakeup_acquire, SchedInv, TypeOK, ThreadOK,
       Locked, Interruptible, Depth
  <2>2. CASE q # p
    BY <2>2, SchedAssumption DEF wakeup, cpus, wakeup_acquire, SchedInv, TypeOK, ThreadOK, Locked,
       Interruptible, Depth
  <2> QED BY <2>1, <2>2
<1> QED BY <1>1, <1>2, <1>3, <1>4 DEF SchedInv

(* Every step keeps the invariant. *)
LEMMA StepKeepsOrder ==
  ASSUME SchedInv, [Next]_vars
  PROVE  SchedInv'
<1>1. CASE UNCHANGED vars
  BY SMTT(30), <1>1 DEF vars, SchedInv, TypeOK, CpuOK, ThreadOK
<1>2. CASE Next
  BY <1>2, SchedulerLoop, SchedulerBack, Devintr, DevintrReturn, SchedulerRun, Forkret, Syscall,
     Usertrapret,
     Timer, Yield, Sched, Yielded, Trapret, Wait, Proceed, Sleep, SleepRelease, SleepSet, Slept, Wakeup DEF Next
<1> QED BY SMTT(30), <1>1, <1>2

(* At boot all CPUs are in scheduler() and no thread has run. *)
LEMMA InitIsInOrder == Init => SchedInv
<1> SUFFICES ASSUME Init PROVE SchedInv
  OBVIOUS
<1> USE SchedAssumption DEF Init
<1>1. TypeOK
  <2>1. /\ chan \in [Proc -> BOOLEAN] /\ saved \in [Proc -> BOOLEAN] /\ cond \in BOOLEAN
        /\ intena \in [CPU -> BOOLEAN] /\ sie \in [CPU -> BOOLEAN]
    BY Zenon
  <2>2. /\ state \in [Proc -> {"RUNNABLE", "RUNNING", "SLEEPING"}]
        /\ plock \in [Proc -> CPU \cup {NULL}] /\ lk \in CPU \cup {NULL}
        /\ proc \in [CPU -> Proc \cup {NULL}] /\ pick \in [CPU -> Proc \cup {NULL}]
        /\ on \in [CPU -> {"scan", "back", "thread", "intr"}] /\ todo \in [CPU -> SUBSET Proc]
        /\ noff \in [CPU -> 0 .. 2]
    OBVIOUS
  <2>3. pc \in [Proc -> PC] /\ ret \in [Proc -> PC \cup {NULL}]
    BY DEF PC
  <2> QED BY <2>1, <2>2, <2>3 DEF TypeOK
<1>2. ASSUME NEW c \in CPU PROVE CpuOK(c)
  BY DEF CpuOK
<1>3. ASSUME NEW p \in Proc PROVE ThreadOK(p)
  BY DEF ThreadOK, Locked
<1> QED BY <1>1, <1>2, <1>3 DEF SchedInv

(* The invariant gives the properties of threads. *)
LEMMA InOrderIsSafe == SchedInv => ThreadsSafe
<1> SUFFICES ASSUME SchedInv PROVE ThreadsSafe
  OBVIOUS
<1> USE SchedAssumption DEF Locked, Interruptible, Depth
<1>1. OneCPUPerThread
  BY SMTT(30) DEF SchedInv, TypeOK, PC, CpuOK, ThreadOK, OneCPUPerThread
<1>2. SchedNeverPanics
  BY SMTT(30) DEF SchedInv, TypeOK, PC, CpuOK, ThreadOK, SchedNeverPanics, at
<1>3. IntenaIsTheThreads
  BY DEF SchedInv, TypeOK, CpuOK, IntenaIsTheThreads
<1> QED BY SMTT(30), <1>1, <1>2, <1>3 DEF ThreadsSafe

(* scheduler(), sched(), yield() and sleep(), for any number of CPUs and   *)
(* threads: a thread is on one CPU at a time, sched() never panics, and    *)
(* each thread keeps its own interrupt setting.                            *)
THEOREM ThreadsKept == Spec => []ThreadsSafe
<1>1. Spec => []SchedInv
  BY InitIsInOrder, StepKeepsOrder, PTL DEF Spec
<1> QED BY <1>1, InOrderIsSafe, PTL

(* A wakeup() that has not looked at a process yet cannot pass it by while *)
(* the process is on its way to sleep, because it needs p->lock.           *)
LEMMA StepWakes ==
  ASSUME SchedInv, NoMissedWakeup, [Next]_vars
  PROVE  NoMissedWakeup'
<1> SUFFICES ASSUME cond', NEW q \in Proc
             PROVE  /\ pc'[q] # "sleep"
                    /\ Sleeping(q)' => \E d \in CPU : on'[d] = "intr" /\ q \in todo'[d]
  BY DEF NoMissedWakeup
<1> DEFINE Woken == /\ pc'[q] # "sleep"
                    /\ Sleeping(q)' => \E d \in CPU : on'[d] = "intr" /\ q \in todo'[d]
<1>a. TypeOK
  BY DEF SchedInv
<1> USE DEF NoMissedWakeup, Sleeping
<1>0. ASSUME UNCHANGED vars PROVE Woken
  BY <1>a, <1>0 DEF TypeOK, vars
<1>1. ASSUME NEW c \in CPU, scheduler_loop(c) PROVE Woken
  BY SMTT(30), <1>a, <1>1 DEF TypeOK, scheduler_loop, intr_on, threads
<1>2. ASSUME NEW c \in CPU, scheduler_back(c) PROVE Woken
  BY SMTT(30), <1>a, <1>2, SchedAssumption DEF TypeOK, SchedInv, CpuOK, scheduler_back, pop_off
<1>3. ASSUME NEW c \in CPU, devintr(c) PROVE Woken
  <2>1. pc[q] # "sleep"
    <3>1. SUFFICES ASSUME pc[q] = "sleep" PROVE FALSE
      OBVIOUS
    <3>2. PICK d \in CPU : proc[d] = q
      BY SMTT(30), <3>1 DEF SchedInv, ThreadOK
    <3>3. lk = d
      BY SMTT(30), <1>a, <3>1, <3>2, SchedAssumption DEF TypeOK, SchedInv, CpuOK, Interruptible
    <3> QED BY <1>3, <3>3, SchedAssumption DEF devintr
  <2>2. ASSUME Sleeping(q) PROVE q # proc[c]
    <3>1. CASE pc[q] = "sleep_set"
      BY SMTT(30), <1>3, <3>1, SchedAssumption DEF devintr, SchedInv, TypeOK, CpuOK, Depth, Locked
    <3>2. CASE state[q] = "SLEEPING"
      BY SMTT(30), <1>3, <3>2, SchedAssumption DEF devintr, SchedInv, TypeOK, CpuOK, ThreadOK, Depth,
         Locked
    <3> QED BY ZenonT(30), <2>2, <3>1, <3>2
  <2>3. pc' = pc /\ state' = state /\ chan' = chan /\ on'[c] = "intr" /\ todo'[c] = Proc \ {proc[c]}
    BY SMTT(30), <1>a, <1>3 DEF TypeOK, devintr
  <2> QED BY <2>1, <2>2, <2>3
<1>4. ASSUME NEW c \in CPU, devintr_return(c) PROVE Woken
  BY SMTT(30), <1>a, <1>4, SchedAssumption DEF TypeOK, SchedInv, CpuOK, devintr_return
<1>5. ASSUME NEW c \in CPU, NEW p \in Proc, forkret(c, p) PROVE Woken
  BY <1>a, <1>5 DEF TypeOK, forkret, goto, at
<1>6. ASSUME NEW c \in CPU, NEW p \in Proc, syscall(c, p) PROVE Woken
  BY <1>a, <1>6 DEF TypeOK, syscall, goto, at, cpus
<1>7. ASSUME NEW c \in CPU, NEW p \in Proc, usertrapret(c, p) PROVE Woken
  BY <1>a, <1>7 DEF TypeOK, usertrapret, goto, at, cpus
<1>8. ASSUME NEW c \in CPU, NEW p \in Proc, timer(c, p) PROVE Woken
  BY <1>a, <1>8 DEF TypeOK, timer, goto, at
<1>9. ASSUME NEW c \in CPU, NEW p \in Proc, yield(c, p) PROVE Woken
  BY <1>a, <1>9 DEF TypeOK, yield, goto, at, acquire, push_off
<1>10. ASSUME NEW c \in CPU, NEW p \in Proc, sched(c, p) PROVE Woken
  BY <1>a, <1>10 DEF TypeOK, sched, goto, at
<1>11. ASSUME NEW c \in CPU, NEW p \in Proc, yielded(c, p) PROVE Woken
  BY SMTT(30), <1>a, <1>11 DEF TypeOK, yielded, goto, at, pop_off, restored
<1>12. ASSUME NEW c \in CPU, NEW p \in Proc, trapret(c, p) PROVE Woken
  BY SMTT(30), <1>a, <1>12 DEF TypeOK, SchedInv, ThreadOK, Interruptible, trapret, goto, at
<1>13. ASSUME NEW c \in CPU, NEW p \in Proc, wait(c, p) PROVE Woken
  BY <1>a, <1>13 DEF TypeOK, wait, goto, at, push_off
<1>14. ASSUME NEW c \in CPU, NEW p \in Proc, proceed(c, p) PROVE Woken
  BY <1>a, <1>14 DEF TypeOK, proceed, goto, at
<1>15. ASSUME NEW c \in CPU, NEW p \in Proc, sleep(c, p) PROVE Woken
  BY SMTT(30), <1>a, <1>15 DEF TypeOK, sleep, goto, at
<1>16. ASSUME NEW c \in CPU, NEW p \in Proc, sleep_release(c, p) PROVE Woken
  BY SMTT(30), <1>a, <1>16, SchedAssumption DEF TypeOK, SchedInv, CpuOK, ThreadOK, Locked, Interruptible,
     Depth, sleep_release, goto, at, pop_off
<1>17. ASSUME NEW c \in CPU, NEW p \in Proc, sleep_set(c, p) PROVE Woken
  BY <1>a, <1>17 DEF TypeOK, sleep_set, goto, at, cpus
<1>18. ASSUME NEW c \in CPU, NEW p \in Proc, slept(c, p) PROVE Woken
  BY SMTT(30), <1>a, <1>18 DEF TypeOK, slept, goto, at, pop_off, restored
<1>19. ASSUME NEW c \in CPU, NEW p \in Proc, scheduler_run(c, p) PROVE Woken
  BY SMTT(30), <1>a, <1>19, SchedAssumption DEF TypeOK, SchedInv, CpuOK, scheduler_run, acquire, push_off
<1>20. ASSUME NEW c \in CPU, NEW p \in Proc, wakeup(c, p) PROVE Woken
  BY SMTT(30), <1>a, <1>20, SchedAssumption DEF TypeOK, SchedInv, CpuOK, ThreadOK, Locked, Interruptible,
     Depth, wakeup, cpus, wakeup_acquire
<1> HIDE DEF Woken, NoMissedWakeup, Sleeping
<1>21. Woken
  BY <1>0, <1>1, <1>2, <1>3, <1>4, <1>5, <1>6, <1>7, <1>8, <1>9, <1>10, <1>11, <1>12, <1>13, <1>14,
     <1>15, <1>16, <1>17, <1>18, <1>19, <1>20 DEF Next
<1> QED BY <1>21 DEF Woken

(* sleep() and wakeup(), for any number of CPUs and threads: no wakeup is  *)
(* lost between the test of the condition and SLEEPING.                    *)
THEOREM WakeupsArrive == Spec => []NoMissedWakeup
<1>1. Init => NoMissedWakeup
  BY ZenonT(30) DEF Init, NoMissedWakeup
<1>2. Spec => []SchedInv
  BY InitIsInOrder, StepKeepsOrder, PTL DEF Spec
<1> QED BY <1>1, <1>2, StepWakes, PTL DEF Spec

===============================================================================
