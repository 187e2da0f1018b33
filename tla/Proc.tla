--------------------------------- MODULE Proc ---------------------------------
(***************************************************************************)
(* The life of a process in kernel/proc.c: fork(), exit(), wait(), kill(), *)
(* reparent(), allocproc(), freeproc(), and as much of the scheduler as    *)
(* they depend on.  A step is one critical section: the code between       *)
(* taking a p->lock or wait_lock and releasing it.  A p->lock that a       *)
(* thread keeps while it switches to the scheduler is kept in `held' until *)
(* the scheduler releases it, and wait_lock is held across steps where the *)
(* code keeps it.  The scans of proc[] take one p->lock at a time, so they *)
(* may find any slot that fits, not only the first one.                    *)
(*                                                                         *)
(* Files, memory and the priority lists (see PriorityList) are left out.   *)
(***************************************************************************)
EXTENDS Naturals, FiniteSets

CONSTANTS Proc,       \* the slots of proc[NPROC]
          initproc,   \* the slot userinit() took
          NULL,
          NCPU,
          MaxPid,     \* bound: no fork once nextpid has passed it
          KillPids    \* the arguments of kill()

ASSUME ProcAssumption ==
  /\ initproc \in Proc /\ NULL \notin Proc
  /\ NCPU \in Nat \ {0} /\ MaxPid \in Nat \ {0} /\ KillPids \subseteq Nat

VARIABLES
  state, pid, killed, parent, chan,  \* the fields of struct proc
  nextpid,
  wait_lock,  \* the process that holds wait_lock across steps, or NULL
  held,       \* the processes inside swtch(), with their p->lock held
  pc,         \* where the thread of p is
  np          \* fork()'s local variable

table == <<state, pid, killed, parent, chan>>
vars == <<state, pid, killed, parent, chan, nextpid, wait_lock, held, pc, np>>

State == {"UNUSED", "USED", "SLEEPING", "RUNNABLE", "RUNNING", "ZOMBIE"}
PC == {"none", "user", "fork_parent", "fork_run", "wait", "wait_sleep",
       "exit_zombie", "panic"}

Children(p) == {c \in Proc : parent[c] = p}
Zombies(p) == {c \in Children(p) : state[c] = "ZOMBIE"}

(* acquire(&q->lock) succeeds.  (Mutant: the lock is not taken.) *)
no_lock(q) == TRUE
acquire(q) == q \notin held

(* p's thread has a CPU. *)
Running(p) == state[p] = "RUNNING" /\ p \notin held

(* usertrap() lets a process that has not been killed call the kernel. *)
syscall(p) == Running(p) /\ pc[p] = "user" /\ ~killed[p]

(* procinit() and userinit(). *)
Init ==
  /\ state = [p \in Proc |-> IF p = initproc THEN "RUNNABLE" ELSE "UNUSED"]
  /\ pid = [p \in Proc |-> IF p = initproc THEN 1 ELSE 0]
  /\ killed = [p \in Proc |-> FALSE]
  /\ parent = [p \in Proc |-> NULL]
  /\ chan = [p \in Proc |-> NULL]
  /\ nextpid = 2
  /\ wait_lock = NULL
  /\ held = {}
  /\ pc = [p \in Proc |-> IF p = initproc THEN "user" ELSE "none"]
  /\ np = [p \in Proc |-> NULL]

(***************************************************************************)
(* allocpid() and allocproc(): what a slot is given.  p->killed is not     *)
(* among it.                                                               *)
(***************************************************************************)
allocpid == /\ nextpid <= MaxPid
            /\ nextpid' = nextpid + 1

allocproc(c) ==
  /\ state[c] = "UNUSED" /\ acquire(c)
  /\ allocpid
  /\ state' = [state EXCEPT ![c] = "USED"]
  /\ pid' = [pid EXCEPT ![c] = nextpid]

(* Mutant: p->killed survives. *)
freeproc_killed(c) ==
  /\ state' = [state EXCEPT ![c] = "UNUSED"]
  /\ pid' = [pid EXCEPT ![c] = 0]
  /\ parent' = [parent EXCEPT ![c] = NULL]
  /\ chan' = [chan EXCEPT ![c] = NULL]
  /\ UNCHANGED killed

(* Mutant: p->state is not reset. *)
freeproc_state(c) ==
  /\ pid' = [pid EXCEPT ![c] = 0]
  /\ parent' = [parent EXCEPT ![c] = NULL]
  /\ chan' = [chan EXCEPT ![c] = NULL]
  /\ killed' = [killed EXCEPT ![c] = FALSE]
  /\ UNCHANGED state

freeproc(c) ==
  /\ state' = [state EXCEPT ![c] = "UNUSED"]
  /\ pid' = [pid EXCEPT ![c] = 0]
  /\ parent' = [parent EXCEPT ![c] = NULL]
  /\ chan' = [chan EXCEPT ![c] = NULL]
  /\ killed' = [killed EXCEPT ![c] = FALSE]

(* fork() up to the first release(&np->lock). *)
fork(p, c) ==
  /\ syscall(p)
  /\ allocproc(c)
  /\ np' = [np EXCEPT ![p] = c]
  /\ pc' = [pc EXCEPT ![p] = "fork_parent"]
  /\ UNCHANGED <<killed, parent, chan, wait_lock, held>>

(* kalloc(), proc_pagetable() or uvmcopy() fails: the slot is given back. *)
fork_failed(p, c) ==
  /\ syscall(p)
  /\ state[c] = "UNUSED" /\ acquire(c)
  /\ allocpid
  /\ freeproc(c)
  /\ UNCHANGED <<wait_lock, held, pc, np>>

(* acquire(&wait_lock); np->parent = p; release(&wait_lock). *)
fork_parent(p) ==
  /\ Running(p) /\ pc[p] = "fork_parent" /\ wait_lock = NULL
  /\ parent' = [parent EXCEPT ![np[p]] = p]
  /\ pc' = [pc EXCEPT ![p] = "fork_run"]
  /\ UNCHANGED <<state, pid, killed, chan, nextpid, wait_lock, held, np>>

(* acquire(&np->lock); np->state = RUNNABLE; release(&np->lock); return. *)
fork_run(p) ==
  /\ Running(p) /\ pc[p] = "fork_run" /\ acquire(np[p])
  /\ state' = [state EXCEPT ![np[p]] = "RUNNABLE"]
  /\ pc' = [pc EXCEPT ![p] = "user", ![np[p]] = "user"]
  /\ np' = [np EXCEPT ![p] = NULL]
  /\ UNCHANGED <<pid, killed, parent, chan, nextpid, wait_lock, held>>

(***************************************************************************)
(* The processes that exit() wakes: its parent, and init when it inherits  *)
(* a child.                                                                *)
(***************************************************************************)
wakeups(p) == {parent[p]} \cup (IF Children(p) # {} THEN {initproc} ELSE {})

(* Mutant: the children keep their parent. *)
reparent_none(p) == parent
reparent(p) == [c \in Proc |-> IF parent[c] = p THEN initproc ELSE parent[c]]

(***************************************************************************)
(* exit(), from acquire(&wait_lock) to acquire(&p->lock).  wakeup(c) takes *)
(* each p->lock in turn; the one sleeper on channel c is c, in wait().     *)
(***************************************************************************)
exit(p) ==
  /\ Running(p) /\ pc[p] = "user" /\ p # initproc
  /\ wait_lock = NULL
  /\ \A q \in wakeups(p) : acquire(q)
  /\ parent' = reparent(p)
  /\ state' = [q \in Proc |-> IF q \in wakeups(p) /\ state[q] = "SLEEPING" /\ chan[q] = q
                              THEN "RUNNABLE" ELSE state[q]]
  /\ wait_lock' = p
  /\ pc' = [pc EXCEPT ![p] = "exit_zombie"]
  /\ UNCHANGED <<pid, killed, chan, nextpid, held, np>>

(* acquire(&p->lock); state = ZOMBIE; release(&wait_lock); sched(). *)
exit_zombie(p) ==
  /\ Running(p) /\ pc[p] = "exit_zombie"
  /\ state' = [state EXCEPT ![p] = "ZOMBIE"]
  /\ wait_lock' = NULL
  /\ held' = held \cup {p}
  /\ pc' = [pc EXCEPT ![p] = "none"]
  /\ UNCHANGED <<pid, killed, parent, chan, nextpid, np>>

(* The first lines of exit() when init gets there: panic("init exiting"). *)
exit_init ==
  /\ Running(initproc) /\ pc[initproc] = "user"
  /\ pc' = [pc EXCEPT ![initproc] = "panic"]
  /\ UNCHANGED <<table, nextpid, wait_lock, held, np>>

(* panic() spins for ever. *)
panic(p) == pc[p] = "panic" /\ UNCHANGED vars

(* wait() is called. *)
wait(p) ==
  /\ syscall(p)
  /\ pc' = [pc EXCEPT ![p] = "wait"]
  /\ UNCHANGED <<table, nextpid, wait_lock, held, np>>

(* The scan of wait() finds the exited child c. *)
wait_reap(p, c) ==
  /\ Running(p) /\ pc[p] = "wait" /\ wait_lock = NULL
  /\ c \in Zombies(p) /\ acquire(c)
  /\ freeproc(c)
  /\ pc' = [pc EXCEPT ![p] = "user"]
  /\ UNCHANGED <<nextpid, wait_lock, held, np>>

(* The same, but copyout() of the exit status fails. *)
wait_fault(p) ==
  /\ Running(p) /\ pc[p] = "wait" /\ wait_lock = NULL
  /\ \E c \in Zombies(p) : acquire(c)
  /\ pc' = [pc EXCEPT ![p] = "user"]
  /\ UNCHANGED <<table, nextpid, wait_lock, held, np>>

(* The scan finds no exited child, and there is no point in waiting... *)
wait_error(p) ==
  /\ Running(p) /\ pc[p] = "wait" /\ wait_lock = NULL
  /\ Zombies(p) = {} /\ \A c \in Children(p) : acquire(c)
  /\ Children(p) = {} \/ killed[p]
  /\ pc' = [pc EXCEPT ![p] = "user"]
  /\ UNCHANGED <<table, nextpid, wait_lock, held, np>>

(* ... or there is: killed(p) has said no, wait_lock stays held. *)
wait_block(p) ==
  /\ Running(p) /\ pc[p] = "wait" /\ wait_lock = NULL
  /\ Zombies(p) = {} /\ \A c \in Children(p) : acquire(c)
  /\ Children(p) # {} /\ ~killed[p]
  /\ wait_lock' = p
  /\ pc' = [pc EXCEPT ![p] = "wait_sleep"]
  /\ UNCHANGED <<table, nextpid, held, np>>

(* sleep(p, &wait_lock) up to the switch; the loop of wait() follows. *)
wait_sleep(p) ==
  /\ Running(p) /\ pc[p] = "wait_sleep"
  /\ chan' = [chan EXCEPT ![p] = p]
  /\ state' = [state EXCEPT ![p] = "SLEEPING"]
  /\ wait_lock' = NULL
  /\ held' = held \cup {p}
  /\ pc' = [pc EXCEPT ![p] = "wait"]
  /\ UNCHANGED <<pid, killed, parent, nextpid, np>>

(* kill(k) finds q. *)
kill(p, q) ==
  /\ syscall(p)
  /\ pid[q] \in KillPids /\ acquire(q)
  /\ killed' = [killed EXCEPT ![q] = TRUE]
  /\ state' = [state EXCEPT ![q] = IF @ = "SLEEPING" THEN "RUNNABLE" ELSE @]
  /\ UNCHANGED <<pid, parent, chan, nextpid, wait_lock, held, pc, np>>

(* usertrap(): an unexpected trap. *)
setkilled(p) ==
  /\ Running(p) /\ pc[p] = "user"
  /\ killed' = [killed EXCEPT ![p] = TRUE]
  /\ UNCHANGED <<state, pid, parent, chan, nextpid, wait_lock, held, pc, np>>

(* A timer interrupt, which finds interrupts on: no spinlock is held. *)
yield(p) ==
  /\ Running(p) /\ wait_lock # p /\ pc[p] # "panic"
  /\ state' = [state EXCEPT ![p] = "RUNNABLE"]
  /\ held' = held \cup {p}
  /\ UNCHANGED <<pid, killed, parent, chan, nextpid, wait_lock, pc, np>>

(* swtch() has arrived in scheduler(), which releases p->lock. *)
swtch(p) ==
  /\ p \in held
  /\ held' = held \ {p}
  /\ UNCHANGED <<table, nextpid, wait_lock, pc, np>>

(* scheduler() runs p, which returns from sched() or forkret() and         *)
(* releases p->lock; sleep() clears p->chan on the way.                    *)
scheduler(p) ==
  /\ state[p] = "RUNNABLE" /\ acquire(p)
  /\ Cardinality({q \in Proc : state[q] = "RUNNING"} \cup held) < NCPU
  /\ state' = [state EXCEPT ![p] = "RUNNING"]
  /\ chan' = [chan EXCEPT ![p] = NULL]
  /\ UNCHANGED <<pid, killed, parent, nextpid, wait_lock, held, pc, np>>

kernel(p) ==
  \/ fork_parent(p) \/ fork_run(p) \/ exit_zombie(p)
  \/ \E c \in Proc : wait_reap(p, c)
  \/ wait_error(p) \/ wait_block(p) \/ wait_sleep(p)

Next ==
  \E p \in Proc :
    \/ \E c \in Proc : fork(p, c)
    \/ \E c \in Proc : fork_failed(p, c)
    \/ fork_parent(p)
    \/ fork_run(p)
    \/ exit(p)
    \/ exit_zombie(p)
    \/ exit_init
    \/ panic(p)
    \/ wait(p)
    \/ \E c \in Proc : wait_reap(p, c)
    \/ wait_fault(p)
    \/ wait_error(p)
    \/ wait_block(p)
    \/ wait_sleep(p)
    \/ \E q \in Proc : kill(p, q)
    \/ setkilled(p)
    \/ yield(p)
    \/ swtch(p)
    \/ scheduler(p)

Spec == Init /\ [][Next]_vars

(***************************************************************************)
(* Every CPU's scheduler() scans proc[] over and over, so a process that   *)
(* is runnable whenever a CPU is free gets one, and the timer takes it     *)
(* away again; a CPU in swtch() or in the kernel goes on; a spinlock that  *)
(* keeps being released is obtained in the end.  init runs user/init.c,    *)
(* which comes back to wait().                                             *)
(***************************************************************************)
FairSpec ==
  /\ Spec
  /\ \A p \in Proc : /\ WF_vars(swtch(p)) /\ WF_vars(yield(p))
                     /\ SF_vars(scheduler(p)) /\ SF_vars(kernel(p))
  /\ SF_vars(wait(initproc)) /\ SF_vars(killed[initproc] /\ exit_init)
-------------------------------------------------------------------------------
TypeOK ==
  /\ state \in [Proc -> State]
  /\ pid \in [Proc -> Nat]
  /\ killed \in [Proc -> BOOLEAN]
  /\ parent \in [Proc -> Proc \cup {NULL}]
  /\ chan \in [Proc -> Proc \cup {NULL}]
  /\ nextpid \in Nat
  /\ wait_lock \in Proc \cup {NULL}
  /\ held \subseteq Proc
  /\ pc \in [Proc -> PC]
  /\ np \in [Proc -> Proc \cup {NULL}]

(* wait() does not sleep through the exit of a child: nobody sleeps in     *)
(* wait() while it has an exited child, even though exit() wakes the       *)
(* parent before it becomes a zombie, reads a parent that reparent() may   *)
(* have changed, and hands its own exited children to init.                *)
NoLostWakeup ==
  \A p \in Proc : (state[p] = "SLEEPING" /\ chan[p] = p) => Zombies(p) = {}

(* A slot is not freed or given to a new process while its old thread is   *)
(* still running on its kernel stack towards the scheduler: wait() takes   *)
(* pp->lock to "make sure the child isn't still in exit() or swtch()".     *)
StackNotReused ==
  [][\A p \in Proc : p \in held => state'[p] # "UNUSED" /\ pid'[p] = pid[p]]_vars

(* Orphans go to init: the parent of a process is alive and has not gone   *)
(* past reparent() in its own exit(), so somebody can still wait for it.   *)
ParentIsAlive ==
  \A p \in Proc : parent[p] # NULL =>
    /\ state[parent[p]] \notin {"UNUSED", "ZOMBIE"}
    /\ pc[parent[p]] # "exit_zombie"

(* Every process but init that is past fork() has a parent, so no zombie   *)
(* is left without one to reap it.                                         *)
HasParent ==
  \A p \in Proc \ {initproc} :
    state[p] \in {"SLEEPING", "RUNNABLE", "RUNNING", "ZOMBIE"} => parent[p] # NULL

(* A pid names one process: kill() and wait() cannot mix two up.           *)
PidsUnique ==
  \A p, q \in Proc : (state[p] # "UNUSED" /\ pid[p] = pid[q]) => p = q

(* A free slot is as freeproc() left it, and nothing (kill() of a process  *)
(* that is just being reaped, an orphan's reparent()) marks it later:      *)
(* allocproc() relies on it, since it clears neither p->killed, p->parent  *)
(* nor p->chan.                                                            *)
FreeSlotClean ==
  \A p \in Proc : state[p] = "UNUSED" =>
    pid[p] = 0 /\ ~killed[p] /\ parent[p] = NULL /\ chan[p] = NULL

(* The pid of a process is one that allocpid() has given out. *)
PidsIssued ==
  nextpid > 0 /\ \A p \in Proc : state[p] # "UNUSED" => pid[p] \in 1 .. nextpid - 1

(* A slot of proc[] stands for one process, or for none. *)
SlotsSound == PidsUnique /\ FreeSlotClean /\ PidsIssued

(* The inductive invariant behind these: who holds wait_lock, what a       *)
(* forking process keeps in np, and that the parent of a process about to  *)
(* become a zombie is awake.                                               *)
ThreadOK(p) ==
  /\ pc[p] \in {"wait_sleep", "exit_zombie"} <=> wait_lock = p
  /\ pc[p] = "none" <=> state[p] \in {"UNUSED", "USED", "ZOMBIE"}
  /\ wait_lock = p => state[p] = "RUNNING" /\ p \notin held
  /\ p \in held => state[p] \in {"SLEEPING", "RUNNABLE", "ZOMBIE"}
  /\ state[p] = "SLEEPING" => chan[p] = p
  /\ state[p] = "UNUSED" => parent[p] = NULL
  /\ parent[p] # p

WaitOK(p) ==
  /\ pc[p] = "wait_sleep" => Zombies(p) = {}
  /\ pc[p] = "exit_zombie" => state[parent[p]] # "SLEEPING"

ForkOK(p) ==
  /\ pc[p] \in {"fork_parent", "fork_run"} => np[p] \in Proc /\ state[np[p]] = "USED"
  /\ pc[p] = "fork_run" => parent[np[p]] = p
  /\ \A q \in Proc \ {p} :
       {pc[p], pc[q]} \subseteq {"fork_parent", "fork_run"} => np[p] # np[q]

InitAlive ==
  /\ parent[initproc] = NULL
  /\ state[initproc] \in {"SLEEPING", "RUNNABLE", "RUNNING"}
  /\ pc[initproc] # "exit_zombie"

ProcInv ==
  /\ TypeOK /\ NoLostWakeup /\ ParentIsAlive /\ HasParent /\ InitAlive
  /\ \A p \in Proc : ThreadOK(p) /\ WaitOK(p) /\ ForkOK(p)

(* An exited process that init has inherited is reaped in the end (unless  *)
(* init itself was made to exit, which is a panic).                        *)
OrphansReaped ==
  \A p \in Proc : (state[p] = "ZOMBIE" /\ parent[p] = initproc)
                    ~> (state[p] = "UNUSED" \/ pc[initproc] = "panic")
===============================================================================
