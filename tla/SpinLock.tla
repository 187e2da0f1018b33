------------------------------- MODULE SpinLock -------------------------------
(***************************************************************************)
(* kernel/spinlock.c, instruction by instruction where another CPU or an   *)
(* interrupt can come in between.  On each CPU there is the interrupted    *)
(* code (level "task") and an interrupt handler (level "intr"), which uses *)
(* the same locks; a handler runs with interrupts off, so it is not        *)
(* interrupted itself.  The callers take locks in increasing order and do  *)
(* not take one they have.                                                 *)
(***************************************************************************)
EXTENDS Naturals, FiniteSets

CONSTANTS CPU, Lock, NULL

ASSUME SpinAssumption == NULL \notin CPU /\ Lock \subseteq Nat

Level == {"task", "intr"}
Code == CPU \X Level

VARIABLES
  locked, cpu,         \* the fields of struct spinlock
  noff, intena,        \* the fields of struct cpu
  sie,                 \* the interrupt enable bit of each CPU
  level,               \* what runs on each CPU
  pc, lk,              \* where each code is, and the argument of its call
  old, seen,           \* the locals of push_off() and holding()
  mine,                \* the locks each code has between acquire() and release()
  wanted               \* the task's own choice by intr_on() and intr_off()

vars == <<locked, cpu, noff, intena, sie, level, pc, lk, old, seen, mine, wanted>>

PC == {"run", "push_off", "intr_off", "holding", "holding_cpu", "spin", "set_cpu",
       "clear_cpu", "unlock", "pop_off", "panic"}

(* t is what its CPU executes, and it is at l. *)
at(t, l) == level[t[1]] = t[2] /\ pc[t] = l
goto(t, l) == pc' = [pc EXCEPT ![t] = l]

(* The end of acquire() or release(): the locals are gone. *)
return(t, l) ==
  /\ goto(t, l)
  /\ lk' = [lk EXCEPT ![t] = NULL]
  /\ old' = [old EXCEPT ![t] = FALSE]
  /\ seen' = [seen EXCEPT ![t] = FALSE]

(* initlock(), and CPUs at boot. *)
Init ==
  /\ locked = [k \in Lock |-> FALSE]
  /\ cpu = [k \in Lock |-> NULL]
  /\ noff = [c \in CPU |-> 0]
  /\ intena = [c \in CPU |-> FALSE]
  /\ sie = [c \in CPU |-> FALSE]
  /\ level = [c \in CPU |-> "task"]
  /\ pc = [t \in Code |-> "run"]
  /\ lk = [t \in Code |-> NULL]
  /\ old = [t \in Code |-> FALSE]
  /\ seen = [t \in Code |-> FALSE]
  /\ mine = [t \in Code |-> {}]
  /\ wanted = [c \in CPU |-> FALSE]

(* acquire(k) is called. *)
acquire(t, k) ==
  /\ at(t, "run") /\ \A j \in mine[t] : j < k
  /\ lk' = [lk EXCEPT ![t] = k]
  /\ goto(t, "push_off")
  /\ UNCHANGED <<locked, cpu, noff, intena, sie, level, old, seen, mine, wanted>>

(* push_off(): old = intr_get(), *)
push_off(t) ==
  /\ at(t, "push_off")
  /\ old' = [old EXCEPT ![t] = sie[t[1]]]
  /\ goto(t, "intr_off")
  /\ UNCHANGED <<locked, cpu, noff, intena, sie, level, lk, seen, mine, wanted>>

(* intr_off(), and from then on only this CPU's own fields.  (Mutants: the *)
(* interrupts stay on; intena is overwritten when locks are nested.)       *)
sie_off_not(c) == sie
sie_off(c) == [sie EXCEPT ![c] = FALSE]

save_intena_always(c, o) == [intena EXCEPT ![c] = o]
save_intena(c, o) == IF noff[c] = 0 THEN [intena EXCEPT ![c] = o] ELSE intena

intr_off(t) ==
  /\ at(t, "intr_off")
  /\ sie' = sie_off(t[1])
  /\ intena' = save_intena(t[1], old[t])
  /\ noff' = [noff EXCEPT ![t[1]] = @ + 1]
  /\ goto(t, "holding")
  /\ UNCHANGED <<locked, cpu, level, lk, old, seen, mine, wanted>>

(* holding(lk) reads lk->locked, and then lk->cpu if that was set; it is   *)
(* called by acquire(), which panics if it holds, and by release(), which  *)
(* panics if it does not.                                                  *)
releasing(t) == lk[t] \in mine[t]

holding(t) ==
  /\ at(t, "holding")
  /\ seen' = [seen EXCEPT ![t] = locked[lk[t]]]
  /\ goto(t, "holding_cpu")
  /\ UNCHANGED <<locked, cpu, noff, intena, sie, level, lk, old, mine, wanted>>

holding_cpu(t) ==
  /\ at(t, "holding_cpu")
  /\ LET r == seen[t] /\ cpu[lk[t]] = t[1]
     IN goto(t, IF r # releasing(t) THEN "panic"
                ELSE IF r THEN "clear_cpu" ELSE "spin")
  /\ UNCHANGED <<locked, cpu, noff, intena, sie, level, lk, old, seen, mine, wanted>>

(* The turn of the loop whose atomic swap finds the lock free.  (Mutant: a *)
(* lock that is not free is taken.)                                        *)
swap_any(k) == TRUE
test_and_set(k) == ~locked[k]

spin(t) ==
  /\ at(t, "spin") /\ test_and_set(lk[t])
  /\ locked' = [locked EXCEPT ![lk[t]] = TRUE]
  /\ goto(t, "set_cpu")
  /\ UNCHANGED <<cpu, noff, intena, sie, level, lk, old, seen, mine, wanted>>

(* lk->cpu = mycpu(); acquire() returns. *)
set_cpu(t) ==
  /\ at(t, "set_cpu")
  /\ cpu' = [cpu EXCEPT ![lk[t]] = t[1]]
  /\ mine' = [mine EXCEPT ![t] = @ \cup {lk[t]}]
  /\ return(t, "run")
  /\ UNCHANGED <<locked, noff, intena, sie, level, wanted>>

(* release(k) is called. *)
release(t, k) ==
  /\ at(t, "run") /\ k \in mine[t]
  /\ lk' = [lk EXCEPT ![t] = k]
  /\ goto(t, "holding")
  /\ UNCHANGED <<locked, cpu, noff, intena, sie, level, old, seen, mine, wanted>>

(* lk->cpu = 0. *)
cpu_cleared(k) == [cpu EXCEPT ![k] = NULL]

clear_cpu(t) ==
  /\ at(t, "clear_cpu")
  /\ cpu' = cpu_cleared(lk[t])
  /\ mine' = [mine EXCEPT ![t] = @ \ {lk[t]}]
  /\ goto(t, "unlock")
  /\ UNCHANGED <<locked, noff, intena, sie, level, lk, old, seen, wanted>>

unlock(t) ==
  /\ at(t, "unlock")
  /\ locked' = [locked EXCEPT ![lk[t]] = FALSE]
  /\ goto(t, "pop_off")
  /\ UNCHANGED <<cpu, noff, intena, sie, level, lk, old, seen, mine, wanted>>

pop_off(t) ==
  LET c == t[1]
      bad == sie[c] \/ noff[c] < 1
  IN /\ at(t, "pop_off")
     /\ noff' = [noff EXCEPT ![c] = IF bad THEN @ ELSE @ - 1]
     /\ sie' = [sie EXCEPT ![c] = IF bad THEN @ ELSE noff'[c] = 0 /\ intena[c]]
     /\ return(t, IF bad THEN "panic" ELSE "run")
     /\ UNCHANGED <<locked, cpu, intena, level, mine, wanted>>

(* intr_on() in scheduler() and usertrap(), intr_off() in usertrapret():   *)
(* never with a lock held.                                                 *)
intr_set(c) ==
  /\ at(<<c, "task">>, "run") /\ noff[c] = 0
  /\ wanted' = [wanted EXCEPT ![c] = ~@]
  /\ sie' = [sie EXCEPT ![c] = ~@]
  /\ UNCHANGED <<locked, cpu, noff, intena, level, pc, lk, old, seen, mine>>

(* The machine takes an interrupt, and kerneltrap() returns from it. *)
interrupt(c) ==
  /\ level[c] = "task" /\ sie[c]
  /\ level' = [level EXCEPT ![c] = "intr"]
  /\ sie' = [sie EXCEPT ![c] = FALSE]
  /\ UNCHANGED <<locked, cpu, noff, intena, pc, lk, old, seen, mine, wanted>>

kerneltrap_return(c) ==
  /\ at(<<c, "intr">>, "run") /\ mine[<<c, "intr">>] = {}
  /\ level' = [level EXCEPT ![c] = "task"]
  /\ sie' = [sie EXCEPT ![c] = TRUE]
  /\ UNCHANGED <<locked, cpu, noff, intena, pc, lk, old, seen, mine, wanted>>

Next ==
  \/ \E t \in Code :
       \/ \E k \in Lock : acquire(t, k)
       \/ \E k \in Lock : release(t, k)
       \/ push_off(t)
       \/ intr_off(t)
       \/ holding(t)
       \/ holding_cpu(t)
       \/ spin(t)
       \/ set_cpu(t)
       \/ clear_cpu(t)
       \/ unlock(t)
       \/ pop_off(t)
  \/ \E c \in CPU :
       \/ intr_set(c)
       \/ interrupt(c)
       \/ kerneltrap_return(c)

Spec == Init /\ [][Next]_vars
-----------------------------------------------------------------------------
TypeOK ==
  /\ locked \in [Lock -> BOOLEAN] /\ cpu \in [Lock -> CPU \cup {NULL}]
  /\ noff \in [CPU -> Nat] /\ intena \in [CPU -> BOOLEAN] /\ sie \in [CPU -> BOOLEAN]
  /\ level \in [CPU -> Level] /\ wanted \in [CPU -> BOOLEAN]
  /\ pc \in [Code -> PC] /\ lk \in [Code -> Lock \cup {NULL}]
  /\ old \in [Code -> BOOLEAN] /\ seen \in [Code -> BOOLEAN]
  /\ mine \in [Code -> SUBSET Lock]

(* A lock is held by one code at a time, on whatever CPU and level.        *)
MutualExclusion ==
  \A t, u \in Code : t # u => mine[t] \cap mine[u] = {}

(* The tests in acquire(), release() and pop_off() never panic, although   *)
(* holding() reads locked and cpu of a lock that others take and release.  *)
NoSpuriousPanic == \A t \in Code : pc[t] # "panic"

(* An interrupt handler never meets a lock of the code it interrupted, not *)
(* even one that this code is about to take or has half released: it could *)
(* spin for ever on it.                                                    *)
NoSelfDeadlock ==
  \A c \in CPU : level[c] = "intr" =>
    /\ mine[<<c, "task">>] = {}
    /\ pc[<<c, "task">>] \in {"run", "push_off", "intr_off"}

(* "if interrupts are initially off, then push_off, pop_off leaves them    *)
(* off": whenever the task is outside all locks and not interrupted, its   *)
(* interrupts are as it set them, through nesting and interrupt handlers.  *)
PushPopMatched ==
  \A c \in CPU : (level[c] = "task" /\ noff[c] = 0) => sie[c] = wanted[c]

(* The code t owns the lock k from its atomic swap to its unlocking store. *)
Owns(t, k) == k \in mine[t] \/ (lk[t] = k /\ pc[t] \in {"set_cpu", "unlock"})

(* A push_off() of t that belongs to no lock in mine[t]. *)
Acquiring(t) == pc[t] \in {"holding", "holding_cpu", "spin", "set_cpu"} /\ ~releasing(t)
Extra(t) == IF Acquiring(t) \/ pc[t] \in {"unlock", "pop_off"} THEN 1 ELSE 0

LockOK ==
  /\ \A t, u \in Code, k \in Lock : Owns(t, k) /\ Owns(u, k) => t = u
  /\ \A k \in Lock : locked[k] => \E t \in Code : Owns(t, k)
  /\ \A t \in Code, k \in Lock : Owns(t, k) => locked[k]
  /\ \A k \in Lock, c \in CPU : cpu[k] = c => \E t \in Code : t[1] = c /\ k \in mine[t]
  /\ \A t \in Code, k \in Lock : k \in mine[t] => cpu[k] = t[1]

CodeOK(t) ==
  /\ IsFiniteSet(mine[t])
  /\ pc[t] # "panic"
  /\ pc[t] # "run" => lk[t] \in Lock
  /\ pc[t] = "clear_cpu" => releasing(t)
  /\ pc[t] \in {"push_off", "intr_off", "spin", "set_cpu", "unlock", "pop_off"} => ~releasing(t)
  /\ pc[t] = "holding_cpu" /\ releasing(t) => seen[t]
  /\ level[t[1]] = t[2] => noff[t[1]] = Cardinality(mine[t]) + Extra(t)

CpuOK(c) ==
  LET task == <<c, "task">>
      intr == <<c, "intr">>
  IN /\ noff[c] > 0 => ~sie[c]
     /\ level[c] = "task" =>
          /\ pc[intr] = "run" /\ mine[intr] = {}
          /\ noff[c] = 0 => sie[c] = wanted[c]
          /\ noff[c] > 0 => intena[c] = wanted[c]
     /\ level[c] = "intr" =>
          /\ pc[task] \in {"run", "push_off", "intr_off"} /\ mine[task] = {}
          /\ ~sie[c] /\ wanted[c]
          /\ noff[c] > 0 => ~intena[c]
          /\ pc[intr] = "intr_off" => ~old[intr]
     /\ (pc[task] = "intr_off" /\ mine[task] = {}) => old[task] = wanted[c]

(* Who owns which lock, that noff counts the locks of the code that runs,  *)
(* and what the interrupt bits are worth at each level: the inductive      *)
(* invariant behind the properties above.                                  *)
SpinInv ==
  /\ TypeOK /\ LockOK
  /\ \A t \in Code : CodeOK(t)
  /\ \A c \in CPU : CpuOK(c)

(* With it, mutual exclusion and no panic: what acquire() and release()    *)
(* promise to the code between them.                                       *)
LocksSafe == SpinInv /\ MutualExclusion /\ NoSpuriousPanic
===============================================================================
