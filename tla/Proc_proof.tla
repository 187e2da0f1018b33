------------------------------ MODULE Proc_proof ------------------------------
(***************************************************************************)
(* TLAPS proofs about the life of a process, for any number of slots, CPUs *)
(* and pids.                                                               *)
(***************************************************************************)
EXTENDS Proc, TLAPS

(* userinit() leaves one runnable process, with no parent and no child. *)
LEMMA ProcInit == Init => ProcInv
  <1> SUFFICES ASSUME Init PROVE ProcInv
      OBVIOUS
  <1> USE ProcAssumption DEF Init
  <1>1. TypeOK BY DEF TypeOK, State, PC
  <1>2. NoLostWakeup /\ ParentIsAlive /\ HasParent /\ InitAlive
        BY DEF NoLostWakeup, ParentIsAlive, HasParent, InitAlive, Zombies, Children
  <1>3. \A p \in Proc : ThreadOK(p) /\ WaitOK(p) /\ ForkOK(p)
        BY DEF ThreadOK, WaitOK, ForkOK
  <1> QED BY <1>1, <1>2, <1>3 DEF ProcInv

(* fork() takes a free slot: it has no parent and no thread yet. *)
LEMMA Step_fork ==
  ASSUME ProcInv, NEW p \in Proc, NEW c \in Proc, fork(p, c)
  PROVE  ProcInv'
  <1> USE ProcAssumption DEF fork, allocproc, allocpid, syscall, Running, acquire
  <1>1. TypeOK' BY DEF ProcInv, TypeOK, State, PC, ForkOK
  <1>2. NoLostWakeup'
        BY DEF ProcInv, TypeOK, NoLostWakeup, Zombies, Children, ThreadOK, WaitOK, ForkOK, InitAlive
  <1>3. ParentIsAlive'
        BY DEF ProcInv, TypeOK, ParentIsAlive, ThreadOK, ForkOK, InitAlive, Zombies, Children
  <1>4. HasParent'
        BY DEF ProcInv, TypeOK, HasParent, ForkOK, ThreadOK, InitAlive
  <1>5. InitAlive'
        BY DEF ProcInv, TypeOK, InitAlive, ForkOK, Zombies, Children
  <1>6. ASSUME NEW r \in Proc PROVE ThreadOK(r)'
        BY DEF ProcInv, TypeOK, ThreadOK, ForkOK
  <1>7. ASSUME NEW r \in Proc PROVE WaitOK(r)'
        BY DEF ProcInv, TypeOK, ThreadOK, WaitOK, ForkOK, Zombies, Children
  <1>8. ASSUME NEW r \in Proc PROVE ForkOK(r)'
        BY DEF ProcInv, TypeOK, ThreadOK, ForkOK, Zombies, Children
  <1> QED BY <1>1, <1>2, <1>3, <1>4, <1>5, <1>6, <1>7, <1>8 DEF ProcInv

(* A failed fork() leaves the free slot free. *)
LEMMA Step_fork_failed ==
  ASSUME ProcInv, NEW p \in Proc, NEW c \in Proc, fork_failed(p, c)
  PROVE  ProcInv'
  <1> USE ProcAssumption DEF fork_failed, allocpid, freeproc, syscall, Running, acquire
  <1>1. TypeOK' BY DEF ProcInv, TypeOK, State, PC, ForkOK
  <1>2. NoLostWakeup'
        BY DEF ProcInv, TypeOK, NoLostWakeup, Zombies, Children, ThreadOK, WaitOK, ForkOK, InitAlive
  <1>3. ParentIsAlive'
        BY DEF ProcInv, TypeOK, ParentIsAlive, ThreadOK, ForkOK, InitAlive, Zombies, Children
  <1>4. HasParent'
        BY DEF ProcInv, TypeOK, HasParent, ForkOK, ThreadOK, InitAlive
  <1>5. InitAlive'
        BY DEF ProcInv, TypeOK, InitAlive, ForkOK, Zombies, Children
  <1>6. ASSUME NEW r \in Proc PROVE ThreadOK(r)'
        BY DEF ProcInv, TypeOK, ThreadOK, ForkOK
  <1>7. ASSUME NEW r \in Proc PROVE WaitOK(r)'
        BY DEF ProcInv, TypeOK, ThreadOK, WaitOK, ForkOK, Zombies, Children
  <1>8. ASSUME NEW r \in Proc PROVE ForkOK(r)'
        BY DEF ProcInv, TypeOK, ThreadOK, ForkOK, Zombies, Children
  <1> QED BY <1>1, <1>2, <1>3, <1>4, <1>5, <1>6, <1>7, <1>8 DEF ProcInv

(* fork() makes itself the parent of np, and is alive. *)
LEMMA Step_fork_parent ==
  ASSUME ProcInv, NEW p \in Proc, fork_parent(p)
  PROVE  ProcInv'
  <1> USE ProcAssumption DEF fork_parent, Running
  <1>1. TypeOK' BY DEF ProcInv, TypeOK, State, PC, ForkOK
  <1>2. NoLostWakeup'
        BY DEF ProcInv, TypeOK, NoLostWakeup, Zombies, Children, ThreadOK, WaitOK, ForkOK, InitAlive
  <1>3. ParentIsAlive'
        BY DEF ProcInv, TypeOK, ParentIsAlive, ThreadOK, ForkOK, InitAlive, Zombies, Children
  <1>4. HasParent'
        BY DEF ProcInv, TypeOK, HasParent, ForkOK, ThreadOK, InitAlive
  <1>5. InitAlive'
        BY DEF ProcInv, TypeOK, InitAlive, ForkOK, Zombies, Children
  <1>6. ASSUME NEW r \in Proc PROVE ThreadOK(r)'
        BY DEF ProcInv, TypeOK, ThreadOK, ForkOK
  <1>7. ASSUME NEW r \in Proc PROVE WaitOK(r)'
        BY DEF ProcInv, TypeOK, ThreadOK, WaitOK, ForkOK, Zombies, Children
  <1>8. ASSUME NEW r \in Proc PROVE ForkOK(r)'
        BY DEF ProcInv, TypeOK, ThreadOK, ForkOK, Zombies, Children
  <1> QED BY <1>1, <1>2, <1>3, <1>4, <1>5, <1>6, <1>7, <1>8 DEF ProcInv

(* fork() lets the child run: it has its parent. *)
LEMMA Step_fork_run ==
  ASSUME ProcInv, NEW p \in Proc, fork_run(p)
  PROVE  ProcInv'
  <1> USE ProcAssumption DEF fork_run, Running, acquire
  <1>1. TypeOK' BY DEF ProcInv, TypeOK, State, PC, ForkOK
  <1>2. NoLostWakeup'
        BY DEF ProcInv, TypeOK, NoLostWakeup, Zombies, Children, ThreadOK, WaitOK, ForkOK, InitAlive
  <1>3. ParentIsAlive'
        BY DEF ProcInv, TypeOK, ParentIsAlive, ThreadOK, ForkOK, InitAlive, Zombies, Children
  <1>4. HasParent'
        BY DEF ProcInv, TypeOK, HasParent, ForkOK, ThreadOK, InitAlive
  <1>5. InitAlive'
        BY DEF ProcInv, TypeOK, InitAlive, ForkOK, Zombies, Children
  <1>6. ASSUME NEW r \in Proc PROVE ThreadOK(r)'
        BY DEF ProcInv, TypeOK, ThreadOK, ForkOK
  <1>7. ASSUME NEW r \in Proc PROVE WaitOK(r)'
        BY DEF ProcInv, TypeOK, ThreadOK, WaitOK, ForkOK, Zombies, Children
  <1>8. ASSUME NEW r \in Proc PROVE ForkOK(r)'
        BY DEF ProcInv, TypeOK, ThreadOK, ForkOK, Zombies, Children
  <1> QED BY <1>1, <1>2, <1>3, <1>4, <1>5, <1>6, <1>7, <1>8 DEF ProcInv

(* exit() up to the zombie state: p's children become init's. *)
LEMMA Step_exit ==
  ASSUME ProcInv, NEW p \in Proc, exit(p)
  PROVE  ProcInv'
  <1> USE ProcAssumption DEF exit, Running, acquire
  <1>1. /\ \A c \in Proc : parent'[c] = IF parent[c] = p THEN initproc ELSE parent[c]
        /\ \A q \in Proc : state'[q] # state[q] => state[q] = "SLEEPING" /\ state'[q] = "RUNNABLE"
        /\ \A q \in wakeups(p) \cap Proc : state'[q] # "SLEEPING"
        /\ parent[p] \in wakeups(p) /\ (Children(p) # {} => initproc \in wakeups(p))
        /\ p # initproc /\ parent[p] # p
        BY DEF ProcInv, TypeOK, reparent, wakeups, ThreadOK
  <1>2. /\ state \in [Proc -> State] /\ state' \in [Proc -> State]
        /\ parent' \in [Proc -> Proc \cup {NULL}]
        /\ pc'[p] = "exit_zombie" /\ \A q \in Proc \ {p} : pc'[q] = pc[q]
        /\ \A q \in Proc : pc[q] \notin {"wait_sleep", "exit_zombie"}
    <2>1. state' \in [Proc -> State] /\ state \in [Proc -> State]
          BY DEF ProcInv, TypeOK, State
    <2> QED BY <2>1 DEF ProcInv, TypeOK, PC, ThreadOK, reparent
  <1>3. TypeOK'
        BY <1>2 DEF ProcInv, TypeOK, PC
  <1>4. NoLostWakeup'
    <2>1. ASSUME NEW q \in Proc, NEW c \in Proc, state'[q] = "SLEEPING", chan[q] = q,
                 parent'[c] = q, state'[c] = "ZOMBIE"
          PROVE  FALSE
      <3>1. state[q] = "SLEEPING" /\ state[c] = "ZOMBIE"
            BY <2>1, <1>1, <1>2 DEF State
      <3>2. CASE parent[c] = p
            BY <3>2, <2>1, <1>1 DEF Children
      <3>3. CASE parent[c] # p
            BY <3>1, <3>3, <2>1, <1>1 DEF ProcInv, NoLostWakeup, Zombies, Children
      <3> QED BY <3>2, <3>3
    <2> QED BY <2>1 DEF NoLostWakeup, Zombies, Children
  <1>5. ParentIsAlive'
        BY <1>1, <1>2 DEF ProcInv, TypeOK, ParentIsAlive, InitAlive
  <1>6. HasParent'
        BY <1>1, <1>2 DEF ProcInv, HasParent
  <1>7. InitAlive'
        BY <1>1, <1>2 DEF ProcInv, InitAlive
  <1>8. ASSUME NEW r \in Proc PROVE ThreadOK(r)'
        BY <1>1, <1>2 DEF ProcInv, TypeOK, ThreadOK, ParentIsAlive, InitAlive
  <1>9. ASSUME NEW r \in Proc PROVE WaitOK(r)'
    <2>1. r # p => pc'[r] \notin {"wait_sleep", "exit_zombie"}
          BY <1>2
    <2>2. parent'[p] = parent[p]
          BY <1>1
    <2>3. parent[p] \in Proc
          BY <1>1 DEF ProcInv, TypeOK, HasParent
    <2> QED BY <2>1, <2>2, <2>3, <1>1, <1>2 DEF WaitOK
  <1>10. ASSUME NEW r \in Proc PROVE ForkOK(r)'
        BY <1>1, <1>2 DEF ProcInv, TypeOK, ForkOK
  <1> QED BY <1>3, <1>4, <1>5, <1>6, <1>7, <1>8, <1>9, <1>10 DEF ProcInv

(* exit() becomes a zombie: its parent is awake and has wait_lock to get. *)
LEMMA Step_exit_zombie ==
  ASSUME ProcInv, NEW p \in Proc, exit_zombie(p)
  PROVE  ProcInv'
  <1> USE ProcAssumption DEF exit_zombie, Running
  <1>1. TypeOK' BY DEF ProcInv, TypeOK, State, PC, ForkOK
  <1>2. NoLostWakeup'
        BY DEF ProcInv, TypeOK, NoLostWakeup, Zombies, Children, ThreadOK, WaitOK, ForkOK, InitAlive
  <1>3. ParentIsAlive'
        BY DEF ProcInv, TypeOK, ParentIsAlive, ThreadOK, ForkOK, InitAlive, Zombies, Children
  <1>4. HasParent'
        BY DEF ProcInv, TypeOK, HasParent, ForkOK, ThreadOK, InitAlive
  <1>5. InitAlive'
        BY DEF ProcInv, TypeOK, InitAlive, ForkOK, Zombies, Children
  <1>6. ASSUME NEW r \in Proc PROVE ThreadOK(r)'
        BY DEF ProcInv, TypeOK, ThreadOK, ForkOK
  <1>7. ASSUME NEW r \in Proc PROVE WaitOK(r)'
        BY DEF ProcInv, TypeOK, ThreadOK, WaitOK, ForkOK, Zombies, Children
  <1>8. ASSUME NEW r \in Proc PROVE ForkOK(r)'
        BY DEF ProcInv, TypeOK, ThreadOK, ForkOK, Zombies, Children
  <1> QED BY <1>1, <1>2, <1>3, <1>4, <1>5, <1>6, <1>7, <1>8 DEF ProcInv

(* init panics in exit(); the process table stays as it is. *)
LEMMA Step_exit_init ==
  ASSUME ProcInv, NEW p \in Proc, exit_init
  PROVE  ProcInv'
  <1> USE ProcAssumption DEF exit_init, Running, table
  <1>1. TypeOK' BY DEF ProcInv, TypeOK, State, PC, ForkOK
  <1>2. NoLostWakeup'
        BY DEF ProcInv, TypeOK, NoLostWakeup, Zombies, Children, ThreadOK, WaitOK, ForkOK, InitAlive
  <1>3. ParentIsAlive'
        BY DEF ProcInv, TypeOK, ParentIsAlive, ThreadOK, ForkOK, InitAlive, Zombies, Children
  <1>4. HasParent'
        BY DEF ProcInv, TypeOK, HasParent, ForkOK, ThreadOK, InitAlive
  <1>5. InitAlive'
        BY DEF ProcInv, TypeOK, InitAlive, ForkOK, Zombies, Children
  <1>6. ASSUME NEW r \in Proc PROVE ThreadOK(r)'
        BY DEF ProcInv, TypeOK, ThreadOK, ForkOK
  <1>7. ASSUME NEW r \in Proc PROVE WaitOK(r)'
        BY DEF ProcInv, TypeOK, ThreadOK, WaitOK, ForkOK, Zombies, Children
  <1>8. ASSUME NEW r \in Proc PROVE ForkOK(r)'
        BY DEF ProcInv, TypeOK, ThreadOK, ForkOK, Zombies, Children
  <1> QED BY <1>1, <1>2, <1>3, <1>4, <1>5, <1>6, <1>7, <1>8 DEF ProcInv

(* Nothing changes (also: panic() spins). *)
LEMMA Step_stutter ==
  ASSUME ProcInv, UNCHANGED vars
  PROVE  ProcInv'
  <1> USE ProcAssumption DEF vars
  <1>1. TypeOK' BY DEF ProcInv, TypeOK, State, PC, ForkOK
  <1>2. NoLostWakeup'
        BY DEF ProcInv, TypeOK, NoLostWakeup, Zombies, Children, ThreadOK, WaitOK, ForkOK, InitAlive
  <1>3. ParentIsAlive'
        BY DEF ProcInv, TypeOK, ParentIsAlive, ThreadOK, ForkOK, InitAlive, Zombies, Children
  <1>4. HasParent'
        BY DEF ProcInv, TypeOK, HasParent, ForkOK, ThreadOK, InitAlive
  <1>5. InitAlive'
        BY DEF ProcInv, TypeOK, InitAlive, ForkOK, Zombies, Children
  <1>6. ASSUME NEW r \in Proc PROVE ThreadOK(r)'
        BY DEF ProcInv, TypeOK, ThreadOK, ForkOK
  <1>7. ASSUME NEW r \in Proc PROVE WaitOK(r)'
        BY DEF ProcInv, TypeOK, ThreadOK, WaitOK, ForkOK, Zombies, Children
  <1>8. ASSUME NEW r \in Proc PROVE ForkOK(r)'
        BY DEF ProcInv, TypeOK, ThreadOK, ForkOK, Zombies, Children
  <1> QED BY <1>1, <1>2, <1>3, <1>4, <1>5, <1>6, <1>7, <1>8 DEF ProcInv

(* wait() is entered. *)
LEMMA Step_wait ==
  ASSUME ProcInv, NEW p \in Proc, wait(p)
  PROVE  ProcInv'
  <1> USE ProcAssumption DEF wait, syscall, Running, table
  <1>1. TypeOK' BY DEF ProcInv, TypeOK, State, PC, ForkOK
  <1>2. NoLostWakeup'
        BY DEF ProcInv, TypeOK, NoLostWakeup, Zombies, Children, ThreadOK, WaitOK, ForkOK, InitAlive
  <1>3. ParentIsAlive'
        BY DEF ProcInv, TypeOK, ParentIsAlive, ThreadOK, ForkOK, InitAlive, Zombies, Children
  <1>4. HasParent'
        BY DEF ProcInv, TypeOK, HasParent, ForkOK, ThreadOK, InitAlive
  <1>5. InitAlive'
        BY DEF ProcInv, TypeOK, InitAlive, ForkOK, Zombies, Children
  <1>6. ASSUME NEW r \in Proc PROVE ThreadOK(r)'
        BY DEF ProcInv, TypeOK, ThreadOK, ForkOK
  <1>7. ASSUME NEW r \in Proc PROVE WaitOK(r)'
        BY DEF ProcInv, TypeOK, ThreadOK, WaitOK, ForkOK, Zombies, Children
  <1>8. ASSUME NEW r \in Proc PROVE ForkOK(r)'
        BY DEF ProcInv, TypeOK, ThreadOK, ForkOK, Zombies, Children
  <1> QED BY <1>1, <1>2, <1>3, <1>4, <1>5, <1>6, <1>7, <1>8 DEF ProcInv

(* wait() frees the slot of an exited child, which had no children left. *)
LEMMA Step_wait_reap ==
  ASSUME ProcInv, NEW p \in Proc, NEW c \in Proc, wait_reap(p, c)
  PROVE  ProcInv'
  <1> USE ProcAssumption DEF wait_reap, freeproc, Running, acquire
  <1>1. TypeOK' BY DEF ProcInv, TypeOK, State, PC, ForkOK
  <1>2. NoLostWakeup'
        BY DEF ProcInv, TypeOK, NoLostWakeup, Zombies, Children, ThreadOK, WaitOK, ForkOK, InitAlive
  <1>3. ParentIsAlive'
        BY DEF ProcInv, TypeOK, ParentIsAlive, ThreadOK, ForkOK, InitAlive, Zombies, Children
  <1>4. HasParent'
        BY DEF ProcInv, TypeOK, HasParent, ForkOK, ThreadOK, InitAlive
  <1>5. InitAlive'
        BY DEF ProcInv, TypeOK, InitAlive, ForkOK, Zombies, Children
  <1>6. ASSUME NEW r \in Proc PROVE ThreadOK(r)'
        BY DEF ProcInv, TypeOK, ThreadOK, ForkOK, Zombies, Children
  <1>7. ASSUME NEW r \in Proc PROVE WaitOK(r)'
        BY DEF ProcInv, TypeOK, ThreadOK, WaitOK, ForkOK, Zombies, Children
  <1>8. ASSUME NEW r \in Proc PROVE ForkOK(r)'
        BY DEF ProcInv, TypeOK, ThreadOK, ForkOK, Zombies, Children
  <1> QED BY <1>1, <1>2, <1>3, <1>4, <1>5, <1>6, <1>7, <1>8 DEF ProcInv

(* wait() gives up on a bad address. *)
LEMMA Step_wait_fault ==
  ASSUME ProcInv, NEW p \in Proc, wait_fault(p)
  PROVE  ProcInv'
  <1> USE ProcAssumption DEF wait_fault, Running, acquire, table
  <1>1. TypeOK' BY DEF ProcInv, TypeOK, State, PC, ForkOK
  <1>2. NoLostWakeup'
        BY DEF ProcInv, TypeOK, NoLostWakeup, Zombies, Children, ThreadOK, WaitOK, ForkOK, InitAlive
  <1>3. ParentIsAlive'
        BY DEF ProcInv, TypeOK, ParentIsAlive, ThreadOK, ForkOK, InitAlive, Zombies, Children
  <1>4. HasParent'
        BY DEF ProcInv, TypeOK, HasParent, ForkOK, ThreadOK, InitAlive
  <1>5. InitAlive'
        BY DEF ProcInv, TypeOK, InitAlive, ForkOK, Zombies, Children
  <1>6. ASSUME NEW r \in Proc PROVE ThreadOK(r)'
        BY DEF ProcInv, TypeOK, ThreadOK, ForkOK
  <1>7. ASSUME NEW r \in Proc PROVE WaitOK(r)'
        BY DEF ProcInv, TypeOK, ThreadOK, WaitOK, ForkOK, Zombies, Children
  <1>8. ASSUME NEW r \in Proc PROVE ForkOK(r)'
        BY SMTT(30) DEF ProcInv, TypeOK, ThreadOK, ForkOK, Zombies, Children
  <1> QED BY <1>1, <1>2, <1>3, <1>4, <1>5, <1>6, <1>7, <1>8 DEF ProcInv

(* wait() has nothing to wait for. *)
LEMMA Step_wait_error ==
  ASSUME ProcInv, NEW p \in Proc, wait_error(p)
  PROVE  ProcInv'
  <1> USE ProcAssumption DEF wait_error, Running, acquire, table
  <1>1. TypeOK' BY DEF ProcInv, TypeOK, State, PC, ForkOK
  <1>2. NoLostWakeup'
        BY DEF ProcInv, TypeOK, NoLostWakeup, Zombies, Children, ThreadOK, WaitOK, ForkOK, InitAlive
  <1>3. ParentIsAlive'
        BY DEF ProcInv, TypeOK, ParentIsAlive, ThreadOK, ForkOK, InitAlive, Zombies, Children
  <1>4. HasParent'
        BY DEF ProcInv, TypeOK, HasParent, ForkOK, ThreadOK, InitAlive
  <1>5. InitAlive'
        BY DEF ProcInv, TypeOK, InitAlive, ForkOK, Zombies, Children
  <1>6. ASSUME NEW r \in Proc PROVE ThreadOK(r)'
        BY DEF ProcInv, TypeOK, ThreadOK, ForkOK
  <1>7. ASSUME NEW r \in Proc PROVE WaitOK(r)'
        BY DEF ProcInv, TypeOK, ThreadOK, WaitOK, ForkOK, Zombies, Children
  <1>8. ASSUME NEW r \in Proc PROVE ForkOK(r)'
        BY SMTT(20) DEF ProcInv, TypeOK, ThreadOK, ForkOK, Zombies, Children
  <1> QED BY <1>1, <1>2, <1>3, <1>4, <1>5, <1>6, <1>7, <1>8 DEF ProcInv

(* wait() has found no zombie and keeps wait_lock. *)
LEMMA Step_wait_block ==
  ASSUME ProcInv, NEW p \in Proc, wait_block(p)
  PROVE  ProcInv'
  <1> USE ProcAssumption DEF wait_block, Running, acquire, table
  <1>1. TypeOK' BY DEF ProcInv, TypeOK, State, PC, ForkOK
  <1>2. NoLostWakeup'
        BY DEF ProcInv, TypeOK, NoLostWakeup, Zombies, Children, ThreadOK, WaitOK, ForkOK, InitAlive
  <1>3. ParentIsAlive'
        BY DEF ProcInv, TypeOK, ParentIsAlive, ThreadOK, ForkOK, InitAlive, Zombies, Children
  <1>4. HasParent'
        BY DEF ProcInv, TypeOK, HasParent, ForkOK, ThreadOK, InitAlive
  <1>5. InitAlive'
        BY DEF ProcInv, TypeOK, InitAlive, ForkOK, Zombies, Children
  <1>6. ASSUME NEW r \in Proc PROVE ThreadOK(r)'
        BY DEF ProcInv, TypeOK, ThreadOK, ForkOK
  <1>7. ASSUME NEW r \in Proc PROVE WaitOK(r)'
        BY DEF ProcInv, TypeOK, ThreadOK, WaitOK, ForkOK, Zombies, Children
  <1>8. ASSUME NEW r \in Proc PROVE ForkOK(r)'
        BY DEF ProcInv, TypeOK, ThreadOK, ForkOK, Zombies, Children
  <1> QED BY <1>1, <1>2, <1>3, <1>4, <1>5, <1>6, <1>7, <1>8 DEF ProcInv

(* wait() goes to sleep, still without a zombie. *)
LEMMA Step_wait_sleep ==
  ASSUME ProcInv, NEW p \in Proc, wait_sleep(p)
  PROVE  ProcInv'
  <1> USE ProcAssumption DEF wait_sleep, Running
  <1>1. TypeOK' BY DEF ProcInv, TypeOK, State, PC, ForkOK
  <1>2. NoLostWakeup'
        BY DEF ProcInv, TypeOK, NoLostWakeup, Zombies, Children, ThreadOK, WaitOK, ForkOK, InitAlive
  <1>3. ParentIsAlive'
        BY DEF ProcInv, TypeOK, ParentIsAlive, ThreadOK, ForkOK, InitAlive, Zombies, Children
  <1>4. HasParent'
        BY DEF ProcInv, TypeOK, HasParent, ForkOK, ThreadOK, InitAlive
  <1>5. InitAlive'
        BY DEF ProcInv, TypeOK, InitAlive, ForkOK, Zombies, Children
  <1>6. ASSUME NEW r \in Proc PROVE ThreadOK(r)'
        BY DEF ProcInv, TypeOK, ThreadOK, ForkOK
  <1>7. ASSUME NEW r \in Proc PROVE WaitOK(r)'
        BY DEF ProcInv, TypeOK, ThreadOK, WaitOK, ForkOK, Zombies, Children
  <1>8. ASSUME NEW r \in Proc PROVE ForkOK(r)'
        BY SMTT(30) DEF ProcInv, TypeOK, ThreadOK, ForkOK, Zombies, Children
  <1> QED BY <1>1, <1>2, <1>3, <1>4, <1>5, <1>6, <1>7, <1>8 DEF ProcInv

(* kill() can only wake its victim. *)
LEMMA Step_kill ==
  ASSUME ProcInv, NEW p \in Proc, NEW q \in Proc, kill(p, q)
  PROVE  ProcInv'
  <1> USE ProcAssumption DEF kill, syscall, Running, acquire
  <1>1. TypeOK' BY DEF ProcInv, TypeOK, State, PC, ForkOK
  <1>2. NoLostWakeup'
        BY DEF ProcInv, TypeOK, NoLostWakeup, Zombies, Children, ThreadOK, WaitOK, ForkOK, InitAlive
  <1>3. ParentIsAlive'
        BY DEF ProcInv, TypeOK, ParentIsAlive, ThreadOK, ForkOK, InitAlive, Zombies, Children
  <1>4. HasParent'
        BY DEF ProcInv, TypeOK, HasParent, ForkOK, ThreadOK, InitAlive
  <1>5. InitAlive'
        BY DEF ProcInv, TypeOK, InitAlive, ForkOK, Zombies, Children
  <1>6. ASSUME NEW r \in Proc PROVE ThreadOK(r)'
        BY DEF ProcInv, TypeOK, ThreadOK, ForkOK
  <1>7. ASSUME NEW r \in Proc PROVE WaitOK(r)'
        BY DEF ProcInv, TypeOK, ThreadOK, WaitOK, ForkOK, Zombies, Children
  <1>8. ASSUME NEW r \in Proc PROVE ForkOK(r)'
        BY SMTT(20) DEF ProcInv, TypeOK, ThreadOK, ForkOK, Zombies, Children
  <1> QED BY <1>1, <1>2, <1>3, <1>4, <1>5, <1>6, <1>7, <1>8 DEF ProcInv

(* A trap marks the process itself. *)
LEMMA Step_setkilled ==
  ASSUME ProcInv, NEW p \in Proc, setkilled(p)
  PROVE  ProcInv'
  <1> USE ProcAssumption DEF setkilled, Running
  <1>1. TypeOK' BY DEF ProcInv, TypeOK, State, PC, ForkOK
  <1>2. NoLostWakeup'
        BY DEF ProcInv, TypeOK, NoLostWakeup, Zombies, Children, ThreadOK, WaitOK, ForkOK, InitAlive
  <1>3. ParentIsAlive'
        BY DEF ProcInv, TypeOK, ParentIsAlive, ThreadOK, ForkOK, InitAlive, Zombies, Children
  <1>4. HasParent'
        BY DEF ProcInv, TypeOK, HasParent, ForkOK, ThreadOK, InitAlive
  <1>5. InitAlive'
        BY DEF ProcInv, TypeOK, InitAlive, ForkOK, Zombies, Children
  <1>6. ASSUME NEW r \in Proc PROVE ThreadOK(r)'
        BY DEF ProcInv, TypeOK, ThreadOK, ForkOK
  <1>7. ASSUME NEW r \in Proc PROVE WaitOK(r)'
        BY DEF ProcInv, TypeOK, ThreadOK, WaitOK, ForkOK, Zombies, Children
  <1>8. ASSUME NEW r \in Proc PROVE ForkOK(r)'
        BY DEF ProcInv, TypeOK, ThreadOK, ForkOK, Zombies, Children
  <1> QED BY <1>1, <1>2, <1>3, <1>4, <1>5, <1>6, <1>7, <1>8 DEF ProcInv

(* The timer preempts a thread that holds no spinlock. *)
LEMMA Step_yield ==
  ASSUME ProcInv, NEW p \in Proc, yield(p)
  PROVE  ProcInv'
  <1> USE ProcAssumption DEF yield, Running
  <1>1. TypeOK' BY DEF ProcInv, TypeOK, State, PC, ForkOK
  <1>2. NoLostWakeup'
        BY DEF ProcInv, TypeOK, NoLostWakeup, Zombies, Children, ThreadOK, WaitOK, ForkOK, InitAlive
  <1>3. ParentIsAlive'
        BY DEF ProcInv, TypeOK, ParentIsAlive, ThreadOK, ForkOK, InitAlive, Zombies, Children
  <1>4. HasParent'
        BY DEF ProcInv, TypeOK, HasParent, ForkOK, ThreadOK, InitAlive
  <1>5. InitAlive'
        BY DEF ProcInv, TypeOK, InitAlive, ForkOK, Zombies, Children
  <1>6. ASSUME NEW r \in Proc PROVE ThreadOK(r)'
        BY DEF ProcInv, TypeOK, ThreadOK, ForkOK
  <1>7. ASSUME NEW r \in Proc PROVE WaitOK(r)'
        BY DEF ProcInv, TypeOK, ThreadOK, WaitOK, ForkOK, Zombies, Children
  <1>8. ASSUME NEW r \in Proc PROVE ForkOK(r)'
        BY DEF ProcInv, TypeOK, ThreadOK, ForkOK, Zombies, Children
  <1> QED BY <1>1, <1>2, <1>3, <1>4, <1>5, <1>6, <1>7, <1>8 DEF ProcInv

(* The scheduler releases p->lock. *)
LEMMA Step_swtch ==
  ASSUME ProcInv, NEW p \in Proc, swtch(p)
  PROVE  ProcInv'
  <1> USE ProcAssumption DEF swtch, table
  <1>1. TypeOK' BY DEF ProcInv, TypeOK, State, PC, ForkOK
  <1>2. NoLostWakeup'
        BY DEF ProcInv, TypeOK, NoLostWakeup, Zombies, Children, ThreadOK, WaitOK, ForkOK, InitAlive
  <1>3. ParentIsAlive'
        BY DEF ProcInv, TypeOK, ParentIsAlive, ThreadOK, ForkOK, InitAlive, Zombies, Children
  <1>4. HasParent'
        BY DEF ProcInv, TypeOK, HasParent, ForkOK, ThreadOK, InitAlive
  <1>5. InitAlive'
        BY DEF ProcInv, TypeOK, InitAlive, ForkOK, Zombies, Children
  <1>6. ASSUME NEW r \in Proc PROVE ThreadOK(r)'
        BY DEF ProcInv, TypeOK, ThreadOK, ForkOK
  <1>7. ASSUME NEW r \in Proc PROVE WaitOK(r)'
        BY DEF ProcInv, TypeOK, ThreadOK, WaitOK, ForkOK, Zombies, Children
  <1>8. ASSUME NEW r \in Proc PROVE ForkOK(r)'
        BY DEF ProcInv, TypeOK, ThreadOK, ForkOK, Zombies, Children
  <1> QED BY <1>1, <1>2, <1>3, <1>4, <1>5, <1>6, <1>7, <1>8 DEF ProcInv

(* The scheduler runs a process. *)
LEMMA Step_scheduler ==
  ASSUME ProcInv, NEW p \in Proc, scheduler(p)
  PROVE  ProcInv'
  <1> USE ProcAssumption DEF scheduler, acquire
  <1>1. TypeOK' BY DEF ProcInv, TypeOK, State, PC, ForkOK
  <1>2. NoLostWakeup'
        BY DEF ProcInv, TypeOK, NoLostWakeup, Zombies, Children, ThreadOK, WaitOK, ForkOK, InitAlive
  <1>3. ParentIsAlive'
        BY DEF ProcInv, TypeOK, ParentIsAlive, ThreadOK, ForkOK, InitAlive, Zombies, Children
  <1>4. HasParent'
        BY DEF ProcInv, TypeOK, HasParent, ForkOK, ThreadOK, InitAlive
  <1>5. InitAlive'
        BY DEF ProcInv, TypeOK, InitAlive, ForkOK, Zombies, Children
  <1>6. ASSUME NEW r \in Proc PROVE ThreadOK(r)'
        BY DEF ProcInv, TypeOK, ThreadOK, ForkOK
  <1>7. ASSUME NEW r \in Proc PROVE WaitOK(r)'
        BY DEF ProcInv, TypeOK, ThreadOK, WaitOK, ForkOK, Zombies, Children
  <1>8. ASSUME NEW r \in Proc PROVE ForkOK(r)'
        BY DEF ProcInv, TypeOK, ThreadOK, ForkOK, Zombies, Children
  <1> QED BY <1>1, <1>2, <1>3, <1>4, <1>5, <1>6, <1>7, <1>8 DEF ProcInv

(* Whatever a process, the timer or the scheduler does keeps ProcInv. *)
LEMMA ProcStep == ProcInv /\ [Next]_vars => ProcInv'
  BY Step_fork, Step_fork_failed, Step_fork_parent, Step_fork_run, Step_exit, Step_exit_zombie,
     Step_exit_init, Step_stutter, Step_wait, Step_wait_reap, Step_wait_fault, Step_wait_error,
     Step_wait_block, Step_wait_sleep, Step_kill, Step_setkilled, Step_yield, Step_swtch,
     Step_scheduler
  DEF Next, panic

(***************************************************************************)
(* For any number of slots: nobody sleeps in wait() with an exited child,  *)
(* every process past fork() other than init has a parent, and that parent *)
(* is alive and has not yet given its children away.                       *)
(***************************************************************************)
THEOREM WaitSeesExit == Spec => [](ProcInv /\ NoLostWakeup /\ ParentIsAlive /\ HasParent)
  <1>1. ProcInv => NoLostWakeup /\ ParentIsAlive /\ HasParent
        BY DEF ProcInv
  <1> QED BY <1>1, ProcInit, ProcStep, PTL DEF Spec

(***************************************************************************)
(* For any number of slots: a slot is neither freed nor reused while its   *)
(* old thread is still switching away from it.                             *)
(***************************************************************************)
THEOREM StackSafe == Spec => StackNotReused
  <1>1. ASSUME ProcInv, [Next]_vars, NEW p \in Proc, p \in held
        PROVE  state'[p] # "UNUSED" /\ pid'[p] = pid[p]
    <2>1. state[p] \in {"SLEEPING", "RUNNABLE", "ZOMBIE"} /\ state \in [Proc -> State] /\ pid \in [Proc -> Nat]
          BY <1>1 DEF ProcInv, TypeOK, ThreadOK
    <2>2. CASE UNCHANGED vars
          BY <2>1, <2>2 DEF vars
    <2>3. ASSUME NEW q \in Proc, NEW c \in Proc, fork(q, c) \/ fork_failed(q, c) \/ wait_reap(q, c)
          PROVE  state'[p] # "UNUSED" /\ pid'[p] = pid[p]
          BY <2>1, <2>3, <1>1, SMTT(20) DEF fork, fork_failed, wait_reap, allocproc, freeproc, acquire
    <2>4. ASSUME NEW q \in Proc,
                 \/ fork_parent(q) \/ fork_run(q) \/ exit(q) \/ exit_zombie(q) \/ exit_init \/ panic(q)
                 \/ wait(q) \/ wait_fault(q) \/ wait_error(q) \/ wait_block(q) \/ wait_sleep(q)
                 \/ \E r \in Proc : kill(q, r)
                 \/ setkilled(q) \/ yield(q) \/ swtch(q) \/ scheduler(q)
          PROVE  state'[p] # "UNUSED" /\ pid'[p] = pid[p]
          BY <2>1, <2>4 DEF fork_parent, fork_run, exit, exit_zombie, exit_init, panic, wait, wait_fault,
             wait_error, wait_block, wait_sleep, kill, setkilled, yield, swtch, scheduler, table, vars
    <2> QED BY <2>2, <2>3, <2>4, <1>1 DEF Next
  <1>2. ProcInv /\ [Next]_vars =>
          [\A p \in Proc : p \in held => state'[p] # "UNUSED" /\ pid'[p] = pid[p]]_vars
        BY <1>1
  <1> QED BY <1>2, ProcInit, ProcStep, PTL DEF Spec, StackNotReused

(***************************************************************************)
(* A step that gives out no pid, frees no slot and touches nothing in the  *)
(* free ones leaves the slots sound.                                       *)
(***************************************************************************)
LEMMA SlotsUntouched ==
  ASSUME SlotsSound, UNCHANGED <<pid, nextpid>>,
         \A q \in Proc : state'[q] = "UNUSED" <=> state[q] = "UNUSED",
         \A q \in Proc : state[q] = "UNUSED" =>
           killed'[q] = killed[q] /\ parent'[q] = parent[q] /\ chan'[q] = chan[q]
  PROVE  SlotsSound'
  BY DEF SlotsSound, PidsUnique, FreeSlotClean, PidsIssued

(* allocpid() gives out a pid that no slot has. *)
LEMMA SlotsFork ==
  ASSUME ProcInv, SlotsSound, NEW p \in Proc, NEW c \in Proc, fork(p, c)
  PROVE  SlotsSound'
  <1>1. /\ pid' = [pid EXCEPT ![c] = nextpid] /\ nextpid' = nextpid + 1
        /\ state' = [state EXCEPT ![c] = "USED"] /\ UNCHANGED <<killed, parent, chan>>
        /\ state[c] = "UNUSED"
        BY DEF fork, allocproc, allocpid
  <1>2. pid \in [Proc -> Nat] /\ nextpid \in Nat /\ state \in [Proc -> State]
        BY DEF ProcInv, TypeOK
  <1>3. \A q \in Proc : pid[q] < nextpid
        BY <1>2 DEF SlotsSound, FreeSlotClean, PidsIssued
  <1>4. PidsUnique'
        BY <1>1, <1>2, <1>3 DEF SlotsSound, PidsUnique
  <1>5. FreeSlotClean'
        BY <1>1, <1>2 DEF SlotsSound, FreeSlotClean
  <1>6. PidsIssued'
        BY <1>1, <1>2 DEF SlotsSound, PidsIssued
  <1> QED BY <1>4, <1>5, <1>6 DEF SlotsSound

(* freeproc() takes the pid back and cleans the slot. *)
LEMMA SlotsFree ==
  ASSUME ProcInv, SlotsSound, NEW c \in Proc, freeproc(c), nextpid' \in Nat, nextpid' >= nextpid
  PROVE  SlotsSound'
  <1>1. /\ pid \in [Proc -> Nat] /\ nextpid \in Nat /\ state \in [Proc -> State]
        /\ killed \in [Proc -> BOOLEAN] /\ parent \in [Proc -> Proc \cup {NULL}]
        /\ chan \in [Proc -> Proc \cup {NULL}]
        BY DEF ProcInv, TypeOK
  <1>2. PidsUnique'
        BY <1>1 DEF freeproc, SlotsSound, PidsUnique, PidsIssued
  <1>3. FreeSlotClean'
        BY <1>1 DEF freeproc, SlotsSound, FreeSlotClean
  <1>4. PidsIssued'
        BY <1>1 DEF freeproc, SlotsSound, PidsIssued
  <1> QED BY <1>2, <1>3, <1>4 DEF SlotsSound

(* Whatever a process, the timer or the scheduler does keeps SlotsSound,   *)
(* if nobody calls kill(0): then kill() never finds a free slot.           *)
LEMMA SlotsStep ==
  ASSUME 0 \notin KillPids, ProcInv, SlotsSound, [Next]_vars
  PROVE  SlotsSound'
  <1> USE ProcAssumption
  <1> DEFINE Untouched ==
        /\ UNCHANGED <<pid, nextpid>>
        /\ \A q \in Proc : state'[q] = "UNUSED" <=> state[q] = "UNUSED"
        /\ \A q \in Proc : state[q] = "UNUSED" =>
             killed'[q] = killed[q] /\ parent'[q] = parent[q] /\ chan'[q] = chan[q]
  <1>1. CASE UNCHANGED vars
        BY <1>1, SlotsUntouched DEF vars
  <1>2. ASSUME NEW p \in Proc, NEW c \in Proc, fork(p, c) PROVE SlotsSound'
        BY <1>2, SlotsFork
  <1>3. ASSUME NEW p \in Proc, NEW c \in Proc, fork_failed(p, c) PROVE SlotsSound'
    <2>1. nextpid' \in Nat /\ nextpid' >= nextpid /\ freeproc(c)
          BY <1>3 DEF fork_failed, allocpid, ProcInv, TypeOK
    <2> QED BY <2>1, SlotsFree
  <1>4. ASSUME NEW p \in Proc, NEW c \in Proc, wait_reap(p, c) PROVE SlotsSound'
    <2>1. nextpid' \in Nat /\ nextpid' >= nextpid /\ freeproc(c)
          BY <1>4 DEF wait_reap, ProcInv, TypeOK
    <2> QED BY <2>1, SlotsFree
  <1>5. ASSUME NEW p \in Proc, fork_parent(p) PROVE Untouched
        BY <1>5 DEF fork_parent, ProcInv, TypeOK, ForkOK
  <1>6. ASSUME NEW p \in Proc, fork_run(p) PROVE Untouched
        BY <1>6 DEF fork_run, ProcInv, TypeOK, ForkOK
  <1>7. ASSUME NEW p \in Proc, exit(p) PROVE Untouched
        BY <1>7 DEF exit, reparent, ProcInv, TypeOK, ThreadOK
  <1>8. ASSUME NEW p \in Proc, NEW q \in Proc, kill(p, q) PROVE Untouched
        BY <1>8 DEF kill, ProcInv, TypeOK, SlotsSound, FreeSlotClean
  <1>9. ASSUME NEW p \in Proc,
               exit_zombie(p) \/ setkilled(p) \/ yield(p) \/ wait_sleep(p) \/ scheduler(p)
        PROVE  Untouched
        BY <1>9 DEF exit_zombie, setkilled, yield, wait_sleep, scheduler, Running, ProcInv, TypeOK
  <1>10. ASSUME NEW p \in Proc,
                \/ exit_init \/ panic(p) \/ wait(p) \/ wait_fault(p) \/ wait_error(p)
                \/ wait_block(p) \/ swtch(p)
         PROVE  Untouched
         BY <1>10 DEF exit_init, panic, wait, wait_fault, wait_error, wait_block, swtch, table, vars
  <1>11. Untouched => SlotsSound'
         BY SlotsUntouched
  <1> HIDE DEF Untouched
  <1> QED BY <1>1, <1>2, <1>3, <1>4, <1>5, <1>6, <1>7, <1>8, <1>9, <1>10, <1>11 DEF Next

(***************************************************************************)
(* For any number of slots, as long as nobody calls kill(0): a pid names   *)
(* one process, and a free slot is as freeproc() left it, so that what     *)
(* allocproc() does not clear is clear.                                    *)
(***************************************************************************)
THEOREM SlotsAreSound ==
  ASSUME 0 \notin KillPids
  PROVE  Spec => []SlotsSound
  <1>1. Init => SlotsSound
        BY ProcAssumption DEF Init, SlotsSound, PidsUnique, FreeSlotClean, PidsIssued
  <1>2. ProcInv /\ SlotsSound /\ [Next]_vars => SlotsSound'
        BY SlotsStep
  <1> QED BY <1>1, <1>2, ProcInit, ProcStep, PTL DEF Spec
===============================================================================
