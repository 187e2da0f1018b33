----------------------------- MODULE PriorityList -----------------------------
(***************************************************************************)
(* The per-priority process lists of kernel/proc.c (struct                 *)
(* priorities_control p_control): allocproc() appends a new process to the *)
(* list of its priority, exit() takes it off, both while holding           *)
(* priority_lock.  The loops that walk a list are stepped one pointer at a *)
(* time, so that a walk that never ends, or that runs off the end of the   *)
(* list, is a behaviour of the model.                                      *)
(*                                                                         *)
(* A list operation works on one slot p of the process table, whose        *)
(* p->lock its caller holds; it is indexed by that slot.                   *)
(***************************************************************************)
EXTENDS Naturals

CONSTANTS Proc,             \* the slots of proc[NPROC]
          NULL,
          MAXPRIORITY,
          UserinitPriority, \* the priority userinit() asks allocproc() for
          OtherPriorities   \* priorities that callers may ask for besides the
                            \* one fork() inherits: {} in the kernel as it is

Priority == 0 .. MAXPRIORITY - 1

ASSUME PriorityListAssumption ==
  /\ NULL \notin Proc
  /\ MAXPRIORITY \in Nat \ {0, 1}
  /\ UserinitPriority \in Priority
  /\ OtherPriorities \subseteq Priority

VARIABLES
  initproc,       \* the first process, NULL before userinit()
  state,          \* p->state; "USED" stands for every state of a live process
  priority,       \* p->priority
  next,           \* p->next_p_priority
  head,           \* p_control.head_priority
  present,        \* p_control.present
  priority_lock,  \* the slot whose operation holds priority_lock, or NULL
  pc,             \* where the list operation on slot p is
  aux,            \* aux_p / p_aux, the cursor of the walk
  before,         \* history: the pairs <<q, p>> of listed processes of one
                  \* priority such that q was appended before p
  failed          \* history: some fork() failed after allocproc()

control == <<head, present>>
vars == <<initproc, state, priority, next, head, present, priority_lock, pc,
          aux, before, failed>>

PC == {"idle", "add", "add_walk", "copy", "free", "free_walk"}

(* allocproc() has appended p and exit() has not removed it. *)
IsListed(p) == \/ state[p] = "USED" /\ pc[p] \in {"idle", "copy"}
               \/ pc[p] \in {"free", "free_walk"}

Listed(i) == {p \in Proc : priority[p] = i /\ IsListed(p)}

procinit ==
  /\ state = [p \in Proc |-> "UNUSED"]
  /\ priority = [p \in Proc |-> 1]
  /\ next = [p \in Proc |-> NULL]

init_priority_control ==
  /\ priority_lock = NULL
  /\ head = [i \in Priority |-> NULL]
  /\ present = [i \in Priority |-> 0]

Init ==
  /\ procinit
  /\ init_priority_control
  /\ initproc = NULL
  /\ pc = [p \in Proc |-> "idle"]
  /\ aux = [p \in Proc |-> NULL]
  /\ before = {}
  /\ failed = FALSE

(* acquire(&priority_lock) succeeds.  (Mutant: the lock is not taken.) *)
acquire_nothing == TRUE
acquire_priority_lock == priority_lock = NULL

(***************************************************************************)
(* allocproc(pri) up to the acquisition of priority_lock.  (When kalloc()  *)
(* fails here the slot goes back to UNUSED with the lists untouched.)      *)
(***************************************************************************)
allocproc(p, pri) ==
  /\ state[p] = "UNUSED" /\ pc[p] = "idle"
  /\ state' = [state EXCEPT ![p] = "USED"]
  /\ priority' = [priority EXCEPT ![p] = pri]
  /\ pc' = [pc EXCEPT ![p] = "add"]
  /\ UNCHANGED <<next, control, priority_lock, aux, before>>

(* userinit(): the first process, created before any other can run. *)
userinit(p) ==
  /\ initproc = NULL
  /\ initproc' = p
  /\ allocproc(p, UserinitPriority)

(***************************************************************************)
(* fork() by the live process q: the child inherits q's priority.  With    *)
(* OtherPriorities the list code is exercised as its interface allows,     *)
(* allocproc(int priority), beyond what its one caller makes of it.        *)
(***************************************************************************)
fork(q, p) ==
  /\ state[q] = "USED" /\ pc[q] = "idle"
  /\ \E pri \in {priority[q]} \cup OtherPriorities : allocproc(p, pri)
  /\ UNCHANGED initproc

(* What appending p does to the history. *)
Appended(p) == before \cup (Listed(priority[p]) \X {p})

(***************************************************************************)
(* acquire(&priority_lock); present = 1; add_process_priority() up to its  *)
(* loop.  With an empty list the operation is over.                        *)
(***************************************************************************)
add_process_priority(p) ==
  LET pri == priority[p] IN
  /\ pc[p] = "add" /\ acquire_priority_lock
  /\ present' = [present EXCEPT ![pri] = 1]
  /\ \/ /\ head[pri] = NULL
        /\ head' = [head EXCEPT ![pri] = p]
        /\ pc' = [pc EXCEPT ![p] = "copy"]
        /\ before' = Appended(p)
        /\ UNCHANGED <<priority_lock, aux>>
     \/ /\ head[pri] # NULL
        /\ aux' = [aux EXCEPT ![p] = head[pri]]
        /\ priority_lock' = p
        /\ pc' = [pc EXCEPT ![p] = "add_walk"]
        /\ UNCHANGED <<head, before>>
  /\ UNCHANGED <<initproc, state, priority, next>>

(* One iteration of the loop, or its end: link p and release the lock. *)
add_walk(p) ==
  /\ pc[p] = "add_walk"
  /\ \/ /\ next[aux[p]] # NULL
        /\ aux' = [aux EXCEPT ![p] = next[aux[p]]]
        /\ UNCHANGED <<next, priority_lock, pc, before>>
     \/ /\ next[aux[p]] = NULL
        /\ next' = [next EXCEPT ![aux[p]] = p]
        /\ priority_lock' = NULL
        /\ pc' = [pc EXCEPT ![p] = "copy"]
        /\ before' = Appended(p)
        /\ UNCHANGED aux
  /\ UNCHANGED <<initproc, state, priority, control>>

(* The rest of fork() or userinit(): the child becomes runnable. *)
fork_done(p) ==
  /\ pc[p] = "copy"
  /\ pc' = [pc EXCEPT ![p] = "idle"]
  /\ UNCHANGED <<initproc, state, priority, next, control, priority_lock, aux,
                 before>>

(* What removing p does to the history. *)
Removed(p) == {e \in before : e[1] # p /\ e[2] # p}

(* uvmcopy() fails in fork(): freeproc(np) and return -1. *)
fork_failed(p) ==
  /\ pc[p] = "copy" /\ p # initproc
  /\ state' = [state EXCEPT ![p] = "UNUSED"]
  /\ pc' = [pc EXCEPT ![p] = "idle"]
  /\ before' = Removed(p)
  /\ UNCHANGED <<initproc, priority, next, control, priority_lock, aux>>

(* exit() up to the acquisition of priority_lock. *)
exit(p) ==
  /\ state[p] = "USED" /\ pc[p] = "idle" /\ p # initproc
  /\ state' = [state EXCEPT ![p] = "ZOMBIE"]
  /\ pc' = [pc EXCEPT ![p] = "free"]
  /\ UNCHANGED <<initproc, priority, next, control, priority_lock, aux,
                 before>>

(* free_process_priority() when p heads its list. *)
unlink_head(p) ==
  LET pri == priority[p] IN
  IF next[p] = NULL
    THEN /\ present' = [present EXCEPT ![pri] = 0]
         /\ head' = [head EXCEPT ![pri] = NULL]
         /\ UNCHANGED next
    ELSE /\ head' = [head EXCEPT ![pri] = next[p]]
         /\ next' = [next EXCEPT ![p] = NULL]
         /\ UNCHANGED present

(* acquire(&priority_lock); free_process_priority() up to its loop. *)
free_process_priority(p) ==
  /\ pc[p] = "free" /\ acquire_priority_lock
  /\ aux' = [aux EXCEPT ![p] = head[priority[p]]]
  /\ \/ /\ head[priority[p]] = p
        /\ unlink_head(p)
        /\ pc' = [pc EXCEPT ![p] = "idle"]
        /\ before' = Removed(p)
        /\ UNCHANGED priority_lock
     \/ /\ head[priority[p]] # p
        /\ priority_lock' = p
        /\ pc' = [pc EXCEPT ![p] = "free_walk"]
        /\ UNCHANGED <<next, control, before>>
  /\ UNCHANGED <<initproc, state, priority>>

(* Mutants: the rest of the list is dropped; p keeps its pointer. *)
unlink_after_drops(p) == [next EXCEPT ![aux[p]] = NULL, ![p] = NULL]
unlink_after_stale(p) == [next EXCEPT ![aux[p]] = next[p]]

(* The pointers after p is taken out from behind p_aux. *)
unlink_after(p) == [next EXCEPT ![aux[p]] = next[p], ![p] = NULL]

(***************************************************************************)
(* One iteration of the loop, or its end: unlink p and release the lock.   *)
(* With p_aux = NULL the load traps and the CPU stays in panic().          *)
(***************************************************************************)
free_walk(p) ==
  /\ pc[p] = "free_walk" /\ aux[p] # NULL
  /\ \/ /\ next[aux[p]] # p
        /\ aux' = [aux EXCEPT ![p] = next[aux[p]]]
        /\ UNCHANGED <<next, priority_lock, pc, before>>
     \/ /\ next[aux[p]] = p
        /\ next' = unlink_after(p)
        /\ priority_lock' = NULL
        /\ pc' = [pc EXCEPT ![p] = "idle"]
        /\ before' = Removed(p)
        /\ UNCHANGED aux
  /\ UNCHANGED <<initproc, state, priority, control>>

(* wait() reaps the zombie: freeproc(), which leaves the list fields alone. *)
wait(p) ==
  /\ state[p] = "ZOMBIE" /\ pc[p] = "idle"
  /\ state' = [state EXCEPT ![p] = "UNUSED"]
  /\ UNCHANGED <<initproc, priority, next, control, priority_lock, pc, aux,
                 before>>

Walk(p) == add_walk(p) \/ free_walk(p)

(* Every step but the failure of a fork(). *)
ListStep(p) ==
  \/ userinit(p)
  \/ \E q \in Proc : fork(q, p)
  \/ add_process_priority(p)
  \/ add_walk(p)
  \/ fork_done(p)
  \/ exit(p)
  \/ free_process_priority(p)
  \/ free_walk(p)
  \/ wait(p)

Next ==
  \E p \in Proc :
    \/ ListStep(p) /\ UNCHANGED failed
    \/ fork_failed(p) /\ failed' = TRUE

Spec == Init /\ [][Next]_vars

(* A CPU inside a list operation has interrupts off and runs on.  The      *)
(* spinlock itself is not fair, so only the walks are.                     *)
FairSpec == Spec /\ \A p \in Proc : WF_vars(Walk(p) /\ UNCHANGED failed)
-------------------------------------------------------------------------------
TypeOK ==
  /\ initproc \in Proc \cup {NULL}
  /\ state \in [Proc -> {"UNUSED", "USED", "ZOMBIE"}]
  /\ priority \in [Proc -> Priority]
  /\ next \in [Proc -> Proc \cup {NULL}]
  /\ head \in [Priority -> Proc \cup {NULL}]
  /\ present \in [Priority -> {0, 1}]
  /\ priority_lock \in Proc \cup {NULL}
  /\ pc \in [Proc -> PC]
  /\ aux \in [Proc -> Proc \cup {NULL}]
  /\ before \in SUBSET (Proc \X Proc)

Precedes(q, p) == <<q, p>> \in before

(* head_priority[i] is the oldest listed process of priority i. *)
HeadIsOldest ==
  \A i \in Priority :
    IF Listed(i) = {}
      THEN head[i] = NULL
      ELSE /\ head[i] \in Listed(i)
           /\ \A q \in Listed(i) \ {head[i]} : Precedes(head[i], q)

(* next_p_priority of a listed process is the process appended right after *)
(* it, and NULL for the youngest.                                          *)
NextIsSuccessor ==
  \A i \in Priority : \A p \in Listed(i) :
    IF next[p] = NULL
      THEN \A q \in Listed(i) \ {p} : Precedes(q, p)
      ELSE /\ next[p] \in Listed(i)
           /\ Precedes(p, next[p])
           /\ \A q \in Listed(i) \ {p, next[p]} :
                Precedes(q, p) \/ Precedes(next[p], q)

(* The two together: whatever forks and exits interleave, the linked list  *)
(* of each priority that proc.c keeps holds exactly the processes of that  *)
(* priority that are alive, oldest first.                                  *)
ListIsForkOrder == HeadIsOldest /\ NextIsSuccessor

(* A slot that is on no list has next_p_priority = NULL: allocproc() never *)
(* sets the field, so a leftover pointer would graft one list on another   *)
(* the next time the slot is used.                                         *)
UnlistedHasNoNext == \A p \in Proc : ~IsListed(p) => next[p] = NULL

(* p_control.present[i] answers "is there a process with this priority?"   *)
(* (kernel/proc.h).                                                        *)
PresentIsAccurate ==
  \A i \in Priority : present[i] = 1 <=> Listed(i) # {}

(* The inductive invariant: the history is a strict total order on each    *)
(* list, the holder of priority_lock is the one walker, and its cursor is  *)
(* on its list, in front of the process it looks for.                      *)
OrderOK ==
  /\ \A q, p \in Proc : Precedes(q, p) =>
       /\ IsListed(q) /\ IsListed(p) /\ priority[q] = priority[p]
       /\ q # p /\ ~Precedes(p, q)
  /\ \A q, p \in Proc : (IsListed(q) /\ IsListed(p) /\ priority[q] = priority[p] /\ q # p)
       => Precedes(q, p) \/ Precedes(p, q)
  /\ \A q, r, p \in Proc : Precedes(q, r) /\ Precedes(r, p) => Precedes(q, p)

WalkOK ==
  \A p \in Proc :
    /\ pc[p] \in {"add_walk", "free_walk"} <=> priority_lock = p
    /\ pc[p] \in {"add", "add_walk", "copy"} => state[p] = "USED"
    /\ pc[p] \in {"free", "free_walk"} => state[p] = "ZOMBIE"
    /\ pc[p] = "add_walk" => aux[p] \in Listed(priority[p])
    /\ pc[p] = "free_walk" => aux[p] \in Proc /\ Precedes(aux[p], p)

ListInv == /\ TypeOK /\ OrderOK /\ WalkOK
           /\ ListIsForkOrder /\ UnlistedHasNoNext /\ PresentIsAccurate

(* As long as no fork() has failed in uvmcopy(), with the child already on *)
(* its list, the lists that allocproc() and exit() keep are exact, however *)
(* forks, exits and reaps interleave: each holds the live processes of its *)
(* priority oldest first, no free slot keeps a stale pointer, present[] is *)
(* accurate, and the search of exit() is in front of what it looks for.    *)
ListsExact == failed \in BOOLEAN /\ (~failed => ListInv)

(* In the kernel as it is every process has userinit()'s priority. *)
OnePriority == \A p \in Proc : IsListed(p) => priority[p] = UserinitPriority

(* exit() always finds its own process: the search in                      *)
(* free_process_priority() ends, and does not run off the end of the list, *)
(* even after failed forks have left nodes of free slots on it (then only  *)
(* while all processes have one priority).                                 *)
ExitFindsItself ==
  [](failed => OnePriority) =>
    \A p \in Proc : pc[p] = "free_walk" ~> pc[p] = "idle"

(* Every walk of a list ends: a CPU never spins forever in                 *)
(* add_process_priority() or free_process_priority() with priority_lock    *)
(* held.                                                                   *)
WalkEnds(p) == pc[p] \in {"add_walk", "free_walk"} ~> pc[p] \in {"idle", "copy"}
WalksEnd == \A p \in Proc : WalkEnds(p)

(* The same until the first fork() that fails after allocproc(). *)
WalksEndUntilFailure == <>failed \/ WalksEnd
===============================================================================
