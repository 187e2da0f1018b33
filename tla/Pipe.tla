--------------------------------- MODULE Pipe ---------------------------------
(***************************************************************************)
(* A pipe of kernel/pipe.c between processes that hold its write end and   *)
(* processes that hold its read end (through descriptors inherited by      *)
(* fork()).  pi->lock is held from acquire() to release() or sleep(); the  *)
(* steps in between are single turns of the copying loops, so that a       *)
(* kill(), which needs no pi->lock, can come between any two of them.      *)
(* nread and nwrite are unsigned counters that wrap around.                *)
(***************************************************************************)
EXTENDS Naturals, Sequences

CONSTANTS Writer, Reader,  \* the processes with the write end, the read end
          NULL,
          Byte,
          PIPESIZE,
          Modulus,         \* 2^32 for the uint counters of struct pipe
          MaxCount,        \* bound: the largest n of a read() or write()
          Killable         \* the processes that kill() may hit

Proc == Writer \cup Reader

ASSUME PipeAssumption ==
  /\ PIPESIZE \in Nat \ {0} /\ MaxCount \in Nat \ {0}
  /\ Modulus \in Nat /\ Modulus > PIPESIZE /\ Modulus % PIPESIZE = 0
  /\ Byte # {} /\ NULL \notin Proc /\ Writer \cap Reader = {} /\ Killable \subseteq Proc

VARIABLES
  data, nread, nwrite, readopen, writeopen,  \* struct pipe
  freed,   \* kfree(pi) has been called
  lock,    \* the process that holds pi->lock, or NULL
  open,    \* processes that have not closed their descriptor
  killed,  \* processes with p->killed set
  pc,
  n, i     \* the locals of pipewrite() and piperead()

pipe == <<data, nread, nwrite, readopen, writeopen, freed>>
vars == <<data, nread, nwrite, readopen, writeopen, freed, lock, open, killed, pc, n, i>>

PC == {"idle", "acquire", "loop", "sleep", "asleep", "copy", "close"}

(* pipealloc() *)
Init ==
  /\ data \in [0 .. PIPESIZE - 1 -> {CHOOSE c \in Byte : TRUE}]
  /\ nread = 0 /\ nwrite = 0
  /\ readopen = TRUE /\ writeopen = TRUE
  /\ freed = FALSE
  /\ lock = NULL
  /\ open = Proc
  /\ killed = {}
  /\ pc = [p \in Proc |-> "idle"]
  /\ n = [p \in Proc |-> 0]
  /\ i = [p \in Proc |-> 0]

(* wakeup() of the readers (&pi->nread) or of the writers (&pi->nwrite). *)
wakeup(S, f) == [p \in Proc |-> IF p \in S /\ f[p] = "asleep" THEN "acquire" ELSE f[p]]

(* filewrite() or fileread() is called by a process that is not killed. *)
call(p) ==
  /\ pc[p] = "idle" /\ p \in open /\ p \notin killed
  /\ \E count \in 1 .. MaxCount : n' = [n EXCEPT ![p] = count]
  /\ i' = [i EXCEPT ![p] = 0]
  /\ pc' = [pc EXCEPT ![p] = "acquire"]
  /\ UNCHANGED <<pipe, lock, open, killed>>

(* acquire(&pi->lock), at the start of a call and on return from sleep(). *)
acquire(p) ==
  /\ pc[p] = "acquire" /\ lock = NULL
  /\ lock' = p
  /\ pc' = [pc EXCEPT ![p] = "loop"]
  /\ UNCHANGED <<pipe, open, killed, n, i>>

(* release(&pi->lock) and return; f is pc after the wakeups before it. *)
return(p, f) ==
  /\ lock' = NULL
  /\ pc' = [f EXCEPT ![p] = "idle"]
  /\ n' = [n EXCEPT ![p] = 0]
  /\ i' = [i EXCEPT ![p] = 0]
  /\ UNCHANGED <<open, killed>>

(* The tests at the top of pipewrite()'s loop.  (Mutant: no wraparound.) *)
full_no_wrap == nwrite = nread + PIPESIZE
full == nwrite = (nread + PIPESIZE) % Modulus

(* while(i < n) is over, or copyin() has failed: wake the readers, return. *)
pipewrite_done(p) ==
  /\ p \in Writer /\ pc[p] = "loop"
  /\ i[p] = n[p] \/ (readopen /\ p \notin killed /\ ~full)
  /\ return(p, wakeup(Reader, pc))
  /\ UNCHANGED pipe

(* No reader is left, or the writer has been killed. *)
pipewrite_error(p) ==
  /\ p \in Writer /\ pc[p] = "loop"
  /\ i[p] < n[p] /\ (~readopen \/ p \in killed)
  /\ return(p, pc)
  /\ UNCHANGED pipe

(* The pipe is full: wakeup(&pi->nread), and on to sleep(). *)
pipewrite_full(p) ==
  /\ p \in Writer /\ pc[p] = "loop"
  /\ i[p] < n[p] /\ readopen /\ p \notin killed /\ full
  /\ pc' = wakeup(Reader, [pc EXCEPT ![p] = "sleep"])
  /\ UNCHANGED <<pipe, lock, open, killed, n, i>>

(* One byte is copied in. *)
pipewrite_byte(p, c) ==
  /\ p \in Writer /\ pc[p] = "loop"
  /\ i[p] < n[p] /\ readopen /\ p \notin killed /\ ~full
  /\ data' = [data EXCEPT ![nwrite % PIPESIZE] = c]
  /\ nwrite' = (nwrite + 1) % Modulus
  /\ i' = [i EXCEPT ![p] = @ + 1]
  /\ UNCHANGED <<nread, readopen, writeopen, freed, lock, open, killed, pc, n>>

(* sleep(): release pi->lock and go to sleep, atomically for wakeup(). *)
sleep(p) ==
  /\ pc[p] = "sleep"
  /\ lock' = NULL
  /\ pc' = [pc EXCEPT ![p] = "asleep"]
  /\ UNCHANGED <<pipe, open, killed, n, i>>

(* The pipe is empty and there are writers. *)
must_wait == nread = nwrite /\ writeopen

piperead_error(p) ==
  /\ p \in Reader /\ pc[p] = "loop"
  /\ must_wait /\ p \in killed
  /\ return(p, pc)
  /\ UNCHANGED pipe

piperead_empty(p) ==
  /\ p \in Reader /\ pc[p] = "loop"
  /\ must_wait /\ p \notin killed
  /\ pc' = [pc EXCEPT ![p] = "sleep"]
  /\ UNCHANGED <<pipe, lock, open, killed, n, i>>

(* The loop of piperead() is left for the copying loop. *)
piperead_copy(p) ==
  /\ p \in Reader /\ pc[p] = "loop"
  /\ ~must_wait
  /\ pc' = [pc EXCEPT ![p] = "copy"]
  /\ UNCHANGED <<pipe, lock, open, killed, n, i>>

(* One byte is copied out; when copyout() fails the byte is gone and the   *)
(* loop ends.                                                              *)
piperead_byte(p) ==
  /\ p \in Reader /\ pc[p] = "copy"
  /\ i[p] < n[p] /\ nread # nwrite
  /\ nread' = (nread + 1) % Modulus
  /\ \/ i' = [i EXCEPT ![p] = @ + 1]
     \/ i' = [i EXCEPT ![p] = n[p]]
  /\ UNCHANGED <<data, nwrite, readopen, writeopen, freed, lock, open, killed, pc, n>>

(* The wakeup at the end of piperead().  (Mutant: it is missing.) *)
no_wakeup_nwrite == pc
wakeup_nwrite == wakeup(Writer, pc)

piperead_done(p) ==
  /\ p \in Reader /\ pc[p] = "copy"
  /\ i[p] = n[p] \/ nread = nwrite
  /\ return(p, wakeup_nwrite)
  /\ UNCHANGED pipe

(***************************************************************************)
(* A process closes its descriptor; fileclose() calls pipeclose() for the  *)
(* last one of an end.  The pipe is freed when both ends are closed.       *)
(* (Mutants: pipeclose() wakes nobody; it frees the pipe with one end.)    *)
(***************************************************************************)
no_close_wakeup(S) == pc
close_wakeup(S) == wakeup(S, pc)

both_closed_or(r, w) == ~r \/ ~w
both_closed(r, w) == ~r /\ ~w

(* The processes with the same end as p: f->ref counts those still open. *)
ends(p) == IF p \in Writer THEN Writer ELSE Reader

fileclose(p) ==
  /\ pc[p] = "idle" /\ p \in open
  /\ open' = open \ {p}
  /\ pc' = [pc EXCEPT ![p] =
              IF ends(p) \cap open' = {} THEN "close" ELSE "idle"]
  /\ UNCHANGED <<pipe, lock, killed, n, i>>

pipeclose(p) ==
  /\ pc[p] = "close" /\ lock = NULL
  /\ writeopen' = (writeopen /\ p \notin Writer)
  /\ readopen' = (readopen /\ p \notin Reader)
  /\ freed' = both_closed(readopen', writeopen')
  /\ pc' = [close_wakeup(Proc \ ends(p)) EXCEPT ![p] = "idle"]
  /\ UNCHANGED <<data, nread, nwrite, lock, open, killed, n, i>>

(* kill(): needs p->lock only, so it can come at any time in a call. *)
kill(p) ==
  /\ p \in (Killable \cap open) \ killed
  /\ killed' = killed \cup {p}
  /\ pc' = [pc EXCEPT ![p] = IF @ = "asleep" THEN "acquire" ELSE @]
  /\ UNCHANGED <<pipe, lock, open, n, i>>

Next ==
  \E p \in Proc :
    \/ call(p)
    \/ acquire(p)
    \/ pipewrite_done(p)
    \/ pipewrite_error(p)
    \/ pipewrite_full(p)
    \/ \E c \in Byte : pipewrite_byte(p, c)
    \/ sleep(p)
    \/ piperead_error(p)
    \/ piperead_empty(p)
    \/ piperead_copy(p)
    \/ piperead_byte(p)
    \/ piperead_done(p)
    \/ fileclose(p)
    \/ pipeclose(p)
    \/ kill(p)

Spec == Init /\ [][Next]_vars

(* The steps of a process that is inside the kernel and not asleep. *)
kernel_step(p) ==
  \/ acquire(p) \/ sleep(p) \/ pipeclose(p)
  \/ pipewrite_done(p) \/ pipewrite_error(p) \/ pipewrite_full(p)
  \/ \E c \in Byte : pipewrite_byte(p, c)
  \/ piperead_error(p) \/ piperead_empty(p) \/ piperead_copy(p)
  \/ piperead_byte(p) \/ piperead_done(p)

(***************************************************************************)
(* The scheduler runs every process that is not asleep, and no program     *)
(* goes on for ever: a process that keeps coming back from its calls       *)
(* closes its descriptor in the end (exit() does).                         *)
(***************************************************************************)
FairSpec == Spec /\ \A p \in Proc : WF_vars(kernel_step(p)) /\ SF_vars(fileclose(p))

-----------------------------------------------------------------------------

(* The bytes in the pipe: nwrite - nread of them, modulo the counters' width. *)
used == (nwrite + Modulus - nread) % Modulus
contents == [k \in 1 .. used |-> data[(nread + k - 1) % PIPESIZE]]

(* What holds of a process: it has pi->lock in its loops, its calls use an  *)
(* open descriptor, the last descriptor of an end is closed by one process, *)
(* and the end is open until pipeclose() has closed it.                     *)
EndsOK(p) ==
  /\ i[p] <= n[p]
  /\ pc[p] \in {"loop", "sleep", "copy"} <=> lock = p
  /\ pc[p] = "copy" => p \in Reader
  /\ p \notin open => pc[p] \in {"idle", "close"}
  /\ pc[p] = "close" => ends(p) \cap open = {} /\ \A q \in ends(p) : pc[q] = "close" => q = p
  /\ p \in Writer /\ (p \in open \/ pc[p] = "close") => writeopen
  /\ p \in Reader /\ (p \in open \/ pc[p] = "close") => readopen

TypeOK ==
  /\ data \in [0 .. PIPESIZE - 1 -> Byte]
  /\ nread \in 0 .. Modulus - 1 /\ nwrite \in 0 .. Modulus - 1
  /\ readopen \in BOOLEAN /\ writeopen \in BOOLEAN /\ freed \in BOOLEAN
  /\ lock \in Proc \cup {NULL}
  /\ open \subseteq Proc /\ killed \subseteq Proc
  /\ pc \in [Proc -> PC]
  /\ n \in [Proc -> 0 .. MaxCount] /\ i \in [Proc -> 0 .. MaxCount]

(* The inductive invariant. *)
PipeOK ==
  /\ TypeOK
  /\ used <= PIPESIZE
  /\ \A p \in Proc : EndsOK(p)
  /\ freed => ~readopen /\ ~writeopen

(* pipeclose() frees the page of the pipe only when no process is, or can   *)
(* still come to be, inside piperead(), pipewrite() or pipeclose().         *)
NoUseAfterFree == freed => open = {} /\ \A p \in Proc : pc[p] = "idle"

(* Types, mutual exclusion inside pi->lock, never more than PIPESIZE bytes  *)
(* in the buffer, also when the counters have wrapped around, and no use of *)
(* a pipe that pipeclose() has freed.                                       *)
PipeInv == PipeOK /\ NoUseAfterFree

(* piperead() goes to sleep on &pi->nread only on an empty pipe, and stays  *)
(* asleep only while somebody may still write and there is nothing to read, *)
(* or the writer of what there is still has pi->lock and its wakeup to      *)
(* come.  The exception is a killed writer: pipewrite() returns -1 for it   *)
(* without a wakeup for the bytes it has already put in the pipe.           *)
DataWakesReader ==
  \A r \in Reader :
    /\ pc[r] = "sleep" => must_wait
    /\ pc[r] = "asleep" =>
         /\ writeopen
         /\ nread = nwrite \/ killed \cap Writer # {} \/ \E w \in Writer : pc[w] = "loop"

(* pipewrite() goes to sleep on &pi->nwrite only on a full pipe, and stays  *)
(* asleep only while somebody may still read and the pipe is full or a      *)
(* reader that is emptying it has its wakeup to come, kills included.       *)
SpaceWakesWriter ==
  \A w \in Writer :
    /\ pc[w] = "sleep" => full /\ readopen
    /\ pc[w] = "asleep" => readopen /\ (full \/ \E r \in Reader : pc[r] = "copy")

(* Nobody sleeps on a pipe without a reason. *)
SleepsForAReason == DataWakesReader /\ SpaceWakesWriter

(* Every read(), write() and close() on a pipe returns when the programs    *)
(* at its ends do not run for ever, even after writers were killed half     *)
(* way: what a lost wakeup leaves asleep, the last pipeclose() wakes.       *)
CallsReturn == \A p \in Proc : pc[p] # "idle" ~> pc[p] = "idle"

(* pipewrite() and piperead() implement a bounded first-in first-out stream *)
(* of bytes, whoever writes and reads and however often the counters wrap.  *)
Fifo == INSTANCE ByteStream WITH stream <- contents, Capacity <- PIPESIZE
IsByteStream == Fifo!Spec
===============================================================================
