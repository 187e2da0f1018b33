------------------------------- MODULE BufCache -------------------------------
(***************************************************************************)
(* The buffer cache, kernel/bio.c, with the sleep locks of its buffers     *)
(* (kernel/sleeplock.c) on top of the disk driver of Virtio.  A step is a  *)
(* critical section of bcache.lock or of the spinlock inside a sleep lock. *)
(* The processes do what the file system does with a buffer: read it,      *)
(* change it, write it through (bwrite) or leave it changed and pinned for *)
(* the log (log_write), which writes and unpins it later (install_trans).  *)
(***************************************************************************)
EXTENDS Virtio, Functions

CONSTANTS MaxPinned,  \* bound: how many buffers the log may keep pinned
          Changing    \* bound: the blocks that are written to

VARIABLES
  refcnt, valid,  \* of a buffer
  lru,            \* the list of bcache.head, most recently used first
  lock,           \* b->lock: the process whose pid it holds, or NULL
  logged,         \* buffers in the log header, pinned
  dirty,          \* processes that changed their buffer and must not drop it
  latest          \* history: what was last put into each block

cache == <<refcnt, valid, lru, lock, logged, dirty, latest>>
procs == <<data, blockno, disk, pc, buf, write, idx>>
vars == <<driver, procs, cache>>

Init ==
  /\ VirtioInit
  /\ blockno = [b \in Buf |-> NULL] /\ data = [b \in Buf |-> 0]
  /\ disk = [k \in Block |-> 0] /\ latest = disk
  /\ pc = [p \in Proc |-> "idle"] /\ buf = [p \in Proc |-> NULL]
  /\ write = [p \in Proc |-> FALSE] /\ idx = [p \in Proc |-> 0]
  /\ refcnt = [b \in Buf |-> 0] /\ valid = {}
  /\ lru = CHOOSE f \in Bijection(1 .. Cardinality(Buf), Buf) : TRUE
  /\ lock = [b \in Buf |-> NULL]
  /\ logged = {} /\ dirty = {}

(* bread() -> bget(): the block is cached; count, then wait for the lock. *)
bget_cached(p, b) ==
  /\ pc[p] = "idle" /\ blockno[b] # NULL
  /\ refcnt' = [refcnt EXCEPT ![b] = @ + 1]
  /\ buf' = [buf EXCEPT ![p] = b]
  /\ pc' = [pc EXCEPT ![p] = "acquiresleep"]
  /\ UNCHANGED <<driver, data, blockno, disk, write, idx, valid, lru, lock, logged, dirty, latest>>

(* The scan from bcache.head.prev: the least recently used buffer that is  *)
(* not in use.  (Mutant: refcnt is not looked at.)                         *)
victim_any == lru[Len(lru)]
victim == lru[Max({i \in DOMAIN lru : refcnt[lru[i]] = 0})]

bget_recycle(p, k) ==
  /\ pc[p] = "idle"
  /\ \A b \in Buf : blockno[b] # k
  /\ \E b \in Buf : refcnt[b] = 0
  /\ blockno' = [blockno EXCEPT ![victim] = k]
  /\ valid' = valid \ {victim}
  /\ refcnt' = [refcnt EXCEPT ![victim] = 1]
  /\ buf' = [buf EXCEPT ![p] = victim]
  /\ pc' = [pc EXCEPT ![p] = "acquiresleep"]
  /\ UNCHANGED <<driver, data, disk, write, idx, lru, lock, logged, dirty, latest>>

(* acquiresleep() of the buffer: sleep while it is locked, ... *)
acquiresleep_wait(p) ==
  /\ pc[p] = "acquiresleep" /\ lock[buf[p]] # NULL
  /\ pc' = [pc EXCEPT ![p] = "lock_sleep"]
  /\ UNCHANGED <<driver, data, blockno, disk, buf, write, idx, cache>>

(* ... else take it; bread() then reads the block unless it is valid. *)
acquiresleep(p) ==
  /\ pc[p] = "acquiresleep" /\ lock[buf[p]] = NULL
  /\ lock' = [lock EXCEPT ![buf[p]] = p]
  /\ pc' = [pc EXCEPT ![p] = IF buf[p] \in valid THEN "using" ELSE "rw"]
  /\ write' = [write EXCEPT ![p] = FALSE]
  /\ UNCHANGED <<driver, data, blockno, disk, buf, idx, refcnt, valid, lru, logged, dirty, latest>>

(* virtio_disk_rw(b, 0) returns to bread(). *)
bread_done(p) ==
  /\ pc[p] = "rw_done" /\ ~write[p]
  /\ valid' = valid \cup {buf[p]}
  /\ pc' = [pc EXCEPT ![p] = "using"]
  /\ UNCHANGED <<driver, data, blockno, disk, buf, write, idx, refcnt, lru, lock, logged, dirty, latest>>

(* The file system changes the contents of the buffer it has locked. *)
modify(p) ==
  LET b == buf[p]
  IN  /\ pc[p] = "using" /\ p \notin dirty /\ blockno[b] \in Changing
      /\ data' = [data EXCEPT ![b] = 1 - @]
      /\ latest' = [latest EXCEPT ![blockno[b]] = 1 - data[b]]
      /\ dirty' = dirty \cup {p}
      /\ UNCHANGED <<driver, blockno, disk, pc, buf, write, idx, refcnt, valid, lru, lock, logged>>

(* log_write(): the buffer goes into the log header and is pinned, unless  *)
(* it is there already.                                                    *)
bpin(b) == [refcnt EXCEPT ![b] = @ + 1]
log_write(p) ==
  LET b == buf[p]
  IN  /\ pc[p] = "using" /\ p \in dirty
      /\ b \in logged \/ Cardinality(logged) < MaxPinned
      /\ logged' = logged \cup {b}
      /\ refcnt' = IF b \in logged THEN refcnt ELSE bpin(b)
      /\ dirty' = dirty \ {p}
      /\ UNCHANGED <<driver, data, blockno, disk, pc, buf, write, idx, valid, lru, lock, latest>>

(* bwrite() of a changed buffer, or of a logged one by install_trans(). *)
bwrite(p) ==
  /\ pc[p] = "using" /\ (p \in dirty \/ buf[p] \in logged)
  /\ write' = [write EXCEPT ![p] = TRUE]
  /\ pc' = [pc EXCEPT ![p] = "rw"]
  /\ UNCHANGED <<driver, data, blockno, disk, buf, idx, cache>>

(* virtio_disk_rw(b, 1) returns; install_trans() unpins the buffer. *)
bwrite_done(p) ==
  LET b == buf[p]
  IN  /\ pc[p] = "rw_done" /\ write[p]
      /\ refcnt' = [refcnt EXCEPT ![b] = IF b \in logged THEN @ - 1 ELSE @]
      /\ logged' = logged \ {b}
      /\ dirty' = dirty \ {p}
      /\ write' = [write EXCEPT ![p] = FALSE]
      /\ pc' = [pc EXCEPT ![p] = "using"]
      /\ UNCHANGED <<driver, data, blockno, disk, buf, idx, valid, lru, lock, latest>>

(* releasesleep(): wakeup(lk) makes the sleepers try again.  (Mutant: no   *)
(* wakeup.)                                                                *)
wakeup_none(b) == pc
wakeup(b) == [q \in Proc |-> IF pc[q] = "lock_sleep" /\ buf[q] = b THEN "acquiresleep" ELSE pc[q]]
brelse(p) ==
  /\ pc[p] = "using" /\ p \notin dirty
  /\ lock' = [lock EXCEPT ![buf[p]] = NULL]
  /\ pc' = [wakeup(buf[p]) EXCEPT ![p] = "brelse"]
  /\ UNCHANGED <<driver, data, blockno, disk, buf, write, idx, refcnt, valid, lru, logged, dirty, latest>>

(* The list with buffer b moved to its front. *)
to_front(b) ==
  LET k == CHOOSE i \in DOMAIN lru : lru[i] = b
  IN  [i \in DOMAIN lru |-> IF i = 1 THEN b ELSE IF i <= k THEN lru[i - 1] ELSE lru[i]]

(* The second half of brelse(), under bcache.lock: drop the reference; an  *)
(* unused buffer moves to the front of the list.                           *)
brelse_ref(p) ==
  LET b == buf[p]
  IN  /\ pc[p] = "brelse"
      /\ refcnt' = [refcnt EXCEPT ![b] = @ - 1]
      /\ lru' = IF refcnt[b] = 1 THEN to_front(b) ELSE lru
      /\ buf' = [buf EXCEPT ![p] = NULL]
      /\ pc' = [pc EXCEPT ![p] = "idle"]
      /\ UNCHANGED <<driver, data, blockno, disk, write, idx, valid, lock, logged, dirty, latest>>

Process(p) ==
  \/ \E b \in Buf : bget_cached(p, b)
  \/ \E k \in Block : bget_recycle(p, k)
  \/ acquiresleep_wait(p) \/ acquiresleep(p) \/ bread_done(p) \/ modify(p) \/ log_write(p)
  \/ bwrite(p) \/ bwrite_done(p) \/ brelse(p) \/ brelse_ref(p)

Next == (\E p \in Proc : Process(p)) \/ (VirtioNext /\ UNCHANGED cache)

(* The device answers every request, its interrupt is taken by some CPU    *)
(* and the handler runs to its end; a process that wants vdisk_lock, which *)
(* is free again and again, gets it.                                       *)
Fairness ==
  /\ \A h \in 0 .. Max(NUMs) - 1 : WF_vars(device_complete(h) /\ UNCHANGED cache)
  /\ WF_vars(virtio_disk_intr /\ UNCHANGED cache)
  /\ WF_vars((virtio_disk_intr_one \/ virtio_disk_intr_end) /\ UNCHANGED cache)
  /\ \A p \in Proc : SF_vars(virtio_disk_rw_done(p) /\ UNCHANGED cache)

Spec == Init /\ [][Next]_vars
FairSpec == Spec /\ Fairness
-------------------------------------------------------------------------------
Waiting == {p \in Proc : pc[p] \in {"io", "io_wake"}}
Transfer == {"rw", "desc_sleep", "io", "io_wake", "rw_done"}
PC == {"idle", "acquiresleep", "lock_sleep", "using", "brelse"} \cup Transfer

DriverType ==
  /\ (\E n \in NUMs : Desc = 0 .. n - 1) /\ desc = [i \in Desc |-> desc[i]]
  /\ free \subseteq Desc /\ avail \subseteq Desc /\ used \in Seq(Desc)
  /\ info \in [Desc -> [b : Buf \cup {NULL}, status : {0, 255}]]
  /\ pending \in BOOLEAN /\ handler \in BOOLEAN /\ bdisk \subseteq Buf

CacheType ==
  /\ data \in [Buf -> {0, 1}] /\ disk \in [Block -> {0, 1}] /\ latest \in [Block -> {0, 1}]
  /\ blockno \in [Buf -> Block \cup {NULL}] /\ refcnt \in [Buf -> Nat]
  /\ lock \in [Buf -> Proc \cup {NULL}]
  /\ valid \subseteq Buf /\ logged \subseteq Buf /\ dirty \subseteq Proc

ListType == lru \in Seq(Buf) /\ \A b \in Buf : \E i \in 1 .. Len(lru) : lru[i] = b

ProcType ==
  /\ pc \in [Proc -> PC] /\ buf \in [Proc -> Buf \cup {NULL}]
  /\ write \in [Proc -> BOOLEAN] /\ idx \in [Proc -> Nat]

TypeOK == DriverType /\ CacheType /\ ListType /\ ProcType

(* A process that sleeps in virtio_disk_rw() has its request in a chain of *)
(* three descriptors: the command, the buffer, and the status byte.        *)
IsChain(d, f, i, cmd, b) ==
  LET j == d[i].next  k == d[j].next
  IN  /\ {i, j, k} \subseteq DOMAIN d \ f /\ i # j /\ i # k /\ j # k
      /\ d[i].addr = cmd /\ d[i].more = TRUE
      /\ d[j].addr = b /\ d[j].more = TRUE
      /\ d[k].addr = i /\ d[k].more = FALSE

Formatted(p) ==
  /\ IsChain(desc, free, idx[p], [sector |-> blockno[buf[p]], out |-> write[p]], buf[p])
  /\ info[idx[p]].b = buf[p]

InUsed(h) == \E i \in 1 .. Len(used) : used[i] = h

(* The chains of different requests are apart and fill what is not free;   *)
(* the device has one of them, or is done with it and the handler will     *)
(* see it, as long as b->disk says so.                                     *)
ChainsOK ==
  /\ \A p \in Waiting : Formatted(p)
  /\ \A p, q \in Waiting : p # q => chain(idx[p]) \cap chain(idx[q]) = {}
  /\ Cardinality(free) + 3 * Cardinality(Waiting) = NUM

RingsOK ==
  /\ \A h \in Desc : h \in avail \/ InUsed(h) => \E p \in Waiting : idx[p] = h
  /\ \A p \in Waiting : buf[p] \in bdisk <=> idx[p] \in avail \/ InUsed(idx[p])
  /\ \A b \in bdisk : \E p \in Waiting : buf[p] = b
  /\ \A h \in avail : ~InUsed(h)
  /\ \A i, j \in 1 .. Len(used) : used[i] = used[j] => i = j
  /\ \A i \in 1 .. Len(used) : info[used[i]].status = 0
  /\ used # <<>> => pending \/ handler

(* The driver and the device agree.  Every descriptor that is not free is  *)
(* in the chain of exactly one request, of three descriptors, so           *)
(* free_chain() meets no free one (panic "free_desc 2") and the device     *)
(* follows no reused one; a failed alloc3_desc() leaves nothing behind.    *)
(* And no completion is lost before virtio_disk_intr(): a chain in the     *)
(* used ring has its interrupt pending or the handler still looping, its   *)
(* status is 0, and the process that waits for it is the one info[] names. *)
DriverInv ==
  /\ TypeOK /\ ChainsOK /\ RingsOK
  /\ \A p \in Waiting : Cardinality(chain(idx[p])) = 3 /\ chain(idx[p]) \cap free = {}
  /\ \A i \in 1 .. Len(used) : \E p \in Waiting : idx[p] = used[i] /\ buf[p] = info[used[i]].b

(* A buffer is locked by the process that has it, from the end of           *)
(* acquiresleep() to brelse(), and counted by each that wants it or has it  *)
(* and by the log.                                                          *)
Holds(p) == pc[p] \in Transfer \cup {"using"}
LocksOK ==
  /\ \A p \in Proc : buf[p] = NULL <=> pc[p] = "idle"
  /\ \A p \in Proc : pc[p] # "idle" => blockno[buf[p]] # NULL
  /\ \A p \in Proc : Holds(p) => lock[buf[p]] = p
  /\ \A b \in Buf : lock[b] # NULL => Holds(lock[b]) /\ buf[lock[b]] = b
  /\ \A a, b \in Buf : blockno[a] = blockno[b] /\ blockno[a] # NULL => a = b

Users(b) == {p \in Proc : buf[p] = b}
CountsOK ==
  \A b \in Buf : refcnt[b] = Cardinality(Users(b)) + (IF b \in logged THEN 1 ELSE 0)

(* A valid buffer has the latest contents of its block, and the disk has    *)
(* them too unless the buffer is kept in the cache for that; a finished     *)
(* transfer has made buffer and block equal.                                *)
Writes(p) == pc[p] = "using" \/ (pc[p] \in Transfer /\ write[p])
ContentsOK ==
  /\ \A b \in valid : blockno[b] # NULL /\ data[b] = latest[blockno[b]]
  /\ logged \subseteq valid
  /\ \A p \in dirty : Writes(p)
  /\ \A p \in Proc : Holds(p) => (Writes(p) <=> buf[p] \in valid)
  /\ \A k \in Block : \/ disk[k] = latest[k]
                      \/ \E b \in valid : /\ blockno[b] = k
                                          /\ b \in logged \/ \E p \in dirty : buf[p] = b
  /\ \A p \in Proc : pc[p] = "rw_done" \/ (p \in Waiting /\ idx[p] \notin avail) =>
                       data[buf[p]] = disk[blockno[buf[p]]]

(* Processes see one disk.  bget() never gives two buffers to a block; no  *)
(* buffer is recycled under a process that uses it or waits for its lock,  *)
(* although brelse() lets go of the lock before it drops refcnt; and       *)
(* whoever holds a buffer after bread() holds it alone and sees what was   *)
(* last put into the block, on disk, in the cache or pinned for the log.   *)
CacheCoherent ==
  /\ LocksOK /\ CountsOK /\ ContentsOK
  /\ \A p \in Proc : pc[p] = "using" =>
       data[buf[p]] = latest[blockno[buf[p]]] /\ lock[buf[p]] = p

(* Nobody is left asleep: not on the lock of a buffer that is free, not on *)
(* &disk.free[0] with three free descriptors, not on a buffer the device   *)
(* is done with.                                                           *)
NoForgottenSleeper ==
  \A p \in Proc :
     /\ pc[p] = "lock_sleep" => lock[buf[p]] # NULL
     /\ pc[p] = "desc_sleep" => Cardinality(free) < 3
     /\ p \in Waiting => (pc[p] = "io" <=> buf[p] \in bdisk)

(* The inductive invariant: all of these together. *)
BufOK ==
  TypeOK /\ ChainsOK /\ RingsOK /\ LocksOK /\ CountsOK /\ ContentsOK /\ NoForgottenSleeper

(* Every transfer ends: a process that sleeps for b->disk is woken once    *)
(* the device is done and goes on, in whatever order the device answers.   *)
TransfersEnd == \A p \in Proc : pc[p] = "io" ~> pc[p] = "rw_done"
===============================================================================
