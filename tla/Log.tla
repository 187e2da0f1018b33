---------------------------------- MODULE Log ----------------------------------
(***************************************************************************)
(* The write-ahead log of kernel/log.c over a buffer cache that may        *)
(* recycle any buffer nobody holds or has pinned (kernel/bio.c), and a     *)
(* disk that keeps what was written when the machine stops.  Every disk    *)
(* write is a step of its own and Crash can come between any two of them,  *)
(* also during recovery.                                                   *)
(*                                                                         *)
(* An operation o is one process inside a file system call.  bwrite()      *)
(* returns when the disk has the block, and one block is written as a      *)
(* whole (the header fits in one sector).                                  *)
(***************************************************************************)
EXTENDS Naturals, Sequences, FiniteSets

CONSTANTS Op,           \* processes that make file system calls
          Block,        \* the home locations the calls write
          Val, Zero,    \* contents of a block
          NULL,
          LOGSIZE, MAXOPBLOCKS,  \* kernel/param.h
          nlog,         \* sb.nlog, the blocks of the log with its header
          OpWrites      \* how many different blocks an operation writes

ASSUME LogAssumption ==
  /\ LOGSIZE \in Nat /\ MAXOPBLOCKS \in Nat \ {0} /\ nlog \in Nat \ {0} /\ OpWrites \in Nat
  /\ MAXOPBLOCKS <= LOGSIZE
  /\ IsFiniteSet(Op) /\ Zero \in Val /\ NULL \notin Val

(* mkfs makes a log of LOGSIZE blocks, its header included, and no call     *)
(* writes as many blocks as begin_op() reserves for it.                     *)
ASSUME SizeAssumption == LOGSIZE <= nlog /\ OpWrites < MAXOPBLOCKS

Slot == 1 .. nlog - 1

VARIABLES
  disk,         \* on disk: the home locations,
  logblock,     \*          the log's data blocks,
  header,       \*          the log header, as the sequence of block numbers
  cache,        \* the buffer cache: contents, NULL if the block is not cached
  pinned,       \* blocks whose buffer bpin() has pinned
  lh,           \* log.lh in memory, as the sequence lh.block[0 .. lh.n-1]
  outstanding, committing,
  pc,           \* where operation o is
  wrote,        \* the blocks operation o has written so far
  tail,         \* the loop variable of write_log() and install_trans()
  boot          \* where recover_from_log() is, "done" after it

disks == <<disk, logblock, header>>
vars == <<disk, logblock, header, cache, pinned, lh, outstanding, committing,
          pc, wrote, tail, boot>>

PC == {"idle", "begin", "asleep", "op", "write_log", "write_head", "install", "clear", "committed"}

(* bread(): a cached buffer, or the disk's contents. *)
bread(b) == IF cache[b] = NULL THEN disk[b] ELSE cache[b]

(* What recovery would make of a disk d, log blocks l and a header h; and   *)
(* of those that there are now.                                             *)
Recovered(d, l, h) == [b \in Block |->
                         IF \E i \in 1 .. Len(h) : h[i] = b
                           THEN l[CHOOSE i \in 1 .. Len(h) : h[i] = b]
                           ELSE d[b]]
Installed == Recovered(disk, logblock, header)

(* A file system from mkfs, and the machine about to boot. *)
Init ==
  /\ disk = [b \in Block |-> Zero]
  /\ logblock = [i \in Slot |-> Zero]
  /\ header = <<>>
  /\ cache = [b \in Block |-> NULL]
  /\ pinned = {}
  /\ lh = <<>>
  /\ outstanding = 0 /\ committing = FALSE
  /\ pc = [o \in Op |-> "idle"]
  /\ wrote = [o \in Op |-> {}]
  /\ tail = 1
  /\ boot = "read_head"

(* wakeup(&log).  (Mutant: nobody is woken.) *)
wakeup_none(f) == f
wakeup(f) == [o \in Op |-> IF f[o] = "asleep" THEN "begin" ELSE f[o]]

(***************************************************************************)
(* begin_op(): one turn of its loop.  (Mutant: only the operations already *)
(* in progress are counted.)                                               *)
(***************************************************************************)
log_full_late == Len(lh) + outstanding * MAXOPBLOCKS > LOGSIZE
log_full == Len(lh) + (outstanding + 1) * MAXOPBLOCKS > LOGSIZE

must_wait == committing \/ log_full

begin_op(o) ==
  /\ boot = "done"
  /\ pc[o] \in {"idle", "begin"}
  /\ \/ /\ must_wait
        /\ pc' = [pc EXCEPT ![o] = "asleep"]
        /\ UNCHANGED outstanding
     \/ /\ ~must_wait
        /\ outstanding' = outstanding + 1
        /\ pc' = [pc EXCEPT ![o] = "op"]
  /\ UNCHANGED <<disks, cache, pinned, lh, committing, wrote, tail, boot>>

(* The panics of log_write(). *)
too_big == Len(lh) >= LOGSIZE \/ Len(lh) >= nlog - 1

(* bpin() of a block that joins the transaction.  (Mutant: it is not.) *)
bpin_not(b) == pinned
bpin(b) == pinned \cup {b}

(* bread(b); modify; log_write(b); brelse(b), under b's sleep-lock. *)
log_write(o, b, v) ==
  /\ pc[o] = "op" /\ ~too_big
  /\ Cardinality(wrote[o] \cup {b}) <= OpWrites
  /\ cache' = [cache EXCEPT ![b] = v]
  /\ wrote' = [wrote EXCEPT ![o] = @ \cup {b}]
  /\ IF \E i \in 1 .. Len(lh) : lh[i] = b   \* log absorption
       THEN UNCHANGED <<lh, pinned>>
       ELSE lh' = Append(lh, b) /\ pinned' = bpin(b)
  /\ UNCHANGED <<disks, outstanding, committing, pc, tail, boot>>

(***************************************************************************)
(* end_op() up to the commit.  (Mutant: the commit does not wait for the   *)
(* other operations.)                                                      *)
(***************************************************************************)
last_any == TRUE
last_op == outstanding = 1

end_op(o) ==
  /\ pc[o] = "op"
  /\ outstanding' = outstanding - 1
  /\ wrote' = [wrote EXCEPT ![o] = {}]
  /\ \/ /\ last_op
        /\ committing' = TRUE
        /\ tail' = 1
        /\ pc' = [pc EXCEPT ![o] = IF lh = <<>> THEN "committed" ELSE "write_log"]
     \/ /\ ~last_op
        /\ pc' = wakeup([pc EXCEPT ![o] = "idle"])
        /\ UNCHANGED <<committing, tail>>
  /\ UNCHANGED <<disks, cache, pinned, lh, boot>>

(* One block of write_log(): from the cache to the log. *)
write_log(o) ==
  /\ pc[o] = "write_log"
  /\ logblock' = [logblock EXCEPT ![tail] = bread(lh[tail])]
  /\ cache' = [cache EXCEPT ![lh[tail]] = bread(lh[tail])]
  /\ \/ /\ tail < Len(lh) 
        /\ tail' = tail + 1
        /\ UNCHANGED pc
     \/ /\ tail = Len(lh)
        /\ tail' = 1
        /\ pc' = [pc EXCEPT ![o] = "write_head"]
  /\ UNCHANGED <<disk, header, pinned, lh, outstanding, committing, wrote, boot>>

(* write_head(): "the true point at which the current transaction commits". *)
write_head(o) ==
  /\ pc[o] = "write_head"
  /\ header' = lh
  /\ pc' = [pc EXCEPT ![o] = "install"]
  /\ UNCHANGED <<disk, logblock, cache, pinned, lh, outstanding, committing, wrote, tail, boot>>

(* One block of install_trans(): from the log to its home. *)
install ==
  /\ disk' = [disk EXCEPT ![lh[tail]] = logblock[tail]]
  /\ cache' = [cache EXCEPT ![lh[tail]] = logblock[tail]]
  /\ UNCHANGED <<logblock, header, lh>>

install_trans(o) ==
  /\ pc[o] = "install"
  /\ install
  /\ pinned' = pinned \ {lh[tail]}
  /\ \/ /\ tail < Len(lh) 
        /\ tail' = tail + 1
        /\ UNCHANGED pc
     \/ /\ tail = Len(lh)
        /\ tail' = 1
        /\ pc' = [pc EXCEPT ![o] = "clear"]
  /\ UNCHANGED <<outstanding, committing, wrote, boot>>

(* lh.n = 0; write_head() *)
clear(o) ==
  /\ pc[o] = "clear"
  /\ lh' = <<>>
  /\ header' = <<>>
  /\ pc' = [pc EXCEPT ![o] = "committed"]
  /\ UNCHANGED <<disk, logblock, cache, pinned, outstanding, committing, wrote, tail, boot>>

(* The end of end_op() after a commit. *)
committed(o) ==
  /\ pc[o] = "committed"
  /\ committing' = FALSE
  /\ pc' = wakeup([pc EXCEPT ![o] = "idle"])
  /\ UNCHANGED <<disks, cache, pinned, lh, outstanding, wrote, tail, boot>>

(* bread() of an uncached block, by anybody. *)
bread_miss(b) ==
  /\ boot = "done" /\ cache[b] = NULL
  /\ cache' = [cache EXCEPT ![b] = disk[b]]
  /\ UNCHANGED <<disks, pinned, lh, outstanding, committing, pc, wrote, tail, boot>>

(* bget() recycles the buffer of b, whose refcnt is 0. *)
bget(b) ==
  /\ boot = "done" /\ b \notin pinned /\ cache[b] # NULL
  /\ cache' = [cache EXCEPT ![b] = NULL]
  /\ UNCHANGED <<disks, pinned, lh, outstanding, committing, pc, wrote, tail, boot>>

(* The machine stops; what was in memory is gone. *)
Crash ==
  /\ cache' = [b \in Block |-> NULL]
  /\ pinned' = {}
  /\ lh' = <<>>
  /\ outstanding' = 0 /\ committing' = FALSE
  /\ pc' = [o \in Op |-> "idle"]
  /\ wrote' = [o \in Op |-> {}]
  /\ tail' = 1
  /\ boot' = "read_head"
  /\ UNCHANGED disks

(* initlog(), recover_from_log(): read_head(), *)
read_head ==
  /\ boot = "read_head"
  /\ lh' = header
  /\ boot' = IF header = <<>> THEN "clear" ELSE "install"
  /\ UNCHANGED <<disks, cache, pinned, outstanding, committing, pc, wrote, tail>>

(* install_trans(1), block by block, *)
recover ==
  /\ boot = "install"
  /\ install
  /\ \/ /\ tail < Len(lh)
        /\ tail' = tail + 1
        /\ UNCHANGED boot
     \/ /\ tail = Len(lh)
        /\ tail' = 1
        /\ boot' = "clear"
  /\ UNCHANGED <<pinned, outstanding, committing, pc, wrote>>

(* and write_head() with lh.n = 0. *)
recovered ==
  /\ boot = "clear"
  /\ lh' = <<>>
  /\ header' = <<>>
  /\ boot' = "done"
  /\ UNCHANGED <<disk, logblock, cache, pinned, outstanding, committing, pc, wrote, tail>>

commit(o) == write_log(o) \/ write_head(o) \/ install_trans(o) \/ clear(o) \/ committed(o)

Next ==
  \/ \E o \in Op :
       \/ begin_op(o)
       \/ \E b \in Block, v \in Val : log_write(o, b, v)
       \/ end_op(o)
       \/ write_log(o)
       \/ write_head(o)
       \/ install_trans(o)
       \/ clear(o)
       \/ committed(o)
  \/ \E b \in Block : bread_miss(b)
  \/ \E b \in Block : bget(b)
  \/ Crash
  \/ read_head
  \/ recover
  \/ recovered

Spec == Init /\ [][Next]_vars

(* A file system call ends, a commit and a woken begin_op() go on. *)
FairSpec ==
  /\ Spec
  /\ \A o \in Op : WF_vars(end_op(o)) /\ WF_vars(commit(o))
-------------------------------------------------------------------------------
TypeOK ==
  /\ disk \in [Block -> Val] /\ logblock \in [Slot -> Val]
  /\ header \in Seq(Block) /\ lh \in Seq(Block)
  /\ cache \in [Block -> Val \cup {NULL}] /\ pinned \subseteq Block
  /\ outstanding \in Nat /\ committing \in BOOLEAN
  /\ pc \in [Op -> PC] /\ wrote \in [Op -> SUBSET Block]
  /\ tail \in Nat /\ boot \in {"read_head", "install", "clear", "done"}

CommitPC == {"write_log", "write_head", "install", "clear", "committed"}
Committer == {o \in Op : pc[o] \in CommitPC}
Active == {o \in Op : pc[o] = "op"}

Distinct(s) == \A i, j \in 1 .. Len(s) : s[i] = s[j] => i = j

(* One process commits, with no operation inside; the transaction lasts     *)
(* until the last of its operations has committed it.                       *)
OpsOK ==
  /\ outstanding = Cardinality(Active)
  /\ committing <=> Committer # {}
  /\ \A o \in Committer : Committer = {o} /\ Active = {}
  /\ boot # "done" => \A o \in Op : pc[o] = "idle"
  /\ boot = "done" /\ Active = {} /\ Committer = {} => lh = <<>>

(* How far the commit has got.                                              *)
CommitOK(o) ==
  /\ pc[o] = "write_log" =>
       tail \in 1 .. Len(lh) /\ \A i \in 1 .. tail - 1 : logblock[i] = cache[lh[i]]
  /\ pc[o] = "write_head" =>
       tail = 1 /\ lh # <<>> /\ \A i \in 1 .. Len(lh) : logblock[i] = cache[lh[i]]
  /\ pc[o] = "install" =>
       /\ header = lh /\ tail \in 1 .. Len(lh)
       /\ \A i \in 1 .. Len(lh) :
            IF i < tail THEN disk[lh[i]] = logblock[i] ELSE cache[lh[i]] = logblock[i]
  /\ pc[o] = "clear" =>
       header = lh /\ tail = 1 /\ \A i \in 1 .. Len(lh) : disk[lh[i]] = logblock[i]
  /\ pc[o] = "committed" => lh = <<>> /\ tail = 1

(* How far recovery has got; after it, the header on disk is empty until    *)
(* the transaction in memory is committed.                                  *)
BootOK ==
  /\ boot = "read_head" => lh = <<>> /\ tail = 1
  /\ boot = "install" =>
       /\ header = lh /\ tail \in 1 .. Len(lh)
       /\ \A i \in 1 .. tail - 1 : disk[lh[i]] = logblock[i]
  /\ boot = "clear" => header = lh /\ tail = 1 /\ \A i \in 1 .. Len(lh) : disk[lh[i]] = logblock[i]
  /\ boot = "done" /\ (\A o \in Op : pc[o] \notin {"install", "clear"}) => header = <<>>

(* A block stays pinned from the log_write() that put it in the transaction *)
(* until install_trans() has written it home; a pinned block is cached, and *)
(* the cache has of the others what the disk has.                           *)
PinOK ==
  /\ boot # "done" => pinned = {}
  /\ boot = "done" => \A b \in Block :
       b \in pinned <=> \E i \in 1 .. Len(lh) :
                          /\ lh[i] = b
                          /\ \A o \in Op : /\ pc[o] # "clear"
                                           /\ pc[o] = "install" => tail <= i
  /\ \A b \in pinned : cache[b] # NULL
  /\ \A b \in Block \ pinned : cache[b] \in {NULL, disk[b]}

(* The inductive invariant. *)
LogOK ==
  /\ TypeOK
  /\ Distinct(lh) /\ Len(lh) < nlog
  /\ Distinct(header) /\ Len(header) < nlog
  /\ OpsOK /\ BootOK /\ PinOK
  /\ \A o \in Op : CommitOK(o)

(* When no operation is in progress and no commit is running, everything    *)
(* that any finished operation wrote would survive a crash.                 *)
QuiescentIsDurable ==
  (boot = "done" /\ outstanding = 0 /\ ~committing) => \A b \in Block : bread(b) = Installed[b]

(* Through every operation, commit and crash, the blocks of a transaction   *)
(* are distinct, in the log, pinned and cached until they are home; the     *)
(* header on disk is empty or the transaction being installed; one process  *)
(* commits, with no operation inside; and what finished operations wrote is *)
(* safe.                                                                    *)
LogInv == LogOK /\ QuiescentIsDurable

(* The blocks that the operations in progress have written, each counted    *)
(* for every operation: begin_op() has reserved MAXOPBLOCKS for each, of    *)
(* which these are used.                                                    *)
Written == {w \in Op \X Block : w[2] \in wrote[w[1]]}

Reserved ==
  /\ Len(lh) + outstanding * MAXOPBLOCKS <= LOGSIZE + Cardinality(Written)
  /\ Len(header) <= LOGSIZE
  /\ \A o \in Op : /\ pc[o] # "op" => wrote[o] = {}
                   /\ \A b \in wrote[o] : \E i \in 1 .. Len(lh) : lh[i] = b
                   /\ IsFiniteSet(wrote[o]) /\ Cardinality(wrote[o]) <= OpWrites

(* log_write() never panics with "too big a transaction", and end_op()     *)
(* never with "log.committing".                                            *)
NoLogPanic ==
  /\ Reserved
  /\ \A o \in Op : pc[o] = "op" /\ Cardinality(wrote[o]) < OpWrites => ~too_big
  /\ \A o \in Op : pc[o] = "op" => ~committing

(* A sleeper in begin_op() is woken: by the end of an operation or of the  *)
(* commit that it waits for, or by a crash.                                *)
SleepersWoken == \A o \in Op : pc[o] = "asleep" ~> pc[o] # "asleep"

(* The contents of the blocks as the next operation will see them. *)
Seen == IF boot = "done" THEN [b \in Block |-> bread(b)] ELSE Installed

(***************************************************************************)
(* The log is an atomic disk: a crash at any point, also one during        *)
(* recovery, leaves the effect of whole operations, and never loses one    *)
(* that was committed.                                                     *)
(***************************************************************************)
Atomic == INSTANCE AtomicDisk WITH
  mem <- Seen,
  durable <- Installed,
  active <- Active

AtomicCommit == Atomic!Spec
===============================================================================
