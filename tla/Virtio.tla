-------------------------------- MODULE Virtio --------------------------------
(***************************************************************************)
(* The disk driver, kernel/virtio_disk.c.  virtio_disk_rw() runs with      *)
(* vdisk_lock from its acquire() to a sleep() or to its release(); each    *)
(* such stretch is a step.  The interrupt handler takes one completion per *)
(* step, since the device goes on while the handler runs.  The used ring    *)
(* with its two free-running uint16 indices is the queue of the entries    *)
(* between them; of the avail ring, whose entries the device may finish in *)
(* any order, it is the set.                                               *)
(***************************************************************************)
EXTENDS Naturals, Sequences, FiniteSets, FiniteSetsExt

CONSTANTS Proc, Buf, Block, NULL,
          NUMs    \* the values of NUM (virtio.h) to be looked at

ASSUME VirtioAssumption ==
  /\ \A n \in NUMs : n \in Nat /\ n >= 3
  /\ IsFiniteSet(Proc) /\ IsFiniteSet(Buf)
  /\ NULL \notin Proc \cup Buf \cup Block

VARIABLES
  free,      \* disk.free: the descriptors that are free
  desc,      \* disk.desc: [addr, more, next]; a header stands for its address
  info,      \* disk.info: [b, status]
  avail,     \* chains handed to the device that it has not finished
  used,      \* chains done that the handler has not seen yet
  pending,   \* the interrupt line
  handler,   \* virtio_disk_intr() is between its acquire() and its release()
  bdisk,     \* b->disk: the buffers owned by the device
  data, blockno,    \* the contents of a buffer and its block
  disk,      \* the contents of the blocks
  pc, buf,   \* of a process: where it is, the argument b of its calls
  write, idx \* virtio_disk_rw(): the argument write and the local idx[0]

Desc == DOMAIN desc
NUM == Cardinality(Desc)

driver == <<free, desc, info, avail, used, pending, handler, bdisk>>

NoDesc == [addr |-> NULL, more |-> FALSE, next |-> 0]

(* virtio_disk_init(): all descriptors start out unused. *)
VirtioInit ==
  /\ \E n \in NUMs :
       /\ free = 0 .. n - 1
       /\ desc = [i \in 0 .. n - 1 |-> NoDesc]
       /\ info = [i \in 0 .. n - 1 |-> [b |-> NULL, status |-> 0]]
  /\ avail = {} /\ used = <<>>
  /\ pending = FALSE /\ handler = FALSE /\ bdisk = {}

(* alloc_desc() three times takes the lowest free ones. *)
alloc3_desc ==
  LET i0 == Min(free)  i1 == Min(free \ {i0})  i2 == Min(free \ {i0, i1})
  IN  <<i0, i1, i2>>

(* wakeup(&disk.free[0]) of every free_desc(). *)
wakeup_free(f) == [p \in Proc |-> IF f[p] = "desc_sleep" THEN "rw" ELSE f[p]]

(* A failed alloc3_desc() gives its descriptors back one by one, and each  *)
(* free_desc() wakes the others that wait.                                 *)
virtio_disk_rw_full(p) ==
  /\ pc[p] = "rw" /\ ~handler
  /\ Cardinality(free) < 3
  /\ pc' = [IF free = {} THEN pc ELSE wakeup_free(pc) EXCEPT ![p] = "desc_sleep"]
  /\ UNCHANGED <<driver, data, blockno, disk, buf, write, idx>>

(* The chain is formatted and handed to the device; b->disk is 1, so the   *)
(* process goes to sleep(b).                                               *)
virtio_disk_rw(p) ==
  LET d == alloc3_desc  b == buf[p]
  IN  /\ pc[p] = "rw" /\ ~handler
      /\ Cardinality(free) >= 3
      /\ free' = free \ {d[1], d[2], d[3]}
      /\ desc' = [desc EXCEPT
           ![d[1]] = [addr |-> [sector |-> blockno[b], out |-> write[p]],
                      more |-> TRUE, next |-> d[2]],
           ![d[2]] = [addr |-> b, more |-> TRUE, next |-> d[3]],
           ![d[3]] = [addr |-> d[1], more |-> FALSE, next |-> 0]]
      /\ info' = [info EXCEPT ![d[1]] = [b |-> b, status |-> 255]]
      /\ bdisk' = bdisk \cup {b}
      /\ avail' = avail \cup {d[1]}
      /\ idx' = [idx EXCEPT ![p] = d[1]]
      /\ pc' = [pc EXCEPT ![p] = "io"]
      /\ UNCHANGED <<used, pending, handler, data, blockno, disk, buf, write>>

(* free_chain() follows next while the flag says that there is more. *)
chain(i) ==
  LET j == desc[i].next  k == desc[j].next
  IN  {i} \cup (IF desc[i].more THEN {j} \cup (IF desc[j].more THEN {k} ELSE {}) ELSE {})

(* The process is awake again: it tests b->disk, then frees the chain. *)
virtio_disk_rw_done(p) ==
  /\ pc[p] = "io_wake" /\ ~handler
  /\ IF buf[p] \in bdisk
     THEN /\ pc' = [pc EXCEPT ![p] = "io"]
          /\ UNCHANGED <<driver, idx>>
     ELSE /\ info' = [info EXCEPT ![idx[p]].b = NULL]
          /\ free' = free \cup chain(idx[p])
          /\ desc' = [i \in Desc |-> IF i \in chain(idx[p]) THEN NoDesc ELSE desc[i]]
          /\ pc' = [wakeup_free(pc) EXCEPT ![p] = "rw_done"]
          /\ idx' = [idx EXCEPT ![p] = 0]
          /\ UNCHANGED <<avail, used, pending, handler, bdisk>>
  /\ UNCHANGED <<data, blockno, disk, buf, write>>

(* The device, external: it carries out the chains in any order, following *)
(* their descriptors, and raises the interrupt once a chain is in the used *)
(* ring.                                                                   *)
device_complete(h) ==
  LET cmd == desc[h].addr  d2 == desc[h].next  b == desc[d2].addr
      st == desc[desc[d2].next].addr
  IN  /\ h \in avail
      /\ IF cmd.out
         THEN disk' = [disk EXCEPT ![cmd.sector] = data[b]] /\ UNCHANGED data
         ELSE data' = [data EXCEPT ![b] = disk[cmd.sector]] /\ UNCHANGED disk
      /\ info' = [info EXCEPT ![st].status = 0]
      /\ avail' = avail \ {h}
      /\ used' = Append(used, h)
      /\ pending' = TRUE
      /\ UNCHANGED <<free, desc, handler, bdisk, blockno, pc, buf, write, idx>>

(* virtio_disk_intr(): acquire vdisk_lock and acknowledge. *)
virtio_disk_intr ==
  /\ pending /\ ~handler
  /\ handler' = TRUE
  /\ pending' = FALSE
  /\ UNCHANGED <<free, desc, info, avail, used, bdisk, data, blockno, disk, pc, buf, write, idx>>

(* wakeup(b) *)
wakeup_buf(b) == [p \in Proc |-> IF pc[p] = "io" /\ buf[p] = b THEN "io_wake" ELSE pc[p]]

(* disk.used_idx += 1  (Mutant: left out.) *)
same_used == used
next_used == Tail(used)

virtio_disk_intr_one ==
  LET b == info[Head(used)].b
  IN  /\ handler /\ used # <<>>
      /\ bdisk' = bdisk \ {b}
      /\ pc' = wakeup_buf(b)
      /\ used' = next_used
      /\ UNCHANGED <<free, desc, info, avail, pending, handler, data, blockno, disk, buf, write, idx>>

(* The loop of the handler ends.  (Mutant: an if in place of the while.) *)
drained_one == TRUE
drained == used = <<>>
virtio_disk_intr_end ==
  /\ handler /\ drained
  /\ handler' = FALSE
  /\ UNCHANGED <<free, desc, info, avail, used, pending, bdisk, data, blockno, disk, pc, buf, write, idx>>

VirtioNext ==
  \/ \E p \in Proc : virtio_disk_rw(p) \/ virtio_disk_rw_full(p) \/ virtio_disk_rw_done(p)
  \/ \E h \in avail : device_complete(h)
  \/ virtio_disk_intr \/ virtio_disk_intr_one \/ virtio_disk_intr_end
===============================================================================
