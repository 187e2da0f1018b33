---------------------------- MODULE Virtio_proof ----------------------------
(***************************************************************************)
(* Proofs about the disk driver under the buffer cache, for every number   *)
(* of processes, buffers, blocks and descriptors: each step of the driver, *)
(* its interrupt handler and the device keeps BufOK.  A buffer has one     *)
(* holder (LocksOK), so two requests are for different buffers and blocks  *)
(* (Apart), so the chains of the waiting requests stay apart (ChainsOK)    *)
(* and a completion wakes the one process it is for (RingsOK).             *)
(***************************************************************************)
EXTENDS BufCache, FiniteSetTheorems, TLAPS

(* A set of numbers has a least element. *)
LEMMA Least ==
  ASSUME NEW S \in SUBSET Nat, S # {}
  PROVE  Min(S) \in S /\ \A y \in S : Min(S) <= y
<1>1. \E x \in S : \A y \in S : ~(<<y, x>> \in OpToRel(<, Nat))
  BY ZenonT(30), NatLessThanWellFounded, WFMin
<1>2. PICK x \in S : \A y \in S : ~(<<y, x>> \in OpToRel(<, Nat))
  BY ZenonT(30), <1>1
<1>3. \A y \in S : x <= y
  <2>1. \A y \in S : ~(y < x)
    BY ZenonT(30), <1>2 DEF OpToRel
  <2> QED BY <2>1
<1> QED BY Zenon, <1>3 DEF Min

(* A process that is in a call has a buffer of some block; *)
LEMMA HasBuffer ==
  ASSUME TypeOK, LocksOK, NEW p \in Proc, pc[p] # "idle"
  PROVE  buf[p] \in Buf /\ blockno[buf[p]] \in Block
<1>1. buf[p] \in Buf
  BY DEF TypeOK, ProcType, LocksOK
<1> QED BY <1>1 DEF TypeOK, CacheType, LocksOK

(* two that hold theirs have different buffers of different blocks. *)
LEMMA Apart ==
  ASSUME TypeOK, LocksOK, NEW p \in Proc, NEW q \in Proc, Holds(p), Holds(q), p # q
  PROVE  buf[p] # buf[q] /\ blockno[buf[p]] # blockno[buf[q]]
<1>1. pc[p] # "idle" /\ pc[q] # "idle"
  BY DEF Holds, Transfer
<1>2. buf[p] \in Buf /\ buf[q] \in Buf /\ blockno[buf[p]] # NULL
  BY <1>1, HasBuffer, VirtioAssumption
<1>3. buf[p] # buf[q]
  BY DEF LocksOK
<1> QED BY <1>2, <1>3 DEF LocksOK

(* A step of the cache that leaves the requests alone leaves the driver so. *)
LEMMA DriverSame ==
  ASSUME DriverType, ChainsOK, RingsOK, UNCHANGED <<driver, idx>>, Waiting' = Waiting,
         \A p \in Waiting : /\ buf'[p] = buf[p] /\ write'[p] = write[p]
                            /\ blockno'[buf[p]] = blockno[buf[p]]
  PROVE  DriverType' /\ ChainsOK' /\ RingsOK'
<1>1. /\ UNCHANGED <<free, desc, info, avail, used, pending, handler, bdisk, idx>>
      /\ Desc' = Desc /\ NUM' = NUM
  BY DEF driver, Desc, NUM
<1>2. DriverType'
  BY <1>1 DEF DriverType
<1>3. ASSUME NEW p \in Waiting PROVE Formatted(p)'
  <2>1. Formatted(p)
    BY DEF ChainsOK
  <2>2. /\ idx'[p] = idx[p] /\ buf'[p] = buf[p] /\ write'[p] = write[p]
        /\ blockno'[buf'[p]] = blockno[buf[p]]
    BY <1>1
  <2> QED BY <1>1, <2>1, <2>2 DEF Formatted
<1>4. ASSUME NEW p \in Waiting PROVE chain(idx[p])' = chain(idx[p])
  BY <1>1 DEF chain
<1>5. ChainsOK'
  BY <1>1, <1>3, <1>4 DEF ChainsOK
<1>6. RingsOK'
  BY <1>1 DEF RingsOK, InUsed
<1> QED BY <1>2, <1>5, <1>6

(* A chain of three different descriptors has three. *)
LEMMA ThreeElements ==
  ASSUME NEW i, NEW j, NEW k, i # j, i # k, j # k
  PROVE  IsFiniteSet({i, j, k}) /\ Cardinality({i, j, k}) = 3
<1>1. IsFiniteSet({i}) /\ Cardinality({i}) = 1
  BY ZenonT(30), FS_Singleton
<1>2. IsFiniteSet({i} \cup {j}) /\ Cardinality({i} \cup {j}) = 2
  BY <1>1, FS_AddElement
<1>3. IsFiniteSet(({i} \cup {j}) \cup {k}) /\ Cardinality(({i} \cup {j}) \cup {k}) = 3
  BY <1>2, FS_AddElement
<1>4. ({i} \cup {j}) \cup {k} = {i, j, k}
  OBVIOUS
<1> QED BY <1>3, <1>4

(* The ring has finitely many descriptors, numbers. *)
LEMMA DescFinite ==
  ASSUME DriverType
  PROVE  Desc \subseteq Nat /\ IsFiniteSet(Desc) /\ IsFiniteSet(free) /\ Cardinality(free) \in Nat
<1>1. PICK n \in NUMs : Desc = 0 .. n - 1
  BY DEF DriverType
<1>2. n \in Nat /\ 0 \in Int /\ n - 1 \in Int
  BY VirtioAssumption
<1>3. IsFiniteSet(Desc)
  BY <1>1, <1>2, FS_Interval
<1>4. free \in SUBSET Desc
  BY DEF DriverType
<1>5. IsFiniteSet(free)
  BY <1>3, <1>4, FS_Subset
<1> QED BY SMTT(30), <1>1, <1>2, <1>3, <1>5, FS_CardinalityType

(* alloc3_desc() takes three different free descriptors. *)
LEMMA AllocThree ==
  ASSUME DriverType, Cardinality(free) >= 3,
         NEW i, NEW j, NEW k, alloc3_desc = <<i, j, k>>
  PROVE  /\ {i, j, k} \subseteq free /\ i # j /\ i # k /\ j # k
         /\ Cardinality(free \ {i, j, k}) = Cardinality(free) - 3
<1>1. /\ i = Min(free) /\ j = Min(free \ {i}) /\ k = Min(free \ {i, j})
      /\ free \in SUBSET Nat
  BY ZenonT(30), DescFinite DEF alloc3_desc, DriverType
<1> DEFINE f1 == free \ {i}
           f2 == f1 \ {j}
           f3 == f2 \ {k}
<1>2. IsFiniteSet(free) /\ Cardinality(free) \in Nat
  BY DescFinite
<1>3. f2 = free \ {i, j} /\ f3 = free \ {i, j, k} /\ f1 \subseteq free /\ f2 \subseteq f1
  OBVIOUS
<1>4. i \notin f1 /\ i \notin f2 /\ j \notin f2
  OBVIOUS
<1>5. i \in free
  <2>1. free # {}
    BY <1>2, FS_EmptySet
  <2> QED BY <1>1, <2>1, Least
<1>6. IsFiniteSet(f1) /\ Cardinality(f1) = Cardinality(free) - 1
  BY <1>2, <1>5, FS_RemoveElement
<1>7. j \in f1
  <2>1. f1 # {}
    BY <1>2, <1>6, FS_EmptySet
  <2> QED BY <1>1, <2>1, Least
<1> HIDE DEF f1
<1>8. IsFiniteSet(f2) /\ Cardinality(f2) = Cardinality(f1) - 1
  BY <1>6, <1>7, FS_RemoveElement
<1>9. k \in f2
  <2>1. f2 # {}
    <3> HIDE DEF f2
    <3> QED BY <1>2, <1>6, <1>8, FS_EmptySet
  <2>2. f2 \in SUBSET Nat /\ k = Min(f2)
    BY ZenonT(30), <1>1, <1>3
  <2> HIDE DEF f2
  <2> QED BY <2>1, <2>2, Least
<1> HIDE DEF f2
<1>10. IsFiniteSet(f3) /\ Cardinality(f3) = Cardinality(f2) - 1
  BY <1>8, <1>9, FS_RemoveElement
<1> HIDE DEF f3
<1>11. Cardinality(free \ {i, j, k}) = Cardinality(free) - 3
  BY <1>2, <1>3, <1>6, <1>8, <1>10
<1> QED BY Zenon, <1>3, <1>4, <1>5, <1>7, <1>9, <1>11

(* The chain of a request that waits. *)
LEMMA ChainOf ==
  ASSUME ChainsOK, NEW p \in Waiting
  PROVE  /\ chain(idx[p]) = {idx[p], desc[idx[p]].next, desc[desc[idx[p]].next].next}
         /\ chain(idx[p]) \subseteq Desc \ free
         /\ IsFiniteSet(chain(idx[p])) /\ Cardinality(chain(idx[p])) = 3
         /\ idx[p] \in chain(idx[p])
<1> DEFINE i == idx[p]
           j == desc[i].next
           k == desc[j].next
<1>1. /\ {i, j, k} \subseteq Desc \ free /\ i # j /\ i # k /\ j # k
      /\ desc[i].more = TRUE /\ desc[j].more = TRUE
  BY ZenonT(30) DEF ChainsOK, Formatted, IsChain, Desc
<1>2. chain(i) = {i, j, k}
  BY ZenonT(30), <1>1 DEF chain
<1> HIDE DEF i, j, k
<1>3. IsFiniteSet(chain(i)) /\ Cardinality(chain(i)) = 3
  <2>1. i # j /\ i # k /\ j # k
    BY <1>1
  <2>2. IsFiniteSet({i, j, k}) /\ Cardinality({i, j, k}) = 3
    BY ZenonT(30), <2>1, ThreeElements
  <2> QED BY <1>2, <2>2
<1> QED BY ZenonT(30), <1>1, <1>2, <1>3 DEF i, j, k

(* A chain stays one when its descriptors are left alone. *)
LEMMA ChainKept ==
  ASSUME NEW d, NEW e, NEW f, NEW g, NEW i, NEW cmd, NEW b, IsChain(d, f, i, cmd, b),
         DOMAIN e = DOMAIN d,
         \A x \in {i, d[i].next, d[d[i].next].next} : e[x] = d[x] /\ x \notin g
  PROVE  IsChain(e, g, i, cmd, b)
<1> DEFINE j == d[i].next
           k == d[j].next
<1>1. e[i] = d[i] /\ e[j] = d[j] /\ e[k] = d[k] /\ i \notin g /\ j \notin g /\ k \notin g
  OBVIOUS
<1>2. e[i].next = j /\ e[j].next = k
  BY ZenonT(30), <1>1
<1>3. /\ {i, j, k} \subseteq DOMAIN d \ f /\ i # j /\ i # k /\ j # k
      /\ d[i].addr = cmd /\ d[i].more = TRUE
      /\ d[j].addr = b /\ d[j].more = TRUE
      /\ d[k].addr = i /\ d[k].more = FALSE
  BY DEF IsChain
<1> HIDE DEF j, k
<1>4. \A m, n : m = e[i].next /\ n = e[m].next =>
        (/\ {i, m, n} \subseteq DOMAIN e \ g /\ i # m /\ i # n /\ m # n
         /\ e[i].addr = cmd /\ e[i].more = TRUE
         /\ e[m].addr = b /\ e[m].more = TRUE
         /\ e[n].addr = i /\ e[n].more = FALSE)
  BY <1>1, <1>2, <1>3
<1> QED BY ZenonT(30), <1>4 DEF IsChain

(* Finitely many requests are under way. *)
LEMMA WaitingFinite == IsFiniteSet(Waiting) /\ Cardinality(Waiting) \in Nat
<1>1. Waiting \in SUBSET Proc
  BY DEF Waiting
<1> QED BY <1>1, VirtioAssumption, FS_Subset, FS_CardinalityType

(* A process that waits holds its buffer. *)
LEMMA WaitingHolds ==
  ASSUME NEW p \in Waiting
  PROVE  p \in Proc /\ Holds(p) /\ pc[p] \in Transfer
BY DEF Waiting, Holds, Transfer

(* Steps of the driver leave locks and counts alone, *)
LEMMA LocksSame ==
  ASSUME BufOK, UNCHANGED <<blockno, buf, cache>>,
         \A q \in Proc : pc'[q] = pc[q] \/ (pc[q] \in Transfer /\ pc'[q] \in Transfer)
  PROVE  ListType' /\ LocksOK' /\ CountsOK'
<1>1. UNCHANGED <<refcnt, valid, lru, lock, logged, dirty, latest, buf, blockno>>
  BY DEF cache
<1>2. \A q \in Proc : (Holds(q)' <=> Holds(q)) /\ (pc'[q] = "idle" <=> pc[q] = "idle")
  BY DEF Holds, Transfer
<1>3. \A a \in Buf : lock[a] # NULL => lock[a] \in Proc
  BY Zenon DEF BufOK, TypeOK, CacheType
<1>4. LocksOK'
  BY <1>1, <1>2, <1>3 DEF BufOK, LocksOK
<1>5. ListType' /\ CountsOK'
  BY ZenonT(30), <1>1 DEF BufOK, TypeOK, ListType, CountsOK, Users
<1> QED BY <1>4, <1>5

(* and the contents, unless they are the device's. *)
LEMMA ContentsSame ==
  ASSUME BufOK, UNCHANGED <<blockno, buf, write, data, disk, cache>>,
         \A q \in Proc : pc'[q] = pc[q] \/ (pc[q] \in Transfer /\ pc'[q] \in Transfer),
         \A q \in Proc : pc'[q] = "rw_done" \/ (q \in Waiting' /\ idx'[q] \notin avail') =>
                           pc[q] = "rw_done" \/ (q \in Waiting /\ idx[q] \notin avail)
  PROVE  CacheType' /\ ContentsOK'
<1>1. UNCHANGED <<refcnt, valid, lru, lock, logged, dirty, latest, buf, blockno, write, data, disk>>
  BY DEF cache
<1>2. \A q \in Proc : (Holds(q)' <=> Holds(q)) /\ (Writes(q)' <=> Writes(q))
  BY <1>1 DEF Holds, Writes, Transfer
<1>3. dirty \subseteq Proc
  BY DEF BufOK, TypeOK, CacheType
<1>4. \A q \in Proc : pc'[q] = "rw_done" \/ (q \in Waiting' /\ idx'[q] \notin avail') =>
                        data'[buf'[q]] = disk'[blockno'[buf'[q]]]
  BY ZenonT(30), <1>1 DEF BufOK, ContentsOK
<1>5. ContentsOK'
  BY <1>1, <1>2, <1>3, <1>4 DEF BufOK, ContentsOK
<1>6. CacheType'
  BY ZenonT(30), <1>1 DEF BufOK, TypeOK, CacheType
<1> QED BY <1>5, <1>6

(* virtio_disk_rw() without three free descriptors: it sleeps, and whoever *)
(* it wakes tries again.                                                   *)
LEMMA RwFullStep ==
  ASSUME BufOK, NEW p \in Proc, virtio_disk_rw_full(p), UNCHANGED cache
  PROVE  BufOK'
<1>1. /\ pc[p] = "rw" /\ Cardinality(free) < 3
      /\ pc' = [IF free = {} THEN pc ELSE wakeup_free(pc) EXCEPT ![p] = "desc_sleep"]
      /\ UNCHANGED <<driver, data, blockno, disk, buf, write, idx, cache>>
  BY DEF virtio_disk_rw_full
<1>2. pc \in [Proc -> PC]
  BY DEF BufOK, TypeOK, ProcType
<1>3. /\ pc' \in [Proc -> PC] /\ pc'[p] = "desc_sleep"
      /\ \A q \in Proc \ {p} : pc'[q] = pc[q] \/ (pc[q] = "desc_sleep" /\ pc'[q] = "rw")
  BY <1>1, <1>2 DEF wakeup_free, PC, Transfer
<1>4. Waiting' = Waiting
  BY <1>1, <1>3 DEF Waiting
<1>5. \A q \in Proc : pc'[q] = pc[q] \/ (pc[q] \in Transfer /\ pc'[q] \in Transfer)
  BY Zenon, <1>1, <1>3 DEF Transfer
<1>6. DriverType' /\ ChainsOK' /\ RingsOK'
  BY Zenon, <1>1, <1>4, DriverSame DEF BufOK, TypeOK
<1>7. ListType' /\ LocksOK' /\ CountsOK'
  BY Zenon, <1>1, <1>5, LocksSame
<1>8. CacheType' /\ ContentsOK'
  <2>1. \A q \in Proc : pc'[q] = "rw_done" \/ (q \in Waiting' /\ idx'[q] \notin avail') =>
                          pc[q] = "rw_done" \/ (q \in Waiting /\ idx[q] \notin avail)
    BY Zenon, <1>1, <1>3, <1>4 DEF driver
  <2> QED BY Zenon, <1>1, <1>5, <2>1, ContentsSame
<1>9. ProcType'
  BY <1>1, <1>3 DEF BufOK, TypeOK, ProcType
<1>10. NoForgottenSleeper'
  <2>1. UNCHANGED <<lock, free, bdisk, buf>>
    BY <1>1 DEF cache, driver
  <2>2. \A q \in Waiting : q \in Proc /\ q # p /\ pc'[q] = pc[q]
    BY <1>1, <1>3 DEF Waiting
  <2> QED BY ZenonT(30), <1>1, <1>3, <1>4, <2>1, <2>2 DEF BufOK, NoForgottenSleeper
<1> QED BY Zenon, <1>6, <1>7, <1>8, <1>9, <1>10 DEF BufOK, TypeOK

(* virtio_disk_intr() starts: the interrupt becomes the running handler. *)
LEMMA IntrStep ==
  ASSUME BufOK, virtio_disk_intr, UNCHANGED cache
  PROVE  BufOK'
<1>1. /\ handler' = TRUE /\ pending' = FALSE
      /\ UNCHANGED <<free, desc, info, avail, used, bdisk, data, blockno, disk, pc, buf, write, idx, cache>>
      /\ Waiting' = Waiting /\ Desc' = Desc /\ NUM' = NUM
  BY DEF virtio_disk_intr, Waiting, Desc, NUM
<1>2. DriverType' /\ ProcType'
  BY ZenonT(30), <1>1 DEF BufOK, TypeOK, DriverType, ProcType
<1>3. ListType' /\ LocksOK' /\ CountsOK'
  BY SMTT(30), <1>1, LocksSame
<1>4. CacheType' /\ ContentsOK'
  BY Zenon, <1>1, ContentsSame
<1>5. ChainsOK'
  <2>1. \A p \in Waiting : Formatted(p)'
    BY ZenonT(30), <1>1 DEF BufOK, ChainsOK, Formatted
  <2>2. \A p \in Waiting : chain(idx[p])' = chain(idx[p])
    BY Zenon, <1>1 DEF chain
  <2> QED BY SMTT(30), <1>1, <2>1, <2>2 DEF BufOK, ChainsOK
<1>6. RingsOK'
  BY <1>1 DEF BufOK, RingsOK, InUsed
<1>7. NoForgottenSleeper'
  BY ZenonT(30), <1>1 DEF BufOK, NoForgottenSleeper, cache
<1> QED BY SMTT(30), <1>2, <1>3, <1>4, <1>5, <1>6, <1>7 DEF BufOK, TypeOK

(* virtio_disk_intr() ends with the used ring empty. *)
LEMMA IntrEndStep ==
  ASSUME BufOK, virtio_disk_intr_end, UNCHANGED cache
  PROVE  BufOK'
<1>1. /\ used = <<>> /\ handler' = FALSE
      /\ UNCHANGED <<free, desc, info, avail, used, pending, bdisk, data, blockno, disk, pc, buf, write,
                     idx, cache>>
      /\ Waiting' = Waiting /\ Desc' = Desc /\ NUM' = NUM
  BY DEF virtio_disk_intr_end, drained, Waiting, Desc, NUM
<1>2. DriverType' /\ ProcType'
  BY ZenonT(30), <1>1 DEF BufOK, TypeOK, DriverType, ProcType
<1>3. ListType' /\ LocksOK' /\ CountsOK'
  BY <1>1, LocksSame
<1>4. CacheType' /\ ContentsOK'
  BY ZenonT(30), <1>1, ContentsSame
<1>5. ChainsOK'
  <2>1. \A p \in Waiting : Formatted(p)'
    BY ZenonT(30), <1>1 DEF BufOK, ChainsOK, Formatted
  <2>2. \A p \in Waiting : chain(idx[p])' = chain(idx[p])
    BY ZenonT(30), <1>1 DEF chain
  <2> QED BY <1>1, <2>1, <2>2 DEF BufOK, ChainsOK
<1>6. RingsOK'
  BY <1>1 DEF BufOK, RingsOK, InUsed
<1>7. NoForgottenSleeper'
  BY ZenonT(30), <1>1 DEF BufOK, NoForgottenSleeper, cache
<1> QED BY <1>2, <1>3, <1>4, <1>5, <1>6, <1>7 DEF BufOK, TypeOK

(* virtio_disk_intr() takes one completion: it wakes the process whose     *)
(* chain it is, and no other.                                              *)
LEMMA IntrOneStep ==
  ASSUME BufOK, virtio_disk_intr_one, UNCHANGED cache
  PROVE  BufOK'
<1> DEFINE h == Head(used)
           b == info[h].b
<1>1. /\ handler /\ used # <<>> /\ bdisk' = bdisk \ {b} /\ pc' = wakeup_buf(b) /\ used' = Tail(used)
      /\ UNCHANGED <<free, desc, info, avail, pending, handler, data, blockno, disk, buf, write, idx, cache>>
      /\ Desc' = Desc /\ NUM' = NUM
  BY SMTT(30) DEF virtio_disk_intr_one, next_used, Desc, NUM
<1>2. /\ used \in Seq(Desc) /\ Len(used) \in Nat /\ 1 \in 1 .. Len(used) /\ h = used[1] /\ h \in Desc
      /\ used' \in Seq(Desc) /\ Len(used') = Len(used) - 1
      /\ \A i \in 1 .. Len(used') : i + 1 \in 1 .. Len(used) /\ used'[i] = used[i + 1]
      /\ pc \in [Proc -> PC]
  <2>1. used \in Seq(Desc) /\ pc \in [Proc -> PC]
    BY DEF BufOK, TypeOK, DriverType, ProcType
  <2>2. /\ Len(used) \in Nat /\ 1 \in 1 .. Len(used) /\ h = used[1] /\ h \in Desc
    BY SMTT(30), <1>1, <2>1
  <2>3. Tail(used) \in Seq(Desc) /\ Len(Tail(used)) = Len(used) - 1
    BY SMTT(30), <1>1, <2>1
  <2>4. \A i \in 1 .. Len(Tail(used)) : i + 1 \in 1 .. Len(used) /\ Tail(used)[i] = used[i + 1]
    BY <1>1, <2>1
  <2> QED BY Zenon, <1>1, <2>1, <2>2, <2>3, <2>4
<1> HIDE DEF h
<1>3. PICK p \in Waiting : idx[p] = h
  BY ZenonT(30), <1>2 DEF BufOK, RingsOK, InUsed
<1>4. buf[p] = b /\ p \in Proc /\ Holds(p) /\ pc[p] = "io" /\ b \in bdisk
  <2>1. buf[p] = b
    BY ZenonT(30), <1>3 DEF BufOK, ChainsOK, Formatted
  <2>2. buf[p] \in bdisk
    BY SMTT(30), <1>2, <1>3 DEF BufOK, RingsOK, InUsed
  <2> QED BY ZenonT(30), <2>1, <2>2, WaitingHolds DEF BufOK, NoForgottenSleeper
<1> HIDE DEF b
<1>5. ASSUME NEW q \in Waiting, q # p PROVE buf[q] # b /\ idx[q] # h
  <2>1. q \in Proc /\ Holds(q)
    BY Zenon, WaitingHolds
  <2>2. buf[q] # b
    BY Zenon, <1>4, <1>5, <2>1, Apart DEF BufOK
  <2>3. idx[q] # h
    BY ZenonT(30), <1>3, <1>5, ChainOf DEF BufOK, ChainsOK
  <2> QED BY SMTT(30), <2>2, <2>3
<1>6. /\ pc' \in [Proc -> PC] /\ pc'[p] = "io_wake"
      /\ \A q \in Proc \ {p} : pc'[q] = pc[q]
  <2>1. /\ pc' \in [Proc -> PC] /\ pc'[p] = "io_wake"
        /\ \A q \in Proc : pc'[q] = IF pc[q] = "io" /\ buf[q] = b THEN "io_wake" ELSE pc[q]
    BY Zenon, <1>1, <1>2, <1>4 DEF wakeup_buf, PC, Transfer
  <2>2. \A q \in Proc : pc[q] = "io" => q \in Waiting
    BY Zenon DEF Waiting
  <2> QED BY Zenon, <1>5, <2>1, <2>2
<1>7. Waiting' = Waiting
  BY Zenon, <1>3, <1>6 DEF Waiting
<1>8. \A x : InUsed(x)' <=> InUsed(x) /\ x # h
  <2>1. ASSUME NEW x, InUsed(x)' PROVE InUsed(x) /\ x # h
    <3>1. PICK i \in 1 .. Len(used') : used'[i] = x
      BY Zenon, <2>1 DEF InUsed
    <3>2. i + 1 \in 1 .. Len(used) /\ used[i + 1] = x /\ i + 1 # 1
      BY SMTT(30), <1>2, <3>1
    <3>3. x # h
      BY <1>2, <3>2 DEF BufOK, RingsOK
    <3> QED BY Zenon, <3>2, <3>3 DEF InUsed
  <2>2. ASSUME NEW x, InUsed(x), x # h PROVE InUsed(x)'
    <3>1. PICK i \in 1 .. Len(used) : used[i] = x
      BY Zenon, <2>2 DEF InUsed
    <3>2. i # 1 /\ i - 1 \in 1 .. Len(used') /\ (i - 1) + 1 = i
      BY SMTT(30), <1>2, <2>2, <3>1
    <3>3. used'[i - 1] = x
      BY Zenon, <1>2, <3>1, <3>2
    <3> QED BY <3>2, <3>3 DEF InUsed
  <2> QED BY Zenon, <2>1, <2>2
<1>9. \A q \in Proc : pc'[q] = pc[q] \/ (pc[q] \in Transfer /\ pc'[q] \in Transfer)
  BY <1>4, <1>6 DEF Transfer
<1>10. DriverType' /\ ProcType'
  BY ZenonT(30), <1>1, <1>2, <1>6 DEF BufOK, TypeOK, DriverType, ProcType
<1>11. ListType' /\ LocksOK' /\ CountsOK'
  BY ZenonT(30), <1>1, <1>9, LocksSame
<1>12. CacheType' /\ ContentsOK'
  <2>1. \A q \in Proc : pc'[q] = "rw_done" \/ (q \in Waiting' /\ idx'[q] \notin avail') =>
                          pc[q] = "rw_done" \/ (q \in Waiting /\ idx[q] \notin avail)
    BY ZenonT(30), <1>1, <1>6, <1>7
  <2> QED BY ZenonT(30), <1>1, <1>9, <2>1, ContentsSame
<1>13. ChainsOK'
  <2>1. \A q \in Waiting : Formatted(q)'
    BY ZenonT(30), <1>1 DEF BufOK, ChainsOK, Formatted
  <2>2. \A q \in Waiting : chain(idx[q])' = chain(idx[q])
    BY ZenonT(30), <1>1 DEF chain
  <2> QED BY ZenonT(30), <1>1, <1>7, <2>1, <2>2 DEF BufOK, ChainsOK
<1>14. RingsOK'
  <2>1. \A x \in Desc' : x \in avail' \/ InUsed(x)' => \E q \in Waiting' : idx'[q] = x
    BY ZenonT(30), <1>1, <1>7, <1>8 DEF BufOK, RingsOK
  <2>2. ASSUME NEW q \in Waiting
        PROVE  buf'[q] \in bdisk' <=> idx'[q] \in avail' \/ InUsed(idx[q])'
    <3>1. CASE q = p
      <4>1. h \notin avail
        BY ZenonT(30), <1>2 DEF BufOK, RingsOK, InUsed
      <4>3. idx'[p] = h
        BY Zenon, <1>1, <1>3
      <4>4. ~InUsed(idx[p])'
        BY Zenon, <1>1, <1>8, <1>3 DEF InUsed
      <4> QED BY ZenonT(30), <1>1, <1>4, <3>1, <4>1, <4>3, <4>4
    <3>2. CASE q # p
      <4>1. InUsed(idx[q])' <=> InUsed(idx[q])
        BY ZenonT(30), <1>1, <1>5, <1>8, <3>2 DEF InUsed
      <4> QED BY ZenonT(30), <1>1, <1>5, <3>2, <4>1 DEF BufOK, RingsOK
    <3> QED BY <3>1, <3>2
  <2>3. \A a \in bdisk' : \E q \in Waiting' : buf'[q] = a
    BY ZenonT(30), <1>1, <1>7 DEF BufOK, RingsOK
  <2>4. \A x \in avail' : ~InUsed(x)'
    BY ZenonT(30), <1>1, <1>8 DEF BufOK, RingsOK
  <2>5. \A i, j \in 1 .. Len(used') : used'[i] = used'[j] => i = j
    <3>1. \A i, j \in 1 .. Len(used) : used[i] = used[j] => i = j
      BY Zenon DEF BufOK, RingsOK
    <3> QED BY SMTT(30), <1>2, <3>1
  <2>6. \A i \in 1 .. Len(used') : info'[used'[i]].status = 0
    BY SMTT(30), <1>1, <1>2 DEF BufOK, RingsOK
  <2> QED BY ZenonT(30), <1>1, <1>7, <2>1, <2>2, <2>3, <2>4, <2>5, <2>6 DEF RingsOK
<1>15. NoForgottenSleeper'
  <2>1. UNCHANGED <<lock, free, buf>>
    BY Zenon, <1>1 DEF cache
  <2>2. buf[p] \notin bdisk' /\ \A q \in Waiting : q # p => (buf[q] \in bdisk' <=> buf[q] \in bdisk)
    BY Zenon, <1>1, <1>4, <1>5
  <2>3. Waiting \subseteq Proc
    BY DEF Waiting
  <2> QED BY Zenon, <1>6, <1>7, <2>1, <2>2, <2>3 DEF BufOK, NoForgottenSleeper
<1> QED BY Zenon, <1>10, <1>11, <1>12, <1>13, <1>14, <1>15 DEF BufOK, TypeOK

(* virtio_disk_rw() formats a chain of free descriptors: no request of     *)
(* another process, and no entry of a ring, has one of them.               *)
LEMMA RwStep ==
  ASSUME BufOK, NEW p \in Proc, virtio_disk_rw(p), UNCHANGED cache
  PROVE  BufOK'
<1> DEFINE i == alloc3_desc[1]
           j == alloc3_desc[2]
           k == alloc3_desc[3]
           cmd == [sector |-> blockno[buf[p]], out |-> write[p]]
<1>1. /\ pc[p] = "rw" /\ Cardinality(free) >= 3 /\ free' = free \ {i, j, k}
      /\ desc' = [desc EXCEPT ![i] = [addr |-> cmd, more |-> TRUE, next |-> j],
                              ![j] = [addr |-> buf[p], more |-> TRUE, next |-> k],
                              ![k] = [addr |-> i, more |-> FALSE, next |-> 0]]
      /\ info' = [info EXCEPT ![i] = [b |-> buf[p], status |-> 255]]
      /\ bdisk' = bdisk \cup {buf[p]} /\ avail' = avail \cup {i}
      /\ idx' = [idx EXCEPT ![p] = i] /\ pc' = [pc EXCEPT ![p] = "io"]
      /\ UNCHANGED <<used, pending, handler, data, blockno, disk, buf, write, cache>>
  BY ZenonT(30) DEF virtio_disk_rw
<1>2. /\ {i, j, k} \subseteq free /\ i # j /\ i # k /\ j # k
      /\ Cardinality(free') = Cardinality(free) - 3
  <2>1. alloc3_desc = <<i, j, k>>
    BY DEF alloc3_desc
  <2> QED BY ZenonT(30), <1>1, <2>1, AllocThree DEF BufOK, TypeOK
<1> HIDE DEF i, j, k
<1>3. /\ DriverType /\ ProcType /\ free \subseteq Desc /\ free \subseteq Nat /\ buf[p] \in Buf
      /\ desc = [x \in Desc |-> desc[x]] /\ pc \in [Proc -> PC] /\ idx \in [Proc -> Nat]
      /\ info \in [Desc -> [b : Buf \cup {NULL}, status : {0, 255}]]
  BY ZenonT(30), <1>1, HasBuffer, DescFinite DEF BufOK, TypeOK, DriverType, ProcType
<1>4. /\ Desc' = Desc /\ NUM' = NUM /\ desc' = [x \in Desc |-> desc'[x]]
      /\ desc'[i] = [addr |-> cmd, more |-> TRUE, next |-> j]
      /\ desc'[j] = [addr |-> buf[p], more |-> TRUE, next |-> k]
      /\ desc'[k] = [addr |-> i, more |-> FALSE, next |-> 0]
      /\ \A x \in Desc \ {i, j, k} : desc'[x] = desc[x]
  <2> HIDE DEF cmd
  <2>1. DOMAIN desc' = DOMAIN desc /\ desc' = [x \in Desc |-> desc'[x]]
    BY ZenonT(30), <1>1, <1>3 DEF Desc
  <2>2. /\ desc'[i] = [addr |-> cmd, more |-> TRUE, next |-> j]
        /\ desc'[j] = [addr |-> buf[p], more |-> TRUE, next |-> k]
        /\ desc'[k] = [addr |-> i, more |-> FALSE, next |-> 0]
    BY ZenonT(30), <1>1, <1>2, <1>3
  <2>3. \A x \in Desc \ {i, j, k} : desc'[x] = desc[x]
    BY ZenonT(30), <1>1, <1>3
  <2> QED BY SMTT(30), <2>1, <2>2, <2>3 DEF Desc, NUM
<1>5. /\ pc' \in [Proc -> PC] /\ pc'[p] = "io" /\ \A q \in Proc \ {p} : pc'[q] = pc[q]
      /\ idx' \in [Proc -> Nat] /\ idx'[p] = i /\ \A q \in Proc \ {p} : idx'[q] = idx[q]
  BY SMTT(30), <1>1, <1>2, <1>3 DEF PC, Transfer
<1>6. Waiting' = Waiting \cup {p} /\ p \notin Waiting /\ Waiting \subseteq Proc \ {p}
  BY ZenonT(30), <1>1, <1>5 DEF Waiting
<1>7. Holds(p) /\ \A q \in Waiting : Holds(q) /\ buf[q] # buf[p]
  <2>1. Holds(p)
    BY ZenonT(30), <1>1 DEF Holds, Transfer
  <2> QED BY ZenonT(30), <1>6, <2>1, WaitingHolds, Apart DEF BufOK
<1>8. \A q \in Waiting : chain(idx[q]) \subseteq Desc \ free /\ idx[q] \in Desc \ free
  BY ZenonT(30), ChainOf DEF BufOK
<1>9. DriverType' /\ ProcType'
  <2>1. info' \in [Desc -> [b : Buf \cup {NULL}, status : {0, 255}]]
    BY ZenonT(30), <1>1, <1>3
  <2>2. \E n \in NUMs : Desc' = 0 .. n - 1
    BY ZenonT(30), <1>3, <1>4 DEF DriverType
  <2>3. avail' \subseteq Desc /\ free' \subseteq Desc /\ used' \in Seq(Desc) /\ bdisk' \subseteq Buf
    BY SMTT(30), <1>1, <1>2, <1>3 DEF DriverType
  <2>4. pending' \in BOOLEAN /\ handler' \in BOOLEAN
    BY ZenonT(30), <1>1, <1>3 DEF DriverType
  <2>5. DriverType'
    BY Zenon, <1>4, <2>1, <2>2, <2>3, <2>4 DEF DriverType
  <2>6. ProcType'
    BY ZenonT(30), <1>1, <1>3, <1>5 DEF ProcType
  <2> QED BY <2>5, <2>6
<1>10. ListType' /\ LocksOK' /\ CountsOK' /\ CacheType' /\ ContentsOK'
  <2>1. \A q \in Proc : pc'[q] = pc[q] \/ (pc[q] \in Transfer /\ pc'[q] \in Transfer)
    BY ZenonT(30), <1>1, <1>5 DEF Transfer
  <2>2. \A q \in Proc : pc'[q] = "rw_done" \/ (q \in Waiting' /\ idx'[q] \notin avail') =>
                          pc[q] = "rw_done" \/ (q \in Waiting /\ idx[q] \notin avail)
    BY ZenonT(30), <1>1, <1>5, <1>6
  <2> QED BY ZenonT(30), <1>1, <2>1, <2>2, LocksSame, ContentsSame
<1>11. ASSUME NEW q \in Waiting PROVE Formatted(q)' /\ chain(idx[q])' = chain(idx[q])
  <2> DEFINE x == idx[q]
             y == desc[x].next
             z == desc[y].next
  <2>1. chain(x) = {x, y, z} /\ {x, y, z} \subseteq Desc \ free
    BY ZenonT(30), <1>8, ChainOf DEF BufOK
  <2>2. \A w \in {x, y, z} : desc'[w] = desc[w] /\ w \notin free'
    BY ZenonT(30), <1>1, <1>2, <1>4, <2>1
  <2>3. idx'[q] = x /\ buf'[q] = buf[q] /\ write'[q] = write[q] /\ blockno'[buf'[q]] = blockno[buf[q]]
    BY ZenonT(30), <1>1, <1>5, <1>6
  <2>4. info'[x] = info[x]
    <3>1. x \in Desc /\ x # i
      BY <1>2, <2>1
    <3> HIDE DEF x
    <3> QED BY ZenonT(30), <1>1, <1>3, <3>1
  <2> DEFINE c == [sector |-> blockno[buf[q]], out |-> write[q]]
  <2>5. IsChain(desc, free, x, c, buf[q]) /\ info[x].b = buf[q]
    BY ZenonT(30) DEF BufOK, ChainsOK, Formatted
  <2>6. IsChain(desc', free', x, c, buf[q])
    <3>1. DOMAIN desc' = DOMAIN desc
      BY <1>4 DEF Desc
    <3>2. \A w \in {x, desc[x].next, desc[desc[x].next].next} : desc'[w] = desc[w] /\ w \notin free'
      BY ZenonT(30), <2>2
    <3> HIDE DEF c, x
    <3> QED BY Zenon, <2>5, <3>1, <3>2, ChainKept
  <2>7. Formatted(q)'
    BY ZenonT(30), <2>3, <2>4, <2>5, <2>6 DEF Formatted
  <2>8. chain(idx[q])' = chain(idx[q])
    <3>1. desc'[x] = desc[x] /\ desc'[y] = desc[y]
      BY ZenonT(30), <2>2
    <3> QED BY ZenonT(30), <2>3, <3>1 DEF chain
  <2> QED BY <2>7, <2>8
<1>12. Formatted(p)' /\ chain(idx[p])' = {i, j, k}
  <2>1. info'[i].b = buf[p]
    BY ZenonT(30), <1>1, <1>2, <1>3
  <2>2. i \in Desc /\ j \in Desc /\ k \in Desc /\ i \notin free' /\ j \notin free' /\ k \notin free'
    BY ZenonT(30), <1>1, <1>2, <1>3
  <2>3. /\ desc'[i].next = j /\ desc'[j].next = k /\ desc'[i].addr = cmd /\ desc'[j].addr = buf[p]
        /\ desc'[k].addr = i /\ desc'[i].more = TRUE /\ desc'[j].more = TRUE /\ desc'[k].more = FALSE
    BY SMTT(30), <1>4
  <2>4. DOMAIN desc' = Desc
    BY <1>4 DEF Desc
  <2>5. IsChain(desc', free', i, cmd, buf[p])
    <3> HIDE DEF cmd
    <3> QED BY ZenonT(30), <1>2, <2>2, <2>3, <2>4 DEF IsChain
  <2>6. Formatted(p)'
    BY ZenonT(30), <1>1, <1>5, <2>1, <2>5 DEF Formatted
  <2>7. chain(idx[p])' = {i, j, k}
    BY ZenonT(30), <1>5, <2>3 DEF chain
  <2> QED BY <2>6, <2>7
<1>13. ChainsOK'
  <2>1. \A q \in Waiting' : Formatted(q)'
    BY ZenonT(30), <1>6, <1>11, <1>12
  <2>2. \A q, r \in Waiting' : q # r => chain(idx[q])' \cap chain(idx[r])' = {}
    <3>1. \A q \in Waiting : chain(idx[q])' \cap chain(idx[p])' = {}
      BY ZenonT(30), <1>2, <1>8, <1>11, <1>12
    <3>2. \A q, r \in Waiting : q # r => chain(idx[q])' \cap chain(idx[r])' = {}
      BY ZenonT(30), <1>11 DEF BufOK, ChainsOK
    <3> QED BY Zenon, <1>6, <3>1, <3>2
  <2>3. Cardinality(Waiting') = Cardinality(Waiting) + 1
    BY Zenon, <1>6, WaitingFinite, FS_AddElement
  <2>4. Cardinality(free') + 3 * Cardinality(Waiting') = NUM'
    <3>1. Cardinality(free) + 3 * Cardinality(Waiting) = NUM
      BY DEF BufOK, ChainsOK
    <3>2. Cardinality(free) \in Nat /\ Cardinality(Waiting) \in Nat
      BY Zenon, <1>3, DescFinite, WaitingFinite
    <3> QED BY SMTT(30), <1>2, <1>4, <2>3, <3>1, <3>2
  <2> QED BY Zenon, <2>1, <2>2, <2>4 DEF ChainsOK
<1>14. i \notin avail /\ ~InUsed(i) /\ buf[p] \notin bdisk
  <2>1. i \in Desc
    BY <1>2, <1>3
  <2> QED BY ZenonT(30), <1>2, <1>7, <1>8, <2>1 DEF BufOK, RingsOK
<1>15. \A x : InUsed(x)' <=> InUsed(x)
  BY ZenonT(30), <1>1 DEF InUsed
<1>16. RingsOK'
  <2>1. \A x \in Desc' : x \in avail' \/ InUsed(x)' => \E q \in Waiting' : idx'[q] = x
    <3> SUFFICES ASSUME NEW x \in Desc, x \in avail' \/ InUsed(x)'
                 PROVE  \E q \in Waiting' : idx'[q] = x
      BY Zenon, <1>4
    <3>1. CASE x = i
      BY Zenon, <1>5, <1>6, <3>1
    <3>2. CASE x # i
      <4>1. PICK q \in Waiting : idx[q] = x
        BY ZenonT(30), <1>1, <1>15, <3>2 DEF BufOK, RingsOK
      <4> QED BY Zenon, <1>5, <1>6, <4>1
    <3> QED BY <3>1, <3>2
  <2>2. \A q \in Waiting' : buf'[q] \in bdisk' <=> idx'[q] \in avail' \/ InUsed(idx[q])'
    <3>1. buf'[p] \in bdisk' /\ idx'[p] \in avail'
      BY ZenonT(30), <1>1, <1>5
    <3>2. ASSUME NEW q \in Waiting
          PROVE  buf'[q] \in bdisk' <=> idx'[q] \in avail' \/ InUsed(idx[q])'
      <4>1. idx'[q] = idx[q] /\ idx[q] # i /\ buf[q] # buf[p]
        BY ZenonT(30), <1>2, <1>5, <1>6, <1>7, <1>8
      <4>2. InUsed(idx[q])' <=> InUsed(idx[q])
        BY ZenonT(30), <1>1, <4>1 DEF InUsed
      <4> QED BY SMTT(30), <1>1, <4>1, <4>2 DEF BufOK, RingsOK
    <3> QED BY ZenonT(30), <1>6, <3>1, <3>2
  <2>3. \A a \in bdisk' : \E q \in Waiting' : buf'[q] = a
    BY ZenonT(30), <1>1, <1>6 DEF BufOK, RingsOK
  <2>4. \A x \in avail' : ~InUsed(x)'
    BY ZenonT(30), <1>1, <1>14, <1>15 DEF BufOK, RingsOK
  <2>5. \A m \in 1 .. Len(used') : info'[used'[m]].status = 0
    <3> SUFFICES ASSUME NEW m \in 1 .. Len(used) PROVE info'[used[m]].status = 0
      BY ZenonT(30), <1>1
    <3>1. used[m] # i /\ used[m] \in Desc
      <4>1. used \in Seq(Desc)
        BY <1>3 DEF DriverType
      <4>2. used[m] \in Desc
        BY SMTT(30), <4>1
      <4> QED BY Zenon, <1>14, <4>2 DEF InUsed
    <3>2. info'[used[m]] = info[used[m]]
      BY SMTT(30), <1>1, <1>3, <3>1
    <3> QED BY ZenonT(30), <3>2 DEF BufOK, RingsOK
  <2>6. \A m, n \in 1 .. Len(used') : used'[m] = used'[n] => m = n
    BY ZenonT(30), <1>1 DEF BufOK, RingsOK
  <2>7. used' # <<>> => pending' \/ handler'
    BY ZenonT(30), <1>1 DEF BufOK, RingsOK
  <2> QED BY ZenonT(30), <2>1, <2>2, <2>3, <2>4, <2>5, <2>6, <2>7 DEF RingsOK
<1>17. NoForgottenSleeper'
  <2>1. UNCHANGED <<lock, buf>>
    BY ZenonT(30), <1>1 DEF cache
  <2>2. \A q \in Waiting : buf[q] \in bdisk' <=> buf[q] \in bdisk
    BY ZenonT(30), <1>1, <1>7
  <2>3. \A q \in Proc : pc'[q] # "desc_sleep"
    <3>1. \A q \in Proc : pc[q] = "desc_sleep" => Cardinality(free) < 3
      BY DEF BufOK, NoForgottenSleeper
    <3>2. Cardinality(free) \in Nat
      BY <1>3, DescFinite
    <3> QED BY SMTT(30), <1>1, <1>5, <3>1, <3>2
  <2>4. buf[p] \in bdisk'
    BY ZenonT(30), <1>1
  <2> QED BY ZenonT(30), <1>5, <1>6, <2>1, <2>2, <2>3, <2>4 DEF BufOK, NoForgottenSleeper
<1> QED BY Zenon, <1>9, <1>10, <1>13, <1>16, <1>17 DEF BufOK, TypeOK

(* virtio_disk_rw() frees its chain once b->disk is 0: the device is done  *)
(* with it, and the chains of the others are apart from it.                *)
LEMMA RwDoneStep ==
  ASSUME BufOK, NEW p \in Proc, virtio_disk_rw_done(p), UNCHANGED cache
  PROVE  BufOK'
<1> DEFINE C == chain(idx[p])
<1>1. pc[p] = "io_wake" /\ p \in Waiting
  BY Zenon DEF virtio_disk_rw_done, Waiting
<1>2. buf[p] \notin bdisk /\ idx[p] \notin avail /\ ~InUsed(idx[p])
  BY <1>1 DEF BufOK, NoForgottenSleeper, RingsOK
<1>3. /\ info' = [info EXCEPT ![idx[p]].b = NULL] /\ free' = free \cup C
      /\ desc' = [x \in Desc |-> IF x \in C THEN NoDesc ELSE desc[x]]
      /\ pc' = [wakeup_free(pc) EXCEPT ![p] = "rw_done"] /\ idx' = [idx EXCEPT ![p] = 0]
      /\ UNCHANGED <<avail, used, pending, handler, bdisk, data, blockno, disk, buf, write, cache>>
  BY <1>2 DEF virtio_disk_rw_done
<1>4. C \subseteq Desc \ free /\ IsFiniteSet(C) /\ Cardinality(C) = 3 /\ idx[p] \in C
  BY ZenonT(30), <1>1, ChainOf DEF BufOK
<1> HIDE DEF C
<1>5. /\ DriverType /\ ProcType /\ free \subseteq Desc /\ pc \in [Proc -> PC] /\ idx \in [Proc -> Nat]
      /\ info \in [Desc -> [b : Buf \cup {NULL}, status : {0, 255}]]
  BY DEF BufOK, TypeOK, DriverType, ProcType
<1>6. /\ Desc' = Desc /\ NUM' = NUM /\ desc' = [x \in Desc |-> desc'[x]]
      /\ \A x \in Desc \ C : desc'[x] = desc[x]
  BY <1>3 DEF Desc, NUM
<1>7. /\ pc' \in [Proc -> PC] /\ pc'[p] = "rw_done"
      /\ \A q \in Proc \ {p} : pc'[q] = IF pc[q] = "desc_sleep" THEN "rw" ELSE pc[q]
      /\ idx' \in [Proc -> Nat] /\ \A q \in Proc \ {p} : idx'[q] = idx[q]
  <2>1. wakeup_free(pc) \in [Proc -> PC] /\ "rw_done" \in PC
    BY <1>5 DEF wakeup_free, PC, Transfer
  <2>2. \A q \in Proc : wakeup_free(pc)[q] = IF pc[q] = "desc_sleep" THEN "rw" ELSE pc[q]
    BY Zenon DEF wakeup_free
  <2> QED BY SMTT(30), <1>3, <1>5, <2>1, <2>2
<1>8. Waiting' = Waiting \ {p} /\ Waiting \subseteq Proc
  BY <1>7 DEF Waiting
<1>9. \A q \in Waiting' : /\ q \in Waiting /\ q # p /\ chain(idx[q]) \cap C = {}
                          /\ chain(idx[q]) \subseteq Desc \ free /\ idx[q] \in Desc \ C
  <2> SUFFICES ASSUME NEW q \in Waiting, q # p
               PROVE  /\ chain(idx[q]) \cap C = {}
                      /\ chain(idx[q]) \subseteq Desc \ free /\ idx[q] \in Desc \ C
    BY Zenon, <1>8
  <2>1. chain(idx[q]) \cap C = {}
    BY <1>1 DEF BufOK, ChainsOK, C
  <2>2. chain(idx[q]) \subseteq Desc \ free /\ idx[q] \in chain(idx[q])
    BY ZenonT(30), ChainOf DEF BufOK
  <2> QED BY Zenon, <2>1, <2>2
<1>10. DriverType' /\ ProcType'
  <2>1. info' \in [Desc -> [b : Buf \cup {NULL}, status : {0, 255}]]
    <3>1. idx[p] \in Desc
      BY <1>4
    <3>2. [info[idx[p]] EXCEPT !.b = NULL] \in [b : Buf \cup {NULL}, status : {0, 255}]
      BY SMTT(30), <1>5, <3>1
    <3> QED BY Zenon, <1>3, <1>5, <3>1, <3>2
  <2>2. \E n \in NUMs : Desc' = 0 .. n - 1
    BY <1>5, <1>6 DEF DriverType
  <2>3. avail' \subseteq Desc /\ free' \subseteq Desc /\ used' \in Seq(Desc) /\ bdisk' \subseteq Buf
    BY Zenon, <1>3, <1>4, <1>5 DEF DriverType
  <2>4. pending' \in BOOLEAN /\ handler' \in BOOLEAN
    BY Zenon, <1>3, <1>5 DEF DriverType
  <2>5. DriverType'
    BY Zenon, <1>6, <2>1, <2>2, <2>3, <2>4 DEF DriverType
  <2>6. ProcType'
    BY Zenon, <1>3, <1>5, <1>7 DEF ProcType
  <2> QED BY <2>5, <2>6
<1>11. ListType' /\ LocksOK' /\ CountsOK' /\ CacheType' /\ ContentsOK'
  <2>1. \A q \in Proc : pc'[q] = pc[q] \/ (pc[q] \in Transfer /\ pc'[q] \in Transfer)
    BY Zenon, <1>1, <1>7 DEF Transfer
  <2>2. \A q \in Proc : pc'[q] = "rw_done" \/ (q \in Waiting' /\ idx'[q] \notin avail') =>
                          pc[q] = "rw_done" \/ (q \in Waiting /\ idx[q] \notin avail)
    BY Zenon, <1>1, <1>2, <1>3, <1>7, <1>9
  <2> QED BY Zenon, <1>3, <2>1, <2>2, LocksSame, ContentsSame
<1>12. ASSUME NEW q \in Waiting' PROVE Formatted(q)' /\ chain(idx[q])' = chain(idx[q])
  <2> DEFINE x == idx[q]
             y == desc[x].next
             z == desc[y].next
             c == [sector |-> blockno[buf[q]], out |-> write[q]]
  <2>1. q \in Waiting /\ q # p
    BY <1>9
  <2>2. chain(x) = {x, y, z} /\ {x, y, z} \subseteq Desc \ (free \cup C)
    BY ZenonT(30), <1>9, <2>1, ChainOf DEF BufOK
  <2>3. \A w \in {x, y, z} : desc'[w] = desc[w] /\ w \notin free'
    BY Zenon, <1>3, <1>6, <2>2
  <2>4. idx'[q] = x /\ buf'[q] = buf[q] /\ write'[q] = write[q] /\ blockno'[buf'[q]] = blockno[buf[q]]
    BY Zenon, <1>3, <1>7, <1>8, <2>1
  <2>5. info'[x] = info[x]
    <3>1. x \in Desc /\ x # idx[p]
      BY ZenonT(30), <1>4, <2>2
    <3> HIDE DEF x
    <3> QED BY SMTT(30), <1>3, <1>5, <3>1
  <2>6. IsChain(desc, free, x, c, buf[q]) /\ info[x].b = buf[q]
    BY ZenonT(30), <2>1 DEF BufOK, ChainsOK, Formatted
  <2>7. IsChain(desc', free', x, c, buf[q])
    <3>1. DOMAIN desc' = DOMAIN desc
      BY <1>6 DEF Desc
    <3>2. \A w \in {x, desc[x].next, desc[desc[x].next].next} : desc'[w] = desc[w] /\ w \notin free'
      BY ZenonT(30), <2>3
    <3> HIDE DEF c, x
    <3> QED BY Zenon, <2>6, <3>1, <3>2, ChainKept
  <2>8. Formatted(q)'
    BY ZenonT(30), <2>4, <2>5, <2>6, <2>7 DEF Formatted
  <2>9. chain(idx[q])' = chain(idx[q])
    <3>1. desc'[x] = desc[x] /\ desc'[y] = desc[y]
      BY ZenonT(30), <2>3
    <3> QED BY ZenonT(30), <2>4, <3>1 DEF chain
  <2> QED BY Zenon, <2>8, <2>9
<1>13. ChainsOK'
  <2>1. \A q, r \in Waiting' : q # r => chain(idx[q])' \cap chain(idx[r])' = {}
    <3>1. \A q, r \in Waiting : q # r => chain(idx[q]) \cap chain(idx[r]) = {}
      BY Zenon DEF BufOK, ChainsOK
    <3> QED BY ZenonT(30), <1>9, <1>12, <3>1
  <2>2. Cardinality(Waiting') = Cardinality(Waiting) - 1
    BY Zenon, <1>1, <1>8, WaitingFinite, FS_RemoveElement
  <2>3. Cardinality(free') = Cardinality(free) + 3
    <3>1. free \cap C = {} /\ IsFiniteSet(free) /\ Cardinality(free) \in Nat
      BY Zenon, <1>4, <1>5, DescFinite
    <3>2. Cardinality(free \cap C) = 0
      BY Zenon, <3>1, FS_EmptySet
    <3>3. Cardinality(free \cup C) = Cardinality(free) + Cardinality(C) - Cardinality(free \cap C)
      BY Zenon, <1>4, <3>1, FS_Union
    <3> QED BY SMTT(30), <1>3, <1>4, <3>1, <3>2, <3>3
  <2>4. Cardinality(free') + 3 * Cardinality(Waiting') = NUM'
    <3>1. Cardinality(free) + 3 * Cardinality(Waiting) = NUM
      BY DEF BufOK, ChainsOK
    <3>2. Cardinality(free) \in Nat /\ Cardinality(Waiting) \in Nat
      BY Zenon, <1>5, DescFinite, WaitingFinite
    <3> QED BY SMTT(30), <1>6, <2>2, <2>3, <3>1, <3>2
  <2> QED BY ZenonT(30), <1>12, <2>1, <2>4 DEF ChainsOK
<1>14. \A x : InUsed(x)' <=> InUsed(x)
  BY <1>3 DEF InUsed
<1>15. RingsOK'
  <2>1. \A x \in Desc' : x \in avail' \/ InUsed(x)' => \E q \in Waiting' : idx'[q] = x
    <3> SUFFICES ASSUME NEW x \in Desc, x \in avail \/ InUsed(x)
                 PROVE  \E q \in Waiting' : idx'[q] = x
      BY Zenon, <1>3, <1>6, <1>14
    <3>1. PICK q \in Waiting : idx[q] = x
      BY DEF BufOK, RingsOK
    <3> QED BY ZenonT(30), <1>2, <1>7, <1>8, <3>1
  <2>2. ASSUME NEW q \in Waiting'
        PROVE  buf'[q] \in bdisk' <=> idx'[q] \in avail' \/ InUsed(idx[q])'
    <3>1. idx'[q] = idx[q] /\ q \in Waiting
      BY ZenonT(30), <1>7, <1>8, <1>9
    <3>2. InUsed(idx[q])' <=> InUsed(idx[q])
      BY Zenon, <1>3, <3>1 DEF InUsed
    <3> QED BY SMTT(30), <1>3, <3>1, <3>2 DEF BufOK, RingsOK
  <2>3. \A a \in bdisk' : \E q \in Waiting' : buf'[q] = a
    BY Zenon, <1>2, <1>3, <1>8 DEF BufOK, RingsOK
  <2>4. \A x \in avail' : ~InUsed(x)'
    BY Zenon, <1>3, <1>14 DEF BufOK, RingsOK
  <2>5. \A m \in 1 .. Len(used') : info'[used'[m]].status = 0
    <3> SUFFICES ASSUME NEW m \in 1 .. Len(used) PROVE info'[used[m]].status = 0
      BY <1>3
    <3>1. used[m] # idx[p] /\ used[m] \in Desc
      <4>1. used \in Seq(Desc)
        BY Zenon, <1>5 DEF DriverType
      <4>2. used[m] \in Desc
        BY <4>1
      <4> QED BY ZenonT(30), <1>2, <4>2 DEF InUsed
    <3>2. info'[used[m]] = info[used[m]]
      BY SMTT(30), <1>3, <1>5, <3>1
    <3> QED BY Zenon, <3>2 DEF BufOK, RingsOK
  <2>6. \A m, n \in 1 .. Len(used') : used'[m] = used'[n] => m = n
    BY Zenon, <1>3 DEF BufOK, RingsOK
  <2>7. used' # <<>> => pending' \/ handler'
    BY <1>3 DEF BufOK, RingsOK
  <2> QED BY ZenonT(30), <2>1, <2>2, <2>3, <2>4, <2>5, <2>6, <2>7 DEF RingsOK
<1>16. NoForgottenSleeper'
  <2>1. UNCHANGED <<lock, buf, bdisk>>
    BY Zenon, <1>3 DEF cache
  <2>2. \A q \in Proc : pc'[q] # "desc_sleep" /\ (pc'[q] = "lock_sleep" => pc[q] = "lock_sleep")
    BY Zenon, <1>7
  <2>3. \A q \in Waiting' : q \in Waiting /\ (pc'[q] = "io" <=> pc[q] = "io")
    BY Zenon, <1>7, <1>8, <1>9
  <2> QED BY ZenonT(30), <2>1, <2>2, <2>3 DEF BufOK, NoForgottenSleeper
<1> QED BY <1>10, <1>11, <1>13, <1>15, <1>16 DEF BufOK, TypeOK

(* An index of a ring that grew by one entry is the new one or an earlier one. *)
LEMMA OneLonger ==
  ASSUME NEW n \in Nat
  PROVE  /\ n + 1 \in 1 .. (n + 1)
         /\ \A m \in 1 .. (n + 1) : m = n + 1 \/ m \in 1 .. n
OBVIOUS

(* The device carries out a chain: buffer and block become equal, and no   *)
(* other holder has either.                                                *)
LEMMA DeviceStep ==
  ASSUME BufOK, NEW h \in avail, device_complete(h), UNCHANGED cache
  PROVE  BufOK'
<1>1. h \in Desc
  BY Zenon DEF BufOK, TypeOK, DriverType
<1>2. PICK p \in Waiting : idx[p] = h
  BY <1>1 DEF BufOK, RingsOK
<1> DEFINE b == buf[p]
           k == blockno[b]
<1>3. /\ desc[h].addr = [sector |-> k, out |-> write[p]]
      /\ desc[desc[h].next].addr = b
      /\ desc[desc[desc[h].next].next].addr = h
  BY ZenonT(30), <1>2 DEF BufOK, ChainsOK, Formatted, IsChain
<1>4. /\ IF write[p] THEN disk' = [disk EXCEPT ![k] = data[b]] /\ data' = data
                     ELSE data' = [data EXCEPT ![b] = disk[k]] /\ disk' = disk
      /\ info' = [info EXCEPT ![h].status = 0] /\ avail' = avail \ {h} /\ used' = Append(used, h)
      /\ pending' = TRUE
      /\ UNCHANGED <<free, desc, handler, bdisk, blockno, pc, buf, write, idx, cache>>
  BY SMTT(30), <1>3 DEF device_complete
<1>5. p \in Proc /\ Holds(p) /\ pc[p] \in Transfer /\ b \in Buf /\ k \in Block /\ write[p] \in BOOLEAN
  BY Zenon, WaitingHolds, HasBuffer DEF BufOK, Transfer, TypeOK, ProcType
<1>6. \A q \in Proc : Holds(q) /\ q # p => buf[q] # b /\ blockno[buf[q]] # k
  BY Zenon, <1>5, Apart DEF BufOK
<1>7. /\ Desc' = Desc /\ NUM' = NUM /\ Waiting' = Waiting /\ Waiting \subseteq Proc
      /\ used \in Seq(Desc) /\ data \in [Buf -> {0, 1}] /\ disk \in [Block -> {0, 1}]
      /\ info \in [Desc -> [b : Buf \cup {NULL}, status : {0, 255}]]
  BY <1>4 DEF Desc, NUM, Waiting, BufOK, TypeOK, DriverType, CacheType
<1> HIDE DEF b, k
<1>8. /\ used' \in Seq(Desc) /\ Len(used') = Len(used) + 1 /\ used'[Len(used')] = h
      /\ Len(used) \in Nat
      /\ \A m \in 1 .. Len(used) : m \in 1 .. Len(used') /\ used'[m] = used[m] /\ used[m] \in Desc
  BY SMTT(30), <1>1, <1>4, <1>7
<1>9. /\ info' \in [Desc -> [b : Buf \cup {NULL}, status : {0, 255}]] /\ info'[h].status = 0
      /\ \A x \in Desc : info'[x].b = info[x].b
      /\ \A x \in Desc \ {h} : info'[x] = info[x]
  <2>1. [info[h] EXCEPT !.status = 0] \in [b : Buf \cup {NULL}, status : {0, 255}]
    <3>1. info[h] \in [b : Buf \cup {NULL}, status : {0, 255}]
      BY <1>1, <1>7
    <3> QED BY Zenon, <3>1
  <2>2. info' = [info EXCEPT ![h] = [info[h] EXCEPT !.status = 0]]
    BY <1>4
  <2> QED BY SMTT(30), <1>1, <1>7, <2>1, <2>2
<1>10. \A x : InUsed(x)' <=> InUsed(x) \/ x = h
  <2>1. ASSUME NEW x, InUsed(x)' PROVE InUsed(x) \/ x = h
    <3>1. PICK m \in 1 .. Len(used') : used'[m] = x
      BY Zenon, <2>1 DEF InUsed
    <3>2. m = Len(used') \/ m \in 1 .. Len(used)
      BY Zenon, <1>8, <3>1, OneLonger
    <3> QED BY ZenonT(30), <1>8, <3>1, <3>2 DEF InUsed
  <2>2. ASSUME NEW x, InUsed(x) \/ x = h PROVE InUsed(x)'
    <3>1. Len(used') \in 1 .. Len(used')
      BY Zenon, <1>8, OneLonger
    <3> QED BY Zenon, <1>8, <2>2, <3>1 DEF InUsed
  <2> QED BY <2>1, <2>2
<1>11. ~InUsed(h)
  BY DEF BufOK, RingsOK
<1>12. DriverType' /\ ProcType'
  <2>1. DriverType'
    BY SMTT(30), <1>4, <1>7, <1>8, <1>9 DEF BufOK, TypeOK, DriverType
  <2> QED BY Zenon, <1>4, <2>1 DEF BufOK, TypeOK, ProcType
<1>13. ListType' /\ LocksOK' /\ CountsOK'
  BY <1>4, LocksSame
<1>14. ChainsOK'
  <2>1. \A q \in Waiting : idx[q] \in Desc
    BY ZenonT(30), ChainOf DEF BufOK
  <2>2. \A q \in Waiting : Formatted(q)'
    BY ZenonT(30), <1>4, <1>9, <2>1 DEF BufOK, ChainsOK, Formatted
  <2>3. \A q \in Waiting : chain(idx[q])' = chain(idx[q])
    BY <1>4 DEF chain
  <2>4. \A q, r \in Waiting : q # r => chain(idx[q])' \cap chain(idx[r])' = {}
    BY ZenonT(30), <2>3 DEF BufOK, ChainsOK
  <2>5. Cardinality(free') + 3 * Cardinality(Waiting') = NUM'
    BY Zenon, <1>4, <1>7 DEF BufOK, ChainsOK
  <2> QED BY ZenonT(30), <1>7, <2>2, <2>4, <2>5 DEF ChainsOK
<1>15. RingsOK'
  <2>1. \A x \in Desc' : x \in avail' \/ InUsed(x)' => \E q \in Waiting' : idx'[q] = x
    BY Zenon, <1>2, <1>4, <1>7, <1>10 DEF BufOK, RingsOK
  <2>2. ASSUME NEW q \in Waiting
        PROVE  buf'[q] \in bdisk' <=> idx'[q] \in avail' \/ InUsed(idx[q])'
    <3>1. InUsed(idx[q])' <=> InUsed(idx[q]) \/ idx[q] = h
      BY Zenon, <1>4, <1>10 DEF InUsed
    <3> QED BY ZenonT(30), <1>4, <3>1 DEF BufOK, RingsOK
  <2>3. \A a \in bdisk' : \E q \in Waiting' : buf'[q] = a
    BY Zenon, <1>4, <1>7 DEF BufOK, RingsOK
  <2>4. \A x \in avail' : ~InUsed(x)'
    BY Zenon, <1>4, <1>10 DEF BufOK, RingsOK
  <2>5. \A m \in 1 .. Len(used') : info'[used'[m]].status = 0
    <3> SUFFICES ASSUME NEW m \in 1 .. Len(used') PROVE info'[used'[m]].status = 0
      OBVIOUS
    <3>1. m = Len(used') \/ m \in 1 .. Len(used)
      BY Zenon, <1>8, OneLonger
    <3>2. CASE m \in 1 .. Len(used)
      <4>1. used[m] # h
        BY Zenon, <1>11, <3>2 DEF InUsed
      <4>2. used'[m] = used[m] /\ used[m] \in Desc \ {h}
        BY Zenon, <1>8, <3>2, <4>1
      <4>3. info[used[m]].status = 0
        BY Zenon, <3>2 DEF BufOK, RingsOK
      <4> QED BY Zenon, <1>9, <4>2, <4>3
    <3> QED BY ZenonT(30), <1>8, <1>9, <3>1, <3>2
  <2>6. \A m, n \in 1 .. Len(used') : used'[m] = used'[n] => m = n
    <3>1. \A m \in 1 .. Len(used') : m = Len(used') \/ m \in 1 .. Len(used)
      BY Zenon, <1>8, OneLonger
    <3>2. \A m \in 1 .. Len(used) : used[m] # h
      BY Zenon, <1>11 DEF InUsed
    <3>3. \A m, n \in 1 .. Len(used) : used[m] = used[n] => m = n
      BY Zenon DEF BufOK, RingsOK
    <3> QED BY ZenonT(30), <1>8, <3>1, <3>2, <3>3
  <2> QED BY Zenon, <1>4, <1>7, <2>1, <2>2, <2>3, <2>4, <2>5, <2>6 DEF RingsOK
<1>16. NoForgottenSleeper'
  BY Zenon, <1>4, <1>7 DEF BufOK, NoForgottenSleeper, cache
<1>17. CacheType'
  <2>1. data[b] \in {0, 1} /\ disk[k] \in {0, 1}
    BY ZenonT(30), <1>5, <1>7
  <2>2. data' \in [Buf -> {0, 1}] /\ disk' \in [Block -> {0, 1}]
    BY SMTT(30), <1>4, <1>7, <2>1
  <2> QED BY Zenon, <1>4, <2>2 DEF BufOK, TypeOK, CacheType, cache
<1>18. data'[b] = disk'[k] /\ \A q \in Proc : Holds(q) /\ q # p =>
         data'[buf[q]] = data[buf[q]] /\ disk'[blockno[buf[q]]] = disk[blockno[buf[q]]]
  <2>1. \A q \in Proc : Holds(q) => buf[q] \in Buf /\ blockno[buf[q]] \in Block
    BY ZenonT(30), HasBuffer DEF BufOK, Holds, Transfer
  <2> QED BY <1>4, <1>5, <1>6, <1>7, <2>1
<1>19. ContentsOK'
  <2>1. UNCHANGED <<refcnt, valid, lru, lock, logged, dirty, latest, buf, blockno, write, pc, idx>>
    BY <1>4 DEF cache
  <2>2. \A q \in Proc : (Holds(q)' <=> Holds(q)) /\ (Writes(q)' <=> Writes(q))
    BY ZenonT(30), <2>1 DEF Holds, Writes
  <2>3. (write[p] <=> b \in valid) /\ (b \in valid => data[b] = latest[k])
    <3>1. Writes(p) <=> write[p]
      BY ZenonT(30), <1>5 DEF Writes, Transfer
    <3> QED BY ZenonT(30), <1>5, <3>1 DEF BufOK, ContentsOK, b, k
  <2>4. valid \subseteq Buf /\ dirty \subseteq Proc
    BY DEF BufOK, TypeOK, CacheType
  <2>5. \A a \in valid' : blockno'[a] # NULL /\ data'[a] = latest'[blockno'[a]]
    <3>1. \A a \in valid : data'[a] = data[a]
      <4>1. CASE write[p]
        BY Zenon, <1>4, <4>1
      <4>2. CASE ~write[p]
        <5>1. data' = [data EXCEPT ![b] = disk[k]] /\ b \notin valid
          BY Zenon, <1>4, <2>3, <4>2
        <5> SUFFICES ASSUME NEW a \in valid PROVE data'[a] = data[a]
          OBVIOUS
        <5>2. a \in DOMAIN data /\ a # b
          BY Zenon, <1>7, <2>4, <5>1
        <5> QED BY Zenon, <5>1, <5>2
      <4> QED BY Zenon, <4>1, <4>2
    <3> QED BY ZenonT(30), <2>1, <3>1 DEF BufOK, ContentsOK
  <2>6. \A m \in Block : \/ disk'[m] = latest'[m]
                         \/ \E a \in valid' : /\ blockno'[a] = m
                                              /\ a \in logged' \/ \E q \in dirty' : buf'[q] = a
    <3>1. \A m \in Block : disk'[m] = disk[m] \/ disk'[m] = latest[m]
      <4>1. CASE write[p]
        BY Zenon, <1>4, <1>7, <2>3, <4>1
      <4>2. CASE ~write[p]
        BY Zenon, <1>4, <4>2
      <4> QED BY Zenon, <4>1, <4>2
    <3>2. ASSUME NEW m \in Block
          PROVE  \/ disk'[m] = latest[m]
                 \/ \E a \in valid : blockno[a] = m /\ (a \in logged \/ \E q \in dirty : buf[q] = a)
      <4>1. \/ disk[m] = latest[m]
            \/ \E a \in valid : blockno[a] = m /\ (a \in logged \/ \E q \in dirty : buf[q] = a)
        BY Zenon DEF BufOK, ContentsOK
      <4> QED BY Zenon, <3>1, <4>1
    <3> QED BY <2>1, <3>2
  <2>7. \A q \in Proc : pc'[q] = "rw_done" \/ (q \in Waiting' /\ idx'[q] \notin avail') =>
                          data'[buf'[q]] = disk'[blockno'[buf'[q]]]
    <3> SUFFICES ASSUME NEW q \in Proc, pc[q] = "rw_done" \/ (q \in Waiting /\ idx[q] \notin avail')
                 PROVE  data'[buf[q]] = disk'[blockno[buf[q]]]
      BY ZenonT(30), <1>7, <2>1
    <3>1. CASE q = p
      BY Zenon, <1>18, <3>1 DEF b, k
    <3>2. CASE q # p
      <4>1. Holds(q)
        BY Zenon, WaitingHolds DEF Holds, Transfer
      <4>2. idx[q] = h => q \notin Waiting
        <5>1. q \in Waiting => chain(idx[q]) \cap chain(idx[p]) = {}
          BY ZenonT(30), <3>2 DEF BufOK, ChainsOK
        <5>2. q \in Waiting => idx[q] \in chain(idx[q])
          BY ZenonT(30), ChainOf DEF BufOK
        <5>3. idx[p] \in chain(idx[p])
          BY ZenonT(30), ChainOf DEF BufOK
        <5> QED BY Zenon, <1>2, <5>1, <5>2, <5>3
      <4>3. data[buf[q]] = disk[blockno[buf[q]]]
        BY Zenon, <1>4, <4>2 DEF BufOK, ContentsOK
      <4> QED BY Zenon, <1>18, <3>2, <4>1, <4>3
    <3> QED BY ZenonT(30), <3>1, <3>2
  <2>8. logged' \subseteq valid' /\ (\A q \in dirty' : Writes(q)')
    BY ZenonT(30), <2>1, <2>2, <2>4 DEF BufOK, ContentsOK
  <2>9. \A q \in Proc : Holds(q)' => (Writes(q)' <=> buf'[q] \in valid')
    BY ZenonT(30), <2>1, <2>2 DEF BufOK, ContentsOK
  <2> QED BY ZenonT(30), <2>5, <2>6, <2>7, <2>8, <2>9 DEF ContentsOK
<1> QED BY Zenon, <1>12, <1>13, <1>14, <1>15, <1>16, <1>17, <1>19 DEF BufOK, TypeOK
=============================================================================
