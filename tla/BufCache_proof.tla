--------------------------- MODULE BufCache_proof ---------------------------
(***************************************************************************)
(* Proofs about the buffer cache, over those about the driver.  BufOK is   *)
(* inductive.  Its parts lean on each other: LocksOK keeps the requests    *)
(* apart, and what a finished transfer left in buffer and block            *)
(* (ContentsOK) cannot be overtaken by another.                            *)
(***************************************************************************)
EXTENDS Virtio_proof

(* A bounded set of numbers has a greatest element. *)
LEMMA Greatest ==
  ASSUME NEW n \in Nat, NEW S \in SUBSET (1 .. n), S # {}
  PROVE  Max(S) \in S /\ \A y \in S : y <= Max(S)
<1> DEFINE T == {m \in Nat : m <= n /\ n - m \in S}
<1>1. T \in SUBSET Nat /\ T # {}
  <2>1. PICK x : x \in S
    OBVIOUS
  <2>2. n - x \in Nat /\ n - x <= n /\ n - (n - x) = x
    BY <2>1
  <2>3. n - x \in T
    BY <2>1, <2>2
  <2> QED BY <2>3
<1> DEFINE m == Min(T)
<1>2. m \in T /\ \A y \in T : m <= y
  BY <1>1, Least
<1>3. n - m \in S
  BY <1>2
<1>4. ASSUME NEW y \in S PROVE n - m >= y
  <2>1. n - y \in Nat /\ n - y <= n /\ n - (n - y) = y
    OBVIOUS
  <2>2. n - y \in T
    BY <2>1
  <2>3. m <= n - y /\ m \in Nat
    BY <1>2, <2>2
  <2> HIDE DEF m, T
  <2> QED BY <2>3
<1> HIDE DEF m, T
<1>5. Max(S) \in S /\ \A y \in S : Max(S) >= y
  BY Zenon, <1>3, <1>4 DEF Max
<1> QED BY <1>5

(* bget() finds a buffer that nobody uses, if there is one. *)
LEMMA VictimUnused ==
  ASSUME ListType, \E b \in Buf : refcnt[b] = 0
  PROVE  victim \in Buf /\ refcnt[victim] = 0
<1> DEFINE S == {i \in DOMAIN lru : refcnt[lru[i]] = 0}
<1>1. lru \in Seq(Buf) /\ DOMAIN lru = 1 .. Len(lru) /\ Len(lru) \in Nat
  BY DEF ListType
<1>2. S \in SUBSET (1 .. Len(lru)) /\ S # {}
  BY SMTT(30), <1>1 DEF ListType
<1>3. Max(S) \in S
  BY ZenonT(30), <1>1, <1>2, Greatest
<1>4. Max(S) \in DOMAIN lru /\ refcnt[lru[Max(S)]] = 0
  BY <1>3
<1> QED BY <1>1, <1>4 DEF victim

(* brelse() keeps every buffer in the list. *)
LEMMA FrontKeepsAll ==
  ASSUME ListType, NEW b \in Buf
  PROVE  to_front(b) \in Seq(Buf) /\ \A a \in Buf : \E i \in 1 .. Len(to_front(b)) : to_front(b)[i] = a
<1> DEFINE k == CHOOSE i \in DOMAIN lru : lru[i] = b
<1>1. lru \in Seq(Buf) /\ DOMAIN lru = 1 .. Len(lru) /\ Len(lru) \in Nat
  BY DEF ListType
<1>2. k \in 1 .. Len(lru) /\ lru[k] = b
  BY <1>1 DEF ListType
<1> HIDE DEF k
<1> DEFINE f == [i \in 1 .. Len(lru) |-> IF i = 1 THEN b ELSE IF i <= k THEN lru[i - 1] ELSE lru[i]]
<1>3. to_front(b) = f
  BY <1>1 DEF to_front, k
<1>4. ASSUME NEW i \in 1 .. Len(lru)
      PROVE  f[i] = (IF i = 1 THEN b ELSE IF i <= k THEN lru[i - 1] ELSE lru[i]) /\ f[i] \in Buf
  <2>1. f[i] = (IF i = 1 THEN b ELSE IF i <= k THEN lru[i - 1] ELSE lru[i])
    OBVIOUS
  <2>2. i # 1 => i - 1 \in 1 .. Len(lru)
    BY <1>1
  <2> HIDE DEF f
  <2> QED BY <1>1, <2>1, <2>2
<1>5. f \in [1 .. Len(lru) -> Buf]
  BY <1>4
<1> HIDE DEF f
<1>6. f \in Seq(Buf) /\ Len(f) = Len(lru)
  BY <1>1, <1>5
<1>7. ASSUME NEW a \in Buf PROVE \E i \in 1 .. Len(f) : f[i] = a
  <2>1. PICK j \in 1 .. Len(lru) : lru[j] = a
    BY DEF ListType
  <2>2. CASE a = b
    <3>1. 1 \in 1 .. Len(lru)
      BY <1>1, <1>2
    <3> QED BY <1>4, <1>6, <2>2, <3>1
  <2>3. CASE a # b /\ j < k
    <3>1. j + 1 \in 1 .. Len(lru) /\ j + 1 # 1 /\ j + 1 <= k /\ (j + 1) - 1 = j
      BY <1>1, <1>2, <2>3
    <3> QED BY Zenon, <1>4, <1>6, <2>1, <3>1
  <2>4. CASE a # b /\ j > k
    <3>1. j # 1 /\ ~(j <= k)
      BY <1>2, <2>4
    <3> QED BY Zenon, <1>4, <1>6, <2>1, <3>1
  <2>5. j # k \/ a = b
    BY <1>2, <2>1
  <2> QED BY SMTT(30), <1>2, <2>2, <2>3, <2>4, <2>5
<1> QED BY <1>3, <1>6, <1>7

(* Finitely many processes use a buffer. *)
LEMMA UsersFinite ==
  ASSUME NEW b
  PROVE  IsFiniteSet(Users(b)) /\ Cardinality(Users(b)) \in Nat
<1>1. Users(b) \in SUBSET Proc
  BY DEF Users
<1> QED BY Zenon, <1>1, VirtioAssumption, FS_Subset, FS_CardinalityType

(* A buffer with a user has a positive number of them. *)
LEMMA SomeUser ==
  ASSUME NEW b, NEW p \in Users(b)
  PROVE  Cardinality(Users(b)) # 0
BY UsersFinite, FS_EmptySet

(* The number of processes that have buffer b, when one more has it, *)
LEMMA OneUserMore ==
  ASSUME ProcType, NEW p \in Proc, NEW b \in Buf, buf[p] = NULL, buf' = [buf EXCEPT ![p] = b]
  PROVE  \A a \in Buf : Cardinality(Users(a)') =
           IF a = b THEN Cardinality(Users(a)) + 1 ELSE Cardinality(Users(a))
<1> SUFFICES ASSUME NEW a \in Buf
             PROVE  Cardinality(Users(a)') =
                      IF a = b THEN Cardinality(Users(a)) + 1 ELSE Cardinality(Users(a))
  OBVIOUS
<1>1. CASE a # b
  <2>1. Users(a)' = Users(a)
    BY <1>1, VirtioAssumption DEF ProcType, Users
  <2> QED BY <1>1, <2>1
<1>2. CASE a = b
  <2>1. Users(a)' = Users(a) \cup {p} /\ p \notin Users(a)
    BY <1>2, VirtioAssumption DEF ProcType, Users
  <2> QED BY ZenonT(30), <1>2, <2>1, UsersFinite, FS_AddElement
<1> QED BY <1>1, <1>2

(* and one fewer. *)
LEMMA OneUserLess ==
  ASSUME ProcType, NEW p \in Proc, NEW b \in Buf, buf[p] = b, buf' = [buf EXCEPT ![p] = NULL]
  PROVE  \A a \in Buf : Cardinality(Users(a)') =
           IF a = b THEN Cardinality(Users(a)) - 1 ELSE Cardinality(Users(a))
<1> SUFFICES ASSUME NEW a \in Buf
             PROVE  Cardinality(Users(a)') =
                      IF a = b THEN Cardinality(Users(a)) - 1 ELSE Cardinality(Users(a))
  OBVIOUS
<1>1. CASE a # b
  <2>1. Users(a)' = Users(a)
    BY <1>1, VirtioAssumption DEF ProcType, Users
  <2> QED BY <1>1, <2>1
<1>2. CASE a = b
  <2>1. Users(a)' = Users(a) \ {p} /\ p \in Users(a)
    BY <1>2, VirtioAssumption DEF ProcType, Users
  <2> QED BY ZenonT(30), <1>2, <2>1, UsersFinite, FS_RemoveElement
<1> QED BY <1>1, <1>2

(* A buffer without references is in nobody's hands. *)
LEMMA Unreferenced ==
  ASSUME CacheType, LocksOK, CountsOK, NEW b \in Buf, refcnt[b] = 0
  PROVE  b \notin logged /\ lock[b] = NULL /\ \A q \in Proc : buf[q] # b
<1>1. b \notin logged /\ Cardinality(Users(b)) = 0
  BY UsersFinite DEF CountsOK
<1>2. Users(b) = {}
  BY <1>1, UsersFinite, FS_EmptySet
<1>3. \A q \in Proc : buf[q] # b
  BY <1>2 DEF Users
<1> QED BY <1>1, <1>3 DEF LocksOK, CacheType

-------------------------------------------------------------------------------
(* A step of process p that leaves the driver and the requests under way   *)
(* as they are; to the others it can at most be a wakeup.                  *)
OnlyBy(p) ==
  /\ UNCHANGED <<driver, idx>>
  /\ pc[p] \notin {"io", "io_wake"} /\ pc'[p] \in PC \ {"io", "io_wake", "desc_sleep"}
  /\ \A q \in Proc \ {p} : /\ pc'[q] = pc[q] \/ (pc[q] = "lock_sleep" /\ pc'[q] = "acquiresleep")
                          /\ buf'[q] = buf[q] /\ write'[q] = write[q]
  /\ \A q \in Waiting : blockno'[buf[q]] = blockno[buf[q]]

(* It keeps what is said of the driver, *)
LEMMA OnlyByDriver ==
  ASSUME BufOK, NEW p \in Proc, OnlyBy(p)
  PROVE  DriverType' /\ ChainsOK' /\ RingsOK' /\ Waiting' = Waiting /\ p \notin Waiting
<1>1. Waiting' = Waiting /\ p \notin Waiting
  BY DEF OnlyBy, Waiting
<1>2. \A q \in Waiting : /\ buf'[q] = buf[q] /\ write'[q] = write[q]
                         /\ blockno'[buf[q]] = blockno[buf[q]]
  BY <1>1 DEF OnlyBy, Waiting
<1>3. UNCHANGED <<driver, idx>>
  BY DEF OnlyBy
<1> QED BY <1>1, <1>2, <1>3, DriverSame DEF BufOK, TypeOK

(* what the other processes hold, *)
LEMMA OnlyByHolds ==
  ASSUME NEW p \in Proc, OnlyBy(p)
  PROVE  \A q \in Proc \ {p} : (Holds(q)' <=> Holds(q)) /\ (Writes(q)' <=> Writes(q))
BY DEF OnlyBy, Holds, Writes, Transfer

(* and, if p does not go to sleep, that nobody is forgotten. *)
LEMMA OnlyBySleepers ==
  ASSUME BufOK, NEW p \in Proc, OnlyBy(p),
         pc'[p] = "lock_sleep" => lock'[buf'[p]] # NULL,
         \A q \in Proc \ {p} : pc'[q] = "lock_sleep" /\ lock[buf[q]] # NULL => lock'[buf[q]] # NULL
  PROVE  NoForgottenSleeper'
<1>1. Waiting' = Waiting /\ p \notin Waiting
  BY OnlyByDriver
<1>2. UNCHANGED <<free, bdisk>>
  BY DEF OnlyBy, driver
<1> SUFFICES ASSUME NEW q \in Proc
             PROVE  /\ pc'[q] = "lock_sleep" => lock'[buf'[q]] # NULL
                    /\ pc'[q] = "desc_sleep" => Cardinality(free') < 3
                    /\ q \in Waiting' => (pc'[q] = "io" <=> buf'[q] \in bdisk')
  BY DEF NoForgottenSleeper
<1>3. CASE q = p
  BY Zenon, <1>1, <1>3 DEF OnlyBy
<1>4. CASE q # p
  <2>1. /\ pc'[q] = pc[q] \/ (pc[q] = "lock_sleep" /\ pc'[q] = "acquiresleep")
        /\ buf'[q] = buf[q]
    BY Zenon, <1>4 DEF OnlyBy
  <2> QED BY Zenon, <1>1, <1>2, <1>4, <2>1 DEF BufOK, NoForgottenSleeper
<1> QED BY <1>3, <1>4

(* The locks are in the same hands if the holders are the same, *)
LEMMA LocksKept ==
  ASSUME BufOK, UNCHANGED <<lock, blockno, buf>>,
         \A q \in Proc : (Holds(q)' <=> Holds(q)) /\ (pc'[q] = "idle" <=> pc[q] = "idle")
  PROVE  LocksOK'
<1>1. \A a \in Buf : lock[a] # NULL => lock[a] \in Proc
  BY DEF BufOK, TypeOK, CacheType
<1> QED BY Zenon, <1>1 DEF BufOK, LocksOK

(* the counts are the same as long as users and pins are, *)
LEMMA CountsKept ==
  ASSUME BufOK, UNCHANGED <<refcnt, buf, logged>>
  PROVE  CountsOK'
<1>1. \A a \in Buf : Users(a)' = Users(a)
  BY DEF Users
<1> QED BY <1>1 DEF BufOK, CountsOK

(* and so is the list, which only brelse() changes. *)
LEMMA ListKept ==
  ASSUME BufOK, UNCHANGED lru
  PROVE  ListType'
BY Zenon DEF BufOK, TypeOK, ListType

(* What the finished transfers of the others left is still there. *)
LEMMA TransfersKept ==
  ASSUME BufOK, NEW p \in Proc, OnlyBy(p), pc'[p] # "rw_done", UNCHANGED <<disk, blockno>>,
         \A q \in Proc \ {p} : Holds(q) => data'[buf[q]] = data[buf[q]]
  PROVE  \A q \in Proc : pc'[q] = "rw_done" \/ (q \in Waiting' /\ idx'[q] \notin avail') =>
                           data'[buf'[q]] = disk'[blockno'[buf'[q]]]
<1>1. Waiting' = Waiting /\ p \notin Waiting /\ UNCHANGED <<idx, avail>>
  BY Zenon, OnlyByDriver DEF OnlyBy, driver
<1>2. \A q \in Proc : pc'[q] = "rw_done" \/ q \in Waiting' =>
                       q # p /\ pc'[q] = pc[q] /\ buf'[q] = buf[q] /\ Holds(q)
  BY Zenon, <1>1 DEF OnlyBy, Holds, Waiting, Transfer
<1> QED BY SMTT(30), <1>1, <1>2 DEF BufOK, ContentsOK

(* The contents stay, if the step leaves them alone. *)
LEMMA ContentsKept ==
  ASSUME BufOK, NEW p \in Proc, OnlyBy(p), UNCHANGED <<data, disk, latest, blockno, valid, logged, dirty>>,
         p \in dirty => Writes(p)' /\ buf'[p] = buf[p],
         Holds(p)' => (Writes(p)' <=> buf'[p] \in valid), pc'[p] # "rw_done"
  PROVE  ContentsOK'
<1>1. /\ \A q \in Proc \ {p} : (Holds(q)' <=> Holds(q)) /\ (Writes(q)' <=> Writes(q)) /\ buf'[q] = buf[q]
      /\ Waiting' = Waiting /\ p \notin Waiting /\ UNCHANGED <<idx, avail>>
  BY Zenon, OnlyByHolds, OnlyByDriver DEF OnlyBy, driver
<1>2. dirty \subseteq Proc /\ \A q \in dirty : Writes(q)' /\ buf'[q] = buf[q]
  BY Zenon, <1>1 DEF BufOK, TypeOK, CacheType, ContentsOK
<1>3. \A q \in Proc : Holds(q)' => (Writes(q)' <=> buf'[q] \in valid')
  BY Zenon, <1>1 DEF BufOK, ContentsOK
<1>4. \A m \in Block : \/ disk'[m] = latest'[m]
                       \/ \E b \in valid' : /\ blockno'[b] = m
                                            /\ b \in logged' \/ \E q \in dirty' : buf'[q] = b
  BY <1>2 DEF BufOK, ContentsOK
<1>5. \A q \in Proc : pc'[q] = "rw_done" \/ (q \in Waiting' /\ idx'[q] \notin avail') =>
                         data'[buf'[q]] = disk'[blockno'[buf'[q]]]
  BY Zenon, TransfersKept
<1>6. logged' \subseteq valid' /\ \A b \in valid' : blockno'[b] # NULL /\ data'[b] = latest'[blockno'[b]]
  BY Zenon DEF BufOK, ContentsOK
<1> QED BY Zenon, <1>2, <1>3, <1>4, <1>5, <1>6 DEF ContentsOK

-------------------------------------------------------------------------------
(* bget() of a cached block: one more user, who has no lock yet. *)
LEMMA BgetCachedStep ==
  ASSUME BufOK, NEW p \in Proc, NEW b \in Buf, bget_cached(p, b)
  PROVE  BufOK'
<1>1. /\ pc[p] = "idle" /\ blockno[b] # NULL /\ refcnt' = [refcnt EXCEPT ![b] = @ + 1]
      /\ buf' = [buf EXCEPT ![p] = b] /\ pc' = [pc EXCEPT ![p] = "acquiresleep"]
      /\ UNCHANGED <<driver, data, blockno, disk, write, idx, valid, lru, lock, logged, dirty, latest>>
  BY Zenon DEF bget_cached
<1>2. /\ pc \in [Proc -> PC] /\ buf \in [Proc -> Buf \cup {NULL}] /\ refcnt \in [Buf -> Nat]
      /\ buf[p] = NULL /\ lock \in [Buf -> Proc \cup {NULL}]
  BY Zenon, <1>1 DEF BufOK, LocksOK, TypeOK, ProcType, CacheType
<1>3. OnlyBy(p) /\ pc'[p] = "acquiresleep" /\ buf'[p] = b
  BY Zenon, <1>1, <1>2 DEF OnlyBy, PC, Waiting
<1>4. CacheType' /\ ProcType'
  BY SMTT(30), <1>1, <1>2 DEF BufOK, TypeOK, CacheType, ProcType, PC
<1>5. ~Holds(p) /\ ~Holds(p)' /\ ~Writes(p) /\ p \notin dirty
  BY ZenonT(30), <1>1, <1>3 DEF Holds, Writes, Transfer, BufOK, ContentsOK
<1>6. LocksOK'
  <2>1. \A q \in Proc \ {p} : Holds(q)' <=> Holds(q)
    BY Zenon, <1>3, OnlyByHolds
  <2> QED BY SMTT(30), <1>1, <1>2, <1>5, <2>1, VirtioAssumption DEF BufOK, LocksOK
<1>7. CountsOK'
  <2>1. \A a \in Buf : Cardinality(Users(a)') =
          IF a = b THEN Cardinality(Users(a)) + 1 ELSE Cardinality(Users(a))
    BY Zenon, <1>1, <1>2, OneUserMore DEF BufOK, TypeOK
  <2> QED BY SMTT(30), <1>1, <1>2, <2>1, UsersFinite DEF BufOK, CountsOK
<1>8. ContentsOK' /\ NoForgottenSleeper' /\ ListType'
  BY Zenon, <1>1, <1>3, <1>5, ContentsKept, OnlyBySleepers, ListKept
<1> QED BY Zenon, <1>3, <1>4, <1>6, <1>7, <1>8, OnlyByDriver DEF BufOK, TypeOK

(* acquiresleep() of a locked buffer: one sleeper more. *)
LEMMA AcquireWaitStep ==
  ASSUME BufOK, NEW p \in Proc, acquiresleep_wait(p)
  PROVE  BufOK'
<1>1. /\ pc[p] = "acquiresleep" /\ lock[buf[p]] # NULL /\ pc' = [pc EXCEPT ![p] = "lock_sleep"]
      /\ UNCHANGED <<driver, data, blockno, disk, buf, write, idx, refcnt, valid, lru, lock, logged, dirty, latest>>
  BY DEF acquiresleep_wait, cache
<1>2. pc \in [Proc -> PC]
  BY DEF BufOK, TypeOK, ProcType
<1>3. OnlyBy(p) /\ pc'[p] = "lock_sleep"
  BY Zenon, <1>1, <1>2 DEF OnlyBy, PC
<1>4. CacheType' /\ ProcType'
  BY Zenon, <1>1, <1>2 DEF BufOK, TypeOK, CacheType, ProcType, PC
<1>5. ~Holds(p) /\ ~Holds(p)' /\ ~Writes(p) /\ p \notin dirty
  BY ZenonT(30), <1>1, <1>3 DEF Holds, Writes, Transfer, BufOK, ContentsOK
<1>6. LocksOK' /\ CountsOK'
  <2>1. \A q \in Proc : (Holds(q)' <=> Holds(q)) /\ (pc'[q] = "idle" <=> pc[q] = "idle")
    BY Zenon, <1>1, <1>3, <1>5, OnlyByHolds DEF OnlyBy
  <2> QED BY Zenon, <1>1, <2>1, LocksKept, CountsKept
<1>7. ContentsOK' /\ NoForgottenSleeper' /\ ListType'
  BY Zenon, <1>1, <1>3, <1>5, ContentsKept, OnlyBySleepers, ListKept
<1> QED BY Zenon, <1>3, <1>4, <1>6, <1>7, OnlyByDriver DEF BufOK, TypeOK

(* acquiresleep() of a free one: its only holder from now on. *)
LEMMA AcquireStep ==
  ASSUME BufOK, NEW p \in Proc, acquiresleep(p)
  PROVE  BufOK'
<1>1. /\ pc[p] = "acquiresleep" /\ lock[buf[p]] = NULL /\ lock' = [lock EXCEPT ![buf[p]] = p]
      /\ pc' = [pc EXCEPT ![p] = IF buf[p] \in valid THEN "using" ELSE "rw"]
      /\ write' = [write EXCEPT ![p] = FALSE]
      /\ UNCHANGED <<driver, data, blockno, disk, buf, idx, refcnt, valid, lru, logged, dirty, latest>>
  BY Zenon DEF acquiresleep
<1>2. /\ pc \in [Proc -> PC] /\ buf[p] \in Buf /\ write \in [Proc -> BOOLEAN]
      /\ lock \in [Buf -> Proc \cup {NULL}]
  BY Zenon, <1>1, HasBuffer DEF BufOK, TypeOK, ProcType, CacheType
<1>3. OnlyBy(p) /\ pc'[p] = (IF buf[p] \in valid THEN "using" ELSE "rw") /\ write'[p] = FALSE
  BY Zenon, <1>1, <1>2 DEF OnlyBy, PC, Transfer
<1>4. CacheType' /\ ProcType'
  BY Zenon, <1>1, <1>2 DEF BufOK, TypeOK, CacheType, ProcType, PC, Transfer
<1>5. ~Holds(p) /\ Holds(p)' /\ ~Writes(p) /\ p \notin dirty /\ (Writes(p)' <=> buf[p] \in valid)
  <2>1. ~Holds(p) /\ ~Writes(p)
    BY <1>1 DEF Holds, Writes, Transfer
  <2>2. Holds(p)' /\ (Writes(p)' <=> buf[p] \in valid)
    BY <1>3 DEF Holds, Writes, Transfer
  <2> QED BY Zenon, <2>1, <2>2 DEF BufOK, ContentsOK
<1>6. LocksOK'
  <2>1. \A q \in Proc \ {p} : (Holds(q)' <=> Holds(q)) /\ (Holds(q) => buf[q] # buf[p])
    <3>1. \A q \in Proc : q # NULL /\ (Holds(q) => lock[buf[q]] = q)
      BY Zenon, VirtioAssumption DEF BufOK, LocksOK
    <3> QED BY Zenon, <1>1, <1>3, <3>1, OnlyByHolds
  <2>2. \A q \in Proc : pc'[q] = "idle" <=> pc[q] = "idle"
    BY SMTT(30), <1>1, <1>3 DEF OnlyBy
  <2>3. /\ \A q \in Proc : buf'[q] = NULL <=> pc'[q] = "idle"
        /\ \A q \in Proc : pc'[q] # "idle" => blockno'[buf'[q]] # NULL
        /\ \A a, b \in Buf : blockno'[a] = blockno'[b] /\ blockno'[a] # NULL => a = b
    BY ZenonT(30), <1>1, <2>2 DEF BufOK, LocksOK
  <2>4. /\ lock'[buf[p]] = p /\ \A b : b # buf[p] /\ b \in Buf => lock'[b] = lock[b]
        /\ \A b \in Buf : lock[b] # NULL => lock[b] \in Proc
    BY <1>1, <1>2
  <2>5. \A q \in Proc : Holds(q) => buf[q] \in Buf /\ lock[buf[q]] = q
    BY Zenon, HasBuffer DEF BufOK, LocksOK, Holds, Transfer
  <2>6. \A q \in Proc : Holds(q)' => lock'[buf'[q]] = q
    BY Zenon, <1>1, <2>1, <2>4, <2>5
  <2>7. ASSUME NEW b \in Buf, lock'[b] # NULL
        PROVE  Holds(lock[b])' /\ buf'[lock'[b]] = b
    <3>1. CASE b = buf[p]
      BY Zenon, <1>1, <1>5, <2>4, <3>1
    <3>2. CASE b # buf[p]
      <4>1. lock'[b] = lock[b] /\ Holds(lock[b]) /\ buf[lock[b]] = b /\ lock[b] \in Proc
        BY Zenon, <2>4, <2>7, <3>2 DEF BufOK, LocksOK
      <4> QED BY Zenon, <1>1, <1>5, <2>1, <4>1
    <3> QED BY Zenon, <3>1, <3>2
  <2> QED BY Zenon, <2>3, <2>6, <2>7 DEF LocksOK
<1>7. ContentsOK' /\ ListType' /\ CountsOK'
  BY SMTT(30), <1>1, <1>3, <1>5, ContentsKept, ListKept, CountsKept
<1>8. NoForgottenSleeper'
  <2>1. \A q \in Proc \ {p} : lock[buf[q]] # NULL => lock'[buf[q]] # NULL
    BY <1>1
  <2> QED BY Zenon, <1>3, <2>1, OnlyBySleepers
<1> QED BY Zenon, <1>3, <1>4, <1>6, <1>7, <1>8, OnlyByDriver DEF BufOK, TypeOK

(* bwrite() starts a transfer of a valid buffer. *)
LEMMA BwriteStep ==
  ASSUME BufOK, NEW p \in Proc, bwrite(p)
  PROVE  BufOK'
<1>1. /\ pc[p] = "using" /\ write' = [write EXCEPT ![p] = TRUE] /\ pc' = [pc EXCEPT ![p] = "rw"]
      /\ UNCHANGED <<driver, data, blockno, disk, buf, idx, refcnt, valid, lru, lock, logged, dirty, latest>>
  BY DEF bwrite, cache
<1>2. pc \in [Proc -> PC] /\ write \in [Proc -> BOOLEAN]
  BY Zenon DEF BufOK, TypeOK, ProcType
<1>3. OnlyBy(p) /\ pc'[p] = "rw" /\ write'[p] = TRUE
  BY Zenon, <1>1, <1>2 DEF OnlyBy, PC, Transfer
<1>4. CacheType' /\ ProcType'
  BY ZenonT(30), <1>1, <1>2 DEF BufOK, TypeOK, CacheType, ProcType, PC, Transfer
<1>5. Holds(p) /\ Holds(p)' /\ Writes(p) /\ Writes(p)' /\ buf[p] \in valid
  BY Zenon, <1>1, <1>3 DEF Holds, Writes, Transfer, BufOK, ContentsOK
<1>6. LocksOK' /\ CountsOK'
  <2>1. \A q \in Proc : (Holds(q)' <=> Holds(q)) /\ (pc'[q] = "idle" <=> pc[q] = "idle")
    BY Zenon, <1>1, <1>3, <1>5, OnlyByHolds DEF OnlyBy
  <2> QED BY Zenon, <1>1, <2>1, LocksKept, CountsKept
<1>7. ContentsOK' /\ NoForgottenSleeper' /\ ListType'
  BY Zenon, <1>1, <1>3, <1>5, ContentsKept, OnlyBySleepers, ListKept
<1> QED BY Zenon, <1>3, <1>4, <1>6, <1>7, OnlyByDriver DEF BufOK, TypeOK

(* bread() gets what it asked for: no valid buffer had the block, so the   *)
(* disk had its latest contents.                                           *)
LEMMA BreadDoneStep ==
  ASSUME BufOK, NEW p \in Proc, bread_done(p)
  PROVE  BufOK'
<1>1. /\ pc[p] = "rw_done" /\ ~write[p] /\ valid' = valid \cup {buf[p]} /\ pc' = [pc EXCEPT ![p] = "using"]
      /\ UNCHANGED <<driver, data, blockno, disk, buf, write, idx, refcnt, lru, lock, logged, dirty, latest>>
  BY Zenon DEF bread_done
<1>2. pc \in [Proc -> PC] /\ buf[p] \in Buf /\ blockno[buf[p]] \in Block
  BY Zenon, <1>1, HasBuffer DEF BufOK, TypeOK, ProcType
<1>3. OnlyBy(p) /\ pc'[p] = "using"
  BY Zenon, <1>1, <1>2 DEF OnlyBy, PC
<1>4. CacheType' /\ ProcType'
  BY Zenon, <1>1, <1>2 DEF BufOK, TypeOK, CacheType, ProcType, PC
<1>5. Holds(p) /\ Holds(p)' /\ Writes(p)' /\ buf[p] \notin valid /\ data[buf[p]] = disk[blockno[buf[p]]]
  BY Zenon, <1>1, <1>3 DEF Holds, Writes, Transfer, BufOK, ContentsOK
<1>6. LocksOK' /\ CountsOK' /\ ListType' /\ NoForgottenSleeper'
  <2>1. \A q \in Proc : (Holds(q)' <=> Holds(q)) /\ (pc'[q] = "idle" <=> pc[q] = "idle")
    BY Zenon, <1>1, <1>3, <1>5, OnlyByHolds DEF OnlyBy
  <2> QED BY Zenon, <1>1, <1>3, <2>1, LocksKept, CountsKept, ListKept, OnlyBySleepers
<1>7. ContentsOK'
  <2>1. disk[blockno[buf[p]]] = latest[blockno[buf[p]]]
    <3>1. \A b \in valid : blockno[b] # blockno[buf[p]]
      BY SMTT(30), <1>2, <1>5, VirtioAssumption DEF BufOK, LocksOK, TypeOK, CacheType
    <3> QED BY ZenonT(30), <1>2, <3>1 DEF BufOK, ContentsOK
  <2>2. \A q \in Proc \ {p} : /\ (Holds(q)' <=> Holds(q)) /\ (Writes(q)' <=> Writes(q))
                              /\ (Holds(q) => buf[q] # buf[p])
    BY ZenonT(30), <1>3, <1>5, OnlyByHolds, Apart DEF BufOK
  <2>3. \A b \in valid' : blockno'[b] # NULL /\ data'[b] = latest'[blockno'[b]]
    BY SMTT(30), <1>1, <1>2, <1>5, <2>1, VirtioAssumption DEF BufOK, ContentsOK
  <2>4. \A q \in Proc : Holds(q)' => (Writes(q)' <=> buf'[q] \in valid')
    BY Zenon, <1>1, <1>5, <2>2 DEF BufOK, ContentsOK
  <2>5. logged' \subseteq valid' /\ \A q \in dirty' : Writes(q)'
    BY ZenonT(30), <1>1, <1>5, <2>2 DEF BufOK, TypeOK, CacheType, ContentsOK
  <2>6. \A m \in Block : \/ disk'[m] = latest'[m]
                         \/ \E b \in valid' : /\ blockno'[b] = m
                                              /\ b \in logged' \/ \E q \in dirty' : buf'[q] = b
    BY SMTT(30), <1>1 DEF BufOK, ContentsOK
  <2> QED BY ZenonT(30), <1>1, <1>3, <2>3, <2>4, <2>5, <2>6, TransfersKept DEF ContentsOK
<1> QED BY Zenon, <1>3, <1>4, <1>6, <1>7, OnlyByDriver DEF BufOK, TypeOK

(* The holder changes its buffer: no other buffer has the block. *)
LEMMA ModifyStep ==
  ASSUME BufOK, NEW p \in Proc, modify(p)
  PROVE  BufOK'
<1>1. /\ pc[p] = "using" /\ p \notin dirty
      /\ data' = [data EXCEPT ![buf[p]] = 1 - @]
      /\ latest' = [latest EXCEPT ![blockno[buf[p]]] = 1 - data[buf[p]]]
      /\ dirty' = dirty \cup {p}
      /\ UNCHANGED <<driver, blockno, disk, pc, buf, write, idx, refcnt, valid, lru, lock, logged>>
  BY Zenon DEF modify
<1>2. /\ pc \in [Proc -> PC] /\ buf[p] \in Buf /\ blockno[buf[p]] \in Block
      /\ data \in [Buf -> {0, 1}] /\ latest \in [Block -> {0, 1}]
      /\ valid \subseteq Buf /\ blockno \in [Buf -> Block \cup {NULL}]
  BY Zenon, <1>1, HasBuffer DEF BufOK, TypeOK, ProcType, CacheType
<1>3. OnlyBy(p) /\ pc'[p] = "using"
  BY Zenon, <1>1, <1>2 DEF OnlyBy, PC
<1>4. CacheType' /\ ProcType'
  <2>1. data[buf[p]] \in {0, 1} /\ 1 - data[buf[p]] \in {0, 1}
    BY <1>2
  <2>2. data' \in [Buf -> {0, 1}] /\ latest' \in [Block -> {0, 1}]
    BY Zenon, <1>1, <1>2, <2>1
  <2> QED BY Zenon, <1>1, <2>2 DEF BufOK, TypeOK, CacheType, ProcType
<1>5. /\ Holds(p) /\ Writes(p) /\ buf[p] \in valid
      /\ \A q \in Proc : (Holds(q)' <=> Holds(q)) /\ (Writes(q)' <=> Writes(q))
  BY Zenon, <1>1 DEF Holds, Writes, BufOK, ContentsOK
<1>6. LocksOK' /\ CountsOK' /\ ListType' /\ NoForgottenSleeper'
  BY Zenon, <1>1, <1>3, <1>5, LocksKept, CountsKept, ListKept, OnlyBySleepers
<1>7. ContentsOK'
  <2>1. \A b \in valid' : blockno'[b] # NULL /\ data'[b] = latest'[blockno'[b]]
    <3>1. \A b \in valid : b # buf[p] => /\ blockno[b] # blockno[buf[p]]
                                         /\ blockno[b] # NULL /\ blockno[b] \in Block
      BY <1>2 DEF BufOK, LocksOK, ContentsOK
    <3>2. \A b \in valid : data[b] = latest[blockno[b]] /\ b \in Buf
      BY Zenon, <1>2 DEF BufOK, ContentsOK
    <3> QED BY ZenonT(30), <1>1, <1>2, <3>1, <3>2, VirtioAssumption
  <2>2. /\ \A q \in Proc : Holds(q)' => (Writes(q)' <=> buf'[q] \in valid')
        /\ logged' \subseteq valid' /\ \A q \in dirty' : Writes(q)'
    BY ZenonT(30), <1>1, <1>5 DEF BufOK, TypeOK, CacheType, ContentsOK
  <2>3. ASSUME NEW m \in Block, disk'[m] # latest'[m]
        PROVE  \E b \in valid' : /\ blockno'[b] = m
                                 /\ b \in logged' \/ \E q \in dirty' : buf'[q] = b
    <3>1. CASE m = blockno[buf[p]]
      BY Zenon, <1>1, <1>5, <3>1
    <3>2. CASE m # blockno[buf[p]]
      <4>1. disk[m] # latest[m]
        BY Zenon, <1>1, <1>2, <2>3, <3>2
      <4>2. PICK b \in valid : blockno[b] = m /\ (b \in logged \/ \E q \in dirty : buf[q] = b)
        BY Zenon, <4>1 DEF BufOK, ContentsOK
      <4> QED BY Zenon, <1>1, <4>2
    <3> QED BY Zenon, <3>1, <3>2
  <2>4. \A q \in Proc \ {p} : Holds(q) => data'[buf[q]] = data[buf[q]]
    <3>1. \A q \in Proc \ {p} : Holds(q) => buf[q] # buf[p]
      BY Zenon, <1>5, Apart DEF BufOK
    <3> QED BY <1>1, <3>1
  <2> QED BY ZenonT(30), <1>1, <1>3, <2>1, <2>2, <2>3, <2>4, TransfersKept DEF ContentsOK
<1> QED BY Zenon, <1>3, <1>4, <1>6, <1>7, OnlyByDriver DEF BufOK, TypeOK

(* log_write(): the pin counts as one more reference. *)
LEMMA LogWriteStep ==
  ASSUME BufOK, NEW p \in Proc, log_write(p)
  PROVE  BufOK'
<1>1. /\ pc[p] = "using" /\ p \in dirty /\ logged' = logged \cup {buf[p]}
      /\ refcnt' = IF buf[p] \in logged THEN refcnt ELSE [refcnt EXCEPT ![buf[p]] = @ + 1]
      /\ dirty' = dirty \ {p}
      /\ UNCHANGED <<driver, data, blockno, disk, pc, buf, write, idx, valid, lru, lock, latest>>
  BY Zenon DEF log_write, bpin
<1>2. pc \in [Proc -> PC] /\ buf[p] \in Buf /\ refcnt \in [Buf -> Nat]
  BY Zenon, <1>1, HasBuffer DEF BufOK, TypeOK, ProcType, CacheType
<1>3. OnlyBy(p) /\ pc'[p] = "using"
  BY Zenon, <1>1, <1>2 DEF OnlyBy, PC
<1>4. CacheType' /\ ProcType'
  BY SMTT(30), <1>1, <1>2 DEF BufOK, TypeOK, CacheType, ProcType
<1>5. /\ Holds(p) /\ Writes(p) /\ buf[p] \in valid
      /\ \A q \in Proc : (Holds(q)' <=> Holds(q)) /\ (Writes(q)' <=> Writes(q))
  BY Zenon, <1>1 DEF Holds, Writes, BufOK, ContentsOK
<1>6. LocksOK' /\ ListType' /\ NoForgottenSleeper'
  BY Zenon, <1>1, <1>3, <1>5, LocksKept, ListKept, OnlyBySleepers
<1>7. CountsOK'
  <2>1. \A a \in Buf : Users(a)' = Users(a)
    BY Zenon, <1>1 DEF Users
  <2> QED BY SMTT(30), <1>1, <1>2, <2>1, UsersFinite DEF BufOK, CountsOK
<1>8. ContentsOK'
  <2>1. /\ \A b \in valid' : blockno'[b] # NULL /\ data'[b] = latest'[blockno'[b]]
        /\ \A q \in Proc : Holds(q)' => (Writes(q)' <=> buf'[q] \in valid')
        /\ logged' \subseteq valid' /\ \A q \in dirty' : Writes(q)'
    BY ZenonT(30), <1>1, <1>5 DEF BufOK, TypeOK, CacheType, ContentsOK
  <2>2. ASSUME NEW m \in Block, disk'[m] # latest'[m]
        PROVE  \E b \in valid' : /\ blockno'[b] = m
                                 /\ b \in logged' \/ \E q \in dirty' : buf'[q] = b
    <3>1. disk[m] # latest[m]
      BY Zenon, <1>1, <2>2
    <3>2. PICK b \in valid : blockno[b] = m /\ (b \in logged \/ \E q \in dirty : buf[q] = b)
      BY <3>1 DEF BufOK, ContentsOK
    <3> QED BY Zenon, <1>1, <3>2
  <2> QED BY ZenonT(30), <1>1, <1>3, <2>1, <2>2, TransfersKept DEF ContentsOK
<1> QED BY Zenon, <1>3, <1>4, <1>6, <1>7, <1>8, OnlyByDriver DEF BufOK, TypeOK

(* bwrite() is over: the disk has the contents, the pin may go. *)
LEMMA BwriteDoneStep ==
  ASSUME BufOK, NEW p \in Proc, bwrite_done(p)
  PROVE  BufOK'
<1>1. /\ pc[p] = "rw_done" /\ write[p]
      /\ refcnt' = [refcnt EXCEPT ![buf[p]] = IF buf[p] \in logged THEN @ - 1 ELSE @]
      /\ logged' = logged \ {buf[p]} /\ dirty' = dirty \ {p}
      /\ write' = [write EXCEPT ![p] = FALSE] /\ pc' = [pc EXCEPT ![p] = "using"]
      /\ UNCHANGED <<driver, data, blockno, disk, buf, idx, valid, lru, lock, latest>>
  BY Zenon DEF bwrite_done
<1>2. /\ pc \in [Proc -> PC] /\ buf[p] \in Buf /\ write \in [Proc -> BOOLEAN] /\ refcnt \in [Buf -> Nat]
      /\ buf[p] \in logged => refcnt[buf[p]] - 1 \in Nat
  <2>1. pc \in [Proc -> PC] /\ buf[p] \in Buf /\ write \in [Proc -> BOOLEAN] /\ refcnt \in [Buf -> Nat]
    BY Zenon, <1>1, HasBuffer DEF BufOK, TypeOK, ProcType, CacheType
  <2> QED BY SMTT(30), <2>1, UsersFinite DEF BufOK, CountsOK
<1>3. OnlyBy(p) /\ pc'[p] = "using" /\ write'[p] = FALSE
  BY Zenon, <1>1, <1>2 DEF OnlyBy, PC
<1>4. CacheType' /\ ProcType'
  BY Zenon, <1>1, <1>2 DEF BufOK, TypeOK, CacheType, ProcType, PC
<1>5. /\ Holds(p) /\ Holds(p)' /\ Writes(p) /\ Writes(p)' /\ buf[p] \in valid
      /\ data[buf[p]] = disk[blockno[buf[p]]] /\ data[buf[p]] = latest[blockno[buf[p]]]
  BY Zenon, <1>1, <1>3 DEF Holds, Writes, Transfer, BufOK, ContentsOK
<1>6. LocksOK' /\ ListType' /\ NoForgottenSleeper'
  <2>1. \A q \in Proc : (Holds(q)' <=> Holds(q)) /\ (pc'[q] = "idle" <=> pc[q] = "idle")
    BY Zenon, <1>1, <1>3, <1>5, OnlyByHolds DEF OnlyBy
  <2> QED BY Zenon, <1>1, <1>3, <2>1, LocksKept, ListKept, OnlyBySleepers
<1>7. CountsOK'
  <2>1. \A a \in Buf : Users(a)' = Users(a)
    BY Zenon, <1>1 DEF Users
  <2> QED BY SMTT(30), <1>1, <1>2, <2>1, UsersFinite DEF BufOK, CountsOK
<1>8. ContentsOK'
  <2>1. \A q \in Proc : (Holds(q)' <=> Holds(q)) /\ (Writes(q)' <=> Writes(q))
    BY Zenon, <1>3, <1>5, OnlyByHolds
  <2>2. /\ \A b \in valid' : blockno'[b] # NULL /\ data'[b] = latest'[blockno'[b]]
        /\ \A q \in Proc : Holds(q)' => (Writes(q)' <=> buf'[q] \in valid')
        /\ logged' \subseteq valid' /\ \A q \in dirty' : Writes(q)'
    BY ZenonT(30), <1>1, <2>1 DEF BufOK, TypeOK, CacheType, ContentsOK
  <2>3. ASSUME NEW m \in Block, disk'[m] # latest'[m]
        PROVE  \E b \in valid' : /\ blockno'[b] = m
                                 /\ b \in logged' \/ \E q \in dirty' : buf'[q] = b
    <3>1. disk[m] # latest[m]
      BY Zenon, <1>1, <2>3
    <3>2. PICK b \in valid : blockno[b] = m /\ (b \in logged \/ \E q \in dirty : buf[q] = b)
      BY <3>1 DEF BufOK, ContentsOK
    <3>3. b # buf[p]
      BY Zenon, <1>5, <3>1, <3>2
    <3> QED BY Zenon, <1>1, <3>2, <3>3
  <2> QED BY ZenonT(30), <1>1, <1>3, <2>2, <2>3, TransfersKept DEF ContentsOK
<1> QED BY ZenonT(30), <1>3, <1>4, <1>6, <1>7, <1>8, OnlyByDriver DEF BufOK, TypeOK

(* bget() of a block that is not cached: the buffer taken for it has no    *)
(* user and no pin, and the disk has the latest contents of the block it   *)
(* was for.                                                                *)
LEMMA BgetRecycleStep ==
  ASSUME BufOK, NEW p \in Proc, NEW k \in Block, bget_recycle(p, k)
  PROVE  BufOK'
<1>1. /\ pc[p] = "idle" /\ (\A b \in Buf : blockno[b] # k) /\ (\E b \in Buf : refcnt[b] = 0)
      /\ blockno' = [blockno EXCEPT ![victim] = k] /\ valid' = valid \ {victim}
      /\ refcnt' = [refcnt EXCEPT ![victim] = 1]
      /\ buf' = [buf EXCEPT ![p] = victim] /\ pc' = [pc EXCEPT ![p] = "acquiresleep"]
      /\ UNCHANGED <<driver, data, disk, write, idx, lru, lock, logged, dirty, latest>>
  BY Zenon DEF bget_recycle
<1>2. /\ pc \in [Proc -> PC] /\ buf \in [Proc -> Buf \cup {NULL}] /\ refcnt \in [Buf -> Nat]
      /\ buf[p] = NULL /\ blockno \in [Buf -> Block \cup {NULL}] /\ valid \subseteq Buf
  BY Zenon, <1>1 DEF BufOK, LocksOK, TypeOK, ProcType, CacheType
<1>3. /\ victim \in Buf /\ refcnt[victim] = 0 /\ victim \notin logged /\ lock[victim] = NULL
      /\ \A q \in Proc : buf[q] # victim
  <2>1. victim \in Buf /\ refcnt[victim] = 0
    BY Zenon, <1>1, VictimUnused DEF BufOK, TypeOK
  <2> QED BY Zenon, <2>1, Unreferenced DEF BufOK, TypeOK
<1>4. /\ pc'[p] = "acquiresleep" /\ buf'[p] = victim /\ blockno'[victim] = k
      /\ \A b \in Buf : b # victim => blockno'[b] = blockno[b]
      /\ \A q \in Proc \ {p} : pc'[q] = pc[q] /\ buf'[q] = buf[q]
  BY Zenon, <1>1, <1>2, <1>3
<1>5. OnlyBy(p)
  <2>1. \A q \in Proc : blockno'[buf[q]] = blockno[buf[q]]
    BY SMTT(30), <1>1, <1>3
  <2> QED BY ZenonT(30), <1>1, <1>4, <2>1 DEF OnlyBy, PC, Waiting
<1>6. CacheType' /\ ProcType'
  BY Zenon, <1>1, <1>2, <1>3 DEF BufOK, TypeOK, CacheType, ProcType, PC
<1>7. /\ ~Holds(p) /\ ~Holds(p)' /\ ~Writes(p) /\ p \notin dirty
      /\ \A q \in Proc \ {p} : (Holds(q)' <=> Holds(q)) /\ (Writes(q)' <=> Writes(q))
  <2>1. ~Holds(p) /\ ~Holds(p)' /\ ~Writes(p) /\ p \notin dirty
    BY ZenonT(30), <1>1, <1>4 DEF Holds, Writes, Transfer, BufOK, ContentsOK
  <2> QED BY Zenon, <1>5, <2>1, OnlyByHolds
<1>8. LocksOK'
  <2>1. /\ \A q \in Proc : buf'[q] = NULL <=> pc'[q] = "idle"
        /\ \A q \in Proc : pc'[q] # "idle" => blockno'[buf'[q]] # NULL
    <3>1. TypeOK /\ LocksOK
      BY Zenon DEF BufOK
    <3>2. buf'[p] # NULL /\ pc'[p] # "idle" /\ blockno'[buf'[p]] # NULL
      BY <1>3, <1>4, VirtioAssumption
    <3>3. ASSUME NEW q \in Proc, pc[q] # "idle" PROVE buf[q] \in Buf \ {victim}
      BY Zenon, <1>3, <3>1, <3>3, HasBuffer
    <3>4. ASSUME NEW q \in Proc \ {p}
          PROVE  /\ buf'[q] = NULL <=> pc'[q] = "idle"
                 /\ pc'[q] # "idle" => blockno'[buf'[q]] # NULL
      <4>1. pc'[q] = pc[q] /\ buf'[q] = buf[q]
        BY Zenon, <1>4
      <4>2. pc[q] # "idle" => blockno'[buf[q]] = blockno[buf[q]]
        BY Zenon, <1>4, <3>3
      <4>3. (buf[q] = NULL <=> pc[q] = "idle") /\ (pc[q] # "idle" => blockno[buf[q]] # NULL)
        BY Zenon, <3>1 DEF LocksOK
      <4> QED BY Zenon, <4>1, <4>2, <4>3
    <3> QED BY Zenon, <3>2, <3>4
  <2>2. \A a, b \in Buf : blockno'[a] = blockno'[b] /\ blockno'[a] # NULL => a = b
    <3>1. \A a, b \in Buf : blockno[a] = blockno[b] /\ blockno[a] # NULL => a = b
      BY ZenonT(30) DEF BufOK, LocksOK
    <3> QED BY SMTT(30), <1>1, <1>4, <3>1
  <2>3. /\ \A q \in Proc : Holds(q)' => lock'[buf'[q]] = q
        /\ \A b \in Buf : lock'[b] # NULL => Holds(lock[b])' /\ buf'[lock[b]] = b
    <3>1. UNCHANGED lock /\ \A b \in Buf : lock[b] # NULL => lock[b] \in Proc
      BY Zenon, <1>1 DEF BufOK, TypeOK, CacheType
    <3> QED BY SMTT(30), <1>4, <1>7, <3>1 DEF BufOK, LocksOK
  <2> QED BY Zenon, <1>1, <2>1, <2>2, <2>3 DEF LocksOK
<1>9. CountsOK'
  <2>1. \A a \in Buf : Cardinality(Users(a)') =
          IF a = victim THEN Cardinality(Users(a)) + 1 ELSE Cardinality(Users(a))
    BY ZenonT(30), <1>1, <1>2, <1>3, OneUserMore DEF BufOK, TypeOK
  <2>2. Cardinality(Users(victim)) = 0
    BY <1>3, UsersFinite DEF BufOK, CountsOK
  <2> QED BY SMTT(30), <1>1, <1>2, <1>3, <2>1, <2>2, UsersFinite DEF BufOK, CountsOK
<1>10. ContentsOK'
  <2>1. \A b \in valid' : b \in Buf \ {victim} /\ b \in valid /\ blockno'[b] = blockno[b]
    BY Zenon, <1>1, <1>2, <1>4
  <2>2. UNCHANGED <<data, disk, latest, logged, dirty, idx, avail>> /\ Waiting' = Waiting
    BY Zenon, <1>1, <1>5, OnlyByDriver DEF driver
  <2>3. \A b \in valid' : blockno'[b] # NULL /\ data'[b] = latest'[blockno'[b]]
    BY ZenonT(30), <2>1, <2>2 DEF BufOK, ContentsOK
  <2>4. \A q \in Proc : Holds(q)' => /\ q # p /\ Holds(q) /\ buf'[q] = buf[q]
                                     /\ blockno'[buf[q]] = blockno[buf[q]]
                                     /\ (buf[q] \in valid' <=> buf[q] \in valid)
    BY SMTT(30), <1>1, <1>3, <1>4, <1>7
  <2>5. \A q \in Proc : Holds(q)' => (Writes(q)' <=> buf'[q] \in valid')
    BY Zenon, <1>7, <2>4 DEF BufOK, ContentsOK
  <2>6. logged' \subseteq valid' /\ \A q \in dirty' : Writes(q)' /\ q \in Proc \ {p}
    BY ZenonT(30), <1>1, <1>3, <1>7 DEF BufOK, TypeOK, CacheType, ContentsOK
  <2>7. ASSUME NEW m \in Block, disk'[m] # latest'[m]
        PROVE  \E b \in valid' : /\ blockno'[b] = m
                                 /\ b \in logged' \/ \E q \in dirty' : buf'[q] = b
    <3>1. PICK b \in valid : blockno[b] = m /\ (b \in logged \/ \E q \in dirty : buf[q] = b)
      BY ZenonT(30), <2>2, <2>7 DEF BufOK, ContentsOK
    <3>2. b # victim /\ b \in valid' /\ blockno'[b] = m
      BY ZenonT(30), <1>1, <1>2, <1>3, <1>4, <2>2, <2>6, <3>1
    <3> QED BY Zenon, <1>4, <2>2, <2>6, <3>1, <3>2
  <2>8. \A q \in Proc : pc'[q] = "rw_done" \/ (q \in Waiting' /\ idx'[q] \notin avail') =>
                           data'[buf'[q]] = disk'[blockno'[buf'[q]]]
    <3>1. \A q \in Proc : pc'[q] = "rw_done" \/ q \in Waiting' => Holds(q)' /\ pc'[q] = pc[q]
      BY Zenon, <1>4 DEF Holds, Transfer, Waiting
    <3>2. \A q \in Proc : pc[q] = "rw_done" \/ (q \in Waiting /\ idx[q] \notin avail) =>
                            data[buf[q]] = disk[blockno[buf[q]]]
      BY Zenon DEF BufOK, ContentsOK
    <3> QED BY <2>2, <2>4, <3>1, <3>2
  <2> QED BY ZenonT(30), <2>3, <2>5, <2>6, <2>7, <2>8 DEF ContentsOK
<1>11. NoForgottenSleeper' /\ ListType'
  BY Zenon, <1>1, <1>4, <1>5, ListKept, OnlyBySleepers
<1> QED BY ZenonT(30), <1>5, <1>6, <1>8, <1>9, <1>10, <1>11, OnlyByDriver DEF BufOK, TypeOK

(* releasesleep(): whoever sleeps for the lock is awake when it is free. *)
LEMMA BrelseStep ==
  ASSUME BufOK, NEW p \in Proc, brelse(p)
  PROVE  BufOK'
<1>1. /\ pc[p] = "using" /\ p \notin dirty /\ lock' = [lock EXCEPT ![buf[p]] = NULL]
      /\ pc' = [wakeup(buf[p]) EXCEPT ![p] = "brelse"]
      /\ UNCHANGED <<driver, data, blockno, disk, buf, write, idx, refcnt, valid, lru, logged, dirty, latest>>
  BY Zenon DEF brelse
<1>2. /\ pc \in [Proc -> PC] /\ buf[p] \in Buf /\ lock \in [Buf -> Proc \cup {NULL}]
  BY Zenon, <1>1, HasBuffer DEF BufOK, TypeOK, ProcType, CacheType
<1>3. /\ pc' \in [Proc -> PC] /\ pc'[p] = "brelse"
      /\ \A q \in Proc \ {p} : pc'[q] = IF pc[q] = "lock_sleep" /\ buf[q] = buf[p]
                                         THEN "acquiresleep" ELSE pc[q]
  BY Zenon, <1>1, <1>2 DEF wakeup, PC
<1>4. OnlyBy(p)
  BY Zenon, <1>1, <1>3 DEF OnlyBy, PC
<1>5. CacheType' /\ ProcType'
  BY ZenonT(30), <1>1, <1>2, <1>3 DEF BufOK, TypeOK, CacheType, ProcType
<1>6. Holds(p) /\ ~Holds(p)'
  BY Zenon, <1>1, <1>3 DEF Holds, Transfer
<1>7. \A q \in Proc \ {p} : (Holds(q)' <=> Holds(q)) /\ (Holds(q) => buf[q] # buf[p])
  BY ZenonT(30), <1>4, <1>6, OnlyByHolds, Apart DEF BufOK
<1>8. LocksOK'
  <2>1. \A q \in Proc : pc'[q] = "idle" <=> pc[q] = "idle"
    BY ZenonT(30), <1>1, <1>3
  <2>2. \A q \in Proc : Holds(q)' => lock'[buf[q]] = q
    BY SMTT(30), <1>1, <1>6, <1>7 DEF BufOK, LocksOK
  <2>3. ASSUME NEW b \in Buf, lock'[b] # NULL PROVE Holds(lock[b])' /\ buf'[lock'[b]] = b
    <3>1. b # buf[p] /\ lock'[b] = lock[b] /\ lock[b] \in Proc
      BY Zenon, <1>1, <1>2, <2>3
    <3>2. Holds(lock[b]) /\ buf[lock[b]] = b
      BY Zenon, <2>3, <3>1 DEF BufOK, LocksOK
    <3>3. Holds(lock[b])'
      BY Zenon, <1>3, <3>1, <3>2 DEF Holds, Transfer
    <3> QED BY Zenon, <1>1, <3>1, <3>2, <3>3 DEF Holds
  <2> QED BY SMTT(30), <1>1, <2>1, <2>2, <2>3 DEF BufOK, LocksOK
<1>9. CountsOK' /\ ListType' /\ ContentsOK'
  BY Zenon, <1>1, <1>3, <1>4, <1>6, CountsKept, ListKept, ContentsKept
<1>10. NoForgottenSleeper'
  BY SMTT(30), <1>1, <1>3, <1>4, OnlyBySleepers
<1> QED BY Zenon, <1>4, <1>5, <1>8, <1>9, <1>10, OnlyByDriver DEF BufOK, TypeOK

(* brelse() drops the reference, and the list keeps every buffer. *)
LEMMA BrelseRefStep ==
  ASSUME BufOK, NEW p \in Proc, brelse_ref(p)
  PROVE  BufOK'
<1>1. /\ pc[p] = "brelse" /\ refcnt' = [refcnt EXCEPT ![buf[p]] = @ - 1]
      /\ lru' = IF refcnt[buf[p]] = 1 THEN to_front(buf[p]) ELSE lru
      /\ buf' = [buf EXCEPT ![p] = NULL] /\ pc' = [pc EXCEPT ![p] = "idle"]
      /\ UNCHANGED <<driver, data, blockno, disk, write, idx, valid, lock, logged, dirty, latest>>
  BY Zenon DEF brelse_ref
<1>2. /\ pc \in [Proc -> PC] /\ buf \in [Proc -> Buf \cup {NULL}] /\ buf[p] \in Buf
      /\ refcnt \in [Buf -> Nat]
  BY Zenon, <1>1, HasBuffer DEF BufOK, TypeOK, ProcType, CacheType
<1>3. refcnt[buf[p]] - 1 \in Nat
  <2>1. Cardinality(Users(buf[p])) # 0
    BY Zenon, SomeUser DEF Users
  <2> QED BY SMTT(30), <1>2, <2>1, UsersFinite DEF BufOK, CountsOK
<1>4. OnlyBy(p) /\ pc'[p] = "idle" /\ buf'[p] = NULL
  BY Zenon, <1>1, <1>2 DEF OnlyBy, PC
<1>5. CacheType' /\ ProcType'
  BY Zenon, <1>1, <1>2, <1>3 DEF BufOK, TypeOK, CacheType, ProcType, PC
<1>6. ListType'
  BY Zenon, <1>1, <1>2, FrontKeepsAll DEF BufOK, TypeOK, ListType
<1>7. ~Holds(p) /\ ~Holds(p)' /\ ~Writes(p) /\ p \notin dirty
  BY ZenonT(30), <1>1, <1>4 DEF Holds, Writes, Transfer, BufOK, ContentsOK
<1>8. LocksOK'
  <2>1. \A q \in Proc \ {p} : /\ (Holds(q)' <=> Holds(q)) /\ buf'[q] = buf[q]
                              /\ (pc'[q] = "idle" <=> pc[q] = "idle")
    BY Zenon, <1>4, OnlyByHolds DEF OnlyBy
  <2>2. UNCHANGED <<lock, blockno>> /\ \A b \in Buf : lock[b] # NULL => lock[b] \in Proc
    BY Zenon, <1>1 DEF BufOK, TypeOK, CacheType
  <2>3. /\ \A q \in Proc : buf'[q] = NULL <=> pc'[q] = "idle"
        /\ \A q \in Proc : pc'[q] # "idle" => blockno'[buf'[q]] # NULL
    BY ZenonT(30), <1>4, <2>1, <2>2 DEF BufOK, LocksOK
  <2>4. \A q \in Proc : Holds(q)' => lock'[buf'[q]] = q
    BY Zenon, <1>7, <2>1, <2>2 DEF BufOK, LocksOK
  <2>5. ASSUME NEW b \in Buf, lock'[b] # NULL PROVE Holds(lock[b])' /\ buf'[lock'[b]] = b
    <3>1. lock'[b] = lock[b] /\ lock[b] \in Proc /\ lock[b] # NULL
      BY Zenon, <2>2, <2>5
    <3>2. Holds(lock[b]) /\ buf[lock[b]] = b
      BY Zenon, <3>1 DEF BufOK, LocksOK
    <3>3. lock[b] \in Proc \ {p}
      BY Zenon, <1>7, <3>1, <3>2
    <3>4. pc'[lock[b]] = pc[lock[b]] /\ buf'[lock[b]] = b
      BY Zenon, <1>1, <1>2, <2>1, <3>2, <3>3
    <3> QED BY Zenon, <3>1, <3>2, <3>4 DEF Holds
  <2>6. \A a, b \in Buf : blockno'[a] = blockno'[b] /\ blockno'[a] # NULL => a = b
    BY Zenon, <2>2 DEF BufOK, LocksOK
  <2> QED BY ZenonT(30), <2>3, <2>4, <2>5, <2>6 DEF LocksOK
<1>9. CountsOK'
  <2>1. \A a \in Buf : Cardinality(Users(a)') =
          IF a = buf[p] THEN Cardinality(Users(a)) - 1 ELSE Cardinality(Users(a))
    BY Zenon, <1>1, <1>2, OneUserLess DEF BufOK, TypeOK
  <2> QED BY SMTT(30), <1>1, <1>2, <2>1, UsersFinite DEF BufOK, CountsOK
<1>10. ContentsOK' /\ NoForgottenSleeper'
  BY Zenon, <1>1, <1>4, <1>7, ContentsKept, OnlyBySleepers
<1> QED BY ZenonT(30), <1>4, <1>5, <1>6, <1>8, <1>9, <1>10, OnlyByDriver DEF BufOK, TypeOK

-------------------------------------------------------------------------------
(* At boot nothing is cached and every descriptor is free. *)
LEMMA InitIsOK ==
  ASSUME Init
  PROVE  BufOK
<1>1. PICK n \in NUMs : /\ free = 0 .. n - 1 /\ desc = [i \in 0 .. n - 1 |-> NoDesc]
                        /\ info = [i \in 0 .. n - 1 |-> [b |-> NULL, status |-> 0]]
  BY ZenonT(30) DEF Init, VirtioInit
<1>2. /\ avail = {} /\ used = <<>> /\ pending = FALSE /\ handler = FALSE /\ bdisk = {}
      /\ blockno = [b \in Buf |-> NULL] /\ data = [b \in Buf |-> 0]
      /\ disk = [k \in Block |-> 0] /\ latest = disk
      /\ pc = [p \in Proc |-> "idle"] /\ buf = [p \in Proc |-> NULL]
      /\ write = [p \in Proc |-> FALSE] /\ idx = [p \in Proc |-> 0]
      /\ refcnt = [b \in Buf |-> 0] /\ valid = {} /\ lock = [b \in Buf |-> NULL]
      /\ logged = {} /\ dirty = {}
  BY ZenonT(30) DEF Init, VirtioInit
<1>3. Waiting = {} /\ Desc = free
  BY Zenon, <1>1, <1>2 DEF Waiting, Desc
<1>4. DriverType /\ ProcType
  <2>1. info \in [Desc -> [b : Buf \cup {NULL}, status : {0, 255}]]
    <3>1. [b |-> NULL, status |-> 0] \in [b : Buf \cup {NULL}, status : {0, 255}]
      OBVIOUS
    <3> QED BY Zenon, <1>1, <1>3, <3>1
  <2>2. desc = [i \in Desc |-> desc[i]]
    BY Zenon, <1>1, <1>3
  <2>3. used \in Seq(Desc)
    BY SMTT(30), <1>2
  <2>4. DriverType
    BY ZenonT(30), <1>1, <1>2, <1>3, <2>1, <2>2, <2>3 DEF DriverType
  <2> QED BY Zenon, <1>2, <2>4 DEF ProcType, PC
<1>5. CacheType
  BY Zenon, <1>2 DEF CacheType
<1>6. ListType
  <2> DEFINE size == Cardinality(Buf)
  <2>1. size \in Nat /\ \E f : f \in Bijection(1 .. size, Buf)
    BY Zenon, VirtioAssumption, FS_CardinalityType DEF ExistsBijection
  <2>2. lru \in Bijection(1 .. size, Buf)
    BY SMTT(30), <2>1 DEF Init
  <2> HIDE DEF size
  <2>3. lru \in [1 .. size -> Buf] /\ \A b \in Buf : \E i \in 1 .. size : lru[i] = b
    BY Zenon, <2>2 DEF Bijection, Injection, Surjection
  <2>4. lru \in Seq(Buf) /\ Len(lru) = size
    BY SMTT(30), <2>1, <2>3
  <2> QED BY Zenon, <2>3, <2>4 DEF ListType
<1>7. ChainsOK
  <2>1. Cardinality(Waiting) = 0
    BY Zenon, <1>3, FS_EmptySet
  <2>2. Cardinality(free) \in Nat
    BY Zenon, <1>4, DescFinite
  <2> QED BY SMTT(30), <1>3, <2>1, <2>2 DEF ChainsOK, NUM
<1>8. RingsOK
  <2>1. Len(used) = 0
    BY SMTT(30), <1>2
  <2> QED BY SMTT(30), <1>2, <1>3, <2>1 DEF RingsOK, InUsed
<1>9. LocksOK
  BY Zenon, <1>2 DEF LocksOK, Holds, Transfer
<1>10. CountsOK
  <2> SUFFICES ASSUME NEW b \in Buf PROVE Cardinality(Users(b)) = 0
    BY SMTT(30), <1>2 DEF CountsOK
  <2>1. Users(b) = {}
    BY Zenon, <1>2, VirtioAssumption DEF Users
  <2> QED BY Zenon, <2>1, FS_EmptySet
<1>11. ContentsOK
  BY Zenon, <1>2, <1>3 DEF ContentsOK, Holds, Transfer
<1>12. NoForgottenSleeper
  BY Zenon, <1>2, <1>3 DEF NoForgottenSleeper
<1> QED BY ZenonT(30), <1>4, <1>5, <1>6, <1>7, <1>8, <1>9, <1>10, <1>11, <1>12 DEF BufOK, TypeOK

(* Every step of a process, of the handler and of the device keeps it. *)
LEMMA StepKeeps ==
  ASSUME BufOK, [Next]_vars
  PROVE  BufOK'
<1>1. ASSUME NEW p \in Proc, Process(p) PROVE BufOK'
  BY ZenonT(30), <1>1, BgetCachedStep, BgetRecycleStep, AcquireWaitStep, AcquireStep, BreadDoneStep, ModifyStep,
     LogWriteStep, BwriteStep, BwriteDoneStep, BrelseStep, BrelseRefStep DEF Process
<1>2. ASSUME VirtioNext, UNCHANGED cache PROVE BufOK'
  BY Zenon, <1>2, RwStep, RwFullStep, RwDoneStep, DeviceStep, IntrStep, IntrOneStep, IntrEndStep
     DEF VirtioNext
<1>3. ASSUME UNCHANGED vars PROVE BufOK'
  <2>1. UNCHANGED <<driver, data, blockno, disk, pc, buf, write, idx, cache>>
    BY Zenon, <1>3 DEF vars, procs
  <2>2. Waiting' = Waiting
    BY Zenon, <2>1 DEF Waiting
  <2>3. DriverType' /\ ChainsOK' /\ RingsOK'
    BY Zenon, <2>1, <2>2, DriverSame DEF BufOK, TypeOK
  <2>4. ListType' /\ LocksOK' /\ CountsOK'
    BY Zenon, <2>1, LocksSame
  <2>5. CacheType' /\ ContentsOK'
    BY Zenon, <2>1, <2>2, ContentsSame DEF driver
  <2>6. ProcType' /\ NoForgottenSleeper'
    BY ZenonT(30), <2>1, <2>2 DEF BufOK, TypeOK, ProcType, NoForgottenSleeper, driver, cache
  <2> QED BY Zenon, <2>3, <2>4, <2>5, <2>6 DEF BufOK, TypeOK
<1> QED BY Zenon, <1>1, <1>2, <1>3 DEF Next

(* The inductive invariant holds in every reachable state. *)
LEMMA BufKept == Spec => []BufOK
<1>1. Init => BufOK
  BY InitIsOK
<1>2. BufOK /\ [Next]_vars => BufOK'
  BY Zenon, StepKeeps
<1> QED BY <1>1, <1>2, PTL DEF Spec

(* It gives what the driver promises *)
LEMMA OKIsDriverInv ==
  ASSUME BufOK
  PROVE  DriverInv
<1>1. \A p \in Waiting : Cardinality(chain(idx[p])) = 3 /\ chain(idx[p]) \cap free = {}
  BY Zenon, ChainOf DEF BufOK
<1>2. \A i \in 1 .. Len(used) : \E p \in Waiting : idx[p] = used[i] /\ buf[p] = info[used[i]].b
  <2> SUFFICES ASSUME NEW i \in 1 .. Len(used)
               PROVE  \E p \in Waiting : idx[p] = used[i] /\ buf[p] = info[used[i]].b
    OBVIOUS
  <2>1. used \in Seq(Desc)
    BY DEF BufOK, TypeOK, DriverType
  <2>2. used[i] \in Desc /\ InUsed(used[i])
    BY SMTT(30), <2>1 DEF InUsed
  <2>3. PICK p \in Waiting : idx[p] = used[i]
    BY Zenon, <2>2 DEF BufOK, RingsOK
  <2> QED BY ZenonT(30), <2>3 DEF BufOK, ChainsOK, Formatted
<1> QED BY ZenonT(30), <1>1, <1>2 DEF BufOK, DriverInv

(* and what the cache promises. *)
LEMMA OKIsCoherent ==
  ASSUME BufOK
  PROVE  CacheCoherent
<1>1. ASSUME NEW p \in Proc, pc[p] = "using"
      PROVE  data[buf[p]] = latest[blockno[buf[p]]] /\ lock[buf[p]] = p
  <2>1. Holds(p) /\ Writes(p)
    BY <1>1 DEF Holds, Writes
  <2> QED BY ZenonT(30), <2>1 DEF BufOK, LocksOK, ContentsOK
<1> QED BY Zenon, <1>1 DEF BufOK, CacheCoherent

(* Driver and device agree in every reachable state: the chains of         *)
(* virtio_disk_rw() are disjoint and three long, together with the free    *)
(* descriptors they are the whole ring, and every entry of the used ring   *)
(* belongs to a process that waits for it.                                 *)
THEOREM DriverAgrees == Spec => []DriverInv
<1>1. BufOK => DriverInv
  BY Zenon, OKIsDriverInv
<1> QED BY <1>1, BufKept, PTL

(* Processes see one disk: bget() never caches a block twice or recycles a *)
(* buffer in use, and whoever has a buffer after bread() holds its lock    *)
(* and sees what was last put into the block.                              *)
THEOREM CacheIsCoherent == Spec => []CacheCoherent
<1>1. BufOK => CacheCoherent
  BY Zenon, OKIsCoherent
<1> QED BY <1>1, BufKept, PTL

(* No wakeup is lost in releasesleep(), free_desc() and                    *)
(* virtio_disk_intr(): nobody sleeps for a free lock, with three free      *)
(* descriptors, or for a buffer the device has given back.                 *)
THEOREM SleepersRemembered == Spec => []NoForgottenSleeper
<1>1. BufOK => NoForgottenSleeper
  BY DEF BufOK
<1> QED BY <1>1, BufKept, PTL
=============================================================================
