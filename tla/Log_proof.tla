------------------------------ MODULE Log_proof ------------------------------
(***************************************************************************)
(* Proofs about the write-ahead log, for every number of operations and    *)
(* blocks and every size of the log.  First LogOK is shown to be           *)
(* inductive.  Then the log implements AtomicDisk: what recovery would     *)
(* make of the disk (Installed) changes in one step only, the write of the *)
(* header.  Last, begin_op() reserves enough: the log always has room for  *)
(* what the operations in progress may still write.                        *)
(***************************************************************************)
EXTENDS Log, Integers, FiniteSetTheorems, TLAPS

(* A transaction without blocks has length 0, and only that one. *)
LEMMA EmptyLog ==
  /\ <<>> \in Seq(Block) /\ Len(<<>>) = 0 /\ 0 <= LOGSIZE
  /\ \A s \in Seq(Block) : s # <<>> => Len(s) \in Nat \ {0}
  BY LogAssumption

(* The reservation r of some operations, of which one ends that has c of    *)
(* the w blocks written and m of the blocks reserved.                       *)
LEMMA LessReserved ==
  ASSUME NEW l \in Nat, NEW r \in Nat, NEW m \in Nat, NEW s \in Nat, NEW w \in Nat, NEW c \in Nat,
         l + r <= s + w, c <= m
  PROVE  l + (r - m) <= s + (w - c)
  OBVIOUS

(* What begin_op() reserves for n operations, and for one less. *)
LEMMA Reservation ==
  /\ MAXOPBLOCKS \in Nat /\ 0 * MAXOPBLOCKS = 0
  /\ \A n \in Nat : /\ n * MAXOPBLOCKS \in Nat
                     /\ (n - 1) * MAXOPBLOCKS = n * MAXOPBLOCKS - MAXOPBLOCKS
  BY LogAssumption

(* log_write() puts a block at the end of the transaction and leaves the    *)
(* others in their places.                                                  *)
LEMMA LongerLog ==
  ASSUME NEW s \in Seq(Block), NEW b \in Block
  PROVE  /\ Append(s, b) \in Seq(Block) /\ Len(Append(s, b)) = Len(s) + 1
         /\ \A i \in 1 .. Len(s) : Append(s, b)[i] = s[i]
         /\ Append(s, b)[Len(s) + 1] = b
  OBVIOUS

(* Finitely many operations are in progress. *)
LEMMA ActiveFinite == IsFiniteSet(Active) /\ Cardinality(Active) \in Nat
  BY LogAssumption, FS_Subset, FS_CardinalityType DEF Active

(* A pinned block is one of the transaction. *)
LEMMA PinnedInLog ==
  ASSUME LogOK, NEW o \in Op, pc[o] \in {"write_log", "write_head", "install"},
         NEW i \in 1 .. Len(lh), pc[o] = "install" => tail <= i
  PROVE  lh[i] \in Block /\ lh[i] \in pinned /\ cache[lh[i]] \in Val
<1>1. boot = "done" /\ lh[i] \in Block
  BY DEF LogOK, OpsOK, TypeOK
<1>2. \A q \in Op : pc[q] # "clear" /\ (pc[q] = "install" => q = o)
  BY DEF LogOK, OpsOK, Committer, CommitPC
<1>3. lh[i] \in pinned
  BY <1>1, <1>2 DEF LogOK, PinOK
<1> QED BY <1>1, <1>3 DEF LogOK, PinOK, TypeOK

(* begin_op() waits, or counts one more operation. *)
LEMMA BeginOpStep ==
  ASSUME LogOK, NEW o \in Op, begin_op(o)
  PROVE  LogOK'
<1>1. TypeOK'
  <2>1. pc \in [Op -> PC] /\ outstanding \in Nat
    BY Zenon DEF LogOK, TypeOK
  <2>2. pc' \in [Op -> PC] /\ outstanding' \in Nat
    BY <2>1 DEF begin_op, PC
  <2> QED BY Zenon, <2>2 DEF begin_op, disks, LogOK, TypeOK
<1>2. (Distinct(lh) /\ Len(lh) < nlog)'
  BY DEF begin_op, LogOK
<1>3. (Distinct(header) /\ Len(header) < nlog)'
  BY DEF begin_op, disks, LogOK
<1>4. outstanding' = Cardinality(Active')
  <2>1. CASE UNCHANGED outstanding /\ pc' = [pc EXCEPT ![o] = "asleep"]
    <3>1. Active' = Active
      BY <2>1 DEF begin_op, Active, LogOK, TypeOK
    <3> QED BY <2>1, <3>1 DEF LogOK, OpsOK
  <2>2. CASE outstanding' = outstanding + 1 /\ pc' = [pc EXCEPT ![o] = "op"]
    <3>1. Active' = Active \cup {o} /\ o \notin Active
      BY <2>2 DEF begin_op, Active, LogOK, TypeOK
    <3> QED BY Zenon, <2>2, <3>1, ActiveFinite, FS_AddElement DEF LogOK, OpsOK
  <2> QED BY <2>1, <2>2 DEF begin_op
<1>5. OpsOK'
  <2>1. /\ boot = "done" /\ boot' = "done" /\ UNCHANGED <<committing, lh>>
        /\ pc[o] \in {"idle", "begin"} /\ pc'[o] \in {"op", "asleep"}
        /\ \A q \in Op \ {o} : pc'[q] = pc[q]
        /\ pc'[o] = "op" => ~committing
    BY DEF begin_op, must_wait, LogOK, TypeOK
  <2>2. Committer' = Committer /\ (pc'[o] # "op" => Active' = Active)
    BY <2>1 DEF Committer, CommitPC, Active
  <2>3. pc'[o] = "op" => Committer = {} /\ Active' # {}
    BY <2>1 DEF LogOK, OpsOK, Active
  <2> QED BY <1>4, <2>1, <2>2, <2>3 DEF LogOK, OpsOK
<1>6. BootOK'
  BY DEF begin_op, disks, LogOK, TypeOK, BootOK
<1>7. PinOK'
  BY SMTT(30), LogAssumption DEF begin_op, disks, LogOK, TypeOK, PinOK, CommitOK
<1>8. ASSUME NEW q \in Op PROVE CommitOK(q)'
  BY DEF begin_op, disks, LogOK, TypeOK, CommitOK
<1> QED BY <1>1, <1>2, <1>3, <1>5, <1>6, <1>7, <1>8 DEF LogOK

(* log_write() appends the block and pins it, unless it is in the          *)
(* transaction already (absorption).                                       *)
LEMMA LogWriteStep ==
  ASSUME LogOK, NEW o \in Op, NEW b \in Block, NEW v \in Val, log_write(o, b, v)
  PROVE  LogOK'
<1>1. /\ pc[o] = "op" /\ Len(lh) < nlog - 1
      /\ cache' = [cache EXCEPT ![b] = v] /\ wrote' = [wrote EXCEPT ![o] = @ \cup {b}]
      /\ UNCHANGED <<disk, logblock, header, outstanding, committing, pc, tail, boot>>
  BY SMTT(30), LogAssumption DEF log_write, too_big, disks
<1>2. /\ boot = "done" /\ header = <<>> /\ o \in Active
      /\ \A q \in Op : pc[q] \notin CommitPC
  BY <1>1 DEF LogOK, OpsOK, BootOK, Active, Committer, CommitPC
<1>3. /\ lh' \in Seq(Block) /\ Distinct(lh') /\ Len(lh') < nlog
      /\ \A a \in Block : a \in pinned' <=> \E i \in 1 .. Len(lh') : lh'[i] = a
      /\ b \in pinned' /\ pinned' \subseteq pinned \cup {b}
  <2>0. /\ lh \in Seq(Block) /\ Distinct(lh) /\ nlog \in Nat
        /\ \A a \in Block : a \in pinned <=> \E i \in 1 .. Len(lh) : lh[i] = a
    BY <1>2, LogAssumption DEF LogOK, TypeOK, PinOK, CommitPC
  <2>1. CASE \E i \in 1 .. Len(lh) : lh[i] = b
    <3>1. lh' = lh /\ pinned' = pinned
      BY <2>1 DEF log_write
    <3> QED BY <2>0, <2>1, <3>1 DEF LogOK, Distinct
  <2>2. CASE ~\E i \in 1 .. Len(lh) : lh[i] = b
    <3>1. lh' = Append(lh, b) /\ pinned' = pinned \cup {b}
      BY <2>2 DEF log_write, bpin
    <3>2. /\ lh' \in Seq(Block) /\ Len(lh') = Len(lh) + 1
          /\ \A i \in 1 .. Len(lh) : lh'[i] = lh[i]
          /\ lh'[Len(lh) + 1] = b
      BY <2>0, <3>1, LongerLog
    <3>3. Len(lh) \in Nat
      BY <2>0
    <3>4. \A i \in 1 .. Len(lh') : i = Len(lh) + 1 \/ (i \in 1 .. Len(lh) /\ lh'[i] = lh[i])
      BY <3>2, <3>3
    <3>5. Distinct(lh')
      BY SMTT(30), <2>0, <2>2, <3>2, <3>3, <3>4 DEF Distinct
    <3>6. ASSUME NEW a \in Block PROVE a \in pinned' <=> \E i \in 1 .. Len(lh') : lh'[i] = a
      BY <2>0, <3>1, <3>2, <3>3, <3>4
    <3> QED BY SMTT(30), <2>0, <3>1, <3>2, <3>3, <3>5, <3>6, <1>1
  <2> QED BY <2>1, <2>2
<1>4. TypeOK'
  <2>1. pinned' \subseteq Block
    BY <1>3 DEF LogOK, TypeOK
  <2> QED BY <1>1, <1>3, <2>1 DEF LogOK, TypeOK
<1>5. OpsOK'
  <2>1. Active' = Active /\ Committer' = Committer
    BY <1>1 DEF Active, Committer
  <2> QED BY <1>1, <1>2, <2>1 DEF LogOK, OpsOK
<1>6. BootOK'
  BY <1>1, <1>2 DEF BootOK
<1>7. PinOK'
  <2>1. \A a \in Block : a \in pinned' => cache'[a] # NULL
    BY <1>1, <1>3, LogAssumption DEF LogOK, TypeOK, PinOK
  <2>2. \A a \in Block \ pinned' : cache'[a] \in {NULL, disk'[a]}
    <3>1. \A a \in Block \ pinned' : a \notin pinned /\ a # b
      <4>1. \A a \in pinned : a \in pinned'
        BY DEF log_write, bpin
      <4> QED BY Zenon, <1>3, <4>1
    <3> QED BY <1>1, <3>1 DEF LogOK, TypeOK, PinOK
  <2> QED BY SMTT(30), <1>1, <1>2, <1>3, <1>4, <2>1, <2>2 DEF PinOK, CommitPC, TypeOK
<1>8. \A q \in Op : CommitOK(q)'
  BY <1>1, <1>2 DEF CommitOK, CommitPC
<1> QED BY Zenon, <1>1, <1>2, <1>3, <1>4, <1>5, <1>6, <1>7, <1>8 DEF LogOK

(* end_op(): the last operation becomes the one process that commits, if   *)
(* there is anything to commit.                                            *)
LEMMA EndOpStep ==
  ASSUME LogOK, NEW o \in Op, end_op(o)
  PROVE  LogOK'
<1>1. /\ pc[o] = "op" /\ outstanding' = outstanding - 1 /\ o \in Active
      /\ wrote' = [wrote EXCEPT ![o] = {}]
      /\ UNCHANGED <<disk, logblock, header, cache, pinned, lh, boot>>
  BY DEF end_op, disks, Active
<1>2. /\ boot = "done" /\ header = <<>> /\ ~committing /\ pc \in [Op -> PC]
      /\ \A q \in Op : pc[q] \notin CommitPC
  BY <1>1 DEF LogOK, TypeOK, OpsOK, BootOK, Active, Committer, CommitPC
<1>3. /\ outstanding \in Nat /\ outstanding = Cardinality(Active) /\ outstanding >= 1
      /\ Cardinality(Active \ {o}) = outstanding - 1
      /\ Active \ {o} = {} <=> outstanding = 1
  <2>1. Cardinality(Active \ {o}) = outstanding - 1 /\ IsFiniteSet(Active \ {o})
    BY <1>1, ActiveFinite, FS_RemoveElement DEF LogOK, OpsOK
  <2>2. Cardinality(Active \ {o}) \in Nat
    BY <2>1, FS_CardinalityType
  <2>3. Active \ {o} = {} <=> Cardinality(Active \ {o}) = 0
    BY Zenon, <2>1, FS_EmptySet
  <2>4. outstanding \in Nat /\ outstanding = Cardinality(Active)
    BY Zenon, ActiveFinite DEF LogOK, OpsOK
  <2> QED BY SMTT(30), <2>1, <2>2, <2>3, <2>4
<1>4. CASE last_op /\ committing' = TRUE /\ tail' = 1
           /\ pc' = [pc EXCEPT ![o] = IF lh = <<>> THEN "committed" ELSE "write_log"]
  <2>1. /\ pc'[o] = IF lh = <<>> THEN "committed" ELSE "write_log"
        /\ \A q \in Op \ {o} : pc'[q] = pc[q] /\ pc[q] # "op"
        /\ outstanding' = 0
    BY SMTT(30), <1>1, <1>2, <1>3, <1>4 DEF last_op, Active
  <2>2. TypeOK'
    BY <1>1, <1>3, <1>4, <2>1 DEF LogOK, TypeOK, PC
  <2>3. Active' = {} /\ Committer' = {o}
    BY <1>2, <2>1 DEF Active, Committer, CommitPC
  <2>4. OpsOK'
    BY Zenon, <1>1, <1>2, <1>4, <2>1, <2>3, FS_EmptySet DEF OpsOK
  <2>5. BootOK'
    BY Zenon, <1>1, <1>2, <2>1 DEF BootOK, CommitPC
  <2>6. PinOK'
    BY SMTT(30), <1>1, <1>2, <2>1 DEF LogOK, PinOK, CommitPC
  <2>7. ASSUME NEW q \in Op PROVE CommitOK(q)'
    <3>1. lh \in Seq(Block) /\ (lh # <<>> => 1 \in 1 .. Len(lh))
      BY SMTT(30), EmptyLog DEF LogOK, TypeOK
    <3> QED BY <1>1, <1>2, <1>4, <2>1, <3>1 DEF CommitOK, CommitPC
  <2> QED BY Zenon, <1>1, <2>2, <2>4, <2>5, <2>6, <2>7 DEF LogOK, Distinct
<1>5. CASE ~last_op /\ pc' = wakeup([pc EXCEPT ![o] = "idle"]) /\ UNCHANGED <<committing, tail>>
  <2>1. /\ pc'[o] = "idle"
        /\ \A q \in Op \ {o} : pc'[q] = IF pc[q] = "asleep" THEN "begin" ELSE pc[q]
        /\ pc' \in [Op -> PC]
    BY <1>2, <1>5 DEF wakeup, PC
  <2>2. TypeOK'
    <3>1. outstanding' \in Nat /\ wrote' \in [Op -> SUBSET Block]
      BY <1>1, <1>3 DEF LogOK, TypeOK
    <3> QED BY Zenon, <1>1, <1>5, <2>1, <3>1 DEF LogOK, TypeOK
  <2>3. Active' = Active \ {o} /\ Committer' = {} /\ Committer = {}
    BY <1>2, <2>1 DEF Active, Committer, CommitPC
  <2>4. Active' # {}
    BY <1>3, <1>5, <2>3 DEF last_op
  <2>5. OpsOK'
    BY Zenon, <1>1, <1>2, <1>3, <1>5, <2>3, <2>4 DEF LogOK, OpsOK
  <2>6. BootOK'
    BY Zenon, <1>1, <1>2, <2>1 DEF BootOK, CommitPC
  <2>7. PinOK'
    BY <1>1, <1>2, <2>1 DEF LogOK, PinOK, CommitPC
  <2>8. ASSUME NEW q \in Op PROVE CommitOK(q)'
    BY Zenon, <1>1, <1>2, <2>1 DEF CommitOK, CommitPC
  <2> QED BY <1>1, <2>2, <2>5, <2>6, <2>7, <2>8 DEF LogOK, Distinct
<1> QED BY Zenon, <1>4, <1>5 DEF end_op

(* write_log() copies one more block of the transaction into the log. *)
LEMMA WriteLogStep ==
  ASSUME LogOK, NEW o \in Op, write_log(o)
  PROVE  LogOK'
<1>1. /\ pc[o] = "write_log" /\ tail \in 1 .. Len(lh) /\ tail \in Slot
      /\ \A i \in 1 .. Len(lh) : cache[lh[i]] \in Val
      /\ lh \in Seq(Block) /\ cache \in [Block -> Val \cup {NULL}] /\ lh[tail] \in Block
  <2>1. pc[o] = "write_log" /\ tail \in 1 .. Len(lh) /\ lh \in Seq(Block)
    BY DEF write_log, LogOK, CommitOK, TypeOK
  <2>2. tail \in Slot
    BY SMTT(30), <2>1, LogAssumption DEF LogOK, Slot
  <2> QED BY Zenon, <2>1, <2>2, PinnedInLog DEF LogOK, TypeOK
<1>2. /\ logblock' = [logblock EXCEPT ![tail] = cache[lh[tail]]] /\ cache' = cache
      /\ UNCHANGED <<disk, header, pinned, lh, outstanding, committing, wrote, boot>>
  <2>1. bread(lh[tail]) = cache[lh[tail]]
    BY Zenon, <1>1, LogAssumption DEF bread
  <2> QED BY <1>1, <2>1 DEF write_log
<1>3. /\ \A q \in Op \ {o} : pc[q] \notin CommitPC /\ pc[q] # "op" /\ pc'[q] = pc[q]
      /\ boot = "done" /\ header = <<>>
  <2>1. \A q \in Op \ {o} : pc[q] \notin CommitPC /\ pc[q] # "op"
    BY <1>1 DEF LogOK, OpsOK, Committer, CommitPC, Active
  <2>2. \A q \in Op \ {o} : pc'[q] = pc[q]
    BY DEF write_log, LogOK, TypeOK
  <2> QED BY Zenon, <1>1, <2>1, <2>2 DEF LogOK, OpsOK, BootOK, CommitPC
<1>4. \/ tail < Len(lh) /\ tail' = tail + 1 /\ pc'[o] = "write_log"
      \/ tail = Len(lh) /\ tail' = 1 /\ pc'[o] = "write_head"
  BY Zenon, <1>1 DEF write_log, LogOK, TypeOK
<1>5. TypeOK'
  <2>1. pc' \in [Op -> PC]
    BY Zenon DEF write_log, LogOK, TypeOK, PC
  <2> QED BY SMTT(30), <1>1, <1>2, <1>4, <2>1 DEF LogOK, TypeOK
<1>6. OpsOK'
  <2>1. Active' = Active /\ Committer' = Committer
    BY <1>1, <1>3, <1>4 DEF Active, Committer, CommitPC
  <2> QED BY Zenon, <1>1, <1>2, <1>3, <2>1 DEF LogOK, OpsOK
<1>7. BootOK'
  BY Zenon, <1>2, <1>3, <1>4 DEF BootOK
<1>8. PinOK'
  BY SMTT(30), <1>1, <1>2, <1>3, <1>4 DEF LogOK, PinOK, CommitPC
<1>9. ASSUME NEW q \in Op PROVE CommitOK(q)'
  <2>1. CASE q # o
    BY Zenon, <1>3, <2>1 DEF CommitOK, CommitPC
  <2>2. CASE q = o
    <3>1. \A i \in 1 .. tail - 1 : logblock[i] = cache[lh[i]]
      BY Zenon, <1>1 DEF LogOK, CommitOK
    <3>2. \A i \in 1 .. tail : logblock'[i] = cache'[lh'[i]]
      BY <1>1, <1>2, <3>1 DEF LogOK, TypeOK, Slot
    <3>3. lh # <<>>
      BY <1>1
    <3>4. /\ lh \in Seq(Block) /\ lh' = lh /\ tail \in 1 .. Len(lh)
      BY Zenon, <1>1, <1>2 DEF LogOK, TypeOK
    <3> QED BY SMTT(30), <1>4, <2>2, <3>2, <3>3, <3>4 DEF CommitOK
  <2> QED BY Zenon, <2>1, <2>2
<1> QED BY Zenon, <1>2, <1>5, <1>6, <1>7, <1>8, <1>9 DEF LogOK, Distinct

(* write_head() commits a transaction whose blocks are all in the log. *)
LEMMA WriteHeadStep ==
  ASSUME LogOK, NEW o \in Op, write_head(o)
  PROVE  LogOK'
<1>1. TypeOK'
  BY DEF write_head, LogOK, TypeOK, PC
<1>2. (Distinct(lh) /\ Len(lh) < nlog)'
  BY DEF write_head, LogOK
<1>3. (Distinct(header) /\ Len(header) < nlog)'
  BY DEF write_head, LogOK
<1>4. outstanding' = Cardinality(Active')
  BY Zenon, LogAssumption DEF write_head, LogOK, TypeOK, OpsOK, Active
<1>5. OpsOK'
  BY SMTT(30), <1>4 DEF write_head, LogOK, OpsOK, Active, Committer, CommitPC
<1>6. BootOK'
  BY Zenon DEF write_head, LogOK, TypeOK, BootOK
<1>7. PinOK'
  BY SMTT(30) DEF write_head, LogOK, PinOK, CommitOK
<1>8. ASSUME NEW q \in Op PROVE CommitOK(q)'
  BY SMTT(30) DEF write_head, LogOK, CommitOK
<1> QED BY <1>1, <1>2, <1>3, <1>5, <1>6, <1>7, <1>8 DEF LogOK

(* install_trans() writes one more block home and unpins it. *)
LEMMA InstallTransStep ==
  ASSUME LogOK, NEW o \in Op, install_trans(o)
  PROVE  LogOK'
<1>1. TypeOK'
  <2>1. /\ lh \in Seq(Block) /\ tail \in 1 .. Len(lh) /\ Len(lh) < nlog
        /\ disk \in [Block -> Val] /\ logblock \in [Slot -> Val]
    BY Zenon DEF install_trans, LogOK, TypeOK, CommitOK
  <2>2. tail \in Slot
    BY <2>1, LogAssumption DEF Slot
  <2>3. disk' \in [Block -> Val]
    BY <2>1, <2>2 DEF install_trans, install
  <2>4. tail' \in Nat /\ pc' \in [Op -> PC] /\ pinned' \subseteq Block
    BY DEF install_trans, LogOK, TypeOK, PC
  <2> QED BY Zenon, <2>3, <2>4 DEF install_trans, install, LogOK, TypeOK
<1>2. (Distinct(lh) /\ Len(lh) < nlog)'
  BY DEF install_trans, install, LogOK
<1>3. (Distinct(header) /\ Len(header) < nlog)'
  BY DEF install_trans, install, LogOK
<1>4. outstanding' = Cardinality(Active')
  BY Zenon, LogAssumption DEF install_trans, install, LogOK, TypeOK, OpsOK, Active
<1>5. OpsOK'
  BY SMTT(30), <1>4 DEF install_trans, LogOK, TypeOK, OpsOK, Active, Committer, CommitPC
<1>6. BootOK'
  BY Zenon DEF install_trans, LogOK, TypeOK, BootOK, OpsOK
<1>7. PinOK'
  BY SMTT(30) DEF install_trans, install, LogOK, TypeOK, PinOK, Distinct, CommitOK
<1>8. ASSUME NEW q \in Op PROVE CommitOK(q)'
  BY SMTT(30) DEF install_trans, install, LogOK, TypeOK, Distinct, OpsOK, Committer, CommitPC, CommitOK
<1> QED BY <1>1, <1>2, <1>3, <1>5, <1>6, <1>7, <1>8 DEF LogOK

(* The header is cleared once every block is home. *)
LEMMA ClearStep ==
  ASSUME LogOK, NEW o \in Op, clear(o)
  PROVE  LogOK'
<1>1. TypeOK'
  BY DEF clear, LogOK, TypeOK, PC
<1>2. (Distinct(lh) /\ Len(lh) < nlog)'
  BY LogAssumption DEF clear, Distinct
<1>3. (Distinct(header) /\ Len(header) < nlog)'
  BY LogAssumption DEF clear, Distinct
<1>4. outstanding' = Cardinality(Active')
  BY Zenon, LogAssumption DEF clear, LogOK, TypeOK, OpsOK, Active
<1>5. OpsOK'
  BY SMTT(30), <1>4 DEF clear, LogOK, OpsOK, Active, Committer, CommitPC
<1>6. BootOK'
  BY Zenon DEF clear, LogOK, BootOK, OpsOK
<1>7. PinOK'
  BY SMTT(30) DEF clear, LogOK, PinOK
<1>8. ASSUME NEW q \in Op PROVE CommitOK(q)'
  BY SMTT(30) DEF clear, LogOK, OpsOK, Committer, CommitPC, CommitOK
<1> QED BY <1>1, <1>2, <1>3, <1>5, <1>6, <1>7, <1>8 DEF LogOK

(* The end of end_op(): the next transaction may begin. *)
LEMMA CommittedStep ==
  ASSUME LogOK, NEW o \in Op, committed(o)
  PROVE  LogOK'
<1>1. TypeOK'
  BY Zenon, LogAssumption DEF committed, wakeup, disks, LogOK, TypeOK, PC, Slot, CommitOK, OpsOK, BootOK
<1>2. (Distinct(lh) /\ Len(lh) < nlog)'
  BY DEF committed, LogOK
<1>3. (Distinct(header) /\ Len(header) < nlog)'
  BY DEF committed, disks, LogOK
<1>4. outstanding' = Cardinality(Active')
  BY Zenon, LogAssumption DEF committed, wakeup, disks, LogOK, TypeOK, OpsOK, Active
<1>5. OpsOK'
  <2>1. /\ \A q \in Op \ {o} : pc[q] \notin CommitPC /\ pc[q] # "op"
        /\ boot = "done" /\ lh = <<>> /\ outstanding = 0
    BY ZenonT(30), FS_EmptySet DEF committed, LogOK, OpsOK, CommitOK, Committer, CommitPC, Active
  <2>2. pc'[o] = "idle" /\ \A q \in Op \ {o} : pc'[q] = IF pc[q] = "asleep" THEN "begin" ELSE pc[q]
    BY DEF committed, wakeup, LogOK, TypeOK
  <2>3. Active' = {} /\ Committer' = {}
    BY <2>1, <2>2 DEF Active, Committer, CommitPC
  <2> QED BY Zenon, <2>1, <2>3, FS_EmptySet DEF committed, disks, OpsOK
<1>6. BootOK'
  BY DEF committed, wakeup, disks, LogOK, BootOK
<1>7. PinOK'
  BY SMTT(30) DEF committed, wakeup, disks, LogOK, PinOK, CommitPC
<1>8. ASSUME NEW q \in Op PROVE CommitOK(q)'
  BY DEF committed, wakeup, disks, LogOK, CommitOK
<1> QED BY <1>1, <1>2, <1>3, <1>5, <1>6, <1>7, <1>8 DEF LogOK

(* bread() of a block that is not cached. *)
LEMMA BreadMissStep ==
  ASSUME LogOK, NEW b \in Block, bread_miss(b)
  PROVE  LogOK'
<1>1. TypeOK'
  BY Zenon DEF bread_miss, disks, LogOK, TypeOK
<1>2. (Distinct(lh) /\ Len(lh) < nlog)'
  BY DEF bread_miss, LogOK
<1>3. (Distinct(header) /\ Len(header) < nlog)'
  BY Zenon DEF bread_miss, disks, LogOK
<1>4. outstanding' = Cardinality(Active')
  BY Zenon DEF bread_miss, LogOK, OpsOK, Active
<1>5. OpsOK'
  BY Zenon DEF bread_miss, LogOK, OpsOK, Active, Committer
<1>6. BootOK'
  BY Zenon DEF bread_miss, disks, LogOK, BootOK
<1>7. PinOK'
  BY SMTT(30) DEF bread_miss, disks, LogOK, PinOK
<1>8. ASSUME NEW q \in Op PROVE CommitOK(q)'
  BY SMTT(30) DEF bread_miss, disks, LogOK, PinOK, Distinct, CommitOK
<1> QED BY Zenon, <1>1, <1>2, <1>3, <1>5, <1>6, <1>7, <1>8 DEF LogOK

(* bget() recycles a buffer that is not pinned. *)
LEMMA BgetStep ==
  ASSUME LogOK, NEW b \in Block, bget(b)
  PROVE  LogOK'
<1>1. TypeOK'
  BY DEF bget, disks, LogOK, TypeOK
<1>2. (Distinct(lh) /\ Len(lh) < nlog)'
  BY DEF bget, LogOK
<1>3. (Distinct(header) /\ Len(header) < nlog)'
  BY DEF bget, disks, LogOK
<1>4. outstanding' = Cardinality(Active')
  BY Zenon DEF bget, LogOK, OpsOK, Active
<1>5. OpsOK'
  BY Zenon DEF bget, LogOK, OpsOK, Active, Committer
<1>6. BootOK'
  BY Zenon DEF bget, disks, LogOK, BootOK
<1>7. PinOK'
  BY SMTT(30) DEF bget, disks, LogOK, PinOK
<1>8. ASSUME NEW q \in Op PROVE CommitOK(q)'
  <2>1. \A a \in pinned : cache'[a] = cache[a]
    BY DEF bget, LogOK, TypeOK
  <2>2. \A i \in 1 .. Len(lh) :
          pc[q] \in {"write_log", "write_head"} \/ (pc[q] = "install" /\ tail <= i) =>
            cache'[lh[i]] = cache[lh[i]]
    BY <2>1, PinnedInLog
  <2> QED BY <2>2 DEF bget, disks, LogOK, TypeOK, CommitOK
<1> QED BY <1>1, <1>2, <1>3, <1>5, <1>6, <1>7, <1>8 DEF LogOK

(* A crash leaves what is on disk. *)
LEMMA CrashStep ==
  ASSUME LogOK, Crash
  PROVE  LogOK'
<1>1. TypeOK'
  <2>1. lh' \in Seq(Block) /\ pc' \in [Op -> PC]
    BY EmptyLog DEF Crash, PC
  <2> QED BY Zenon, <2>1 DEF Crash, disks, LogOK, TypeOK
<1>2. (Distinct(lh) /\ Len(lh) < nlog)'
  BY LogAssumption DEF Crash, Distinct
<1>3. (Distinct(header) /\ Len(header) < nlog)'
  BY DEF Crash, disks, LogOK
<1>4. outstanding' = Cardinality(Active')
  <2>1. Active' = {}
    BY DEF Crash, Active
  <2> QED BY <2>1, FS_EmptySet DEF Crash
<1>5. OpsOK'
  BY <1>4 DEF Crash, OpsOK, Committer, CommitPC
<1>6. BootOK'
  BY DEF Crash, BootOK
<1>7. PinOK'
  BY DEF Crash, PinOK
<1>8. ASSUME NEW q \in Op PROVE CommitOK(q)'
  BY Zenon DEF Crash, CommitOK
<1> QED BY Zenon, <1>1, <1>2, <1>3, <1>5, <1>6, <1>7, <1>8 DEF LogOK

(* Recovery reads the header, *)
LEMMA ReadHeadStep ==
  ASSUME LogOK, read_head
  PROVE  LogOK'
<1>1. TypeOK'
  BY DEF read_head, disks, LogOK, TypeOK
<1>2. (Distinct(lh) /\ Len(lh) < nlog)'
  BY DEF read_head, LogOK
<1>3. (Distinct(header) /\ Len(header) < nlog)'
  BY DEF read_head, disks, LogOK
<1>4. outstanding' = Cardinality(Active')
  BY Zenon DEF read_head, LogOK, OpsOK, Active
<1>5. OpsOK'
  BY Zenon DEF read_head, LogOK, OpsOK, Active, Committer
<1>6. BootOK'
  BY DEF read_head, disks, LogOK, BootOK
<1>7. PinOK'
  BY Zenon DEF read_head, disks, LogOK, PinOK
<1>8. ASSUME NEW q \in Op PROVE CommitOK(q)'
  BY Zenon DEF read_head, LogOK, OpsOK, CommitOK
<1> QED BY Zenon, <1>1, <1>2, <1>3, <1>5, <1>6, <1>7, <1>8 DEF LogOK

(* installs the blocks one by one, again if it is itself cut short, *)
LEMMA RecoverStep ==
  ASSUME LogOK, recover
  PROVE  LogOK'
<1>1. TypeOK'
  BY LogAssumption DEF recover, install, LogOK, TypeOK, Slot, BootOK
<1>2. (Distinct(lh) /\ Len(lh) < nlog)'
  BY DEF recover, install, LogOK
<1>3. (Distinct(header) /\ Len(header) < nlog)'
  BY DEF recover, install, LogOK
<1>4. outstanding' = Cardinality(Active')
  BY Zenon DEF recover, LogOK, OpsOK, Active
<1>5. OpsOK'
  BY DEF recover, LogOK, OpsOK, Active, Committer
<1>6. BootOK'
  <2>1. /\ boot = "install" /\ header = lh /\ tail \in 1 .. Len(lh) /\ lh \in Seq(Block)
        /\ \A i \in 1 .. tail - 1 : disk[lh[i]] = logblock[i]
        /\ disk \in [Block -> Val] /\ disk' = [disk EXCEPT ![lh[tail]] = logblock[tail]]
        /\ UNCHANGED <<logblock, header, lh>>
    BY DEF recover, install, LogOK, BootOK, TypeOK
  <2>2. \A i \in 1 .. tail : disk'[lh[i]] = logblock[i]
    BY <2>1 DEF LogOK, Distinct
  <2> QED BY SMTT(30), <2>1, <2>2 DEF recover, BootOK
<1>7. PinOK'
  BY Zenon DEF recover, install, LogOK, TypeOK, PinOK
<1>8. ASSUME NEW q \in Op PROVE CommitOK(q)'
  BY Zenon DEF recover, LogOK, OpsOK, CommitOK
<1> QED BY <1>1, <1>2, <1>3, <1>5, <1>6, <1>7, <1>8 DEF LogOK

(* and clears the header when all of them are home. *)
LEMMA RecoveredStep ==
  ASSUME LogOK, recovered
  PROVE  LogOK'
<1>1. TypeOK'
  BY DEF recovered, LogOK, TypeOK
<1>2. (Distinct(lh) /\ Len(lh) < nlog)'
  BY LogAssumption DEF recovered, Distinct
<1>3. (Distinct(header) /\ Len(header) < nlog)'
  BY LogAssumption DEF recovered, Distinct
<1>4. outstanding' = Cardinality(Active')
  BY Zenon DEF recovered, LogOK, OpsOK, Active
<1>5. OpsOK'
  BY DEF recovered, LogOK, OpsOK, Active, Committer
<1>6. BootOK'
  BY Zenon DEF recovered, BootOK
<1>7. PinOK'
  BY SMTT(30) DEF recovered, LogOK, PinOK
<1>8. ASSUME NEW q \in Op PROVE CommitOK(q)'
  BY DEF recovered, LogOK, OpsOK, CommitOK
<1> QED BY <1>1, <1>2, <1>3, <1>5, <1>6, <1>7, <1>8 DEF LogOK

(* Every step keeps the inductive invariant. *)
LEMMA StepKeepsLog ==
  ASSUME LogOK, [Next]_vars
  PROVE  LogOK'
<1>1. CASE UNCHANGED vars
  BY SMTT(30), <1>1 DEF vars, LogOK, TypeOK, Distinct, OpsOK, Active, Committer, BootOK, PinOK, CommitOK
<1>2. CASE Next
  BY Zenon, <1>2, BeginOpStep, LogWriteStep, EndOpStep, WriteLogStep, WriteHeadStep, InstallTransStep,
     ClearStep, CommittedStep, BreadMissStep, BgetStep, CrashStep, ReadHeadStep, RecoverStep,
     RecoveredStep DEF Next
<1> QED BY ZenonT(30), <1>1, <1>2

(* mkfs leaves an empty log, and before the boot nothing is in memory. *)
LEMMA InitIsOK == Init => LogOK
<1> SUFFICES ASSUME Init PROVE LogOK
  OBVIOUS
<1>1. TypeOK
  <2>1. header \in Seq(Block) /\ lh \in Seq(Block)
    BY EmptyLog DEF Init
  <2>2. logblock \in [Slot -> Val] /\ disk \in [Block -> Val] /\ cache \in [Block -> Val \cup {NULL}]
    BY Zenon, LogAssumption DEF Init
  <2> QED BY Zenon, <2>1, <2>2 DEF Init, TypeOK, PC
<1>2. Active = {} /\ Committer = {}
  BY DEF Init, Active, Committer, CommitPC
<1>3. OpsOK
  BY Zenon, <1>2, FS_EmptySet DEF Init, OpsOK
<1>4. lh = <<>> /\ header = <<>> /\ Len(<<>>) = 0 /\ 0 < nlog /\ 1 .. 0 = {}
  BY EmptyLog, LogAssumption DEF Init
<1>5. Distinct(lh) /\ Len(lh) < nlog /\ Distinct(header) /\ Len(header) < nlog
  BY Zenon, <1>4 DEF Distinct
<1>6. BootOK /\ PinOK /\ \A o \in Op : CommitOK(o)
  BY Zenon, <1>4 DEF Init, BootOK, PinOK, CommitOK
<1> QED BY Zenon, <1>1, <1>3, <1>5, <1>6 DEF LogOK

-------------------------------------------------------------------------------
(* What recovery makes of a block that the header names, *)
LEMMA RecoveredIn ==
  ASSUME NEW d, NEW l, NEW h \in Seq(Block), Distinct(h), NEW i \in 1 .. Len(h)
  PROVE  Recovered(d, l, h)[h[i]] = l[i]
<1>1. h[i] \in Block
  OBVIOUS
<1>2. (CHOOSE j \in 1 .. Len(h) : h[j] = h[i]) = i
  BY Zenon DEF Distinct
<1>3. Recovered(d, l, h)[h[i]] = l[CHOOSE j \in 1 .. Len(h) : h[j] = h[i]]
  BY Zenon, <1>1 DEF Recovered
<1> QED BY Zenon, <1>2, <1>3

(* and of one that it does not. *)
LEMMA RecoveredOut ==
  ASSUME NEW d, NEW l, NEW h \in Seq(Block), NEW b \in Block,
         ~\E i \in 1 .. Len(h) : h[i] = b
  PROVE  Recovered(d, l, h)[b] = d[b]
BY Zenon DEF Recovered

(* Recovery does nothing when every block of the header is home. *)
LEMMA RecoveredHome ==
  ASSUME NEW d, NEW l, NEW h \in Seq(Block), Distinct(h), \E S : d \in [Block -> S],
         \A i \in 1 .. Len(h) : d[h[i]] = l[i]
  PROVE  Recovered(d, l, h) = d
<1>1. ASSUME NEW b \in Block PROVE Recovered(d, l, h)[b] = d[b]
  <2>1. CASE \E i \in 1 .. Len(h) : h[i] = b
    BY <2>1, RecoveredIn
  <2> QED BY SMTT(30), <2>1, RecoveredOut
<1>2. Recovered(d, l, h) = [b \in Block |-> Recovered(d, l, h)[b]]
  BY Zenon DEF Recovered
<1> QED BY Zenon, <1>1, <1>2

(* In particular, of the transaction in memory if it were committed now. *)
LEMMA CommittedNow ==
  ASSUME LogOK
  PROVE  \A i \in 1 .. Len(lh) : Recovered(disk, logblock, lh)[lh[i]] = logblock[i]
BY RecoveredIn DEF LogOK, TypeOK

(* It does nothing with an empty header. *)
LEMMA EmptyRecovers ==
  ASSUME NEW d \in [Block -> Val], NEW l
  PROVE  Recovered(d, l, <<>>) = d
<1>1. <<>> \in Seq(Block) /\ Distinct(<<>>) /\ \A i \in 1 .. Len(<<>>) : d[(<<>>)[i]] = l[i]
  BY EmptyLog DEF Distinct
<1> QED BY Zenon, <1>1, RecoveredHome

(* With an empty header, what is on disk is what recovery makes of it. *)
LEMMA InstalledIsDisk ==
  ASSUME LogOK, header = <<>>
  PROVE  Installed = disk
BY Zenon, EmptyRecovers DEF Installed, LogOK, TypeOK

(* The cache shows of an unpinned block what the disk has. *)
LEMMA UnpinnedIsDisk ==
  ASSUME LogOK, NEW b \in Block, b \notin pinned
  PROVE  bread(b) = disk[b]
BY DEF bread, LogOK, PinOK

(* Between the transactions all is on disk. *)
LEMMA OKIsDurable == LogOK => QuiescentIsDurable
<1> SUFFICES ASSUME LogOK, boot = "done", outstanding = 0, ~committing, NEW b \in Block
             PROVE  bread(b) = Installed[b]
  BY DEF QuiescentIsDurable
<1>1. Active = {} /\ Committer = {}
  BY Zenon, ActiveFinite, FS_EmptySet DEF LogOK, OpsOK
<1>2. lh = <<>> /\ header = <<>>
  BY Zenon, <1>1 DEF LogOK, OpsOK, BootOK, Committer, CommitPC
<1>3. b \notin pinned
  BY <1>2 DEF LogOK, PinOK
<1> QED BY <1>2, <1>3, InstalledIsDisk, UnpinnedIsDisk

(* The inductive invariant, and that what finished operations wrote would   *)
(* survive a crash of an idle file system: log.c from the first begin_op()  *)
(* to any number of crashes and recoveries. *)
THEOREM LogKept == Spec => []LogInv
<1>1. Init => LogOK BY InitIsOK
<1>2. LogOK /\ [Next]_vars => LogOK' BY StepKeepsLog
<1>3. LogOK => LogInv BY OKIsDurable DEF LogInv
<1> QED BY <1>1, <1>2, <1>3, PTL DEF Spec

-------------------------------------------------------------------------------
(* Only the write of the header changes what a crash would leave: every      *)
(* other disk write is to a log block that the header does not name, or to   *)
(* the home of a block that it does. *)
LEMMA WriteLogInstalls ==
  ASSUME LogOK, NEW o \in Op, write_log(o)
  PROVE  Installed' = Installed /\ Seen' = Seen /\ Active' = Active
<1>1. /\ pc[o] = "write_log" /\ tail \in 1 .. Len(lh) /\ boot = "done" /\ header = <<>>
  BY DEF write_log, LogOK, CommitOK, OpsOK, BootOK, Committer, CommitPC
<1>2. lh[tail] \in Block /\ cache[lh[tail]] \in Val /\ cache[lh[tail]] # NULL
  BY Zenon, <1>1, PinnedInLog, LogAssumption
<1>3. cache' = cache /\ UNCHANGED <<disk, header, boot>>
  BY <1>2 DEF write_log, bread, LogOK, TypeOK
<1>4. Installed' = Installed
  <2>1. Installed = disk
    BY Zenon, <1>1, InstalledIsDisk
  <2>2. Installed' = disk'
    BY Zenon, <1>1, <1>3, EmptyRecovers DEF Installed, LogOK, TypeOK
  <2> QED BY <1>3, <2>1, <2>2
<1>5. Seen' = Seen
  BY Zenon, <1>1, <1>3 DEF Seen, bread
<1>6. Active' = Active
  BY Zenon, <1>1 DEF write_log, Active, LogOK, TypeOK
<1> QED BY ZenonT(30), <1>4, <1>5, <1>6

(* write_head() makes durable what the operations see. *)
LEMMA WriteHeadCommits ==
  ASSUME LogOK, NEW o \in Op, write_head(o)
  PROVE  Active = {} /\ Active' = {} /\ Seen' = Seen /\ Installed' = Seen
<1>1. /\ pc[o] = "write_head" /\ boot = "done" /\ header = <<>> /\ Active = {}
      /\ \A i \in 1 .. Len(lh) : logblock[i] = cache[lh[i]]
      /\ \A q \in Op \ {o} : pc[q] \notin CommitPC
      /\ lh \in Seq(Block) /\ Distinct(lh)
  BY DEF write_head, LogOK, TypeOK, CommitOK, OpsOK, BootOK, Committer, CommitPC
<1>2. header' = lh /\ UNCHANGED <<disk, logblock, cache, boot>>
  BY Zenon DEF write_head
<1>3. Seen' = Seen
  BY Zenon, <1>1, <1>2 DEF Seen, bread
<1>4. Active' = {}
  BY Zenon, <1>1 DEF write_head, Active, LogOK, TypeOK
<1>5. ASSUME NEW b \in Block PROVE Recovered(disk, logblock, lh)[b] = bread(b)
  <2>1. CASE \E i \in 1 .. Len(lh) : lh[i] = b
    <3>1. PICK i \in 1 .. Len(lh) : lh[i] = b
      BY Zenon, <2>1
    <3>2. bread(b) = cache[b]
      BY Zenon, <1>1, <3>1, PinnedInLog, LogAssumption DEF bread
    <3>3. Recovered(disk, logblock, lh)[lh[i]] = logblock[i]
      BY Zenon, CommittedNow
    <3> QED BY Zenon, <1>1, <3>1, <3>2, <3>3
  <2>2. CASE ~\E i \in 1 .. Len(lh) : lh[i] = b
    <3>1. b \notin pinned
      BY Zenon, <1>1, <2>2 DEF LogOK, PinOK
    <3>2. Recovered(disk, logblock, lh)[b] = disk[b]
      BY Zenon, <2>2 DEF Recovered
    <3>3. bread(b) = disk[b]
      BY Zenon, <3>1, UnpinnedIsDisk
    <3> QED BY Zenon, <3>2, <3>3
  <2> QED BY Zenon, <2>1, <2>2
<1>6. Recovered(disk, logblock, lh) = [b \in Block |-> Recovered(disk, logblock, lh)[b]]
  BY Zenon DEF Recovered
<1>7. Recovered(disk, logblock, lh) = Seen
  BY Zenon, <1>1, <1>5, <1>6 DEF Seen
<1> QED BY ZenonT(30), <1>1, <1>2, <1>3, <1>4, <1>7 DEF Installed

(* Writing a block home changes neither. *)
LEMMA InstallInstalls ==
  ASSUME LogOK, install, header = lh, tail \in 1 .. Len(lh)
  PROVE  Installed' = Installed
<1>1. /\ header \in Seq(Block) /\ Distinct(header) /\ disk \in [Block -> Val]
      /\ disk' = [disk EXCEPT ![header[tail]] = logblock[tail]]
      /\ UNCHANGED <<header, logblock>>
  BY DEF LogOK, TypeOK, install
<1>2. \A b \in Block : (~\E i \in 1 .. Len(header) : header[i] = b) => disk'[b] = disk[b]
  BY <1>1
<1>3. Recovered(disk', logblock, header) = Recovered(disk, logblock, header)
  <2>1. ASSUME NEW b \in Block
        PROVE  Recovered(disk', logblock, header)[b] = Recovered(disk, logblock, header)[b]
    <3>1. CASE \E i \in 1 .. Len(header) : header[i] = b
      <4>1. PICK i \in 1 .. Len(header) : header[i] = b
        BY Zenon, <3>1
      <4>2. Recovered(disk', logblock, header)[header[i]] = logblock[i]
        BY SMTT(30), <1>1, RecoveredIn
      <4>3. Recovered(disk, logblock, header)[header[i]] = logblock[i]
        BY SMTT(30), <1>1, RecoveredIn
      <4> QED BY <4>1, <4>2, <4>3
    <3>2. CASE ~\E i \in 1 .. Len(header) : header[i] = b
      <4>1. Recovered(disk', logblock, header)[b] = disk'[b]
        BY Zenon, <3>2 DEF Recovered
      <4>2. Recovered(disk, logblock, header)[b] = disk[b]
        BY <1>1, <3>2, RecoveredOut
      <4> QED BY <1>2, <3>2, <4>1, <4>2
    <3> QED BY Zenon, <3>1, <3>2
  <2>2. /\ Recovered(disk, logblock, header) = [b \in Block |-> Recovered(disk, logblock, header)[b]]
        /\ Recovered(disk', logblock, header) = [b \in Block |-> Recovered(disk', logblock, header)[b]]
    BY Zenon DEF Recovered
  <2> QED BY Zenon, <2>1, <2>2
<1> QED BY Zenon, <1>1, <1>3 DEF Installed

(* So install_trans() changes nothing that can be seen, *)
LEMMA InstallTransInstalls ==
  ASSUME LogOK, NEW o \in Op, install_trans(o)
  PROVE  Installed' = Installed /\ Seen' = Seen /\ Active' = Active
<1>1. /\ pc[o] = "install" /\ tail \in 1 .. Len(lh) /\ boot = "done" /\ header = lh
      /\ cache[lh[tail]] = logblock[tail]
  BY SMTT(30) DEF install_trans, LogOK, CommitOK, OpsOK
<1>2. lh[tail] \in Block /\ cache[lh[tail]] \in Val /\ cache[lh[tail]] # NULL
  BY <1>1, PinnedInLog, LogAssumption
<1>3. cache' = cache /\ boot' = boot /\ \A b \in Block \ {lh[tail]} : disk'[b] = disk[b]
  BY Zenon, <1>1, <1>2 DEF install_trans, install, LogOK, TypeOK
<1>4. \A b \in Block : bread(b)' = bread(b)
  BY Zenon, <1>2, <1>3 DEF bread
<1>5. Active' = Active
  BY Zenon, <1>1 DEF install_trans, Active, LogOK, TypeOK
<1>6. Installed' = Installed
  BY Zenon, <1>1, InstallInstalls DEF install_trans
<1> QED BY ZenonT(30), <1>1, <1>3, <1>4, <1>5, <1>6 DEF Seen

(* nor does clearing the header when all blocks are home. *)
LEMMA ClearInstalls ==
  ASSUME LogOK, NEW o \in Op, clear(o)
  PROVE  Installed' = Installed /\ Seen' = Seen /\ Active' = Active
<1>1. /\ pc[o] = "clear" /\ boot = "done" /\ header = lh
      /\ \A i \in 1 .. Len(header) : disk[header[i]] = logblock[i]
      /\ header \in Seq(Block) /\ Distinct(header) /\ disk \in [Block -> Val]
  BY DEF clear, LogOK, TypeOK, CommitOK, OpsOK
<1>2. header' = <<>> /\ UNCHANGED <<disk, logblock, cache, boot>>
  BY Zenon DEF clear
<1>3. Installed = disk
  BY Zenon, <1>1, RecoveredHome DEF Installed
<1>4. Installed' = disk'
  BY Zenon, <1>1, <1>2, EmptyRecovers DEF Installed
<1>5. Active' = Active
  BY <1>1 DEF clear, Active, LogOK, TypeOK
<1> QED BY ZenonT(30), <1>1, <1>2, <1>3, <1>4, <1>5 DEF Seen, bread

(* Every step of the log is a step of the atomic disk or changes nothing    *)
(* that can be seen of it. *)
LEMMA BeginOpAtomic ==
  ASSUME LogOK, NEW o \in Op, begin_op(o)
  PROVE  Atomic!Begin(o) \/ UNCHANGED <<Seen, Installed, Active>>
<1>1. UNCHANGED <<Seen, Installed>>
  BY Zenon DEF begin_op, disks, Seen, Installed, bread
<1>2. \/ Active' = Active
      \/ o \notin Active /\ Active' = Active \cup {o}
  BY DEF begin_op, Active, LogOK, TypeOK
<1> QED BY <1>1, <1>2 DEF Atomic!Begin

(* A log_write() is seen by the operations and not yet on disk. *)
LEMMA LogWriteAtomic ==
  ASSUME LogOK, NEW o \in Op, NEW b \in Block, NEW v \in Val, log_write(o, b, v)
  PROVE  Atomic!Write(o, b, v)
<1>1. /\ pc[o] = "op" /\ cache' = [cache EXCEPT ![b] = v]
      /\ UNCHANGED <<disk, logblock, header, pc, boot>>
  BY Zenon DEF log_write, disks
<1>2. boot = "done" /\ o \in Active /\ Active' = Active /\ Installed' = Installed
  BY Zenon, <1>1 DEF LogOK, OpsOK, Active, Installed
<1>3. Seen' = [Seen EXCEPT ![b] = v]
  <2>1. ASSUME NEW a \in Block PROVE bread(a)' = IF a = b THEN v ELSE bread(a)
    BY Zenon, <1>1, LogAssumption DEF bread, LogOK, TypeOK
  <2> QED BY Zenon, <1>1, <1>2, <2>1 DEF Seen
<1> QED BY Zenon, <1>2, <1>3 DEF Atomic!Write

(* An operation ends; the disk does not change. *)
LEMMA EndOpAtomic ==
  ASSUME LogOK, NEW o \in Op, end_op(o)
  PROVE  Atomic!End(o)
<1>1. pc[o] = "op" /\ UNCHANGED <<disk, logblock, header, cache, boot>> /\ pc \in [Op -> PC]
  BY DEF end_op, disks, LogOK, TypeOK
<1>2. UNCHANGED <<Seen, Installed>>
  BY Zenon, <1>1 DEF Seen, Installed, bread
<1>3. /\ pc'[o] # "op"
      /\ \A q \in Op \ {o} : pc'[q] = "op" <=> pc[q] = "op"
  BY <1>1 DEF end_op, wakeup
<1>4. o \in Active /\ Active' = Active \ {o}
  BY Zenon, <1>1, <1>3 DEF Active
<1> QED BY Zenon, <1>2, <1>4 DEF Atomic!End

(* The end of a commit shows nothing, *)
LEMMA CommittedAtomic ==
  ASSUME LogOK, NEW o \in Op, committed(o)
  PROVE  UNCHANGED <<Seen, Installed, Active>>
<1>1. pc[o] = "committed" /\ UNCHANGED <<disk, logblock, header, cache, boot>> /\ pc \in [Op -> PC]
  BY Zenon DEF committed, disks, LogOK, TypeOK
<1>2. \A q \in Op : pc'[q] = "op" <=> pc[q] = "op"
  BY Zenon, <1>1 DEF committed, wakeup
<1> QED BY Zenon, <1>1, <1>2 DEF Active, Seen, Installed, bread

(* nor does what the cache reads or recycles. *)
LEMMA CacheAtomic ==
  ASSUME LogOK, NEW b \in Block, bread_miss(b) \/ bget(b)
  PROVE  UNCHANGED <<Seen, Installed, Active>>
<1>1. UNCHANGED <<disk, logblock, header, boot, pc>>
  BY Zenon DEF bread_miss, bget, disks
<1>2. ASSUME NEW a \in Block PROVE bread(a)' = bread(a)
  BY ZenonT(30), LogAssumption DEF bread_miss, bget, disks, bread, LogOK, TypeOK, PinOK
<1> QED BY Zenon, <1>1, <1>2 DEF Active, Seen, Installed

(* After a crash the operations see what recovery makes of the disk, *)
LEMMA CrashAtomic ==
  ASSUME LogOK, Crash
  PROVE  Atomic!Crash
<1>1. Installed' = Installed /\ Seen' = Installed /\ Active' = {}
  BY DEF Crash, disks, Installed, Seen, Active
<1> QED BY Zenon, <1>1 DEF Atomic!Crash

(* and recovery makes nothing else of it. *)
LEMMA BootAtomic ==
  ASSUME LogOK, read_head \/ recover \/ recovered
  PROVE  UNCHANGED <<Seen, Installed, Active>>
<1>1. Active' = Active
  BY Zenon DEF read_head, recover, recovered, Active
<1>2. CASE read_head
  BY Zenon, <1>1, <1>2 DEF read_head, disks, Seen, Installed
<1>3. CASE recover
  <2>1. Installed' = Installed
    BY Zenon, <1>3, InstallInstalls DEF recover, LogOK, BootOK
  <2> QED BY Zenon, <1>1, <1>3, <2>1 DEF recover, Seen
<1>4. CASE recovered
  <2>1. /\ boot = "clear" /\ boot' = "done" /\ header' = <<>>
        /\ UNCHANGED <<disk, logblock, cache, pinned>> /\ pinned = {}
        /\ header \in Seq(Block) /\ Distinct(header) /\ disk \in [Block -> Val]
        /\ \A i \in 1 .. Len(header) : disk[header[i]] = logblock[i]
    BY ZenonT(30), <1>4 DEF recovered, LogOK, TypeOK, BootOK, PinOK
  <2>2. Installed = disk
    BY Zenon, <2>1, RecoveredHome DEF Installed
  <2>3. Installed' = disk
    BY Zenon, <2>1, EmptyRecovers DEF Installed
  <2>4. \A b \in Block : bread(b)' = disk[b]
    BY Zenon, <2>1, UnpinnedIsDisk DEF bread
  <2>5. Seen' = disk
    BY Zenon, <2>1, <2>4 DEF Seen
  <2>6. Seen = disk
    BY Zenon, <2>1, <2>2 DEF Seen
  <2> QED BY Zenon, <1>1, <2>2, <2>3, <2>5, <2>6
<1> QED BY Zenon, <1>2, <1>3, <1>4

(* Together: every step is a step of the atomic disk, or a stutter. *)
LEMMA StepIsAtomic ==
  ASSUME LogOK, [Next]_vars
  PROVE  [Atomic!Next]_(Atomic!vars)
<1>1. SUFFICES Atomic!Next \/ UNCHANGED <<Seen, Installed, Active>>
  BY Zenon DEF Atomic!vars
<1>2. CASE UNCHANGED vars
  BY <1>2 DEF vars, Seen, Installed, Active, bread
<1>3. ASSUME NEW o \in Op, write_head(o) PROVE Atomic!Commit
  BY Zenon, <1>3, WriteHeadCommits DEF Atomic!Commit
<1>4. CASE Next
  <2>1. ASSUME NEW o \in Op,
               begin_op(o) \/ (\E b \in Block, v \in Val : log_write(o, b, v)) \/ end_op(o)
        PROVE  Atomic!Next \/ UNCHANGED <<Seen, Installed, Active>>
    BY Zenon, <2>1, BeginOpAtomic, LogWriteAtomic, EndOpAtomic DEF Atomic!Next
  <2>2. ASSUME NEW o \in Op, commit(o)
        PROVE  Atomic!Next \/ UNCHANGED <<Seen, Installed, Active>>
    BY Zenon, <1>3, <2>2, WriteLogInstalls, InstallTransInstalls, ClearInstalls, CommittedAtomic
       DEF commit, Atomic!Next
  <2>3. CASE Crash
    BY <2>3, CrashAtomic DEF Atomic!Next
  <2> QED BY Zenon, <1>4, <2>1, <2>2, <2>3, CacheAtomic, BootAtomic DEF Next, commit
<1> QED BY <1>2, <1>4

(* The write-ahead log of log.c implements the atomic disk: through any      *)
(* interleaving of begin_op(), log_write() and end_op(), with a crash        *)
(* between any two disk writes of commit() or of recover_from_log(), every   *)
(* operation is on disk with all of its writes or with none, and stays. *)
THEOREM LogIsAtomic == Spec => AtomicCommit
<1>1. Init => LogOK BY InitIsOK
<1>2. LogOK /\ [Next]_vars => LogOK' BY StepKeepsLog
<1>3. Init => Atomic!Init
  <2>1. SUFFICES ASSUME Init PROVE Atomic!Init
    OBVIOUS
  <2>2. Installed = disk /\ Active = {}
    BY <2>1, InitIsOK, InstalledIsDisk DEF Init, Active
  <2> QED BY Zenon, <2>1, <2>2 DEF Init, Seen, Atomic!Init
<1>4. LogOK /\ [Next]_vars => [Atomic!Next]_(Atomic!vars)
  BY StepIsAtomic
<1> QED BY <1>1, <1>2, <1>3, <1>4, PTL DEF Spec, AtomicCommit, Atomic!Spec

-------------------------------------------------------------------------------
(* The elements of a finite set can be numbered. *)
LEMMA Numbering ==
  ASSUME NEW S, IsFiniteSet(S), NEW n \in Nat, Cardinality(S) <= n
  PROVE  \E f : f \in [S -> 1 .. n] /\ \A x, y \in S : f[x] = f[y] => x = y
<1>1. PICK f : f \in Bijection(S, 1 .. Cardinality(S))
  <2>1. Cardinality(S) \in Nat
    BY FS_CardinalityType
  <2>2. IsFiniteSet(1 .. Cardinality(S)) /\ Cardinality(1 .. Cardinality(S)) = Cardinality(S)
    BY <2>1, FS_Interval
  <2> QED BY Zenon, <2>2, FS_SameCardinalityBij DEF ExistsBijection
<1>2. f \in [S -> 1 .. Cardinality(S)] /\ \A x, y \in S : f[x] = f[y] => x = y
  BY <1>1 DEF Bijection, Injection, IsInjective
<1>3. Cardinality(S) \in Nat
  BY FS_CardinalityType
<1>4. f \in [S -> 1 .. n]
  BY SMTT(30), <1>2, <1>3
<1> QED BY Zenon, <1>2, <1>4

(* Pairs of an operation and a block that it wrote. *)
Pairs(w) == {x \in Op \X Block : x[2] \in w[x[1]]}

(* At most n blocks for each operation of A make at most n * |A| pairs, and *)
(* fewer when one of them has fewer than n: number the blocks of each.      *)
LEMMA PairsBound ==
  ASSUME NEW A \in SUBSET Op, NEW w \in [Op -> SUBSET Block], NEW n \in Nat,
         \A o \in Op : IsFiniteSet(w[o]) /\ Cardinality(w[o]) <= n,
         \A o \in Op \ A : w[o] = {}
  PROVE  /\ IsFiniteSet(Pairs(w)) /\ Cardinality(Pairs(w)) \in Nat
         /\ Cardinality(Pairs(w)) <= Cardinality(A) * n
         /\ \A o \in A : Cardinality(w[o]) < n => Cardinality(Pairs(w)) <= Cardinality(A) * n - 1
<1>1. /\ IsFiniteSet(A \X (1 .. n))
      /\ Cardinality(A \X (1 .. n)) = Cardinality(A) * n
      /\ Cardinality(A) \in Nat
  <2>1. IsFiniteSet(A) /\ Cardinality(A) \in Nat
    BY Zenon, LogAssumption, FS_Subset, FS_CardinalityType
  <2>2. IsFiniteSet(1 .. n) /\ Cardinality(1 .. n) = n
    BY SMTT(30), FS_Interval
  <2> QED BY Zenon, <2>1, <2>2, FS_Product
<1>2. ASSUME NEW k \in [Op -> Nat], \A o \in Op : Cardinality(w[o]) <= k[o]
      PROVE  \E f : /\ f \in [Pairs(w) -> A \X Nat]
                    /\ \A x \in Pairs(w) : f[x][1] = x[1] /\ f[x][2] \in 1 .. k[x[1]]
                    /\ \A x, y \in Pairs(w) : f[x] = f[y] => x = y
  <2> DEFINE g == [o \in Op |-> CHOOSE h : /\ h \in [w[o] -> 1 .. k[o]]
                                           /\ \A x, y \in w[o] : h[x] = h[y] => x = y]
  <2>1. ASSUME NEW o \in Op
        PROVE  g[o] \in [w[o] -> 1 .. k[o]] /\ \A x, y \in w[o] : g[o][x] = g[o][y] => x = y
    <3>1. \E h : /\ h \in [w[o] -> 1 .. k[o]]
                 /\ \A x, y \in w[o] : h[x] = h[y] => x = y
      BY Zenon, <1>2, Numbering
    <3> QED BY Zenon, <3>1
  <2> HIDE DEF g
  <2> DEFINE f == [x \in Pairs(w) |-> <<x[1], g[x[1]][x[2]]>>]
  <2>2. ASSUME NEW x \in Pairs(w)
        PROVE  x[1] \in A /\ x[2] \in w[x[1]] /\ x = <<x[1], x[2]>> /\ x[1] \in Op
    BY SMTT(30) DEF Pairs
  <2>3. ASSUME NEW x \in Pairs(w)
        PROVE  g[x[1]][x[2]] \in 1 .. k[x[1]]
    BY SMTT(30), <2>1, <2>2
  <2>4. ASSUME NEW x \in Pairs(w)
        PROVE  f[x] \in A \X Nat /\ f[x][1] = x[1] /\ f[x][2] \in 1 .. k[x[1]]
               /\ f[x][2] = g[x[1]][x[2]]
    <3>1. f[x] = <<x[1], g[x[1]][x[2]]>>
      OBVIOUS
    <3>2. g[x[1]][x[2]] \in Nat
      BY <2>2, <2>3
    <3> HIDE DEF f
    <3> QED BY SMTT(30), <2>2, <2>3, <3>1, <3>2
  <2>5. f \in [Pairs(w) -> A \X Nat]
    BY Zenon, <2>4
  <2>6. ASSUME NEW x \in Pairs(w), NEW y \in Pairs(w), f[x] = f[y]
        PROVE  x = y
    <3> HIDE DEF f
    <3>1. x[1] = y[1] /\ g[x[1]][x[2]] = g[x[1]][y[2]]
      BY SMTT(30), <2>4, <2>6
    <3>2. x[2] = y[2]
      BY SMTT(30), <2>1, <2>2, <3>1
    <3> QED BY SMTT(30), <2>2, <3>1, <3>2
  <2> HIDE DEF f
  <2> QED BY <2>4, <2>5, <2>6
<1>3. IsFiniteSet(Pairs(w)) /\ Cardinality(Pairs(w)) <= Cardinality(A) * n
  <2> DEFINE k == [o \in Op |-> n]
  <2>1. k \in [Op -> Nat] /\ \A o \in Op : Cardinality(w[o]) <= k[o] /\ k[o] = n
    OBVIOUS
  <2> HIDE DEF k
  <2>2. PICK f : /\ f \in [Pairs(w) -> A \X Nat]
                 /\ \A x \in Pairs(w) : f[x][1] = x[1] /\ f[x][2] \in 1 .. k[x[1]]
                 /\ \A x, y \in Pairs(w) : f[x] = f[y] => x = y
    BY Zenon, <1>2, <2>1
  <2>3. \A x \in Pairs(w) : f[x] \in A \X (1 .. n)
    BY <2>1, <2>2 DEF Pairs
  <2>4. f \in Injection(Pairs(w), A \X (1 .. n))
    BY Zenon, <2>2, <2>3 DEF Injection, IsInjective
  <2> QED BY SMTT(30), <1>1, <2>4, FS_Injection
<1>4. Cardinality(Pairs(w)) \in Nat
  BY Zenon, <1>3, FS_CardinalityType
<1>5. ASSUME NEW a \in A, Cardinality(w[a]) < n
      PROVE  Cardinality(Pairs(w)) <= Cardinality(A) * n - 1
  <2> DEFINE k == [o \in Op |-> IF o = a THEN n - 1 ELSE n]
  <2>0. Cardinality(w[a]) \in Nat
    BY Zenon, FS_CardinalityType
  <2>1. k \in [Op -> Nat] /\ \A o \in Op : /\ Cardinality(w[o]) <= k[o]
                                           /\ k[o] = IF o = a THEN n - 1 ELSE n
    BY <1>5, <2>0
  <2> HIDE DEF k
  <2>2. PICK f : /\ f \in [Pairs(w) -> A \X Nat]
                 /\ \A x \in Pairs(w) : f[x][1] = x[1] /\ f[x][2] \in 1 .. k[x[1]]
                 /\ \A x, y \in Pairs(w) : f[x] = f[y] => x = y
    BY Zenon, <1>2, <2>1
  <2>3. <<a, n>> \in A \X (1 .. n)
    BY SMTT(30), <1>5, <2>0
  <2>4. ASSUME NEW x \in Pairs(w) PROVE f[x] \in (A \X (1 .. n)) \ {<<a, n>>}
    <3>1. x[1] \in Op /\ f[x] \in A \X Nat /\ f[x][1] = x[1] /\ f[x][2] \in 1 .. k[x[1]]
      BY Zenon, <2>2 DEF Pairs
    <3>2. f[x][2] \in 1 .. n /\ (f[x][1] = a => f[x][2] # n)
      BY <2>1, <3>1
    <3> QED BY <3>1, <3>2
  <2>5. f \in Injection(Pairs(w), (A \X (1 .. n)) \ {<<a, n>>})
    BY Zenon, <2>2, <2>4 DEF Injection, IsInjective
  <2>6. /\ IsFiniteSet((A \X (1 .. n)) \ {<<a, n>>})
        /\ Cardinality((A \X (1 .. n)) \ {<<a, n>>}) = Cardinality(A) * n - 1
    <3> DEFINE P == A \X (1 .. n)
               t == <<a, n>>
    <3>1. IsFiniteSet(P) /\ Cardinality(P) = Cardinality(A) * n /\ t \in P
      BY Zenon, <1>1, <2>3
    <3>2. IsFiniteSet(P \ {t}) /\ Cardinality(P \ {t}) = Cardinality(P) - 1
      <4> HIDE DEF P, t
      <4> QED BY Zenon, <3>1, FS_RemoveElement
    <3> QED BY Zenon, <3>1, <3>2
  <2> QED BY <2>5, <2>6, FS_Injection
<1> QED BY <1>3, <1>4, <1>5

(* The blocks written so far by the operations in progress, when one of    *)
(* them may write another.                                                 *)
LEMMA WrittenBound ==
  ASSUME TypeOK, Reserved
  PROVE  /\ IsFiniteSet(Written) /\ Cardinality(Written) \in Nat
         /\ \A o \in Active : Cardinality(wrote[o]) < OpWrites =>
              Cardinality(Written) <= Cardinality(Active) * OpWrites - 1
<1>1. Written = Pairs(wrote)
  BY Zenon DEF Written, Pairs
<1>2. /\ Active \in SUBSET Op /\ wrote \in [Op -> SUBSET Block] /\ OpWrites \in Nat
      /\ \A o \in Op : IsFiniteSet(wrote[o]) /\ Cardinality(wrote[o]) <= OpWrites
      /\ \A o \in Op \ Active : wrote[o] = {}
  BY LogAssumption DEF Active, TypeOK, Reserved
<1> QED BY Zenon, <1>1, <1>2, PairsBound

(* With room for every operation in progress and the block that one of them *)
(* may still write, the log is not full. *)
LEMMA ReservedIsEnough ==
  ASSUME LogOK, Reserved
  PROVE  NoLogPanic
<1>1. ASSUME NEW o \in Op, pc[o] = "op", Cardinality(wrote[o]) < OpWrites
      PROVE  ~too_big
  <2>1. o \in Active /\ IsFiniteSet(Active)
    BY Zenon, <1>1, ActiveFinite DEF Active
  <2>2. outstanding \in Nat /\ outstanding = Cardinality(Active) /\ outstanding # 0 /\ Len(lh) \in Nat
    BY SMTT(30), <2>1, FS_EmptySet DEF LogOK, TypeOK, OpsOK
  <2>3. Cardinality(Written) \in Nat /\ Cardinality(Written) <= outstanding * OpWrites - 1
    BY Zenon, <1>1, <2>1, <2>2, WrittenBound DEF LogOK
  <2>4. Len(lh) + outstanding * MAXOPBLOCKS <= LOGSIZE + Cardinality(Written)
    BY Zenon DEF Reserved
  <2>5. outstanding * MAXOPBLOCKS >= outstanding * OpWrites + outstanding
    <3>1. \A k, m, n \in Nat : m < n => k * n >= k * m + k
      <4> SUFFICES ASSUME NEW k \in Nat, NEW m \in Nat, NEW n \in Nat, m < n PROVE k * n >= k * m + k
        OBVIOUS
      <4>1. n - m - 1 \in Nat /\ k * (n - m - 1) \in Nat
        OBVIOUS
      <4>2. k * (n - m - 1) = k * n - k * m - k
        BY SMTT(30)
      <4> QED BY SMTT(30), <4>1, <4>2
    <3> QED BY Zenon, <2>2, <3>1, LogAssumption, SizeAssumption
  <2>6. outstanding * MAXOPBLOCKS \in Nat /\ outstanding * OpWrites \in Nat
    BY <2>2, LogAssumption
  <2>7. Len(lh) + 2 <= LOGSIZE
    <3>1. \A l, s, c, k, x, y \in Nat :
            l + x <= s + c /\ c <= y - 1 /\ x >= y + k /\ k # 0 => l + 2 <= s
      OBVIOUS
    <3> QED BY Zenon, <2>2, <2>3, <2>4, <2>5, <2>6, <3>1, LogAssumption
  <2> QED BY SMTT(30), <2>2, <2>7, LogAssumption, SizeAssumption DEF too_big
<1>2. ASSUME NEW o \in Op, pc[o] = "op" PROVE ~committing
  BY Zenon, <1>2 DEF LogOK, OpsOK, Active
<1> QED BY Zenon, <1>1, <1>2 DEF NoLogPanic

(* When no operation is in progress, nothing is reserved. *)
LEMMA ReservedIdle ==
  ASSUME LogOK, Reserved, Active = {}
  PROVE  /\ outstanding = 0 /\ Written = {} /\ \A o \in Op : wrote[o] = {}
         /\ Len(lh) <= LOGSIZE
<1>1. outstanding = 0 /\ \A o \in Op : wrote[o] = {}
  BY Zenon, FS_EmptySet DEF LogOK, OpsOK, Reserved, Active
<1>2. Written = {}
  BY Zenon, <1>1 DEF Written
<1>3. Cardinality(Written) = 0 /\ outstanding * MAXOPBLOCKS = 0
  BY Zenon, <1>1, <1>2, FS_EmptySet, Reservation
<1>4. /\ Len(lh) + outstanding * MAXOPBLOCKS <= LOGSIZE + Cardinality(Written)
      /\ lh \in Seq(Block)
  BY Zenon DEF Reserved, LogOK, TypeOK
<1>5. Len(lh) <= LOGSIZE
  BY SMTT(30), <1>3, <1>4, LogAssumption
<1> QED BY Zenon, <1>1, <1>2, <1>5

(* Such a state is made by a commit, a crash or a boot, *)
LEMMA ReservedReset ==
  ASSUME outstanding' = 0, \A o \in Op : wrote'[o] = {}, lh' \in Seq(Block),
         Len(lh') <= LOGSIZE, Len(header') <= LOGSIZE
  PROVE  Reserved'
<1>1. Written' = {}
  BY Zenon DEF Written
<1>2. Cardinality(Written') = 0 /\ outstanding' * MAXOPBLOCKS = 0
  BY <1>1, FS_EmptySet, LogAssumption
<1>3. \A o \in Op : IsFiniteSet(wrote'[o]) /\ Cardinality(wrote'[o]) <= OpWrites
  <2>1. IsFiniteSet({}) /\ Cardinality({}) = 0 /\ 0 <= OpWrites
    BY SMTT(30), FS_EmptySet, LogAssumption
  <2> QED BY Zenon, <2>1
<1>4. Len(lh') + outstanding' * MAXOPBLOCKS <= LOGSIZE + Cardinality(Written')
  BY <1>2, LogAssumption
<1> QED BY Zenon, <1>3, <1>4 DEF Reserved

(* and steps that write nothing keep the reservation. *)
LEMMA ReservedSame ==
  ASSUME Reserved, UNCHANGED <<lh, header, outstanding, wrote>>,
         \A o \in Op : pc[o] = "op" => pc'[o] = "op"
  PROVE  Reserved'
<1>1. Written' = Written
  BY DEF Written
<1> QED BY Zenon, <1>1 DEF Reserved

(* begin_op() lets an operation in only if its reservation fits, *)
LEMMA BeginOpReserves ==
  ASSUME LogOK, Reserved, NEW o \in Op, begin_op(o)
  PROVE  Reserved'
<1>1. /\ pc[o] \in {"idle", "begin"} /\ UNCHANGED <<lh, header, wrote>>
      /\ wrote[o] = {} /\ outstanding \in Nat /\ Len(lh) \in Nat
      /\ \A q \in Op : pc[q] = "op" => pc'[q] = "op"
  BY DEF begin_op, disks, Reserved, LogOK, TypeOK
<1>2. CASE UNCHANGED outstanding
  BY Zenon, <1>1, <1>2, ReservedSame
<1>3. CASE ~must_wait /\ outstanding' = outstanding + 1
  <2>1. Len(lh) + outstanding' * MAXOPBLOCKS <= LOGSIZE
    BY <1>1, <1>3, LogAssumption DEF must_wait, log_full
  <2>2. Written' = Written /\ Cardinality(Written) \in Nat
    BY ZenonT(30), <1>1, WrittenBound DEF Written, LogOK
  <2>3. Len(lh') + outstanding' * MAXOPBLOCKS <= LOGSIZE + Cardinality(Written')
    <3>1. outstanding' * MAXOPBLOCKS \in Nat
      BY <1>1, <1>3, LogAssumption
    <3> QED BY SMTT(30), <1>1, <2>1, <2>2, <3>1, LogAssumption
  <2> QED BY Zenon, <1>1, <2>3 DEF Reserved
<1> QED BY ZenonT(30), <1>2, <1>3 DEF begin_op

(* log_write() takes a new block from the reservation, *)
LEMMA LogWriteReserves ==
  ASSUME LogOK, Reserved, NEW o \in Op, NEW b \in Block, NEW v \in Val, log_write(o, b, v)
  PROVE  Reserved'
<1>1. /\ pc[o] = "op" /\ UNCHANGED <<header, outstanding, pc>>
      /\ wrote' = [wrote EXCEPT ![o] = @ \cup {b}] /\ wrote \in [Op -> SUBSET Block]
      /\ Cardinality(wrote[o] \cup {b}) <= OpWrites
      /\ lh \in Seq(Block) /\ outstanding \in Nat
  BY Zenon DEF log_write, disks, LogOK, TypeOK
<1>2. Written' = Written \cup {<<o, b>>} /\ (<<o, b>> \in Written <=> b \in wrote[o])
  BY <1>1 DEF Written
<1>3. IsFiniteSet(Written) /\ Cardinality(Written) \in Nat
  BY Zenon, WrittenBound DEF LogOK
<1>4. Cardinality(Written') = IF b \in wrote[o] THEN Cardinality(Written) ELSE Cardinality(Written) + 1
  BY Zenon, <1>2, <1>3, FS_AddElement
<1>5. outstanding * MAXOPBLOCKS \in Nat /\ LOGSIZE \in Nat /\ Len(lh) \in Nat
  BY SMTT(30), <1>1, LogAssumption
<1>6. \A q \in Op : IsFiniteSet(wrote'[q]) /\ Cardinality(wrote'[q]) <= OpWrites
  <2>1. IsFiniteSet(wrote[o] \cup {b})
    BY Zenon, FS_AddElement DEF Reserved
  <2> QED BY <1>1, <2>1 DEF Reserved
<1>7. /\ Len(lh') <= Len(lh) + (Cardinality(Written') - Cardinality(Written))
      /\ Len(lh') \in Nat
      /\ \A q \in Op : \A a \in wrote'[q] : \E i \in 1 .. Len(lh') : lh'[i] = a
  <2>1. CASE \E i \in 1 .. Len(lh) : lh[i] = b
    <3>1. lh' = lh
      BY Zenon, <2>1 DEF log_write
    <3>2. Cardinality(Written') >= Cardinality(Written)
      BY <1>3, <1>4
    <3>3. \A q \in Op : \A a \in wrote'[q] : a \in wrote[q] \/ a = b
      BY Zenon, <1>1
    <3>4. \A q \in Op : \A a \in wrote'[q] : \E i \in 1 .. Len(lh) : lh[i] = a
      BY Zenon, <2>1, <3>3 DEF Reserved
    <3>5. Cardinality(Written') \in Nat
      BY <1>3, <1>4
    <3>6. Len(lh) <= Len(lh) + (Cardinality(Written') - Cardinality(Written))
      BY SMTT(30), <1>3, <1>5, <3>2, <3>5
    <3> QED BY Zenon, <1>5, <3>1, <3>4, <3>6
  <2>2. CASE ~\E i \in 1 .. Len(lh) : lh[i] = b
    <3>1. lh' = Append(lh, b)
      BY Zenon, <2>2 DEF log_write
    <3>2. /\ Len(lh') = Len(lh) + 1
          /\ \A i \in 1 .. Len(lh) : lh'[i] = lh[i]
          /\ lh'[Len(lh) + 1] = b
      BY Zenon, <1>1, <3>1, LongerLog
    <3>3. b \notin wrote[o]
      BY Zenon, <2>2 DEF Reserved
    <3>4. ASSUME NEW q \in Op, NEW a \in wrote'[q] PROVE \E i \in 1 .. Len(lh') : lh'[i] = a
      <4>1. a \in wrote[q] \/ a = b
        BY Zenon, <1>1
      <4>2. CASE a = b
        BY SMTT(30), <1>5, <3>2, <4>2
      <4>3. CASE a \in wrote[q]
        <5>1. PICK i \in 1 .. Len(lh) : lh[i] = a
          BY Zenon, <4>3 DEF Reserved
        <5> QED BY <1>5, <3>2, <5>1
      <4> QED BY Zenon, <4>1, <4>2, <4>3
    <3> QED BY SMTT(30), <1>3, <1>4, <1>5, <3>2, <3>3, <3>4
  <2> QED BY Zenon, <2>1, <2>2
<1>8. Len(lh') + outstanding' * MAXOPBLOCKS <= LOGSIZE + Cardinality(Written')
  <2>1. Len(lh) + outstanding * MAXOPBLOCKS <= LOGSIZE + Cardinality(Written)
    BY Zenon DEF Reserved
  <2>2. Cardinality(Written') \in Nat
    BY <1>3, <1>4
  <2> QED BY SMTT(30), <1>1, <1>3, <1>5, <1>7, <2>1, <2>2
<1>9. \A q \in Op : pc'[q] # "op" => wrote'[q] = {}
  BY Zenon, <1>1 DEF Reserved
<1> QED BY Zenon, <1>1, <1>6, <1>7, <1>8, <1>9 DEF Reserved

(* and end_op() gives back what is left of it. *)
LEMMA EndOpReserves ==
  ASSUME LogOK, Reserved, NEW o \in Op, end_op(o)
  PROVE  Reserved'
<1>1. /\ pc[o] = "op" /\ UNCHANGED <<lh, header>> /\ outstanding' = outstanding - 1
      /\ wrote' = [wrote EXCEPT ![o] = {}] /\ wrote \in [Op -> SUBSET Block]
      /\ Len(lh) \in Nat /\ outstanding \in Nat /\ pc \in [Op -> PC]
  BY DEF end_op, disks, LogOK, TypeOK
<1>2. \A q \in Op \ {o} : pc[q] = "op" => pc'[q] = "op"
  BY Zenon, <1>1 DEF end_op, wakeup
<1>3. outstanding >= 1
  BY SMTT(30), <1>1, ActiveFinite, FS_EmptySet DEF LogOK, OpsOK, Active
<1>4. IsFiniteSet(Written) /\ Cardinality(Written) \in Nat
  BY Zenon, WrittenBound DEF LogOK
<1> DEFINE own == [q \in Op |-> IF q = o THEN wrote[o] ELSE {}]
<1>5. Written' = Written \ Pairs(own) /\ Pairs(own) \subseteq Written
  BY Zenon, <1>1 DEF Written, Pairs
<1>6. Cardinality(Pairs(own)) \in Nat /\ Cardinality(Pairs(own)) <= OpWrites
  <2>1. /\ own \in [Op -> SUBSET Block] /\ {o} \in SUBSET Op
        /\ \A q \in Op \ {o} : own[q] = {}
    BY ZenonT(30), <1>1
  <2>2. \A q \in Op : IsFiniteSet(own[q]) /\ Cardinality(own[q]) <= OpWrites
    BY FS_EmptySet, LogAssumption DEF Reserved
  <2> HIDE DEF own
  <2>3. Cardinality({o}) = 1
    BY Zenon, FS_Singleton
  <2>4. Cardinality(Pairs(own)) \in Nat /\ Cardinality(Pairs(own)) <= Cardinality({o}) * OpWrites
    BY Zenon, <2>1, <2>2, LogAssumption, PairsBound
  <2> QED BY <2>3, <2>4, LogAssumption
<1> HIDE DEF own
<1>7. Cardinality(Written') = Cardinality(Written) - Cardinality(Pairs(own))
  <2>1. Written \cap Pairs(own) = Pairs(own)
    BY <1>5
  <2>2. Cardinality(Written \ Pairs(own)) = Cardinality(Written) - Cardinality(Written \cap Pairs(own))
    BY Zenon, <1>4, FS_Difference
  <2> QED BY <1>5, <2>1, <2>2
<1>8. Len(lh') + outstanding' * MAXOPBLOCKS <= LOGSIZE + Cardinality(Written')
  <2>1. Len(lh) + outstanding * MAXOPBLOCKS <= LOGSIZE + Cardinality(Written)
    BY Zenon DEF Reserved
  <2>2. (outstanding - 1) * MAXOPBLOCKS = outstanding * MAXOPBLOCKS - MAXOPBLOCKS
    BY Zenon, <1>1, Reservation
  <2>3. outstanding * MAXOPBLOCKS \in Nat
    BY Zenon, <1>1, Reservation
  <2>4. UNCHANGED lh /\ outstanding' = outstanding - 1 /\ Len(lh) \in Nat
    BY Zenon, <1>1
  <2>5. LOGSIZE \in Nat /\ MAXOPBLOCKS \in Nat /\ Cardinality(Pairs(own)) <= MAXOPBLOCKS
    BY <1>6, LogAssumption, SizeAssumption
  <2>6. Len(lh) + (outstanding * MAXOPBLOCKS - MAXOPBLOCKS)
          <= LOGSIZE + (Cardinality(Written) - Cardinality(Pairs(own)))
    BY ZenonT(30), <1>4, <1>6, <2>1, <2>3, <2>4, <2>5, LessReserved
  <2> QED BY Zenon, <1>7, <2>2, <2>4, <2>6
<1>9. \A q \in Op : /\ pc'[q] # "op" => wrote'[q] = {}
                    /\ wrote'[q] \subseteq wrote[q]
                    /\ IsFiniteSet(wrote'[q]) /\ Cardinality(wrote'[q]) <= OpWrites
  BY SMTT(30), <1>1, <1>2, FS_EmptySet, LogAssumption DEF Reserved
<1> QED BY Zenon, <1>1, <1>8, <1>9 DEF Reserved

(* Every step keeps the reservation. *)
LEMMA StepReserves ==
  ASSUME LogOK, Reserved, [Next]_vars
  PROVE  Reserved'
<1>1. CASE UNCHANGED vars
  BY Zenon, <1>1, ReservedSame DEF vars
<1>2. ASSUME NEW o \in Op, write_log(o) \/ install_trans(o) \/ committed(o)
      PROVE  Reserved'
  <2>1. UNCHANGED <<lh, header, outstanding, wrote>> /\ \A q \in Op : pc[q] = "op" => pc'[q] = "op"
    BY Zenon, <1>2 DEF write_log, install_trans, install, committed, wakeup, disks, LogOK, TypeOK
  <2> QED BY Zenon, <2>1, ReservedSame
<1>3. ASSUME NEW o \in Op, write_head(o) \/ clear(o)
      PROVE  Reserved'
  <2>1. Active = {}
    BY Zenon, <1>3 DEF write_head, clear, LogOK, OpsOK, Committer, CommitPC
  <2>2. outstanding = 0 /\ (\A q \in Op : wrote[q] = {}) /\ Len(lh) <= LOGSIZE
    BY Zenon, <2>1, ReservedIdle
  <2>3. UNCHANGED <<outstanding, wrote>> /\ lh' \in {lh, <<>>} /\ header' \in {lh, <<>>}
    BY Zenon, <1>3 DEF write_head, clear
  <2>4. lh' \in Seq(Block) /\ Len(lh') <= LOGSIZE /\ Len(header') <= LOGSIZE
    <3>1. <<>> \in Seq(Block) /\ Len(<<>>) = 0 /\ 0 <= LOGSIZE
      BY Zenon, EmptyLog
    <3>2. lh \in Seq(Block) /\ header \in Seq(Block)
      BY DEF LogOK, TypeOK
    <3> QED BY Zenon, <2>2, <2>3, <3>1, <3>2
  <2> QED BY Zenon, <2>2, <2>3, <2>4, ReservedReset
<1>4. ASSUME NEW b \in Block, bread_miss(b) \/ bget(b) PROVE Reserved'
  BY Zenon, <1>4, ReservedSame DEF bread_miss, bget, disks
<1>5. CASE Crash
  <2>1. /\ outstanding' = 0 /\ (\A o \in Op : wrote'[o] = {}) /\ lh' = <<>> /\ header' = header
    BY Zenon, <1>5 DEF Crash, disks
  <2>2. lh' \in Seq(Block) /\ Len(lh') <= LOGSIZE
    BY Zenon, <2>1, EmptyLog
  <2>3. Len(header') <= LOGSIZE
    BY Zenon, <2>1 DEF Reserved
  <2> QED BY Zenon, <2>1, <2>2, <2>3, ReservedReset
<1>6. CASE recover
  BY Zenon, <1>6, ReservedSame DEF recover, install
<1>7. CASE read_head \/ recovered
  <2>1. Active = {}
    BY Zenon, <1>7 DEF read_head, recovered, LogOK, OpsOK, Active
  <2>2. outstanding = 0 /\ (\A q \in Op : wrote[q] = {}) /\ Len(header) <= LOGSIZE
    BY Zenon, <2>1, ReservedIdle DEF Reserved
  <2>3. UNCHANGED <<outstanding, wrote>> /\ lh' \in {header, <<>>} /\ header' \in {header, <<>>}
    BY Zenon, <1>7 DEF read_head, recovered, disks
  <2>4. lh' \in Seq(Block) /\ Len(lh') <= LOGSIZE /\ Len(header') <= LOGSIZE
    <3>1. <<>> \in Seq(Block) /\ Len(<<>>) = 0 /\ 0 <= LOGSIZE
      BY Zenon, EmptyLog
    <3>2. lh \in Seq(Block) /\ header \in Seq(Block)
      BY Zenon DEF LogOK, TypeOK
    <3> QED BY Zenon, <2>2, <2>3, <3>1, <3>2
  <2> QED BY Zenon, <2>2, <2>3, <2>4, ReservedReset
<1>8. CASE Next
  BY Zenon, <1>8, <1>2, <1>3, <1>4, <1>5, <1>6, <1>7, BeginOpReserves, LogWriteReserves, EndOpReserves DEF Next
<1> QED BY Zenon, <1>1, <1>8

(* At boot nothing is reserved. *)
LEMMA InitReserves == Init => Reserved
<1> SUFFICES ASSUME Init PROVE Reserved
  OBVIOUS
<1>1. lh = <<>> /\ header = <<>> /\ outstanding = 0 /\ \A o \in Op : wrote[o] = {}
  BY DEF Init
<1>2. Written = {}
  BY Zenon, <1>1 DEF Written
<1>3. Cardinality(Written) = 0 /\ outstanding * MAXOPBLOCKS = 0
  BY SMTT(30), <1>1, <1>2, FS_EmptySet, LogAssumption
<1>4. IsFiniteSet({}) /\ Cardinality({}) = 0 /\ 0 <= OpWrites /\ 0 <= LOGSIZE
  BY SMTT(30), FS_EmptySet, LogAssumption
<1>5. Len(lh) + outstanding * MAXOPBLOCKS <= LOGSIZE + Cardinality(Written) /\ Len(header) <= LOGSIZE
  BY <1>1, <1>3, LogAssumption
<1> QED BY Zenon, <1>1, <1>4, <1>5 DEF Reserved

(* The reservation of begin_op() is enough, whatever the operations write    *)
(* and absorb and however many run at once: log_write() never meets a full   *)
(* log, and end_op() never finds another process committing. *)
THEOREM LogNeverPanics == Spec => []NoLogPanic
<1>1. Init => LogOK /\ Reserved BY InitIsOK, InitReserves
<1>2. LogOK /\ Reserved /\ [Next]_vars => (LogOK /\ Reserved)' BY StepKeepsLog, StepReserves
<1>3. LogOK /\ Reserved => NoLogPanic BY ReservedIsEnough
<1> QED BY <1>1, <1>2, <1>3, PTL DEF Spec
===============================================================================
