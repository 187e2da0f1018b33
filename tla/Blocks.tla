-------------------------------- MODULE Blocks --------------------------------
(***************************************************************************)
(* The blocks of files: balloc(), bmap(), itrunc(), readi() and writei()   *)
(* of kernel/fs.c, the offsets and transactions of fileread() and          *)
(* filewrite() of kernel/file.c, on the image that mkfs/mkfs.c made.       *)
(*                                                                         *)
(* A block has BSIZE cells, each a byte of data or, in an indirect block,  *)
(* the number of a block, so that NINDIRECT is BSIZE.  cache is what       *)
(* bread() shows and disk what log_write() has seen: a copyin() that fails *)
(* half-way leaves a buffer that differs from the disk until it is evicted *)
(* or written for another reason.  Every function of the kernel is an      *)
(* operator from the state s in which it is called to the state it leaves; *)
(* s.r is the value returned, s.wrote the blocks given to log_write().     *)
(***************************************************************************)
EXTENDS Integers, Sequences, FiniteSets, FiniteSetsExt

CONSTANTS NBLOCKS,       \* data blocks 1 .. NBLOCKS, behind one bitmap block
          BSIZE, NDIRECT, MAXOPBLOCKS,
          File, Fd,      \* a descriptor is a number, which is also what it writes
          Lengths,       \* the lengths of writes and reads
          BadAt,         \* where the user's memory may end in a write
          ImageSizes,    \* the lengths of the file that mkfs made
          MaxCalls       \* bound: system calls in a behaviour

VARIABLES cache, disk, used,  \* the cells of the blocks; the bitmap
          addrs, size,   \* of the inodes; addrs[f][NDIRECT] is the indirect block
          file, off,     \* of the descriptors
          call,          \* the rest of a filewrite(): [n, bad], n = 0 if none
          want,          \* for each byte of a file the values it may have
          panicked, most, \* most: blocks logged by the largest transaction
          calls          \* system calls made
vars == <<cache, disk, used, addrs, size, file, off, call, want, panicked, most, calls>>

NINDIRECT == BSIZE
MAXFILE == NDIRECT + NINDIRECT
BITMAP == 0               \* stand for the block of the bitmap
INODE == NBLOCKS + 1      \* and of the inode
Zeroes == [i \in 0 .. BSIZE - 1 |-> 0]
min(a, b) == IF a < b THEN a ELSE b

Now(f) == [cache |-> cache, disk |-> disk, used |-> used, addrs |-> addrs[f], size |-> size[f],
           wrote |-> {}, bad |-> FALSE, r |-> 0]

log_write(s, b) == [s EXCEPT !.disk[b] = s.cache[b], !.wrote = @ \cup {b}]

(* balloc() with its bzero(); 0 if the disk is full. *)
balloc(s) ==
  LET b == Min(1 .. NBLOCKS \ s.used)
  IN  IF s.used = 1 .. NBLOCKS THEN [s EXCEPT !.r = 0]
      ELSE [s EXCEPT !.used = @ \cup {b}, !.r = b, !.wrote = @ \cup {BITMAP, b},
                     !.cache[b] = Zeroes, !.disk[b] = Zeroes]

bfree(s, B) ==
  [s EXCEPT !.used = @ \ B, !.bad = @ \/ ~(B \subseteq s.used), !.wrote = @ \cup IF B = {} THEN {} ELSE {BITMAP}]

(* Entry k of ip->addrs[], allocated if it is 0. *)
direct(s, k) ==
  LET a == balloc(s)
  IN  IF s.addrs[k] # 0 THEN [s EXCEPT !.r = s.addrs[k]]
      ELSE IF a.r = 0 THEN a ELSE [a EXCEPT !.addrs[k] = a.r]

(* Entry k of the indirect block b. *)
indirect(s, b, k) ==
  LET a == balloc(s)
  IN  IF s.cache[b][k] # 0 THEN [s EXCEPT !.r = s.cache[b][k]]
      ELSE IF a.r = 0 THEN a ELSE [log_write([a EXCEPT !.cache[b][k] = a.r], b) EXCEPT !.r = a.r]

bmap(s, bn) ==
  IF bn < NDIRECT THEN direct(s, bn)
  ELSE IF bn >= MAXFILE THEN [s EXCEPT !.bad = TRUE]
  ELSE LET d == direct(s, NDIRECT) IN IF d.r = 0 THEN d ELSE indirect(d, d.r, bn - NDIRECT)

(* itrunc().  (Mutant: the indirect block's own number is forgotten.) *)
itrunc_blocks_few(s) ==
  LET ind == s.addrs[NDIRECT]
  IN  {s.addrs[k] : k \in 0 .. NDIRECT - 1} \cup IF ind = 0 THEN {} ELSE {s.cache[ind][k] : k \in 0 .. NINDIRECT - 1}
itrunc_blocks(s) ==
  LET ind == s.addrs[NDIRECT]
  IN  {s.addrs[k] : k \in 0 .. NDIRECT} \cup IF ind = 0 THEN {} ELSE {s.cache[ind][k] : k \in 0 .. NINDIRECT - 1}
itrunc(s) ==
  [bfree(s, itrunc_blocks(s) \ {0}) EXCEPT
     !.addrs = [k \in 0 .. NDIRECT |-> 0], !.size = 0, !.wrote = @ \cup {INODE}]

(* The loop of readi(): r becomes the bytes read. *)
RECURSIVE readi_loop(_, _, _, _)
readi_loop(s, at, n, bytes) ==
  LET a == bmap(s, at \div BSIZE)  m == min(n, BSIZE - (at % BSIZE))
  IN  IF n = 0 \/ a.r = 0 THEN [(IF n = 0 THEN s ELSE a) EXCEPT !.r = bytes]
      ELSE readi_loop(a, at + m, n - m, bytes \o [i \in 1 .. m |-> a.cache[a.r][(at % BSIZE) + i - 1]])
readi(s, at, n) ==
  IF at > s.size THEN [s EXCEPT !.r = <<>>]
  ELSE readi_loop(s, at, min(n, s.size - at), <<>>)

(* The loop of writei(): of the n bytes v to be written at offset at, tot  *)
(* are; the user's memory ends before byte bad.                            *)
RECURSIVE writei_loop(_, _, _, _, _, _)
writei_loop(s, at, n, v, bad, tot) ==
  LET a == bmap(s, at \div BSIZE)  m == min(n, BSIZE - (at % BSIZE))
      put(k) == [a EXCEPT !.cache[a.r] = [i \in DOMAIN @ |-> IF i \in at % BSIZE .. (at % BSIZE) + k - 1 THEN v ELSE @[i]]]
  IN  IF n = 0 \/ a.r = 0 THEN [(IF n = 0 THEN s ELSE a) EXCEPT !.r = tot]
      ELSE IF bad < m THEN [put(bad) EXCEPT !.r = tot]
      ELSE writei_loop(log_write(put(m), a.r), at + m, n - m, v, bad - m, tot + m)

(* The end of writei(): the new size, and iupdate() in any case.  (Mutant: *)
(* the size grows by what was asked for.)                                  *)
grow_all(s, at, n) == [s EXCEPT !.size = IF at + n > @ THEN at + n ELSE @, !.wrote = @ \cup {INODE}]
grow(s, at, n) == [s EXCEPT !.size = IF at + s.r > @ THEN at + s.r ELSE @, !.wrote = @ \cup {INODE}]
writei(s, at, n, v, bad) ==
  IF at > s.size \/ at + n > MAXFILE * BSIZE THEN [s EXCEPT !.r = -1]
  ELSE LET w == writei_loop(s, at, n, v, bad, 0) IN grow(w, at, n)

(* filewrite()'s max: the bytes of a transaction. *)
max_blocks == ((MAXOPBLOCKS - 1 - 1 - 2) \div 2) * BSIZE
-------------------------------------------------------------------------------
(* mkfs's iappend() of n bytes v to an empty file: blocks are   *)
(* taken from freeblock on, the indirect block before what it points to.   *)
iappend(freeblock, n, v) ==
  LET blocks == (n + BSIZE - 1) \div BSIZE
      at(fbn) == freeblock + IF fbn < NDIRECT THEN fbn ELSE fbn + 1
      ind == freeblock + NDIRECT
  IN  [addrs |-> [k \in 0 .. NDIRECT |-> IF k < blocks THEN freeblock + k ELSE 0],
       cells |-> [b \in freeblock .. freeblock + blocks |-> [i \in 0 .. BSIZE - 1 |->
                    IF b = ind THEN (IF NDIRECT + i < blocks THEN at(NDIRECT + i) ELSE 0)
                    ELSE LET fbn == IF b < ind THEN b - freeblock ELSE b - freeblock - 1
                         IN  IF fbn * BSIZE + i < n THEN v ELSE 0]],
       next |-> freeblock + blocks + IF blocks > NDIRECT THEN 1 ELSE 0]

(* mkfs's balloc(): the bitmap. *)
mkfs_balloc(freeblock) == 1 .. freeblock - 1

(* mkfs: one file of n bytes, the others empty.  Then every descriptor is  *)
(* open on some file.                                                      *)
Init ==
  \E n \in ImageSizes :
    LET a == iappend(1, n, 1)  f1 == CHOOSE f \in File : TRUE
    IN  /\ used = mkfs_balloc(a.next)
        /\ used \subseteq 1 .. NBLOCKS
        /\ disk = [b \in 1 .. NBLOCKS |-> IF b \in used THEN a.cells[b] ELSE Zeroes] /\ cache = disk
        /\ addrs = [f \in File |-> IF f = f1 THEN a.addrs ELSE [k \in 0 .. NDIRECT |-> 0]]
        /\ size = [f \in File |-> IF f = f1 THEN n ELSE 0]
        /\ want = [f \in File |-> IF f = f1 THEN [i \in 1 .. n |-> {1}] ELSE <<>>]
        /\ file \in [Fd -> File] /\ off = [d \in Fd |-> 0]
        /\ call = [d \in Fd |-> [n |-> 0, bad |-> 0]]
        /\ panicked = FALSE /\ most = 0 /\ calls = 0

Idle(d) == call[d].n = 0 /\ calls < MaxCalls /\ calls' = calls + 1

commit(s, f) ==
  /\ cache' = s.cache /\ disk' = s.disk /\ used' = s.used
  /\ addrs' = [addrs EXCEPT ![f] = s.addrs] /\ size' = [size EXCEPT ![f] = s.size]
  /\ panicked' = (panicked \/ s.bad) /\ most' = Max({most, Cardinality(s.wrote)})

(* open(), with O_TRUNC or without. *)
open(d, f, trunc) ==
  /\ Idle(d) /\ file' = [file EXCEPT ![d] = f] /\ off' = [off EXCEPT ![d] = 0]
  /\ IF trunc THEN commit(itrunc(Now(f)), f) /\ want' = [want EXCEPT ![f] = <<>>]
     ELSE UNCHANGED <<cache, disk, used, addrs, size, want, panicked, most>>
  /\ UNCHANGED call

(* fileread() is in no transaction: a log_write() would panic. *)
fileread(d, n) ==
  /\ Idle(d)
  /\ \E s \in {readi(Now(file[d]), off[d], n)} :
       /\ off' = [off EXCEPT ![d] = @ + Len(s.r)]
       /\ panicked' = (panicked \/ s.bad \/ s.wrote # {})
  /\ UNCHANGED <<cache, disk, used, addrs, size, file, call, want, most>>

sys_write(d, n, bad) ==
  /\ bad <= n /\ Idle(d) /\ call' = [call EXCEPT ![d] = [n |-> n, bad |-> bad]]
  /\ UNCHANGED <<cache, disk, used, addrs, size, file, off, want, panicked, most>>

(* What a file holds after r of the n bytes v at offset at, and perhaps    *)
(* some more of them within its old size.                                  *)
written(w, at, n, v, r) ==
  [i \in 1 .. Max({Len(w), at + r}) |->
     IF i \in at + 1 .. at + r THEN {v} ELSE IF i \in at + r + 1 .. at + n THEN w[i] \cup {v} ELSE w[i]]

(* One turn of filewrite()'s loop, a transaction of its own. *)
filewrite(d) ==
  LET f == file[d]  n1 == min(call[d].n, max_blocks)
  IN  /\ call[d].n > 0
      /\ \E s \in {writei(Now(f), off[d], n1, d, call[d].bad)} :
           /\ commit(s, f)
           /\ off' = [off EXCEPT ![d] = IF s.r > 0 THEN @ + s.r ELSE @]
           /\ want' = [want EXCEPT ![f] = IF s.r < 0 THEN @ ELSE written(@, off[d], n1, d, s.r)]
           /\ call' = [call EXCEPT ![d] = IF s.r = n1 THEN [n |-> @.n - s.r, bad |-> @.bad - s.r] ELSE [n |-> 0, bad |-> 0]]
      /\ UNCHANGED <<file, calls>>

(* The buffer cache reuses a buffer that no transaction has pinned. *)
evict(b) ==
  /\ cache[b] # disk[b] /\ cache' = [cache EXCEPT ![b] = disk[b]]
  /\ UNCHANGED <<disk, used, addrs, size, file, off, call, want, panicked, most, calls>>

Next ==
  \/ \E d \in Fd, f \in File, trunc \in BOOLEAN : open(d, f, trunc)
  \/ \E d \in Fd, n \in Lengths : fileread(d, n)
  \/ \E d \in Fd, n \in Lengths : \E bad \in BadAt \cup {n} : sys_write(d, n, bad)
  \/ \E d \in Fd : filewrite(d)
  \/ \E b \in 1 .. NBLOCKS : evict(b)

Spec == Init /\ [][Next]_vars
-------------------------------------------------------------------------------
(* Every block in use belongs to one file, in one place, and the bitmap    *)
(* has those blocks and no others, whatever ran out of space or of user    *)
(* memory half-way; no read allocates and nothing panics.                  *)
BlocksInv ==
  LET S(f) == itrunc_blocks(Now(f)) \ {0}
      ind(f) == addrs[f][NDIRECT]
      refs(f) == {k \in 0 .. NDIRECT : addrs[f][k] # 0}
      inds(f) == IF ind(f) = 0 THEN {} ELSE {k \in 0 .. NINDIRECT - 1 : cache[ind(f)][k] # 0}
  IN  /\ ~panicked
      /\ used = UNION {S(f) : f \in File}
      /\ \A f \in File : Cardinality(S(f)) = Cardinality(refs(f)) + Cardinality(inds(f))
      /\ \A f, g \in File : f # g => S(f) \cap S(g) = {}

(* readi() returns, from any offset, the bytes last written there and as   *)
(* many as there are, across blocks, the indirect block, appends of two    *)
(* descriptors and truncation; a byte of a write that failed on the        *)
(* user's memory is the old one or the new one.                            *)
ReadsBack ==
  \A f \in File, at \in 0 .. MAXFILE * BSIZE, n \in Lengths :
    LET got == readi(Now(f), at, n).r
    IN  /\ size[f] = Len(want[f])
        /\ Len(got) = IF at >= size[f] THEN 0 ELSE min(n, size[f] - at)
        /\ \A i \in 1 .. Len(got) : got[i] \in want[f][at + i]

(* No transaction of a write or truncation logs more than the MAXOPBLOCKS  *)
(* blocks that begin_op() has reserved for it, unaligned ones included.    *)
OpFits == most <= MAXOPBLOCKS
===============================================================================
