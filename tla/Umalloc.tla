------------------------------- MODULE Umalloc --------------------------------
(***************************************************************************)
(* The user library's malloc() and free(), user/umalloc.c, in units of a   *)
(* header.  base, of size 0, is at address 0 and the heap grows above it.  *)
(* A function is an operator from the heap h in which it is called to the  *)
(* heap it leaves; h.r is the value returned.                              *)
(***************************************************************************)
EXTENDS Naturals, FiniteSets, FiniteSetsExt

CONSTANTS Header,      \* sizeof(Header)
          MinCore,     \* 4096 in morecore()
          HeapLimit,   \* the address at which sbrk() fails
          Requests     \* the arguments of malloc()

VARIABLES heap,        \* [ptr, size] of every header, freep, and top for sbrk()
          live,        \* the addresses that malloc() has returned
          holes        \* the units that the program took from sbrk() itself
hvars == <<heap, live, holes>>

base == 0
Null == HeapLimit + 1

nunits(nbytes) == (nbytes + Header - 1) \div Header + 1

(* free()'s search, from p on, for the element after which bp belongs. *)
RECURSIVE search(_, _, _)
search(h, p, bp) ==
  LET n == h.ptr[p]
  IN  IF (bp > p /\ bp < n) \/ (p >= n /\ (bp > p \/ bp < n)) THEN p ELSE search(h, n, bp)

(* The two ends of free(): bp joins what follows and what precedes it.     *)
(* (Mutant: what precedes is only linked.)                                 *)
join_next(h, p, bp) ==
  LET n == h.ptr[p]
  IN  IF bp + h.size[bp] = n THEN [h EXCEPT !.size[bp] = @ + h.size[n], !.ptr[bp] = h.ptr[n]]
      ELSE [h EXCEPT !.ptr[bp] = n]
join_prev_link(h, p, bp) == [h EXCEPT !.ptr[p] = bp]
join_prev(h, p, bp) ==
  IF p + h.size[p] = bp THEN [h EXCEPT !.size[p] = @ + h.size[bp], !.ptr[p] = h.ptr[bp]]
  ELSE [h EXCEPT !.ptr[p] = bp]
free(h, bp) ==
  LET p == search(h, h.freep, bp) IN [join_prev(join_next(h, p, bp), p, bp) EXCEPT !.freep = p]

morecore(h, n) ==
  LET nu == IF n < MinCore THEN MinCore ELSE n  hp == h.top
  IN  IF hp + nu > HeapLimit THEN [h EXCEPT !.r = Null]
      ELSE LET f == free([h EXCEPT !.top = @ + nu, !.size[hp] = nu], hp) IN [f EXCEPT !.r = f.freep]

(* malloc()'s loop: p, which prevp points to, is looked at next. *)
RECURSIVE scan(_, _, _, _)
scan(h, prevp, p, n) ==
  LET q == p + h.size[p] - n                   \* the tail end of p
      m == morecore(h, n)
  IN  IF h.size[p] = n THEN [h EXCEPT !.ptr[prevp] = h.ptr[p], !.freep = prevp, !.r = p]
      ELSE IF h.size[p] > n THEN [h EXCEPT !.size[p] = @ - n, !.size[q] = n, !.freep = prevp, !.r = q]
      ELSE IF p # h.freep THEN scan(h, p, h.ptr[p], n)
      ELSE IF m.r = Null THEN m
      ELSE scan(m, m.r, m.ptr[m.r], n)

first(h) == IF h.freep # Null THEN h ELSE [h EXCEPT !.freep = base, !.ptr[base] = base]
malloc(h, nbytes) == LET f == first(h) IN scan(f, f.freep, f.ptr[f.freep], nunits(nbytes))

HeapInit ==
  /\ heap = [ptr |-> [a \in base .. HeapLimit |-> Null], size |-> [a \in base .. HeapLimit |-> 0],
             freep |-> Null, top |-> 1, r |-> Null]
  /\ live = {} /\ holes = 0

(* The program writes over the memory it was given. *)
filled(h, b) ==
  LET inside == b + 1 .. b + h.size[b] - 1
  IN  [h EXCEPT !.ptr = [a \in DOMAIN @ |-> IF a \in inside THEN Null ELSE @[a]],
                !.size = [a \in DOMAIN @ |-> IF a \in inside THEN 0 ELSE @[a]], !.r = Null]

Malloc(nbytes) ==
  \E h \in {malloc(heap, nbytes)} :
    /\ heap' = IF h.r = Null THEN h ELSE filled(h, h.r)
    /\ live' = IF h.r = Null THEN live ELSE live \cup {h.r}
    /\ UNCHANGED holes

Free(bp) == bp \in live /\ heap' = free(heap, bp) /\ live' = live \ {bp} /\ UNCHANGED holes

(* The program moves the break itself, so that the heap has a hole. *)
Sbrk == heap.top < HeapLimit /\ heap' = [heap EXCEPT !.top = @ + 1] /\ holes' = holes + 1 /\ UNCHANGED live

HeapNext == (\E n \in Requests : Malloc(n)) \/ (\E bp \in live : Free(bp)) \/ Sbrk
-------------------------------------------------------------------------------
RECURSIVE FreeList(_, _)
FreeList(p, seen) == IF p \in seen THEN seen ELSE FreeList(heap.ptr[p], seen \cup {p})

(* The free list is one ring, in the order of the addresses and with no    *)
(* two neighbours that touch, so that a request which any free space can   *)
(* hold is met without sbrk(); and the blocks handed out and the free ones *)
(* fill what sbrk() has given, without overlap or loss.                    *)
HeapInv ==
  LET ring == IF heap.freep = Null THEN {base} ELSE FreeList(heap.freep, {})
      units(b) == b .. b + heap.size[b] - 1
      size(b) == heap.size[b]
      blocks == ring \cup live
      after(p) == {q \in ring : q > p}
  IN  /\ base \in ring /\ ring \cap live = {}
      /\ heap.freep # Null => \A p \in ring : heap.ptr[p] = IF after(p) = {} THEN base ELSE Min(after(p))
      /\ \A p, q \in ring \ {base} : p + heap.size[p] # q
      /\ \A b \in blocks \ {base} : heap.size[b] > 0 /\ b + heap.size[b] <= heap.top
      /\ MapThenSumSet(size, blocks) + holes + 1 = heap.top
      /\ \A b, c \in blocks : b # c => units(b) \cap units(c) = {}
===============================================================================
