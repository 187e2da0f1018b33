-------------------------------- MODULE Memory --------------------------------
(***************************************************************************)
(* Physical memory and page tables: kernel/kalloc.c, kernel/vm.c, exec()   *)
(* and the memory side of fork(), exit() and sbrk().  Which of the free    *)
(* pages kalloc() returns makes no difference to the kernel, so the free   *)
(* list is its length, and a page table is the set of virtual pages mapped *)
(* and the set of table pages below the root, with FANOUT entries a page   *)
(* in place of 512.  A call touches the memory of its own process only,    *)
(* and kalloc() and kfree() are atomic; exec(), the longest, is one step   *)
(* per allocation of memory, the other calls are one step.                 *)
(*                                                                         *)
(* A function of the kernel is an operator from the state s in which it is *)
(* called to the state it leaves: s.free, s.pt the page table it works on, *)
(* s.r the value returned, and s.bad once it has panicked.                 *)
(***************************************************************************)
EXTENDS Integers, Sequences, FiniteSets, FiniteSetsExt

CONSTANTS PhysPages,  \* the numbers of physical pages looked at
          FANOUT, PGSIZE, USERSTACK,
          Slots,      \* the slots of the process table; slot 1 is init
          Programs,   \* sequences of segments [vaddr, memsz, write]
          Grow,       \* the arguments n of sbrk(n)
          MaxPages,   \* bound: user pages of a process that sbrk() makes
          MaxArgs     \* bound: arguments of exec(), a page each

TRAMPOLINE == FANOUT * FANOUT * FANOUT - 1   \* as page numbers
TRAPFRAME == TRAMPOLINE - 1
Wide == 2 ^ 16                               \* stands for 2^64, the width of a size

PGROUNDUP(n) == (n + PGSIZE - 1) \div PGSIZE   \* in pages
Below(sz) == 0 .. PGROUNDUP(sz) - 1

NoTable == [pages |-> {}, user |-> {}, write |-> {}, tables |-> {}]
panic(s) == [s EXCEPT !.bad = TRUE, !.r = 0]

(* The table pages that walk() passes on the way to the pages of S. *)
walk(S) == {<<1, va \div (FANOUT * FANOUT)>> : va \in S} \cup {<<0, va \div FANOUT>> : va \in S}

(* What kalloc() must give for the pages of S to be mapped, each of them   *)
(* taking a page itself or (the trampoline and the trapframe) none.        *)
need(s, S, each) == Cardinality(walk(S) \ s.pt.tables) + each * Cardinality(S)

(* mappages() with, if each = 1, the kalloc() before it, for the pages of  *)
(* S upwards until memory runs out; the page that could not be mapped is   *)
(* given back, a table made on the way to it stays.                        *)
mappages(s, S, each, user, write) ==
  LET fits == {{va \in S : va < top} : top \in S \cup {TRAMPOLINE + 1}}
      got == CHOOSE G \in fits : need(s, G, each) <= s.free /\ \A H \in fits : need(s, H, each) <= s.free => H \subseteq G
      rest == S \ got
      part == IF rest # {} /\ s.free - need(s, got, each) > each
              THEN {<<1, Min(rest) \div (FANOUT * FANOUT)>>} \ (s.pt.tables \cup walk(got)) ELSE {}
  IN  IF S \cap s.pt.pages # {} THEN panic(s)
      ELSE [s EXCEPT !.free = @ - need(s, got, each) - Cardinality(part),
                     !.pt = [pages |-> @.pages \cup got, tables |-> @.tables \cup walk(got) \cup part,
                             user |-> @.user \cup (got \cap user), write |-> @.write \cup (got \cap write)],
                     !.r = IF rest = {} THEN 1 ELSE 0]

uvmunmap(s, S, do_free) ==
  IF ~(S \subseteq s.pt.pages) THEN panic(s)
  ELSE [s EXCEPT !.free = IF do_free THEN @ + Cardinality(S) ELSE @,
                 !.pt = [@ EXCEPT !.pages = @ \ S, !.user = @ \ S, !.write = @ \ S]]

uvmdealloc(s, oldsz, newsz) ==
  IF newsz >= oldsz THEN [s EXCEPT !.r = oldsz]
  ELSE [uvmunmap(s, Below(oldsz) \ Below(newsz), TRUE) EXCEPT !.r = newsz]

uvmalloc(s, oldsz, newsz, write) ==
  LET new == Below(newsz) \ Below(oldsz)
      m == mappages(s, new, 1, new, IF write THEN new ELSE {})
      a == PGROUNDUP(oldsz) + Cardinality(new \cap m.pt.pages)     \* where it failed
  IN  IF newsz < oldsz THEN [s EXCEPT !.r = oldsz]
      ELSE IF m.bad \/ m.r = 1 THEN [m EXCEPT !.r = newsz]
      ELSE [uvmdealloc(m, a * PGSIZE, PGROUNDUP(oldsz) * PGSIZE) EXCEPT !.r = 0]

(* freewalk(): every table page and the root; there may be no leaf left. *)
freewalk(s) ==
  IF s.pt.pages # {} THEN panic(s)
  ELSE [s EXCEPT !.free = @ + 1 + Cardinality(s.pt.tables), !.pt = NoTable]

uvmfree(s, sz) == freewalk(uvmunmap(s, Below(sz), TRUE))

(* uvmcopy() from the table old; on failure what was copied is unmapped.   *)
(* (Mutant: it is left to freeproc(), whose size is still 0.)              *)
uvmcopy_err_none(s) == [s EXCEPT !.r = 0]
uvmcopy_err(s) == [uvmunmap(s, s.pt.pages \ {TRAPFRAME, TRAMPOLINE}, TRUE) EXCEPT !.r = 0]
uvmcopy(s, old, sz) ==
  LET m == mappages(s, Below(sz), 1, old.user, old.write)
  IN  IF ~(Below(sz) \subseteq old.pages) THEN panic(s) ELSE IF m.bad \/ m.r = 1 THEN m ELSE uvmcopy_err(m)

(* proc_pagetable(): a table with the trampoline and the trapframe, r = 1; *)
(* if they cannot be mapped, it is freed again.                            *)
proc_pagetable(s) ==
  LET m == mappages([s EXCEPT !.free = @ - 1, !.pt = NoTable], {TRAMPOLINE, TRAPFRAME}, 0, {}, {TRAPFRAME})
  IN  IF s.free = 0 THEN [s EXCEPT !.r = 0]
      ELSE IF m.r = 0 THEN [uvmfree(uvmunmap(m, m.pt.pages, FALSE), 0) EXCEPT !.r = 0]
      ELSE m

proc_freepagetable(s, sz) == uvmfree(uvmunmap(s, {TRAMPOLINE, TRAPFRAME}, FALSE), sz)

(* freeproc() of a process of size sz: its table and its trapframe. *)
freeproc(s, sz) == LET f == proc_freepagetable(s, sz) IN [f EXCEPT !.free = @ + 1]

(* allocproc(): a trapframe and a table; both are given back on failure. *)
allocproc(s) ==
  LET t == proc_pagetable([s EXCEPT !.free = @ - 1])
  IN  IF s.free = 0 THEN [s EXCEPT !.r = 0] ELSE IF t.r = 0 THEN [t EXCEPT !.free = @ + 1] ELSE t

growproc(s, sz, n) ==
  IF n > 0 THEN uvmalloc(s, sz, sz + n, TRUE) ELSE uvmdealloc(s, sz, (sz + n) % Wide)
-------------------------------------------------------------------------------
(* copyin() and copyout(): from byte va on, len bytes, page by page; the   *)
(* bytes copied before a page of the wrong kind ends it.                   *)
piece(va, len) == LET n == PGSIZE - (va % PGSIZE) IN IF n > len THEN len ELSE n
RECURSIVE copy(_, _, _)
copy(ok, va, len) ==
  IF len = 0 \/ va \div PGSIZE \notin ok THEN {}
  ELSE LET n == piece(va, len)
       IN  va .. va + n - 1 \cup copy(ok, (va \div PGSIZE + 1) * PGSIZE, len - n)

walkaddr(pt) == pt.user                 \* the pages for which it is not 0
copyout(pt, va, len) == copy(pt.user \cap pt.write, va, len)
copyin(pt, va, len) == copy(walkaddr(pt), va, len)

(* copyinstr() of at most max bytes, of which the one at nul is the first  *)
(* that is 0: whether it succeeds.                                         *)
RECURSIVE copyinstr(_, _, _, _)
copyinstr(pt, va, max, nul) ==
  LET n == piece(va, max)
  IN  /\ max > 0 /\ va \div PGSIZE \in walkaddr(pt)
      /\ nul < va + n \/ copyinstr(pt, (va \div PGSIZE + 1) * PGSIZE, max - n, nul)
-------------------------------------------------------------------------------
VARIABLES free,    \* the length of the free list
          panicked,
          proc,    \* of each slot its page table pt and sz
          image,   \* what its exec() has so far: [pt, sz], the program and
                   \* the number of its segments loaded, the arguments' pages
          npages   \* physical pages, as chosen
vars == <<free, panicked, proc, image, npages>>

Unused == [pt |-> NoTable, sz |-> 0]
NoImage == [pt |-> NoTable, sz |-> 0, prog |-> <<>>, loaded |-> 0, args |-> 0]
Live == {i \in Slots : proc[i] # Unused}
Idle(i) == i \in Live /\ image[i] = NoImage
State(pt) == [free |-> free, pt |-> pt, r |-> 0, bad |-> FALSE]
After(s, more) == free' = s.free + more /\ panicked' = (panicked \/ s.bad) /\ UNCHANGED npages

(* kinit(); userinit() makes the first process, with a page of initcode. *)
Init ==
  \E n \in PhysPages : \E a \in {allocproc([free |-> n, pt |-> NoTable, r |-> 0, bad |-> FALSE])} :
  \E s \in {uvmalloc(a, 0, PGSIZE, TRUE)} :
    /\ free = s.free /\ panicked = s.bad /\ npages = n
    /\ proc = [i \in Slots |-> IF i = 1 THEN [pt |-> s.pt, sz |-> PGSIZE] ELSE Unused]
    /\ image = [i \in Slots |-> NoImage]

(* fork(): j is the slot of the child. *)
fork(i, j) ==
  /\ Idle(i) /\ j \notin Live /\ UNCHANGED image
  /\ \E a \in {allocproc(State(NoTable))} :
       \/ a.r = 0 /\ After(a, 0) /\ UNCHANGED proc
       \/ a.r = 1 /\ \E c \in {uvmcopy(a, proc[i].pt, proc[i].sz)} :
            \/ c.r = 0 /\ After(freeproc(c, 0), 0) /\ UNCHANGED proc
            \/ /\ c.r = 1 /\ After(c, 0)
               /\ proc' = [proc EXCEPT ![j] = [pt |-> c.pt, sz |-> proc[i].sz]]

(* exit(), and the freeproc() of the parent's wait(). *)
exit(i) ==
  /\ i # 1 /\ Idle(i) /\ After(freeproc(State(proc[i].pt), proc[i].sz), 0)
  /\ proc' = [proc EXCEPT ![i] = Unused] /\ UNCHANGED image

(* The bound keeps sz below the trapframe: real memory ends before that.   *)
sys_sbrk(i, n) ==
  /\ Idle(i) /\ PGROUNDUP(proc[i].sz + n) <= MaxPages /\ UNCHANGED image
  /\ \E s \in {growproc(State(proc[i].pt), proc[i].sz, n)} :
       /\ After(s, 0)
       /\ proc' = [proc EXCEPT ![i] = [pt |-> s.pt, sz |-> IF n > 0 /\ s.r = 0 THEN @.sz ELSE s.r]]

(* exec() as far as a program that can be loaded leads it: its headers are *)
(* read before there is a page table.                                      *)
exec(s) == proc_pagetable(s)

(* sys_exec(): a page for each of the n arguments, then exec() as far as   *)
(* the page table; argument pages go back in any case.                     *)
sys_exec(i, prog, n) ==
  /\ Idle(i) /\ UNCHANGED proc
  /\ \/ free < n /\ UNCHANGED <<free, panicked, image, npages>>
     \/ /\ free >= n
        /\ \E t \in {exec([State(NoTable) EXCEPT !.free = @ - n])} :
             \/ t.r = 0 /\ After(t, n) /\ UNCHANGED image
             \/ /\ t.r = 1 /\ After(t, 0)
                /\ image' = [image EXCEPT ![i] = [pt |-> t.pt, sz |-> 0, prog |-> prog, loaded |-> 0, args |-> n]]

(* bad: frees the new page table and what sz says is in it; s is the state *)
(* in which the label is reached.                                          *)
bad(i, s, sz) ==
  /\ After(proc_freepagetable(s, sz), image[i].args)
  /\ image' = [image EXCEPT ![i] = NoImage]

(* The pages that loadseg() fills; walkaddr() must find them. *)
loadseg(seg) == {va \in Below(seg.vaddr + seg.memsz) : va * PGSIZE >= seg.vaddr}

(* One turn of exec()'s loop over the program headers; err: the file       *)
(* cannot be read.                                                         *)
segment(i, err) ==
  LET I == image[i]  seg == I.prog[I.loaded + 1]  end == seg.vaddr + seg.memsz
  IN  /\ ~Idle(i) /\ I.loaded < Len(I.prog) /\ UNCHANGED proc
      /\ \/ seg.vaddr % PGSIZE # 0 /\ bad(i, State(I.pt), I.sz)
         \/ seg.vaddr % PGSIZE = 0 /\ \E a \in {uvmalloc(State(I.pt), I.sz, end, seg.write)} :
              \/ a.r = 0 /\ bad(i, a, I.sz)
              \/ a.r # 0 /\ err /\ bad(i, a, a.r)
              \/ /\ a.r # 0 /\ ~err
                 /\ After([a EXCEPT !.bad = @ \/ ~(loadseg(seg) \subseteq walkaddr(a.pt))], 0)
                 /\ image' = [image EXCEPT ![i] = [@ EXCEPT !.pt = a.pt, !.sz = a.r, !.loaded = @ + 1]]

(* The rest of exec(): the stack above its guard page, the arguments if    *)
(* they fit, and the commit to the new image.                              *)
guard_page(sz) == sz \div PGSIZE - (USERSTACK + 1)
stack(i, fit) ==
  LET I == image[i]  sz == PGROUNDUP(I.sz) * PGSIZE
  IN  /\ ~Idle(i) /\ i \in Live /\ I.loaded = Len(I.prog)
      /\ \E a \in {uvmalloc(State(I.pt), sz, sz + (USERSTACK + 1) * PGSIZE, TRUE)} :
           \/ a.r = 0 /\ bad(i, a, sz) /\ UNCHANGED proc
           \/ a.r # 0 /\ ~fit /\ bad(i, a, a.r) /\ UNCHANGED proc
           \/ /\ a.r # 0 /\ fit
              /\ After(proc_freepagetable([a EXCEPT !.pt = proc[i].pt], proc[i].sz), I.args)
              /\ proc' = [proc EXCEPT ![i] = [pt |-> [a.pt EXCEPT !.user = @ \ {guard_page(a.r)}], sz |-> a.r]]
              /\ image' = [image EXCEPT ![i] = NoImage]

Next ==
  \E i \in Slots :
    \/ \E j \in Slots : fork(i, j)
    \/ exit(i)
    \/ \E n \in Grow : sys_sbrk(i, n)
    \/ \E prog \in Programs, n \in 0 .. MaxArgs : sys_exec(i, prog, n)
    \/ \E b \in BOOLEAN : i \in Live /\ (segment(i, b) \/ stack(i, b))

Spec == Init /\ [][Next]_vars
-------------------------------------------------------------------------------
InTable(pt) == IF pt = NoTable THEN 0 ELSE 1 + Cardinality(pt.tables) + Cardinality(pt.pages \ {TRAPFRAME, TRAMPOLINE})
Owned(i) == 1 + InTable(proc[i].pt) + InTable(image[i].pt) + image[i].args

(* No page is lost or freed twice: the free pages and those of the         *)
(* processes (trapframe, root, tables, user pages, those of an exec() that *)
(* is under way) are all there are, whichever fork(), exec() or sbrk() ran *)
(* out of memory at whichever kalloc().                                    *)
PagesConserved == free >= 0 /\ free + MapThenSumSet(Owned, Live) = npages

(* Between calls exactly the pages below sz are mapped, next to the        *)
(* trampoline and the trapframe, and no call has panicked; copyin() and    *)
(* copyout() reach the bytes up to the first page that the user may not    *)
(* read or write and no others, wherever they begin and end, and           *)
(* copyinstr() succeeds when the string ends within what it may read.      *)
MemoryInv ==
  /\ ~panicked
  /\ \A i \in Live :
       LET pt == proc[i].pt
           upto(ok, va, len) == {b \in va .. va + len - 1 : \A x \in va .. b : x \div PGSIZE \in ok}
       IN  /\ pt.pages = Below(proc[i].sz) \cup {TRAPFRAME, TRAMPOLINE}
           /\ walk(pt.pages) \subseteq pt.tables
           /\ \A va \in 0 .. TRAPFRAME * PGSIZE, len \in 0 .. PGSIZE + 1 :
                /\ copyin(pt, va, len) = upto(pt.user, va, len)
                /\ copyout(pt, va, len) = upto(pt.user \cap pt.write, va, len)
                /\ copyinstr(pt, va, PGSIZE + 1, va + len) = (len <= PGSIZE /\ va + len \in upto(pt.user, va, len + 1))
===============================================================================
