-------------------------------- MODULE MCParts -------------------------------
(***************************************************************************)
(* One instance of each of the parts that no other part interferes with:   *)
(* spinlocks (SpinLock), memory (Memory), the blocks of files (Blocks),    *)
(* the clock (Clock), and of the user's side the heap (Umalloc), the shell *)
(* (Shell) and the handling of text (Text).  part says which one is at     *)
(* work; the spinlocks of the others stay free, their variables are 0.     *)
(***************************************************************************)
EXTENDS SpinLock, Integers, Sequences, SequencesExt

CONSTANTS PhysPages, FANOUT, PGSIZE, USERSTACK, Slots, Programs, Grow, MaxPages, MaxArgs,
          NBLOCKS, BSIZE, NDIRECT, MAXOPBLOCKS, File, Fd, Lengths, BadAt, ImageSizes, MaxCalls,
          Header, MinCore, HeapLimit, Requests,
          Lines, MAXARGS, NPROC,
          Jobs, BufSize, MAX_ARG_LEN, Modulus,
          Sleeper, Periods, TickWidth, MaxLate

VARIABLES part,
          free, panicked, proc, image, npages,
          cache, disk, used, addrs, size, file, off, call, want, fspanicked, most, calls,
          heap, live, holes,
          line, task, fds, parent, waits,
          job, rest, prog,
          ticks, zz

mvars == <<free, panicked, proc, image, npages>>
bvars == <<cache, disk, used, addrs, size, file, off, call, want, fspanicked, most, calls>>
hvars == <<heap, live, holes>>
svars == <<line, task, fds, parent, waits>>
tvars == <<job, rest, prog>>
cvars == <<ticks, zz>>
allvars == <<part, vars, mvars, bvars, hvars, svars, tvars, cvars>>

M == INSTANCE Memory
B == INSTANCE Blocks WITH panicked <- fspanicked
H == INSTANCE Umalloc
S == INSTANCE Shell
T == INSTANCE Text
C == INSTANCE Clock

NoM == free = 0 /\ panicked = 0 /\ proc = 0 /\ image = 0 /\ npages = 0
NoB ==
  /\ cache = 0 /\ disk = 0 /\ used = 0 /\ addrs = 0 /\ size = 0 /\ file = 0
  /\ off = 0 /\ call = 0 /\ want = 0 /\ fspanicked = 0 /\ most = 0 /\ calls = 0
NoH == heap = 0 /\ live = 0 /\ holes = 0
NoS == line = 0 /\ task = 0 /\ fds = 0 /\ parent = 0 /\ waits = 0
NoT == job = 0 /\ rest = 0 /\ prog = 0
NoC == ticks = 0 /\ zz = 0

PartsInit ==
  /\ Init
  /\ \/ part = "spinlocks" /\ NoM /\ NoB /\ NoH /\ NoS /\ NoT /\ NoC
     \/ part = "memory" /\ M!Init /\ NoB /\ NoH /\ NoS /\ NoT /\ NoC
     \/ part = "blocks" /\ B!Init /\ NoM /\ NoH /\ NoS /\ NoT /\ NoC
     \/ part = "heap" /\ H!HeapInit /\ NoM /\ NoB /\ NoS /\ NoT /\ NoC
     \/ part = "shell" /\ S!ShellInit /\ NoM /\ NoB /\ NoH /\ NoT /\ NoC
     \/ part = "text" /\ T!TextInit /\ NoM /\ NoB /\ NoH /\ NoS /\ NoC
     \/ part = "clock" /\ C!ClockInit /\ NoM /\ NoB /\ NoH /\ NoS /\ NoT

spinlocks == part = "spinlocks" /\ Next /\ UNCHANGED <<part, mvars, bvars, hvars, svars, tvars, cvars>>
memory == part = "memory" /\ M!Next /\ UNCHANGED <<part, vars, bvars, hvars, svars, tvars, cvars>>
blocks == part = "blocks" /\ B!Next /\ UNCHANGED <<part, vars, mvars, hvars, svars, tvars, cvars>>
malloc == part = "heap" /\ H!HeapNext /\ UNCHANGED <<part, vars, mvars, bvars, svars, tvars, cvars>>
shell == part = "shell" /\ S!ShellNext /\ UNCHANGED <<part, vars, mvars, bvars, hvars, tvars, cvars>>
text == part = "text" /\ T!TextNext /\ UNCHANGED <<part, vars, mvars, bvars, hvars, svars, cvars>>
clock == part = "clock" /\ C!ClockNext /\ UNCHANGED <<part, vars, mvars, bvars, hvars, svars, tvars>>

PartsNext == spinlocks \/ memory \/ blocks \/ malloc \/ shell \/ text \/ clock

(* The processes of the shell run on: weak fairness of its steps together  *)
(* is enough, because each of them is one of finitely many.                *)
PartsSpec == PartsInit /\ [][PartsNext]_allvars /\ WF_allvars(shell)
-------------------------------------------------------------------------------
Segment(v, n, w) == [vaddr |-> v, memsz |-> n, write |-> w]
MCPrograms == {<<Segment(0, 2, FALSE), Segment(2, 1, TRUE)>>, <<Segment(0, 1, FALSE), Segment(1, 2, TRUE)>>}
MCGrow == {-3, 1, 3}

Token == {"a", "|", ";", "&", "<", "(", ")"}
LongLines ==
  {<<"a", "|", "a", "|", "a">>, <<"(", "a", "|", "a", ")", "|", "a">>, <<"a", "|", "(", "a", ";", "a", ")">>,
   <<"(", "a", ";", "a", ")", "|", "(", "a", "|", "a", ")", "&">>, <<"a", "|", "a", "&", ";", "a", "|", "a", ">", "a">>,
   <<"(", "a", "&", ")", "<", "a", "|", "a">>, <<">", "a", "a", "a", "a">>, <<"(", "(", "a", ")", ";", ")">>,
   <<"a", "|", "(", "a", "|", "(", "a", "&", ")", ")">>}
MCLines == BoundedSeq(Token, 4) \cup LongLines

Patterns == BoundedSeq({"a", "b", ".", "*", "^", "$"}, 3) \cup
  {<<"^", "a", "*", "$">>, <<".", "*", "b", "$">>, <<"a", "*", "a", "*">>, <<"a", "*", "*", "*">>}
Inputs == BoundedSeq({"a", "sp", "nl"}, 5)
MCJobs ==
  [kind : {"match"}, re : Patterns, text : BoundedSeq({"a", "b"}, 3) \cup {<<"$">>, <<"*", "a">>, <<"^", "a">>}]
  \cup [kind : {"move"}, mem : {<<1, 2, 3, 4, 5, 6>>}, d : 1 .. 4, s : 1 .. 4, n : 0 .. 3]
  \cup [kind : {"name"}, a : BoundedSeq({"a", "nl"}, 4), b : BoundedSeq({"a", "nl"}, 4), n : {2, 3}]
  \cup [kind : {"number"}, xx : -128 .. 127, base : {10, 16}]
  \cup [kind : {"grep"}, re : {<<"^", "a">>, <<"a", "sp", "*", "$">>}, text : Inputs]
  \cup [kind : {"wc", "xargs"}, text : Inputs]
MCPeriods == {-1, 0, 1, 2}
-------------------------------------------------------------------------------
(* Memory: every physical page is free or has exactly one owner, whatever  *)
(* kalloc() fails in fork(), exec() or sbrk(); page tables map exactly the *)
(* pages below sz, and copyin() and copyout() reach what the page table    *)
(* allows and nothing else.                                                *)
MemoryInv == part = "memory" => M!PagesConserved /\ M!MemoryInv

(* Blocks: every block in use has one place in one file, the bitmap knows  *)
(* them all, no read allocates; a transaction of filewrite() or itrunc()   *)
(* is within the blocks that begin_op() reserved.                          *)
BlocksInv == part = "blocks" => B!BlocksInv /\ B!OpFits

(* Blocks: readi() returns what writei() wrote. *)
ReadsBack == part = "blocks" => B!ReadsBack

(* Umalloc: the free list is a sorted ring without neighbours that touch,  *)
(* and no unit of the heap is lost or in two blocks.                       *)
HeapInv == part = "heap" => H!HeapInv

(* Shell: parsecmd() agrees with the declared grammar. *)
ParsesAsGrammar == part = "shell" => S!ParsesAsGrammar

(* Shell: the prompt comes back. *)
ShellReturns == <>(part = "shell" => task[0].pc = "prompt")

(* Text: the matchers, the memory and string functions and the conversion  *)
(* of numbers compute what they are for.                                   *)
FunctionsAgree == part = "text" => T!FunctionsAgree

(* Text: grep, wc and xargs do not depend on how read() cuts their input.  *)
StreamsAgree == part = "text" => T!StreamsAgree

(* Clock: sleep(n) lasts n ticks, and no tick passes a sleeper by. *)
SleepsInTime == part = "clock" => C!SleepsInTime
===============================================================================
