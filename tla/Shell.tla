-------------------------------- MODULE Shell ---------------------------------
(***************************************************************************)
(* The shell, user/sh.c: the parser, over lines of tokens, and runcmd()    *)
(* with the processes and descriptors it makes.  A token is what           *)
(* gettoken() returns; all words are "a".  A program that exec() starts is *)
(* a filter: it reads its input to the end and exits.                      *)
(***************************************************************************)
EXTENDS Naturals, Sequences, FiniteSets, FiniteSetsExt

CONSTANTS Lines,       \* the lines typed
          MAXARGS,
          NPROC        \* processes; fork() fails when they are all in use

NoCmd == [type |-> "NONE"]
execcmd(n) == [type |-> "EXEC", argc |-> n]
redircmd(c, tok) == [type |-> "REDIR", cmd |-> c, fd |-> IF tok = "<" THEN 0 ELSE 1]
pipecmd(l, r) == [type |-> "PIPE", left |-> l, right |-> r]
listcmd(l, r) == [type |-> "LIST", left |-> l, right |-> r]
backcmd(c) == [type |-> "BACK", cmd |-> c]

(* What a parsing function returns: the command and the tokens left, or    *)
(* Panic, which every caller passes on because panic() exits.              *)
Parsed(c, t) == [cmd |-> c, rest |-> t]
Panic == Parsed(NoCmd, <<"panic">>)

peek(t, toks) == t # <<>> /\ t[1] \in toks
gettoken(t) == Tail(t)

RECURSIVE parseredirs(_, _)
parseredirs(c, t) ==
  IF ~peek(t, {"<", ">"}) THEN Parsed(c, t)
  ELSE IF ~peek(gettoken(t), {"a"}) THEN Panic
  ELSE parseredirs(redircmd(c, t[1]), gettoken(gettoken(t)))

(* The execcmd that parseredirs() has wrapped gets one argument more. *)
RECURSIVE addarg(_)
addarg(c) == IF c.type = "EXEC" THEN execcmd(c.argc + 1) ELSE [c EXCEPT !.cmd = addarg(@)]
RECURSIVE argc(_)
argc(c) == IF c.type = "EXEC" THEN c.argc ELSE argc(c.cmd)

(* The loop of parseexec(), after p.  (Mutant: it does not stop at ")".) *)
ends_few == {"|", "&", ";"}
ends == {"|", ")", "&", ";"}
RECURSIVE parseargs(_)
parseargs(p) ==
  IF p = Panic \/ p.rest = <<>> \/ peek(p.rest, ends) THEN p
  ELSE IF ~peek(p.rest, {"a"}) \/ argc(p.cmd) + 1 >= MAXARGS THEN Panic
  ELSE parseargs(parseredirs(addarg(p.cmd), gettoken(p.rest)))

RECURSIVE parseline(_), parsepipe(_), parseblock(_), backs(_)
parseexec(t) == IF peek(t, {"("}) THEN parseblock(t) ELSE parseargs(parseredirs(execcmd(0), t))

parsepipe(t) ==
  LET p == parseexec(t)  r == parsepipe(gettoken(p.rest))
  IN  IF p = Panic \/ ~peek(p.rest, {"|"}) THEN p
      ELSE IF r = Panic THEN Panic ELSE Parsed(pipecmd(p.cmd, r.cmd), r.rest)

(* parseline(): backs is its while, a ";" and the rest of the line follow. *)
backs(p) == IF p # Panic /\ peek(p.rest, {"&"}) THEN backs(Parsed(backcmd(p.cmd), gettoken(p.rest))) ELSE p
parseline(t) ==
  LET p == backs(parsepipe(t))  r == parseline(gettoken(p.rest))
  IN  IF p = Panic \/ ~peek(p.rest, {";"}) THEN p
      ELSE IF r = Panic THEN Panic ELSE Parsed(listcmd(p.cmd, r.cmd), r.rest)

parseblock(t) ==
  LET p == parseline(gettoken(t))
  IN  IF p = Panic \/ ~peek(p.rest, {")"}) THEN Panic ELSE parseredirs(p.cmd, gettoken(p.rest))

(* NoCmd for a line with leftovers, too. *)
parsecmd(t) == LET p == parseline(t) IN IF p = Panic \/ p.rest # <<>> THEN NoCmd ELSE p.cmd
-------------------------------------------------------------------------------
(* Process 0 is the shell itself.  A process has the command it runs, or   *)
(* which of its children it waits for, and its descriptors: "tty", "file", *)
(* or an end of the pipe that process k made.                              *)
VARIABLES line,        \* the command line that is run
          task,        \* of each process [cmd, pc]
          fds, parent, \* parent: 0 .. NPROC-1, or init
          waits        \* children that a process still has to wait for

Pids == 0 .. NPROC - 1
init == NPROC
NFD == 8              \* bound: descriptors of a process, NOFILE
Free == [cmd |-> NoCmd, pc |-> "unused"]
Std == [d \in 0 .. NFD |-> IF d < 3 THEN <<"tty", 0>> ELSE <<"closed", 0>>]
Open(f) == {d \in DOMAIN f : f[d][1] # "closed"}

close(f, d) == [f EXCEPT ![d] = <<"closed", 0>>]
fdalloc(f, x) == [f EXCEPT ![Min(DOMAIN f \ Open(f))] = x]       \* open(), dup()

(* main() has read a line; parsecmd() of it is what its child will do. *)
ShellInit ==
  /\ line \in Lines
  /\ task = [i \in Pids |-> IF i = 0 THEN [cmd |-> parsecmd(line), pc |-> "main"] ELSE Free]
  /\ fds = [i \in Pids |-> Std] /\ parent = [i \in Pids |-> init] /\ waits = [i \in Pids |-> 0]

Goto(i, c, pc) == [task EXCEPT ![i] = [cmd |-> c, pc |-> pc]]
FreeSlots == {j \in Pids : task[j].pc = "unused"}

(* exit(): a zombie for its parent; its own children go to init, which     *)
(* reaps zombies.                                                          *)
exit(i) ==
  /\ task' = [j \in Pids |-> IF j = i THEN (IF parent[i] = init THEN Free ELSE [cmd |-> NoCmd, pc |-> "zombie"])
                            ELSE IF parent[j] = i /\ task[j].pc = "zombie" THEN Free ELSE task[j]]
  /\ parent' = [j \in Pids |-> IF parent[j] = i THEN init ELSE parent[j]]
  /\ fds' = [fds EXCEPT ![i] = Std] /\ UNCHANGED waits

(* A child that runs c with the descriptors f; the parent goes on at pc    *)
(* with the descriptors g and n children more to wait for.                 *)
fork(i, c, f, g, pc, n) ==
  LET j == Min(FreeSlots)
  IN  /\ FreeSlots # {}
      /\ task' = [Goto(i, task[i].cmd, pc) EXCEPT ![j] = [cmd |-> c, pc |-> "run"]]
      /\ fds' = [fds EXCEPT ![i] = g, ![j] = f]
      /\ parent' = [parent EXCEPT ![j] = i]
      /\ waits' = [waits EXCEPT ![i] = @ + n, ![j] = 0]

(* When no process is left, fork1()'s panic() exits. *)
fork1(i, c, f, g, pc, n) == fork(i, c, f, g, pc, n) \/ (FreeSlots = {} /\ exit(i))

At(i, type) == task[i].pc = "run" /\ task[i].cmd.type = type

(* main(): the line is run in a child, then wait(0); no other process is   *)
(* left at the first prompt, so that this fork1() does not fail.           *)
main == task[0].pc = "main" /\ fork(0, task[0].cmd, fds[0], fds[0], "wait", 1) /\ UNCHANGED line

(* runcmd() of nothing, or of an EXEC without arguments, exits. *)
run_none(i) ==
  /\ At(i, "NONE") \/ (At(i, "EXEC") /\ task[i].cmd.argc = 0)
  /\ exit(i) /\ UNCHANGED line

(* EXEC: the program, which reads until no process has the write end of    *)
(* its input open, and exits.                                              *)
run_exec(i) ==
  /\ At(i, "EXEC") /\ task[i].cmd.argc > 0
  /\ fds[i][0][1] = "r" => ~\E j \in Pids : task[j].pc \notin {"unused", "zombie"} /\ \E d \in 0 .. NFD : fds[j][d] = <<"w", fds[i][0][2]>>
  /\ exit(i) /\ UNCHANGED line

run_redir(i) ==
  LET c == task[i].cmd
  IN  /\ At(i, "REDIR")
      /\ \/ /\ fds' = [fds EXCEPT ![i] = fdalloc(close(@, c.fd), <<"file", 0>>)]
            /\ task' = Goto(i, c.cmd, "run") /\ UNCHANGED <<parent, waits>>
         \/ exit(i)                                                  \* open() failed
      /\ UNCHANGED line

run_list(i) == At(i, "LIST") /\ fork1(i, task[i].cmd.left, fds[i], fds[i], "wait", 1) /\ UNCHANGED line

run_back(i) == At(i, "BACK") /\ fork1(i, task[i].cmd.cmd, fds[i], fds[i], "wait", 0) /\ UNCHANGED line

(* PIPE: pipe(p) and the first fork1(); p[0] and p[1] are the two lowest   *)
(* free descriptors.  pipefds is what the child keeps: end on descriptor d *)
(* and neither of p.  (Mutant: p[1] stays open.)                           *)
p0(f) == Min(DOMAIN f \ Open(f))
p1(f) == Min((DOMAIN f \ Open(f)) \ {p0(f)})
pipefds_w(f, r, w, d, end) == close(fdalloc(close(f, d), f[end]), r)
pipefds(f, r, w, d, end) == close(close(fdalloc(close(f, d), f[end]), r), w)
pipe_left(i) ==
  LET f == fds[i]  r == p0(f)  w == p1(f)
      g == [f EXCEPT ![r] = <<"r", i>>, ![w] = <<"w", i>>]
  IN  /\ At(i, "PIPE") /\ UNCHANGED line
      /\ \/ fork1(i, task[i].cmd.left, pipefds(g, r, w, 1, w), g, "right", 1)
         \/ exit(i)                                                  \* pipe() failed

(* The second fork1(), and the parent's close() of both ends. *)
pipe_right(i) ==
  LET f == fds[i]  r == CHOOSE d \in 3 .. NFD : f[d] = <<"r", i>>  w == CHOOSE d \in 3 .. NFD : f[d] = <<"w", i>>
  IN  /\ task[i].pc = "right" /\ UNCHANGED line
      /\ fork1(i, task[i].cmd.right, pipefds(f, r, w, 0, r), close(close(f, r), w), "wait", 1)

(* wait(0) for a child j. *)
wait(i, j) ==
  /\ task[i].pc = "wait" /\ waits[i] > 0 /\ parent[j] = i /\ task[j].pc = "zombie"
  /\ task' = [task EXCEPT ![j] = Free] /\ parent' = [parent EXCEPT ![j] = init]
  /\ waits' = [waits EXCEPT ![i] = @ - 1] /\ UNCHANGED <<line, fds>>

(* After its waits main() reads the next line, a LIST goes on with its     *)
(* right half, and any other command exits.                                *)
resume(i) ==
  /\ task[i].pc = "wait" /\ waits[i] = 0 /\ UNCHANGED line
  /\ \/ i = 0 /\ task' = Goto(0, NoCmd, "prompt") /\ UNCHANGED <<parent, fds, waits>>
     \/ i # 0 /\ task[i].cmd.type = "LIST" /\ task' = Goto(i, task[i].cmd.right, "run") /\ UNCHANGED <<parent, fds, waits>>
     \/ i # 0 /\ task[i].cmd.type # "LIST" /\ exit(i)

step(i) ==
  \/ run_none(i) \/ run_exec(i) \/ run_redir(i) \/ run_list(i) \/ run_back(i)
  \/ pipe_left(i) \/ pipe_right(i) \/ resume(i) \/ \E j \in Pids : wait(i, j)

ShellNext == main \/ \E i \in Pids : step(i)
-------------------------------------------------------------------------------
(* The grammar of a line, declared: the trees of the tokens t. *)
Cut(t, i) == <<SubSeq(t, 1, i - 1), SubSeq(t, i + 1, Len(t))>>
Cuts(t, tok) == {Cut(t, i) : i \in {i \in 1 .. Len(t) : t[i] = tok}}

RECURSIVE Redirected(_, _)
Redirected(c, toks) == IF toks = <<>> THEN c ELSE Redirected(redircmd(c, Head(toks)), Tail(toks))

(* Words and redirections, which name a file each, in any order. *)
Simple(t) ==
  LET arrow(tok) == tok \in {"<", ">"}
      files == {i + 1 : i \in {i \in 1 .. Len(t) : arrow(t[i])}}
      words == {i \in 1 .. Len(t) : t[i] = "a"} \ files
  IN  IF /\ \A i \in 1 .. Len(t) : t[i] = "a" \/ arrow(t[i])
         /\ \A i \in files : i <= Len(t) /\ t[i] = "a"
         /\ Cardinality(words) < MAXARGS
      THEN {Redirected(execcmd(Cardinality(words)), SelectSeq(t, arrow))} ELSE {}

RECURSIVE Line(_), Backs(_), Pipeline(_)
Block(t) ==
  IF t = <<>> \/ t[1] # "(" THEN {}
  ELSE UNION {{Redirected(c, SelectSeq(x[2], LAMBDA tok : tok # "a")) : c \in Line(Tail(x[1]))} :
                 x \in {x \in Cuts(t, ")") : \E c \in Simple(x[2]) : argc(c) = 0}}
Pipeline(t) ==
  LET Exec(x) == Simple(x) \cup Block(x)
  IN  Exec(t) \cup UNION {{pipecmd(l, r) : l \in Exec(x[1]), r \in Pipeline(x[2])} : x \in Cuts(t, "|")}
Backs(t) ==
  Pipeline(t) \cup IF t # <<>> /\ t[Len(t)] = "&" THEN {backcmd(c) : c \in Backs(SubSeq(t, 1, Len(t) - 1))} ELSE {}
Line(t) ==
  Backs(t) \cup UNION {{listcmd(l, r) : l \in Backs(x[1]), r \in Line(x[2])} : x \in Cuts(t, ";")}

(* parsecmd() builds the one tree that the grammar has for the line, and   *)
(* refuses the line when it has none: "|" binds tighter than "&", and "&"  *)
(* than ";", redirections come in any place, and nothing is left over.     *)
ParsesAsGrammar ==
  task[0].pc = "main" => Line(line) = {task[0].cmd} \ {NoCmd}

(* However a line's pipes, lists and redirections nest and whichever fork1 *)
(* or open() fails, the shell gets back to its prompt: no process that is  *)
(* waited for reads from a pipe whose write end has been left open.        *)
ShellReturns == <>(task[0].pc = "prompt")
===============================================================================
