--------------------------------- MODULE Text ---------------------------------
(***************************************************************************)
(* The text handling of the user programs and the string functions under   *)
(* it: the regular expressions of user/grep.c and user/find.c, the memory  *)
(* and string functions of kernel/string.c and user/ulib.c, the numbers of *)
(* user/printf.c, and the loops of grep, wc and xargs over an input that   *)
(* read() delivers in pieces of any length.                                *)
(*                                                                         *)
(* A C string is a sequence; what the code finds behind it is NUL.  job is *)
(* what is to be done; a program works through rest, what is not yet read. *)
(***************************************************************************)
EXTENDS Integers, Sequences, SequencesExt, FiniteSets, FiniteSetsExt

CONSTANTS Jobs,         \* the inputs
          BufSize,      \* sizeof(buf) in grep.c
          MAX_ARG_LEN,  \* xargs.c
          Modulus       \* 2^32, for the ints of printf.c

VARIABLES job, rest, prog
tvars == <<job, rest, prog>>

NUL == "NUL"
chr(s) == IF s = <<>> THEN NUL ELSE s[1]
next(s) == IF s = <<>> THEN NUL ELSE chr(Tail(s))
skip(s, n) == SubSeq(s, n + 1, Len(s))
-------------------------------------------------------------------------------
(* grep.c *)
RECURSIVE matchhere(_, _), matchstar(_, _, _)
matchhere(re, text) ==
  CASE chr(re) = NUL -> TRUE
    [] chr(re) # NUL /\ next(re) = "*" -> matchstar(chr(re), skip(re, 2), text)
    [] next(re) # "*" /\ chr(re) = "$" /\ next(re) = NUL -> text = <<>>
    [] OTHER -> /\ text # <<>> /\ chr(re) \in {".", chr(text)}
                /\ matchhere(Tail(re), Tail(text))

(* Mutant: c* needs one instance when there is one. *)
matchstar_greedy(c, re, text) ==
  IF text # <<>> /\ c \in {".", chr(text)}
    THEN matchstar(c, re, Tail(text))
    ELSE matchhere(re, text)

matchstar(c, re, text) ==
  \/ matchhere(re, text)
  \/ text # <<>> /\ c \in {".", chr(text)} /\ matchstar(c, re, Tail(text))

match(re, text) ==
  IF chr(re) = "^" THEN matchhere(Tail(re), text)
  ELSE \E n \in 0 .. Len(text) : matchhere(re, skip(text, n))

(* find.c has a matcher of its own, for a whole name. *)
RECURSIVE find_match(_, _)
find_match(s, p) ==
  LET same == s # <<>> /\ chr(p) \in {".", chr(s)}
  IN  CASE p = <<>> -> s = <<>>
        [] p # <<>> /\ next(p) # "*" -> same /\ find_match(Tail(s), Tail(p))
        [] OTHER -> find_match(s, skip(p, 2)) \/ (same /\ find_match(Tail(s), p))

(***************************************************************************)
(* What they should compute: p is a sequence of atoms, a character or a    *)
(* character and a star, and text is cut into one piece for each of them.  *)
(***************************************************************************)
RECURSIVE Atoms(_)
Atoms(p) ==
  IF p = <<>> THEN <<>>
  ELSE LET star == next(p) = "*"
       IN  <<[char |-> chr(p), star |-> star]>> \o Atoms(skip(p, IF star THEN 2 ELSE 1))

Denotes(atoms, text) ==
  \E cut \in [0 .. Len(atoms) -> 0 .. Len(text)] :
    /\ cut[0] = 0 /\ cut[Len(atoms)] = Len(text)
    /\ \A n \in 1 .. Len(atoms) :
         /\ cut[n - 1] <= cut[n] /\ (~atoms[n].star => cut[n] = cut[n - 1] + 1)
         /\ \A k \in cut[n - 1] + 1 .. cut[n] : atoms[n].char \in {".", text[k]}

Found(re, text) ==
  LET begin == chr(re) = "^"
      all   == Atoms(IF begin THEN Tail(re) ELSE re)
      end   == all # <<>> /\ Last(all) = [char |-> "$", star |-> FALSE]
      atoms == IF end THEN Front(all) ELSE all
  IN  \E i \in 0 .. Len(text), j \in 0 .. Len(text) :
        /\ begin => i = 0
        /\ end => j = Len(text)
        /\ i <= j /\ Denotes(atoms, SubSeq(text, i + 1, j))
-------------------------------------------------------------------------------
(* string.c and ulib.c: mem is memory, an address is an index. *)
RECURSIVE copy_up(_, _, _, _), copy_down(_, _, _, _)
copy_up(mem, d, s, n) ==
  IF n = 0 THEN mem ELSE copy_up([mem EXCEPT ![d] = mem[s]], d + 1, s + 1, n - 1)
copy_down(mem, d, s, n) ==
  IF n = 0 THEN mem
  ELSE copy_down([mem EXCEPT ![d + n - 1] = mem[s + n - 1]], d, s, n - 1)

memmove(mem, d, s, n) ==
  IF s < d /\ s + n > d THEN copy_down(mem, d, s, n) ELSE copy_up(mem, d, s, n)

memmove_user(mem, d, s, n) ==
  IF s > d THEN copy_up(mem, d, s, n) ELSE copy_down(mem, d, s, n)

RECURSIVE strncmp(_, _, _)
strncmp(p, q, n) ==
  IF n > 0 /\ chr(p) # NUL /\ chr(p) = chr(q)
    THEN strncmp(Tail(p), Tail(q), n - 1)
    ELSE IF n = 0 \/ chr(p) = chr(q) THEN "same" ELSE "different"

(* The copying loops: done is what has been stored so far, n counts down. *)
RECURSIVE pad(_, _), strncpy(_, _, _), safestrcpy(_, _, _)
pad(done, n) == IF n > 0 THEN pad(Append(done, NUL), n - 1) ELSE done
strncpy(done, t, n) ==
  IF n <= 0 THEN pad(done, n - 1)
  ELSE IF chr(t) = NUL THEN pad(Append(done, NUL), n - 1)
  ELSE strncpy(Append(done, chr(t)), Tail(t), n - 1)

safestrcpy(done, t, n) ==
  CASE n <= 0 -> done
    [] n = 1 -> Append(done, NUL)
    [] n > 1 /\ chr(t) = NUL -> done \o <<NUL, NUL>>
    [] OTHER -> safestrcpy(Append(done, chr(t)), Tail(t), n - 1)

(* A name in a directory entry of n bytes, as strncmp() reads it again. *)
Field(s) == SelectSeq(s, LAMBDA c : c # NUL)

(* gets(buf, max): what is in buf when in is typed. *)
RECURSIVE gets(_, _, _)
gets(buf, in, max) ==
  IF Len(buf) + 1 >= max \/ in = <<>> THEN buf
  ELSE IF chr(in) = "nl" THEN Append(buf, chr(in))
  ELSE gets(Append(buf, chr(in)), Tail(in), max)

(* printint(): the digits of x, the last one first. *)
MINUS == 99
RECURSIVE digits(_, _, _)
digits(buf, x, b) ==
  IF x \div b = 0 THEN Append(buf, x % b) ELSE digits(Append(buf, x % b), x \div b, b)

printint(xx, b, sgn) ==
  LET neg == sgn /\ xx < 0
      buf == digits(<<>>, (IF neg THEN -xx ELSE xx) % Modulus, b)
  IN  Reverse(IF neg THEN Append(buf, MINUS) ELSE buf)

RECURSIVE atoi(_, _)
atoi(n, s) ==
  IF s = <<>> \/ s[1] \notin 0 .. 9 THEN n ELSE atoi((n * 10 + s[1]) % Modulus, Tail(s))

(* The number that a sequence of digits stands for. *)
Value(s, b) ==
  LET sum(S) == MapThenSumSet(LAMBDA k : s[k] * b ^ (Len(s) - k), S)
  IN  IF s[1] = MINUS THEN -sum(2 .. Len(s)) ELSE sum(1 .. Len(s))
-------------------------------------------------------------------------------
Start(j) ==
  CASE j.kind = "grep" -> [pc |-> "run", buf |-> <<>>, out |-> <<>>]
    [] j.kind = "wc" -> [pc |-> "run", l |-> 0, w |-> 0, c |-> 0, inword |-> FALSE]
    [] j.kind = "xargs" -> [pc |-> "run", param |-> <<>>, ignore |-> FALSE, out |-> <<>>, failed |-> FALSE]
    [] OTHER -> [pc |-> "done"]

TextInit ==
  /\ job \in Jobs
  /\ rest = IF "text" \in DOMAIN job THEN job.text ELSE <<>>
  /\ prog = Start(job)

strchr(s, c) == SelectInSeq(s, LAMBDA x : x = c)

(* grep(): every complete line in buf is matched and written or dropped. *)
RECURSIVE scan(_, _)
scan(p, out) ==
  LET q == strchr(p, "nl")
      line == SubSeq(p, 1, q - 1)
  IN  IF q = 0 THEN [buf |-> p, out |-> out]
      ELSE scan(skip(p, q), IF match(job.re, line) THEN Append(out, line) ELSE out)

running(kind) == job.kind = kind /\ prog.pc = "run"

(* A read() of at most max bytes returns n. *)
read(n, max) == n <= max /\ n <= Len(rest) /\ rest' = skip(rest, n)

room == BufSize - Len(prog.buf) - 1

(* Mutant: the incomplete line at the end of buf is forgotten. *)
grep_fresh(n) ==
  /\ running("grep") /\ read(n, room)
  /\ \E s \in {scan(prog.buf \o SubSeq(rest, 1, n), prog.out)} :
       prog' = [prog EXCEPT !.buf = <<>>, !.out = s.out]

grep(n) ==
  /\ running("grep") /\ read(n, room)
  /\ \E s \in {scan(prog.buf \o SubSeq(rest, 1, n), prog.out)} :
       prog' = [prog EXCEPT !.buf = s.buf, !.out = s.out]

(* read() returns 0: there is nothing to read, or nowhere to put it. *)
grep_end ==
  /\ running("grep") /\ (rest = <<>> \/ room = 0)
  /\ prog' = [prog EXCEPT !.pc = "done"]
  /\ UNCHANGED rest

(* wc() on the character x. *)
Space == {"sp", "nl"}
count(p, x) ==
  [p EXCEPT !.c = @ + 1,
            !.l = IF x = "nl" THEN @ + 1 ELSE @,
            !.w = IF x \notin Space /\ ~p.inword THEN @ + 1 ELSE @,
            !.inword = x \notin Space]

wc(n) ==
  /\ running("wc") /\ read(n, BufSize)
  /\ prog' = FoldLeft(count, prog, SubSeq(rest, 1, n))

wc_end == running("wc") /\ rest = <<>> /\ prog' = [prog EXCEPT !.pc = "done"] /\ UNCHANGED rest

(* The loop of xargs: the end of a line, with fork() or without, *)
xargs_line ==
  /\ running("xargs") /\ chr(rest) = "nl" /\ read(1, 1)
  /\ \/ prog.ignore /\ prog' = [prog EXCEPT !.param = <<>>, !.ignore = FALSE]
     \/ ~prog.ignore /\ prog' = [prog EXCEPT !.param = <<>>, !.out = Append(@, prog.param)]
     \/ ~prog.ignore /\ prog' = [prog EXCEPT !.param = <<>>, !.failed = TRUE]

(* and another character. *)
xargs_char ==
  /\ running("xargs") /\ rest # <<>> /\ chr(rest) # "nl" /\ read(1, 1)
  /\ \E ignore \in {prog.ignore \/ Len(prog.param) >= MAX_ARG_LEN - 1} :
       prog' = [prog EXCEPT !.ignore = ignore,
                            !.param = IF ignore THEN @ ELSE Append(@, chr(rest))]

xargs_end == running("xargs") /\ rest = <<>> /\ prog' = [prog EXCEPT !.pc = "done"] /\ UNCHANGED rest

TextNext ==
  /\ UNCHANGED job
  /\ \/ \E n \in 1 .. Len(rest) : grep(n)
     \/ grep_end
     \/ \E n \in 1 .. Len(rest) : wc(n)
     \/ wc_end
     \/ xargs_line
     \/ xargs_char
     \/ xargs_end
-------------------------------------------------------------------------------
(* The two matchers of grep and find agree with what a regular expression  *)
(* denotes; both memmove()s copy as if at once, however the areas overlap; *)
(* a name that strncpy() stored in a directory entry is found again by     *)
(* strncmp() and no other is, and safestrcpy() keeps within n bytes and    *)
(* ends with NUL; gets() takes one line at most; printint() writes the     *)
(* number it was given, the least int included, and atoi() reads it.       *)
MatchersAgree ==
  job.kind = "match" =>
    /\ match(job.re, job.text) = Found(job.re, job.text)
    /\ find_match(job.text, job.re) = Denotes(Atoms(job.re), job.text)

MovesAgree ==
  job.kind = "move" =>
    LET d == job.d  s == job.s  n == job.n
        moved == [a \in DOMAIN job.mem |-> job.mem[IF a \in d .. d + n - 1 THEN s + a - d ELSE a]]
    IN  memmove(job.mem, d, s, n) = moved /\ memmove_user(job.mem, d, s, n) = moved

NamesAgree ==
  job.kind = "name" =>
    LET cut(t) == SubSeq(t, 1, Min({Len(t), job.n}))
        entry == strncpy(<<>>, job.a, job.n)
        safe == safestrcpy(<<>>, job.a, job.n)
        typed == gets(<<>>, job.a, job.n + 1)
    IN  /\ Len(entry) = job.n
        /\ strncmp(job.b, Field(entry), job.n) = "same" <=> cut(job.b) = cut(job.a)
        /\ Len(safe) <= job.n
        /\ job.n > 0 => /\ Last(safe) = NUL
                        /\ Field(safe) = SubSeq(job.a, 1, Min({Len(job.a), job.n - 1}))
        /\ IsPrefix(typed, job.a) /\ Len(typed) <= job.n
        /\ \A k \in 1 .. Len(typed) - 1 : typed[k] # "nl"
        /\ typed = job.a \/ Len(typed) = job.n \/ Last(typed) = "nl"

NumbersAgree ==
  job.kind = "number" =>
    /\ Value(printint(job.xx, job.base, TRUE), job.base) = job.xx
    /\ Value(printint(job.xx, job.base, FALSE), job.base) = job.xx % Modulus
    /\ atoi(0, printint(job.xx, 10, FALSE)) = job.xx % Modulus

FunctionsAgree == MatchersAgree /\ MovesAgree /\ NamesAgree /\ NumbersAgree

(* However read() cuts the input into pieces: grep writes the lines that   *)
(* match, in order, up to the first line that does not fit in buf; wc      *)
(* counts lines, words and characters; xargs runs its command once for     *)
(* every line that fits in param, as long as fork() does not fail.         *)
Newlines(t) == SetToSortSeq({k \in 1 .. Len(t) : t[k] = "nl"}, <)
LinesOf(t) ==
  [k \in 1 .. Len(Newlines(t)) |->
     SubSeq(t, IF k = 1 THEN 1 ELSE Newlines(t)[k - 1] + 1, Newlines(t)[k] - 1)]
Fits(t) == LET long == SelectInSeq(LinesOf(t), LAMBDA l : Len(l) > BufSize - 2)
           IN  IF long = 0 THEN LinesOf(t) ELSE SubSeq(LinesOf(t), 1, long - 1)

StreamsAgree ==
  prog.pc = "done" =>
    CASE job.kind = "grep" -> prog.out = SelectSeq(Fits(job.text), LAMBDA l : Found(job.re, l))
      [] job.kind = "wc" ->
           /\ prog.l = Len(Newlines(job.text)) /\ prog.c = Len(job.text)
           /\ prog.w = Cardinality({k \in 1 .. Len(job.text) : job.text[k] \notin Space /\
                                       (k = 1 \/ job.text[k - 1] \in Space)})
      [] job.kind = "xargs" ->
           prog.failed \/ prog.out = SelectSeq(LinesOf(job.text), LAMBDA l : Len(l) <= MAX_ARG_LEN - 1)
      [] OTHER -> TRUE
===============================================================================
