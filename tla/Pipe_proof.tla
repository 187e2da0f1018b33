------------------------------ MODULE Pipe_proof ------------------------------
(***************************************************************************)
(* Proofs about Pipe for any number of writers and readers and any sizes   *)
(* that PipeAssumption allows: PipeOK is inductive and leaves nobody with  *)
(* a freed pipe; nobody sleeps without a reason; and the buffer with its   *)
(* counters implements ByteStream.                                         *)
(***************************************************************************)
EXTENDS Pipe, Integers, SequenceTheorems, TLAPS

(* Division by a positive number. *)
LEMMA DivMod ==
  ASSUME NEW a \in Int, NEW m \in Int, m > 0
  PROVE  a \div m \in Int /\ a % m \in 0 .. m - 1 /\ a = m * (a \div m) + (a % m)
<1>1. a = m * (a \div m) + (a % m) BY SMTT(30)
<1>2. a \div m \in Int OBVIOUS
<1>3. a % m \in 0 .. m - 1 OBVIOUS
<1> QED BY <1>1, <1>2, <1>3

(* A multiple of m other than 0 is at least m away from 0. *)
LEMMA Multiples ==
  ASSUME NEW m \in Int, m > 0, NEW k \in Int
  PROVE  (k >= 1 => m * k >= m) /\ (k <= -1 => m * k <= -m)
<1>1. ASSUME k >= 1 PROVE m * k >= m
  BY <1>1, SMTT(30)
<1>2. ASSUME k <= -1 PROVE m * k <= -m
  BY <1>2, SMTT(30)
<1> QED BY <1>1, <1>2

(* A multiple of m does not change the remainder: why a counter may wrap   *)
(* around at 2^32 when PIPESIZE divides 2^32. *)
LEMMA Shift ==
  ASSUME NEW x \in Int, NEW m \in Int, m > 0, NEW k \in Int, k % m = 0
  PROVE  (x + k) % m = x % m
<1> DEFINE q == x \div m
           r == x % m
           j == k \div m
           s == (x + k) \div m
           t == (x + k) % m
<1>0. x + k \in Int OBVIOUS
<1>1. q \in Int /\ r \in 0 .. m - 1 /\ x = m * q + r BY DivMod
<1>2. j \in Int /\ k = m * j BY DivMod
<1>3. s \in Int /\ t \in 0 .. m - 1 /\ x + k = m * s + t BY <1>0, DivMod
<1> DEFINE u == q + j
<1> HIDE DEF q, r, j, s, t
<1>4. u \in Int /\ m * u = m * q + m * j BY <1>1, <1>2
<1> HIDE DEF u
<1>5. s - u \in Int /\ m * (s - u) = m * s - m * u BY <1>3, <1>4
<1>6. m * (s - u) = r - t BY <1>1, <1>2, <1>3, <1>4, <1>5
<1>7. ~(s - u >= 1) /\ ~(s - u <= -1)
  BY <1>1, <1>3, <1>5, <1>6, Multiples
<1>8. s = u BY <1>7, <1>3, <1>4
<1>9. r = t BY <1>1, <1>2, <1>3, <1>4, <1>8
<1> QED BY <1>9 DEF r, t

(* Two numbers less than m apart have different remainders. *)
LEMMA Apart ==
  ASSUME NEW a \in Int, NEW b \in Int, NEW m \in Int, m > 0, a < b, b < a + m
  PROVE  a % m # b % m
<1> DEFINE q == a \div m
           r == a % m
           s == b \div m
           t == b % m
<1>1. q \in Int /\ r \in 0 .. m - 1 /\ a = m * q + r BY DivMod
<1>3. s \in Int /\ t \in 0 .. m - 1 /\ b = m * s + t BY DivMod
<1> HIDE DEF q, r, s, t
<1>4. SUFFICES ASSUME r = t PROVE FALSE BY DEF r, t
<1>5. s - q \in Int /\ m * (s - q) = m * s - m * q BY <1>1, <1>3
<1>6. m * (s - q) = b - a BY <1>1, <1>3, <1>4, <1>5
<1>7. ~(s - q >= 1) /\ ~(s - q <= -1)
  BY <1>5, <1>6, Multiples
<1>8. s = q BY <1>7, <1>1, <1>3
<1> QED BY <1>1, <1>3, <1>4, <1>8

(* The sums of counters that pipe.c makes, modulo their width. *)
LEMMA Wrap ==
  ASSUME NEW a \in 0 .. Modulus - 1, NEW b \in 0 .. Modulus - 1
  PROVE  /\ (b + Modulus - a) % Modulus = IF a <= b THEN b - a ELSE b + Modulus - a
         /\ (a + PIPESIZE) % Modulus =
              IF a + PIPESIZE < Modulus THEN a + PIPESIZE ELSE a + PIPESIZE - Modulus
         /\ (a + 1) % Modulus = IF a + 1 = Modulus THEN 0 ELSE a + 1
<1>1. Modulus \in Nat /\ PIPESIZE \in Nat /\ PIPESIZE > 0 /\ Modulus > PIPESIZE BY PipeAssumption
<1>2. \A x \in Nat : /\ x < Modulus => x % Modulus = x
                    /\ Modulus <= x /\ x < 2 * Modulus => x % Modulus = x - Modulus
  BY <1>1
<1> QED BY <1>1, <1>2

(* What the tests for a full and an empty pipe mean. *)
LEMMA Counters ==
  ASSUME TypeOK
  PROVE  /\ used = IF nread <= nwrite THEN nwrite - nread ELSE nwrite + Modulus - nread
         /\ used \in 0 .. Modulus - 1
         /\ full <=> used = PIPESIZE
         /\ nread = nwrite <=> used = 0
         /\ (nread + 1) % Modulus = IF nread + 1 = Modulus THEN 0 ELSE nread + 1
         /\ (nwrite + 1) % Modulus = IF nwrite + 1 = Modulus THEN 0 ELSE nwrite + 1
<1>1. nread \in 0 .. Modulus - 1 /\ nwrite \in 0 .. Modulus - 1 BY DEF TypeOK
<1>2. Modulus \in Nat /\ PIPESIZE \in Nat /\ PIPESIZE > 0 /\ Modulus > PIPESIZE BY PipeAssumption
<1>4. used = IF nread <= nwrite THEN nwrite - nread ELSE nwrite + Modulus - nread
  BY <1>1, Wrap DEF used
<1>6. full <=> used = PIPESIZE BY <1>1, <1>2, <1>4, Wrap DEF full
<1>7. /\ (nread + 1) % Modulus = IF nread + 1 = Modulus THEN 0 ELSE nread + 1
      /\ (nwrite + 1) % Modulus = IF nwrite + 1 = Modulus THEN 0 ELSE nwrite + 1
  BY <1>1, Wrap
<1> QED BY <1>1, <1>2, <1>4, <1>6, <1>7

(* pipewrite() adds one to the bytes in the pipe, and there was room. *)
LEMMA PutCounts ==
  ASSUME TypeOK, used <= PIPESIZE, NEW p \in Proc, NEW c \in Byte, pipewrite_byte(p, c)
  PROVE  nwrite' \in 0 .. Modulus - 1 /\ used # PIPESIZE /\ used' = used + 1
<1>1. nread \in 0 .. Modulus - 1 /\ nwrite \in 0 .. Modulus - 1 /\ Modulus \in Nat
  BY PipeAssumption DEF TypeOK
<1>2. nwrite' = (IF nwrite + 1 = Modulus THEN 0 ELSE nwrite + 1) /\ nread' = nread /\ used # PIPESIZE
  BY Counters DEF pipewrite_byte
<1>3. nwrite' \in 0 .. Modulus - 1
  BY <1>1, <1>2
<1>4. used' = IF nread' <= nwrite' THEN nwrite' - nread' ELSE nwrite' + Modulus - nread'
  BY <1>1, <1>2, <1>3, Wrap DEF used
<1>5. used' = used + 1
  BY <1>1, <1>2, <1>4, Counters, PipeAssumption
<1> QED BY <1>2, <1>3, <1>5

(* piperead() takes one from the bytes in the pipe, and there was one. *)
LEMMA GetCounts ==
  ASSUME TypeOK, used <= PIPESIZE, NEW p \in Proc, piperead_byte(p)
  PROVE  nread' \in 0 .. Modulus - 1 /\ used # 0 /\ used' = used - 1
<1>1. nread \in 0 .. Modulus - 1 /\ nwrite \in 0 .. Modulus - 1 /\ Modulus \in Nat
  BY PipeAssumption DEF TypeOK
<1>2. nread' = (IF nread + 1 = Modulus THEN 0 ELSE nread + 1) /\ nwrite' = nwrite /\ used # 0
  BY Counters DEF piperead_byte
<1>3. nread' \in 0 .. Modulus - 1
  BY <1>1, <1>2
<1>4. used' = IF nread' <= nwrite' THEN nwrite' - nread' ELSE nwrite' + Modulus - nread'
  BY ZenonT(30), <1>1, <1>2, <1>3, Wrap DEF used
<1>5. used' = used - 1
  BY <1>1, <1>2, <1>4, Counters, PipeAssumption
<1> QED BY <1>2, <1>3, <1>5

(* A call begins: nothing of the pipe changes. *)
LEMMA Call ==
  ASSUME PipeOK, NEW p \in Proc, call(p)
  PROVE  PipeOK'
<1>1. TypeOK'
  BY PipeAssumption DEF call, pipe, PipeOK, TypeOK, PC, EndsOK, Proc
<1>2. used' <= PIPESIZE
  BY DEF call, pipe, PipeOK, used
<1>3. ASSUME NEW q \in Proc PROVE EndsOK(q)'
  <2>1. CASE q = p
    BY <2>1, PipeAssumption DEF call, pipe, PipeOK, TypeOK, EndsOK, ends, Proc
  <2>2. CASE q # p
    BY <2>2, PipeAssumption DEF call, pipe, PipeOK, TypeOK, EndsOK, ends, Proc
  <2> QED BY <2>1, <2>2
<1>4. freed' => ~readopen' /\ ~writeopen'
  BY DEF call, pipe, PipeOK, TypeOK
<1> QED BY <1>1, <1>2, <1>3, <1>4 DEF PipeOK

(* pi->lock is taken. *)
LEMMA Acquire ==
  ASSUME PipeOK, NEW p \in Proc, acquire(p)
  PROVE  PipeOK'
<1>1. TypeOK'
  BY PipeAssumption DEF acquire, pipe, PipeOK, TypeOK, PC, EndsOK, Proc
<1>2. used' <= PIPESIZE
  BY DEF acquire, pipe, PipeOK, used
<1>3. ASSUME NEW q \in Proc PROVE EndsOK(q)'
  <2>1. CASE q = p
    BY <2>1, PipeAssumption DEF acquire, pipe, PipeOK, TypeOK, EndsOK, ends, Proc
  <2>2. CASE q # p
    BY <2>2, PipeAssumption DEF acquire, pipe, PipeOK, TypeOK, EndsOK, ends, Proc
  <2> QED BY <2>1, <2>2
<1>4. freed' => ~readopen' /\ ~writeopen'
  BY DEF acquire, pipe, PipeOK, TypeOK
<1> QED BY <1>1, <1>2, <1>3, <1>4 DEF PipeOK

(* pipewrite() returns. *)
LEMMA PipewriteDone ==
  ASSUME PipeOK, NEW p \in Proc, pipewrite_done(p)
  PROVE  PipeOK'
<1>1. TypeOK'
  BY PipeAssumption DEF pipewrite_done, return, wakeup, pipe, PipeOK, TypeOK, PC, EndsOK, Proc
<1>2. used' <= PIPESIZE
  BY DEF pipewrite_done, return, wakeup, pipe, PipeOK, used
<1>3. ASSUME NEW q \in Proc PROVE EndsOK(q)'
  <2>1. CASE q = p
    BY <2>1, PipeAssumption DEF pipewrite_done, return, wakeup, pipe, PipeOK, TypeOK, EndsOK,
       ends, Proc
  <2>2. CASE q # p
    BY SMTT(30), <2>2, PipeAssumption DEF pipewrite_done, return, wakeup, pipe, PipeOK, TypeOK, EndsOK,
       ends, Proc
  <2> QED BY <2>1, <2>2
<1>4. freed' => ~readopen' /\ ~writeopen'
  BY DEF pipewrite_done, return, wakeup, pipe, PipeOK, TypeOK
<1> QED BY <1>1, <1>2, <1>3, <1>4 DEF PipeOK

(* pipewrite() gives up. *)
LEMMA PipewriteError ==
  ASSUME PipeOK, NEW p \in Proc, pipewrite_error(p)
  PROVE  PipeOK'
<1>1. TypeOK'
  BY PipeAssumption DEF pipewrite_error, return, wakeup, pipe, PipeOK, TypeOK, PC, EndsOK, Proc
<1>2. used' <= PIPESIZE
  BY DEF pipewrite_error, return, wakeup, pipe, PipeOK, used
<1>3. ASSUME NEW q \in Proc PROVE EndsOK(q)'
  <2>1. CASE q = p
    BY <2>1, PipeAssumption DEF pipewrite_error, return, wakeup, pipe, PipeOK, TypeOK, EndsOK,
       ends, Proc
  <2>2. CASE q # p
    BY <2>2, PipeAssumption DEF pipewrite_error, return, wakeup, pipe, PipeOK, TypeOK, EndsOK,
       ends, Proc
  <2> QED BY <2>1, <2>2
<1>4. freed' => ~readopen' /\ ~writeopen'
  BY DEF pipewrite_error, return, wakeup, pipe, PipeOK, TypeOK
<1> QED BY <1>1, <1>2, <1>3, <1>4 DEF PipeOK

(* pipewrite() finds the pipe full. *)
LEMMA PipewriteFull ==
  ASSUME PipeOK, NEW p \in Proc, pipewrite_full(p)
  PROVE  PipeOK'
<1>1. TypeOK'
  BY PipeAssumption DEF pipewrite_full, wakeup, pipe, PipeOK, TypeOK, PC, EndsOK, Proc
<1>2. used' <= PIPESIZE
  BY DEF pipewrite_full, wakeup, pipe, PipeOK, used
<1>3. ASSUME NEW q \in Proc PROVE EndsOK(q)'
  <2>1. CASE q = p
    BY <2>1, PipeAssumption DEF pipewrite_full, wakeup, pipe, PipeOK, TypeOK, EndsOK, ends, Proc
  <2>2. CASE q # p
    BY <2>2, PipeAssumption DEF pipewrite_full, wakeup, pipe, PipeOK, TypeOK, EndsOK, ends, Proc
  <2> QED BY <2>1, <2>2
<1>4. freed' => ~readopen' /\ ~writeopen'
  BY DEF pipewrite_full, wakeup, pipe, PipeOK, TypeOK
<1> QED BY <1>1, <1>2, <1>3, <1>4 DEF PipeOK

(* A byte goes in: there was room for it. *)
LEMMA PipewriteByte ==
  ASSUME PipeOK, NEW p \in Proc, NEW c \in Byte, pipewrite_byte(p, c)
  PROVE  PipeOK'
<1>1. TypeOK'
  BY PipeAssumption DEF pipewrite_byte, PipeOK, TypeOK, PC, EndsOK, Proc
<1>2. used' <= PIPESIZE
  BY PutCounts, Counters, PipeAssumption DEF PipeOK
<1>3. ASSUME NEW q \in Proc PROVE EndsOK(q)'
  <2>1. CASE q = p
    BY <2>1, PipeAssumption DEF pipewrite_byte, PipeOK, TypeOK, EndsOK, ends, Proc
  <2>2. CASE q # p
    BY <2>2, PipeAssumption DEF pipewrite_byte, PipeOK, TypeOK, EndsOK, ends, Proc
  <2> QED BY <2>1, <2>2
<1>4. freed' => ~readopen' /\ ~writeopen'
  BY DEF pipewrite_byte, PipeOK, TypeOK
<1> QED BY <1>1, <1>2, <1>3, <1>4 DEF PipeOK

(* pi->lock is released by sleep(). *)
LEMMA Sleep ==
  ASSUME PipeOK, NEW p \in Proc, sleep(p)
  PROVE  PipeOK'
<1>1. TypeOK'
  BY PipeAssumption DEF sleep, pipe, PipeOK, TypeOK, PC, EndsOK, Proc
<1>2. used' <= PIPESIZE
  BY DEF sleep, pipe, PipeOK, used
<1>3. ASSUME NEW q \in Proc PROVE EndsOK(q)'
  <2>1. CASE q = p
    BY <2>1, PipeAssumption DEF sleep, pipe, PipeOK, TypeOK, EndsOK, ends, Proc
  <2>2. CASE q # p
    BY <2>2, PipeAssumption DEF sleep, pipe, PipeOK, TypeOK, EndsOK, ends, Proc
  <2> QED BY <2>1, <2>2
<1>4. freed' => ~readopen' /\ ~writeopen'
  BY DEF sleep, pipe, PipeOK, TypeOK
<1> QED BY <1>1, <1>2, <1>3, <1>4 DEF PipeOK

(* piperead() gives up. *)
LEMMA PipereadError ==
  ASSUME PipeOK, NEW p \in Proc, piperead_error(p)
  PROVE  PipeOK'
<1>1. TypeOK'
  BY PipeAssumption DEF piperead_error, return, wakeup, pipe, PipeOK, TypeOK, PC, EndsOK, Proc
<1>2. used' <= PIPESIZE
  BY DEF piperead_error, return, wakeup, pipe, PipeOK, used
<1>3. ASSUME NEW q \in Proc PROVE EndsOK(q)'
  <2>1. CASE q = p
    BY <2>1, PipeAssumption DEF piperead_error, return, wakeup, pipe, PipeOK, TypeOK, EndsOK,
       ends, Proc
  <2>2. CASE q # p
    BY <2>2, PipeAssumption DEF piperead_error, return, wakeup, pipe, PipeOK, TypeOK, EndsOK,
       ends, Proc
  <2> QED BY <2>1, <2>2
<1>4. freed' => ~readopen' /\ ~writeopen'
  BY DEF piperead_error, return, wakeup, pipe, PipeOK, TypeOK
<1> QED BY <1>1, <1>2, <1>3, <1>4 DEF PipeOK

(* piperead() finds the pipe empty. *)
LEMMA PipereadEmpty ==
  ASSUME PipeOK, NEW p \in Proc, piperead_empty(p)
  PROVE  PipeOK'
<1>1. TypeOK'
  BY PipeAssumption DEF piperead_empty, pipe, PipeOK, TypeOK, PC, EndsOK, Proc
<1>2. used' <= PIPESIZE
  BY DEF piperead_empty, pipe, PipeOK, used
<1>3. ASSUME NEW q \in Proc PROVE EndsOK(q)'
  <2>1. CASE q = p
    BY <2>1, PipeAssumption DEF piperead_empty, pipe, PipeOK, TypeOK, EndsOK, ends, Proc
  <2>2. CASE q # p
    BY <2>2, PipeAssumption DEF piperead_empty, pipe, PipeOK, TypeOK, EndsOK, ends, Proc
  <2> QED BY <2>1, <2>2
<1>4. freed' => ~readopen' /\ ~writeopen'
  BY DEF piperead_empty, pipe, PipeOK, TypeOK
<1> QED BY <1>1, <1>2, <1>3, <1>4 DEF PipeOK

(* piperead() turns to copying. *)
LEMMA PipereadCopy ==
  ASSUME PipeOK, NEW p \in Proc, piperead_copy(p)
  PROVE  PipeOK'
<1>1. TypeOK'
  BY PipeAssumption DEF piperead_copy, pipe, PipeOK, TypeOK, PC, EndsOK, Proc
<1>2. used' <= PIPESIZE
  BY DEF piperead_copy, pipe, PipeOK, used
<1>3. ASSUME NEW q \in Proc PROVE EndsOK(q)'
  <2>1. CASE q = p
    BY <2>1, PipeAssumption DEF piperead_copy, pipe, PipeOK, TypeOK, EndsOK, ends, Proc
  <2>2. CASE q # p
    BY <2>2, PipeAssumption DEF piperead_copy, pipe, PipeOK, TypeOK, EndsOK, ends, Proc
  <2> QED BY <2>1, <2>2
<1>4. freed' => ~readopen' /\ ~writeopen'
  BY DEF piperead_copy, pipe, PipeOK, TypeOK
<1> QED BY <1>1, <1>2, <1>3, <1>4 DEF PipeOK

(* A byte comes out: there was one. *)
LEMMA PipereadByte ==
  ASSUME PipeOK, NEW p \in Proc, piperead_byte(p)
  PROVE  PipeOK'
<1>1. TypeOK'
  BY SMTT(30), PipeAssumption DEF piperead_byte, PipeOK, TypeOK, PC, EndsOK, Proc
<1>2. used' <= PIPESIZE
  BY GetCounts, Counters, PipeAssumption DEF PipeOK
<1>3. ASSUME NEW q \in Proc PROVE EndsOK(q)'
  <2>1. CASE q = p
    BY <2>1, PipeAssumption DEF piperead_byte, PipeOK, TypeOK, EndsOK, ends, Proc
  <2>2. CASE q # p
    BY <2>2, PipeAssumption DEF piperead_byte, PipeOK, TypeOK, EndsOK, ends, Proc
  <2> QED BY <2>1, <2>2
<1>4. freed' => ~readopen' /\ ~writeopen'
  BY DEF piperead_byte, PipeOK, TypeOK
<1> QED BY <1>1, <1>2, <1>3, <1>4 DEF PipeOK

(* piperead() returns. *)
LEMMA PipereadDone ==
  ASSUME PipeOK, NEW p \in Proc, piperead_done(p)
  PROVE  PipeOK'
<1>1. TypeOK'
  BY PipeAssumption DEF piperead_done, return, wakeup, wakeup_nwrite, pipe, PipeOK, TypeOK, PC,
     EndsOK, Proc
<1>2. used' <= PIPESIZE
  BY DEF piperead_done, return, wakeup, wakeup_nwrite, pipe, PipeOK, used
<1>3. ASSUME NEW q \in Proc PROVE EndsOK(q)'
  <2>1. CASE q = p
    BY SMTT(30), <2>1, PipeAssumption DEF piperead_done, return, wakeup, wakeup_nwrite, pipe, PipeOK,
       TypeOK, EndsOK, ends, Proc
  <2>2. CASE q # p
    BY <2>2, PipeAssumption DEF piperead_done, return, wakeup, wakeup_nwrite, pipe, PipeOK,
       TypeOK, EndsOK, ends, Proc
  <2> QED BY <2>1, <2>2
<1>4. freed' => ~readopen' /\ ~writeopen'
  BY DEF piperead_done, return, wakeup, wakeup_nwrite, pipe, PipeOK, TypeOK
<1> QED BY <1>1, <1>2, <1>3, <1>4 DEF PipeOK

(* A descriptor is closed. *)
LEMMA Fileclose ==
  ASSUME PipeOK, NEW p \in Proc, fileclose(p)
  PROVE  PipeOK'
<1>1. TypeOK'
  BY PipeAssumption DEF fileclose, pipe, PipeOK, TypeOK, PC, EndsOK, Proc
<1>2. used' <= PIPESIZE
  BY DEF fileclose, pipe, PipeOK, used
<1>3. ASSUME NEW q \in Proc PROVE EndsOK(q)'
  <2>1. CASE q = p
    BY <2>1, PipeAssumption DEF fileclose, pipe, PipeOK, TypeOK, EndsOK, ends, Proc
  <2>2. CASE q # p
    BY <2>2, PipeAssumption DEF fileclose, pipe, PipeOK, TypeOK, EndsOK, ends, Proc
  <2> QED BY <2>1, <2>2
<1>4. freed' => ~readopen' /\ ~writeopen'
  BY DEF fileclose, pipe, PipeOK, TypeOK
<1> QED BY <1>1, <1>2, <1>3, <1>4 DEF PipeOK

(* The last descriptor of an end is closed, and with the second end the pipe is freed. *)
LEMMA Pipeclose ==
  ASSUME PipeOK, NEW p \in Proc, pipeclose(p)
  PROVE  PipeOK'
<1>1. TypeOK'
  BY PipeAssumption DEF pipeclose, close_wakeup, wakeup, both_closed, PipeOK, TypeOK, PC, EndsOK,
     Proc
<1>2. used' <= PIPESIZE
  BY DEF pipeclose, close_wakeup, wakeup, both_closed, PipeOK, used
<1>3. ASSUME NEW q \in Proc PROVE EndsOK(q)'
  <2>1. CASE q = p
    BY SMTT(30), <2>1, PipeAssumption DEF pipeclose, close_wakeup, wakeup, both_closed, PipeOK, TypeOK,
       EndsOK, ends, Proc
  <2>2. CASE q # p
    BY <2>2, PipeAssumption DEF pipeclose, close_wakeup, wakeup, both_closed, PipeOK, TypeOK,
       EndsOK, ends, Proc
  <2> QED BY <2>1, <2>2
<1>4. freed' => ~readopen' /\ ~writeopen'
  BY DEF pipeclose, close_wakeup, wakeup, both_closed, PipeOK, TypeOK
<1> QED BY <1>1, <1>2, <1>3, <1>4 DEF PipeOK

(* A process is killed. *)
LEMMA Kill ==
  ASSUME PipeOK, NEW p \in Proc, kill(p)
  PROVE  PipeOK'
<1>1. TypeOK'
  BY SMTT(30), PipeAssumption DEF kill, wakeup, pipe, PipeOK, TypeOK, PC, EndsOK, Proc
<1>2. used' <= PIPESIZE
  BY DEF kill, wakeup, pipe, PipeOK, used
<1>3. ASSUME NEW q \in Proc PROVE EndsOK(q)'
  <2>1. CASE q = p
    BY SMTT(30), <2>1, PipeAssumption DEF kill, wakeup, pipe, PipeOK, TypeOK, EndsOK, ends, Proc
  <2>2. CASE q # p
    BY <2>2, PipeAssumption DEF kill, wakeup, pipe, PipeOK, TypeOK, EndsOK, ends, Proc
  <2> QED BY <2>1, <2>2
<1>4. freed' => ~readopen' /\ ~writeopen'
  BY DEF kill, wakeup, pipe, PipeOK, TypeOK
<1> QED BY <1>1, <1>2, <1>3, <1>4 DEF PipeOK

(* Every step keeps the inductive invariant. *)
LEMMA StepKeepsPipe ==
  ASSUME PipeOK, [Next]_vars PROVE PipeOK'
<1>1. CASE UNCHANGED vars
  BY <1>1 DEF vars, PipeOK, TypeOK, used, EndsOK, ends
<1>2. CASE Next
  BY <1>2, Call, Acquire, PipewriteDone, PipewriteError, PipewriteFull, PipewriteByte, Sleep,
     PipereadError, PipereadEmpty, PipereadCopy, PipereadByte, PipereadDone, Fileclose,
     Pipeclose, Kill DEF Next
<1> QED BY <1>1, <1>2

(* pipealloc() returns a pipe in order. *)
LEMMA InitIsOK ==
  ASSUME Init PROVE PipeOK
<1>0. (CHOOSE c \in Byte : TRUE) \in Byte
  BY PipeAssumption
<1>1. TypeOK
  <2>1. data \in [0 .. PIPESIZE - 1 -> Byte]
    BY <1>0, Zenon DEF Init
  <2>2. /\ nread = 0 /\ nwrite = 0 /\ readopen = TRUE /\ writeopen = TRUE /\ freed = FALSE
        /\ lock = NULL /\ open = Proc /\ killed = {}
        /\ pc = [p \in Proc |-> "idle"] /\ n = [p \in Proc |-> 0] /\ i = [p \in Proc |-> 0]
    BY Zenon DEF Init
  <2>3. 0 \in 0 .. Modulus - 1 /\ 0 \in 0 .. MaxCount
    BY PipeAssumption
  <2>4. pc \in [Proc -> PC] /\ n \in [Proc -> 0 .. MaxCount] /\ i \in [Proc -> 0 .. MaxCount]
    BY <2>2, <2>3 DEF PC
  <2>5. readopen \in BOOLEAN /\ writeopen \in BOOLEAN /\ freed \in BOOLEAN
    BY ZenonT(30), <2>2
  <2>6. lock \in Proc \cup {NULL} /\ open \subseteq Proc /\ killed \subseteq Proc
    BY <2>2
  <2>7. nread \in 0 .. Modulus - 1 /\ nwrite \in 0 .. Modulus - 1
    BY <2>2, <2>3
  <2> QED BY <2>1, <2>4, <2>5, <2>6, <2>7, Zenon DEF TypeOK
<1>2. used <= PIPESIZE
  BY <1>1, Counters, PipeAssumption DEF Init
<1>3. \A p \in Proc : EndsOK(p)
  BY PipeAssumption DEF Init, EndsOK, ends
<1> QED BY <1>1, <1>2, <1>3 DEF PipeOK, Init

(* A process with a descriptor, or in pipeclose(), has its end of the pipe  *)
(* open; a freed pipe has both closed. *)
LEMMA OKIsSafe ==
  ASSUME PipeOK PROVE NoUseAfterFree
<1>1. SUFFICES ASSUME freed PROVE open = {} /\ \A p \in Proc : pc[p] = "idle"
  BY DEF NoUseAfterFree
<1>2. ~readopen /\ ~writeopen BY <1>1 DEF PipeOK
<1>3. ASSUME NEW p \in Proc PROVE p \notin open /\ pc[p] = "idle"
  BY <1>2 DEF PipeOK, EndsOK, Proc
<1> QED BY <1>3 DEF PipeOK, TypeOK

(* For every size and any number of processes: pi->lock excludes, the        *)
(* buffer never holds more than PIPESIZE bytes, and pipeclose() frees the  *)
(* page under nobody. *)
THEOREM PipeKept == Spec => []PipeInv
<1>1. Init => PipeOK BY InitIsOK
<1>2. PipeOK /\ [Next]_vars => PipeOK' BY StepKeepsPipe
<1>3. PipeOK => PipeInv BY OKIsSafe DEF PipeInv
<1> QED BY <1>1, <1>2, <1>3, PTL DEF Spec

(* A sleeper's reason goes away only with a wakeup, or with a wakeup still  *)
(* to come from the process that has pi->lock. *)
LEMMA StepWakes ==
  ASSUME PipeOK, SleepsForAReason, [Next]_vars
  PROVE  SleepsForAReason'
<1>0. CASE UNCHANGED vars
  BY <1>0 DEF vars, SleepsForAReason, DataWakesReader, SpaceWakesWriter, must_wait, full
<1>1. ASSUME NEW p \in Proc, call(p) PROVE SleepsForAReason'
  <2>1. DataWakesReader'
    BY SMTT(30), <1>1, PipeAssumption DEF call, pipe, PipeOK, TypeOK, EndsOK, ends, Proc, SleepsForAReason,
       DataWakesReader, must_wait
  <2>2. SpaceWakesWriter'
    BY <1>1, PipeAssumption DEF call, pipe, PipeOK, TypeOK, EndsOK, ends, Proc, SleepsForAReason,
       SpaceWakesWriter, full
  <2> QED BY <2>1, <2>2 DEF SleepsForAReason
<1>2. ASSUME NEW p \in Proc, acquire(p) PROVE SleepsForAReason'
  <2>1. DataWakesReader'
    BY SMTT(30), <1>2, PipeAssumption DEF acquire, pipe, PipeOK, TypeOK, EndsOK, ends, Proc,
       SleepsForAReason, DataWakesReader, must_wait
  <2>2. SpaceWakesWriter'
    BY SMTT(30), <1>2, PipeAssumption DEF acquire, pipe, PipeOK, TypeOK, EndsOK, ends, Proc,
       SleepsForAReason, SpaceWakesWriter, full
  <2> QED BY <2>1, <2>2 DEF SleepsForAReason
<1>3. ASSUME NEW p \in Proc, pipewrite_done(p) PROVE SleepsForAReason'
  <2>1. DataWakesReader'
    BY SMTT(30), <1>3, PipeAssumption DEF pipewrite_done, return, wakeup, pipe, PipeOK, TypeOK, EndsOK,
       ends, Proc, SleepsForAReason, DataWakesReader, must_wait
  <2>2. SpaceWakesWriter'
    BY SMTT(30), <1>3, PipeAssumption DEF pipewrite_done, return, wakeup, pipe, PipeOK, TypeOK, EndsOK,
       ends, Proc, SleepsForAReason, SpaceWakesWriter, full
  <2> QED BY <2>1, <2>2 DEF SleepsForAReason
<1>4. ASSUME NEW p \in Proc, pipewrite_error(p) PROVE SleepsForAReason'
  <2>1. DataWakesReader'
    BY SMTT(30), <1>4, PipeAssumption DEF pipewrite_error, return, wakeup, pipe, PipeOK, TypeOK, EndsOK,
       ends, Proc, SleepsForAReason, DataWakesReader, must_wait
  <2>2. SpaceWakesWriter'
    BY SMTT(30), <1>4, PipeAssumption DEF pipewrite_error, return, wakeup, pipe, PipeOK, TypeOK, EndsOK,
       ends, Proc, SleepsForAReason, SpaceWakesWriter, full
  <2> QED BY <2>1, <2>2 DEF SleepsForAReason
<1>5. ASSUME NEW p \in Proc, pipewrite_full(p) PROVE SleepsForAReason'
  <2>1. DataWakesReader'
    BY SMTT(30), <1>5, PipeAssumption DEF pipewrite_full, wakeup, pipe, PipeOK, TypeOK, EndsOK, ends, Proc,
       SleepsForAReason, DataWakesReader, must_wait
  <2>2. SpaceWakesWriter'
    BY <1>5, PipeAssumption DEF pipewrite_full, wakeup, pipe, PipeOK, TypeOK, EndsOK, ends, Proc,
       SleepsForAReason, SpaceWakesWriter, full
  <2> QED BY <2>1, <2>2 DEF SleepsForAReason
<1>6. ASSUME NEW p \in Proc, NEW c \in Byte, pipewrite_byte(p, c) PROVE SleepsForAReason'
  <2>1. DataWakesReader'
    BY SMTT(30), <1>6, PipeAssumption DEF pipewrite_byte, PipeOK, TypeOK, EndsOK, ends, Proc,
       SleepsForAReason, DataWakesReader, must_wait
  <2>2. SpaceWakesWriter'
    BY SMTT(30), <1>6, PipeAssumption DEF pipewrite_byte, PipeOK, TypeOK, EndsOK, ends, Proc,
       SleepsForAReason, SpaceWakesWriter, full
  <2> QED BY <2>1, <2>2 DEF SleepsForAReason
<1>7. ASSUME NEW p \in Proc, sleep(p) PROVE SleepsForAReason'
  <2>1. DataWakesReader'
    BY SMTT(30), <1>7, PipeAssumption DEF sleep, pipe, PipeOK, TypeOK, EndsOK, ends, Proc,
       SleepsForAReason, DataWakesReader, must_wait
  <2>2. SpaceWakesWriter'
    BY SMTT(30), <1>7, PipeAssumption DEF sleep, pipe, PipeOK, TypeOK, EndsOK, ends, Proc,
       SleepsForAReason, SpaceWakesWriter, full
  <2> QED BY <2>1, <2>2 DEF SleepsForAReason
<1>8. ASSUME NEW p \in Proc, piperead_error(p) PROVE SleepsForAReason'
  <2>1. DataWakesReader'
    BY SMTT(30), <1>8, PipeAssumption DEF piperead_error, return, wakeup, pipe, PipeOK, TypeOK, EndsOK,
       ends, Proc, SleepsForAReason, DataWakesReader, must_wait
  <2>2. SpaceWakesWriter'
    BY SMTT(30), <1>8, PipeAssumption DEF piperead_error, return, wakeup, pipe, PipeOK, TypeOK, EndsOK,
       ends, Proc, SleepsForAReason, SpaceWakesWriter, full
  <2> QED BY <2>1, <2>2 DEF SleepsForAReason
<1>9. ASSUME NEW p \in Proc, piperead_empty(p) PROVE SleepsForAReason'
  <2>1. DataWakesReader'
    BY SMTT(30), <1>9, PipeAssumption DEF piperead_empty, pipe, PipeOK, TypeOK, EndsOK, ends, Proc,
       SleepsForAReason, DataWakesReader, must_wait
  <2>2. SpaceWakesWriter'
    BY SMTT(30), <1>9, PipeAssumption DEF piperead_empty, pipe, PipeOK, TypeOK, EndsOK, ends, Proc,
       SleepsForAReason, SpaceWakesWriter, full
  <2> QED BY <2>1, <2>2 DEF SleepsForAReason
<1>10. ASSUME NEW p \in Proc, piperead_copy(p) PROVE SleepsForAReason'
  <2>1. DataWakesReader'
    BY SMTT(30), <1>10, PipeAssumption DEF piperead_copy, pipe, PipeOK, TypeOK, EndsOK, ends, Proc,
       SleepsForAReason, DataWakesReader, must_wait
  <2>2. SpaceWakesWriter'
    BY <1>10, PipeAssumption DEF piperead_copy, pipe, PipeOK, TypeOK, EndsOK, ends, Proc,
       SleepsForAReason, SpaceWakesWriter, full
  <2> QED BY <2>1, <2>2 DEF SleepsForAReason
<1>11. ASSUME NEW p \in Proc, piperead_byte(p) PROVE SleepsForAReason'
  <2>1. DataWakesReader'
    BY SMTT(30), <1>11, PipeAssumption DEF piperead_byte, PipeOK, TypeOK, EndsOK, ends, Proc,
       SleepsForAReason, DataWakesReader, must_wait
  <2>2. SpaceWakesWriter'
    BY SMTT(30), <1>11, PipeAssumption DEF piperead_byte, PipeOK, TypeOK, EndsOK, ends, Proc,
       SleepsForAReason, SpaceWakesWriter, full
  <2> QED BY <2>1, <2>2 DEF SleepsForAReason
<1>12. ASSUME NEW p \in Proc, piperead_done(p) PROVE SleepsForAReason'
  <2>1. DataWakesReader'
    BY ZenonT(30), <1>12, PipeAssumption DEF piperead_done, return, wakeup, wakeup_nwrite, pipe, PipeOK,
       TypeOK, EndsOK, ends, Proc, SleepsForAReason, DataWakesReader, must_wait
  <2>2. SpaceWakesWriter'
    BY <1>12, PipeAssumption DEF piperead_done, return, wakeup, wakeup_nwrite, pipe, PipeOK,
       TypeOK, EndsOK, ends, Proc, SleepsForAReason, SpaceWakesWriter, full
  <2> QED BY <2>1, <2>2 DEF SleepsForAReason
<1>13. ASSUME NEW p \in Proc, fileclose(p) PROVE SleepsForAReason'
  <2>1. DataWakesReader'
    BY SMTT(30), <1>13, PipeAssumption DEF fileclose, pipe, PipeOK, TypeOK, EndsOK, ends, Proc,
       SleepsForAReason, DataWakesReader, must_wait
  <2>2. SpaceWakesWriter'
    BY SMTT(30), <1>13, PipeAssumption DEF fileclose, pipe, PipeOK, TypeOK, EndsOK, ends, Proc,
       SleepsForAReason, SpaceWakesWriter, full
  <2> QED BY <2>1, <2>2 DEF SleepsForAReason
<1>14. ASSUME NEW p \in Proc, pipeclose(p) PROVE SleepsForAReason'
  <2>1. DataWakesReader'
    BY SMTT(30), <1>14, PipeAssumption DEF pipeclose, close_wakeup, wakeup, both_closed, PipeOK, TypeOK,
       EndsOK, ends, Proc, SleepsForAReason, DataWakesReader, must_wait
  <2>2. SpaceWakesWriter'
    BY SMTT(30), <1>14, PipeAssumption DEF pipeclose, close_wakeup, wakeup, both_closed, PipeOK, TypeOK,
       EndsOK, ends, Proc, SleepsForAReason, SpaceWakesWriter, full
  <2> QED BY <2>1, <2>2 DEF SleepsForAReason
<1>15. ASSUME NEW p \in Proc, kill(p) PROVE SleepsForAReason'
  <2>1. DataWakesReader'
    BY SMTT(30), <1>15, PipeAssumption DEF kill, wakeup, pipe, PipeOK, TypeOK, EndsOK, ends, Proc,
       SleepsForAReason, DataWakesReader, must_wait
  <2>2. SpaceWakesWriter'
    BY <1>15, PipeAssumption DEF kill, wakeup, pipe, PipeOK, TypeOK, EndsOK, ends, Proc,
       SleepsForAReason, SpaceWakesWriter, full
  <2> QED BY <2>1, <2>2 DEF SleepsForAReason
<1> QED BY <1>0, <1>1, <1>2, <1>3, <1>4, <1>5, <1>6, <1>7, <1>8, <1>9, <1>10, <1>11, <1>12,
   <1>13, <1>14, <1>15 DEF Next

(* piperead() and pipewrite() never sleep through data, space or the close  *)
(* of the other end, but for the bytes of a killed writer. *)
THEOREM SleepersHaveReason == Spec => []SleepsForAReason
<1>1. Init => PipeOK /\ SleepsForAReason
  BY ZenonT(30), InitIsOK DEF Init, SleepsForAReason, DataWakesReader, SpaceWakesWriter, Proc
<1>2. PipeOK /\ [Next]_vars => PipeOK' BY StepKeepsPipe
<1>3. PipeOK /\ SleepsForAReason /\ [Next]_vars => SleepsForAReason' BY StepWakes
<1> QED BY <1>1, <1>2, <1>3, PTL DEF Spec

(* The bytes that lie in the buffer from a place on. *)
LEMMA Buffer ==
  ASSUME NEW d \in [0 .. PIPESIZE - 1 -> Byte], NEW r \in Nat, NEW u \in Nat
  PROVE  [k \in 1 .. u |-> d[(r + k - 1) % PIPESIZE]] \in [1 .. u -> Byte]
<1>1. ASSUME NEW k \in 1 .. u PROVE (r + k - 1) % PIPESIZE \in 0 .. PIPESIZE - 1
  BY PipeAssumption
<1> QED BY ZenonT(30), <1>1

(* Such bytes are a sequence. *)
LEMMA FunctionIsSeq ==
  ASSUME NEW u \in Nat, NEW s \in [1 .. u -> Byte]
  PROVE  s \in Seq(Byte) /\ Len(s) = u
<1>1. s \in Seq(Byte)
  BY SeqDef
<1> QED BY <1>1

(* Where the next byte goes: behind the last one, on none of those in the   *)
(* buffer, also when the counters wrap around. *)
LEMMA Places ==
  ASSUME TypeOK, used <= PIPESIZE
  PROVE  /\ (nread + used) % PIPESIZE = nwrite % PIPESIZE
         /\ used < PIPESIZE => \A k \in 1 .. used : (nread + k - 1) % PIPESIZE # nwrite % PIPESIZE
         /\ \A k \in Nat : (((nread + 1) % Modulus) + k) % PIPESIZE = (nread + 1 + k) % PIPESIZE
<1>1. /\ nread \in Int /\ nwrite \in Int /\ nread \in Nat /\ nwrite \in Nat /\ used \in Nat
      /\ Modulus \in Int /\ PIPESIZE \in Int /\ PIPESIZE > 0 /\ Modulus % PIPESIZE = 0
  BY Counters, PipeAssumption DEF TypeOK
<1>2. (nread + used) % PIPESIZE = nwrite % PIPESIZE
  <2>1. nread + used = nwrite \/ nread + used = nwrite + Modulus
    BY <1>1, Counters
  <2>2. (nwrite + Modulus) % PIPESIZE = nwrite % PIPESIZE
    BY <1>1, Shift
  <2> QED BY <2>1, <2>2
<1>3. ASSUME used < PIPESIZE, NEW k \in 1 .. used
      PROVE  (nread + k - 1) % PIPESIZE # nwrite % PIPESIZE
  <2> DEFINE a == nread + k - 1
             b == nread + used
  <2>1. a \in Int /\ b \in Int /\ a < b /\ b < a + PIPESIZE
    BY <1>1, <1>3
  <2> HIDE DEF a, b
  <2>2. a % PIPESIZE # b % PIPESIZE
    BY <1>1, <2>1, Apart
  <2> QED BY <1>2, <2>2 DEF a, b
<1>4. ASSUME NEW k \in Nat
      PROVE  (((nread + 1) % Modulus) + k) % PIPESIZE = (nread + 1 + k) % PIPESIZE
  <2>1. CASE nread + 1 # Modulus
    BY <2>1, Counters
  <2>2. CASE nread + 1 = Modulus
    <3>1. (nread + 1) % Modulus = 0
      BY <2>2, Counters
    <3>2. (k + Modulus) % PIPESIZE = k % PIPESIZE
      BY <1>1, Shift
    <3> QED BY <1>1, <2>2, <3>1, <3>2
  <2> QED BY <2>1, <2>2
<1> QED BY <1>2, <1>3, <1>4

(* pipewrite() puts its byte behind the others and changes none of them. *)
LEMMA PutsInOrder ==
  ASSUME PipeOK, NEW p \in Proc, NEW c \in Byte, pipewrite_byte(p, c)
  PROVE  Len(contents) < PIPESIZE /\ contents' = Append(contents, c)
<1>0. used \in Nat /\ used <= PIPESIZE /\ nread \in Nat /\ PIPESIZE \in Nat /\ PIPESIZE > 0
  BY Counters, PipeAssumption DEF PipeOK, TypeOK
<1>1. used < PIPESIZE /\ used' = used + 1 /\ nread' = nread
  <2>1. used # PIPESIZE /\ used' = used + 1
    BY PutCounts DEF PipeOK
  <2>2. nread' = nread
    BY DEF pipewrite_byte
  <2> QED BY <1>0, <2>1, <2>2
<1>2. nwrite % PIPESIZE \in 0 .. PIPESIZE - 1
  BY PipeAssumption DEF PipeOK, TypeOK
<1>3. /\ data \in [0 .. PIPESIZE - 1 -> Byte] /\ data' \in [0 .. PIPESIZE - 1 -> Byte]
      /\ data' = [data EXCEPT ![nwrite % PIPESIZE] = c]
  BY <1>2 DEF PipeOK, TypeOK, pipewrite_byte
<1>4. /\ contents \in Seq(Byte) /\ Len(contents) = used
      /\ \A k \in 1 .. used : contents[k] = data[(nread + k - 1) % PIPESIZE]
  <2>1. contents = [k \in 1 .. used |-> data[(nread + k - 1) % PIPESIZE]]
    BY DEF contents
  <2>3. contents \in [1 .. used -> Byte]
    BY <1>0, <1>3, <2>1, Buffer, Zenon
  <2>4. contents \in Seq(Byte) /\ Len(contents) = used
    BY <1>0, <1>3, <2>3, FunctionIsSeq
  <2> QED BY ZenonT(30), <2>1, <2>4
<1>5. /\ contents' \in Seq(Byte) /\ Len(contents') = used + 1
      /\ \A k \in 1 .. used + 1 : contents'[k] = data'[(nread + k - 1) % PIPESIZE]
  <2>1. contents' = [k \in 1 .. used + 1 |-> data'[(nread + k - 1) % PIPESIZE]]
    BY <1>1 DEF contents
  <2>2. used + 1 \in Nat
    BY <1>0
  <2>3. contents' \in [1 .. used + 1 -> Byte]
    BY <1>0, <1>3, <2>2, <2>1, Buffer, Zenon
  <2>4. contents' \in Seq(Byte) /\ Len(contents') = used + 1
    BY <1>0, <1>3, <2>2, <2>3, FunctionIsSeq
  <2> QED BY ZenonT(30), <2>1, <2>4
<1>6. ASSUME NEW k \in 1 .. used PROVE contents'[k] = contents[k]
  <2>0. (nread + k - 1) % PIPESIZE # nwrite % PIPESIZE
    BY <1>1, Places, Zenon DEF PipeOK
  <2>1. (nread + k - 1) % PIPESIZE \in 0 .. PIPESIZE - 1
    BY <1>0
  <2>2. data'[(nread + k - 1) % PIPESIZE] = data[(nread + k - 1) % PIPESIZE]
    BY <1>3, <2>0, <2>1
  <2> QED BY <1>0, <1>4, <1>5, <2>2
<1>7. contents'[used + 1] = c
  <2>1. nread + (used + 1) - 1 = nread + used
    BY <1>0
  <2>2. contents'[used + 1] = data'[(nread + used) % PIPESIZE]
    BY <1>0, <1>5, <2>1
  <2>3. (nread + used) % PIPESIZE = nwrite % PIPESIZE
    BY Places DEF PipeOK
  <2> QED BY <1>2, <1>3, <2>2, <2>3
<1>8. /\ Append(contents, c) \in Seq(Byte) /\ Len(Append(contents, c)) = used + 1
      /\ \A k \in 1 .. used : Append(contents, c)[k] = contents[k]
      /\ Append(contents, c)[used + 1] = c
  BY <1>0, <1>4, AppendProperties
<1>9. ASSUME NEW k \in 1 .. used + 1 PROVE contents'[k] = Append(contents, c)[k]
  <2>1. CASE k = used + 1 BY <2>1, <1>7, <1>8
  <2>2. CASE k \in 1 .. used BY <2>2, <1>6, <1>8
  <2>3. k = used + 1 \/ k \in 1 .. used
    BY <1>0
  <2> QED BY ZenonT(30), <2>1, <2>2, <2>3
<1>10. contents' = Append(contents, c)
  BY <1>5, <1>8, <1>9, SeqEqual
<1> QED BY <1>0, <1>1, <1>4, <1>10

(* piperead() takes the first byte. *)
LEMMA GetsInOrder ==
  ASSUME PipeOK, NEW p \in Proc, piperead_byte(p)
  PROVE  contents # <<>> /\ contents' = Tail(contents)
<1>1. used \in Nat /\ used # 0 /\ used' = used - 1 /\ used - 1 \in Nat /\ nread \in Nat /\ nread' \in Nat
  BY SMTT(30), GetCounts, Counters, PipeAssumption DEF PipeOK, TypeOK
<1>2. data \in [0 .. PIPESIZE - 1 -> Byte] /\ data' = data /\ nread' = (nread + 1) % Modulus
  BY DEF PipeOK, TypeOK, piperead_byte
<1>3. /\ contents \in Seq(Byte) /\ Len(contents) = used
      /\ \A k \in 1 .. used : contents[k] = data[(nread + k - 1) % PIPESIZE]
  <2>1. contents = [k \in 1 .. used |-> data[(nread + k - 1) % PIPESIZE]]
    BY DEF contents
  <2>3. contents \in [1 .. used -> Byte]
    BY <1>1, <1>2, <2>1, Buffer, Zenon
  <2>4. contents \in Seq(Byte) /\ Len(contents) = used
    BY <1>1, <1>2, <2>3, FunctionIsSeq
  <2> QED BY ZenonT(30), <2>1, <2>4
<1>4. /\ contents' \in Seq(Byte) /\ Len(contents') = used - 1
      /\ \A k \in 1 .. used - 1 : contents'[k] = data[(nread' + k - 1) % PIPESIZE]
  <2>1. contents' = [k \in 1 .. used - 1 |-> data[(nread' + k - 1) % PIPESIZE]]
    BY <1>1, <1>2 DEF contents
  <2>3. contents' \in [1 .. used - 1 -> Byte]
    BY <1>1, <1>2, <2>1, Buffer, Zenon
  <2>4. contents' \in Seq(Byte) /\ Len(contents') = used - 1
    BY <1>1, <1>2, <2>3, FunctionIsSeq
  <2> QED BY ZenonT(30), <2>1, <2>4
<1>5. contents # <<>>
  BY <1>1, <1>3
<1>6. /\ Tail(contents) \in Seq(Byte) /\ Len(Tail(contents)) = used - 1
      /\ \A k \in 1 .. used - 1 : Tail(contents)[k] = contents[k + 1]
  BY <1>3, <1>5, HeadTailProperties
<1>7. ASSUME NEW k \in 1 .. used - 1 PROVE contents'[k] = Tail(contents)[k]
  <2>1. k - 1 \in Nat /\ k + 1 \in 1 .. used
    BY <1>1
  <2>2. (nread' + (k - 1)) % PIPESIZE = (nread + 1 + (k - 1)) % PIPESIZE
    BY <1>2, <2>1, Places DEF PipeOK
  <2>3. nread' + (k - 1) = nread' + k - 1 /\ nread + 1 + (k - 1) = nread + (k + 1) - 1
    BY <1>1
  <2>4. contents'[k] = data[(nread + (k + 1) - 1) % PIPESIZE]
    BY <1>4, <2>2, <2>3
  <2> QED BY <1>3, <1>6, <2>1, <2>4
<1> QED BY <1>4, <1>5, <1>6, <1>7, SeqEqual

(* Every other step leaves the bytes in the pipe alone. *)
LEMMA StepIsStreamStep ==
  ASSUME PipeOK, [Next]_vars
  PROVE  [Fifo!Next]_contents
<1>1. CASE UNCHANGED <<data, nread, nwrite>>
  BY <1>1 DEF contents, used
<1>2. ASSUME NEW p \in Proc, NEW c \in Byte, pipewrite_byte(p, c) PROVE Fifo!Next
  BY <1>2, PutsInOrder DEF Fifo!Next, Fifo!Put
<1>3. ASSUME NEW p \in Proc, piperead_byte(p) PROVE Fifo!Next
  BY <1>3, GetsInOrder DEF Fifo!Next, Fifo!Get
<1>4. CASE UNCHANGED vars
  BY <1>1, <1>4 DEF vars
<1>5. CASE Next
  <2>1. \/ UNCHANGED <<data, nread, nwrite>>
        \/ \E p \in Proc : piperead_byte(p) \/ \E c \in Byte : pipewrite_byte(p, c)
    BY <1>5, Zenon DEF Next, call, acquire, pipewrite_done, pipewrite_error, pipewrite_full,
       sleep, piperead_error, piperead_empty,
     piperead_copy, piperead_done, fileclose, pipeclose, kill, pipe
  <2> QED BY <1>1, <1>2, <1>3, <2>1
<1> QED BY <1>4, <1>5

(* The circular buffer of pipe.c with its wrapping counters implements the  *)
(* bounded stream of bytes. *)
THEOREM PipeIsAStream == Spec => IsByteStream
<1>1. Init => PipeOK BY InitIsOK
<1>2. PipeOK /\ [Next]_vars => PipeOK' BY StepKeepsPipe
<1>3. Init => Fifo!Init
  <2>1. SUFFICES ASSUME Init PROVE contents = <<>>
    BY DEF Fifo!Init
  <2>2. used = 0
    BY ZenonT(30), <2>1, InitIsOK, Counters DEF PipeOK, Init
  <2>3. contents \in Seq(Byte) /\ Len(contents) = 0
    BY <2>1, <2>2, InitIsOK, Buffer DEF contents, PipeOK, TypeOK, Init
  <2> QED BY <2>3, EmptySeq
<1>4. PipeOK /\ [Next]_vars => [Fifo!Next]_contents
  BY StepIsStreamStep
<1> QED BY <1>1, <1>2, <1>3, <1>4, PTL DEF Spec, IsByteStream, Fifo!Spec
===============================================================================
