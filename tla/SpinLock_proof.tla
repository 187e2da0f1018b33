---------------------------- MODULE SpinLock_proof ----------------------------
(***************************************************************************)
(* Proof that SpinInv is an inductive invariant of SpinLock, for any       *)
(* number of CPUs and locks, and that the properties follow from it.       *)
(***************************************************************************)
EXTENDS SpinLock, FiniteSetTheorems, TLAPS

(* The code running on CPU c is one of two. *)
LEMMA CodePair ==
  ASSUME NEW t \in Code
  PROVE  t[1] \in CPU /\ t[2] \in Level /\ t = <<t[1], t[2]>>
BY DEF Code

(* The task and the handler of a CPU are code. *)
LEMMA PairCode ==
  ASSUME NEW c \in CPU
  PROVE  <<c, "task">> \in Code /\ <<c, "intr">> \in Code
BY DEF Code, Level

(* A step of t is a step of the task, of the handler, or of another CPU. *)
LEMMA WhoseStep ==
  ASSUME NEW t \in Code, NEW c \in CPU
  PROVE  \/ t = <<c, "task">> /\ t[1] = c /\ t[2] = "task" /\ t # <<c, "intr">>
         \/ t = <<c, "intr">> /\ t[1] = c /\ t[2] = "intr" /\ t # <<c, "task">>
         \/ t[1] # c /\ t # <<c, "task">> /\ t # <<c, "intr">>
BY DEF Code, Level

(* Two codes of one CPU are at different levels. *)
LEMMA OtherCode ==
  ASSUME NEW t \in Code, NEW u \in Code, u # t, u[1] = t[1]
  PROVE  u[2] # t[2]
BY DEF Code

(* acquire() and release() are called: only t moves, and into no lock. *)
LEMMA Acquire ==
  ASSUME SpinInv, NEW t \in Code, NEW k \in Lock, acquire(t, k)
  PROVE  SpinInv'
<1> USE DEF acquire, at, goto
<1>0. t[1] \in CPU /\ t[2] \in Level /\ t = <<t[1], t[2]>>
  BY CodePair
<1>1. TypeOK'
  BY <1>0 DEF SpinInv, TypeOK, PC, CodeOK
<1>2. \A u \in Code, j \in Lock : Owns(u, j)' = Owns(u, j)
  BY DEF SpinInv, TypeOK, Owns
<1>3. LockOK'
  BY <1>2 DEF SpinInv, LockOK
<1>4. ASSUME NEW u \in Code PROVE CodeOK(u)'
  BY <1>0, SpinAssumption DEF SpinInv, TypeOK, CodeOK, releasing, Extra, Acquiring
<1>5. ASSUME NEW c \in CPU PROVE CpuOK(c)'
  <2>0. <<c, "task">> \in Code /\ <<c, "intr">> \in Code /\ CpuOK(c)
    BY PairCode DEF SpinInv
  <2>1. CASE t = <<c, "task">> /\ t[1] = c /\ t[2] = "task" /\ t # <<c, "intr">>
    BY ZenonT(30), <2>0, <2>1 DEF SpinInv, TypeOK, CpuOK
  <2>2. CASE t = <<c, "intr">> /\ t[1] = c /\ t[2] = "intr" /\ t # <<c, "task">>
    BY ZenonT(30), <2>0, <2>2 DEF SpinInv, TypeOK, CpuOK
  <2>3. CASE t[1] # c /\ t # <<c, "task">> /\ t # <<c, "intr">>
    BY ZenonT(30), <2>0, <2>3 DEF SpinInv, TypeOK, CpuOK
  <2> QED BY <2>1, <2>2, <2>3, WhoseStep
<1> QED BY <1>1, <1>3, <1>4, <1>5 DEF SpinInv

LEMMA Release ==
  ASSUME SpinInv, NEW t \in Code, NEW k \in Lock, release(t, k)
  PROVE  SpinInv'
<1> USE DEF release, at, goto
<1>0. t[1] \in CPU /\ t[2] \in Level /\ t = <<t[1], t[2]>>
  BY CodePair
<1>1. TypeOK'
  BY <1>0 DEF SpinInv, TypeOK, PC, CodeOK
<1>2. \A u \in Code, j \in Lock : Owns(u, j)' = Owns(u, j)
  BY DEF SpinInv, TypeOK, Owns
<1>3. LockOK'
  BY <1>2 DEF SpinInv, LockOK
<1>4. ASSUME NEW u \in Code PROVE CodeOK(u)'
  BY <1>0 DEF SpinInv, TypeOK, CodeOK, releasing, Extra, Acquiring
<1>5. ASSUME NEW c \in CPU PROVE CpuOK(c)'
  <2>0. <<c, "task">> \in Code /\ <<c, "intr">> \in Code /\ CpuOK(c)
    BY PairCode DEF SpinInv
  <2>1. CASE t = <<c, "task">> /\ t[1] = c /\ t[2] = "task" /\ t # <<c, "intr">>
    BY ZenonT(30), <2>0, <2>1 DEF SpinInv, TypeOK, CpuOK
  <2>2. CASE t = <<c, "intr">> /\ t[1] = c /\ t[2] = "intr" /\ t # <<c, "task">>
    BY ZenonT(30), <2>0, <2>2 DEF SpinInv, TypeOK, CpuOK
  <2>3. CASE t[1] # c /\ t # <<c, "task">> /\ t # <<c, "intr">>
    BY ZenonT(30), <2>0, <2>3 DEF SpinInv, TypeOK, CpuOK
  <2> QED BY <2>1, <2>2, <2>3, WhoseStep
<1> QED BY <1>1, <1>3, <1>4, <1>5 DEF SpinInv

(* push_off() reads its own interrupt bit. *)
LEMMA PushOff ==
  ASSUME SpinInv, NEW t \in Code, push_off(t)
  PROVE  SpinInv'
<1> USE DEF push_off, at, goto
<1>0. t[1] \in CPU /\ t[2] \in Level /\ t = <<t[1], t[2]>>
  BY CodePair
<1>1. TypeOK'
  BY <1>0 DEF SpinInv, TypeOK, PC, CodeOK
<1>2. \A u \in Code, k \in Lock : Owns(u, k)' = Owns(u, k)
  BY DEF SpinInv, TypeOK, Owns
<1>3. LockOK'
  BY <1>2 DEF SpinInv, LockOK
<1>4. ASSUME NEW u \in Code PROVE CodeOK(u)'
  BY <1>0 DEF SpinInv, TypeOK, CodeOK, releasing, Extra, Acquiring
<1>5. ASSUME NEW c \in CPU PROVE CpuOK(c)'
  <2>0. <<c, "task">> \in Code /\ <<c, "intr">> \in Code /\ CpuOK(c)
    BY PairCode DEF SpinInv
  <2>1. CASE t = <<c, "task">> /\ t[1] = c /\ t[2] = "task" /\ t # <<c, "intr">>
    <3>1. mine[t] = {} => noff[c] = 0
      BY SMTT(30), <2>0, <2>1, FS_EmptySet DEF SpinInv, TypeOK, CodeOK, Extra, Acquiring
    <3> QED BY ZenonT(30), <2>0, <2>1, <3>1 DEF SpinInv, TypeOK, CpuOK
  <2>2. CASE t = <<c, "intr">> /\ t[1] = c /\ t[2] = "intr" /\ t # <<c, "task">>
    BY ZenonT(30), <2>0, <2>2 DEF SpinInv, TypeOK, CpuOK
  <2>3. CASE t[1] # c /\ t # <<c, "task">> /\ t # <<c, "intr">>
    BY ZenonT(30), <2>0, <2>3 DEF SpinInv, TypeOK, CpuOK
  <2> QED BY <2>1, <2>2, <2>3, WhoseStep
<1> QED BY <1>1, <1>3, <1>4, <1>5 DEF SpinInv

(* noff and intena after intr_off(): intena is saved at depth 0 only. *)
LEMMA IntrOff ==
  ASSUME SpinInv, NEW t \in Code, intr_off(t)
  PROVE  SpinInv'
<1> USE DEF intr_off, sie_off, save_intena, at, goto
<1>0. t[1] \in CPU /\ t[2] \in Level /\ t = <<t[1], t[2]>>
  BY CodePair
<1>a. noff[t[1]] = Cardinality(mine[t]) /\ IsFiniteSet(mine[t])
  <2>1. CodeOK(t) /\ Extra(t) = 0
    BY DEF SpinInv, Extra, Acquiring
  <2>2. Cardinality(mine[t]) \in Nat
    BY <2>1, FS_CardinalityType DEF CodeOK
  <2> QED BY <2>1, <2>2 DEF CodeOK
<1>c. noff[t[1]] = 0 => mine[t] = {}
  BY ZenonT(30), <1>a, FS_EmptySet
<1>b. noff[t[1]] = 0 \/ noff[t[1]] > 0
  BY <1>0 DEF SpinInv, TypeOK
<1>1. TypeOK'
  BY <1>0 DEF SpinInv, TypeOK, PC, CodeOK
<1>2. \A u \in Code, k \in Lock : Owns(u, k)' = Owns(u, k)
  BY DEF SpinInv, TypeOK, Owns
<1>3. LockOK'
  BY <1>2 DEF SpinInv, LockOK
<1>4. ASSUME NEW u \in Code PROVE CodeOK(u)'
  <2>0. CodeOK(u) /\ u[1] \in CPU /\ (u # t /\ u[1] = t[1] => u[2] # t[2])
    BY CodePair, OtherCode DEF SpinInv
  <2>1. CASE u = t
    <3>1. pc'[t] = "holding" /\ Extra(t)' = 1 /\ ~releasing(t)'
      BY <2>0, <2>1 DEF SpinInv, TypeOK, CodeOK, Extra, Acquiring, releasing
    <3>2. noff'[t[1]] = Cardinality(mine[t]) + 1
      BY <1>0, <1>a DEF SpinInv, TypeOK
    <3> QED BY <1>0, <2>0, <2>1, <3>1, <3>2 DEF SpinInv, TypeOK, CodeOK
  <2>2. CASE u # t
    <3>1. level[u[1]]' = u[2] => u[1] # t[1]
      BY <1>0, <2>0, <2>2 DEF SpinInv, TypeOK
    <3>2. pc'[u] = pc[u] /\ lk'[u] = lk[u] /\ mine'[u] = mine[u] /\ seen'[u] = seen[u]
      BY <2>2 DEF SpinInv, TypeOK
    <3>3. releasing(u)' = releasing(u) /\ Extra(u)' = Extra(u)
      BY <3>2 DEF releasing, Extra, Acquiring
    <3>4. level[u[1]]' = u[2] => noff'[u[1]] = noff[u[1]] /\ level[u[1]] = u[2]
      BY <1>0, <2>0, <3>1 DEF SpinInv, TypeOK
    <3> QED BY <2>0, <3>2, <3>3, <3>4 DEF CodeOK
  <2> QED BY <2>1, <2>2
<1>5. ASSUME NEW c \in CPU PROVE CpuOK(c)'
  <2>0. <<c, "task">> \in Code /\ <<c, "intr">> \in Code /\ CpuOK(c)
    BY PairCode DEF SpinInv
  <2>1. CASE t = <<c, "task">> /\ t[1] = c /\ t[2] = "task" /\ t # <<c, "intr">>
    <3>1. intena'[c] = wanted[c]
      <4>1. CASE noff[c] = 0
        <5>1. mine[t] = {}
          BY <2>1, <4>1, <1>c
        <5> QED BY <2>0, <2>1, <4>1, <5>1 DEF SpinInv, TypeOK, CpuOK
      <4>2. CASE noff[c] > 0
        <5>1. intena[c] = wanted[c]
          BY <2>0, <2>1, <4>2 DEF CpuOK
        <5>2. intena' = intena
          BY <2>0, <2>1, <4>2 DEF SpinInv, TypeOK
        <5> QED BY <5>1, <5>2
      <4> QED BY <1>b, <2>1, <4>1, <4>2
    <3>2. ~sie'[c] /\ noff'[c] > 0 /\ noff'[c] # 0
      BY <2>0, <2>1, <1>0 DEF SpinInv, TypeOK
    <3> QED BY ZenonT(30), <2>0, <2>1, <3>1, <3>2 DEF SpinInv, TypeOK, CpuOK
  <2>2. CASE t = <<c, "intr">> /\ t[1] = c /\ t[2] = "intr" /\ t # <<c, "task">>
    <3>1. ~intena'[c]
      <4>1. CASE noff[c] = 0
        BY <2>0, <2>2, <4>1 DEF SpinInv, TypeOK, CpuOK
      <4>2. CASE noff[c] > 0
        BY <2>0, <2>2, <4>2 DEF SpinInv, TypeOK, CpuOK
      <4> QED BY <1>b, <2>2, <4>1, <4>2
    <3>2. ~sie'[c] /\ noff'[c] > 0 /\ noff'[c] # 0
      BY <2>0, <2>2, <1>0 DEF SpinInv, TypeOK
    <3> QED BY ZenonT(30), <2>0, <2>2, <3>1, <3>2 DEF SpinInv, TypeOK, CpuOK
  <2>3. CASE t[1] # c /\ t # <<c, "task">> /\ t # <<c, "intr">>
    BY ZenonT(30), <2>0, <2>3 DEF SpinInv, TypeOK, CpuOK
  <2> QED BY <2>1, <2>2, <2>3, WhoseStep
<1> QED BY <1>1, <1>3, <1>4, <1>5 DEF SpinInv

(* holding() reads lk->locked of a lock that t owns when releasing. *)
LEMMA Holding ==
  ASSUME SpinInv, NEW t \in Code, holding(t)
  PROVE  SpinInv'
<1> USE DEF holding, at, goto
<1>0. t[1] \in CPU /\ t[2] \in Level /\ t = <<t[1], t[2]>>
  BY CodePair
<1>1. TypeOK'
  BY <1>0 DEF SpinInv, TypeOK, PC, CodeOK
<1>2. \A u \in Code, k \in Lock : Owns(u, k)' = Owns(u, k)
  BY DEF SpinInv, TypeOK, Owns
<1>3. LockOK'
  BY <1>2 DEF SpinInv, LockOK
<1>4. ASSUME NEW u \in Code PROVE CodeOK(u)'
  <2>0. CodeOK(u) /\ u[1] \in CPU /\ (u # t /\ u[1] = t[1] => u[2] # t[2])
    BY CodePair, OtherCode DEF SpinInv
  <2>1. CASE u = t
    <3>1. releasing(t) => locked[lk[t]]
      BY <1>0, <2>0, <2>1 DEF SpinInv, TypeOK, LockOK, CodeOK, Owns, releasing
    <3>2. releasing(t)' = releasing(t) /\ Extra(t)' = Extra(t)
      BY DEF SpinInv, TypeOK, releasing, Extra, Acquiring
    <3> QED BY <1>0, <2>0, <2>1, <3>1, <3>2 DEF SpinInv, TypeOK, CodeOK
  <2>2. CASE u # t
    <3>1. level[u[1]]' = u[2] => u[1] # t[1]
      BY <1>0, <2>0, <2>2 DEF SpinInv, TypeOK
    <3>2. pc'[u] = pc[u] /\ lk'[u] = lk[u] /\ mine'[u] = mine[u] /\ seen'[u] = seen[u]
      BY <2>2 DEF SpinInv, TypeOK
    <3>3. releasing(u)' = releasing(u) /\ Extra(u)' = Extra(u)
      BY <3>2 DEF releasing, Extra, Acquiring
    <3>4. level[u[1]]' = u[2] => noff'[u[1]] = noff[u[1]] /\ level[u[1]] = u[2]
      BY <1>0, <2>0, <3>1 DEF SpinInv, TypeOK
    <3> QED BY <2>0, <3>2, <3>3, <3>4 DEF CodeOK
  <2> QED BY <2>1, <2>2
<1>5. ASSUME NEW c \in CPU PROVE CpuOK(c)'
  <2>0. <<c, "task">> \in Code /\ <<c, "intr">> \in Code /\ CpuOK(c)
    BY PairCode DEF SpinInv
  <2>1. CASE t = <<c, "task">> /\ t[1] = c /\ t[2] = "task" /\ t # <<c, "intr">>
    BY ZenonT(30), <2>0, <2>1 DEF SpinInv, TypeOK, CpuOK
  <2>2. CASE t = <<c, "intr">> /\ t[1] = c /\ t[2] = "intr" /\ t # <<c, "task">>
    BY ZenonT(30), <2>0, <2>2 DEF SpinInv, TypeOK, CpuOK
  <2>3. CASE t[1] # c /\ t # <<c, "task">> /\ t # <<c, "intr">>
    BY ZenonT(30), <2>0, <2>3 DEF SpinInv, TypeOK, CpuOK
  <2> QED BY <2>1, <2>2, <2>3, WhoseStep
<1> QED BY <1>1, <1>3, <1>4, <1>5 DEF SpinInv

(* lk->cpu is this CPU exactly when t itself holds the lock. *)
LEMMA HoldingCpu ==
  ASSUME SpinInv, NEW t \in Code, holding_cpu(t)
  PROVE  SpinInv'
<1> USE DEF holding_cpu, at, goto
<1>0. t[1] \in CPU /\ t[2] \in Level /\ t = <<t[1], t[2]>>
  BY CodePair
<1>a. releasing(t) => seen[t] /\ cpu[lk[t]] = t[1]
  BY <1>0 DEF SpinInv, TypeOK, LockOK, CodeOK, releasing
<1>b. seen[t] /\ cpu[lk[t]] = t[1] => releasing(t)
  <2>1. SUFFICES ASSUME cpu[lk[t]] = t[1] PROVE lk[t] \in mine[t]
    BY DEF releasing
  <2>2. PICK u \in Code : u[1] = t[1] /\ lk[t] \in mine[u]
    BY <1>0, <2>1 DEF SpinInv, LockOK, CodeOK
  <2>3. u # t => u[2] # t[2] /\ u = <<t[1], u[2]>> /\ u[2] \in Level
    BY <2>2, OtherCode, CodePair
  <2>4. CpuOK(t[1])
    BY <1>0 DEF SpinInv
  <2> QED BY <1>0, <2>2, <2>3, <2>4 DEF CpuOK, Level
<1>c. pc' = [pc EXCEPT ![t] = IF releasing(t) THEN "clear_cpu" ELSE "spin"]
  <2>1. CASE releasing(t)
    BY ZenonT(30), <1>a, <2>1 DEF releasing
  <2>2. CASE ~releasing(t)
    <3>1. (seen[t] /\ cpu[lk[t]] = t[1]) = FALSE
      BY <1>b, <2>2
    <3>2. releasing(t) = FALSE
      BY <2>2 DEF releasing
    <3> QED BY ZenonT(30), <3>1, <3>2
  <2> QED BY <2>1, <2>2
<1>1. TypeOK'
  BY <1>0 DEF SpinInv, TypeOK, PC, CodeOK
<1>2. \A u \in Code, k \in Lock : Owns(u, k)' = Owns(u, k)
  BY DEF SpinInv, TypeOK, Owns
<1>3. LockOK'
  BY <1>2 DEF SpinInv, LockOK
<1>4. ASSUME NEW u \in Code PROVE CodeOK(u)'
  <2>0. CodeOK(u) /\ u[1] \in CPU /\ (u # t /\ u[1] = t[1] => u[2] # t[2])
    BY CodePair, OtherCode DEF SpinInv
  <2>1. CASE u = t
    <3>1. pc'[t] = (IF releasing(t) THEN "clear_cpu" ELSE "spin") /\ releasing(t)' = releasing(t)
      BY SMTT(30), <1>c DEF SpinInv, TypeOK, releasing
    <3> QED BY <1>0, <2>0, <2>1, <3>1 DEF SpinInv, TypeOK, CodeOK, Extra, Acquiring
  <2>2. CASE u # t
    <3>1. level[u[1]]' = u[2] => u[1] # t[1]
      BY <1>0, <2>0, <2>2 DEF SpinInv, TypeOK
    <3>2. pc'[u] = pc[u] /\ lk'[u] = lk[u] /\ mine'[u] = mine[u] /\ seen'[u] = seen[u]
      BY <2>2 DEF SpinInv, TypeOK
    <3>3. releasing(u)' = releasing(u) /\ Extra(u)' = Extra(u)
      BY <3>2 DEF releasing, Extra, Acquiring
    <3>4. level[u[1]]' = u[2] => noff'[u[1]] = noff[u[1]] /\ level[u[1]] = u[2]
      BY SMTT(30), <1>0, <2>0, <3>1 DEF SpinInv, TypeOK
    <3> QED BY <2>0, <3>2, <3>3, <3>4 DEF CodeOK
  <2> QED BY <2>1, <2>2
<1>5. ASSUME NEW c \in CPU PROVE CpuOK(c)'
  <2>0. <<c, "task">> \in Code /\ <<c, "intr">> \in Code /\ CpuOK(c)
    BY SMTT(30), PairCode DEF SpinInv
  <2>1. CASE t = <<c, "task">> /\ t[1] = c /\ t[2] = "task" /\ t # <<c, "intr">>
    BY ZenonT(30), <2>0, <2>1 DEF SpinInv, TypeOK, CpuOK
  <2>2. CASE t = <<c, "intr">> /\ t[1] = c /\ t[2] = "intr" /\ t # <<c, "task">>
    BY ZenonT(30), <2>0, <2>2 DEF SpinInv, TypeOK, CpuOK
  <2>3. CASE t[1] # c /\ t # <<c, "task">> /\ t # <<c, "intr">>
    BY ZenonT(30), <2>0, <2>3 DEF SpinInv, TypeOK, CpuOK
  <2> QED BY <2>1, <2>2, <2>3, WhoseStep
<1> QED BY <1>1, <1>3, <1>4, <1>5 DEF SpinInv

(* The swap that finds the lock free makes t its only owner. *)
LEMMA Spin ==
  ASSUME SpinInv, NEW t \in Code, spin(t)
  PROVE  SpinInv'
<1> USE DEF spin, test_and_set, at, goto
<1>0. t[1] \in CPU /\ t[2] \in Level /\ t = <<t[1], t[2]>>
  BY CodePair
<1>1. TypeOK'
  BY <1>0 DEF SpinInv, TypeOK, PC, CodeOK
<1>3. LockOK'
  BY <1>0 DEF SpinInv, TypeOK, LockOK, CodeOK, Owns
<1>4. ASSUME NEW u \in Code PROVE CodeOK(u)'
  BY <1>0 DEF SpinInv, TypeOK, CodeOK, releasing, Extra, Acquiring
<1>5. ASSUME NEW c \in CPU PROVE CpuOK(c)'
  <2>0. <<c, "task">> \in Code /\ <<c, "intr">> \in Code /\ CpuOK(c)
    BY PairCode DEF SpinInv
  <2>1. CASE t = <<c, "task">> /\ t[1] = c /\ t[2] = "task" /\ t # <<c, "intr">>
    BY ZenonT(30), <2>0, <2>1 DEF SpinInv, TypeOK, CpuOK
  <2>2. CASE t = <<c, "intr">> /\ t[1] = c /\ t[2] = "intr" /\ t # <<c, "task">>
    BY ZenonT(30), <2>0, <2>2 DEF SpinInv, TypeOK, CpuOK
  <2>3. CASE t[1] # c /\ t # <<c, "task">> /\ t # <<c, "intr">>
    BY ZenonT(30), <2>0, <2>3 DEF SpinInv, TypeOK, CpuOK
  <2> QED BY <2>1, <2>2, <2>3, WhoseStep
<1> QED BY <1>1, <1>3, <1>4, <1>5 DEF SpinInv

(* acquire() returns: the lock joins mine[t], which noff already counts. *)
LEMMA SetCpu ==
  ASSUME SpinInv, NEW t \in Code, set_cpu(t)
  PROVE  SpinInv'
<1> USE DEF set_cpu, return, at, goto
<1>0. t[1] \in CPU /\ t[2] \in Level /\ t = <<t[1], t[2]>>
  BY CodePair
<1>1. TypeOK'
  BY <1>0 DEF SpinInv, TypeOK, PC, CodeOK
<1>2. \A u \in Code, k \in Lock : Owns(u, k)' = Owns(u, k)
  BY <1>0 DEF SpinInv, TypeOK, Owns, CodeOK, releasing
<1>3. LockOK'
  <2>1. Owns(t, lk[t]) /\ lk[t] \in Lock
    BY <1>0 DEF SpinInv, CodeOK, Owns, releasing
  <2>2. \A u \in Code : u # t => mine'[u] = mine[u] /\ lk[t] \notin mine[u]
    BY <2>1 DEF SpinInv, TypeOK, LockOK, Owns
  <2>3. \A k \in Lock, c \in CPU : cpu'[k] = c => \E u \in Code : u[1] = c /\ k \in mine'[u]
    BY SMTT(30), <1>0, <2>1, <2>2 DEF SpinInv, TypeOK, LockOK
  <2>4. \A u \in Code, k \in Lock : k \in mine'[u] => cpu'[k] = u[1]
    BY <1>0, <2>1, <2>2 DEF SpinInv, TypeOK, LockOK
  <2> QED BY <1>2, <2>3, <2>4 DEF SpinInv, LockOK
<1>4. ASSUME NEW u \in Code PROVE CodeOK(u)'
  <2>0. CodeOK(u) /\ u[1] \in CPU /\ (u # t /\ u[1] = t[1] => u[2] # t[2])
    BY CodePair, OtherCode DEF SpinInv
  <2>1. CASE u = t
    <3>1. IsFiniteSet(mine'[t]) /\ Cardinality(mine'[t]) = Cardinality(mine[t]) + 1
      <4>1. mine'[t] = mine[t] \cup {lk[t]} /\ lk[t] \notin mine[t] /\ IsFiniteSet(mine[t])
        BY <2>0, <2>1 DEF SpinInv, TypeOK, CodeOK, releasing
      <4> QED BY <4>1, FS_AddElement
    <3>2. pc'[t] = "run" /\ Extra(t)' = 0 /\ Extra(t) = 1
      BY <2>0, <2>1 DEF SpinInv, TypeOK, CodeOK, Extra, Acquiring
    <3> QED BY <1>0, <2>0, <2>1, <3>1, <3>2 DEF SpinInv, TypeOK, CodeOK
  <2>2. CASE u # t
    <3>1. level[u[1]]' = u[2] => u[1] # t[1]
      BY <1>0, <2>0, <2>2 DEF SpinInv, TypeOK
    <3>2. pc'[u] = pc[u] /\ lk'[u] = lk[u] /\ mine'[u] = mine[u] /\ seen'[u] = seen[u]
      BY <2>2 DEF SpinInv, TypeOK
    <3>3. releasing(u)' = releasing(u) /\ Extra(u)' = Extra(u)
      BY <3>2 DEF releasing, Extra, Acquiring
    <3>4. level[u[1]]' = u[2] => noff'[u[1]] = noff[u[1]] /\ level[u[1]] = u[2]
      BY <1>0, <2>0, <3>1 DEF SpinInv, TypeOK
    <3> QED BY <2>0, <3>2, <3>3, <3>4 DEF CodeOK
  <2> QED BY <2>1, <2>2
<1>5. ASSUME NEW c \in CPU PROVE CpuOK(c)'
  <2>0. <<c, "task">> \in Code /\ <<c, "intr">> \in Code /\ CpuOK(c)
    BY SMTT(30), PairCode DEF SpinInv
  <2>1. CASE t = <<c, "task">> /\ t[1] = c /\ t[2] = "task" /\ t # <<c, "intr">>
    BY ZenonT(30), <2>0, <2>1 DEF SpinInv, TypeOK, CpuOK
  <2>2. CASE t = <<c, "intr">> /\ t[1] = c /\ t[2] = "intr" /\ t # <<c, "task">>
    BY ZenonT(30), <2>0, <2>2 DEF SpinInv, TypeOK, CpuOK
  <2>3. CASE t[1] # c /\ t # <<c, "task">> /\ t # <<c, "intr">>
    BY ZenonT(30), <2>0, <2>3 DEF SpinInv, TypeOK, CpuOK
  <2> QED BY <2>1, <2>2, <2>3, WhoseStep
<1> QED BY <1>1, <1>3, <1>4, <1>5 DEF SpinInv

(* The lock leaves mine[t]; t owns it still. *)
LEMMA ClearCpu ==
  ASSUME SpinInv, NEW t \in Code, clear_cpu(t)
  PROVE  SpinInv'
<1> USE DEF clear_cpu, cpu_cleared, at, goto
<1>0. t[1] \in CPU /\ t[2] \in Level /\ t = <<t[1], t[2]>>
  BY CodePair
<1>1. TypeOK'
  BY <1>0 DEF SpinInv, TypeOK, PC, CodeOK
<1>2. \A u \in Code, k \in Lock : Owns(u, k)' = Owns(u, k)
  BY <1>0 DEF SpinInv, TypeOK, Owns, CodeOK, releasing
<1>3. LockOK'
  <2>1. Owns(t, lk[t]) /\ lk[t] \in Lock
    BY <1>0 DEF SpinInv, CodeOK, Owns, releasing
  <2>2. \A u \in Code : u # t => mine'[u] = mine[u] /\ lk[t] \notin mine[u]
    BY <2>1 DEF SpinInv, TypeOK, LockOK, Owns
  <2>3. \A k \in Lock, c \in CPU : cpu'[k] = c => \E u \in Code : u[1] = c /\ k \in mine'[u]
    <3>1. SUFFICES ASSUME NEW k \in Lock, NEW c \in CPU, cpu'[k] = c
                   PROVE  \E u \in Code : u[1] = c /\ k \in mine'[u]
      OBVIOUS
    <3>2. k # lk[t] /\ cpu[k] = c
      BY SMTT(30), <2>1, <3>1, SpinAssumption DEF SpinInv, TypeOK
    <3>3. PICK u \in Code : u[1] = c /\ k \in mine[u]
      BY <3>2 DEF SpinInv, LockOK
    <3>4. k \in mine'[u]
      BY <2>2, <3>2, <3>3 DEF SpinInv, TypeOK
    <3> QED BY <3>3, <3>4
  <2>4. \A u \in Code, k \in Lock : k \in mine'[u] => cpu'[k] = u[1]
    BY SMTT(30), <1>0, <2>1, <2>2 DEF SpinInv, TypeOK, LockOK
  <2> QED BY <1>2, <2>3, <2>4 DEF SpinInv, LockOK
<1>4. ASSUME NEW u \in Code PROVE CodeOK(u)'
  <2>0. CodeOK(u) /\ u[1] \in CPU /\ (u # t /\ u[1] = t[1] => u[2] # t[2])
    BY CodePair, OtherCode DEF SpinInv
  <2>1. CASE u = t
    <3>1. /\ IsFiniteSet(mine'[t])
          /\ Cardinality(mine[t]) \in Nat
          /\ Cardinality(mine'[t]) = Cardinality(mine[t]) - 1
      <4>1. mine'[t] = mine[t] \ {lk[t]} /\ lk[t] \in mine[t] /\ IsFiniteSet(mine[t])
        BY <2>0, <2>1, SMTT(30) DEF SpinInv, TypeOK, CodeOK, releasing
      <4>2. Cardinality(mine[t]) \in Nat
        BY <4>1, FS_CardinalityType
      <4>3. /\ IsFiniteSet(mine[t] \ {lk[t]})
            /\ Cardinality(mine[t] \ {lk[t]}) = Cardinality(mine[t]) - 1
        BY <4>1, FS_RemoveElement, SMTT(30)
      <4> QED BY ZenonT(30), <4>1, <4>2, <4>3
    <3>2. pc'[t] = "unlock" /\ Extra(t)' = 1 /\ Extra(t) = 0 /\ ~releasing(t)'
      BY <2>0, <2>1, SMTT(30) DEF SpinInv, TypeOK, CodeOK, Extra, Acquiring, releasing
    <3> QED BY SMTT(30), <1>0, <2>0, <2>1, <3>1, <3>2 DEF SpinInv, TypeOK, CodeOK
  <2>2. CASE u # t
    <3>1. level[u[1]]' = u[2] => u[1] # t[1]
      BY <1>0, <2>0, <2>2 DEF SpinInv, TypeOK
    <3>2. pc'[u] = pc[u] /\ lk'[u] = lk[u] /\ mine'[u] = mine[u] /\ seen'[u] = seen[u]
      BY <2>2 DEF SpinInv, TypeOK
    <3>3. releasing(u)' = releasing(u) /\ Extra(u)' = Extra(u)
      BY <3>2 DEF releasing, Extra, Acquiring
    <3>4. level[u[1]]' = u[2] => noff'[u[1]] = noff[u[1]] /\ level[u[1]] = u[2]
      BY SMTT(30), <1>0, <2>0, <3>1 DEF SpinInv, TypeOK
    <3> QED BY <2>0, <3>2, <3>3, <3>4 DEF CodeOK
  <2> QED BY <2>1, <2>2
<1>5. ASSUME NEW c \in CPU PROVE CpuOK(c)'
  <2>0. <<c, "task">> \in Code /\ <<c, "intr">> \in Code /\ CpuOK(c)
    BY SMTT(30), PairCode DEF SpinInv
  <2>1. CASE t = <<c, "task">> /\ t[1] = c /\ t[2] = "task" /\ t # <<c, "intr">>
    BY ZenonT(30), <2>0, <2>1 DEF SpinInv, TypeOK, CpuOK
  <2>2. CASE t = <<c, "intr">> /\ t[1] = c /\ t[2] = "intr" /\ t # <<c, "task">>
    BY ZenonT(30), <2>0, <2>2 DEF SpinInv, TypeOK, CpuOK
  <2>3. CASE t[1] # c /\ t # <<c, "task">> /\ t # <<c, "intr">>
    BY ZenonT(30), <2>0, <2>3 DEF SpinInv, TypeOK, CpuOK
  <2> QED BY <2>1, <2>2, <2>3, WhoseStep
<1> QED BY <1>1, <1>3, <1>4, <1>5 DEF SpinInv

(* The store after which nobody owns the lock. *)
LEMMA Unlock ==
  ASSUME SpinInv, NEW t \in Code, unlock(t)
  PROVE  SpinInv'
<1> USE DEF unlock, at, goto
<1>0. t[1] \in CPU /\ t[2] \in Level /\ t = <<t[1], t[2]>>
  BY CodePair
<1>1. TypeOK'
  BY <1>0, SMTT(30) DEF SpinInv, TypeOK, PC, CodeOK
<1>3. LockOK'
  <2>1. lk[t] \in Lock /\ Owns(t, lk[t]) /\ lk[t] \notin mine[t]
    BY <1>0 DEF SpinInv, CodeOK, Owns, releasing
  <2>2. \A u \in Code, k \in Lock : Owns(u, k)' <=> Owns(u, k) /\ k # lk[t]
    BY <2>1 DEF SpinInv, TypeOK, LockOK, Owns
  <2>3. \A k \in Lock : locked'[k] <=> locked[k] /\ k # lk[t]
    BY <2>1 DEF SpinInv, TypeOK
  <2> QED BY <2>2, <2>3 DEF SpinInv, LockOK
<1>4. ASSUME NEW u \in Code PROVE CodeOK(u)'
  BY <1>0 DEF SpinInv, TypeOK, CodeOK, releasing, Extra, Acquiring
<1>5. ASSUME NEW c \in CPU PROVE CpuOK(c)'
  <2>0. <<c, "task">> \in Code /\ <<c, "intr">> \in Code /\ CpuOK(c)
    BY PairCode DEF SpinInv
  <2>1. CASE t = <<c, "task">> /\ t[1] = c /\ t[2] = "task" /\ t # <<c, "intr">>
    BY ZenonT(30), <2>0, <2>1 DEF SpinInv, TypeOK, CpuOK
  <2>2. CASE t = <<c, "intr">> /\ t[1] = c /\ t[2] = "intr" /\ t # <<c, "task">>
    BY ZenonT(30), <2>0, <2>2 DEF SpinInv, TypeOK, CpuOK
  <2>3. CASE t[1] # c /\ t # <<c, "task">> /\ t # <<c, "intr">>
    BY ZenonT(30), <2>0, <2>3 DEF SpinInv, TypeOK, CpuOK
  <2> QED BY <2>1, <2>2, <2>3, WhoseStep
<1> QED BY <1>1, <1>3, <1>4, <1>5 DEF SpinInv

(* pop_off() restores intena when the last lock is gone. *)
LEMMA PopOff ==
  ASSUME SpinInv, NEW t \in Code, pop_off(t)
  PROVE  SpinInv'
<1> USE DEF pop_off, return, at, goto
<1>0. t[1] \in CPU /\ t[2] \in Level /\ t = <<t[1], t[2]>>
  BY CodePair
<1>a. /\ noff[t[1]] = Cardinality(mine[t]) + 1
      /\ Cardinality(mine[t]) \in Nat
  BY ZenonT(30), <1>0, FS_CardinalityType DEF SpinInv, TypeOK, CodeOK, Extra, Acquiring
<1>b. ~sie[t[1]] /\ ~(noff[t[1]] < 1)
  <2>1. noff[t[1]] > 0 /\ ~(noff[t[1]] < 1)
    BY <1>a
  <2>2. CpuOK(t[1])
    BY <1>0 DEF SpinInv
  <2> QED BY <2>1, <2>2 DEF CpuOK
<1>c. /\ pc' = [pc EXCEPT ![t] = "run"]
      /\ noff'[t[1]] = Cardinality(mine[t])
      /\ noff' = [noff EXCEPT ![t[1]] = @ - 1]
  <2>1. noff' = [noff EXCEPT ![t[1]] = @ - 1] /\ pc' = [pc EXCEPT ![t] = "run"]
    BY ZenonT(30), <1>b
  <2>2. noff'[t[1]] = noff[t[1]] - 1
    BY <1>0, <2>1 DEF SpinInv, TypeOK
  <2>3. noff'[t[1]] = Cardinality(mine[t])
    BY <1>a, <2>2
  <2> QED BY ZenonT(30), <2>1, <2>3
<1>d. sie'[t[1]] <=> noff'[t[1]] = 0 /\ intena[t[1]]
  BY <1>0, <1>b DEF SpinInv, TypeOK
<1>e. noff'[t[1]] > 0 <=> noff'[t[1]] # 0
  BY SMTT(30), <1>a, <1>c
<1>1. TypeOK'
  BY SMTT(30), <1>0 DEF SpinInv, TypeOK, PC, CodeOK
<1>2. \A u \in Code, k \in Lock : Owns(u, k)' = Owns(u, k)
  BY DEF SpinInv, TypeOK, Owns
<1>3. LockOK'
  BY <1>2 DEF SpinInv, LockOK
<1>4. ASSUME NEW u \in Code PROVE CodeOK(u)'
  <2>0. CodeOK(u) /\ u[1] \in CPU /\ (u # t /\ u[1] = t[1] => u[2] # t[2])
    BY CodePair, OtherCode DEF SpinInv
  <2>1. CASE u = t
    <3>1. pc'[t] = "run" /\ Extra(t)' = 0
      BY <1>c DEF SpinInv, TypeOK, Extra, Acquiring
    <3> QED BY SMTT(30), <1>0, <1>c, <2>0, <2>1, <3>1 DEF SpinInv, TypeOK, CodeOK
  <2>2. CASE u # t
    <3>1. level[u[1]]' = u[2] => u[1] # t[1]
      BY <1>0, <2>0, <2>2 DEF SpinInv, TypeOK
    <3>2. pc'[u] = pc[u] /\ lk'[u] = lk[u] /\ mine'[u] = mine[u] /\ seen'[u] = seen[u]
      BY <2>2 DEF SpinInv, TypeOK
    <3>3. releasing(u)' = releasing(u) /\ Extra(u)' = Extra(u)
      BY <3>2 DEF releasing, Extra, Acquiring
    <3>4. level[u[1]]' = u[2] => noff'[u[1]] = noff[u[1]] /\ level[u[1]] = u[2]
      BY <1>0, <2>0, <3>1 DEF SpinInv, TypeOK
    <3> QED BY <2>0, <3>2, <3>3, <3>4 DEF CodeOK
  <2> QED BY <2>1, <2>2
<1>5. ASSUME NEW c \in CPU PROVE CpuOK(c)'
  <2>0. <<c, "task">> \in Code /\ <<c, "intr">> \in Code /\ CpuOK(c)
    BY PairCode DEF SpinInv
  <2>1. CASE t = <<c, "task">> /\ t[1] = c /\ t[2] = "task" /\ t # <<c, "intr">>
    <3>1. noff[c] > 0 /\ intena'[c] = intena[c]
      BY <1>a, <2>1 DEF SpinInv
    <3>2. intena[c] = wanted[c] /\ pc[<<c, "intr">>] = "run" /\ mine[<<c, "intr">>] = {}
      BY <2>0, <2>1, <3>1 DEF CpuOK
    <3>3. pc'[t] = "run" /\ pc'[<<c, "intr">>] = pc[<<c, "intr">>]
      BY <1>c, <2>0, <2>1 DEF SpinInv, TypeOK
    <3>4. sie'[c] \in BOOLEAN /\ wanted[c] \in BOOLEAN /\ intena[c] \in BOOLEAN
      BY <1>1 DEF SpinInv, TypeOK
    <3> QED BY ZenonT(30), <1>d, <1>e, <2>0, <2>1, <3>1, <3>2, <3>3, <3>4 DEF CpuOK
  <2>2. CASE t = <<c, "intr">> /\ t[1] = c /\ t[2] = "intr" /\ t # <<c, "task">>
    <3>1. noff[c] > 0 /\ intena'[c] = intena[c]
      BY <1>a, <2>2 DEF SpinInv
    <3>2. /\ ~intena[c] /\ wanted[c] /\ mine[<<c, "task">>] = {}
          /\ pc[<<c, "task">>] \in {"run", "push_off", "intr_off"}
          /\ pc[<<c, "task">>] = "intr_off" => old[<<c, "task">>] = wanted[c]
      BY <2>0, <2>2, <3>1 DEF CpuOK
    <3>3. /\ pc'[t] = "run" /\ pc'[<<c, "task">>] = pc[<<c, "task">>]
          /\ old'[<<c, "task">>] = old[<<c, "task">>]
      BY <1>c, <2>0, <2>2 DEF SpinInv, TypeOK
    <3> QED BY ZenonT(30), <1>d, <2>0, <2>2, <3>1, <3>2, <3>3 DEF CpuOK
  <2>3. CASE t[1] # c /\ t # <<c, "task">> /\ t # <<c, "intr">>
    BY ZenonT(30), <2>0, <2>3 DEF SpinInv, TypeOK, CpuOK
  <2> QED BY <2>1, <2>2, <2>3, WhoseStep
<1> QED BY <1>1, <1>3, <1>4, <1>5 DEF SpinInv

(* intr_on() and intr_off() outside all locks. *)
LEMMA IntrSet ==
  ASSUME SpinInv, NEW c \in CPU, intr_set(c)
  PROVE  SpinInv'
<1> USE DEF intr_set, at
<1>1. TypeOK'
  BY DEF SpinInv, TypeOK
<1>2. LockOK'
  BY SMTT(30) DEF SpinInv, LockOK, Owns
<1>3. ASSUME NEW u \in Code PROVE CodeOK(u)'
  BY SMTT(30) DEF SpinInv, CodeOK, releasing, Extra, Acquiring
<1>4. ASSUME NEW d \in CPU PROVE CpuOK(d)'
  <2>0. CpuOK(d) /\ <<c, "task">> \in Code
    BY ZenonT(30), PairCode DEF SpinInv
  <2>1. CASE d # c
    BY ZenonT(30), <2>0, <2>1 DEF SpinInv, TypeOK, CpuOK
  <2>2. CASE d = c
    <3>1. sie'[c] = ~sie[c] /\ wanted'[c] = ~wanted[c] /\ sie[c] = wanted[c]
      BY <2>0, <2>2, SMTT(30) DEF SpinInv, TypeOK, CpuOK
    <3>2. ~(noff[c] > 0)
      OBVIOUS
    <3> QED BY ZenonT(30), <2>0, <2>2, <3>1, <3>2 DEF SpinInv, TypeOK, CpuOK
  <2> QED BY <2>1, <2>2
<1> QED BY <1>1, <1>2, <1>3, <1>4 DEF SpinInv

(* Interrupts are on only where the task has no lock and no push_off(). *)
LEMMA Interruptible ==
  ASSUME SpinInv, NEW c \in CPU, level[c] = "task", sie[c]
  PROVE  /\ noff[c] = 0 /\ mine[<<c, "task">>] = {} /\ wanted[c]
         /\ pc[<<c, "task">>] \in {"run", "push_off", "intr_off"}
<1> DEFINE t == <<c, "task">>
<1>0. t \in Code /\ t[1] = c /\ t[2] = "task" /\ CodeOK(t) /\ CpuOK(c) /\ pc[t] \in PC
  BY ZenonT(30), PairCode DEF SpinInv, TypeOK
<1>1. noff[c] = 0
  <2>1. noff[c] \in Nat /\ ~(noff[c] > 0)
    BY ZenonT(30), <1>0 DEF SpinInv, TypeOK, CpuOK
  <2> QED BY <2>1
<1>2. wanted[c]
  BY ZenonT(30), <1>0, <1>1 DEF CpuOK
<1>3. Cardinality(mine[t]) \in Nat /\ IsFiniteSet(mine[t])
  BY <1>0, FS_CardinalityType DEF CodeOK
<1>4. noff[c] = Cardinality(mine[t]) + Extra(t) /\ Extra(t) \in {0, 1}
  BY <1>0 DEF CodeOK, Extra
<1>5. Cardinality(mine[t]) = 0 /\ Extra(t) = 0
  BY <1>1, <1>3, <1>4
<1>6. mine[t] = {}
  BY <1>3, <1>5, FS_EmptySet
<1>7. pc[t] \in {"run", "push_off", "intr_off"}
  BY <1>0, <1>5, <1>6 DEF PC, CodeOK, Extra, Acquiring, releasing
<1> QED BY <1>1, <1>2, <1>6, <1>7

(* A handler starts over code without locks. *)
LEMMA Interrupt ==
  ASSUME SpinInv, NEW c \in CPU, interrupt(c)
  PROVE  SpinInv'
<1> USE DEF interrupt
<1>0. /\ <<c, "task">> \in Code /\ <<c, "intr">> \in Code /\ CpuOK(c)
      /\ noff[c] = 0 /\ mine[<<c, "task">>] = {} /\ wanted[c]
      /\ pc[<<c, "task">>] \in {"run", "push_off", "intr_off"}
  BY PairCode, Interruptible DEF SpinInv
<1>1. TypeOK'
  BY DEF SpinInv, TypeOK, Level
<1>2. LockOK'
  BY DEF SpinInv, LockOK, Owns
<1>3. ASSUME NEW u \in Code PROVE CodeOK(u)'
  <2>0. CodeOK(u) /\ releasing(u)' = releasing(u) /\ Extra(u)' = Extra(u) /\ u[1] \in CPU
    BY CodePair, SMTT(30) DEF SpinInv, releasing, Extra, Acquiring
  <2>1. CASE u[1] # c
    BY SMTT(30), <2>0, <2>1 DEF SpinInv, TypeOK, CodeOK
  <2>2. CASE u = <<c, "task">>
    BY SMTT(30), <2>0, <2>2 DEF SpinInv, TypeOK, CodeOK
  <2>3. CASE u = <<c, "intr">>
    <3>1. pc[u] = "run" /\ mine[u] = {}
      BY <1>0, <2>3 DEF CpuOK
    <3>2. Extra(u) = 0 /\ Cardinality(mine[u]) = 0
      BY <3>1, FS_EmptySet DEF Extra, Acquiring
    <3>3. noff'[u[1]] = Cardinality(mine'[u]) + Extra(u)'
      BY <1>0, <2>0, <2>3, <3>2
    <3> QED BY <2>0, <3>3 DEF CodeOK
  <2> QED BY <2>1, <2>2, <2>3, WhoseStep
<1>4. ASSUME NEW d \in CPU PROVE CpuOK(d)'
  <2>0. CpuOK(d)
    BY DEF SpinInv
  <2>1. CASE d # c
    BY ZenonT(30), <2>0, <2>1 DEF SpinInv, TypeOK, CpuOK
  <2>2. CASE d = c
    <3>1. ~sie'[c] /\ level'[c] = "intr" /\ ~(noff[c] > 0)
      BY <1>0 DEF SpinInv, TypeOK
    <3>2. pc[<<c, "intr">>] = "run"
      BY <1>0 DEF CpuOK
    <3> QED BY ZenonT(30), <1>0, <2>2, <3>1, <3>2 DEF CpuOK
  <2> QED BY <2>1, <2>2
<1> QED BY <1>1, <1>2, <1>3, <1>4 DEF SpinInv

(* The handler is gone and the interrupts are on again. *)
LEMMA KerneltrapReturn ==
  ASSUME SpinInv, NEW c \in CPU, kerneltrap_return(c)
  PROVE  SpinInv'
<1> USE DEF kerneltrap_return, at
<1>0. /\ <<c, "task">> \in Code /\ <<c, "intr">> \in Code
      /\ <<c, "intr">>[1] = c /\ <<c, "intr">>[2] = "intr"
      /\ CpuOK(c) /\ CodeOK(<<c, "intr">>)
  BY PairCode DEF SpinInv
<1>a. noff[c] = 0
  <2>1. Extra(<<c, "intr">>) = 0 /\ Cardinality(mine[<<c, "intr">>]) = 0
    BY <1>0, FS_EmptySet DEF Extra, Acquiring
  <2> QED BY <1>0, <2>1 DEF CodeOK
<1>1. TypeOK'
  BY SMTT(30) DEF SpinInv, TypeOK, Level
<1>2. LockOK'
  BY DEF SpinInv, LockOK, Owns
<1>3. ASSUME NEW u \in Code PROVE CodeOK(u)'
  <2>0. CodeOK(u) /\ releasing(u)' = releasing(u) /\ Extra(u)' = Extra(u) /\ u[1] \in CPU
    BY SMTT(30), CodePair DEF SpinInv, releasing, Extra, Acquiring
  <2>1. CASE u[1] # c
    BY SMTT(30), <2>0, <2>1 DEF SpinInv, TypeOK, CodeOK
  <2>2. CASE u = <<c, "task">>
    <3>1. pc[u] \in {"run", "push_off", "intr_off"} /\ mine[u] = {}
      BY SMTT(30), <1>0, <2>2 DEF CpuOK
    <3>2. Extra(u) = 0 /\ Cardinality(mine[u]) = 0
      BY SMTT(30), <3>1, FS_EmptySet DEF Extra, Acquiring
    <3>3. noff'[u[1]] = Cardinality(mine'[u]) + Extra(u)'
      BY SMTT(30), <1>a, <2>0, <2>2, <3>2
    <3> QED BY <2>0, <3>3 DEF CodeOK
  <2>3. CASE u = <<c, "intr">>
    BY <2>0, <2>3 DEF SpinInv, TypeOK, CodeOK
  <2> QED BY <2>1, <2>2, <2>3, WhoseStep
<1>4. ASSUME NEW d \in CPU PROVE CpuOK(d)'
  <2>0. CpuOK(d)
    BY SMTT(30) DEF SpinInv
  <2>1. CASE d # c
    BY ZenonT(30), <2>0, <2>1 DEF SpinInv, TypeOK, CpuOK
  <2>2. CASE d = c
    <3>1. sie'[c] = TRUE /\ level'[c] = "task" /\ ~(noff[c] > 0) /\ wanted[c] \in BOOLEAN
      BY <1>a DEF SpinInv, TypeOK
    <3> QED BY ZenonT(30), <1>0, <2>2, <3>1 DEF CpuOK
  <2> QED BY <2>1, <2>2
<1> QED BY <1>1, <1>2, <1>3, <1>4 DEF SpinInv

(* initlock() and the boot state establish SpinInv. *)
LEMMA SpinInit == Init => SpinInv
<1> SUFFICES ASSUME Init PROVE SpinInv
  OBVIOUS
<1> USE DEF Init
<1>1. TypeOK
  BY DEF TypeOK, PC, Level
<1>2. LockOK
  BY SpinAssumption DEF LockOK, Owns
<1>3. ASSUME NEW t \in Code PROVE CodeOK(t)
  BY CodePair, FS_EmptySet DEF CodeOK, releasing, Extra, Acquiring
<1>4. ASSUME NEW c \in CPU PROVE CpuOK(c)
  BY ZenonT(30), PairCode DEF CpuOK
<1> QED BY <1>1, <1>2, <1>3, <1>4 DEF SpinInv

(* SpinInv is inductive. *)
LEMMA SpinStep == SpinInv /\ [Next]_vars => SpinInv'
<1> SUFFICES ASSUME SpinInv, [Next]_vars PROVE SpinInv'
  OBVIOUS
<1>1. CASE UNCHANGED vars
  <2> USE <1>1 DEF vars
  <2>1. TypeOK'
    BY DEF SpinInv, TypeOK
  <2>2. LockOK'
    BY DEF SpinInv, LockOK, Owns
  <2>3. ASSUME NEW t \in Code PROVE CodeOK(t)'
    BY ZenonT(30) DEF SpinInv, CodeOK, releasing, Extra, Acquiring
  <2>4. ASSUME NEW c \in CPU PROVE CpuOK(c)'
    BY DEF SpinInv, CpuOK
  <2> QED BY <2>1, <2>2, <2>3, <2>4 DEF SpinInv
<1>2. ASSUME NEW t \in Code, NEW k \in Lock, acquire(t, k) \/ release(t, k) PROVE SpinInv'
  BY <1>2, Acquire, Release
<1>3. ASSUME NEW t \in Code, push_off(t) \/ intr_off(t) \/ holding(t) \/ holding_cpu(t)
      PROVE  SpinInv'
  BY <1>3, PushOff, IntrOff, Holding, HoldingCpu
<1>4. ASSUME NEW t \in Code, \/ spin(t) \/ set_cpu(t) \/ clear_cpu(t)
                             \/ unlock(t) \/ pop_off(t)
      PROVE  SpinInv'
  BY <1>4, Spin, SetCpu, ClearCpu, Unlock, PopOff
<1>5. ASSUME NEW c \in CPU, intr_set(c) \/ interrupt(c) \/ kerneltrap_return(c)
      PROVE  SpinInv'
  BY <1>5, IntrSet, Interrupt, KerneltrapReturn
<1> QED BY <1>1, <1>2, <1>3, <1>4, <1>5 DEF Next

(* Spinlocks exclude each other's owners on any number of CPUs and levels, *)
(* with the interrupt handlers that acquire() and release() allow, and     *)
(* none of the panics in spinlock.c is reached.                            *)
THEOREM LocksExclude == Spec => []LocksSafe
<1>1. SpinInv => MutualExclusion
  BY SMTT(30) DEF SpinInv, TypeOK, LockOK, Owns, MutualExclusion
<1>2. SpinInv => NoSpuriousPanic
  BY DEF SpinInv, CodeOK, NoSpuriousPanic
<1>3. SpinInv => LocksSafe
  BY <1>1, <1>2 DEF LocksSafe
<1> QED BY <1>3, SpinInit, SpinStep, PTL DEF Spec

(* A handler never runs over code that owns a lock or is about to.         *)
THEOREM HandlersSafe == Spec => []NoSelfDeadlock
<1>1. SpinInv => NoSelfDeadlock
  BY ZenonT(30) DEF SpinInv, CpuOK, NoSelfDeadlock
<1> QED BY <1>1, SpinInit, SpinStep, PTL DEF Spec

(* push_off() and pop_off() give every task its own interrupt setting back. *)
THEOREM InterruptsRestored == Spec => []PushPopMatched
<1>1. SpinInv => PushPopMatched
  BY ZenonT(30) DEF SpinInv, CpuOK, PushPopMatched
<1> QED BY <1>1, SpinInit, SpinStep, PTL DEF Spec
===============================================================================
