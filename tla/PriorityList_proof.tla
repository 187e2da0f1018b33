-------------------------- MODULE PriorityList_proof --------------------------
(***************************************************************************)
(* TLAPS proofs that the per-priority lists are correct for any number of  *)
(* process slots and priorities, until a fork() fails with its child       *)
(* already on a list.                                                      *)
(***************************************************************************)
EXTENDS PriorityList, TLAPS

(* procinit() and init_priority_control() leave every list empty. *)
LEMMA ListInit == Init => ListInv
  <1> SUFFICES ASSUME Init PROVE ListInv
      OBVIOUS
  <1> USE PriorityListAssumption DEF Init, procinit, init_priority_control, Priority
  <1>1. TypeOK BY DEF TypeOK, PC
  <1>2. \A p \in Proc : ~IsListed(p) BY DEF IsListed
  <1>3. OrderOK BY <1>2 DEF OrderOK, Precedes
  <1>4. WalkOK BY DEF WalkOK
  <1>5. \A i \in Priority : Listed(i) = {} BY <1>2 DEF Listed
  <1>6. ListIsForkOrder
        BY <1>5 DEF ListIsForkOrder, HeadIsOldest, NextIsSuccessor
  <1>7. UnlistedHasNoNext BY DEF UnlistedHasNoNext
  <1>8. PresentIsAccurate BY <1>5 DEF PresentIsAccurate
  <1> QED BY <1>1, <1>3, <1>4, <1>6, <1>7, <1>8 DEF ListInv

(***************************************************************************)
(* A step that touches neither the pointers nor the history, that leaves   *)
(* every slot as listed as it was and changes the priority of no listed    *)
(* slot, preserves everything ListInv says about the lists.                *)
(***************************************************************************)
LEMMA Neutral ==
  ASSUME ListInv,
         UNCHANGED <<next, head, present, before>>,
         \A p \in Proc : IsListed(p)' <=> IsListed(p),
         \A p \in Proc : IsListed(p) => priority'[p] = priority[p]
  PROVE  /\ OrderOK' /\ ListIsForkOrder' /\ UnlistedHasNoNext' /\ PresentIsAccurate'
         /\ \A i \in Priority : Listed(i)' = Listed(i)
  <1>1. \A i \in Priority : Listed(i)' = Listed(i)
        BY DEF Listed
  <1>2. OrderOK'
        BY DEF ListInv, OrderOK, Precedes
  <1>3. ListIsForkOrder'
        BY <1>1 DEF ListInv, ListIsForkOrder, HeadIsOldest, NextIsSuccessor, Precedes
  <1>4. UnlistedHasNoNext'
        BY DEF ListInv, UnlistedHasNoNext
  <1>5. PresentIsAccurate'
        BY <1>1 DEF ListInv, PresentIsAccurate
  <1> QED BY <1>1, <1>2, <1>3, <1>4, <1>5

(* allocproc() takes a slot that is on no list. *)
LEMMA AllocStep ==
  ASSUME ListInv, NEW p \in Proc, NEW pri \in Priority,
         allocproc(p, pri), initproc' \in Proc \cup {NULL}
  PROVE  ListInv'
  <1> USE PriorityListAssumption DEF allocproc, control
  <1>1. TypeOK' BY DEF ListInv, TypeOK, PC
  <1>2. \A q \in Proc : IsListed(q)' <=> IsListed(q)
        BY DEF ListInv, TypeOK, IsListed
  <1>3. \A q \in Proc : IsListed(q) => priority'[q] = priority[q]
        BY DEF ListInv, TypeOK, IsListed
  <1>4. /\ OrderOK' /\ ListIsForkOrder' /\ UnlistedHasNoNext' /\ PresentIsAccurate'
        /\ \A i \in Priority : Listed(i)' = Listed(i)
        BY <1>2, <1>3, Neutral
  <1>5. WalkOK'
        BY <1>4 DEF ListInv, TypeOK, WalkOK, Precedes
  <1> QED BY <1>1, <1>4, <1>5 DEF ListInv

(* The steps that only move a process on: no list is touched. *)
LEMMA QuietStep ==
  ASSUME ListInv, NEW p \in Proc,
         fork_done(p) \/ exit(p) \/ wait(p)
  PROVE  ListInv'
  <1> USE PriorityListAssumption DEF fork_done, exit, wait, control
  <1>1. TypeOK' BY DEF ListInv, TypeOK, PC
  <1>2. \A q \in Proc : IsListed(q)' <=> IsListed(q)
        BY DEF ListInv, TypeOK, IsListed, WalkOK
  <1>3. /\ OrderOK' /\ ListIsForkOrder' /\ UnlistedHasNoNext' /\ PresentIsAccurate'
        /\ \A i \in Priority : Listed(i)' = Listed(i)
        BY <1>2, Neutral
  <1>4. WalkOK'
        BY <1>3 DEF ListInv, TypeOK, WalkOK, Precedes
  <1> QED BY <1>1, <1>3, <1>4 DEF ListInv

(* A walk that starts, or moves on by one pointer, changes no list. *)
LEMMA CursorStep ==
  ASSUME ListInv, NEW p \in Proc, UNCHANGED <<next, head, before, initproc, state, priority>>,
         present' = present,
         \/ /\ pc[p] = "add" /\ priority_lock = NULL /\ head[priority[p]] # NULL
            /\ aux' = [aux EXCEPT ![p] = head[priority[p]]]
            /\ priority_lock' = p /\ pc' = [pc EXCEPT ![p] = "add_walk"]
         \/ /\ pc[p] = "free" /\ priority_lock = NULL /\ head[priority[p]] # p
            /\ aux' = [aux EXCEPT ![p] = head[priority[p]]]
            /\ priority_lock' = p /\ pc' = [pc EXCEPT ![p] = "free_walk"]
         \/ /\ pc[p] = "add_walk" /\ next[aux[p]] # NULL
            /\ aux' = [aux EXCEPT ![p] = next[aux[p]]]
            /\ UNCHANGED <<priority_lock, pc>>
         \/ /\ pc[p] = "free_walk" /\ next[aux[p]] # p
            /\ aux' = [aux EXCEPT ![p] = next[aux[p]]]
            /\ UNCHANGED <<priority_lock, pc>>
  PROVE  ListInv'
  <1> USE PriorityListAssumption
  <1>1. \A q \in Proc : IsListed(q)' <=> IsListed(q)
        BY DEF ListInv, TypeOK, IsListed, WalkOK
  <1>2. /\ OrderOK' /\ ListIsForkOrder' /\ UnlistedHasNoNext' /\ PresentIsAccurate'
        /\ \A i \in Priority : Listed(i)' = Listed(i)
        BY <1>1, Neutral
  <1>3. priority[p] \in Priority
        BY DEF ListInv, TypeOK
  <1>4. TypeOK'
        BY <1>3 DEF ListInv, TypeOK, PC, WalkOK, Listed
  <1>5. pc'[p] = "add_walk" => aux'[p] \in Listed(priority[p])
    <2>1. CASE pc[p] = "add"
          BY <2>1, <1>3 DEF ListInv, TypeOK, ListIsForkOrder, HeadIsOldest
    <2>2. CASE pc[p] = "add_walk"
          BY <2>2, <1>3 DEF ListInv, TypeOK, WalkOK, ListIsForkOrder, NextIsSuccessor
    <2> QED BY <2>1, <2>2 DEF ListInv, TypeOK
  <1>6. pc'[p] = "free_walk" => aux'[p] \in Proc /\ Precedes(aux'[p], p)
    <2>1. CASE pc[p] = "free"
      <3>1. p \in Listed(priority[p])
            BY <2>1 DEF Listed, IsListed
      <3> QED BY <2>1, <3>1, <1>3 DEF ListInv, TypeOK, ListIsForkOrder, HeadIsOldest, Listed
    <2>2. CASE pc[p] = "free_walk"
      <3>1. /\ p \in Listed(priority[p]) /\ aux[p] \in Listed(priority[p]) /\ aux[p] # p
            /\ Precedes(aux[p], p) /\ ~Precedes(p, aux[p])
            BY <2>2 DEF ListInv, TypeOK, WalkOK, OrderOK, Listed, IsListed
      <3>2. /\ next[aux[p]] \in Listed(priority[p]) 
            /\ Precedes(next[aux[p]], p)
            BY <2>2, <3>1, <1>3 DEF ListInv, TypeOK, ListIsForkOrder, NextIsSuccessor
      <3> QED BY <2>2, <3>2 DEF ListInv, TypeOK, Listed
    <2> QED BY <2>1, <2>2 DEF ListInv, TypeOK
  <1>7. WalkOK'
    <2>1. ASSUME NEW q \in Proc, q # p
          PROVE  pc'[q] = pc[q] /\ aux'[q] = aux[q] 
          BY <2>1 DEF ListInv, TypeOK
    <2>2. \A q \in Proc : pc'[q] \in {"add_walk", "free_walk"} <=> priority_lock' = q
          BY DEF ListInv, TypeOK, WalkOK
    <2>3. \A q \in Proc : /\ pc'[q] \in {"add", "add_walk", "copy"} => state[q] = "USED"
                          /\ pc'[q] \in {"free", "free_walk"} => state[q] = "ZOMBIE"
          BY DEF ListInv, TypeOK, WalkOK
    <2>4. \A q \in Proc : pc'[q] = "add_walk" => aux'[q] \in Listed(priority[q])
          BY <2>1, <1>5 DEF ListInv, WalkOK
    <2>5. \A q \in Proc : pc'[q] = "free_walk" => aux'[q] \in Proc /\ Precedes(aux'[q], q)
          BY <2>1, <1>6 DEF ListInv, WalkOK
    <2>6. \A q \in Proc : Listed(priority[q])' = Listed(priority[q])
          BY <1>2 DEF ListInv, TypeOK, Listed, IsListed
    <2> QED BY <2>2, <2>3, <2>4, <2>5, <2>6 DEF WalkOK, Precedes
  <1> QED BY <1>2, <1>4, <1>7 DEF ListInv

(***************************************************************************)
(* Linking p behind everything on its list: as the head of an empty list,  *)
(* or behind the node where the walk ended.                                *)
(***************************************************************************)
LEMMA LinkStep ==
  ASSUME ListInv, NEW p \in Proc, pc[p] \in {"add", "add_walk"},
         UNCHANGED <<initproc, state, priority, aux>>,
         pc' = [pc EXCEPT ![p] = "copy"], before' = Appended(p),
         present' = [present EXCEPT ![priority[p]] = 1], priority_lock' = NULL,
         pc[p] = "add" => priority_lock = NULL,
         \/ /\ head[priority[p]] = NULL
            /\ head' = [head EXCEPT ![priority[p]] = p] /\ next' = next
         \/ /\ pc[p] = "add_walk" /\ next[aux[p]] = NULL
            /\ next' = [next EXCEPT ![aux[p]] = p] /\ head' = head
  PROVE  ListInv'
  <1> USE PriorityListAssumption
  <1>0. priority[p] \in Priority /\ ~IsListed(p) /\ next[p] = NULL
        BY DEF ListInv, TypeOK, IsListed, WalkOK, UnlistedHasNoNext
  <1>1. /\ \A q \in Proc : IsListed(q)' <=> (IsListed(q) \/ q = p)
        /\ \A i \in Priority : i # priority[p] => Listed(i)' = Listed(i)
        /\ Listed(priority[p])' = Listed(priority[p]) \cup {p}
    <2>1. \A q \in Proc : IsListed(q)' <=> (IsListed(q) \/ q = p)
          BY DEF ListInv, TypeOK, IsListed, WalkOK
    <2> QED BY <2>1 DEF Listed
  <1>2. \A q, r \in Proc : Precedes(q, r)' <=> (Precedes(q, r) \/ (r = p /\ q \in Listed(priority[p])))
        BY DEF Precedes, Appended
  <1>3. \A q \in Proc : ~Precedes(p, q) /\ ~Precedes(q, p)
        BY <1>0 DEF ListInv, OrderOK
  <1>4. TypeOK'
    <2>1. before' \in SUBSET (Proc \X Proc)
          BY DEF ListInv, TypeOK, Appended, Listed
    <2>2. pc[p] = "add_walk" => aux[p] \in Proc
          BY SMTT(30) DEF ListInv, WalkOK, Listed
    <2> QED BY <2>1, <2>2, <1>0 DEF ListInv, TypeOK, PC
  <1>5. OrderOK'
    <2>1. \A q \in Proc : q \in Listed(priority[p]) <=> IsListed(q) /\ priority[q] = priority[p]
          BY DEF Listed
    <2> QED BY <1>0, <1>1, <1>2, <1>3, <2>1 DEF ListInv, OrderOK
  <1>6. WalkOK'
    <2>1. \A q \in Proc : pc'[q] \in {"add_walk", "free_walk"} <=> priority_lock' = q
          BY DEF ListInv, TypeOK, WalkOK
    <2>2. \A q \in Proc : q # p => pc'[q] \notin {"add_walk", "free_walk"}
          BY <2>1
    <2> QED BY <2>1, <2>2 DEF ListInv, TypeOK, WalkOK
  <1>7. ListIsForkOrder'
    <2>1. CASE head[priority[p]] = NULL
      <3>1. Listed(priority[p]) = {}
            BY <2>1, <1>0 DEF ListInv, ListIsForkOrder, HeadIsOldest, Listed
      <3>2. HeadIsOldest'
            BY <2>1, <3>1, <1>0, <1>1, <1>2 DEF ListInv, TypeOK, ListIsForkOrder, HeadIsOldest, Listed, WalkOK
      <3>3. next' = next
            BY <2>1, <3>1 DEF ListInv, WalkOK
      <3>4. NextIsSuccessor'
            BY <3>1, <3>3, <1>0, <1>1, <1>2 DEF ListInv, TypeOK, ListIsForkOrder, NextIsSuccessor, Listed
      <3> QED BY <3>2, <3>4 DEF ListIsForkOrder
    <2>2. CASE head[priority[p]] # NULL
      <3>1. /\ pc[p] = "add_walk" /\ next[aux[p]] = NULL
            /\ next' = [next EXCEPT ![aux[p]] = p] /\ head' = head
            BY <2>2
      <3>2. aux[p] \in Listed(priority[p]) /\ aux[p] \in Proc /\ aux[p] # p
            BY <3>1, <1>0 DEF ListInv, WalkOK, Listed
      <3>3. \A q \in Listed(priority[p]) \ {aux[p]} : Precedes(q, aux[p])
            BY <3>1, <3>2, <1>0 DEF ListInv, ListIsForkOrder, NextIsSuccessor
      <3>4. HeadIsOldest'
        <4>1. head[priority[p]] \in Listed(priority[p])
              BY <3>2, <1>0 DEF ListInv, ListIsForkOrder, HeadIsOldest
        <4> QED BY <4>1, <3>1, <1>0, <1>1, <1>2 DEF ListInv, ListIsForkOrder, HeadIsOldest, Listed
      <3>5. ASSUME NEW i \in Priority, i # priority[p], NEW q \in Listed(i)
            PROVE  next'[q] = next[q]
            BY <3>1, <3>2, <3>5 DEF ListInv, TypeOK, Listed
      <3>6. ASSUME NEW q \in Listed(priority[p]), q # aux[p]
            PROVE  next'[q] = next[q] /\ next[q] # NULL
        <4>1. Precedes(q, aux[p]) /\ ~Precedes(aux[p], q)
              BY <3>3, <3>2, <3>6 DEF ListInv, OrderOK, Listed
        <4> QED BY <4>1, <3>1, <3>2, <3>6, <1>0 DEF ListInv, TypeOK, Listed, ListIsForkOrder, NextIsSuccessor
      <3>7. next'[aux[p]] = p /\ next'[p] = NULL
            BY <3>1, <3>2, <1>0 DEF ListInv, TypeOK
      <3>8. NextIsSuccessor'
        <4>1. ASSUME NEW i \in Priority, i # priority[p], NEW q \in Listed(i)'
              PROVE  IF next'[q] = NULL
                       THEN \A r \in Listed(i)' \ {q} : Precedes(r, q)'
                       ELSE /\ next'[q] \in Listed(i)' /\ Precedes(q, next[q])'
                            /\ \A r \in Listed(i)' \ {q, next'[q]} :
                                 Precedes(r, q)' \/ Precedes(next[q], r)'
              BY <4>1, <3>5, <1>1, <1>2 DEF ListInv, ListIsForkOrder, NextIsSuccessor, Listed
        <4>2. ASSUME NEW q \in Listed(priority[p])
              PROVE  /\ next'[q] \in Listed(priority[p])' /\ Precedes(q, next[q])'
                     /\ \A r \in Listed(priority[p])' \ {q, next'[q]} :
                          Precedes(r, q)' \/ Precedes(next[q], r)'
          <5>1. CASE q = aux[p]
                BY <5>1, <3>7, <3>3, <3>2, <1>1, <1>2 DEF Listed
          <5>2. CASE q # aux[p]
                BY <5>2, <3>6, <1>0, <1>1, <1>2 DEF ListInv, ListIsForkOrder, NextIsSuccessor, Listed
          <5> QED BY <5>1, <5>2
        <4>3. \A r \in Listed(priority[p])' \ {p} : Precedes(r, p)'
              BY <1>1, <1>2 DEF Listed
        <4>4. \A q \in Listed(priority[p]) : next'[q] # NULL
              BY <3>6, <3>7
        <4> QED BY <4>1, <4>2, <4>3, <4>4, <3>7, <1>1 DEF NextIsSuccessor
      <3> QED BY <3>4, <3>8 DEF ListIsForkOrder
    <2> QED BY <2>1, <2>2
  <1>8. UnlistedHasNoNext'
        BY <1>0, <1>1 DEF ListInv, TypeOK, WalkOK, Listed, UnlistedHasNoNext
  <1>9. PresentIsAccurate'
        BY <1>0, <1>1 DEF ListInv, TypeOK, PresentIsAccurate
  <1> QED BY <1>4, <1>5, <1>6, <1>7, <1>8, <1>9 DEF ListInv

(***************************************************************************)
(* Unlinking p: from the head of its list, or from behind the node before  *)
(* it.  Either way its own pointer ends up NULL.                           *)
(***************************************************************************)
LEMMA UnlinkStep ==
  ASSUME ListInv, NEW p \in Proc, pc[p] \in {"free", "free_walk"},
         UNCHANGED <<initproc, state, priority>>,
         aux' \in [Proc -> Proc \cup {NULL}],
         pc' = [pc EXCEPT ![p] = "idle"], before' = Removed(p), priority_lock' = NULL,
         pc[p] = "free" => priority_lock = NULL,
         \/ head[priority[p]] = p /\ unlink_head(p)
         \/ /\ pc[p] = "free_walk" /\ next[aux[p]] = p
            /\ next' = unlink_after(p) /\ UNCHANGED control
  PROVE  ListInv'
  <1> USE PriorityListAssumption
  <1>0. /\ priority[p] \in Priority /\ IsListed(p) /\ p \in Listed(priority[p])
        /\ state[p] = "ZOMBIE"
        BY DEF ListInv, TypeOK, IsListed, Listed, WalkOK
  <1>1. /\ \A q \in Proc : IsListed(q)' <=> (IsListed(q) /\ q # p)
        /\ \A i \in Priority : i # priority[p] => Listed(i)' = Listed(i)
        /\ Listed(priority[p])' = Listed(priority[p]) \ {p}
    <2>1. \A q \in Proc : IsListed(q)' <=> (IsListed(q) /\ q # p)
          BY <1>0 DEF ListInv, TypeOK, IsListed, WalkOK
    <2> QED BY <2>1 DEF Listed
  <1>2. \A q, r \in Proc : Precedes(q, r)' <=> (Precedes(q, r) /\ q # p /\ r # p)
        BY DEF Precedes, Removed
  <1>a. /\ \A i \in Priority : Listed(i) \subseteq Proc
        /\ \A q, r \in Proc : Precedes(q, r) => q # r /\ ~Precedes(r, q)
        /\ \A q, r, t \in Proc : Precedes(q, r) /\ Precedes(r, t) => Precedes(q, t)
        BY DEF ListInv, OrderOK, Listed
  <1>3. OrderOK'
        BY <1>1, <1>2 DEF ListInv, OrderOK
  <1>4. WalkOK'
    <2>1. \A q \in Proc : pc'[q] \in {"add_walk", "free_walk"} <=> priority_lock' = q
          BY SMTT(30) DEF ListInv, TypeOK, WalkOK
    <2>2. \A q \in Proc : q # p => pc'[q] \notin {"add_walk", "free_walk"}
          BY <2>1
    <2> QED BY <2>1, <2>2 DEF ListInv, TypeOK, WalkOK
  <1>5. /\ next' \in [Proc -> Proc \cup {NULL}] /\ head' \in [Priority -> Proc \cup {NULL}]
        /\ present' \in [Priority -> {0, 1}] /\ next'[p] = NULL
        BY <1>0 DEF ListInv, TypeOK, unlink_head, unlink_after, control
  <1>6. TypeOK'
        BY <1>5 DEF ListInv, TypeOK, PC, Removed
  <1>7. \A q \in Proc : q # p /\ next[q] # p => next'[q] = next[q]
    <2>1. CASE head[priority[p]] = p /\ unlink_head(p)
          BY <2>1 DEF ListInv, TypeOK, unlink_head
    <2>2. CASE /\ pc[p] = "free_walk" /\ next[aux[p]] = p
               /\ next' = unlink_after(p) /\ UNCHANGED control
          BY <2>2 DEF ListInv, TypeOK, WalkOK, unlink_after
    <2> QED BY <2>1, <2>2
  <1>8. \A i \in Priority : i # priority[p] => head'[i] = head[i] /\ present'[i] = present[i]
        BY <1>0 DEF ListInv, TypeOK, unlink_head, control
  <1>9. \A q \in Proc : q # p /\ next[q] = p =>
          /\ q \in Listed(priority[p]) /\ Precedes(q, p) /\ next'[q] = next[p]
    <2>1. ASSUME NEW q \in Proc, q # p, next[q] = p
          PROVE  q \in Listed(priority[p]) /\ Precedes(q, p)
      <3>1. IsListed(q)
            BY <2>1 DEF ListInv, UnlistedHasNoNext
      <3>2. q \in Listed(priority[q]) /\ priority[q] \in Priority
            BY <3>1, SMTT(30) DEF ListInv, TypeOK, Listed
      <3>3. p \in Listed(priority[q]) /\ Precedes(q, p)
            BY <2>1, <3>2 DEF ListInv, ListIsForkOrder, NextIsSuccessor
      <3> QED BY <3>2, <3>3 DEF Listed
    <2>2. CASE head[priority[p]] = p /\ unlink_head(p)
          BY <2>1, <2>2, <1>0 DEF ListInv, ListIsForkOrder, HeadIsOldest, OrderOK, Listed
    <2>3. CASE /\ pc[p] = "free_walk" /\ next[aux[p]] = p
               /\ next' = unlink_after(p) /\ UNCHANGED control
      <3>1. aux[p] \in Proc /\ aux[p] # p
            BY <2>3 DEF ListInv, WalkOK, OrderOK
      <3>2. ASSUME NEW q \in Proc, q # p, next[q] = p PROVE q = aux[p]
        <4>1. /\ q \in Listed(priority[p]) /\ Precedes(q, p) /\ ~Precedes(p, q)
              /\ aux[p] \in Listed(priority[p]) /\ Precedes(aux[p], p) /\ ~Precedes(p, aux[p])
              BY <2>1, <3>1, <3>2, <2>3, SMTT(30) DEF ListInv, OrderOK
        <4>2. q # aux[p] => Precedes(q, aux[p]) /\ Precedes(aux[p], q)
              BY <4>1, <3>1, <3>2, <2>3, <1>0 DEF ListInv, ListIsForkOrder, NextIsSuccessor
        <4> QED BY <4>2, <3>1, SMTT(30) DEF ListInv, OrderOK
      <3> QED BY <2>1, <2>3, <3>1, <3>2 DEF ListInv, TypeOK, unlink_after
    <2> QED BY <2>2, <2>3
  <1>10. NextIsSuccessor'
    <2>1. ASSUME NEW i \in Priority, NEW q \in Listed(i)'
          PROVE  IF next'[q] = NULL
                   THEN \A r \in Listed(i)' \ {q} : Precedes(r, q)'
                   ELSE /\ next'[q] \in Listed(i)' /\ Precedes(q, next[q])'
                        /\ \A r \in Listed(i)' \ {q, next'[q]} :
                             Precedes(r, q)' \/ Precedes(next[q], r)'
      <3>1. q \in Listed(i) /\ q \in Proc /\ q # p /\ priority[q] = i
            BY <2>1, <1>1, SMTT(30) DEF Listed
      <3>2. CASE next[q] # p
        <4>1. next'[q] = next[q]
              BY <3>1, <3>2, <1>7
        <4>2. Listed(i)' = Listed(i) \ {p} /\ Listed(i) \subseteq Proc
              BY <1>1, SMTT(30) DEF Listed
        <4>3. CASE next[q] = NULL
          <5>1. \A r \in Listed(i) \ {q} : Precedes(r, q)
                BY <3>1, <4>3 DEF ListInv, ListIsForkOrder, NextIsSuccessor
          <5>2. \A r \in Listed(i)' \ {q} : Precedes(r, q)'
                BY <3>1, <4>2, <5>1, <1>2
          <5> QED BY <4>1, <4>3, <5>2
        <4>4. CASE next[q] # NULL
          <5>1. /\ next[q] \in Listed(i) /\ Precedes(q, next[q])
                /\ \A r \in Listed(i) \ {q, next[q]} : Precedes(r, q) \/ Precedes(next[q], r)
                BY <3>1, <4>4 DEF ListInv, ListIsForkOrder, NextIsSuccessor
          <5>2. next[q] \in Listed(i)' /\ Precedes(q, next[q])'
                BY <3>1, <3>2, <4>1, <4>2, <5>1, <1>2
          <5>3. \A r \in Listed(i)' \ {q, next[q]} : Precedes(r, q)' \/ Precedes(next[q], r)'
                BY <3>1, <3>2, <4>1, <4>2, <5>1, <1>2, SMTT(30)
          <5> QED BY <4>1, <4>4, <5>2, <5>3, SMTT(30)
        <4> QED BY <4>3, <4>4
      <3>3. CASE next[q] = p
        <4>1. i = priority[p] /\ next'[q] = next[p] /\ Precedes(q, p)
              BY <3>1, <3>3, <1>9 DEF Listed
        <4>2. \A r \in Listed(i) \ {q, p} : Precedes(r, q) \/ Precedes(p, r)
              BY <3>1, <3>3, SMTT(30) DEF ListInv, ListIsForkOrder, NextIsSuccessor
        <4>3. CASE next[p] = NULL
          <5>1. \A r \in Listed(i) \ {q, p} : Precedes(r, p) /\ ~Precedes(p, r)
            <6>1. \A r \in Listed(i) \ {p} : Precedes(r, p)
                  BY <4>1, <4>3, <1>0 DEF ListInv, ListIsForkOrder, NextIsSuccessor
            <6>2. \A r \in Proc : Precedes(r, p) => ~Precedes(p, r)
                  BY DEF ListInv, OrderOK
            <6>3. Listed(i) \subseteq Proc
                  BY DEF Listed
            <6> QED BY <6>1, <6>2, <6>3
          <5>2. Listed(i)' = Listed(i) \ {p} /\ Listed(i) \subseteq Proc
                BY <4>1, <1>1, <1>a
          <5>3. \A r \in Listed(i)' \ {q} : Precedes(r, q)'
                BY <4>2, <5>1, <5>2, <3>1, <1>2
          <5> QED BY <4>1, <4>3, <5>3
        <4>4. CASE next[p] # NULL
          <5>1. /\ next[p] \in Listed(i) /\ Precedes(p, next[p])
                /\ \A r \in Listed(i) \ {p, next[p]} : Precedes(r, p) \/ Precedes(next[p], r)
                BY <4>1, <4>4, <1>0, SMTT(30) DEF ListInv, ListIsForkOrder, NextIsSuccessor
          <5>2. next[p] \in Proc /\ next[p] # p /\ Precedes(q, next[p])
                BY <5>1, <4>1, <3>1, SMTT(30) DEF ListInv, OrderOK, Listed
          <5>3. \A r \in Listed(i) \ {q, p, next[p]} : Precedes(r, q) \/ Precedes(next[p], r)
                BY <5>1, <4>2, <3>1 DEF ListInv, OrderOK, Listed
          <5>4. Listed(i)' = Listed(i) \ {p} /\ Listed(i) \subseteq Proc
                BY <4>1, <1>1, <1>a
          <5>5. PICK n \in Proc : n = next[p]
                BY <5>2
          <5>6. n \in Listed(i)' /\ Precedes(q, n)'
                BY <5>1, <5>2, <5>4, <5>5, <3>1, <1>2
          <5>7. \A r \in Listed(i)' \ {q, n} : Precedes(r, q)' \/ Precedes(n, r)'
                BY <5>2, <5>3, <5>4, <5>5, <3>1, <1>2
          <5>8. next'[q] = n /\ n # NULL
                BY <4>1, <4>4, <5>5
          <5> QED BY <5>6, <5>7, <5>8
        <4> QED BY <4>3, <4>4
      <3> QED BY <3>2, <3>3
    <2> QED BY <2>1 DEF NextIsSuccessor
  <1>11. /\ HeadIsOldest' 
         /\ present'[priority[p]] = 1 <=> Listed(priority[p])' # {}
    <2>1. CASE head[priority[p]] = p /\ unlink_head(p)
      <3>1. CASE next[p] = NULL
        <4>1. Listed(priority[p])' = {}
          <5>1. \A q \in Listed(priority[p]) \ {p} : Precedes(q, p)
                BY <3>1, <1>0 DEF ListInv, ListIsForkOrder, NextIsSuccessor
          <5>2. \A q \in Listed(priority[p]) \ {p} : Precedes(p, q)
                BY <2>1, <1>0 DEF ListInv, ListIsForkOrder, HeadIsOldest
          <5>3. Listed(priority[p]) \ {p} = {}
            <6>1. ASSUME NEW q \in Listed(priority[p]) \ {p} PROVE FALSE
              <7>1. q \in Proc BY DEF Listed
              <7> QED BY <5>1, <5>2, <7>1 DEF ListInv, OrderOK
            <6> QED BY <6>1
          <5> QED BY <5>3, <1>1
        <4> QED BY <4>1, <2>1, <3>1, <1>0, <1>1, <1>2, SMTT(30) DEF ListInv, TypeOK, unlink_head, ListIsForkOrder, HeadIsOldest, Listed
      <3>2. CASE next[p] # NULL
        <4>1. /\ next[p] \in Listed(priority[p]) /\ next[p] # p
              /\ \A r \in Listed(priority[p]) \ {p, next[p]} : Precedes(next[p], r)
          <5>1. /\ next[p] \in Listed(priority[p]) /\ Precedes(p, next[p])
                /\ \A r \in Listed(priority[p]) \ {p, next[p]} :
                     Precedes(r, p) \/ Precedes(next[p], r)
                BY <3>2, <1>0 DEF ListInv, ListIsForkOrder, NextIsSuccessor
          <5>2. \A r \in Listed(priority[p]) \ {p} : Precedes(p, r)
                BY <2>1, <1>0 DEF ListInv, ListIsForkOrder, HeadIsOldest
          <5> QED BY <5>1, <5>2, <1>0, <1>a
        <4>2. HeadIsOldest'
              BY <4>1, <2>1, <3>2, <1>0, <1>1, <1>2, SMTT(30) DEF ListInv, TypeOK, unlink_head, ListIsForkOrder, HeadIsOldest, Listed
        <4>3. present' = present /\ present[priority[p]] = 1
              BY <2>1, <3>2, <1>0 DEF unlink_head, ListInv, PresentIsAccurate
        <4> QED BY <4>1, <4>2, <4>3, <1>1, SMTT(30)
      <3> QED BY <3>1, <3>2
    <2>2. CASE /\ pc[p] = "free_walk" /\ next[aux[p]] = p
               /\ next' = unlink_after(p) /\ UNCHANGED control
      <3>1. aux[p] \in Proc /\ aux[p] # p /\ Precedes(aux[p], p) /\ ~Precedes(p, aux[p])
            /\ aux[p] \in Listed(priority[p])
        <4>1. aux[p] \in Proc /\ Precedes(aux[p], p)
              BY <2>2 DEF ListInv, WalkOK
        <4>2. /\ IsListed(aux[p]) /\ priority[aux[p]] = priority[p]
              /\ aux[p] # p /\ ~Precedes(p, aux[p])
              BY <4>1 DEF ListInv, OrderOK
        <4> QED BY <4>1, <4>2 DEF Listed
      <3>2. head[priority[p]] # p
            BY <3>1, <1>0, SMTT(30) DEF ListInv, ListIsForkOrder, HeadIsOldest
      <3>3. HeadIsOldest'
        <4>1. head' = head
              BY <2>2 DEF control
        <4>2. \A i \in Priority \ {priority[p]} :
                /\ Listed(i)' = Listed(i)
                /\ \A q, r \in Listed(i) : Precedes(q, r)' <=> Precedes(q, r)
              BY <1>1, <1>2 DEF Listed
        <4>3. /\ head[priority[p]] \in Listed(priority[p])'
              /\ \A q \in Listed(priority[p])' \ {head[priority[p]]} : Precedes(head[priority[p]], q)
              BY <3>2, <1>0, <1>1, SMTT(30) DEF ListInv, ListIsForkOrder, HeadIsOldest
        <4>4. \A q \in Listed(priority[p])' \ {head[priority[p]]} : Precedes(head[priority[p]], q)'
              BY <4>1, <4>3, <1>1, <1>2, SMTT(30) DEF Listed, Precedes
        <4>5. HeadIsOldest
              BY SMTT(30) DEF ListInv, ListIsForkOrder
        <4> QED BY <4>1, <4>2, <4>3, <4>4, <4>5, SMTT(30) DEF HeadIsOldest, Precedes
      <3>4. present' = present /\ present[priority[p]] = 1
            BY <2>2, <1>0, SMTT(30) DEF control, ListInv, PresentIsAccurate
      <3> QED BY <3>1, <3>3, <3>4, <1>1, SMTT(30)
    <2> QED BY <2>1, <2>2
  <1>12. UnlistedHasNoNext'
        BY <1>1, <1>5, <1>7, <1>9, SMTT(30) DEF ListInv, UnlistedHasNoNext, Listed
  <1>13. PresentIsAccurate'
    <2>1. \A i \in Priority : i # priority[p] => (present'[i] = 1 <=> Listed(i)' # {})
          BY <1>1, <1>8 DEF ListInv, PresentIsAccurate
    <2> QED BY <2>1, <1>11 DEF PresentIsAccurate
  <1> QED BY <1>3, <1>4, <1>6, <1>10, <1>11, <1>12, <1>13 DEF ListInv, ListIsForkOrder

(***************************************************************************)
(* ListInv is inductive, whatever forks, exits and reaps interleave.       *)
(***************************************************************************)
LEMMA StepKeepsLists ==
  ASSUME ListInv, [Next]_vars, ~failed'
  PROVE  ListInv'
  <1> USE PriorityListAssumption
  <1>1. CASE UNCHANGED vars
    <2> USE <1>1 DEF vars
    <2>1. \A q \in Proc : IsListed(q)' <=> IsListed(q)
          BY DEF IsListed
    <2>2. /\ OrderOK' /\ ListIsForkOrder' /\ UnlistedHasNoNext' /\ PresentIsAccurate'
          /\ \A i \in Priority : Listed(i)' = Listed(i)
          BY <2>1, Neutral
    <2>3. TypeOK'
          BY DEF ListInv, TypeOK
    <2>4. WalkOK'
          BY <2>2 DEF ListInv, TypeOK, WalkOK, Precedes
    <2> QED BY <2>2, <2>3, <2>4 DEF ListInv
  <1>2. ASSUME NEW p \in Proc, userinit(p) PROVE ListInv'
        BY <1>2, AllocStep DEF userinit
  <1>3. ASSUME NEW p \in Proc, NEW q \in Proc, fork(q, p) PROVE ListInv'
    <2>1. PICK pri \in {priority[q]} \cup OtherPriorities : allocproc(p, pri)
          BY <1>3 DEF fork
    <2>2. pri \in Priority
          BY DEF ListInv, TypeOK
    <2> QED BY <1>3, <2>1, <2>2, AllocStep DEF fork, ListInv, TypeOK
  <1>4. ASSUME NEW p \in Proc, add_process_priority(p) PROVE ListInv'
    <2>1. CASE head[priority[p]] = NULL
          BY <1>4, <2>1, LinkStep DEF add_process_priority, acquire_priority_lock
    <2>2. CASE head[priority[p]] # NULL
      <3>1. present[priority[p]] = 1 /\ priority[p] \in Priority
            BY <2>2 DEF ListInv, TypeOK, ListIsForkOrder, HeadIsOldest, PresentIsAccurate
      <3>2. present' = present
            BY <1>4, <3>1 DEF add_process_priority, acquire_priority_lock, ListInv, TypeOK
      <3> QED BY <1>4, <2>2, <3>2, CursorStep DEF add_process_priority, acquire_priority_lock
    <2> QED BY <2>1, <2>2
  <1>5. ASSUME NEW p \in Proc, add_walk(p) PROVE ListInv'
    <2>1. CASE next[aux[p]] = NULL
      <3>1. aux[p] \in Listed(priority[p]) /\ priority[p] \in Priority
            BY <1>5 DEF add_walk, ListInv, TypeOK, WalkOK
      <3>2. present[priority[p]] = 1
            BY <3>1 DEF ListInv, PresentIsAccurate
      <3>3. present' = [present EXCEPT ![priority[p]] = 1]
            BY <1>5, <3>1, <3>2 DEF add_walk, control, ListInv, TypeOK
      <3> QED BY <1>5, <2>1, <3>3, LinkStep DEF add_walk, control
    <2>2. CASE next[aux[p]] # NULL
          BY <1>5, <2>2, CursorStep DEF add_walk, control
    <2> QED BY <2>1, <2>2
  <1>6. ASSUME NEW p \in Proc, fork_done(p) \/ exit(p) \/ wait(p) PROVE ListInv'
        BY <1>6, QuietStep
  <1>8. ASSUME NEW p \in Proc, free_process_priority(p) PROVE ListInv'
    <2>1. CASE head[priority[p]] = p
      <3>1. aux' \in [Proc -> Proc \cup {NULL}]
            BY <1>8, <2>1, SMTT(30) DEF free_process_priority, acquire_priority_lock, ListInv, TypeOK
      <3> QED BY <1>8, <2>1, <3>1, UnlinkStep DEF free_process_priority, acquire_priority_lock
    <2>2. CASE head[priority[p]] # p
          BY <1>8, <2>2, CursorStep DEF free_process_priority, acquire_priority_lock, control
    <2> QED BY <2>1, <2>2
  <1>9. ASSUME NEW p \in Proc, free_walk(p) PROVE ListInv'
    <2>1. CASE next[aux[p]] = p
          BY <1>9, <2>1, UnlinkStep DEF free_walk, ListInv, TypeOK
    <2>2. CASE next[aux[p]] # p
          BY <1>9, <2>2, CursorStep DEF free_walk, control
    <2> QED BY <2>1, <2>2
  <1> QED BY <1>1, <1>2, <1>3, <1>4, <1>5, <1>6, <1>8, <1>9 DEF Next, ListStep

(***************************************************************************)
(* For any number of slots and priorities, and any priorities that callers *)
(* ask for: until a fork() fails after allocproc(), the lists of p_control *)
(* hold exactly the live processes of each priority in fork order, a free  *)
(* slot keeps no stale pointer, present[] is accurate, and the search of   *)
(* exit() is in front of the process it looks for.                         *)
(***************************************************************************)
THEOREM ListsCorrect == Spec => []ListsExact
  <1>1. Init => ListsExact
        BY ListInit DEF Init, ListsExact
  <1>2. ListsExact /\ [Next]_vars => ListsExact'
    <2> SUFFICES ASSUME ListsExact, [Next]_vars PROVE ListsExact'
        OBVIOUS
    <2>1. failed' \in BOOLEAN /\ (failed => failed')
          BY DEF ListsExact, Next, vars
    <2>2. ~failed' => ListInv'
          BY <2>1, StepKeepsLists DEF ListsExact
    <2> QED BY <2>1, <2>2 DEF ListsExact
  <1> QED BY <1>1, <1>2, PTL DEF Spec
===============================================================================
