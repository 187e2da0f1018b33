------------------------------ MODULE AtomicDisk ------------------------------
(***************************************************************************)
(* What kernel/log.c promises to the file system: blocks that are updated  *)
(* by concurrent operations, of which a crash keeps a state in which every *)
(* operation is there with all of its writes or with none.  Operations     *)
(* that overlap are committed together.                                    *)
(***************************************************************************)
CONSTANTS Op, Block, Val, Zero

VARIABLES mem,      \* the contents of the blocks, as operations see them
          durable,  \* the contents that a crash would leave
          active    \* the operations between begin_op() and end_op()

vars == <<mem, durable, active>>

Init == /\ mem = [b \in Block |-> Zero]
        /\ durable = mem
        /\ active = {}

Begin(o) == /\ o \notin active
            /\ active' = active \cup {o}
            /\ UNCHANGED <<mem, durable>>

Write(o, b, v) == /\ o \in active
                  /\ mem' = [mem EXCEPT ![b] = v]
                  /\ UNCHANGED <<durable, active>>

End(o) == /\ o \in active
          /\ active' = active \ {o}
          /\ UNCHANGED <<mem, durable>>

(* Only whole operations become durable. *)
Commit == /\ active = {}
          /\ durable' = mem
          /\ UNCHANGED <<mem, active>>

Crash == /\ mem' = durable
         /\ active' = {}
         /\ UNCHANGED durable

Next == \/ \E o \in Op : Begin(o) \/ End(o) \/ \E b \in Block, v \in Val : Write(o, b, v)
        \/ Commit
        \/ Crash

Spec == Init /\ [][Next]_vars
===============================================================================
