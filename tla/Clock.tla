-------------------------------- MODULE Clock ---------------------------------
(***************************************************************************)
(* The clock: ticks, which clockintr() of kernel/trap.c advances, and the  *)
(* processes in sys_sleep() of kernel/sysproc.c that wait for it.  A step  *)
(* is what happens under tickslock; killed() is read before sleep() gives  *)
(* the lock up, so a kill() can come in between.  ticks wraps around.      *)
(***************************************************************************)
EXTENDS Integers

CONSTANTS Sleeper,    \* the processes
          Periods,    \* the arguments of sleep()
          TickWidth,  \* 2^32, for the uint ticks
          MaxLate     \* bound: ticks that pass before a process that could
                      \* go on does so

VARIABLES ticks,
          zz          \* [pc, n, ticks0, killed] of each process, and since,
                      \* the ticks that have really passed in its call
cvars == <<ticks, zz>>

Awake == [pc |-> "user", n |-> 0, ticks0 |-> 0, killed |-> FALSE, since |-> 0]

ClockInit == ticks \in 0 .. TickWidth - 1 /\ zz = [p \in Sleeper |-> Awake]

(* acquire(&tickslock) succeeds: nobody is on the way into sleep(). *)
acquire_tickslock == \A p \in Sleeper : zz[p].pc # "sleep"

(* sys_sleep() up to its loop. *)
sys_sleep(p, n) ==
  /\ zz[p].pc = "user" /\ acquire_tickslock
  /\ zz' = [zz EXCEPT ![p] = [Awake EXCEPT !.pc = "loop", !.n = IF n < 0 THEN 0 ELSE n,
                                          !.ticks0 = ticks]]
  /\ UNCHANGED ticks

(* The test of the loop.  (Mutant: it compares without the wraparound.) *)
due_no_wrap(p) == ticks >= zz[p].ticks0 + zz[p].n
due(p) == (ticks + TickWidth - zz[p].ticks0) % TickWidth >= zz[p].n

sleep_done(p) ==
  /\ zz[p].pc = "loop" /\ acquire_tickslock /\ due(p)
  /\ zz' = [zz EXCEPT ![p].pc = "returned"]
  /\ UNCHANGED ticks

sleep_killed(p) ==
  /\ zz[p].pc = "loop" /\ acquire_tickslock /\ ~due(p) /\ zz[p].killed
  /\ zz' = [zz EXCEPT ![p].pc = "error"]
  /\ UNCHANGED ticks

(* killed() has said no: tickslock is held until sleep() has p->lock. *)
sleep_block(p) ==
  /\ zz[p].pc = "loop" /\ acquire_tickslock /\ ~due(p) /\ ~zz[p].killed
  /\ zz' = [zz EXCEPT ![p].pc = "sleep"]
  /\ UNCHANGED ticks

sleep(p) ==
  /\ zz[p].pc = "sleep"
  /\ zz' = [zz EXCEPT ![p].pc = "asleep"]
  /\ UNCHANGED ticks

(* Back in user mode; usertrap() makes a killed process exit. *)
sleep_return(p) ==
  /\ zz[p].pc \in {"returned", "error"}
  /\ zz' = [zz EXCEPT ![p] = Awake]
  /\ UNCHANGED ticks

kill(p) ==
  /\ zz[p].pc \in {"loop", "sleep", "asleep"} /\ ~zz[p].killed
  /\ zz' = [zz EXCEPT ![p].killed = TRUE, ![p].pc = IF @ = "asleep" THEN "loop" ELSE @]
  /\ UNCHANGED ticks

(* wakeup(&ticks). *)
wakeup_ticks(pc) == IF pc = "asleep" THEN "loop" ELSE pc

InCall(p) == zz[p].pc \in {"loop", "sleep", "asleep"}

clockintr ==
  /\ acquire_tickslock
  /\ \A p \in Sleeper : InCall(p) => zz[p].since < zz[p].n + MaxLate
  /\ ticks' = (ticks + 1) % TickWidth
  /\ zz' = [p \in Sleeper |->
              IF InCall(p) THEN [zz[p] EXCEPT !.pc = wakeup_ticks(@), !.since = @ + 1] ELSE zz[p]]

ClockNext ==
  \/ clockintr
  \/ \E p \in Sleeper :
       \/ \E n \in Periods : sys_sleep(p, n)
       \/ sleep_done(p)
       \/ sleep_killed(p)
       \/ sleep_block(p)
       \/ sleep(p)
       \/ sleep_return(p)
       \/ kill(p)
-------------------------------------------------------------------------------
(* sleep(n) returns 0 no earlier than n ticks after the call, also when    *)
(* ticks wraps around in between, and a process is asleep only before its  *)
(* time is up: no tick passes it by.                                       *)
SleepsInTime ==
  \A p \in Sleeper :
    /\ zz[p].pc = "returned" => zz[p].since >= zz[p].n
    /\ zz[p].pc = "asleep" => zz[p].since < zz[p].n
===============================================================================
