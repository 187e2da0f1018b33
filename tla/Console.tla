-------------------------------- MODULE Console --------------------------------
(***************************************************************************)
(* The console, kernel/console.c, on top of Uart: consoleread() and        *)
(* consolewrite() of processes, consoleintr() of the interrupt handler.    *)
(* cons.lock is held from acquire() to release() or sleep(); the handler   *)
(* holds it while it spins for the transmitter in its echo.  r, w and e    *)
(* are unsigned and wrap around.                                           *)
(***************************************************************************)
EXTENDS Uart

CONSTANTS INPUT_BUF_SIZE,
          Modulus,    \* 2^32, for the uints r, w and e
          MaxCount,   \* bound: the largest n of a read()
          MaxTyped,   \* bound: the keys pressed, fewer while processes write
          MaxBusy     \* bound: processes that use the console at once

ASSUME ConsoleAssumption ==
  /\ INPUT_BUF_SIZE \in Nat \ {0}
  /\ Modulus > INPUT_BUF_SIZE /\ Modulus % INPUT_BUF_SIZE = 0

(* C-p, which only prints, and a key that is dropped leave no trace. *)
Key == {"x", "\r", "C-d", "C-u", "C-h"}
Ends == {"\n", "C-d"}

VARIABLES
  cbuf, r, w, e,   \* cons
  cons_lock,
  n, target,       \* of a reader in consoleread()
  killed,
  busy,            \* the processes that read and write
  left             \* how many keys are still to be pressed

cons == <<cbuf, r, w, e>>
reads == <<n, target, killed>>
load == <<busy, left>>
vars == <<uart, rx, pc, cons, cons_lock, reads, load>>

Init ==
  /\ UartInit
  /\ pc = [a \in Actor |-> "idle"]
  /\ cbuf = [i \in 0 .. INPUT_BUF_SIZE - 1 |-> "x"]
  /\ r = 0 /\ w = 0 /\ e = 0
  /\ cons_lock = NULL
  /\ n = [p \in Reader |-> 0] /\ target = n
  /\ killed = {}
  /\ busy \in {Reader} \cup {S \in SUBSET (Writer \cup Reader) : Cardinality(S) = MaxBusy}
  /\ left = MaxTyped \div (1 + Cardinality(busy \cap Writer))

(* The difference of two unsigned cursors. *)
minus(a, b) == (a + Modulus - b) % Modulus
at(i) == cbuf[i % INPUT_BUF_SIZE]

(* consoleread(): copy up to n bytes of a line. *)
consoleread(p) ==
  /\ pc[p] = "idle" /\ p \in busy
  /\ \E c \in 1 .. MaxCount : n' = [n EXCEPT ![p] = c] /\ target' = [target EXCEPT ![p] = c]
  /\ goto(p, "loop")
  /\ UNCHANGED <<uart, rx, cons, cons_lock, killed, load>>

(* A turn of the loop; the first one, and the one after a sleep(), begins  *)
(* with acquire(&cons.lock).                                               *)
loop(p) == pc[p] = "loop" /\ cons_lock \in {NULL, p}

(* release() and return; a killed process exits, and another one reads. *)
return(p) ==
  /\ killed' = killed \ {p}
  /\ cons_lock' = NULL
  /\ goto(p, "idle")
  /\ n' = [n EXCEPT ![p] = 0]
  /\ target' = [target EXCEPT ![p] = 0]

(* There is no input: return -1 when killed, else sleep(&cons.r). *)
consoleread_killed(p) ==
  /\ loop(p) /\ r = w /\ p \in killed
  /\ return(p)
  /\ UNCHANGED <<uart, rx, cons, load>>

consoleread_empty(p) ==
  /\ loop(p) /\ r = w /\ p \notin killed
  /\ cons_lock' = p
  /\ goto(p, "sleep")
  /\ UNCHANGED <<uart, rx, cons, reads, load>>

sleep(p) ==
  /\ pc[p] = "sleep"
  /\ cons_lock' = NULL
  /\ goto(p, "asleep")
  /\ UNCHANGED <<uart, rx, cons, reads, load>>

(* End of file: left in the buffer if this read() has bytes to return. *)
consoleread_eof(p) ==
  /\ loop(p) /\ r # w /\ at(r) = "C-d"
  /\ r' = IF n[p] < target[p] THEN r ELSE (r + 1) % Modulus
  /\ return(p)
  /\ UNCHANGED <<uart, rx, cbuf, w, e, load>>

(* A byte is copied out; if that fails it is lost, and read() returns. *)
consoleread_byte(p) ==
  /\ loop(p) /\ r # w /\ at(r) # "C-d"
  /\ r' = (r + 1) % Modulus
  /\ \/ /\ n[p] > 1 /\ at(r) # "\n"
        /\ n' = [n EXCEPT ![p] = @ - 1]
        /\ cons_lock' = p
        /\ UNCHANGED <<pc, target, killed>>
     \/ return(p)
  /\ UNCHANGED <<uart, rx, cbuf, w, e, load>>

kill(p) ==
  /\ pc[p] # "idle" /\ p \notin killed
  /\ killed' = killed \cup {p}
  /\ pc' = IF pc[p] = "asleep" THEN [pc EXCEPT ![p] = "loop"] ELSE pc
  /\ UNCHANGED <<uart, rx, cons, cons_lock, n, target, load>>

(* consolewrite(): one uartputc() per byte. *)
consolewrite(p) ==
  /\ pc[p] = "idle" /\ p \in busy
  /\ goto(p, "putc")
  /\ UNCHANGED <<uart, rx, cons, cons_lock, reads, load>>

(* A key is pressed; the device, external, keeps it until it is read. *)
press(c) ==
  /\ left > 0 /\ rx = <<>>
  /\ left' = left - 1
  /\ rx' = <<c>>
  /\ UNCHANGED <<uart, pc, cons, cons_lock, reads, busy>>

(* The test before a byte is accepted.  (Mutant: w in place of r.) *)
has_room_w == minus(e, w) < INPUT_BUF_SIZE
has_room == minus(e, r) < INPUT_BUF_SIZE

(* consoleintr(c), called with cons.lock free: what the key asks for.  It  *)
(* keeps the lock unless there is nothing to do.                           *)
consoleintr(c) ==
  /\ pc[INTR] = "getc" /\ rx = <<c>> /\ cons_lock = NULL
  /\ rx' = <<>>
  /\ LET erases == c \in {"C-u", "C-h"} /\ e # w
         stores == c \in {"x", "\r", "C-d"} /\ has_room
     IN  IF erases \/ stores
         THEN /\ cons_lock' = INTR
              /\ ch' = [ch EXCEPT ![INTR] = IF c = "\r" THEN "\n" ELSE c]
              /\ goto(INTR, IF stores THEN "echo" ELSE "erase")
         ELSE UNCHANGED <<cons_lock, ch, pc>>
  /\ UNCHANGED <<uart_tx_buf, uart_tx_w, uart_tx_r, tx_lock, fifo, thre, cons, reads, load>>

(* release() and back to uartintr(). *)
release ==
  /\ cons_lock' = NULL
  /\ ch' = [ch EXCEPT ![INTR] = NULL]
  /\ goto(INTR, "getc")

(* One turn of the C-u loop, or the whole of C-h. *)
consoleintr_erase ==
  /\ pc[INTR] = "erase"
  /\ IF e # w /\ (at(e + Modulus - 1) # "\n" \/ ch[INTR] = "C-h")
     THEN /\ e' = minus(e, 1)
          /\ goto(INTR, "echo")
          /\ UNCHANGED <<cons_lock, ch>>
     ELSE release /\ UNCHANGED e
  /\ UNCHANGED <<uart_tx_buf, uart_tx_w, uart_tx_r, tx_lock, fifo, thre, rx, cbuf, r, w, reads, load>>

(* The write to THR in uartputc_sync(), for consputc(); one byte stands    *)
(* for the three that overwrite an erased character.                       *)
consputc ==
  /\ pc[INTR] = "echo_thr"
  /\ fifo' = Append(fifo, INTR)
  /\ thre' = FALSE
  /\ IF ch[INTR] = "C-h" THEN release
     ELSE goto(INTR, IF ch[INTR] = "C-u" THEN "erase" ELSE "store") /\ UNCHANGED <<cons_lock, ch>>
  /\ UNCHANGED <<uart_tx_buf, uart_tx_w, uart_tx_r, tx_lock, rx, cons, reads, load>>

(* wakeup(&cons.r) *)
wakeup_readers == [p \in Actor |-> IF pc[p] = "asleep" THEN "loop" ELSE pc[p]]

(* When input becomes readable. *)
line_complete(c, f) == c \in Ends \/ minus(f, r) = INPUT_BUF_SIZE

(* The byte is stored; a complete line moves w and wakes the readers. *)
consoleintr_store ==
  LET f == (e + 1) % Modulus  done == line_complete(ch[INTR], f)
  IN  /\ pc[INTR] = "store"
      /\ cbuf' = [cbuf EXCEPT ![e % INPUT_BUF_SIZE] = ch[INTR]]
      /\ e' = f
      /\ w' = IF done THEN f ELSE w
      /\ pc' = [IF done THEN wakeup_readers ELSE pc EXCEPT ![INTR] = "getc"]
      /\ cons_lock' = NULL
      /\ ch' = [ch EXCEPT ![INTR] = NULL]
      /\ UNCHANGED <<uart_tx_buf, uart_tx_w, uart_tx_r, tx_lock, fifo, thre, rx, r, reads, load>>

ReaderStep(p) ==
  \/ consoleread_killed(p) \/ consoleread_empty(p) \/ sleep(p)
  \/ consoleread_eof(p) \/ consoleread_byte(p)

TxStep(a) == (uartstart_return(a) \/ uartstart_take(a) \/ uartstart_thr(a))
             /\ UNCHANGED <<cons, cons_lock, reads, load>>

WriterStep(p) == TxStep(p) \/ ((uartputc_full(p) \/ uartputc(p)) /\ UNCHANGED <<cons, cons_lock, reads, load>>)

Handler ==
  \/ TxStep(INTR)
  \/ (uartputc_sync \/ plic_claim \/ uartintr_tx) /\ UNCHANGED <<cons, cons_lock, reads, load>>
  \/ \E c \in Key : consoleintr(c)
  \/ consoleintr_erase \/ consputc \/ consoleintr_store

Next ==
  \/ \E p \in Reader : consoleread(p) \/ ReaderStep(p) \/ kill(p)
  \/ \E p \in Writer : consolewrite(p) \/ WriterStep(p)
  \/ \E c \in Key : press(c)
  \/ transmit /\ UNCHANGED <<cons, cons_lock, reads, load>>
  \/ Handler

(* The transmitter works, its interrupt is taken and the handler runs on;  *)
(* spinlocks that are free again and again are obtained.                   *)
Fairness ==
  /\ WF_vars(transmit /\ UNCHANGED <<cons, cons_lock, reads, load>>)
  /\ SF_vars(Handler)
  /\ \A p \in Writer : SF_vars(WriterStep(p))
  /\ \A p \in Reader : SF_vars(ReaderStep(p))

Spec == Init /\ [][Next]_vars
FairSpec == Spec /\ Fairness
-------------------------------------------------------------------------------
(* The cursors of the input buffer stay in order, r, w, e, over at most    *)
(* INPUT_BUF_SIZE bytes, whatever is typed, erased and put back; input     *)
(* never gets stuck (a full buffer always has something to read); and a    *)
(* reader sleeps only while there is nothing to read.                      *)
InputInv ==
  /\ {r, w, e} \subseteq 0 .. Modulus - 1 /\ cons_lock \in Actor \cup {NULL}
  /\ minus(w, r) <= minus(e, r) /\ minus(e, r) <= INPUT_BUF_SIZE
  /\ minus(e, r) = INPUT_BUF_SIZE /\ cons_lock # INTR => w = e
  /\ \A p \in Reader : pc[p] \in {"sleep", "asleep"} => r = w

(* The transmit buffer and THR: a writer sleeps only while the buffer is   *)
(* full, and although the echo writes to THR without uart_tx_lock, no byte *)
(* is written to a transmitter that cannot hold it.                        *)
OutputInv ==
  /\ tx_lock \in Writer \cup {INTR, NULL}
  /\ (uart_tx_w + TxModulus - uart_tx_r) % TxModulus <= UART_TX_BUF_SIZE
  /\ Len(fifo) <= fifo_depth
  /\ \A p \in Writer : pc[p] = "tx_sleep" => full

(* Both ends of the console driver together. *)
ConsoleInv == InputInv /\ OutputInv

Segment(from, len) == [i \in 1 .. len |-> at(from + i - 1)]

(* The output on its way, oldest byte first: what the transmitter has,     *)
(* apart from echoes, the byte that uartstart() has in hand, the buffer.   *)
InHand == {a \in Actor : pc[a] = "thr"}
OnItsWay ==
  SelectSeq(fifo, LAMBDA c : c # INTR)
  \o (IF InHand = {} THEN <<>> ELSE <<ch[CHOOSE a \in InHand : TRUE]>>)
  \o [i \in 1 .. (uart_tx_w + TxModulus - uart_tx_r) % TxModulus |->
        uart_tx_buf[(uart_tx_r + i - 1) % UART_TX_BUF_SIZE]]

(* The console is a Terminal: lines can be edited only until they are      *)
(* complete, then they are read in order; the bytes that uartputc() has    *)
(* accepted, of whichever writer, are all on the line in that order, with  *)
(* no more than one of them outside the buffer.                            *)
T == INSTANCE Terminal WITH
       Char <- {"x", "\n", "C-d"}, InCapacity <- INPUT_BUF_SIZE,
       Byte <- Writer, OutCapacity <- UART_TX_BUF_SIZE + 1,
       ready <- Segment(r, minus(w, r)), edit <- Segment(w, minus(e, w)),
       output <- OnItsWay
IsTerminal == T!Spec

(* Output drains: a full transmit buffer gets room again, although an     *)
(* echo may have put its byte into THR between uartstart()'s test and its  *)
(* write, and a read of ISR may have withdrawn an interrupt.               *)
OutputDrains == full ~> ~full
===============================================================================
