--------------------------------- MODULE Uart ---------------------------------
(***************************************************************************)
(* The UART driver, kernel/uart.c, with the interrupt path that leads to   *)
(* it (plic.c, devintr() in trap.c).  uartstart() runs under uart_tx_lock  *)
(* but the echo of uartputc_sync() does not, so the test of LSR_TX_IDLE    *)
(* and the write to THR are steps of their own.  One CPU at a time serves  *)
(* the interrupt: the PLIC hands it out to the first that claims it.       *)
(***************************************************************************)
EXTENDS Naturals, Sequences, FiniteSets

CONSTANTS Writer, Reader,     \* processes in write() and in read()
          NULL, INTR,         \* INTR: the code that runs uartintr()
          UART_TX_BUF_SIZE,
          TxModulus           \* 2^64, for uart_tx_r and uart_tx_w

ASSUME UartAssumption ==
  /\ UART_TX_BUF_SIZE \in Nat \ {0}
  /\ TxModulus > UART_TX_BUF_SIZE /\ TxModulus % UART_TX_BUF_SIZE = 0
  /\ {NULL, INTR} \cap (Writer \cup Reader) = {}

Actor == Writer \cup Reader \cup {INTR}

VARIABLES
  uart_tx_buf, uart_tx_w, uart_tx_r,
  tx_lock,  \* uart_tx_lock
  fifo,     \* bytes written to THR that are not on the line yet
  thre,     \* the transmitter asks for an interrupt
  rx,       \* received bytes, read through RHR
  ch,       \* the local c of uartstart() and uartputc_sync()
  pc

uart == <<uart_tx_buf, uart_tx_w, uart_tx_r, tx_lock, fifo, thre, ch>>

UartInit ==
  /\ uart_tx_buf = [i \in 0 .. UART_TX_BUF_SIZE - 1 |-> NULL]
  /\ uart_tx_w = 0 /\ uart_tx_r = 0
  /\ tx_lock = NULL
  /\ fifo = <<>> /\ thre = FALSE /\ rx = <<>>
  /\ ch = [a \in Actor |-> NULL]

(* uartinit() enables the FIFO of 16 bytes. *)
fifo_depth == 16

(* LSR_TX_IDLE *)
idle == fifo = <<>>

goto(a, l) == pc' = [pc EXCEPT ![a] = l]

full == uart_tx_w = (uart_tx_r + UART_TX_BUF_SIZE) % TxModulus

(* uartputc() from consolewrite(): sleep while the buffer is full ... *)
uartputc_full(p) ==
  /\ pc[p] = "putc" /\ tx_lock = NULL /\ full
  /\ goto(p, "tx_sleep")
  /\ UNCHANGED <<uart, rx>>

(* ... else append the byte (here: the name of the writer) and start. *)
uartputc(p) ==
  /\ pc[p] = "putc" /\ tx_lock = NULL /\ ~full
  /\ tx_lock' = p
  /\ uart_tx_buf' = [uart_tx_buf EXCEPT ![uart_tx_w % UART_TX_BUF_SIZE] = p]
  /\ uart_tx_w' = (uart_tx_w + 1) % TxModulus
  /\ goto(p, "start")
  /\ UNCHANGED <<uart_tx_r, fifo, thre, ch, rx>>

(* uartstart() returns with an empty buffer, reading ISR, or with a busy   *)
(* transmitter; its caller releases uart_tx_lock, and devintr() tells the  *)
(* PLIC that the interrupt is served.                                      *)
uartstart_return(a) ==
  /\ pc[a] = "start"
  /\ \/ uart_tx_w = uart_tx_r /\ thre' = FALSE
     \/ uart_tx_w # uart_tx_r /\ ~idle /\ UNCHANGED thre
  /\ tx_lock' = NULL
  /\ goto(a, "idle")
  /\ UNCHANGED <<uart_tx_buf, uart_tx_w, uart_tx_r, fifo, ch, rx>>

(* wakeup(&uart_tx_r) *)
wakeup(f) == [p \in Actor |-> IF f[p] = "tx_sleep" THEN "putc" ELSE f[p]]

(* The transmitter is idle: take the oldest byte out of the buffer, ...    *)
(* (Mutant: the newest.)                                                   *)
uartstart_take_newest(a) ==
  /\ pc[a] = "start"
  /\ uart_tx_w # uart_tx_r /\ idle
  /\ ch' = [ch EXCEPT ![a] = uart_tx_buf[(uart_tx_w + TxModulus - 1) % UART_TX_BUF_SIZE]]
  /\ uart_tx_r' = (uart_tx_r + 1) % TxModulus
  /\ pc' = [wakeup(pc) EXCEPT ![a] = "thr"]
  /\ UNCHANGED <<uart_tx_buf, uart_tx_w, tx_lock, fifo, thre, rx>>
uartstart_take(a) ==
  /\ pc[a] = "start"
  /\ uart_tx_w # uart_tx_r /\ idle
  /\ ch' = [ch EXCEPT ![a] = uart_tx_buf[uart_tx_r % UART_TX_BUF_SIZE]]
  /\ uart_tx_r' = (uart_tx_r + 1) % TxModulus
  /\ pc' = [wakeup(pc) EXCEPT ![a] = "thr"]
  /\ UNCHANGED <<uart_tx_buf, uart_tx_w, tx_lock, fifo, thre, rx>>

(* ... and write it to THR, which withdraws the interrupt. *)
uartstart_thr(a) ==
  /\ pc[a] = "thr"
  /\ fifo' = Append(fifo, ch[a])
  /\ thre' = FALSE
  /\ ch' = [ch EXCEPT ![a] = NULL]
  /\ goto(a, "start")
  /\ UNCHANGED <<uart_tx_buf, uart_tx_w, uart_tx_r, tx_lock, rx>>

(* uartputc_sync(), for the echo: spin until idle, then write to THR. *)
uartputc_sync ==
  /\ pc[INTR] = "echo" /\ idle
  /\ goto(INTR, "echo_thr")
  /\ UNCHANGED <<uart, rx>>

(* The device, external: a byte leaves; an empty transmitter interrupts. *)
transmit ==
  /\ fifo # <<>>
  /\ fifo' = Tail(fifo)
  /\ thre' = (Tail(fifo) = <<>>)
  /\ UNCHANGED <<uart_tx_buf, uart_tx_w, uart_tx_r, tx_lock, ch, rx, pc>>

(* devintr(): plic_claim() gives the interrupt to a CPU, once. *)
plic_claim ==
  /\ pc[INTR] = "idle" /\ (thre \/ rx # <<>>)
  /\ goto(INTR, "getc")
  /\ UNCHANGED <<uart, rx>>

(* uartintr(): no byte has been received; on to the output.  (Mutant: only *)
(* the input is served.)                                                   *)
uartintr_tx_none ==
  /\ pc[INTR] = "getc" /\ rx = <<>>
  /\ thre' = FALSE
  /\ goto(INTR, "idle")
  /\ UNCHANGED <<uart_tx_buf, uart_tx_w, uart_tx_r, tx_lock, fifo, ch, rx>>
uartintr_tx ==
  /\ pc[INTR] = "getc" /\ rx = <<>> /\ tx_lock = NULL
  /\ tx_lock' = INTR
  /\ goto(INTR, "start")
  /\ UNCHANGED <<uart_tx_buf, uart_tx_w, uart_tx_r, fifo, thre, ch, rx>>
===============================================================================
