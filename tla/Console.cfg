SPECIFICATION FairSpec
CONSTANTS
  Writer = {w1, w2}
  Reader = {r1}
  NULL = NULL
  INTR = INTR
  UART_TX_BUF_SIZE = 2
  TxModulus = 4
  INPUT_BUF_SIZE = 2
  Modulus = 4
  MaxCount = 2
  MaxTyped = 3
  MaxBusy = 2
INVARIANT ConsoleInv
PROPERTIES IsTerminal OutputDrains
CHECK_DEADLOCK FALSE
