------------------------------- MODULE Terminal -------------------------------
(***************************************************************************)
(* What the console promises.  Input can be edited until its line is       *)
(* complete (newline, end of file or a full buffer); from then on it is    *)
(* read in order, byte by byte, unchanged.  Output leaves in the order in  *)
(* which it was accepted.                                                  *)
(***************************************************************************)
EXTENDS Naturals, Sequences

CONSTANTS Char, Ends, InCapacity, Byte, OutCapacity
VARIABLES ready, edit, output

Init == ready = <<>> /\ edit = <<>> /\ output = <<>>

Type(c) ==
  LET e == Append(edit, c)
  IN  /\ Len(ready) + Len(edit) < InCapacity
      /\ IF c \in Ends \/ Len(ready) + Len(e) = InCapacity
         THEN ready' = ready \o e /\ edit' = <<>>
         ELSE edit' = e /\ UNCHANGED ready
      /\ UNCHANGED output

Erase == edit # <<>> /\ edit' = SubSeq(edit, 1, Len(edit) - 1) /\ UNCHANGED <<ready, output>>

Read == ready # <<>> /\ ready' = Tail(ready) /\ UNCHANGED <<edit, output>>

Put(c) == Len(output) < OutCapacity /\ output' = Append(output, c) /\ UNCHANGED <<ready, edit>>

Send == output # <<>> /\ output' = Tail(output) /\ UNCHANGED <<ready, edit>>

Next == Erase \/ Read \/ Send \/ (\E c \in Char : Type(c)) \/ (\E c \in Byte : Put(c))

Spec == Init /\ [][Next]_<<ready, edit, output>>
===============================================================================
