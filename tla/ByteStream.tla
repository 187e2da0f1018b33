------------------------------ MODULE ByteStream ------------------------------
(***************************************************************************)
(* What a pipe promises: bytes come out in the order they went in, none is *)
(* made up or repeated, and at most Capacity are under way.                *)
(***************************************************************************)
EXTENDS Naturals, Sequences

CONSTANTS Byte, Capacity
VARIABLE stream

Init == stream = <<>>

Put(c) == Len(stream) < Capacity /\ stream' = Append(stream, c)

Get == stream # <<>> /\ stream' = Tail(stream)

Next == Get \/ \E c \in Byte : Put(c)

Spec == Init /\ [][Next]_stream
===============================================================================
