------------------------------ MODULE ByteQueue -----------------------------
(***************************************************************************)
(* What a RingBuffer promises: a queue of bytes.  A write appends all its  *)
(* bytes, a read takes as many of the oldest as there are, up to the       *)
(* number asked for.                                                       *)
(***************************************************************************)
EXTENDS Naturals, Sequences

CONSTANTS Byte, MaxLen

VARIABLES
    bytes,   \* what was written and not read yet, oldest first
    call     \* the last call, with the bytes it was given or returned

vars == <<bytes, call>>

Init == bytes = <<>> /\ call = <<"none", <<>>>>

Write(data) == bytes' = bytes \o data /\ call' = <<"write", data>>

Read(n) ==
    LET k == IF n > Len(bytes) THEN Len(bytes) ELSE n
    IN  /\ call' = <<"read", SubSeq(bytes, 1, k)>>
        /\ bytes' = SubSeq(bytes, k + 1, Len(bytes))

Clear == bytes' = <<>> /\ call' = <<"clear", <<>>>>

Next ==
    \/ \E n \in 1..MaxLen : \E data \in [1..n -> Byte] : Write(data)
    \/ \E n \in 1..MaxLen : Read(n)
    \/ Clear

Spec == Init /\ [][Next]_vars
=============================================================================
