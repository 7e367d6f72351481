----------------------------- MODULE RingBuffer -----------------------------
(***************************************************************************)
(* RingBuffer (ringBuffer.cc), the receive buffer of a Connection: DATA    *)
(* packles are written to it, recv reads from it.  Only the thread inside  *)
(* the service uses it, so every call is one step.                         *)
(*                                                                         *)
(* head = tail stands for empty, so the buffer must never be filled to the *)
(* last byte; remain() and write() do not always see to that, and growing  *)
(* takes the old tail for the new one.  Nothing is excluded here: the      *)
(* ghost spoilt remembers that one of the two has happened, and Next ends  *)
(* where a write has gone past the end of m_buffer (undefined behaviour).  *)
(***************************************************************************)
EXTENDS Integers, Sequences

CONSTANTS
    Byte,      \* the bytes
    Garbage,   \* the content of memory nobody wrote to, or outside of the buffer
    InitSize,  \* RingBuffer(size_t size): 1024
    Sizes,     \* bound: InitSize doubled any number of times, up to a limit
    MaxLen,    \* bound: bytes per call of write and read
    Width      \* 2^64: size_t counts modulo this

ASSUME RingAssumption ==
    /\ Garbage \notin Byte
    /\ InitSize \in Sizes /\ Sizes \subseteq Nat \ {0}
    /\ \A m \in Sizes : m = InitSize \/ \E l \in Sizes : m = 2 * l
    /\ MaxLen \in Nat /\ Width \in Nat
    /\ \A m \in Sizes : m + MaxLen < Width

VARIABLES
    buffer,   \* m_buffer
    size,     \* m_size
    head,     \* m_head
    tail,     \* m_tail
    call,     \* ghost: the last call, with the bytes it was given or returned
    spoilt    \* ghost: a write has left no byte free, or moved the bytes wrongly

vars == <<buffer, size, head, tail, call, spoilt>>

InBuffer == head <= size /\ tail <= size

TypeOK ==
    /\ size \in Sizes /\ head \in Nat /\ tail \in Nat
    /\ buffer \in [0..(size - 1) -> Byte \cup {Garbage}]
    /\ call \in {"none", "write", "read", "clear"} \X Seq(Byte \cup {Garbage})
    /\ spoilt \in BOOLEAN
    /\ ~spoilt => InBuffer /\ call[2] \in Seq(Byte)

Init ==
    /\ size = InitSize
    /\ buffer = [p \in 0..(InitSize - 1) |-> Garbage]
    /\ head = 0 /\ tail = 0
    /\ call = <<"none", <<>>>>
    /\ spoilt = FALSE

-----------------------------------------------------------------------------
Unsigned(x) == IF x < 0 THEN x + Width ELSE x

\* A mutant: the byte that tells full from empty is forgotten.
RemainOneMore == Unsigned(IF head < tail THEN size - tail + head ELSE head - tail)
Remain ==
    Unsigned(IF head < tail THEN size - tail + head - 1 ELSE head - tail - 1)

Used == IF head <= tail THEN tail - head ELSE size - head + tail

\* Where the i-th unread byte is, from 0; and what is there.
Place(i) == IF head < tail \/ head + i < size THEN head + i ELSE head + i - size
Unread(i) == IF Place(i) \in 0..(size - 1) THEN buffer[Place(i)] ELSE Garbage

\* m is the new size: doubled at least once, and until n more bytes fit.
GrowsTo(n, m) ==
    LET fits(l) == l >= 2 * size /\ n <= l - Used
    IN  fits(m) /\ \A l \in Sizes : fits(l) => m <= l

\* The unread bytes move to the start of the new buffer.
Grown(m) == [p \in 0..(m - 1) |-> IF p < Used THEN Unread(p) ELSE Garbage]

\* A mutant: the second part is copied from the start of data again.
CopyRestarts(buf, sz, hd, tl, data) ==
    LET n == Len(data)
        right == sz - tl
        wraps == hd < tl /\ right < n
    IN  /\ buffer' = [p \in 0..(sz - 1) |->
                        IF p >= tl /\ p - tl < n THEN data[p - tl + 1]
                        ELSE IF wraps /\ p < n - right THEN data[p + 1]
                        ELSE buf[p]]
        /\ tail' = IF wraps THEN n - right ELSE tl + n
        /\ size' = sz /\ head' = hd
        /\ call' = <<"write", data>>

\* Copies data behind the tail, in two parts if it reaches the end of the buffer.
Copy(buf, sz, hd, tl, data) ==
    LET n == Len(data)
        right == sz - tl
        wraps == hd < tl /\ right < n
    IN  /\ buffer' = [p \in 0..(sz - 1) |->
                        IF p >= tl /\ p - tl < n THEN data[p - tl + 1]
                        ELSE IF wraps /\ p < n - right THEN data[right + p + 1]
                        ELSE buf[p]]
        /\ tail' = IF wraps THEN n - right ELSE tl + n
        /\ size' = sz /\ head' = hd
        /\ call' = <<"write", data>>

-----------------------------------------------------------------------------
\* The two ways in which a write of n bytes, which makes the size sz, goes
\* wrong: no byte stays free, or the bytes that move did not end at the tail.
Spoils(n, sz) == Used + n >= sz \/ (sz # size /\ head \notin {0, size})

WriteInPlace(data) ==
    /\ InBuffer
    /\ Len(data) <= Remain
    /\ Copy(buffer, size, head, tail, data)
    /\ spoilt' = (spoilt \/ Spoils(Len(data), size))

\* m_head = 0 comes first: used(), which then sets m_tail, gives the old m_tail.
WriteGrowing(data) ==
    /\ InBuffer
    /\ Len(data) > Remain
    /\ \E m \in Sizes :
          /\ GrowsTo(Len(data), m)
          /\ Copy(Grown(m), m, 0, tail, data)
          /\ spoilt' = (spoilt \/ Spoils(Len(data), m))

\* A mutant: head and tail stay where they met.
ReadStays(n) ==
    LET k == IF n > Used THEN Used ELSE n
        right == size - head
    IN  /\ InBuffer
        /\ call' = <<"read", [i \in 1..k |-> Unread(i - 1)]>>
        /\ head' = IF head < tail \/ right >= k THEN head + k ELSE k - right
        /\ UNCHANGED <<buffer, size, tail, spoilt>>

Read(n) ==
    LET k == IF n > Used THEN Used ELSE n
        right == size - head
        next == IF head < tail \/ right >= k THEN head + k ELSE k - right
    IN  /\ InBuffer
        /\ call' = <<"read", [i \in 1..k |-> Unread(i - 1)]>>
        /\ head' = IF next = tail THEN 0 ELSE next
        /\ tail' = IF next = tail THEN 0 ELSE tail
        /\ UNCHANGED <<buffer, size, spoilt>>

Clear ==
    /\ InBuffer
    /\ head' = 0 /\ tail' = 0
    /\ call' = <<"clear", <<>>>>
    /\ UNCHANGED <<buffer, size, spoilt>>

Next ==
    \/ \E n \in 1..MaxLen : \E data \in [1..n -> Byte] :
          WriteInPlace(data) \/ WriteGrowing(data)
    \/ \E n \in 1..MaxLen : Read(n)
    \/ Clear

Spec == Init /\ [][Next]_vars

-----------------------------------------------------------------------------
Contents == [i \in 1..Used |-> Unread(i - 1)]

Queue == INSTANCE ByteQueue WITH bytes <- Contents

(* Write and read are those of a queue: no byte is lost, invented, repeated *)
(* or reordered, whether the bytes wrap around the end or move to a larger  *)
(* buffer (ringBuffer.cc:15-79).                                            *)
QueueSpec == Queue!Spec

(* So they are until a write has spoilt the buffer, in every use of it.     *)
QueueUntilSpoilt ==
    Queue!Init /\ [][~spoilt' => [Queue!Next]_(Queue!vars)]_vars

(* The bytes that move to a larger buffer are followed by those written     *)
(* (ringBuffer.cc:19-51), if the buffer was right so far.                   *)
GrowthAppends ==
    [][size' # size /\ ~spoilt => Contents' = Contents \o call'[2]]_vars

(* What remain() says (ringBuffer.cc:85-91): the room, less the byte that   *)
(* tells full from empty, unless the buffer is empty and at its start; then *)
(* -1 as a size_t, so that the first write never grows, however long.       *)
RemainTells ==
    ~spoilt => Remain = IF head = tail THEN Width - 1 ELSE size - Used - 1

(* The ghost blames no write that goes well: one that spoils the buffer     *)
(* either does not append its bytes, or leaves a full buffer of which       *)
(* remain() says that there is no end of room.                              *)
BlamedRightly ==
    [][~spoilt /\ spoilt' =>
          \/ Contents' # Contents \o call'[2]
          \/ Used' = size' /\ Remain' = Width - 1]_vars
=============================================================================
