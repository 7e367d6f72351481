-------------------------- MODULE RingBufferProofs --------------------------
(***************************************************************************)
(* Proofs about RingBuffer, for any bytes, sizes, lengths and uses of it:  *)
(* it is a queue of bytes until a write spoils it, and the writes that do  *)
(* are those that leave no byte free and those that grow it after a read   *)
(* which has not come to its end; each of them does harm.                  *)
(*                                                                         *)
(* The invariant: until then the buffer is never full (NotFull), head =    *)
(* tail only at the start (EmptyAtStart), and all unread bytes are inside  *)
(* and were written (AllWritten).  Each action has a lemma that says what  *)
(* it does to the unread bytes by index, with Used and Unread hidden       *)
(* behind it; the invariant and the refinement follow from these facts.    *)
(***************************************************************************)
EXTENDS RingBuffer, SequenceTheorems, TLAPS

NotFull == Used < size
EmptyAtStart == head = tail => head = 0
AllWritten == \A i \in 0..(Used - 1) : Unread(i) \in Byte

Sound == NotFull /\ EmptyAtStart /\ AllWritten

IInv == TypeOK /\ (~spoilt => Sound)

\* What a write does to the unread bytes.
Appends(data) ==
    /\ Used' = Used + Len(data)
    /\ \A i \in 0..(Used - 1) : Unread(i)' = Unread(i)
    /\ \A i \in Used..(Used + Len(data) - 1) : Unread(i)' = data[i - Used + 1]

\* What a read does to them.
Drops(k) ==
    /\ k \in 0..Used
    /\ Used' = Used - k
    /\ \A i \in 0..(Used - k - 1) : Unread(i)' = Unread(k + i)

\* The types of a buffer that is not spoilt.
LEMMA Typed ==
    ASSUME NEW sz \in Sizes, NEW hd \in 0..sz, NEW tl \in 0..sz,
           NEW buf \in [0..(sz - 1) -> Byte \cup {Garbage}],
           NEW op \in {"none", "write", "read", "clear"}, NEW bytes \in Seq(Byte)
    PROVE  /\ (/\ size = sz /\ head = hd /\ tail = tl /\ buffer = buf
               /\ call = <<op, bytes>> /\ spoilt = FALSE) => TypeOK
           /\ (/\ size' = sz /\ head' = hd /\ tail' = tl /\ buffer' = buf
               /\ call' = <<op, bytes>> /\ spoilt' = FALSE) => TypeOK'
<1>1. sz \in Nat /\ hd \in Nat /\ tl \in Nat /\ hd <= sz /\ tl <= sz
  BY RingAssumption
<1>2. bytes \in Seq(Byte \cup {Garbage})
  OBVIOUS
<1>3. <<op, bytes>> \in {"none", "write", "read", "clear"} \X Seq(Byte \cup {Garbage})
  BY <1>2
<1>4. <<op, bytes>>[2] = bytes
  OBVIOUS
<1>5. ASSUME size = sz, head = hd, tail = tl, buffer = buf, call = <<op, bytes>>,
             spoilt = FALSE
      PROVE  TypeOK
  BY <1>1, <1>3, <1>4, <1>5, Zenon DEF TypeOK, InBuffer
<1>6. ASSUME size' = sz, head' = hd, tail' = tl, buffer' = buf,
             call' = <<op, bytes>>, spoilt' = FALSE
      PROVE  TypeOK'
  BY <1>1, <1>3, <1>4, <1>6, Zenon DEF TypeOK, InBuffer
<1> QED BY <1>5, <1>6

\* Places of unread bytes are inside of the buffer.
LEMMA Inside ==
    ASSUME TypeOK, InBuffer
    PROVE  /\ Used \in Nat /\ size \in Nat \ {0}
           /\ \A i \in 0..(Used - 1) :
                 Place(i) \in 0..(size - 1) /\ Unread(i) = buffer[Place(i)]
<1> USE RingAssumption DEF TypeOK, InBuffer
<1>1. Used \in Nat /\ size \in Nat \ {0}
  BY DEF Used
<1>2. ASSUME NEW i \in 0..(Used - 1) PROVE Place(i) \in 0..(size - 1)
  BY <1>1, <1>2 DEF Used, Place
<1> QED BY <1>1, <1>2 DEF Unread

\* remain() keeps one byte free.
LEMMA RemainIs ==
    ASSUME TypeOK, InBuffer, NotFull, EmptyAtStart
    PROVE  /\ head # tail => Used + Remain = size - 1
           /\ head = tail => Remain = Width - 1
           /\ head < tail => Remain = size - tail + head - 1
           /\ tail < head => Remain = head - tail - 1
  BY RingAssumption
  DEF TypeOK, InBuffer, NotFull, EmptyAtStart, Used, Remain, Unsigned

\* Whatever is written, read or moved, the variables keep their types.
LEMMA StepTypes ==
    ASSUME IInv, [Next]_vars, spoilt'
    PROVE  TypeOK'
<1> USE RingAssumption
<1>1. /\ size \in Nat \ {0} /\ head \in Nat /\ tail \in Nat /\ size \in Sizes
      /\ buffer \in [0..(size - 1) -> Byte \cup {Garbage}]
  BY DEF IInv, TypeOK
<1>2. ASSUME InBuffer PROVE Used \in Nat /\ Used <= 2 * size
  BY <1>1, <1>2 DEF InBuffer, Used
<1>3. \A i : Unread(i) \in Byte \cup {Garbage}
  BY <1>1 DEF Unread
<1>4. ASSUME NEW n \in 1..MaxLen, NEW data \in [1..n -> Byte],
             NEW m \in Sizes, NEW buf \in [0..(m - 1) -> Byte \cup {Garbage}],
             NEW hd \in Nat, InBuffer, m >= size,
             Copy(buf, m, hd, tail, data)
      PROVE  TypeOK'
  <2>1. n \in Nat /\ Len(data) = n /\ data \in Seq(Byte \cup {Garbage}) /\ m \in Nat
    OBVIOUS
  <2>2. tail <= m
    BY <1>1, <1>4, <2>1 DEF InBuffer
  <2>3. tail' = IF hd < tail /\ m - tail < n THEN n - (m - tail) ELSE tail + n
    BY <1>4, <2>1 DEF Copy
  <2>4. size' = m /\ head' = hd /\ call' = <<"write", data>>
        /\ buffer' = [p \in 0..(m - 1) |->
                      IF p >= tail /\ p - tail < n THEN data[p - tail + 1]
                      ELSE IF hd < tail /\ m - tail < n /\ p < n - (m - tail)
                           THEN data[(m - tail) + p + 1]
                           ELSE buf[p]]
    BY <1>4, <2>1 DEF Copy
  <2>5. ASSUME NEW p \in 0..(m - 1) PROVE buffer'[p] \in Byte \cup {Garbage}
    <3>1. CASE p >= tail /\ p - tail < n
      BY <1>1, <2>1, <2>4, <3>1
    <3>2. CASE ~(p >= tail /\ p - tail < n) /\ hd < tail /\ m - tail < n /\ p < n - (m - tail)
      BY <1>1, <2>1, <2>2, <2>4, <3>2
    <3>3. CASE /\ ~(p >= tail /\ p - tail < n)
               /\ ~(hd < tail /\ m - tail < n /\ p < n - (m - tail))
      BY <1>1, <2>1, <2>4, <3>3
    <3> QED BY <3>1, <3>2, <3>3
  <2>6. buffer' \in [0..(m - 1) -> Byte \cup {Garbage}]
    BY <2>4, <2>5
  <2>7. tail' \in Nat
    BY <1>1, <2>1, <2>2, <2>3
  <2>8. <<"write", data>> \in {"none", "write", "read", "clear"} \X Seq(Byte \cup {Garbage})
    BY <2>1
  <2> QED BY <2>4, <2>6, <2>7, <2>8, Zenon DEF TypeOK
<1>5. ASSUME NEW n \in 1..MaxLen, NEW data \in [1..n -> Byte], WriteInPlace(data)
      PROVE  TypeOK'
  <2>1. Copy(buffer, size, head, tail, data) /\ InBuffer
    BY <1>5 DEF WriteInPlace
  <2>2. size >= size
    BY <1>1
  <2> QED BY <1>1, <1>4, <2>1, <2>2, Zenon
<1>6. ASSUME NEW n \in 1..MaxLen, NEW data \in [1..n -> Byte], WriteGrowing(data)
      PROVE  TypeOK'
  <2>1. PICK m \in Sizes : /\ GrowsTo(Len(data), m)
                           /\ Copy(Grown(m), m, 0, tail, data)
    BY <1>6 DEF WriteGrowing
  <2>2. m >= size /\ InBuffer
    BY <1>1, <1>6, <2>1 DEF GrowsTo, WriteGrowing
  <2>3. Grown(m) \in [0..(m - 1) -> Byte \cup {Garbage}]
    BY <1>3 DEF Grown
  <2>4. 0 \in Nat
    OBVIOUS
  <2> QED BY <1>4, <2>1, <2>2, <2>3, <2>4, Zenon
<1>7. ASSUME NEW n \in 1..MaxLen, Read(n) PROVE TypeOK'
  <2> DEFINE k == IF n > Used THEN Used ELSE n
             next == IF head < tail \/ size - head >= k THEN head + k
                     ELSE k - (size - head)
  <2>1. InBuffer /\ k \in Nat /\ n \in Nat
    BY <1>2, <1>7 DEF Read
  <2>2. /\ call' = <<"read", [i \in 1..k |-> Unread(i - 1)]>>
        /\ head' = IF next = tail THEN 0 ELSE next
        /\ tail' = IF next = tail THEN 0 ELSE tail
        /\ buffer' = buffer /\ size' = size
    BY <1>7 DEF Read
  <2> HIDE DEF k
  <2>10. <<"read", [i \in 1..k |-> Unread(i - 1)]>>
            \in {"none", "write", "read", "clear"} \X Seq(Byte \cup {Garbage})
    <3>1. [i \in 1..k |-> Unread(i - 1)] \in Seq(Byte \cup {Garbage})
      BY <1>3, <2>1
    <3> QED BY <3>1
  <2>3. next \in Nat
    BY <1>1, <2>1 DEF InBuffer
  <2> HIDE DEF next
  <2>4. head' \in Nat /\ tail' \in Nat
    BY <1>1, <2>2, <2>3
  <2> QED BY <1>1, <2>2, <2>4, <2>10, Zenon DEF TypeOK
<1>8. CASE Clear
  <2>1. <<"clear", <<>>>> \in {"none", "write", "read", "clear"} \X Seq(Byte \cup {Garbage})
    <3>1. <<>> \in Seq(Byte \cup {Garbage})
      OBVIOUS
    <3>2. \A b \in Seq(Byte \cup {Garbage}) : <<"clear", b>>
             \in {"none", "write", "read", "clear"} \X Seq(Byte \cup {Garbage})
      OBVIOUS
    <3> QED BY <3>1, <3>2, Zenon
  <2> QED BY <1>1, <1>8, <2>1 DEF Clear, TypeOK
<1>9. CASE UNCHANGED vars
  BY <1>9, Zenon DEF vars, IInv, TypeOK, InBuffer
<1> QED BY <1>5, <1>6, <1>7, <1>8, <1>9 DEF Next

\* A write that does not grow appends.
LEMMA InPlaceAppends ==
    ASSUME IInv, ~spoilt', NEW n \in 1..MaxLen, NEW data \in [1..n -> Byte],
           WriteInPlace(data)
    PROVE  TypeOK' /\ NotFull' /\ EmptyAtStart' /\ Appends(data)
<1>0. IInv /\ Sound /\ InBuffer /\ ~spoilt
  BY DEF IInv, TypeOK, WriteInPlace
<1> USE <1>0, RingAssumption DEF IInv, TypeOK, Sound, InBuffer
<1>1. n \in Nat /\ n > 0 /\ Len(data) = n /\ size \in Nat /\ size > 0
  OBVIOUS
<1>2. n <= Remain /\ Used + n < size
  <2>1. n <= Remain /\ spoilt' = (spoilt \/ Spoils(n, size)) /\ Used \in Nat
    BY <1>1, Inside DEF WriteInPlace
  <2>2. ~Spoils(n, size)
    BY <2>1, Zenon
  <2> QED BY <1>1, <2>1, <2>2 DEF Spoils
<1>3. /\ size' = size /\ head' = head /\ call' = <<"write", data>>
      /\ tail' = IF head < tail /\ size - tail < n THEN n - (size - tail) ELSE tail + n
      /\ buffer' = [p \in 0..(size - 1) |->
                      IF p >= tail /\ p - tail < n THEN data[p - tail + 1]
                      ELSE IF head < tail /\ size - tail < n /\ p < n - (size - tail)
                           THEN data[(size - tail) + p + 1]
                           ELSE buffer[p]]
      /\ spoilt' = FALSE
  BY <1>1 DEF WriteInPlace, Copy
<1>4. Used \in Nat /\ Used' = Used + n /\ NotFull' /\ EmptyAtStart'
      /\ head' \in 0..size' /\ tail' \in 0..size'
  BY <1>1, <1>2, <1>3, RemainIs DEF Used, NotFull, EmptyAtStart
<1>5. TypeOK'
  <2>1. ASSUME NEW p \in 0..(size - 1) PROVE buffer'[p] \in Byte \cup {Garbage}
    BY <1>1, <1>3
  <2>2. /\ size \in Sizes /\ head' \in 0..size /\ tail' \in 0..size /\ data \in Seq(Byte)
        /\ buffer' \in [0..(size - 1) -> Byte \cup {Garbage}]
    BY <1>1, <1>3, <1>4, <2>1
  <2>3. "write" \in {"none", "write", "read", "clear"}
    OBVIOUS
  <2> QED BY <1>3, <2>2, <2>3, Typed, Zenon
<1>6. ASSUME NEW i \in 0..(Used - 1) PROVE Unread(i)' = Unread(i)
  <2>1. Place(i) \in 0..(size - 1) /\ Unread(i) = buffer[Place(i)]
    BY Inside
  <2>2. Place(i)' = Place(i)
    BY <1>1, <1>2, <1>3, <1>4, RemainIs DEF Place, Used
  <2>3. buffer'[Place(i)] = buffer[Place(i)]
    BY <1>1, <1>2, <1>3, <1>4, <2>1, RemainIs DEF Place, Used
  <2> QED BY <1>3, <2>1, <2>2, <2>3 DEF Unread
<1>7. ASSUME NEW i \in Used..(Used + n - 1) PROVE Unread(i)' = data[i - Used + 1]
  <2>1. Place(i)' \in 0..(size - 1)
    BY <1>1, <1>2, <1>3, <1>4, RemainIs, SMTT(30) DEF Place, Used
  <2>2. CASE Place(i)' >= tail
    <3>1. Place(i)' - tail < n /\ Place(i)' - tail = i - Used
      BY <1>1, <1>2, <1>3, <1>4, <2>1, <2>2, RemainIs DEF Place, Used
    <3> QED BY <1>1, <1>3, <2>1, <2>2, <3>1 DEF Unread
  <2>3. CASE Place(i)' < tail
    <3>1. /\ head < tail /\ size - tail < n /\ Place(i)' < n - (size - tail)
          /\ size - tail + Place(i)' = i - Used
      BY <1>1, <1>2, <1>3, <1>4, <2>1, <2>3, RemainIs DEF Place, Used
    <3> QED BY <1>1, <1>3, <2>1, <2>3, <3>1, SMTT(30) DEF Unread
  <2> QED BY <1>1, <2>1, <2>2, <2>3
<1> QED BY <1>1, <1>4, <1>5, <1>6, <1>7 DEF Appends

\* A write that grows a buffer whose unread bytes end at the tail appends too.
LEMMA GrowingAppends ==
    ASSUME IInv, ~spoilt',
           NEW n \in 1..MaxLen, NEW data \in [1..n -> Byte], WriteGrowing(data)
    PROVE  TypeOK' /\ NotFull' /\ EmptyAtStart' /\ Appends(data)
<1>0. IInv /\ Sound /\ InBuffer /\ ~spoilt
  BY DEF IInv, TypeOK, WriteGrowing
<1> USE <1>0, RingAssumption DEF IInv, TypeOK, Sound, InBuffer
<1>1. n \in Nat /\ n > 0 /\ Len(data) = n /\ size \in Nat /\ size > 0
  OBVIOUS
<1>2. PICK m \in Sizes : /\ m >= 2 * size
                         /\ Used + n < m
                         /\ head \in {0, size}
                         /\ Copy(Grown(m), m, 0, tail, data)
  <2>1. Used \in Nat
    BY Inside
  <2>2. PICK m \in Sizes : /\ GrowsTo(n, m) /\ Copy(Grown(m), m, 0, tail, data)
                           /\ spoilt' = (spoilt \/ Spoils(n, m))
    BY <1>1 DEF WriteGrowing
  <2>3. ~Spoils(n, m)
    BY <2>2, Zenon
  <2>4. m \in Nat /\ m >= 2 * size /\ m # size
    BY <1>1, <2>2 DEF GrowsTo
  <2>5. Used + n < m /\ head \in {0, size}
    BY <1>1, <2>1, <2>3, <2>4 DEF Spoils
  <2> QED BY <2>2, <2>4, <2>5
<1>3. m \in Nat /\ m > size /\ n > Remain /\ spoilt' = FALSE
  BY <1>1, <1>2 DEF WriteGrowing
<1>4. Used = tail /\ tail < size
  BY <1>1, <1>2, <1>3, RemainIs DEF Used, NotFull
<1>5. /\ size' = m /\ head' = 0 /\ call' = <<"write", data>> /\ tail' = tail + n
      /\ buffer' = [p \in 0..(m - 1) |->
                      IF p >= tail /\ p - tail < n THEN data[p - tail + 1] ELSE Grown(m)[p]]
  BY <1>1, <1>2, <1>3, <1>4 DEF Copy
<1>6. Used \in Nat /\ Used' = Used + n /\ NotFull' /\ EmptyAtStart'
  <2>1. tail \in Nat /\ Used' = tail + n
    BY <1>1, <1>5 DEF Used
  <2> QED BY <1>1, <1>2, <1>3, <1>4, <1>5, <2>1 DEF NotFull, EmptyAtStart
<1>7. ASSUME NEW p \in 0..(m - 1)
      PROVE  Grown(m)[p] = IF p < tail THEN Unread(p) ELSE Garbage
  BY <1>4 DEF Grown
<1>8. ASSUME NEW i \in 0..(Used - 1)
      PROVE  Unread(i)' = Unread(i)
  <2>1. i \in 0..(m - 1) /\ i < tail
    BY <1>1, <1>2, <1>3, <1>4
  <2>2. Place(i)' = i /\ buffer'[i] = Unread(i)
    BY <1>1, <1>3, <1>4, <1>5, <1>7, <2>1 DEF Place
  <2> QED BY <1>5, <2>1, <2>2 DEF Unread
<1>9. ASSUME NEW i \in Used..(Used + n - 1)
      PROVE  Unread(i)' = data[i - Used + 1]
  <2>1. i \in 0..(m - 1) /\ i >= tail /\ i - tail < n
    BY <1>1, <1>2, <1>3, <1>4
  <2>2. Place(i)' = i /\ buffer'[i] = data[i - tail + 1]
    BY <1>1, <1>3, <1>4, <1>5, <2>1 DEF Place
  <2> QED BY <1>4, <1>5, <2>1, <2>2 DEF Unread
<1>10. TypeOK'
  <2>1. ASSUME NEW p \in 0..(m - 1) PROVE buffer'[p] \in Byte \cup {Garbage}
    BY <1>1, <1>4, <1>5, <1>7 DEF AllWritten
  <2>2. /\ head' \in 0..m /\ tail' \in 0..m /\ data \in Seq(Byte)
        /\ buffer' \in [0..(m - 1) -> Byte \cup {Garbage}]
    BY <1>1, <1>2, <1>3, <1>4, <1>5, <2>1
  <2>3. "write" \in {"none", "write", "read", "clear"}
    OBVIOUS
  <2> QED BY <1>3, <1>5, <2>2, <2>3, Typed, Zenon
<1> QED BY <1>1, <1>6, <1>8, <1>9, <1>10 DEF Appends

\* A read drops as many of the oldest bytes as it returns.
LEMMA ReadDrops ==
    ASSUME IInv, ~spoilt', NEW n \in 1..MaxLen, Read(n)
    PROVE  /\ TypeOK' /\ NotFull' /\ EmptyAtStart'
           /\ \E k \in 0..Used :
                 /\ k = IF n > Used THEN Used ELSE n
                 /\ Drops(k)
                 /\ call' = <<"read", [i \in 1..k |-> Unread(i - 1)]>>
<1>0. IInv /\ Sound /\ InBuffer /\ spoilt = FALSE /\ spoilt' = FALSE
  BY DEF IInv, TypeOK, Read
<1> USE <1>0, RingAssumption DEF IInv, TypeOK, Sound, InBuffer
<1> DEFINE k == IF n > Used THEN Used ELSE n
           next == IF head < tail \/ size - head >= k THEN head + k
                   ELSE k - (size - head)
<1>1. n \in Nat /\ size \in Nat /\ size > 0 /\ Used \in Nat /\ k \in 0..Used
  BY Inside
<1>2. /\ call' = <<"read", [i \in 1..k |-> Unread(i - 1)]>>
      /\ head' = IF next = tail THEN 0 ELSE next
      /\ tail' = IF next = tail THEN 0 ELSE tail
      /\ buffer' = buffer /\ size' = size
  BY DEF Read
<1> HIDE DEF k
<1>3. next = tail => k = Used
  BY <1>1 DEF Used, NotFull, EmptyAtStart
<1>4. k = Used => next = tail \/ (next = size /\ tail = 0)
  BY <1>1 DEF Used, NotFull, EmptyAtStart
<1>5. head' \in 0..size /\ tail' \in 0..size /\ EmptyAtStart'
  BY <1>1, <1>2 DEF Used, EmptyAtStart
<1>6. Used' = Used - k
  BY <1>1, <1>2, <1>3, <1>4, <1>5 DEF Used, NotFull, EmptyAtStart
<1>7. ASSUME NEW i \in 0..(Used - k - 1) PROVE Unread(i)' = Unread(k + i)
  <2>1. k + i \in 0..(Used - 1) /\ k < Used /\ i \in 0..(Used' - 1)
    BY <1>1, <1>6
  <2>2. Place(i)' = Place(k + i)
    BY <1>1, <1>2, <1>3, <2>1 DEF Place, Used
  <2> QED BY <1>2, <2>2 DEF Unread
<1>8. [i \in 1..k |-> Unread(i - 1)] \in Seq(Byte)
  <2>1. \A i \in 1..k : Unread(i - 1) \in Byte
    BY <1>1 DEF AllWritten
  <2> QED BY <1>1, <1>2, <2>1
<1>9. TypeOK' /\ NotFull'
  <2>1. size \in Sizes /\ buffer' \in [0..(size - 1) -> Byte \cup {Garbage}]
    BY <1>2
  <2>2. "read" \in {"none", "write", "read", "clear"}
    OBVIOUS
  <2>3. TypeOK'
    BY <1>2, <1>5, <1>8, <2>1, <2>2, Typed, Zenon
  <2> QED BY <1>1, <1>2, <1>6, <2>3 DEF NotFull
<1> QED BY <1>1, <1>2, <1>5, <1>6, <1>7, <1>9 DEF Drops, k

\* What is appended was written.
LEMMA AppendsWritten ==
    ASSUME IInv, ~spoilt, NEW n \in 1..MaxLen, NEW data \in [1..n -> Byte],
           Appends(data)
    PROVE  AllWritten'
<1>1. n \in Nat /\ Len(data) = n /\ Used \in Nat /\ AllWritten
  BY RingAssumption, Inside DEF IInv, TypeOK, Sound
<1>2. ASSUME NEW i \in 0..(Used' - 1) PROVE Unread(i)' \in Byte
  <2>1. CASE i \in 0..(Used - 1)
    BY <1>1, <2>1 DEF Appends, AllWritten
  <2>2. CASE i \in Used..(Used + n - 1)
    <3>1. i - Used + 1 \in 1..n
      BY <1>1, <2>2
    <3> QED BY <1>1, <2>2, <3>1 DEF Appends
  <2> QED BY <1>1, <1>2, <2>1, <2>2 DEF Appends
<1> QED BY <1>2 DEF AllWritten

LEMMA InitInv == Init => IInv
<1>1. /\ <<>> \in Seq(Byte) /\ "none" \in {"none", "write", "read", "clear"}
      /\ InitSize \in Sizes /\ 0 \in 0..InitSize
      /\ [p \in 0..(InitSize - 1) |-> Garbage] \in [0..(InitSize - 1) -> Byte \cup {Garbage}]
  BY RingAssumption
<1>2. Init => TypeOK
  BY <1>1, Typed, Zenon DEF Init
<1> QED
  BY <1>2, RingAssumption DEF Init, IInv, Sound, NotFull, EmptyAtStart, AllWritten, Used

\* What is spoilt stays so.
LEMMA Sticks == ASSUME [Next]_vars, ~spoilt' PROVE ~spoilt
  BY DEF Next, vars, WriteInPlace, WriteGrowing, Read, Clear

LEMMA StepInv == ASSUME IInv, [Next]_vars PROVE IInv'
<1>1. CASE spoilt'
  BY <1>1, StepTypes DEF IInv
<1>2. CASE ~spoilt'
  <2>1. ~spoilt /\ Sound
    BY <1>2, Sticks DEF IInv
  <2>2. CASE \E n \in 1..MaxLen : \E data \in [1..n -> Byte] :
                WriteInPlace(data) \/ WriteGrowing(data)
    BY <1>2, <2>1, <2>2, InPlaceAppends, GrowingAppends, AppendsWritten DEF IInv, Sound
  <2>3. ASSUME NEW n \in 1..MaxLen, Read(n) PROVE IInv'
    <3>1. PICK k \in 0..Used : Drops(k)
      BY <1>2, <2>3, ReadDrops
    <3>2. Used \in Nat
      BY <2>1, Inside DEF IInv, TypeOK
    <3>3. AllWritten'
      BY <2>1, <3>1, <3>2 DEF Drops, Sound, AllWritten
    <3> QED BY <1>2, <2>3, <3>3, ReadDrops DEF IInv, Sound
  <2>4. CASE Clear
    <3>1. <<>> \in Seq(Byte) /\ "clear" \in {"none", "write", "read", "clear"}
      OBVIOUS
    <3>2. /\ size \in Nat \ {0} /\ size' = size /\ buffer' = buffer /\ spoilt' = FALSE
          /\ head' = 0 /\ tail' = 0 /\ call' = <<"clear", <<>>>>
          /\ size \in Sizes /\ buffer \in [0..(size - 1) -> Byte \cup {Garbage}]
          /\ 0 \in 0..size
      BY <2>1, <2>4, RingAssumption DEF Clear, IInv, TypeOK
    <3>3. TypeOK'
      BY <3>1, <3>2, Typed, Zenon
    <3>4. Sound'
      BY <3>2 DEF Sound, NotFull, EmptyAtStart, AllWritten, Used
    <3> QED BY <3>3, <3>4 DEF IInv
  <2>5. CASE UNCHANGED vars
    BY <2>1, <2>5
    DEF vars, IInv, Sound, TypeOK, InBuffer, NotFull, EmptyAtStart, AllWritten, Used,
        Unread, Place
  <2> QED BY <2>2, <2>3, <2>4, <2>5 DEF Next
<1> QED BY <1>1, <1>2

\* The invariant holds in all reachable states, however the buffer is used.
THEOREM Invariance == Spec => []IInv
  BY InitInv, StepInv, PTL DEF Spec

\* head and tail do not leave the buffer, and what recv returns was received,
\* until a write has spoilt it.
THEOREM TypeCorrect == Spec => []TypeOK
<1>1. IInv => TypeOK
  BY DEF IInv
<1> QED BY <1>1, Invariance, PTL

\* remain() tells how much may be written less one byte, except that it knows
\* no bound for an empty buffer (ringBuffer.cc:85-91).
THEOREM RoomTold == Spec => []RemainTells
<1>1. IInv => RemainTells
  <2> SUFFICES ASSUME IInv, ~spoilt PROVE RemainTells
    BY DEF RemainTells
  <2>1. TypeOK /\ InBuffer /\ NotFull /\ EmptyAtStart
    BY DEF IInv, TypeOK, Sound
  <2>2. Used \in Nat /\ size \in Nat /\ Remain \in Int
    BY <2>1, Inside, RingAssumption DEF TypeOK, InBuffer, Remain, Unsigned
  <2> QED BY <2>1, <2>2, RemainIs DEF RemainTells
<1> QED BY <1>1, Invariance, PTL

-----------------------------------------------------------------------------
\* The unread bytes, as a sequence.
LEMMA ContentsSeq ==
    ASSUME IInv, ~spoilt
    PROVE  /\ Contents \in Seq(Byte) /\ Len(Contents) = Used
           /\ \A i \in 1..Used : Contents[i] = Unread(i - 1)
<1>1. Used \in Nat
  BY Inside DEF IInv, TypeOK
<1>2. \A i \in 1..Used : Unread(i - 1) \in Byte
  BY <1>1 DEF IInv, Sound, AllWritten
<1> QED BY <1>1, <1>2 DEF Contents

LEMMA WriteMaps ==
    ASSUME IInv, IInv', ~spoilt, ~spoilt',
           NEW n \in 1..MaxLen, NEW data \in [1..n -> Byte], Appends(data)
    PROVE  Contents' = Contents \o data
<1>1. /\ Contents' = [i \in 1..Used' |-> Unread(i - 1)']
      /\ Contents = [i \in 1..Used |-> Unread(i - 1)]
  BY DEF Contents
<1>2. n \in Nat /\ data \in Seq(Byte) /\ Len(data) = n /\ Used \in Nat
  BY RingAssumption, Inside DEF IInv, TypeOK
<1>3. Contents \in Seq(Byte) /\ Len(Contents) = Used
  BY ContentsSeq
<1>4. Used' = Used + n
  BY <1>2 DEF Appends
<1>5. ASSUME NEW i \in 1..(Used + n)
      PROVE  Unread(i - 1)' = IF i <= Used THEN Contents[i] ELSE data[i - Used]
  <2>1. CASE i <= Used
    <3>1. i - 1 \in 0..(Used - 1)
      BY <1>2, <2>1
    <3> QED BY <2>1, <3>1, ContentsSeq, <1>2 DEF Appends
  <2>2. CASE i > Used
    <3>1. i - 1 \in Used..(Used + n - 1) /\ (i - 1) - Used + 1 = i - Used
      BY <1>2, <2>2
    <3> QED BY <1>2, <2>2, <3>1 DEF Appends
  <2> QED BY <1>2, <2>1, <2>2
<1>6. /\ Contents \o data \in Seq(Byte) /\ Len(Contents \o data) = Used + n
      /\ \A i \in 1..(Used + n) :
            (Contents \o data)[i] = IF i <= Used THEN Contents[i] ELSE data[i - Used]
  BY <1>2, <1>3, ConcatProperties
<1>7. Contents' \in Seq(Byte) /\ Len(Contents') = Used + n
  <2>1. \A i \in 1..(Used + n) : Unread(i - 1)' \in Byte
    BY <1>2, <1>4 DEF IInv, Sound, AllWritten
  <2> QED BY <1>1, <1>2, <1>4, <2>1
<1>8. \A i \in 1..Len(Contents') : Contents'[i] = (Contents \o data)[i]
  BY <1>1, <1>2, <1>4, <1>5, <1>6, <1>7
<1> QED BY <1>6, <1>7, <1>8, SeqEqual

LEMMA ReadMaps ==
    ASSUME IInv, IInv', ~spoilt, ~spoilt', NEW n \in 1..MaxLen, Read(n)
    PROVE  Queue!Read(n)
<1>1. PICK k \in 0..Used :
        /\ k = IF n > Used THEN Used ELSE n
        /\ Drops(k)
        /\ call' = <<"read", [i \in 1..k |-> Unread(i - 1)]>>
  BY ReadDrops
<1>2. n \in Nat /\ Used \in Nat /\ Used' = Used - k
  BY <1>1, RingAssumption, Inside DEF IInv, TypeOK, Drops
<1>3. /\ Contents \in Seq(Byte) /\ Len(Contents) = Used
      /\ \A i \in 1..Used : Contents[i] = Unread(i - 1)
  BY ContentsSeq
<1>4. call' = <<"read", SubSeq(Contents, 1, k)>>
  <2>1. SubSeq(Contents, 1, k) = [i \in 1..k |-> Contents[i]]
    BY <1>2, <1>3
  <2> QED BY <1>1, <1>2, <1>3, <2>1
<1>5. Contents' = SubSeq(Contents, k + 1, Used)
  <2>1. SubSeq(Contents, k + 1, Used) = [i \in 1..(Used - k) |-> Contents[k + i]]
    BY <1>2, <1>3
  <2>2. Contents' = [i \in 1..Used' |-> Unread(i - 1)']
    BY DEF Contents
  <2>3. ASSUME NEW i \in 1..(Used - k) PROVE Unread(i - 1)' = Contents[k + i]
    <3>1. i - 1 \in 0..(Used - k - 1) /\ k + i \in 1..Used /\ (k + i) - 1 = k + (i - 1)
      BY <1>2
    <3> QED BY <1>1, <1>3, <3>1 DEF Drops
  <2> QED BY <1>2, <2>1, <2>2, <2>3
<1> QED BY <1>1, <1>3, <1>4, <1>5 DEF Queue!Read

\* However it is used, the ring buffer is a queue of bytes until it is spoilt:
\* what is written is read once, in order (ringBuffer.cc:15-79).
THEOREM ImplementsQueue == Spec => QueueUntilSpoilt
<1>1. Init => Queue!Init
  BY RingAssumption DEF Init, Queue!Init, Contents, Used
<1>2. ASSUME IInv, IInv', [Next]_vars, ~spoilt' PROVE [Queue!Next]_(Queue!vars)
  <2>0. ~spoilt
    BY <1>2, Sticks
  <2>1. ASSUME NEW n \in 1..MaxLen, NEW data \in [1..n -> Byte],
               WriteInPlace(data) \/ WriteGrowing(data)
        PROVE  Queue!Next
    <3>1. Contents' = Contents \o data
      BY <1>2, <2>0, <2>1, InPlaceAppends, GrowingAppends, WriteMaps
    <3>2. call' = <<"write", data>>
      BY <2>1 DEF WriteInPlace, WriteGrowing, Copy
    <3> QED BY <3>1, <3>2 DEF Queue!Next, Queue!Write
  <2>2. ASSUME NEW n \in 1..MaxLen, Read(n) PROVE Queue!Next
    BY <1>2, <2>0, <2>2, ReadMaps DEF Queue!Next
  <2>3. CASE Clear
    BY <2>3, RingAssumption DEF Clear, Queue!Next, Queue!Clear, Contents, Used
  <2>4. CASE UNCHANGED vars
    BY <2>4 DEF vars, Queue!vars, Contents, Used, Unread, Place
  <2> QED BY <1>2, <2>1, <2>2, <2>3, <2>4 DEF Next
<1>3. ASSUME IInv, IInv', [Next]_vars
      PROVE  [~spoilt' => [Queue!Next]_(Queue!vars)]_vars
  BY <1>2, <1>3
<1> QED BY <1>1, <1>3, Invariance, PTL DEF Spec, QueueUntilSpoilt

-----------------------------------------------------------------------------
\* Two sequences of different lengths differ.
LEMMA LengthsTell ==
    ASSUME IInv, ~spoilt, NEW n \in Nat, NEW data \in [1..n -> Byte],
           Used' \in Nat, Used' # Used + n
    PROVE  Contents' # Contents \o data
<1>1. /\ Contents \in Seq(Byte) /\ Len(Contents) = Used /\ Used \in Nat
      /\ data \in Seq(Byte) /\ Len(data) = n
  BY ContentsSeq, Inside DEF IInv, TypeOK
<1>2. DOMAIN (Contents \o data) = 1..(Used + n)
  BY <1>1
<1>3. DOMAIN Contents' = 1..Used'
  BY DEF Contents
<1>4. 1..Used' # 1..(Used + n)
  BY <1>1
<1> QED BY <1>2, <1>3, <1>4

\* A write that fills the buffer does so from the start, and remain() is then
\* below zero.
LEMMA FullIs ==
    ASSUME NEW sz \in Sizes, size' = sz, head' = 0, tail' = sz
    PROVE  Used' = size' /\ Remain' = Width - 1
  BY RingAssumption DEF Used, Remain, Unsigned

LEMMA InPlaceBlamed ==
    ASSUME IInv, ~spoilt, spoilt', NEW n \in 1..MaxLen, NEW data \in [1..n -> Byte],
           WriteInPlace(data)
    PROVE  Contents' # Contents \o data \/ (Used' = size' /\ Remain' = Width - 1)
<1> USE RingAssumption
<1>1. /\ InBuffer /\ NotFull /\ EmptyAtStart /\ TypeOK
      /\ n \in Nat /\ n > 0 /\ Len(data) = n /\ size \in Nat \ {0} /\ size \in Sizes
      /\ head \in Nat /\ tail \in Nat
  BY DEF IInv, TypeOK, Sound
<1>2. Used \in Nat
  BY <1>1, Inside
<1>3. n <= Remain /\ Spoils(n, size)
  BY <1>1 DEF WriteInPlace
<1>4. Used + n >= size
  BY <1>3 DEF Spoils
<1>5. head = tail
  BY <1>1, <1>2, <1>3, <1>4, RemainIs
<1>6. head = 0 /\ tail = 0 /\ Used = 0 /\ n >= size
  BY <1>1, <1>4, <1>5 DEF EmptyAtStart, Used
<1>7. size' = size /\ head' = 0 /\ tail' = n
  BY <1>1, <1>6 DEF WriteInPlace, Copy
<1>8. CASE n = size
  BY <1>1, <1>7, <1>8, FullIs
<1>9. CASE n > size
  <2>1. Used' = n
    BY <1>1, <1>7 DEF Used
  <2>3. ASSUME NEW j, j = size PROVE Unread(j)' = Garbage
    <3>1. Place(j)' = size
      BY <1>1, <1>7, <2>3 DEF Place
    <3>2. Place(j)' \notin 0..(size' - 1)
      BY <1>1, <1>7, <3>1
    <3> QED BY <3>2 DEF Unread
  <2>4. Contents'[size + 1] = Garbage
    <3>1. Contents' = [i \in 1..n |-> Unread(i - 1)']
      BY <2>1 DEF Contents
    <3>2. size + 1 \in 1..n /\ (size + 1) - 1 = size
      BY <1>1, <1>9
    <3> QED BY <2>3, <3>1, <3>2
  <2>5. (Contents \o data)[size + 1] = data[size + 1]
    <3>1. Contents \in Seq(Byte) /\ Len(Contents) = 0
      BY <1>6, ContentsSeq
    <3> QED BY <1>1, <1>9, <3>1
  <2>6. data[size + 1] \in Byte
    BY <1>1, <1>9
  <2> QED BY <2>4, <2>5, <2>6
<1> QED BY <1>1, <1>6, <1>8, <1>9

LEMMA GrowingBlamed ==
    ASSUME IInv, ~spoilt, spoilt', NEW n \in 1..MaxLen, NEW data \in [1..n -> Byte],
           WriteGrowing(data)
    PROVE  Contents' # Contents \o data \/ (Used' = size' /\ Remain' = Width - 1)
<1> USE RingAssumption
<1>1. /\ InBuffer /\ NotFull /\ EmptyAtStart /\ TypeOK
      /\ n \in Nat /\ n > 0 /\ Len(data) = n /\ size \in Nat \ {0} /\ size \in Sizes
      /\ head \in Nat /\ tail \in Nat
  BY DEF IInv, TypeOK, Sound
<1>2. Used \in Nat
  BY <1>1, Inside
<1>3. PICK m \in Sizes : /\ GrowsTo(n, m) /\ Copy(Grown(m), m, 0, tail, data)
                         /\ Spoils(n, m)
  BY <1>1 DEF WriteGrowing
<1>4. m \in Nat /\ m >= 2 * size /\ n <= m - Used
  BY <1>3 DEF GrowsTo
<1>5. /\ size' = m /\ head' = 0
      /\ tail' = IF 0 < tail /\ m - tail < n THEN n - (m - tail) ELSE tail + n
  BY <1>1, <1>3 DEF Copy
<1>6. CASE head \in {0, size}
  <2>1. Used = tail
    BY <1>1, <1>6 DEF Used, InBuffer, NotFull, EmptyAtStart
  <2>2. tail + n = m
    BY <1>1, <1>3, <1>4, <1>6, <2>1 DEF Spoils
  <2>3. tail' = m
    BY <1>1, <1>4, <1>5, <2>2
  <2> QED BY <1>5, <2>3, FullIs
<1>7. CASE head \notin {0, size}
  <2>1. tail' \in Nat /\ Used' = tail'
    BY <1>1, <1>4, <1>5 DEF Used, InBuffer
  <2>2. tail' # Used + n
    BY <1>1, <1>4, <1>5, <1>7 DEF Used, InBuffer, EmptyAtStart
  <2> QED BY <1>1, <2>1, <2>2, LengthsTell
<1> QED BY <1>6, <1>7

\* The ghost blames only writes that do harm: after one of them bytes are lost,
\* or remain() of the full buffer says that there is no end of room.
THEOREM Blamed == Spec => BlamedRightly
<1>1. ASSUME IInv, [Next]_vars, ~spoilt, spoilt'
      PROVE  Contents' # Contents \o call'[2] \/ (Used' = size' /\ Remain' = Width - 1)
  <2>1. ASSUME NEW n \in 1..MaxLen, NEW data \in [1..n -> Byte], WriteInPlace(data)
        PROVE  Contents' # Contents \o call'[2] \/ (Used' = size' /\ Remain' = Width - 1)
    <3>1. call'[2] = data
      BY <2>1 DEF WriteInPlace, Copy
    <3> QED BY <1>1, <2>1, <3>1, InPlaceBlamed
  <2>2. ASSUME NEW n \in 1..MaxLen, NEW data \in [1..n -> Byte], WriteGrowing(data)
        PROVE  Contents' # Contents \o call'[2] \/ (Used' = size' /\ Remain' = Width - 1)
    <3>1. call'[2] = data
      BY <2>2 DEF WriteGrowing, Copy
    <3> QED BY <1>1, <2>2, <3>1, GrowingBlamed
  <2>3. ~(\E n \in 1..MaxLen : Read(n)) /\ ~Clear /\ ~(UNCHANGED vars)
    BY <1>1, Zenon DEF Read, Clear, vars
  <2> QED BY <1>1, <2>1, <2>2, <2>3 DEF Next
<1> QED BY <1>1, Invariance, PTL DEF Spec, BlamedRightly
=============================================================================
