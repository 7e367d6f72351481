--------------------------- MODULE SocketsProofs ---------------------------
(***************************************************************************)
(* Proofs about Sockets, for any number of connections and pieces of data, *)
(* under the two rules for the kernel: the assertions hold, and no piece   *)
(* of data is lost, doubled or out of order in either direction.           *)
(*                                                                         *)
(* The invariant says at which connection everything is: only the last one *)
(* accepted can be in m_conns, in a valid context or in the pipe, and what *)
(* an older one has left in the mailbox is before the NEWCONN of the next. *)
(***************************************************************************)
EXTENDS Sockets, SequenceTheorems, TLAPS

\* The rules of NumberIsFree and MayBeFull.
Kept == AllRules \subseteq Rules

PieceSet == Conns \X Nat
Streams == [in : Seq(PieceSet), sent : Nat, eof : {"no", "fin", "reset"},
            shut : BOOLEAN, out : Seq(PieceSet)]
SockTypes == {"NEW", "PACCEPT", "ACCEPT", "HALFCLOSE_READ", "HALFCLOSE_WRITE", "CLOSE"}
Contexts ==
    [of : Conns \cup {NoConn}, valid : BOOLEAN, type : SockTypes,
     events : SUBSET {"in", "out"}, added : BOOLEAN,
     revents : SUBSET {"in", "out", "hup"}, wb : Seq(PieceSet), closing : BOOLEAN,
     closer : Cors \cup {NoCor}, watch : SUBSET {"on", "in", "out"}]
Commands == [cmd : {"S", "D", "C"}, conn : Conns, cor : Cors \cup {NoCor},
             data : Seq(PieceSet)]
Packles == [kind : {"NEWCONN", "READY", "DATA", "CLOSEREAD", "ERROR", "CLOSED"},
            conn : Conns, cor : Cors \cup {NoCor}, data : Seq(PieceSet)]
Connections == [fd : BOOLEAN, closing : BOOLEAN, buf : Seq(PieceSet),
                readers : Seq(Cors), got : Seq(PieceSet), sent : Nat]

Types ==
    /\ accepted \in 0..NConns /\ open \in {NoConn, accepted}
    /\ peer \in [Conns -> Streams]
    /\ ctx \in Contexts
    /\ pipe \in Seq(Commands)
    /\ pc \in {"loop", "pipe", "read", "write", "report"}
    /\ batch \in SUBSET {"pipe", "conn"} /\ err \in BOOLEAN
    /\ mail \in Seq(Packles)
    /\ conns \in {NoConn, accepted}
    /\ conn \in [Conns -> Connections]
    /\ co \in [Cors -> {"none", "begin", "start", "run", "recv", "ready", "close",
                        "closed", "done"}]
    /\ run \in Cors \cup {NoCor}
    /\ forkQ \in Seq(Cors)

-----------------------------------------------------------------------------
(* Which connection everything is about.                                   *)

\* The last connection has not reached HandleNewConn; it has; it is in m_conns.
Fresh == accepted > 0 /\ ctx.of # accepted
Begun == accepted > 0 /\ ctx.of = accepted
Known == accepted > 0 /\ conns = accepted

Untouched(c) ==
    /\ conn[c] = [fd |-> TRUE, closing |-> FALSE, buf |-> <<>>, readers |-> <<>>,
                  got |-> <<>>, sent |-> 0]
    /\ peer[c].out = <<>> /\ peer[c].shut = FALSE /\ Len(peer[c].in) = peer[c].sent
    /\ co[Cb(c)] = "none" /\ co[Err(c)] = "none"

Later ==
    /\ \A c \in Conns : c > accepted => Untouched(c) /\ peer[c].sent = 0
    /\ Fresh => Untouched(accepted)
    /\ Fresh => open = accepted

Earlier == \A c \in Conns : c < accepted => co[Cb(c)] \in {"recv", "done"}

Context ==
    /\ ctx.of <= accepted
    /\ ctx.valid => Begun
    /\ Begun /\ ~ctx.valid => ctx.closing
    /\ open # NoConn => ctx.valid \/ Fresh
    /\ conns # NoConn => ctx.valid /\ ~ctx.closing
    /\ ctx.watch # {} => open # NoConn /\ ctx.valid
    /\ ctx.valid => ctx.type # "NEW"
    /\ ctx.type = "PACCEPT" =>
          /\ ctx.valid /\ ctx.wb = <<>> /\ ctx.watch = {} /\ ctx.revents = {}
          /\ ~ctx.closing /\ co[Cb(accepted)] \in {"begin", "start"}
    /\ ctx.valid /\ ctx.closer # NoCor =>
          /\ ctx.closing /\ pipe = <<>>
          /\ ctx.closer \in {Cb(accepted), Err(accepted)} /\ co[ctx.closer] = "close"

Thread ==
    /\ pc \in {"read", "write"} => ctx.valid /\ ctx.type # "PACCEPT"
    /\ pc \in {"read", "write", "report"} => Begun /\ "conn" \notin batch
    /\ pc = "report" => ctx.type # "PACCEPT"
    /\ err => pc \in {"write", "report"}

Pipe == \A i \in DOMAIN pipe :
    /\ ctx.valid /\ pipe[i].conn = accepted
    /\ pipe[i].cmd = "S" =>
          /\ Len(pipe) = 1 /\ ctx.type = "PACCEPT"
          /\ pipe[i].cor = Cb(accepted) /\ co[Cb(accepted)] = "start"
    /\ pipe[i].cmd # "S" => ctx.type # "PACCEPT"
    /\ pipe[i].cmd = "C" =>
          /\ i = Len(pipe) /\ ctx.closing
          /\ pipe[i].cor \in {Cb(accepted), Err(accepted)} /\ co[pipe[i].cor] = "close"

Mail ==
    /\ \A i \in DOMAIN mail :
          /\ mail[i].kind = "NEWCONN" =>
                Fresh /\ i = Len(mail) /\ mail[i].conn = accepted
          /\ mail[i].kind # "NEWCONN" => mail[i].conn = ctx.of
          /\ mail[i].kind = "READY" =>
                /\ Begun /\ ctx.type # "PACCEPT"
                /\ mail[i].cor = Cb(accepted) /\ co[Cb(accepted)] = "start"
          /\ mail[i].kind = "CLOSED" =>
                /\ ~ctx.valid
                /\ mail[i].cor \in {Cb(ctx.of), Err(ctx.of)} /\ co[mail[i].cor] = "close"
          /\ mail[i].kind = "ERROR" => peer[ctx.of].eof = "reset" /\ ctx.type # "PACCEPT"
          /\ mail[i].data # <<>> <=> mail[i].kind = "DATA"
    /\ \A i, j \in DOMAIN mail :
          mail[i].kind \in {"READY", "CLOSED"} /\ mail[j].kind = mail[i].kind => i = j

\* The coroutines and who executes.
Coroutines ==
    /\ Begun => co[Cb(accepted)] # "none"
    /\ \A c \in Conns : co[Err(c)] \in {"none", "close", "done"}
    /\ Begun /\ co[Cb(accepted)] = "begin" => ctx.type = "PACCEPT" /\ pipe = <<>>
    /\ Begun /\ co[Cb(accepted)] \in {"run", "recv", "ready"} => ctx.type # "PACCEPT"
    /\ run # NoCor =>
          Begun /\ run = Cb(accepted) /\ co[run] \in {"begin", "run", "closed"}
    /\ forkQ # <<>> =>
          Begun /\ forkQ = <<Cb(accepted)>> /\ co[Cb(accepted)] = "ready"
    /\ \A c \in Conns :
          /\ conn[c].readers # <<>> =>
                conn[c].readers = <<Cb(c)>> /\ co[Cb(c)] = "recv"
          /\ co[Cb(c)] = "ready" => conn[c].buf # <<>>

Lives == Later /\ Earlier /\ Context /\ Thread /\ Pipe /\ Mail /\ Coroutines

-----------------------------------------------------------------------------
(* Only a reset by the peer makes the thread give up a connection.         *)

IsReset == peer[accepted].eof = "reset"

Resets ==
    /\ \A c \in Conns : co[Err(c)] # "none" => peer[c].eof = "reset"
    /\ pc = "report" \/ err => IsReset
    /\ ctx.of # NoConn /\ "hup" \in ctx.revents => peer[ctx.of].eof = "reset"
    /\ ctx.valid /\ open = NoConn => IsReset
    /\ ctx.valid /\ ctx.type \in {"HALFCLOSE_WRITE", "CLOSE"} => IsReset
    /\ Begun /\ ctx.closing =>
          co[Err(accepted)] # "none" \/ co[Cb(accepted)] \in {"close", "closed", "done"}
    /\ ctx.valid /\ co[Cb(accepted)] \in {"closed", "done"} => co[Err(accepted)] # "none"

\* A report of input is true until the thread reads; and what it does not pass
\* on any more it would not read.
Reading ==
    /\ ctx.valid /\ open # NoConn /\ (pc = "read" \/ ("conn" \in batch /\ "in" \in ctx.revents))
          => Readable(open)
    /\ Known /\ peer[accepted].shut => peer[accepted].eof # "no"
    /\ Known /\ ReadingIsOver =>
          /\ peer[accepted].eof # "no"
          /\ peer[accepted].in # <<>> =>
                IsReset /\ pc # "read" /\ ("conn" \in batch => "hup" \in ctx.revents)

-----------------------------------------------------------------------------
(* Where the pieces are.                                                   *)

Sent(c) == Len(peer[c].out)
Held == Sent(accepted) + Len(ctx.wb)

OutStream(c) ==
    /\ peer[c].out = Stretch(c, 0, Sent(c)) /\ Sent(c) <= conn[c].sent
    /\ c # accepted \/ ~ctx.valid =>
          peer[c].eof = "reset" \/ Sent(c) = conn[c].sent
    /\ ~conn[c].fd => c < accepted \/ (c = accepted /\ Begun /\ ~ctx.valid)

OutHeld ==
    /\ ctx.wb = Stretch(accepted, Sent(accepted), Held)
    /\ \A i \in DOMAIN pipe :
          pipe[i].cmd = "D" => pipe[i].data = <<Piece(accepted, Held + i)>>
    /\ conn[accepted].sent =
          Held + (IF pipe # <<>> /\ pipe[Len(pipe)].cmd # "D"
                  THEN Len(pipe) - 1 ELSE Len(pipe))

Outbound == (\A c \in Conns : OutStream(c)) /\ (ctx.valid => OutHeld)

Got(c) == Len(conn[c].got)
Here(c) == Got(c) + Len(conn[c].buf)
Read(c) == peer[c].sent - Len(peer[c].in)
Before(i) == mail[i].data[1][2] - 1
Upto(i) == Before(i) + Len(mail[i].data)
HasData(i) == mail[i].kind = "DATA"

InStream(c) ==
    /\ Len(peer[c].in) <= peer[c].sent
    /\ peer[c].in = Stretch(c, Read(c), peer[c].sent)
    /\ Here(c) <= Read(c)
    /\ conn[c].got = Stretch(c, 0, Got(c))
    /\ conn[c].buf = Stretch(c, Got(c), Here(c))

InMail ==
    /\ \A i \in DOMAIN mail : HasData(i) =>
          /\ mail[i].data = Stretch(accepted, Before(i), Upto(i))
          /\ Here(accepted) <= Before(i) /\ Upto(i) <= Read(accepted)
    /\ \A i, j \in DOMAIN mail :
          HasData(i) /\ HasData(j) /\ i < j => Upto(i) <= Before(j)
    /\ \A n \in (Here(accepted) + 1)..Read(accepted) :
          \E i \in DOMAIN mail : HasData(i) /\ Before(i) < n /\ n <= Upto(i)

Inbound == (\A c \in Conns : InStream(c)) /\ (Known => InMail)

IInv == Types /\ Lives /\ Resets /\ Reading /\ Outbound /\ Inbound

-----------------------------------------------------------------------------
(* Sequences.                                                              *)

LEMMA SeqIs ==
    ASSUME NEW S, NEW s \in Seq(S)
    PROVE  /\ Len(s) \in Nat /\ DOMAIN s = 1..Len(s)
           /\ \A i \in 1..Len(s) : s[i] \in S
           /\ s = <<>> <=> Len(s) = 0
  BY EmptySeq, ElementOfSeq, LenProperties

LEMMA TailIs ==
    ASSUME NEW S, NEW s \in Seq(S), s # <<>>
    PROVE  /\ Len(s) \in Nat \ {0} /\ Head(s) = s[1] /\ Head(s) \in S
           /\ Tail(s) \in Seq(S) /\ Len(Tail(s)) = Len(s) - 1
           /\ DOMAIN Tail(s) = 1..(Len(s) - 1)
           /\ \A i \in 1..(Len(s) - 1) : Tail(s)[i] = s[i + 1]
  BY HeadTailProperties, EmptySeq, LenProperties

LEMMA AppendIs ==
    ASSUME NEW S, NEW s \in Seq(S), NEW x \in S
    PROVE  /\ Append(s, x) \in Seq(S) /\ Len(Append(s, x)) = Len(s) + 1
           /\ DOMAIN Append(s, x) = 1..(Len(s) + 1)
           /\ \A i \in 1..Len(s) : Append(s, x)[i] = s[i]
           /\ Append(s, x)[Len(s) + 1] = x
           /\ Append(s, x) # <<>>
  BY AppendProperties, LenProperties

LEMMA OneIs ==
    ASSUME NEW S, NEW x \in S
    PROVE  /\ <<x>> \in Seq(S) /\ Len(<<x>>) = 1 /\ <<x>>[1] = x /\ <<x>> # <<>>
           /\ Head(<<x>>) = x /\ Tail(<<x>>) = <<>>
  OBVIOUS

-----------------------------------------------------------------------------
(* Stretches of pieces.                                                    *)

LEMMA StretchIs ==
    ASSUME NEW c \in Conns, NEW m \in Nat, NEW n \in Nat, m <= n
    PROVE  /\ Stretch(c, m, n) \in Seq(PieceSet) /\ Len(Stretch(c, m, n)) = n - m
           /\ DOMAIN Stretch(c, m, n) = 1..(n - m)
           /\ \A i \in 1..(n - m) : Stretch(c, m, n)[i] = Piece(c, m + i)
<1>1. \A i \in 1..(n - m) : Piece(c, m + i) \in PieceSet
  BY DEF Piece, PieceSet
<1>2. n - m \in Nat
  OBVIOUS
<1> QED BY <1>1, <1>2 DEF Stretch

LEMMA StretchEmpty ==
    ASSUME NEW c \in Conns, NEW m \in Nat
    PROVE  Stretch(c, m, m) = <<>>
<1>1. Stretch(c, m, m) \in Seq(PieceSet) /\ Len(Stretch(c, m, m)) = 0
  BY StretchIs
<1> QED BY <1>1, SeqIs

IsStretch(s, c, m, n) ==
    /\ s \in Seq(PieceSet) /\ Len(s) = n - m
    /\ \A i \in 1..(n - m) : s[i] = Piece(c, m + i)

LEMMA StretchEqual ==
    ASSUME NEW c \in Conns, NEW m \in Nat, NEW n \in Nat, m <= n,
           NEW s, IsStretch(s, c, m, n)
    PROVE  s = Stretch(c, m, n)
<1>1. /\ Stretch(c, m, n) \in Seq(PieceSet) /\ Len(Stretch(c, m, n)) = n - m
      /\ \A i \in 1..(n - m) : Stretch(c, m, n)[i] = Piece(c, m + i)
  BY StretchIs
<1> QED BY <1>1, SeqEqual DEF IsStretch

LEMMA StretchOne ==
    ASSUME NEW c \in Conns, NEW m \in Nat
    PROVE  Stretch(c, m, m + 1) = <<Piece(c, m + 1)>>
<1>1. Piece(c, m + 1) \in PieceSet
  BY DEF Piece, PieceSet
<1>2. /\ <<Piece(c, m + 1)>> \in Seq(PieceSet) /\ Len(<<Piece(c, m + 1)>>) = 1
      /\ <<Piece(c, m + 1)>>[1] = Piece(c, m + 1)
  BY <1>1, OneIs
<1>3. \A i \in 1..((m + 1) - m) : <<Piece(c, m + 1)>>[i] = Piece(c, m + i)
  BY <1>2
<1>4. IsStretch(<<Piece(c, m + 1)>>, c, m, m + 1)
  BY <1>2, <1>3 DEF IsStretch
<1> QED BY <1>4, StretchEqual

LEMMA StretchConcat ==
    ASSUME NEW c \in Conns, NEW m \in Nat, NEW n \in Nat, NEW k \in Nat,
           m <= n, n <= k
    PROVE  Stretch(c, m, n) \o Stretch(c, n, k) = Stretch(c, m, k)
<1> DEFINE x == Stretch(c, m, n)  y == Stretch(c, n, k)
<1>1. /\ x \in Seq(PieceSet) /\ Len(x) = n - m
      /\ \A i \in 1..(n - m) : x[i] = Piece(c, m + i)
  BY StretchIs
<1>2. /\ y \in Seq(PieceSet) /\ Len(y) = k - n
      /\ \A i \in 1..(k - n) : y[i] = Piece(c, n + i)
  BY StretchIs
<1> HIDE DEF x, y
<1>3. /\ x \o y \in Seq(PieceSet) /\ Len(x \o y) = Len(x) + Len(y)
      /\ \A i \in 1..(Len(x) + Len(y)) :
           (x \o y)[i] = IF i <= Len(x) THEN x[i] ELSE y[i - Len(x)]
  BY <1>1, <1>2, ConcatProperties
<1>4. ASSUME NEW i \in 1..(k - m) PROVE (x \o y)[i] = Piece(c, m + i)
  <2>1. CASE i <= n - m
    BY <1>1, <1>2, <1>3, <2>1
  <2>2. CASE ~(i <= n - m)
    <3>1. i - (n - m) \in 1..(k - n) /\ n + (i - (n - m)) = m + i
      BY <2>2
    <3> QED BY <1>1, <1>2, <1>3, <2>2, <3>1
  <2> QED BY <2>1, <2>2
<1>5. x \o y = Stretch(c, m, k)
  <2>1. Len(x \o y) = k - m
    BY <1>1, <1>2, <1>3
  <2>2. IsStretch(x \o y, c, m, k)
    BY <1>3, <1>4, <2>1 DEF IsStretch
  <2>3. m <= k
    OBVIOUS
  <2> QED BY <2>2, <2>3, StretchEqual
<1> QED BY <1>5 DEF x, y

LEMMA StretchAppend ==
    ASSUME NEW c \in Conns, NEW m \in Nat, NEW n \in Nat, m <= n
    PROVE  Append(Stretch(c, m, n), Piece(c, n + 1)) = Stretch(c, m, n + 1)
<1> DEFINE x == Stretch(c, m, n)
<1>1. /\ x \in Seq(PieceSet) /\ Len(x) = n - m
      /\ \A i \in 1..(n - m) : x[i] = Piece(c, m + i)
  BY StretchIs
<1>2. Piece(c, n + 1) \in PieceSet
  BY DEF Piece, PieceSet
<1> HIDE DEF x
<1>3. /\ Append(x, Piece(c, n + 1)) \in Seq(PieceSet)
      /\ Len(Append(x, Piece(c, n + 1))) = (n + 1) - m
      /\ \A i \in 1..(n - m) : Append(x, Piece(c, n + 1))[i] = x[i]
      /\ Append(x, Piece(c, n + 1))[(n - m) + 1] = Piece(c, n + 1)
  BY <1>1, <1>2, AppendIs
<1>4. ASSUME NEW i \in 1..((n + 1) - m)
      PROVE  Append(x, Piece(c, n + 1))[i] = Piece(c, m + i)
  <2>1. CASE i <= n - m
    BY <1>1, <1>3, <2>1
  <2>2. CASE ~(i <= n - m)
    <3>1. i = (n - m) + 1 /\ m + i = n + 1
      BY <2>2
    <3> QED BY <1>3, <3>1
  <2> QED BY <2>1, <2>2
<1>5. Append(x, Piece(c, n + 1)) = Stretch(c, m, n + 1)
  <2>1. IsStretch(Append(x, Piece(c, n + 1)), c, m, n + 1)
    BY <1>3, <1>4 DEF IsStretch
  <2>2. n + 1 \in Nat /\ m <= n + 1
    OBVIOUS
  <2> QED BY <2>1, <2>2, StretchEqual
<1> QED BY <1>5 DEF x

LEMMA StretchTail ==
    ASSUME NEW c \in Conns, NEW m \in Nat, NEW n \in Nat, m < n
    PROVE  /\ Head(Stretch(c, m, n)) = Piece(c, m + 1)
           /\ Tail(Stretch(c, m, n)) = Stretch(c, m + 1, n)
           /\ Stretch(c, m, n) # <<>>
<1> DEFINE x == Stretch(c, m, n)
<1>1. /\ x \in Seq(PieceSet) /\ Len(x) = n - m
      /\ \A i \in 1..(n - m) : x[i] = Piece(c, m + i)
  BY StretchIs
<1> HIDE DEF x
<1>2. x # <<>>
  BY <1>1, SeqIs
<1>3. /\ Head(x) = x[1] /\ Tail(x) \in Seq(PieceSet) /\ Len(Tail(x)) = (n - m) - 1
      /\ \A i \in 1..((n - m) - 1) : Tail(x)[i] = x[i + 1]
  BY <1>1, <1>2, TailIs
<1>4. ASSUME NEW i \in 1..(n - (m + 1)) PROVE Tail(x)[i] = Piece(c, (m + 1) + i)
  <2>1. i + 1 \in 1..(n - m) /\ m + (i + 1) = (m + 1) + i
    OBVIOUS
  <2>2. Tail(x)[i] = x[i + 1]
    BY <1>3
  <2>3. x[i + 1] = Piece(c, m + (i + 1))
    BY <1>1, <2>1
  <2> QED BY <2>1, <2>2, <2>3
<1>5. Tail(x) = Stretch(c, m + 1, n)
  <2>1. IsStretch(Tail(x), c, m + 1, n)
    BY <1>3, <1>4 DEF IsStretch
  <2>2. m + 1 \in Nat /\ m + 1 <= n
    OBVIOUS
  <2> QED BY <2>1, <2>2, StretchEqual
<1>6. Head(x) = Piece(c, m + 1)
  BY <1>1, <1>3
<1> QED BY <1>2, <1>5, <1>6 DEF x

LEMMA StretchSub ==
    ASSUME NEW c \in Conns, NEW m \in Nat, NEW n \in Nat, NEW k \in Nat, m + k <= n
    PROVE  /\ SubSeq(Stretch(c, m, n), 1, k) = Stretch(c, m, m + k)
           /\ SubSeq(Stretch(c, m, n), k + 1, n - m) = Stretch(c, m + k, n)
<1> DEFINE x == Stretch(c, m, n)
<1>1. /\ x \in Seq(PieceSet) /\ Len(x) = n - m
      /\ \A i \in 1..(n - m) : x[i] = Piece(c, m + i)
  BY StretchIs
<1> HIDE DEF x
<1>2. \A i \in 1..(n - m) : x[i] \in PieceSet
  BY <1>1, SeqIs
<1>3. SubSeq(x, 1, k) = Stretch(c, m, m + k)
  <2>1. \A i \in 1..k : x[i] \in PieceSet
    BY <1>2
  <2>2. /\ SubSeq(x, 1, k) \in Seq(PieceSet) /\ Len(SubSeq(x, 1, k)) = k
        /\ \A i \in 1..k : SubSeq(x, 1, k)[i] = x[i]
    BY <2>1, SubSeqProperties
  <2>3. \A i \in 1..((m + k) - m) : SubSeq(x, 1, k)[i] = Piece(c, m + i)
    BY <1>1, <2>2
  <2>4. IsStretch(SubSeq(x, 1, k), c, m, m + k)
    BY <2>2, <2>3 DEF IsStretch
  <2>5. m + k \in Nat /\ m <= m + k /\ m + k <= n
    OBVIOUS
  <2> QED BY <2>4, <2>5, StretchEqual
<1>4. SubSeq(x, k + 1, n - m) = Stretch(c, m + k, n)
  <2>1. \A i \in (k + 1)..(n - m) : x[i] \in PieceSet
    BY <1>2
  <2>2. /\ SubSeq(x, k + 1, n - m) \in Seq(PieceSet)
        /\ Len(SubSeq(x, k + 1, n - m)) = n - (m + k)
        /\ \A i \in 1..(n - (m + k)) : SubSeq(x, k + 1, n - m)[i] = x[k + i]
    <3>1. /\ SubSeq(x, k + 1, n - m) \in Seq(PieceSet)
          /\ Len(SubSeq(x, k + 1, n - m)) =
                IF k + 1 <= n - m THEN (n - m) - (k + 1) + 1 ELSE 0
          /\ \A i \in 1..((n - m) - (k + 1) + 1) :
                SubSeq(x, k + 1, n - m)[i] = x[(k + 1) + i - 1]
      BY <2>1, SubSeqProperties
    <3>2. /\ (n - m) - (k + 1) + 1 = n - (m + k)
          /\ ~(k + 1 <= n - m) => n - (m + k) = 0
          /\ \A i \in Nat : (k + 1) + i - 1 = k + i
      OBVIOUS
    <3> QED BY <3>1, <3>2
  <2>3. ASSUME NEW i \in 1..(n - (m + k))
        PROVE  SubSeq(x, k + 1, n - m)[i] = Piece(c, (m + k) + i)
    <3>1. k + i \in 1..(n - m) /\ m + (k + i) = (m + k) + i
      OBVIOUS
    <3>2. SubSeq(x, k + 1, n - m)[i] = x[k + i]
      BY <2>2
    <3>3. x[k + i] = Piece(c, m + (k + i))
      BY <1>1, <3>1
    <3> QED BY <3>1, <3>2, <3>3
  <2>4. IsStretch(SubSeq(x, k + 1, n - m), c, m + k, n)
    BY <2>2, <2>3 DEF IsStretch
  <2>5. m + k \in Nat /\ m <= m + k /\ m + k <= n
    OBVIOUS
  <2> QED BY <2>4, <2>5, StretchEqual
<1> QED BY <1>3, <1>4 DEF x

-----------------------------------------------------------------------------
(* Records and coroutines.                                                 *)

LEMMA CorIs ==
    ASSUME NEW c \in Conns
    PROVE  /\ Cb(c) \in Cors /\ Err(c) \in Cors /\ Cb(c) # NoCor /\ Err(c) # NoCor
           /\ Cb(c)[1] = "cb" /\ Cb(c)[2] = c /\ Err(c)[1] = "err" /\ Err(c)[2] = c
           /\ \A d : /\ Cb(c) = Cb(d) => c = d
                     /\ Err(c) = Err(d) => c = d
                     /\ Cb(c) # Err(d)
  BY DEF Cb, Err, Cors, NoCor

LEMMA ConnIs ==
    ASSUME Types
    PROVE  /\ NConns \in Nat /\ accepted \in Nat /\ accepted <= NConns
           /\ \A c : c \in Conns <=> c \in Nat /\ c > 0 /\ c <= NConns
           /\ accepted > 0 => accepted \in Conns
           /\ NoConn = 0 /\ NoConn \notin Conns
  BY SocketsAssumption DEF Types, Conns, NoConn

LEMMA PeerIs ==
    ASSUME Types, NEW c \in Conns
    PROVE  /\ peer[c] \in Streams
           /\ peer[c].in \in Seq(PieceSet) /\ peer[c].sent \in Nat
           /\ peer[c].eof \in {"no", "fin", "reset"} /\ peer[c].shut \in BOOLEAN
           /\ peer[c].out \in Seq(PieceSet)
           /\ Len(peer[c].in) \in Nat /\ Len(peer[c].out) \in Nat
  BY SeqIs DEF Types, Streams

LEMMA ConnectionIs ==
    ASSUME Types, NEW c \in Conns
    PROVE  /\ conn[c] \in Connections
           /\ conn[c].fd \in BOOLEAN /\ conn[c].closing \in BOOLEAN
           /\ conn[c].buf \in Seq(PieceSet) /\ conn[c].readers \in Seq(Cors)
           /\ conn[c].got \in Seq(PieceSet) /\ conn[c].sent \in Nat
           /\ Len(conn[c].buf) \in Nat /\ Len(conn[c].got) \in Nat
  BY SeqIs DEF Types, Connections

LEMMA ContextIs ==
    ASSUME Types
    PROVE  /\ ctx.of \in Nat /\ ctx.of \in Conns \cup {NoConn}
           /\ ctx.valid \in BOOLEAN /\ ctx.type \in SockTypes
           /\ ctx.events \in SUBSET {"in", "out"} /\ ctx.added \in BOOLEAN
           /\ ctx.revents \in SUBSET {"in", "out", "hup"} /\ ctx.wb \in Seq(PieceSet)
           /\ ctx.closing \in BOOLEAN /\ ctx.closer \in Cors \cup {NoCor}
           /\ ctx.watch \in SUBSET {"on", "in", "out"} /\ Len(ctx.wb) \in Nat
  BY SeqIs, ConnIs DEF Types, Contexts

LEMMA MailIs ==
    ASSUME Types
    PROVE  /\ Len(mail) \in Nat /\ DOMAIN mail = 1..Len(mail)
           /\ \A i \in DOMAIN mail :
                /\ mail[i] \in Packles /\ mail[i].conn \in Conns
                /\ mail[i].cor \in Cors \cup {NoCor} /\ mail[i].data \in Seq(PieceSet)
                /\ mail[i].kind \in
                     {"NEWCONN", "READY", "DATA", "CLOSEREAD", "ERROR", "CLOSED"}
<1>1. mail \in Seq(Packles)
  BY DEF Types
<1>2. \A i \in DOMAIN mail : mail[i] \in Packles
  BY <1>1, SeqIs
<1>3. \A p \in Packles :
        /\ p.conn \in Conns /\ p.cor \in Cors \cup {NoCor} /\ p.data \in Seq(PieceSet)
        /\ p.kind \in {"NEWCONN", "READY", "DATA", "CLOSEREAD", "ERROR", "CLOSED"}
  BY DEF Packles
<1> QED BY <1>1, <1>2, <1>3, SeqIs

LEMMA PipeIs ==
    ASSUME Types
    PROVE  /\ Len(pipe) \in Nat /\ DOMAIN pipe = 1..Len(pipe)
           /\ \A i \in DOMAIN pipe :
                /\ pipe[i] \in Commands /\ pipe[i].conn \in Conns
                /\ pipe[i].cor \in Cors \cup {NoCor} /\ pipe[i].data \in Seq(PieceSet)
                /\ pipe[i].cmd \in {"S", "D", "C"}
<1>1. pipe \in Seq(Commands)
  BY DEF Types
<1>2. \A i \in DOMAIN pipe : pipe[i] \in Commands
  BY <1>1, SeqIs
<1>3. \A p \in Commands :
        /\ p.conn \in Conns /\ p.cor \in Cors \cup {NoCor} /\ p.data \in Seq(PieceSet)
        /\ p.cmd \in {"S", "D", "C"}
  BY DEF Commands
<1> QED BY <1>1, <1>2, <1>3, SeqIs


-----------------------------------------------------------------------------
(* The peers.                                                              *)

LEMMA PeerSendsStep ==
    ASSUME Kept, IInv, NEW c \in Conns, PeerSends(c) PROVE IInv'
<1> USE DEF IInv, Lives
<1>1. /\ c = accepted /\ open = accepted /\ accepted \in Conns /\ peer[c].eof = "no"
      /\ accepted > 0 /\ accepted \in Nat
  BY ConnIs DEF PeerSends, Types
<1>2. Piece(c, peer[c].sent + 1) \in PieceSet
  BY PeerIs DEF Piece, PieceSet
<1>3. /\ Append(peer[c].in, Piece(c, peer[c].sent + 1)) \in Seq(PieceSet)
      /\ Len(Append(peer[c].in, Piece(c, peer[c].sent + 1))) = Len(peer[c].in) + 1
      /\ Append(peer[c].in, Piece(c, peer[c].sent + 1)) # <<>>
  BY <1>2, PeerIs, AppendIs
<1>4. /\ peer' = [peer EXCEPT ![c] = [peer[c] EXCEPT !.sent = peer[c].sent + 1,
                     !.in = Append(peer[c].in, Piece(c, peer[c].sent + 1))]]
      /\ peer \in [Conns -> Streams]
  BY DEF PeerSends, Types
<1>5. /\ peer' \in [Conns -> Streams]
      /\ peer'[c].in = Append(peer[c].in, Piece(c, peer[c].sent + 1))
      /\ peer'[c].sent = peer[c].sent + 1
      /\ \A d \in Conns : d # c => peer'[d] = peer[d]
      /\ \A d \in Conns : /\ peer'[d].eof = peer[d].eof /\ peer'[d].shut = peer[d].shut
                          /\ peer'[d].out = peer[d].out
  <2> DEFINE p == peer[c]
             n == p.sent + 1
             s == Append(p.in, Piece(c, n))
             q == [p EXCEPT !.sent = n, !.in = s]
  <2>1. p \in Streams /\ n \in Nat /\ s \in Seq(PieceSet)
    BY <1>3, PeerIs
  <2> HIDE DEF p, n, s
  <2>2. /\ q \in Streams /\ q.in = s /\ q.sent = n /\ q.eof = p.eof
        /\ q.shut = p.shut /\ q.out = p.out
    BY <2>1 DEF Streams
  <2>3. peer' = [peer EXCEPT ![c] = q]
    BY <1>4 DEF p, n, s
  <2> HIDE DEF q
  <2>4. /\ peer' \in [Conns -> Streams] /\ peer'[c] = q
        /\ \A d \in Conns : d # c => peer'[d] = peer[d]
    BY <1>4, <2>2, <2>3
  <2> QED BY <2>2, <2>4 DEF p, n, s
<1>6. UNCHANGED <<accepted, open, ctx, pipe, pc, batch, err, mail, conns, conn, co, run, forkQ>>
  BY DEF PeerSends, threadVars, serviceVars
<1> HIDE DEF Kept
<1>7. Types'
  BY <1>5, <1>6 DEF Types
<1>8. Later'
  <2>1. ASSUME NEW d \in Conns, Untouched(d) PROVE Untouched(d)'
    <3>1. CASE d = c
      BY <1>3, <1>5, <1>6, <2>1, <3>1, PeerIs DEF Untouched
    <3>2. CASE d # c
      BY <1>5, <1>6, <2>1, <3>2 DEF Untouched
    <3> QED BY <3>1, <3>2
  <2> QED BY <1>1, <1>5, <1>6, <2>1 DEF Later, Fresh
<1>9. Earlier' /\ Context' /\ Thread' /\ Pipe' /\ Coroutines'
  BY <1>6 DEF Earlier, Context, Thread, Pipe, Coroutines, Fresh, Begun
<1>10. Mail'
  BY <1>5, <1>6, MailIs DEF Mail, Fresh, Begun
<1>11. Resets'
  BY <1>1, <1>5, <1>6, ContextIs DEF Resets, IsReset, Begun
<1>12. Reading'
  BY <1>1, <1>3, <1>5, <1>6 DEF Reading, Readable, IsReset, Known, ReadingIsOver
<1>13. Outbound'
  <2>1. ASSUME NEW d \in Conns PROVE OutStream(d)'
    BY <1>1, <1>5, <1>6 DEF Outbound, OutStream, Sent, Begun
  <2>2. ctx'.valid => OutHeld'
    <3>1. Sent(accepted)' = Sent(accepted) /\ Held' = Held
      BY <1>1, <1>5, <1>6 DEF Sent, Held
    <3> QED BY <1>1, <1>6, <3>1 DEF Outbound, OutHeld
  <2> QED BY <2>1, <2>2 DEF Outbound
<1>14. Inbound'
  <2>1. \A d \in Conns : d # c => Read(d)' = Read(d)
    BY <1>5 DEF Read
  <2>2. Read(c)' = Read(c) /\ Len(peer'[c].in) <= peer'[c].sent
    BY <1>3, <1>5, PeerIs DEF Read, Inbound, InStream
  <2>3. peer'[c].in = Stretch(c, Read(c)', peer'[c].sent)
    <3>1. peer[c].in = Stretch(c, Read(c), peer[c].sent) /\ Read(c) \in Nat
          /\ Read(c) <= peer[c].sent
      BY PeerIs DEF Inbound, InStream, Read
    <3> QED BY <1>5, <2>2, <3>1, PeerIs, StretchAppend
  <2>4. ASSUME NEW d \in Conns PROVE InStream(d)'
    BY <1>1, <1>5, <1>6, <2>1, <2>2, <2>3 DEF Inbound, InStream, Got, Here
  <2>5. Known' => InMail'
    BY <1>1, <1>6, <2>2 DEF Inbound, InMail, Got, Here, Before, Upto, HasData, Known
  <2> QED BY <2>4, <2>5 DEF Inbound
<1> QED BY <1>7, <1>8, <1>9, <1>10, <1>11, <1>12, <1>13, <1>14

LEMMA PeerEndsStep ==
    ASSUME Kept, IInv, NEW c \in Conns, NEW how \in {"fin", "reset"}, PeerEnds(c, how)
    PROVE  IInv'
<1> USE DEF IInv, Lives
<1>1. /\ c = accepted /\ open = accepted /\ accepted \in Conns /\ peer[c].eof # "reset"
      /\ accepted > 0 /\ accepted \in Nat
  BY ConnIs DEF PeerEnds, Types
<1>2. /\ peer' \in [Conns -> Streams] /\ peer'[c].eof = how
      /\ \A d \in Conns : d # c => peer'[d] = peer[d]
      /\ \A d \in Conns : /\ peer'[d].in = peer[d].in /\ peer'[d].sent = peer[d].sent
                          /\ peer'[d].shut = peer[d].shut /\ peer'[d].out = peer[d].out
  <2> DEFINE p == peer[c]
             q == [p EXCEPT !.eof = how]
  <2>1. p \in Streams
    BY PeerIs
  <2> HIDE DEF p
  <2>2. /\ q \in Streams /\ q.in = p.in /\ q.sent = p.sent /\ q.eof = how
        /\ q.shut = p.shut /\ q.out = p.out
    BY <2>1 DEF Streams
  <2>3. peer' = [peer EXCEPT ![c] = q] /\ peer \in [Conns -> Streams]
    BY DEF PeerEnds, Types, p
  <2> HIDE DEF q
  <2>4. /\ peer' \in [Conns -> Streams] /\ peer'[c] = q
        /\ \A d \in Conns : d # c => peer'[d] = peer[d]
    BY <2>2, <2>3
  <2> QED BY <2>2, <2>4 DEF p
<1>3. UNCHANGED <<accepted, open, ctx, pipe, pc, batch, err, mail, conns, conn, co, run, forkQ>>
  BY DEF PeerEnds, threadVars, serviceVars
<1>4. \A d \in Conns : peer[d].eof = "reset" => peer'[d].eof = "reset"
  BY <1>1, <1>2
<1>5. Types'
  BY <1>2, <1>3 DEF Types
<1>6. Later'
  <2>1. ASSUME NEW d \in Conns, Untouched(d) PROVE Untouched(d)'
    BY <1>2, <1>3, <2>1 DEF Untouched
  <2> QED BY <1>1, <1>2, <1>3, <2>1 DEF Later, Fresh
<1>7. Earlier' /\ Context' /\ Thread' /\ Pipe' /\ Coroutines'
  BY <1>3 DEF Earlier, Context, Thread, Pipe, Coroutines, Fresh, Begun
<1>8. Mail'
  BY <1>3, <1>4, MailIs DEF Mail, Fresh, Begun
<1>9. Resets'
  BY <1>1, <1>3, <1>4, ContextIs DEF Resets, IsReset, Begun
<1>10. Reading'
  BY <1>1, <1>2, <1>3, <1>4 DEF Reading, Readable, IsReset, Known, ReadingIsOver
<1>11. Outbound'
  <2>1. ASSUME NEW d \in Conns PROVE OutStream(d)'
    BY <1>1, <1>2, <1>3, <1>4 DEF Outbound, OutStream, Sent, Begun
  <2>2. ctx'.valid => OutHeld'
    <3>1. Sent(accepted)' = Sent(accepted) /\ Held' = Held
      BY <1>1, <1>2, <1>3 DEF Sent, Held
    <3> QED BY <1>1, <1>3, <3>1 DEF Outbound, OutHeld
  <2> QED BY <2>1, <2>2 DEF Outbound
<1>12. Inbound'
  <2>1. \A d \in Conns : Read(d)' = Read(d)
    BY <1>2 DEF Read
  <2>2. ASSUME NEW d \in Conns PROVE InStream(d)'
    BY <1>2, <1>3, <2>1 DEF Inbound, InStream, Got, Here
  <2>3. Known' => InMail'
    BY <1>1, <1>3, <2>1 DEF Inbound, InMail, Got, Here, Before, Upto, HasData, Known
  <2> QED BY <2>2, <2>3 DEF Inbound
<1> QED BY <1>5, <1>6, <1>7, <1>8, <1>9, <1>10, <1>11, <1>12

-----------------------------------------------------------------------------
(* The loop of the socket thread.                                          *)

LEMMA NewConnectionStep ==
    ASSUME Kept, IInv, NewConnection PROVE IInv'
<1> USE DEF IInv, Lives
<1>1. /\ accepted' = accepted + 1 /\ open' = accepted + 1 /\ accepted' \in Conns
      /\ open = NoConn /\ ~ctx.valid /\ pc = "loop" /\ accepted < NConns
      /\ \A c \in Conns : co[Cb(c)] \in {"none", "recv", "done"}
  BY ConnIs DEF NewConnection, NumberIsFree, Kept, AllRules
<1> DEFINE p == Packle("NEWCONN", accepted', NoCor, <<>>)
<1>2. /\ p \in Packles /\ p.kind = "NEWCONN" /\ p.conn = accepted' /\ p.data = <<>>
  BY <1>1, EmptySeq DEF Packle, Packles
<1>3. mail' = Append(mail, p)
  BY DEF NewConnection, Push
<1>4. UNCHANGED <<peer, ctx, pipe, pc, batch, err, conns, conn, co, run, forkQ>>
  BY DEF NewConnection, threadVars, serviceVars
<1> HIDE DEF p
<1>5. /\ mail' \in Seq(Packles) /\ Len(mail') = Len(mail) + 1
      /\ DOMAIN mail' = 1..(Len(mail) + 1) /\ mail'[Len(mail) + 1] = p
      /\ \A i \in 1..Len(mail) : mail'[i] = mail[i]
  BY <1>2, <1>3, AppendIs DEF Types
<1>6. /\ ~Fresh /\ ctx.of = accepted /\ conns = NoConn /\ pipe = <<>>
      /\ accepted > 0 => Begun
  <2>1. ctx.of = accepted
    BY <1>1, ConnIs, ContextIs DEF Later, Fresh, NoConn, Context
  <2>2. conns = NoConn
    BY <1>1 DEF Context
  <2>3. pipe = <<>>
    BY <1>1, PipeIs, SeqIs DEF Pipe, Types
  <2> QED BY <2>1, <2>2, <2>3 DEF Fresh, Begun
<1>7. /\ Fresh' /\ ~Begun' /\ ~Known'
  BY <1>1, <1>4, <1>6, ConnIs DEF Fresh, Begun, Known, NoConn, Types
<1>8. Untouched(accepted + 1) /\ peer[accepted + 1].sent = 0
  BY <1>1, ConnIs DEF Later
<1>9. Types'
  BY <1>1, <1>4, <1>5, <1>6, ConnIs DEF Types
<1>10. Later'
  <2>1. ASSUME NEW d \in Conns, Untouched(d) PROVE Untouched(d)'
    BY <1>4, <2>1 DEF Untouched
  <2> QED BY <1>1, <1>4, <1>8, <2>1, ConnIs DEF Later
<1>11. Earlier'
  <2>1. accepted > 0 => co[Cb(accepted)] \in {"recv", "done"}
    BY <1>1, <1>6, ConnIs DEF Coroutines
  <2> QED BY <1>1, <1>4, <2>1, ConnIs DEF Earlier
<1>12. Context'
  BY <1>1, <1>4, <1>6, <1>7, ConnIs, ContextIs DEF Context
<1>13. Thread' /\ Pipe'
  BY <1>1, <1>4, <1>6, PipeIs DEF Thread, Pipe
<1>14. Mail'
  <2>1. ~Begun \/ co[Cb(accepted)] # "start"
    BY <1>1, ConnIs DEF Begun
  <2> QED BY <1>1, <1>2, <1>4, <1>5, <1>6, <1>7, <2>1, MailIs DEF Mail
<1>15. Coroutines'
  <2>1. run = NoCor /\ forkQ = <<>>
    BY <1>1, ConnIs DEF Coroutines, Begun
  <2> QED BY <1>4, <1>7, <2>1 DEF Coroutines
<1>16. Resets'
  BY <1>1, <1>4, <1>7, ContextIs DEF Resets, IsReset, Thread
<1>17. Reading'
  BY <1>1, <1>4, <1>7 DEF Reading
<1>18. Outbound'
  <2>1. ASSUME NEW d \in Conns PROVE OutStream(d)'
    BY <1>1, <1>4, <1>6, <1>8, ConnIs DEF Outbound, OutStream, Sent, Begun, Untouched
  <2> QED BY <1>1, <1>4, <2>1 DEF Outbound
<1>19. Inbound'
  BY <1>4, <1>7 DEF Inbound, InStream, Got, Here, Read
<1> QED BY <1>9, <1>10, <1>11, <1>12, <1>13, <1>14, <1>15, <1>16, <1>17, <1>18, <1>19

LEMMA PollStep == ASSUME Kept, IInv, Poll PROVE IInv'
<1> USE DEF IInv, Lives
<1>1. /\ pc = "loop" /\ batch' = {x \in {"pipe"} : pipe # <<>>} \cup {x \in {"conn"} : Revents # {}}
      /\ ctx' = IF Revents # {} THEN [ctx EXCEPT !.revents = Revents] ELSE ctx
  BY DEF Poll
<1>2. UNCHANGED <<accepted, open, peer, pipe, pc, err, mail, conns, conn, co, run, forkQ>>
  BY DEF Poll, kernelVars, serviceVars
<1>3. /\ Revents \in SUBSET {"in", "out", "hup"}
      /\ Revents # {} => ctx.watch # {} /\ open # NoConn /\ ctx.valid /\ Begun
      /\ "in" \in Revents => Readable(open)
      /\ "hup" \in Revents <=> "on" \in ctx.watch /\ peer[open].eof = "reset"
      /\ Revents # {} => "on" \in ctx.watch
  BY DEF Revents, Context
<1>4. /\ ctx' \in Contexts
      /\ ctx'.revents = IF Revents # {} THEN Revents ELSE ctx.revents
      /\ ctx'.of = ctx.of /\ ctx'.valid = ctx.valid /\ ctx'.type = ctx.type
      /\ ctx'.wb = ctx.wb /\ ctx'.closing = ctx.closing /\ ctx'.closer = ctx.closer
      /\ ctx'.watch = ctx.watch
  <2>1. ctx \in Contexts
    BY DEF Types
  <2> QED BY <1>1, <1>3, <2>1 DEF Contexts
<1>5. /\ "conn" \in batch' => Revents # {} /\ ctx'.revents = Revents
      /\ batch' \in SUBSET {"pipe", "conn"}
  BY <1>1, <1>4
<1> HIDE DEF Kept
<1>6. Types'
  BY <1>2, <1>4, <1>5 DEF Types
<1>7. /\ Fresh' = Fresh /\ Begun' = Begun /\ Known' = Known /\ IsReset' = IsReset
      /\ open # NoConn => open = accepted
  BY <1>2, <1>4 DEF Fresh, Begun, Known, IsReset, Types
<1>8. Later' /\ Earlier' /\ Thread' /\ Pipe' /\ Mail' /\ Coroutines'
  BY <1>1, <1>2, <1>4, <1>7 DEF Later, Earlier, Thread, Pipe, Mail, Coroutines, Untouched
<1>9. Context'
  BY <1>2, <1>3, <1>4, <1>7 DEF Context
<1>10. Resets'
  BY <1>2, <1>3, <1>4, <1>7, ContextIs DEF Resets, Begun
<1>11. Reading'
  BY <1>1, <1>2, <1>3, <1>4, <1>5, <1>7 DEF Reading, Readable, IsReset, ReadingIsOver
<1>12. Outbound'
  BY <1>2, <1>4, <1>7 DEF Outbound, OutStream, OutHeld, Held, Sent
<1>13. Inbound'
  BY <1>2, <1>4, <1>7 DEF Inbound, InStream, InMail, Got, Here, Read, Before, Upto, HasData
<1> QED BY <1>6, <1>8, <1>9, <1>10, <1>11, <1>12, <1>13

\* Steps of the loop that change pc and batch only.
LEMMA TurnStep ==
    ASSUME Kept, IInv, TakePipe \/ PipeEnds PROVE IInv'
<1> USE DEF IInv, Lives
<1>1. UNCHANGED <<accepted, open, peer, ctx, pipe, err, mail, conns, conn, co, run, forkQ>>
  BY DEF TakePipe, PipeEnds, kernelVars, serviceVars
<1>2. /\ pc \in {"loop", "pipe"} /\ pc' \in {"loop", "pipe"}
      /\ batch' \in SUBSET batch
  BY DEF TakePipe, PipeEnds, threadVars
<1> HIDE DEF Kept
<1>3. Types'
  BY <1>1, <1>2 DEF Types
<1>4. /\ Fresh' = Fresh /\ Begun' = Begun /\ Known' = Known /\ IsReset' = IsReset
  BY <1>1 DEF Fresh, Begun, Known, IsReset
<1>5. Later' /\ Earlier' /\ Context' /\ Pipe' /\ Mail' /\ Coroutines'
  BY <1>1, <1>4 DEF Later, Earlier, Context, Pipe, Mail, Coroutines, Untouched
<1>6. Thread' /\ Resets' /\ Reading'
  BY <1>1, <1>2, <1>4 DEF Thread, Resets, Reading, Readable, ReadingIsOver
<1>7. Outbound' /\ Inbound'
  BY <1>1, <1>4 DEF Outbound, OutStream, OutHeld, Held, Sent,
       Inbound, InStream, InMail, Got, Here, Read, Before, Upto, HasData
<1> QED BY <1>3, <1>5, <1>6, <1>7

\* SetEvents, and the new type; y is like x but for events, added, watch and type.
Changed(x, ev, t) == [SetEvents(x, ev) EXCEPT !.type = t]
Alike(y, x, t) ==
    /\ y \in Contexts /\ y.type = t
    /\ y.of = x.of /\ y.valid = x.valid /\ y.revents = x.revents /\ y.wb = x.wb
    /\ y.closing = x.closing /\ y.closer = x.closer
    /\ y.watch # {} => open # NoConn

LEMMA ChangedIs ==
    ASSUME NEW x \in Contexts, x.watch # {} => open # NoConn,
           NEW ev \in SUBSET {"in", "out"}, NEW t \in SockTypes
    PROVE  /\ Alike(Changed(x, ev, t), x, t)
           /\ Alike(SetEvents(x, ev), x, x.type) /\ SetEvents(x, ev).events = ev
<1> DEFINE w == Watched(x, ev)
           a == ~x.added \/ ev # {}
<1>1. /\ w \in SUBSET {"on", "in", "out"} /\ (w # {} => open # NoConn) /\ a \in BOOLEAN
  BY DEF Watched, Contexts
<1>2. SetEvents(x, ev) = [x EXCEPT !.events = ev, !.added = a, !.watch = w]
  BY DEF SetEvents
<1> HIDE DEF w, a
<1>3. Alike(SetEvents(x, ev), x, x.type) /\ SetEvents(x, ev).events = ev
  BY <1>1, <1>2 DEF Contexts, Alike
<1> QED BY <1>1, <1>2, <1>3 DEF Contexts, Changed, Alike

LEMMA TakeContextStep == ASSUME Kept, IInv, TakeContext PROVE IInv'
<1> USE DEF IInv, Lives
<1>1. /\ pc = "loop" /\ batch' = batch \ {"conn"} /\ "conn" \in batch
      /\ UNCHANGED <<accepted, open, peer, pipe, mail, conns, conn, co, run, forkQ>>
  BY DEF TakeContext, kernelVars, serviceVars
<1>2. \/ ctx' = ctx /\ pc' = pc /\ err' = err
      \/ /\ ctx.valid /\ "hup" \in ctx.revents
         /\ ctx' = Changed(ctx, {}, "CLOSE")
         /\ err' = TRUE /\ pc' = "report"
      \/ /\ ctx.valid /\ "hup" \notin ctx.revents /\ ctx.revents # {}
         /\ pc' = IF "in" \in ctx.revents THEN "read" ELSE "write"
         /\ ctx' = ctx /\ err' = err
  BY DEF TakeContext, Changed
<1> HIDE DEF Kept
<1>3. CASE ctx' = ctx /\ pc' = pc /\ err' = err
  <2>1. /\ Fresh' = Fresh /\ Begun' = Begun /\ Known' = Known /\ IsReset' = IsReset
        /\ batch' \in SUBSET batch
    BY <1>1, <1>3 DEF Fresh, Begun, Known, IsReset
  <2>2. Types' /\ Later' /\ Earlier' /\ Context' /\ Pipe' /\ Mail' /\ Coroutines'
    BY <1>1, <1>3, <2>1
       DEF Types, Later, Earlier, Context, Pipe, Mail, Coroutines, Untouched
  <2>3. Thread' /\ Resets' /\ Reading'
    BY <1>1, <1>3, <2>1 DEF Thread, Resets, Reading, Readable, ReadingIsOver
  <2>4. Outbound' /\ Inbound'
    BY <1>1, <1>3, <2>1 DEF Outbound, OutStream, OutHeld, Held, Sent,
         Inbound, InStream, InMail, Got, Here, Read, Before, Upto, HasData
  <2> QED BY <2>2, <2>3, <2>4
<1>4. CASE ~(ctx' = ctx /\ pc' = pc /\ err' = err)
  <2>1. /\ ctx.valid /\ Begun /\ ctx.revents # {} /\ ctx.type # "PACCEPT"
        /\ accepted \in Conns
    BY <1>2, <1>4, ConnIs DEF Context, Begun
  <2>2. \/ pc' \in {"read", "write"} /\ ctx' = ctx /\ err' = err
        \/ pc' = "report" /\ err' = TRUE /\ ctx'.type = "CLOSE" /\ IsReset
    <3>1. "hup" \in ctx.revents => IsReset
      BY <2>1 DEF Resets, IsReset, Begun, NoConn
    <3>2. ctx \in Contexts
      BY DEF Types
    <3>3. Alike(Changed(ctx, {}, "CLOSE"), ctx, "CLOSE")
      BY <2>1, <3>2, ChangedIs DEF Context, SockTypes
    <3> QED BY <1>1, <1>2, <1>4, <3>1, <3>3 DEF Alike
  <2>3. /\ ctx' \in Contexts /\ ctx'.of = ctx.of /\ ctx'.valid = ctx.valid
        /\ ctx'.type = ctx.type \/ ctx'.type = "CLOSE"
        /\ ctx'.revents = ctx.revents /\ ctx'.wb = ctx.wb /\ ctx'.closing = ctx.closing
        /\ ctx'.closer = ctx.closer /\ (ctx'.watch # {} => open # NoConn)
    <3>1. ctx \in Contexts /\ (ctx.watch # {} => open # NoConn) /\ "CLOSE" \in SockTypes
      BY DEF Types, Context, SockTypes
    <3>2. {} \in SUBSET {"in", "out"}
      OBVIOUS
    <3>3. Alike(Changed(ctx, {}, "CLOSE"), ctx, "CLOSE")
      BY <3>1, <3>2, ChangedIs
    <3> QED BY <1>2, <3>1, <3>3 DEF Alike
  <2>4. /\ Fresh' = Fresh /\ Begun' /\ Known' = Known /\ IsReset' = IsReset
        /\ ~Fresh /\ open \in {NoConn, accepted}
    BY <1>1, <2>1, <2>3 DEF Fresh, Begun, Known, IsReset, Types
  <2>5. /\ "conn" \notin batch' /\ batch' \in SUBSET {"pipe", "conn"}
        /\ pc' = "read" => "in" \in ctx.revents /\ "hup" \notin ctx.revents /\ ctx' = ctx
        /\ pc' \in {"read", "write", "report"} /\ err' \in BOOLEAN
        /\ pc' # "report" => ctx' = ctx /\ ~err'
    <3>1. ~err /\ err \in BOOLEAN
      BY <1>1 DEF Thread, Types
    <3>2. "conn" \notin batch' /\ batch' \in SUBSET {"pipe", "conn"}
      BY <1>1 DEF Types
    <3>3. CASE pc' = "report"
      BY <1>1, <1>2, <1>4, <3>2, <3>3
    <3>4. CASE pc' # "report"
      <4>1. /\ "hup" \notin ctx.revents /\ ctx' = ctx /\ err' = err
            /\ pc' = IF "in" \in ctx.revents THEN "read" ELSE "write"
        BY <1>1, <1>2, <1>4, <3>4
      <4> QED BY <3>1, <3>2, <3>4, <4>1
    <3> QED BY <3>3, <3>4
  <2>6. Types'
    BY <1>1, <2>3, <2>5 DEF Types
  <2>7. Later' /\ Earlier' /\ Pipe' /\ Mail' /\ Coroutines'
    BY <1>1, <2>1, <2>3, <2>4 DEF Later, Earlier, Pipe, Mail, Coroutines, Untouched
  <2>8. Context'
    BY <1>1, <2>1, <2>3, <2>4 DEF Context
  <2>9. Thread'
    BY <1>1, <2>1, <2>2, <2>3, <2>4, <2>5 DEF Thread
  <2>10. Resets'
    <3>1. pc' = "report" => IsReset
      BY <1>1, <1>2, <1>4, <2>2
    <3> QED BY <1>1, <2>1, <2>2, <2>3, <2>4, <2>5, <3>1 DEF Resets
  <2>11. Reading'
    BY <1>1, <2>1, <2>2, <2>3, <2>4, <2>5 DEF Reading, Readable, ReadingIsOver, IsReset
  <2>12. Outbound'
    BY <1>1, <2>1, <2>3, <2>4 DEF Outbound, OutStream, OutHeld, Held, Sent
  <2>13. Inbound'
    BY <1>1, <2>1, <2>3, <2>4
       DEF Inbound, InStream, InMail, Got, Here, Read, Before, Upto, HasData
  <2> QED BY <2>6, <2>7, <2>8, <2>9, <2>10, <2>11, <2>12, <2>13
<1> QED BY <1>3, <1>4

-----------------------------------------------------------------------------
(* The socket thread reads.                                                *)

LEMMA Pushed ==
    ASSUME Types, NEW p \in Packles, mail' = Append(mail, p)
    PROVE  /\ mail' \in Seq(Packles) /\ Len(mail') = Len(mail) + 1 /\ Len(mail) \in Nat
           /\ DOMAIN mail' = 1..(Len(mail) + 1) /\ DOMAIN mail = 1..Len(mail)
           /\ mail'[Len(mail) + 1] = p
           /\ \A i \in DOMAIN mail : i \in DOMAIN mail' /\ mail'[i] = mail[i]
           /\ \A i \in DOMAIN mail' : i \in DOMAIN mail \/ i = Len(mail) + 1
<1>1. mail \in Seq(Packles)
  BY DEF Types
<1>2. Len(mail) \in Nat /\ DOMAIN mail = 1..Len(mail)
  BY <1>1, SeqIs
<1>3. /\ mail' \in Seq(Packles) /\ Len(mail') = Len(mail) + 1
      /\ DOMAIN mail' = 1..(Len(mail) + 1) /\ mail'[Len(mail) + 1] = p
      /\ \A i \in 1..Len(mail) : mail'[i] = mail[i]
  BY <1>1, AppendIs
<1> QED BY <1>2, <1>3

\* Steps that neither send nor write nor close.
LEMMA OutboundKept ==
    ASSUME IInv, accepted' = accepted, pipe' = pipe, conn' = conn,
           ctx'.valid = ctx.valid, ctx'.of = ctx.of, ctx'.wb = ctx.wb,
           \A c \in Conns : /\ peer'[c].out = peer[c].out
                            /\ peer[c].eof = "reset" => peer'[c].eof = "reset"
    PROVE  Outbound'
<1>1. ctx.valid => accepted \in Conns
  BY ConnIs DEF IInv, Lives, Context, Begun
<1>2. ASSUME NEW c \in Conns PROVE OutStream(c)'
  BY <1>2 DEF IInv, Outbound, OutStream, Sent, Begun
<1>3. ctx.valid => Sent(accepted)' = Sent(accepted) /\ Held' = Held
  BY <1>1 DEF Sent, Held
<1>4. ctx.valid => OutHeld'
  BY <1>3 DEF IInv, Outbound, OutHeld
<1> QED BY <1>2, <1>4 DEF Outbound

\* A packle without data changes nothing for the pieces.
LEMMA InMailKept ==
    ASSUME Types, InMail, accepted' = accepted,
           Here(accepted)' = Here(accepted), Read(accepted)' = Read(accepted),
           \/ mail' = mail
           \/ \E p \in Packles : mail' = Append(mail, p) /\ p.kind # "DATA"
    PROVE  InMail'
<1>1. CASE mail' = mail
  BY <1>1 DEF InMail, HasData, Before, Upto
<1>2. ASSUME NEW p \in Packles, mail' = Append(mail, p), p.kind # "DATA" PROVE InMail'
  <2>1. \A i \in DOMAIN mail' : HasData(i)' => i \in DOMAIN mail /\ HasData(i)
    BY <1>2, Pushed DEF HasData
  <2>2. \A i \in DOMAIN mail : /\ i \in DOMAIN mail' /\ HasData(i)' = HasData(i)
                               /\ Before(i)' = Before(i) /\ Upto(i)' = Upto(i)
                               /\ mail'[i] = mail[i]
    BY <1>2, Pushed DEF HasData, Before, Upto
  <2>3. \A i \in DOMAIN mail' : HasData(i)' =>
          /\ mail'[i].data = Stretch(accepted', Before(i)', Upto(i)')
          /\ Here(accepted)' <= Before(i)' /\ Upto(i)' <= Read(accepted)'
    BY <2>1, <2>2 DEF InMail
  <2>4. \A i, j \in DOMAIN mail' :
          HasData(i)' /\ HasData(j)' /\ i < j => Upto(i)' <= Before(j)'
    BY <2>1, <2>2 DEF InMail
  <2>5. \A n \in (Here(accepted)' + 1)..Read(accepted)' :
          \E i \in DOMAIN mail' : HasData(i)' /\ Before(i)' < n /\ n <= Upto(i)'
    <3> TAKE n \in (Here(accepted)' + 1)..Read(accepted)'
    <3>1. PICK i \in DOMAIN mail : HasData(i) /\ Before(i) < n /\ n <= Upto(i)
      BY DEF InMail
    <3> QED BY <2>2, <3>1
  <2> QED BY <2>3, <2>4, <2>5 DEF InMail
<1> QED BY <1>1, <1>2

LEMMA HereIs ==
    ASSUME Types, NEW c \in Conns
    PROVE  Got(c) \in Nat /\ Here(c) \in Nat
<1>1. PICK a \in Nat, b \in Nat : a = Len(conn[c].got) /\ b = Len(conn[c].buf)
  BY ConnectionIs
<1>2. Got(c) = a /\ Here(c) = a + b
  BY <1>1 DEF Got, Here
<1> QED BY <1>2

\* Steps that neither read nor deliver.
LEMMA InboundKept ==
    ASSUME Types, Inbound, accepted' = accepted, Known' => Known,
           \A c \in Conns : peer'[c].in = peer[c].in /\ peer'[c].sent = peer[c].sent,
           \A c \in Conns : conn'[c].got = conn[c].got /\ conn'[c].buf = conn[c].buf,
           \/ mail' = mail
           \/ \E p \in Packles : mail' = Append(mail, p) /\ p.kind # "DATA"
    PROVE  Inbound'
<1>1. \A c \in Conns : Read(c)' = Read(c) /\ Here(c)' = Here(c) /\ Got(c)' = Got(c)
  BY DEF Read, Here, Got
<1>2. ASSUME Known' PROVE InMail'
  <2>1. accepted \in Conns /\ InMail
    BY <1>2, ConnIs DEF Inbound, Known
  <2>2. Here(accepted)' = Here(accepted) /\ Read(accepted)' = Read(accepted)
    BY <1>1, <2>1
  <2> QED BY <2>1, <2>2, InMailKept
<1> QED BY <1>1, <1>2 DEF Inbound, InStream

LEMMA ReadErrorStep == ASSUME Kept, IInv, ReadError PROVE IInv'
<1> USE DEF IInv, Lives
<1>1. /\ pc = "read" /\ ReadFails /\ err' = TRUE /\ pc' \in {"write", "report"}
      /\ UNCHANGED <<accepted, open, peer, ctx, pipe, batch, mail, conns, conn, co, run, forkQ>>
  BY DEF ReadError, Then, kernelVars, serviceVars
<1>2. /\ ctx.valid /\ Begun /\ ctx.type # "PACCEPT" /\ "conn" \notin batch
  BY <1>1 DEF Thread
<1>3. IsReset
  <2>1. CASE open = NoConn
    BY <1>2, <2>1 DEF Resets
  <2>2. CASE open # NoConn
    <3>1. Readable(open) /\ open = accepted
      BY <1>1, <1>2, <2>2 DEF Reading, Types
    <3> QED BY <1>1, <2>2, <3>1 DEF ReadFails, IsReset
  <2> QED BY <2>1, <2>2
<1> HIDE DEF Kept
<1>4. Types'
  BY <1>1 DEF Types
<1>5. Fresh' = Fresh /\ Begun' = Begun /\ Known' = Known /\ IsReset' = IsReset
  BY <1>1 DEF Fresh, Begun, Known, IsReset
<1>6. Later' /\ Earlier' /\ Context' /\ Pipe' /\ Mail' /\ Coroutines'
  BY <1>1, <1>5 DEF Later, Earlier, Context, Pipe, Mail, Coroutines, Untouched
<1>7. Thread'
  BY <1>1, <1>2, <1>5 DEF Thread
<1>8. Resets' /\ Reading'
  BY <1>1, <1>2, <1>3, <1>5 DEF Resets, Reading, Readable, ReadingIsOver
<1>9. Outbound' /\ Inbound'
  BY <1>1, <1>5 DEF Outbound, OutStream, OutHeld, Held, Sent,
       Inbound, InStream, InMail, Got, Here, Read, Before, Upto, HasData
<1> QED BY <1>4, <1>6, <1>7, <1>8, <1>9

LEMMA ReadEndStep == ASSUME Kept, IInv, ReadEnd PROVE IInv'
<1> USE DEF IInv, Lives
<1>1. /\ pc = "read" /\ open # NoConn /\ peer[open].in = <<>> /\ Readable(open)
      /\ UNCHANGED <<accepted, open, pipe, batch, err, conns, conn, co, run, forkQ>>
      /\ pc' \in {"write", "loop"}
  BY DEF ReadEnd, ReadEnds, Then, serviceVars
<1>2. /\ ctx.valid /\ Begun /\ ctx.type # "PACCEPT" /\ "conn" \notin batch /\ ~err
      /\ open = accepted /\ accepted \in Conns /\ ctx.of = accepted /\ accepted > 0
  BY <1>1, ConnIs DEF Thread, Types, Begun
<1>3. /\ Alike(ctx', ctx, ctx'.type) /\ ctx' \in Contexts
      /\ ctx'.type = ctx.type \/ ctx'.type \in {"HALFCLOSE_READ", "CLOSE"}
      /\ ctx'.type = "CLOSE" => ctx.type \in {"HALFCLOSE_WRITE", "CLOSE"}
      /\ ctx'.type = "HALFCLOSE_WRITE" => ctx.type = "HALFCLOSE_WRITE"
      /\ ctx'.type \notin {"PACCEPT", "NEW"}
  <2>1. /\ ctx \in Contexts /\ (ctx.watch # {} => open # NoConn)
        /\ ctx.type \notin {"PACCEPT", "NEW"}
    BY <1>2 DEF Types, Context
  <2>2. CASE ReadingIsOver
    <3>1. ctx' = ctx
      BY <2>2 DEF ReadEnd
    <3> QED BY <2>1, <3>1 DEF Alike
  <2>3. CASE ~ReadingIsOver
    <3>1. ctx' = Changed(ctx, ctx.events \ {"in"}, NoMoreReads(ctx))
      BY <2>3 DEF ReadEnd, Changed
    <3>2. /\ ctx.events \ {"in"} \in SUBSET {"in", "out"}
          /\ NoMoreReads(ctx) \in SockTypes
      BY <2>1 DEF Contexts, NoMoreReads, SockTypes
    <3>3. Alike(ctx', ctx, NoMoreReads(ctx))
      BY <2>1, <3>1, <3>2, ChangedIs
    <3> QED BY <2>1, <3>3 DEF Alike, NoMoreReads
  <2> QED BY <2>2, <2>3
<1>4. /\ peer' \in [Conns -> Streams]
      /\ \A d \in Conns : d # accepted => peer'[d] = peer[d]
      /\ \A d \in Conns : /\ peer'[d].in = peer[d].in /\ peer'[d].sent = peer[d].sent
                          /\ peer'[d].eof = peer[d].eof /\ peer'[d].out = peer[d].out
      /\ \A d \in Conns : peer[d].shut => peer'[d].shut
  <2>1. peer \in [Conns -> Streams]
    BY DEF Types
  <2>2. CASE peer' = peer
    BY <2>1, <2>2
  <2>3. CASE peer' = [peer EXCEPT ![accepted].shut = TRUE]
    <3> DEFINE q == [peer[accepted] EXCEPT !.shut = TRUE]
    <3>1. /\ q \in Streams /\ q.in = peer[accepted].in /\ q.sent = peer[accepted].sent
          /\ q.eof = peer[accepted].eof /\ q.out = peer[accepted].out /\ q.shut
      BY <1>2, <2>1 DEF Streams
    <3>2. peer' = [peer EXCEPT ![accepted] = q]
      BY <2>3
    <3> HIDE DEF q
    <3> QED BY <1>2, <2>1, <3>1, <3>2
  <2> QED BY <1>2, <2>2, <2>3 DEF ReadEnd
<1>5. \/ mail' = mail
      \/ \E p \in Packles : /\ mail' = Append(mail, p) /\ p.kind = "CLOSEREAD"
                            /\ p.conn = ctx.of /\ p.data = <<>>
  <2> DEFINE p == Packle("CLOSEREAD", ctx.of, NoCor, <<>>)
  <2>1. p \in Packles /\ p.kind = "CLOSEREAD" /\ p.conn = ctx.of /\ p.data = <<>>
    BY <1>2, EmptySeq DEF Packle, Packles
  <2>2. mail' = mail \/ mail' = Append(mail, p)
    BY DEF ReadEnd, Push
  <2> HIDE DEF p
  <2> QED BY <2>1, <2>2
<1> HIDE DEF Kept
<1>6. /\ ~Fresh /\ ~Fresh' /\ Begun' /\ Known' = Known /\ IsReset' = IsReset
      /\ ctx'.of = ctx.of /\ ctx'.valid = ctx.valid /\ ctx'.revents = ctx.revents
      /\ ctx'.wb = ctx.wb /\ ctx'.closing = ctx.closing /\ ctx'.closer = ctx.closer
  BY <1>1, <1>2, <1>3, <1>4 DEF Fresh, Begun, Known, IsReset, Alike
<1>7. Types'
  <2>1. mail' \in Seq(Packles)
    BY <1>5, Pushed DEF Types
  <2> QED BY <1>1, <1>3, <1>4, <2>1 DEF Types
<1>8. Later' /\ Earlier'
  BY <1>1, <1>2, <1>4, <1>6, ConnIs DEF Later, Earlier, Untouched
<1>9. Context' /\ Thread' /\ Pipe'
  BY <1>1, <1>2, <1>3, <1>6 DEF Context, Thread, Pipe, Alike
<1>10. Mail'
  <2>1. CASE mail' = mail
    BY <1>1, <1>2, <1>3, <1>4, <1>6, <2>1 DEF Mail
  <2>2. ASSUME NEW p \in Packles, mail' = Append(mail, p), p.kind = "CLOSEREAD",
               p.conn = ctx.of, p.data = <<>>
        PROVE  Mail'
    BY <1>1, <1>2, <1>3, <1>4, <1>6, <2>2, Pushed DEF Mail
  <2> QED BY <1>5, <2>1, <2>2
<1>11. Coroutines'
  BY <1>1, <1>2, <1>3, <1>6 DEF Coroutines
<1>12. Resets'
  BY <1>1, <1>2, <1>3, <1>4, <1>6 DEF Resets
<1>13. Reading'
  <2>1. Known => peer[accepted].eof # "no"
    BY <1>1, <1>2 DEF Reading, Readable
  <2> QED BY <1>1, <1>2, <1>4, <1>6, <2>1 DEF Reading
<1>14. Outbound'
  BY <1>1, <1>4, <1>6, OutboundKept
<1>15. Inbound'
  <2>1. mail' = mail \/ \E p \in Packles : mail' = Append(mail, p) /\ p.kind # "DATA"
    BY <1>5
  <2> QED BY <1>1, <1>4, <1>6, <2>1, InboundKept
<1> QED BY <1>7, <1>8, <1>9, <1>10, <1>11, <1>12, <1>13, <1>14, <1>15

LEMMA ReadDataStep == ASSUME Kept, IInv, ReadData PROVE IInv'
<1> USE DEF IInv, Lives
<1>1. PICK n \in 1..MaxData :
        /\ pc = "read" /\ open # NoConn /\ n <= Len(peer[open].in)
        /\ peer' = [peer EXCEPT ![open].in = SubSeq(@, n + 1, Len(@))]
        /\ IF ReadingIsOver THEN UNCHANGED mail
           ELSE Push(Packle("DATA", ctx.of, NoCor, SubSeq(peer[open].in, 1, n)))
        /\ pc' \in {"write", "loop"}
        /\ UNCHANGED <<accepted, open, ctx, pipe, batch, err, conns, conn, co, run, forkQ>>
  BY DEF ReadData, Then, serviceVars
<1>2. /\ ctx.valid /\ Begun /\ ctx.type # "PACCEPT" /\ "conn" \notin batch /\ ~err
      /\ open = accepted /\ accepted \in Conns /\ ctx.of = accepted /\ accepted > 0
  BY <1>1, ConnIs DEF Thread, Types, Begun
<1> DEFINE r == Read(accepted)
           t == peer[accepted].sent
           d == Stretch(accepted, r, r + n)
<1>3. /\ n \in Nat \ {0} /\ r \in Nat /\ t \in Nat /\ Len(peer[accepted].in) = t - r
      /\ r + n <= t /\ peer[accepted].in = Stretch(accepted, r, t)
      /\ r = Read(accepted) /\ t = peer[accepted].sent /\ r + n \in Nat
  <2>1. /\ Len(peer[accepted].in) \in Nat /\ t \in Nat /\ Len(peer[accepted].in) <= t
        /\ peer[accepted].in = Stretch(accepted, r, t)
        /\ r = t - Len(peer[accepted].in)
    BY <1>2, PeerIs DEF Inbound, InStream, Read
  <2>2. n \in Nat \ {0} /\ n <= Len(peer[accepted].in)
    BY <1>1, <1>2, SocketsAssumption
  <2> HIDE DEF r, t
  <2> QED BY <2>1, <2>2 DEF r, t
<1> HIDE DEF r, t
<1>4. /\ SubSeq(peer[accepted].in, 1, n) = d
      /\ SubSeq(peer[accepted].in, n + 1, Len(peer[accepted].in)) = Stretch(accepted, r + n, t)
  <2>1. accepted \in Conns /\ r \in Nat /\ t \in Nat /\ n \in Nat /\ r + n <= t
    BY <1>2, <1>3
  <2>2. SubSeq(Stretch(accepted, r, t), 1, n) = Stretch(accepted, r, r + n)
    BY <2>1, StretchSub
  <2>3. SubSeq(Stretch(accepted, r, t), n + 1, t - r) = Stretch(accepted, r + n, t)
    BY <2>1, StretchSub
  <2> QED BY <1>3, <2>2, <2>3
<1>5. /\ d \in Seq(PieceSet) /\ Len(d) = n /\ d # <<>> /\ d[1] = Piece(accepted, r + 1)
      /\ Stretch(accepted, r + n, t) \in Seq(PieceSet)
      /\ Len(Stretch(accepted, r + n, t)) = t - (r + n)
  <2>1. accepted \in Conns /\ r \in Nat /\ r + n \in Nat /\ r <= r + n
    BY <1>2, <1>3
  <2>6. (r + n) - r = n /\ 1 \in 1..n
    BY <1>3
  <2>2. /\ d \in Seq(PieceSet) /\ Len(d) = (r + n) - r
        /\ \A i \in 1..((r + n) - r) : d[i] = Piece(accepted, r + i)
    BY <2>1, StretchIs DEF d
  <2>3. /\ Stretch(accepted, r + n, t) \in Seq(PieceSet)
        /\ Len(Stretch(accepted, r + n, t)) = t - (r + n)
    BY <1>2, <1>3, StretchIs
  <2> HIDE DEF d
  <2>4. Len(d) = n /\ d[1] = Piece(accepted, r + 1)
    BY <2>2, <2>6
  <2>5. d # <<>>
    BY <1>3, <2>2, <2>4, SeqIs
  <2> QED BY <2>2, <2>3, <2>4, <2>5
<1> HIDE DEF d
<1>6. /\ peer' \in [Conns -> Streams]
      /\ peer'[accepted].in = Stretch(accepted, r + n, t)
      /\ \A c \in Conns : c # accepted => peer'[c] = peer[c]
      /\ \A c \in Conns : /\ peer'[c].sent = peer[c].sent /\ peer'[c].eof = peer[c].eof
                          /\ peer'[c].shut = peer[c].shut /\ peer'[c].out = peer[c].out
  <2> DEFINE p == peer[accepted]
             s == Stretch(accepted, r + n, t)
             q == [p EXCEPT !.in = s]
  <2>1. p \in Streams /\ s \in Seq(PieceSet)
    BY <1>2, <1>5, PeerIs
  <2>2. peer' = [peer EXCEPT ![accepted] = [p EXCEPT !.in = s]] /\ peer \in [Conns -> Streams]
    BY <1>1, <1>2, <1>4 DEF Types
  <2> HIDE DEF p, s
  <2>3. /\ q \in Streams /\ q.in = s /\ q.sent = p.sent /\ q.eof = p.eof
        /\ q.shut = p.shut /\ q.out = p.out
    BY <2>1 DEF Streams
  <2> HIDE DEF q
  <2>4. peer' = [peer EXCEPT ![accepted] = q]
    BY <2>2 DEF q
  <2>5. /\ peer' \in [Conns -> Streams] /\ peer'[accepted] = q
        /\ \A c \in Conns : c # accepted => peer'[c] = peer[c]
    BY <1>2, <2>2, <2>3, <2>4
  <2> QED BY <2>3, <2>5 DEF p, s
<1> DEFINE p == Packle("DATA", ctx.of, NoCor, d)
<1>7. /\ p \in Packles /\ p.kind = "DATA" /\ p.conn = accepted /\ p.data = d
  BY <1>2, <1>5 DEF Packle, Packles
<1>8. \/ mail' = mail /\ ReadingIsOver
      \/ mail' = Append(mail, p) /\ ~ReadingIsOver
  BY <1>1, <1>2, <1>4 DEF Push
<1> HIDE DEF p, Kept
<1>9. /\ ~Fresh /\ ~Fresh' /\ Begun' /\ Known' = Known /\ IsReset' = IsReset
  BY <1>1, <1>2, <1>6 DEF Fresh, Begun, Known, IsReset
<1>10. Types'
  <2>1. mail' \in Seq(Packles)
    BY <1>7, <1>8, Pushed DEF Types
  <2> QED BY <1>1, <1>6, <2>1 DEF Types
<1>11. Later' /\ Earlier'
  BY <1>1, <1>2, <1>6, <1>9, ConnIs DEF Later, Earlier, Untouched
<1>12. Context' /\ Thread' /\ Pipe' /\ Coroutines'
  BY <1>1, <1>2, <1>9 DEF Context, Thread, Pipe, Coroutines
<1>13. Mail'
  <2>1. CASE mail' = mail
    BY <1>1, <1>2, <1>6, <1>9, <2>1 DEF Mail
  <2>2. CASE mail' = Append(mail, p)
    <3>1. /\ \A i \in DOMAIN mail' : (i \in DOMAIN mail /\ mail'[i] = mail[i]) \/ mail'[i] = p
          /\ \A i \in DOMAIN mail' : i \notin DOMAIN mail => i = Len(mail')
          /\ \A i \in DOMAIN mail : mail[i].kind # "NEWCONN"
      BY <1>7, <1>9, <2>2, Pushed DEF Mail
    <3>2. p.data # <<>>
      BY <1>5, <1>7
    <3>3. /\ ctx' = ctx /\ accepted' = accepted /\ co' = co /\ Begun' = Begun
          /\ peer'[ctx.of].eof = peer[ctx.of].eof
      BY <1>1, <1>2, <1>6, <1>9
    <3> QED BY <1>2, <1>7, <3>1, <3>2, <3>3 DEF Mail
  <2> QED BY <1>8, <2>1, <2>2
<1>14. Resets'
  BY <1>1, <1>2, <1>6, <1>9 DEF Resets
<1>15. Known => ~ReadingIsOver
  <2>1. peer[accepted].in # <<>>
    BY <1>2, <1>3, PeerIs, SeqIs
  <2> QED BY <1>1, <2>1 DEF Reading
<1>16. Reading'
  BY <1>1, <1>2, <1>6, <1>9, <1>15 DEF Reading, ReadingIsOver
<1>17. Outbound'
  BY <1>1, <1>6, OutboundKept
<1>18. /\ \A c \in Conns : Here(c)' = Here(c) /\ Here(c) \in Nat
       /\ \A c \in Conns : c # accepted => Read(c)' = Read(c)
       /\ Read(accepted)' = r + n /\ Len(peer'[accepted].in) = t - (r + n)
       /\ Here(accepted) <= r
  <2>1. ASSUME NEW c \in Conns PROVE Here(c)' = Here(c) /\ Here(c) \in Nat
    <3>1. Here(c)' = Here(c)
      BY <1>1 DEF Here, Got
    <3>2. Here(c) \in Nat
      BY HereIs
    <3> QED BY <3>1, <3>2
  <2>2. \A c \in Conns : c # accepted => Read(c)' = Read(c)
    BY <1>6 DEF Read
  <2>3. Len(peer'[accepted].in) = t - (r + n)
    BY <1>5, <1>6
  <2>4. Read(accepted)' = t - (t - (r + n))
    <3>1. accepted' = accepted /\ peer'[accepted].sent = t
      BY <1>1, <1>2, <1>3, <1>6
    <3> QED BY <2>3, <3>1 DEF Read
  <2>5. t - (t - (r + n)) = r + n
    BY <1>3
  <2>6. Here(accepted) <= r
    BY <1>2, <1>3 DEF Inbound, InStream
  <2> QED BY <2>1, <2>2, <2>3, <2>4, <2>5, <2>6
<1>19. Known' => InMail'
  <2> SUFFICES ASSUME Known PROVE InMail'
    BY <1>9
  <2>1. mail' = Append(mail, p) /\ InMail
    BY <1>8, <1>15 DEF Inbound
  <2>9. PICK l \in Nat : l = Len(mail) + 1
    BY MailIs
  <2>2. /\ DOMAIN mail' = 1..l /\ mail'[l] = p /\ l \notin DOMAIN mail /\ l \in DOMAIN mail'
        /\ \A i \in DOMAIN mail : i \in DOMAIN mail' /\ i \in Nat /\ i < l
        /\ \A i \in DOMAIN mail' : i \in DOMAIN mail \/ i = l
    BY <1>7, <2>1, <2>9, Pushed
  <2>3. \A i \in DOMAIN mail : /\ mail'[i] = mail[i] /\ HasData(i)' = HasData(i)
                               /\ Before(i)' = Before(i) /\ Upto(i)' = Upto(i)
    BY <1>7, <2>1, Pushed DEF HasData, Before, Upto
  <2>4. HasData(l)' /\ Before(l)' = r /\ Upto(l)' = r + n /\ mail'[l].data = d
    <3>1. d[1][2] = r + 1
      BY <1>5 DEF Piece
    <3>2. mail'[l].kind = "DATA" /\ mail'[l].data = d
      BY <1>7, <2>2
    <3>3. Before(l)' = (r + 1) - 1 /\ Upto(l)' = ((r + 1) - 1) + n
      BY <1>5, <3>1, <3>2 DEF Before, Upto
    <3> QED BY <1>3, <3>2, <3>3 DEF HasData
  <2>5. d = Stretch(accepted, r, r + n)
    BY DEF d
  <2>6. \A i \in DOMAIN mail' : HasData(i)' =>
          /\ mail'[i].data = Stretch(accepted', Before(i)', Upto(i)')
          /\ Here(accepted)' <= Before(i)' /\ Upto(i)' <= Read(accepted)'
    <3> TAKE i \in DOMAIN mail'
    <3>1. CASE i = l
      <4>1. accepted' = accepted /\ Here(accepted)' = Here(accepted)
        BY <1>1, <1>2, <1>18
      <4>2. /\ mail'[i].data = Stretch(accepted, Before(i)', Upto(i)')
            /\ Before(i)' = r /\ Upto(i)' = r + n
        BY <2>4, <2>5, <3>1
      <4> QED BY <1>3, <1>18, <4>1, <4>2
    <3>2. CASE i \in DOMAIN mail
      <4>1. HasData(i) => /\ mail[i].data = Stretch(accepted, Before(i), Upto(i))
                          /\ Here(accepted) <= Before(i) /\ Upto(i) <= r
        BY <1>3, <2>1, <3>2 DEF InMail
      <4>2. HasData(i) => Upto(i) \in Int
        BY <3>2, MailIs, SeqIs DEF Upto, Before, HasData, Mail, PieceSet
      <4> QED BY <1>1, <1>2, <1>3, <1>18, <2>3, <3>2, <4>1, <4>2
    <3> QED BY <2>2, <3>1, <3>2
  <2>7. \A i, j \in DOMAIN mail' :
          HasData(i)' /\ HasData(j)' /\ i < j => Upto(i)' <= Before(j)'
    <3> TAKE i, j \in DOMAIN mail'
    <3>1. CASE j = l
      <4> SUFFICES ASSUME i < j PROVE HasData(i)' => Upto(i)' <= Before(j)'
        OBVIOUS
      <4>1. i \in DOMAIN mail /\ HasData(i)' = HasData(i) /\ Upto(i)' = Upto(i)
        BY <2>2, <2>3, <3>1
      <4>2. HasData(i) => Upto(i) <= r
        BY <1>3, <2>1, <4>1 DEF InMail
      <4> QED BY <2>4, <3>1, <4>1, <4>2
    <3>2. CASE i = l /\ j # l
      BY <2>2, <3>2
    <3>3. CASE i # l /\ j # l
      BY <2>1, <2>2, <2>3, <3>3 DEF InMail
    <3> QED BY <3>1, <3>2, <3>3
  <2>8. \A k \in (Here(accepted)' + 1)..Read(accepted)' :
          \E i \in DOMAIN mail' : HasData(i)' /\ Before(i)' < k /\ k <= Upto(i)'
    <3> TAKE k \in (Here(accepted)' + 1)..Read(accepted)'
    <3>1. CASE k <= r
      <4>1. k \in (Here(accepted) + 1)..Read(accepted)
        <5>1. Here(accepted)' = Here(accepted) /\ Here(accepted) \in Nat
          BY <1>1, <1>2, <1>18
        <5>2. Read(accepted)' = r + n /\ r = Read(accepted)
          BY <1>3, <1>18
        <5> QED BY <1>3, <3>1, <5>1, <5>2
      <4>2. PICK i \in DOMAIN mail : HasData(i) /\ Before(i) < k /\ k <= Upto(i)
        BY <2>1, <4>1 DEF InMail
      <4> QED BY <2>2, <2>3, <4>2
    <3>2. CASE ~(k <= r)
      <4>1. r < k /\ k <= r + n
        BY <1>2, <1>3, <1>18, <3>2
      <4>2. HasData(l)' /\ Before(l)' < k /\ k <= Upto(l)'
        BY <2>4, <4>1
      <4> QED BY <2>2, <4>2
    <3> QED BY <3>1, <3>2
  <2> QED BY <2>6, <2>7, <2>8 DEF InMail
<1>20. Inbound'
  <2>1. ASSUME NEW c \in Conns, c # accepted PROVE InStream(c)'
    BY <1>1, <1>6, <1>18, <2>1 DEF Inbound, InStream, Got
  <2>2. InStream(accepted)'
    <3>1. t - (r + n) <= t /\ Here(accepted) <= r + n
      BY <1>2, <1>3, <1>18
    <3>2. Here(accepted)' = Here(accepted) /\ Read(accepted)' = r + n
          /\ accepted' = accepted /\ peer'[accepted].sent = t
      BY <1>1, <1>2, <1>3, <1>6, <1>18
    <3>3. conn[accepted].got = Stretch(accepted, 0, Got(accepted))
          /\ conn[accepted].buf = Stretch(accepted, Got(accepted), Here(accepted))
          /\ Got(accepted)' = Got(accepted)
      BY <1>1, <1>2 DEF Inbound, InStream, Got
    <3> QED BY <1>1, <1>6, <1>18, <3>1, <3>2, <3>3 DEF InStream
  <2> QED BY <1>1, <1>19, <2>1, <2>2 DEF Inbound
<1> QED BY <1>10, <1>11, <1>12, <1>13, <1>14, <1>16, <1>17, <1>20

-----------------------------------------------------------------------------
(* The socket thread writes, and gives up the connection.                  *)

LEMMA PackleIs ==
    ASSUME NEW kind \in {"NEWCONN", "READY", "CLOSEREAD", "ERROR", "CLOSED"},
           NEW c \in Conns, NEW k \in Cors \cup {NoCor}, NEW p,
           p = Packle(kind, c, k, <<>>)
    PROVE  p \in Packles /\ p.kind = kind /\ p.conn = c /\ p.cor = k /\ p.data = <<>>
  BY EmptySeq DEF Packle, Packles

\* What the peer has got grows by what was in front of the write buffer.
Written(m) ==
    /\ peer' \in [Conns -> Streams]
    /\ \A c \in Conns :
          /\ peer'[c].in = peer[c].in /\ peer'[c].sent = peer[c].sent
          /\ peer'[c].eof = peer[c].eof /\ (peer[c].shut => peer'[c].shut)
    /\ \A c \in Conns : c # accepted => peer'[c] = peer[c]
    /\ peer'[accepted].out = Stretch(accepted, 0, m)

\* freeWB and sendClosedPackle, by handleWrite or close.
LEMMA GivesUp ==
    ASSUME IInv, ctx.valid, ctx.closing, ctx.type # "PACCEPT", ctx' \in Contexts,
           ctx'.of = ctx.of, ctx'.valid = FALSE, ctx'.closing, ctx'.type = "CLOSE",
           ctx'.revents = ctx.revents, ctx'.watch = {},
           NEW k \in {Cb(accepted), Err(accepted)}, co[k] = "close",
           NEW p \in Packles, mail' = Append(mail, p),
           p.kind = "CLOSED", p.conn = ctx.of, p.cor = k, p.data = <<>>,
           NEW m \in Nat, Written(m), m <= conn[accepted].sent,
           IsReset \/ m = conn[accepted].sent,
           open' = NoConn, pipe' = <<>>, pc' \in {"loop", "pipe", "report"},
           pc' = "report" => IsReset /\ "conn" \notin batch,
           err' \in BOOLEAN, err' => pc' = "report",
           UNCHANGED <<accepted, batch, conns, conn, co, run, forkQ>>
    PROVE  IInv'
<1> USE DEF IInv, Lives
<1>1. /\ Begun /\ ~Fresh /\ accepted \in Conns /\ accepted > 0 /\ ctx.of = accepted
      /\ conns = NoConn
  BY ConnIs DEF Context, Begun, Fresh
<1>2. /\ Begun' /\ ~Fresh' /\ ~Known' /\ ~Known /\ IsReset' = IsReset
  BY <1>1 DEF Begun, Fresh, Known, IsReset, Written, NoConn
<1>3. Types'
  <2>1. mail' \in Seq(Packles) /\ pipe' \in Seq(Commands)
    BY Pushed, EmptySeq
  <2> QED BY <2>1 DEF Types, Written
<1>4. Later' /\ Earlier'
  BY <1>1, <1>2, ConnIs DEF Later, Earlier, Untouched, Written
<1>5. Context' /\ Thread'
  BY <1>1, <1>2 DEF Context, Thread
<1>6. Pipe'
  <2>1. DOMAIN pipe' = {}
    OBVIOUS
  <2> QED BY <2>1 DEF Pipe
<1>7. Mail'
  <2>1. \A i \in DOMAIN mail : mail[i].kind # "CLOSED"
    BY DEF Mail
  <2> QED BY <1>1, <1>2, <2>1, Pushed DEF Mail, Written
<1>8. Coroutines'
  BY <1>1, <1>2 DEF Coroutines
<1>9. Resets'
  BY <1>1, <1>2 DEF Resets, Written
<1>10. Reading'
  BY <1>2 DEF Reading
<1>11. Outbound'
  <2>1. ASSUME NEW c \in Conns, c # accepted PROVE OutStream(c)'
    BY <2>1 DEF Outbound, OutStream, Sent, Written
  <2>2. OutStream(accepted)'
    <3>1. Stretch(accepted, 0, m) \in Seq(PieceSet) /\ Len(Stretch(accepted, 0, m)) = m
      <4>0. accepted \in Conns /\ 0 \in Nat /\ m \in Nat /\ 0 <= m
        BY <1>1
      <4>1. Len(Stretch(accepted, 0, m)) = m - 0 /\ Stretch(accepted, 0, m) \in Seq(PieceSet)
        BY <4>0, StretchIs
      <4> QED BY <4>1
    <3>2. Sent(accepted)' = m
      BY <3>1 DEF Sent, Written
    <3> QED BY <1>2, <3>2 DEF OutStream, Written, IsReset
  <2> QED BY <2>1, <2>2 DEF Outbound
<1>12. Inbound'
  <2>1. \E x \in Packles : mail' = Append(mail, x) /\ x.kind # "DATA"
    OBVIOUS
  <2> QED BY <1>2, <2>1, InboundKept DEF Written
<1> QED BY <1>3, <1>4, <1>5, <1>6, <1>7, <1>8, <1>9, <1>10, <1>11, <1>12

\* What the three writes have in common.
LEMMA WriteIs ==
    ASSUME Kept, IInv, WriteAll \/ WriteSome \/ WriteError
    PROVE  \E n \in 0..Len(ctx.wb), result \in {0, 1, -1} :
             /\ HandleWrite(n, result)
             /\ n > 0 => open # NoConn
             /\ result = 0 => n = Len(ctx.wb)
             /\ result = 1 => ctx.closer = NoCor
             /\ result = -1 => n = 0 /\ IsReset
<1> USE DEF IInv, Lives
<1>1. Len(ctx.wb) \in Nat /\ (ctx.wb = <<>> <=> Len(ctx.wb) = 0)
  BY ContextIs, SeqIs
<1>2. CASE WriteAll
  <2>1. ctx.wb = <<>> \/ open # NoConn
    BY <1>2 DEF WriteAll, WriteFails
  <2> QED BY <1>1, <1>2, <2>1 DEF WriteAll
<1>3. CASE WriteSome
  <2>1. PICK n \in 0..(Len(ctx.wb) - 1) : ~WriteFails /\ MayBeFull /\ HandleWrite(n, 1)
    BY <1>3 DEF WriteSome
  <2>2. open # NoConn /\ ctx.closer = NoCor /\ n \in 0..Len(ctx.wb)
    BY <1>1, <2>1 DEF WriteFails, MayBeFull, Kept, AllRules
  <2> QED BY <2>1, <2>2
<1>4. CASE WriteError
  <2>1. pc = "write" /\ WriteFails /\ HandleWrite(0, -1)
    BY <1>4 DEF WriteError, HandleWrite
  <2>2. ctx.valid
    BY <2>1 DEF Thread
  <2>3. IsReset
    BY <2>1, <2>2 DEF WriteFails, Resets, IsReset, Types
  <2> QED BY <1>1, <2>1, <2>3
<1> QED BY <1>2, <1>3, <1>4

LEMMA WriteStep ==
    ASSUME Kept, IInv, WriteAll \/ WriteSome \/ WriteError PROVE IInv'
<1> USE DEF IInv, Lives
<1>1. PICK n \in 0..Len(ctx.wb), result \in {0, 1, -1} :
        /\ HandleWrite(n, result)
        /\ n > 0 => open # NoConn
        /\ result = 0 => n = Len(ctx.wb)
        /\ result = 1 => ctx.closer = NoCor
        /\ result = -1 => n = 0 /\ IsReset
  BY WriteIs
<1> HIDE DEF Kept
<1>2. /\ pc = "write" /\ UNCHANGED <<accepted, pipe, batch, conns, conn, co, run, forkQ>>
      /\ pc' = IF err' THEN "report" ELSE "loop"
  BY <1>1 DEF HandleWrite, Then, serviceVars
<1>3. /\ ctx.valid /\ Begun /\ ctx.type # "PACCEPT" /\ "conn" \notin batch
      /\ accepted \in Conns /\ ctx.of = accepted /\ accepted > 0
      /\ open \in {NoConn, accepted} /\ ctx \in Contexts /\ (ctx.watch # {} => open # NoConn)
  BY <1>2, ConnIs DEF Thread, Types, Begun, Context
<1> DEFINE a == Sent(accepted)
           b == Held
<1>4. /\ a \in Nat /\ b \in Nat /\ n \in Nat /\ a + n <= b /\ Len(ctx.wb) = b - a
      /\ peer[accepted].out = Stretch(accepted, 0, a) /\ ctx.wb = Stretch(accepted, a, b)
      /\ b <= conn[accepted].sent
      /\ (pipe = <<>> => b = conn[accepted].sent)
  <2>1. PICK x \in Nat, y \in Nat, z \in Nat :
          x = Len(peer[accepted].out) /\ y = Len(ctx.wb) /\ z = Len(pipe)
    BY <1>3, PeerIs, ContextIs, PipeIs
  <2>2. a = x /\ b = x + y
    BY <2>1 DEF Sent, Held
  <2>3. /\ peer[accepted].out = Stretch(accepted, 0, a) /\ ctx.wb = Stretch(accepted, a, b)
    BY <1>3 DEF Outbound, OutStream, OutHeld
  <2>4. conn[accepted].sent = b + (IF pipe # <<>> /\ pipe[Len(pipe)].cmd # "D" THEN z - 1 ELSE z)
    BY <1>3, <2>1 DEF Outbound, OutHeld
  <2>5. pipe = <<>> <=> z = 0
    BY <2>1, SeqIs DEF Types
  <2> HIDE DEF a, b
  <2>6. n \in 0..y /\ Len(ctx.wb) = y
    BY <1>1, <2>1
  <2>7. /\ a \in Nat /\ b \in Nat /\ n \in Nat /\ a + n <= b /\ Len(ctx.wb) = b - a
    <3>1. y \in Nat /\ x \in Nat /\ n \in 0..y
      BY <2>6
    <3>2. n \in Nat /\ n <= y
      BY <3>1
    <3>3. x + y \in Nat /\ x + n <= x + y /\ y = (x + y) - x
      BY <3>1, <3>2
    <3>4. Len(ctx.wb) = (x + y) - x
      BY <2>6, <3>3
    <3> QED BY <2>2, <3>1, <3>2, <3>3, <3>4
  <2>8. b <= conn[accepted].sent /\ (z = 0 => b = conn[accepted].sent)
    BY <2>1, <2>4, <2>5, <2>7
  <2> QED BY <2>3, <2>5, <2>7, <2>8
<1> HIDE DEF a, b
<1>5. Written(a + n) /\ \A c \in Conns : peer'[c].shut = peer[c].shut
  <2>0. accepted \in Conns /\ 0 \in Nat /\ a \in Nat /\ b \in Nat /\ n \in Nat /\ a + n <= b
        /\ 0 <= a /\ 0 <= a + n /\ a <= a + n /\ a + n \in Nat
    BY <1>3, <1>4
  <2> DEFINE p == peer[accepted]
             s == Stretch(accepted, 0, a + n)
             q == [p EXCEPT !.out = s]
  <2>1. s \in Seq(PieceSet)
    BY <2>0, StretchIs
  <2>2. peer \in [Conns -> Streams] /\ p \in Streams
    BY <1>3 DEF Types
  <2>3. CASE n = 0
    <3>1. peer' = peer /\ a + n = a
      BY <1>1, <1>4, <2>3 DEF HandleWrite
    <3> QED BY <1>4, <2>2, <3>1 DEF Written
  <2>4. CASE n # 0
    <3>1. open = accepted /\ NoConn # accepted
      BY <1>1, <1>3, <1>4, <2>4, ConnIs
    <3>2. p.out \o SubSeq(ctx.wb, 1, n) = s
      <4>1. SubSeq(Stretch(accepted, a, b), 1, n) = Stretch(accepted, a, a + n)
        BY <2>0, StretchSub
      <4>2. Stretch(accepted, 0, a) \o Stretch(accepted, a, a + n) = Stretch(accepted, 0, a + n)
        BY <2>0, StretchConcat
      <4> QED BY <1>4, <4>1, <4>2
    <3>3. peer' = [peer EXCEPT ![accepted].out = p.out \o SubSeq(ctx.wb, 1, n)]
      BY <1>1, <2>4, <3>1 DEF HandleWrite
    <3>4. peer' = [peer EXCEPT ![accepted] = q]
      BY <3>2, <3>3
    <3> HIDE DEF p, s
    <3>5. /\ q \in Streams /\ q.out = s /\ q.in = p.in /\ q.sent = p.sent
          /\ q.eof = p.eof /\ q.shut = p.shut
      BY <2>1, <2>2 DEF Streams
    <3> HIDE DEF q
    <3> QED BY <1>3, <2>2, <3>4, <3>5 DEF Written, p, s
  <2> QED BY <2>3, <2>4
<1>6. CASE ctx.closer # NoCor
  <2> DEFINE k == ctx.closer
             p == Packle("CLOSED", ctx.of, k, <<>>)
             x == Changed(ctx, {}, "CLOSE")
  <2>1. ctx.closing /\ pipe = <<>> /\ k \in {Cb(accepted), Err(accepted)} /\ co[k] = "close"
    BY <1>3, <1>6 DEF Context
  <2>2. /\ ctx' = [x EXCEPT !.valid = FALSE, !.wb = <<>>, !.watch = {}]
        /\ open' = NoConn /\ err' = err
    BY <1>1, <1>6 DEF HandleWrite, SendClosedPackle, Changed
  <2>3. mail' = Append(mail, Packle("CLOSED", x.of, k, <<>>))
    BY <1>1, <1>6 DEF HandleWrite, SendClosedPackle, Changed, Push
  <2>4. Alike(x, ctx, "CLOSE")
    BY <1>3, ChangedIs DEF SockTypes
  <2>5. p \in Packles /\ p.kind = "CLOSED" /\ p.conn = ctx.of /\ p.cor = k /\ p.data = <<>>
    <3>1. ctx.of \in Conns /\ k \in Cors \cup {NoCor}
      BY <1>3, ContextIs
    <3> QED BY <3>1, PackleIs
  <2>6. mail' = Append(mail, p)
    BY <2>3, <2>4 DEF Alike
  <2> HIDE DEF x
  <2>7. /\ ctx' \in Contexts /\ ctx'.of = ctx.of /\ ctx'.valid = FALSE /\ ctx'.closing
        /\ ctx'.type = "CLOSE" /\ ctx'.revents = ctx.revents /\ ctx'.watch = {}
    BY <2>1, <2>2, <2>4, EmptySeq DEF Alike, Contexts
  <2>8. a + n \in Nat /\ a + n <= conn[accepted].sent
    <3>1. conn[accepted].sent \in Nat
      BY <1>3, ConnectionIs
    <3> QED BY <1>4, <3>1
  <2>9. IsReset \/ a + n = conn[accepted].sent
    <3>1. CASE result = -1
      BY <1>1, <3>1
    <3>2. CASE result # -1
      <4>1. n = Len(ctx.wb)
        BY <1>1, <1>6, <3>2
      <4> QED BY <1>4, <2>1, <4>1
    <3> QED BY <3>1, <3>2
  <2>10. err' \in BOOLEAN /\ (err' => IsReset)
    BY <2>2 DEF Resets, Types
  <2> HIDE DEF k, p
  <2>11. /\ pipe' = <<>> /\ pc' \in {"loop", "pipe", "report"}
         /\ pc' = "report" => IsReset /\ "conn" \notin batch
         /\ err' => pc' = "report"
    BY <1>2, <1>3, <2>1, <2>10
  <2> QED BY <1>2, <1>3, <1>5, <2>1, <2>2, <2>5, <2>6, <2>7, <2>8, <2>9, <2>10, <2>11, GivesUp
<1>7. CASE ctx.closer = NoCor
  <2> DEFINE left == SubSeq(ctx.wb, n + 1, Len(ctx.wb))
             t == IF result = -1 THEN NoMoreWrites(ctx) ELSE ctx.type
             x == Changed(ctx, ctx.events \ {"out"}, t)
  <2>1. /\ ctx' = IF result = 1 THEN [ctx EXCEPT !.wb = left]
                  ELSE [SetEvents(ctx, ctx.events \ {"out"}) EXCEPT
                           !.wb = left,
                           !.type = IF result = -1 THEN NoMoreWrites(ctx) ELSE @]
        /\ err' = (err \/ result = -1) /\ open' = open /\ mail' = mail
    BY <1>1, <1>7 DEF HandleWrite
  <2>2. left = Stretch(accepted, a + n, b) /\ left \in Seq(PieceSet) /\ Len(left) = b - (a + n)
    <3>2. accepted \in Conns /\ a \in Nat /\ b \in Nat /\ n \in Nat /\ a + n <= b /\ a + n \in Nat
      BY <1>3, <1>4
    <3>3. SubSeq(Stretch(accepted, a, b), n + 1, b - a) = Stretch(accepted, a + n, b)
      BY <3>2, StretchSub
    <3>1. left = Stretch(accepted, a + n, b)
      BY <1>4, <3>3
    <3> HIDE DEF left
    <3> QED BY <1>3, <3>1, <3>2, StretchIs
  <2> HIDE DEF left
  <2>3. /\ t \in SockTypes /\ t # "PACCEPT" /\ t # "NEW"
        /\ t # ctx.type => IsReset /\ t \in {"CLOSE", "HALFCLOSE_WRITE"}
        /\ ctx.type \in {"HALFCLOSE_READ", "CLOSE"} <=> t \in {"HALFCLOSE_READ", "CLOSE"}
    <3>1. ctx.type \in SockTypes /\ ctx.type # "NEW"
      BY <1>3, ContextIs DEF Context
    <3> QED BY <1>1, <1>3, <3>1 DEF NoMoreWrites, SockTypes
  <2>4. Alike(x, ctx, t) /\ Alike(SetEvents(ctx, ctx.events \ {"out"}), ctx, ctx.type)
    <3>1. ctx.events \ {"out"} \in SUBSET {"in", "out"}
      BY ContextIs
    <3> QED BY <1>3, <2>3, <3>1, ChangedIs
  <2>5. /\ ctx' \in Contexts /\ ctx'.of = ctx.of /\ ctx'.valid = ctx.valid
        /\ ctx'.type = t /\ ctx'.revents = ctx.revents /\ ctx'.wb = left
        /\ ctx'.closing = ctx.closing /\ ctx'.closer = ctx.closer
        /\ (ctx'.watch # {} => open # NoConn)
    <3>1. CASE result = 1
      <4>1. ctx' = [ctx EXCEPT !.wb = left] /\ t = ctx.type
        BY <2>1, <3>1
      <4> HIDE DEF t
      <4> QED BY <1>3, <2>2, <4>1 DEF Contexts
    <3>2. CASE result # 1
      <4> DEFINE y == SetEvents(ctx, ctx.events \ {"out"})
      <4>1. Alike(y, ctx, ctx.type)
        BY <2>4
      <4>2. ctx' = [y EXCEPT !.wb = left, !.type = IF result = -1 THEN NoMoreWrites(ctx) ELSE y.type]
        BY <2>1, <3>2
      <4> HIDE DEF y
      <4>3. ctx' = [y EXCEPT !.wb = left, !.type = t]
        BY <4>1, <4>2 DEF Alike
      <4> HIDE DEF t
      <4> QED BY <2>2, <2>3, <4>1, <4>3 DEF Alike, Contexts
    <3> QED BY <3>1, <3>2
  <2> HIDE DEF t, x
  <2>6. /\ ~Fresh /\ ~Fresh' /\ Begun' /\ Known' = Known /\ IsReset' = IsReset
        /\ err' \in BOOLEAN /\ (err' => IsReset) /\ pc' \in {"report", "loop"}
        /\ err' <=> pc' = "report"
    <3>1. err' \in BOOLEAN /\ (err' => IsReset)
      BY <1>1, <2>1 DEF Resets, Types
    <3>2. /\ ~Fresh /\ ~Fresh' /\ Begun' /\ Known' = Known /\ IsReset' = IsReset
      BY <1>2, <1>3, <1>5, <2>5 DEF Fresh, Begun, Known, IsReset, Written
    <3> QED BY <1>2, <3>1, <3>2
  <2>7. Types'
    BY <1>2, <1>5, <2>1, <2>5, <2>6 DEF Types, Written
  <2>8. Later' /\ Earlier'
    BY <1>2, <1>3, <1>5, <2>1, <2>6, ConnIs DEF Later, Earlier, Untouched, Written
  <2>9. Context' /\ Thread' /\ Pipe' /\ Coroutines'
    BY <1>2, <1>3, <2>1, <2>3, <2>5, <2>6 DEF Context, Thread, Pipe, Coroutines
  <2>10. Mail'
    BY <1>2, <1>3, <1>5, <2>1, <2>3, <2>5, <2>6 DEF Mail, Written
  <2>11. Resets'
    BY <1>2, <1>3, <1>5, <2>1, <2>3, <2>5, <2>6 DEF Resets, Written
  <2>12. Reading'
    <3>1. ReadingIsOver' = ReadingIsOver
      BY <2>3, <2>5 DEF ReadingIsOver
    <3> QED BY <1>2, <1>3, <1>5, <2>1, <2>5, <2>6, <3>1 DEF Reading, Written
  <2>13. Outbound'
    <3>1. ASSUME NEW c \in Conns, c # accepted PROVE OutStream(c)'
      BY <1>2, <1>5, <3>1 DEF Outbound, OutStream, Sent, Written
    <3>0. accepted \in Conns /\ 0 \in Nat /\ a + n \in Nat /\ 0 <= a + n
      BY <1>3, <1>4
    <3>2. Stretch(accepted, 0, a + n) \in Seq(PieceSet) /\ Len(Stretch(accepted, 0, a + n)) = (a + n) - 0
      BY <3>0, StretchIs
    <3>3. Sent(accepted)' = a + n /\ Held' = b
      <4>1. Sent(accepted)' = a + n
        BY <1>2, <1>4, <1>5, <3>2 DEF Sent, Written
      <4>2. Held' = Sent(accepted)' + (b - (a + n))
        BY <1>2, <2>2, <2>5 DEF Held
      <4> QED BY <1>4, <4>1, <4>2
    <3>4. OutStream(accepted)'
      <4>1. conn[accepted].sent \in Nat /\ a + n <= conn[accepted].sent
        BY <1>3, <1>4, ConnectionIs
      <4>2. conn[accepted].fd
        BY <1>3, ConnIs DEF Outbound, OutStream
      <4> QED BY <1>2, <1>3, <1>5, <2>5, <3>3, <4>1, <4>2 DEF OutStream, Written
    <3>5. OutHeld'
      <4>1. OutHeld /\ Held = b
        BY <1>3 DEF Outbound, b
      <4> QED BY <1>2, <2>2, <2>5, <3>3, <4>1 DEF OutHeld
    <3> QED BY <1>2, <3>1, <3>4, <3>5 DEF Outbound
  <2>14. Inbound'
    BY <1>2, <1>5, <2>1, <2>6, InboundKept DEF Written
  <2> QED BY <2>7, <2>8, <2>9, <2>10, <2>11, <2>12, <2>13, <2>14
<1> QED BY <1>6, <1>7

LEMMA ReportErrorStep == ASSUME Kept, IInv, ReportError PROVE IInv'
<1> USE DEF IInv, Lives
<1>1. /\ pc = "report" /\ ctx.valid /\ err' = FALSE /\ pc' = "loop"
      /\ mail' = Append(mail, Packle("ERROR", ctx.of, NoCor, <<>>))
      /\ UNCHANGED <<accepted, open, peer, ctx, pipe, batch, conns, conn, co, run, forkQ>>
  BY DEF ReportError, Push, kernelVars, serviceVars
<1> DEFINE p == Packle("ERROR", ctx.of, NoCor, <<>>)
<1>2. /\ Begun /\ accepted \in Conns /\ ctx.of = accepted /\ accepted > 0 /\ ~Fresh
      /\ peer[ctx.of].eof = "reset" /\ ctx.type # "PACCEPT"
  BY <1>1, ConnIs DEF Thread, Begun, Fresh, Resets, IsReset
<1>3. p \in Packles /\ p.kind = "ERROR" /\ p.conn = ctx.of /\ p.data = <<>>
  BY <1>2, PackleIs
<1> HIDE DEF p, Kept
<1>4. /\ ~Fresh' /\ Begun' = Begun /\ Known' = Known /\ IsReset' = IsReset
  BY <1>1, <1>2 DEF Fresh, Begun, Known, IsReset
<1>5. mail' = Append(mail, p)
  BY <1>1 DEF p
<1>6. Types'
  <2>1. mail' \in Seq(Packles)
    BY <1>3, <1>5, Pushed
  <2> QED BY <1>1, <2>1 DEF Types
<1>7. Later' /\ Earlier' /\ Context' /\ Thread' /\ Pipe' /\ Coroutines'
  BY <1>1, <1>2, <1>4 DEF Later, Earlier, Context, Thread, Pipe, Coroutines, Untouched
<1>8. Mail'
  BY <1>1, <1>2, <1>3, <1>4, <1>5, Pushed DEF Mail
<1>9. Resets' /\ Reading'
  BY <1>1, <1>4 DEF Resets, Reading, Readable, ReadingIsOver
<1>10. Outbound'
  BY <1>1, OutboundKept
<1>11. Inbound'
  <2>1. \E x \in Packles : mail' = Append(mail, x) /\ x.kind # "DATA"
    BY <1>3, <1>5
  <2> QED BY <1>1, <1>4, <2>1, InboundKept
<1> QED BY <1>6, <1>7, <1>8, <1>9, <1>10, <1>11

-----------------------------------------------------------------------------
(* The socket thread takes a command.                                      *)

LEMMA PipeTail ==
    ASSUME Types, pipe # <<>>, pipe' = Tail(pipe)
    PROVE  \E l \in Nat :
             /\ Len(pipe) = l + 1 /\ Len(pipe') = l /\ Head(pipe) = pipe[1] /\ 1 \in DOMAIN pipe
             /\ DOMAIN pipe' = 1..l /\ DOMAIN pipe = 1..(l + 1) /\ pipe' \in Seq(Commands)
             /\ \A i \in 1..l : i + 1 \in DOMAIN pipe /\ pipe'[i] = pipe[i + 1]
             /\ pipe' = <<>> <=> l = 0
<1>1. pipe \in Seq(Commands)
  BY DEF Types
<1>2. PICK n \in Nat : n = Len(pipe) /\ n > 0 /\ DOMAIN pipe = 1..n
  BY <1>1, SeqIs
<1>3. /\ Head(pipe) = pipe[1] /\ pipe' \in Seq(Commands) /\ Len(pipe') = Len(pipe) - 1
      /\ DOMAIN pipe' = 1..(Len(pipe) - 1)
      /\ \A i \in 1..(Len(pipe) - 1) : pipe'[i] = pipe[i + 1]
  BY <1>1, TailIs
<1>4. PICK l \in Nat : n = l + 1 /\ l = n - 1
  BY <1>2
<1>5. /\ Len(pipe') = l /\ DOMAIN pipe' = 1..l /\ \A i \in 1..l : pipe'[i] = pipe[i + 1]
      /\ Len(pipe) = l + 1 /\ DOMAIN pipe = 1..(l + 1)
  BY <1>2, <1>3, <1>4
<1>6. pipe' = <<>> <=> Len(pipe') = 0
  BY <1>3, SeqIs
<1>7. 1 \in 1..(l + 1) /\ \A i \in 1..l : i + 1 \in 1..(l + 1)
  BY <1>4
<1> QED BY <1>3, <1>5, <1>6, <1>7

LEMMA CommandIs ==
    ASSUME IInv, NEW cmd \in {"S", "D", "C"}, TakeCommand(cmd)
    PROVE  /\ pc = "pipe" /\ pipe # <<>> /\ pipe' = Tail(pipe) /\ pipe[1].cmd = cmd
           /\ Head(pipe) = pipe[1] /\ 1 \in DOMAIN pipe
           /\ UNCHANGED <<accepted, pc, batch, err, conns, conn, co, run, forkQ>>
           /\ ctx.valid /\ Begun /\ ~Fresh /\ accepted \in Conns /\ ctx.of = accepted
           /\ accepted > 0 /\ open \in {NoConn, accepted} /\ ctx \in Contexts
           /\ (ctx.watch # {} => open # NoConn)
           /\ ~err /\ ctx.closer = NoCor
<1>1. /\ pc = "pipe" /\ pipe # <<>> /\ pipe' = Tail(pipe) /\ Head(pipe).cmd = cmd
      /\ UNCHANGED <<accepted, pc, batch, err, conns, conn, co, run, forkQ>> /\ ctx.valid
  BY DEF TakeCommand, threadVars, serviceVars
<1>2. Head(pipe) = pipe[1] /\ 1 \in DOMAIN pipe
  BY <1>1, PipeTail DEF IInv
<1>3. /\ Begun /\ ~Fresh /\ accepted \in Conns /\ ctx.of = accepted /\ accepted > 0
      /\ open \in {NoConn, accepted} /\ ctx \in Contexts
      /\ (ctx.watch # {} => open # NoConn) /\ ctx.closer = NoCor
  BY <1>1, ConnIs DEF IInv, Lives, Context, Begun, Fresh, Types
<1>4. ~err
  BY <1>1 DEF IInv, Lives, Thread
<1> QED BY <1>1, <1>2, <1>3, <1>4

LEMMA HandleStartStep == ASSUME Kept, IInv, HandleStart PROVE IInv'
<1> USE DEF IInv, Lives
<1>1. TakeCommand("S")
  BY DEF HandleStart
<1>2. /\ pc = "pipe" /\ pipe # <<>> /\ pipe' = Tail(pipe) /\ pipe[1].cmd = "S"
      /\ Head(pipe) = pipe[1] /\ 1 \in DOMAIN pipe
      /\ UNCHANGED <<accepted, pc, batch, err, conns, conn, co, run, forkQ>>
      /\ ctx.valid /\ Begun /\ ~Fresh /\ accepted \in Conns /\ ctx.of = accepted
      /\ accepted > 0 /\ open \in {NoConn, accepted} /\ ctx \in Contexts
      /\ (ctx.watch # {} => open # NoConn)
      /\ ~err /\ ctx.closer = NoCor
  BY <1>1, CommandIs
<1>3. /\ ctx.type = "PACCEPT" /\ open' = open /\ peer' = peer
      /\ ctx' = Changed(ctx, ctx.events \cup {"in"}, "ACCEPT")
      /\ mail' = Append(mail, Packle("READY", ctx.of, Head(pipe).cor, <<>>))
  BY DEF HandleStart, Changed, Push
<1>4. Len(pipe) = 1 /\ pipe[1].cor = Cb(accepted) /\ co[Cb(accepted)] = "start"
  BY <1>2 DEF Pipe
<1>5. pipe' = <<>>
  <2>1. PICK l \in Nat : Len(pipe) = l + 1 /\ (pipe' = <<>> <=> l = 0)
    BY <1>2, PipeTail
  <2> QED BY <1>4, <2>1
<1> DEFINE p == Packle("READY", ctx.of, Cb(accepted), <<>>)
<1>6. p \in Packles /\ p.kind = "READY" /\ p.conn = ctx.of /\ p.cor = Cb(accepted) /\ p.data = <<>>
  <2>1. ctx.of \in Conns /\ Cb(accepted) \in Cors \cup {NoCor}
    BY <1>2, CorIs
  <2> QED BY <2>1, PackleIs
<1>7. mail' = Append(mail, p)
  BY <1>2, <1>3, <1>4
<1> HIDE DEF p, Kept
<1>8. Alike(ctx', ctx, "ACCEPT")
  <2>1. ctx.events \cup {"in"} \in SUBSET {"in", "out"} /\ "ACCEPT" \in SockTypes
    BY ContextIs DEF SockTypes
  <2> QED BY <1>2, <1>3, <2>1, ChangedIs
<1>9. /\ ctx' \in Contexts /\ ctx'.of = ctx.of /\ ctx'.valid = ctx.valid /\ ctx'.type = "ACCEPT"
      /\ ctx'.revents = ctx.revents /\ ctx'.wb = ctx.wb /\ ctx'.closing = ctx.closing
      /\ ctx'.closer = ctx.closer /\ (ctx'.watch # {} => open # NoConn)
  BY <1>8 DEF Alike
<1>10. /\ ~Fresh' /\ Begun' /\ Known' = Known /\ IsReset' = IsReset
  BY <1>2, <1>3, <1>9 DEF Fresh, Begun, Known, IsReset
<1>11. Types'
  <2>1. mail' \in Seq(Packles) /\ pipe' \in Seq(Commands)
    BY <1>5, <1>6, <1>7, Pushed, EmptySeq
  <2> QED BY <1>2, <1>3, <1>9, <2>1 DEF Types
<1>12. Later' /\ Earlier' /\ Context' /\ Thread' /\ Coroutines'
  BY <1>2, <1>3, <1>4, <1>9, <1>10 DEF Later, Earlier, Context, Thread, Coroutines, Untouched
<1>13. Pipe'
  <2>1. DOMAIN pipe' = {}
    BY <1>5
  <2> QED BY <2>1 DEF Pipe
<1>14. Mail'
  <2>1. \A i \in DOMAIN mail : mail[i].kind # "READY"
    BY <1>3 DEF Mail
  <2> QED BY <1>2, <1>3, <1>4, <1>6, <1>7, <1>9, <1>10, <2>1, Pushed DEF Mail
<1>15. Resets'
  BY <1>2, <1>3, <1>9, <1>10 DEF Resets
<1>16. Reading'
  BY <1>2, <1>3, <1>9, <1>10 DEF Reading, ReadingIsOver, Readable, Context
<1>17. Outbound'
  <2>1. ASSUME NEW c \in Conns PROVE OutStream(c)'
    BY <1>2, <1>3, <1>9, <1>10, <2>1 DEF Outbound, OutStream, Sent
  <2>2. OutHeld'
    <3>1. Sent(accepted)' = Sent(accepted) /\ Held' = Held
      BY <1>2, <1>3, <1>9 DEF Sent, Held
    <3>2. conn[accepted].sent = Held
      <4>1. PICK s \in Nat : s = Len(peer[accepted].out)
        BY <1>2, PeerIs
      <4>2. PICK w \in Nat : w = Len(ctx.wb)
        BY ContextIs
      <4>3. conn[accepted].sent = Held + (1 - 1) /\ Held = s + w
        BY <1>2, <1>4, <4>1, <4>2 DEF Outbound, OutHeld, Held, Sent
      <4> QED BY <4>3
    <3>3. Held = Held + 0
      <4>1. PICK s \in Nat : s = Len(peer[accepted].out)
        BY <1>2, PeerIs
      <4>2. PICK w \in Nat : w = Len(ctx.wb)
        BY ContextIs
      <4>3. Held = s + w
        BY <4>1, <4>2 DEF Held, Sent
      <4> QED BY <4>3
    <3>4. ctx.wb = Stretch(accepted, Sent(accepted), Held)
      BY <1>2 DEF Outbound, OutHeld
    <3>5. DOMAIN pipe' = {} /\ Len(pipe') = 0
      BY <1>5
    <3> QED BY <1>2, <1>5, <1>9, <3>1, <3>2, <3>3, <3>4, <3>5 DEF OutHeld
  <2> QED BY <1>2, <2>1, <2>2 DEF Outbound
<1>18. Inbound'
  <2>1. \E x \in Packles : mail' = Append(mail, x) /\ x.kind # "DATA"
    BY <1>6, <1>7
  <2> QED BY <1>2, <1>3, <1>10, <2>1, InboundKept
<1> QED BY <1>11, <1>12, <1>13, <1>14, <1>15, <1>16, <1>17, <1>18

LEMMA HeldIs ==
    ASSUME Types, accepted \in Conns
    PROVE  /\ Sent(accepted) \in Nat /\ Held \in Nat /\ Sent(accepted) <= Held
<1>1. PICK s \in Nat, w \in Nat : s = Len(peer[accepted].out) /\ w = Len(ctx.wb)
  BY PeerIs, ContextIs
<1>2. Sent(accepted) = s /\ Held = s + w
  BY <1>1 DEF Sent, Held
<1> QED BY <1>2

LEMMA HandleDataStep == ASSUME Kept, IInv, HandleData PROVE IInv'
<1> USE DEF IInv, Lives
<1>1. TakeCommand("D")
  BY DEF HandleData
<1>2. /\ pc = "pipe" /\ pipe # <<>> /\ pipe' = Tail(pipe) /\ pipe[1].cmd = "D"
      /\ Head(pipe) = pipe[1] /\ 1 \in DOMAIN pipe
      /\ UNCHANGED <<accepted, pc, batch, err, conns, conn, co, run, forkQ>>
      /\ ctx.valid /\ Begun /\ ~Fresh /\ accepted \in Conns /\ ctx.of = accepted
      /\ accepted > 0 /\ open \in {NoConn, accepted} /\ ctx \in Contexts
      /\ (ctx.watch # {} => open # NoConn)
      /\ ~err /\ ctx.closer = NoCor
  BY <1>1, CommandIs
<1>3. /\ open' = open /\ peer' = peer /\ mail' = mail
      /\ ctx' = AppendWB(ctx, Head(pipe).data)
  BY DEF HandleData
<1> DEFINE a == Sent(accepted)
           b == Held
<1>4. /\ a \in Nat /\ b \in Nat /\ a <= b /\ ctx.wb = Stretch(accepted, a, b)
      /\ Head(pipe).data = <<Piece(accepted, b + 1)>> /\ ctx.type # "PACCEPT"
  <2>1. /\ ctx.wb = Stretch(accepted, a, b) /\ ctx.type # "PACCEPT"
        /\ pipe[1].data = <<Piece(accepted, b + 1)>>
    BY <1>2 DEF Outbound, OutHeld, Pipe
  <2> QED BY <1>2, <2>1, HeldIs
<1>5. PICK l \in Nat :
             /\ Len(pipe) = l + 1 /\ Len(pipe') = l
             /\ DOMAIN pipe' = 1..l /\ DOMAIN pipe = 1..(l + 1) /\ pipe' \in Seq(Commands)
             /\ \A i \in 1..l : i + 1 \in DOMAIN pipe /\ pipe'[i] = pipe[i + 1]
             /\ pipe' = <<>> <=> l = 0
  BY <1>2, PipeTail
<1> HIDE DEF a, b, Kept
<1> DEFINE s == Stretch(accepted, a, b + 1)
           x == [ctx EXCEPT !.wb = s]
<1>6. s \in Seq(PieceSet) /\ Len(s) = (b + 1) - a /\ ctx.wb \o Head(pipe).data = s
  <2>1. accepted \in Conns /\ a \in Nat /\ b \in Nat /\ b + 1 \in Nat /\ a <= b /\ b <= b + 1 /\ a <= b + 1
    BY <1>2, <1>4
  <2>2. Stretch(accepted, a, b) \o Stretch(accepted, b, b + 1) = Stretch(accepted, a, b + 1)
    BY <2>1, StretchConcat
  <2>3. Stretch(accepted, b, b + 1) = <<Piece(accepted, b + 1)>>
    BY <2>1, StretchOne
  <2>4. s \in Seq(PieceSet) /\ Len(s) = (b + 1) - a
    BY <2>1, StretchIs
  <2> QED BY <1>4, <2>2, <2>3, <2>4
<1> HIDE DEF s
<1>7. /\ ctx' \in Contexts /\ ctx'.of = ctx.of /\ ctx'.valid = ctx.valid /\ ctx'.type = ctx.type
      /\ ctx'.revents = ctx.revents /\ ctx'.wb = s /\ ctx'.closing = ctx.closing
      /\ ctx'.closer = ctx.closer /\ (ctx'.watch # {} => open # NoConn)
  <2>1. /\ x \in Contexts /\ x.of = ctx.of /\ x.valid = ctx.valid /\ x.type = ctx.type
        /\ x.revents = ctx.revents /\ x.wb = s /\ x.closing = ctx.closing
        /\ x.closer = ctx.closer /\ x.watch = ctx.watch
    BY <1>2, <1>6 DEF Contexts
  <2>2. ctx' = x \/ ctx' = SetEvents(x, ctx.events \cup {"out"})
    BY <1>3, <1>6 DEF AppendWB
  <2> HIDE DEF x
  <2>3. ctx.events \cup {"out"} \in SUBSET {"in", "out"}
    BY ContextIs
  <2>4. Alike(SetEvents(x, ctx.events \cup {"out"}), x, x.type)
    <3>1. x \in Contexts /\ (x.watch # {} => open # NoConn) /\ x.type \in SockTypes
      BY <1>2, <2>1, ContextIs
    <3> QED BY <2>3, <3>1, ChangedIs
  <2> QED BY <1>2, <2>1, <2>2, <2>4 DEF Alike
<1>8. /\ ~Fresh' /\ Begun' /\ Known' = Known /\ IsReset' = IsReset
  BY <1>2, <1>3, <1>7 DEF Fresh, Begun, Known, IsReset
<1>9. Types'
  BY <1>2, <1>3, <1>5, <1>7 DEF Types
<1>10. Later' /\ Earlier' /\ Context' /\ Thread'
  BY <1>2, <1>3, <1>4, <1>7, <1>8 DEF Later, Earlier, Context, Thread, Untouched
<1>11. Pipe'
  <2> SUFFICES ASSUME NEW i \in DOMAIN pipe'
               PROVE  /\ ctx'.valid /\ pipe'[i].conn = accepted'
                      /\ pipe'[i].cmd = "S" => FALSE
                      /\ pipe'[i].cmd # "S" => ctx'.type # "PACCEPT"
                      /\ pipe'[i].cmd = "C" =>
                           /\ i = Len(pipe') /\ ctx'.closing
                           /\ pipe'[i].cor \in {Cb(accepted'), Err(accepted')}
                           /\ co'[pipe'[i].cor] = "close"
    BY DEF Pipe
  <2>1. i \in 1..l /\ i + 1 \in DOMAIN pipe /\ pipe'[i] = pipe[i + 1]
    BY <1>5
  <2>2. pipe'[i].cmd = "C" => i = Len(pipe')
    BY <1>5, <2>1 DEF Pipe
  <2>3. pipe'[i].cmd # "S"
    <3>1. pipe[i + 1].cmd = "S" => l + 1 = 1
      BY <1>5, <2>1 DEF Pipe
    <3> QED BY <1>5, <2>1, <3>1
  <2>4. pipe[i + 1].conn = accepted /\ ctx'.valid /\ accepted' = accepted /\ ctx'.type # "PACCEPT"
    BY <1>2, <1>4, <1>7, <2>1 DEF Pipe
  <2>5. pipe[i + 1].cmd = "C" =>
          /\ ctx.closing /\ pipe[i + 1].cor \in {Cb(accepted), Err(accepted)}
          /\ co[pipe[i + 1].cor] = "close"
    BY <2>1 DEF Pipe
  <2> QED BY <1>2, <1>7, <2>1, <2>2, <2>3, <2>4, <2>5
<1>12. Mail' /\ Resets' /\ Reading'
  BY <1>2, <1>3, <1>4, <1>7, <1>8 DEF Mail, Resets, Reading, Readable, ReadingIsOver
<1>13. Coroutines'
  BY <1>2, <1>3, <1>4, <1>7, <1>8 DEF Coroutines
<1>14. Outbound'
  <2>1. ASSUME NEW c \in Conns PROVE OutStream(c)'
    BY <1>2, <1>3, <1>7, <1>8, <2>1 DEF Outbound, OutStream, Sent
  <2>2. Sent(accepted)' = a /\ Held' = b + 1
    <3>1. Sent(accepted)' = a
      BY <1>2, <1>3 DEF Sent, a
    <3>2. Held' = Sent(accepted)' + ((b + 1) - a)
      BY <1>2, <1>6, <1>7 DEF Held
    <3> QED BY <1>4, <3>1, <3>2
  <2>3. OutHeld /\ Held = b
    BY <1>2 DEF Outbound, b
  <2>4. ASSUME NEW i \in DOMAIN pipe', pipe'[i].cmd = "D"
        PROVE  pipe'[i].data = <<Piece(accepted, (b + 1) + i)>>
    <3>1. i \in 1..l /\ i + 1 \in DOMAIN pipe /\ pipe'[i] = pipe[i + 1]
      BY <1>5
    <3>2. pipe[i + 1].data = <<Piece(accepted, b + (i + 1))>>
      BY <2>3, <2>4, <3>1 DEF OutHeld
    <3>3. b + (i + 1) = (b + 1) + i
      BY <1>4, <3>1
    <3> QED BY <3>1, <3>2, <3>3
  <2>5. conn[accepted].sent = (b + 1) + (IF pipe' # <<>> /\ pipe'[Len(pipe')].cmd # "D"
                                         THEN Len(pipe') - 1 ELSE Len(pipe'))
    <3>1. conn[accepted].sent = b + (IF pipe[l + 1].cmd # "D" THEN (l + 1) - 1 ELSE l + 1)
      BY <1>2, <1>5, <2>3 DEF OutHeld
    <3>2. CASE l = 0
      <4>1. pipe[l + 1].cmd = "D" /\ pipe' = <<>> /\ Len(pipe') = 0
        BY <1>2, <1>5, <3>2
      <4> QED BY <1>4, <3>1, <3>2, <4>1
    <3>3. CASE l # 0
      <4>1. pipe' # <<>> /\ Len(pipe') = l /\ pipe'[l] = pipe[l + 1]
        BY <1>5, <3>3
      <4> QED BY <1>4, <3>1, <4>1
    <3> QED BY <3>2, <3>3
  <2>6. OutHeld'
    BY <1>2, <1>7, <2>2, <2>4, <2>5 DEF OutHeld, s
  <2> QED BY <1>2, <2>1, <2>6 DEF Outbound
<1>15. Inbound'
  BY <1>2, <1>3, <1>8, InboundKept
<1> QED BY <1>9, <1>10, <1>11, <1>12, <1>13, <1>14, <1>15

LEMMA HandleCloseStep == ASSUME Kept, IInv, HandleClose PROVE IInv'
<1> USE DEF IInv, Lives
<1>1. TakeCommand("C")
  BY DEF HandleClose
<1>2. /\ pc = "pipe" /\ pipe # <<>> /\ pipe' = Tail(pipe) /\ pipe[1].cmd = "C"
      /\ Head(pipe) = pipe[1] /\ 1 \in DOMAIN pipe
      /\ UNCHANGED <<accepted, pc, batch, err, conns, conn, co, run, forkQ>>
      /\ ctx.valid /\ Begun /\ ~Fresh /\ accepted \in Conns /\ ctx.of = accepted
      /\ accepted > 0 /\ open \in {NoConn, accepted} /\ ctx \in Contexts
      /\ (ctx.watch # {} => open # NoConn)
      /\ ~err /\ ctx.closer = NoCor
  BY <1>1, CommandIs
<1> DEFINE k == Head(pipe).cor
           a == Sent(accepted)
           b == Held
<1>3. /\ k \in {Cb(accepted), Err(accepted)} /\ co[k] = "close" /\ Len(pipe) = 1
      /\ ctx.closing /\ ctx.type # "PACCEPT" /\ ctx.type # "NEW" /\ conns = NoConn
  BY <1>2 DEF Pipe, Context
<1>4. pipe' = <<>>
  <2>1. PICK l \in Nat : Len(pipe) = l + 1 /\ (pipe' = <<>> <=> l = 0)
    BY <1>2, PipeTail
  <2> QED BY <1>3, <2>1
<1>5. /\ a \in Nat /\ b \in Nat /\ a <= b /\ ctx.wb = Stretch(accepted, a, b)
      /\ conn[accepted].sent = b /\ peer[accepted].out = Stretch(accepted, 0, a)
  <2>1. /\ ctx.wb = Stretch(accepted, a, b) /\ peer[accepted].out = Stretch(accepted, 0, a)
    BY <1>2 DEF Outbound, OutHeld, OutStream
  <2>2. conn[accepted].sent = b + (1 - 1)
    BY <1>2, <1>3 DEF Outbound, OutHeld
  <2>3. a \in Nat /\ b \in Nat /\ a <= b
    BY <1>2, HeldIs
  <2> HIDE DEF a, b
  <2> QED BY <2>1, <2>2, <2>3
<1> HIDE DEF a, b, Kept
<1>6. /\ k \in Cors \cup {NoCor} /\ k # NoCor
  BY <1>2, <1>3, CorIs
<1> DEFINE p == Packle("CLOSED", ctx.of, k, <<>>)
<1>7. p \in Packles /\ p.kind = "CLOSED" /\ p.conn = ctx.of /\ p.cor = k /\ p.data = <<>>
  <2>1. ctx.of \in Conns
    BY <1>2
  <2> HIDE DEF k
  <2> QED BY <1>6, <2>1, PackleIs
<1> DEFINE t == IF ReadingIsOver THEN ctx.type ELSE NoMoreReads(ctx)
           x == Changed(ctx, ctx.events \ {"in"}, t)
           y == Changed(x, {}, "CLOSE")
<1>8. /\ t \in SockTypes /\ t \in {"HALFCLOSE_READ", "CLOSE"}
      /\ t = "CLOSE" => ctx.type \in {"HALFCLOSE_WRITE", "CLOSE"}
  BY DEF ReadingIsOver, NoMoreReads, SockTypes
<1> HIDE DEF t
<1>9. Alike(x, ctx, t)
  <2>1. ctx.events \ {"in"} \in SUBSET {"in", "out"}
    BY ContextIs
  <2> QED BY <1>2, <1>8, <2>1, ChangedIs
<1>10. IF ctx.type = "CLOSE" THEN SendClosedPackle(ctx, k) /\ peer' = peer
       ELSE /\ peer' = IF open = NoConn THEN peer ELSE [peer EXCEPT ![open].shut = TRUE]
            /\ IF ctx.wb = <<>> THEN SendClosedPackle(y, k)
               ELSE /\ ctx' = [AppendWB(x, <<>>) EXCEPT !.closer = k]
                    /\ open' = open /\ mail' = mail
  <2>1. x = [SetEvents(ctx, ctx.events \ {"in"}) EXCEPT
                !.type = IF ReadingIsOver THEN @ ELSE NoMoreReads(ctx)]
    <3>1. SetEvents(ctx, ctx.events \ {"in"}).type = ctx.type
      BY <1>2 DEF SetEvents, Contexts
    <3> QED BY <3>1 DEF Changed, t
  <2> HIDE DEF x, k
  <2> QED BY <2>1 DEF HandleClose, Changed, k
<1> HIDE DEF x, k, p, y
<1>11. /\ Written(a) /\ \A c \in Conns : peer'[c].shut => peer[c].shut \/ c = accepted
  <2>1. peer \in [Conns -> Streams] /\ peer[accepted] \in Streams
    BY <1>2 DEF Types
  <2>2. CASE peer' = peer
    BY <1>5, <2>1, <2>2 DEF Written
  <2>3. CASE peer' = [peer EXCEPT ![accepted].shut = TRUE]
    <3> DEFINE q == [peer[accepted] EXCEPT !.shut = TRUE]
    <3>1. /\ q \in Streams /\ q.in = peer[accepted].in /\ q.sent = peer[accepted].sent
          /\ q.eof = peer[accepted].eof /\ q.out = peer[accepted].out /\ q.shut
      BY <2>1 DEF Streams
    <3>2. peer' = [peer EXCEPT ![accepted] = q]
      BY <2>3
    <3> HIDE DEF q
    <3> QED BY <1>2, <1>5, <2>1, <3>1, <3>2 DEF Written
  <2> QED BY <1>2, <1>10, <2>2, <2>3
<1>12. ASSUME NEW z, SendClosedPackle(z, k), Alike(z, ctx, "CLOSE"), IsReset \/ a = b
       PROVE  IInv'
  <2>1. /\ ctx' = [z EXCEPT !.valid = FALSE, !.wb = <<>>, !.watch = {}]
        /\ open' = NoConn /\ mail' = Append(mail, p)
    BY <1>12 DEF SendClosedPackle, Push, p, Alike
  <2>2. /\ ctx' \in Contexts /\ ctx'.of = ctx.of /\ ctx'.valid = FALSE /\ ctx'.closing
        /\ ctx'.type = "CLOSE" /\ ctx'.revents = ctx.revents /\ ctx'.watch = {}
    BY <1>3, <1>12, <2>1, EmptySeq DEF Alike, Contexts
  <2>3. a <= conn[accepted].sent /\ (IsReset \/ a = conn[accepted].sent)
    BY <1>5, <1>12
  <2>4. err' \in BOOLEAN /\ ~err' /\ pc' = "pipe"
    BY <1>2 DEF Types
  <2> QED BY <1>2, <1>3, <1>4, <1>5, <1>7, <1>11, <2>1, <2>2, <2>3, <2>4, GivesUp
<1>13. CASE ctx.type = "CLOSE"
  <2>1. SendClosedPackle(ctx, k) /\ Alike(ctx, ctx, "CLOSE") /\ IsReset
    BY <1>2, <1>10, <1>13 DEF Alike, Resets
  <2> QED BY <1>12, <2>1
<1>14. CASE ctx.type # "CLOSE" /\ ctx.wb = <<>>
  <2>1. SendClosedPackle(y, k)
    BY <1>10, <1>14
  <2>2. Alike(y, ctx, "CLOSE")
    <3>1. x \in Contexts /\ (x.watch # {} => open # NoConn) /\ "CLOSE" \in SockTypes
      BY <1>9 DEF Alike, SockTypes
    <3>2. {} \in SUBSET {"in", "out"}
      OBVIOUS
    <3>3. Alike(y, x, "CLOSE")
      BY <3>1, <3>2, ChangedIs DEF y
    <3> QED BY <1>9, <3>3 DEF Alike
  <2>3. a = b
    <3>1. accepted \in Conns /\ a \in Nat /\ b \in Nat /\ a <= b
      BY <1>2, <1>5
    <3>2. Len(Stretch(accepted, a, b)) = b - a /\ Stretch(accepted, a, b) \in Seq(PieceSet)
      BY <3>1, StretchIs
    <3>3. b - a = 0
      BY <1>5, <1>14, <3>2, SeqIs
    <3> QED BY <3>1, <3>3
  <2> QED BY <1>12, <2>1, <2>2, <2>3
<1>15. CASE ctx.type # "CLOSE" /\ ctx.wb # <<>>
  <2>1. /\ ctx' = [AppendWB(x, <<>>) EXCEPT !.closer = k] /\ open' = open /\ mail' = mail
    BY <1>10, <1>15
  <2>2. /\ ctx' \in Contexts /\ ctx'.of = ctx.of /\ ctx'.valid = ctx.valid /\ ctx'.type = t
        /\ ctx'.revents = ctx.revents /\ ctx'.wb = ctx.wb /\ ctx'.closing = ctx.closing
        /\ ctx'.closer = k /\ (ctx'.watch # {} => open # NoConn)
    <3> DEFINE u == [x EXCEPT !.wb = @ \o <<>>]
               v == AppendWB(x, <<>>)
    <3>1. /\ x \in Contexts /\ x.wb = ctx.wb /\ x.wb \in Seq(PieceSet)
          /\ x.events \in SUBSET {"in", "out"} /\ x.type = t
      BY <1>9 DEF Alike, Contexts
    <3>2. x.wb \o <<>> = x.wb
      BY <3>1, ConcatEmptySeq
    <3>3. u = x
      BY <3>1, <3>2 DEF Contexts
    <3>4. v = x \/ v = SetEvents(x, x.events \cup {"out"})
      BY <3>3 DEF AppendWB
    <3>5. Alike(SetEvents(x, x.events \cup {"out"}), x, t)
      <4>1. x.events \cup {"out"} \in SUBSET {"in", "out"}
        BY <3>1
      <4>2. x \in Contexts /\ (x.watch # {} => open # NoConn) /\ t \in SockTypes /\ x.type = t
        BY <1>8, <1>9 DEF Alike
      <4> QED BY <4>1, <4>2, ChangedIs
    <3>6. Alike(v, ctx, t)
      <4> HIDE DEF v
      <4> QED BY <1>9, <3>4, <3>5 DEF Alike
    <3> HIDE DEF v
    <3>7. ctx' = [v EXCEPT !.closer = k]
      BY <2>1 DEF v
    <3> QED BY <1>6, <3>6, <3>7 DEF Alike, Contexts
  <2>3. /\ ~Fresh' /\ Begun' /\ ~Known /\ ~Known' /\ IsReset' = IsReset
        /\ (t = "CLOSE" => IsReset)
    BY <1>2, <1>3, <1>8, <1>11, <2>2 DEF Fresh, Begun, Known, IsReset, Written, NoConn, Resets
  <2>4. Types'
    <3>1. pipe' \in Seq(Commands)
      BY <1>4, EmptySeq
    <3> QED BY <1>2, <1>11, <2>1, <2>2, <3>1 DEF Types, Written
  <2>5. Later' /\ Earlier'
    BY <1>2, <1>11, <2>1, <2>3, ConnIs DEF Later, Earlier, Untouched, Written
  <2>6. Context' /\ Thread'
    BY <1>2, <1>3, <1>4, <1>8, <2>1, <2>2, <2>3 DEF Context, Thread
  <2>7. Pipe'
    <3>1. DOMAIN pipe' = {}
      BY <1>4
    <3> QED BY <3>1 DEF Pipe
  <2>8. Mail' /\ Coroutines'
    BY <1>2, <1>3, <1>4, <1>8, <1>11, <2>1, <2>2, <2>3 DEF Mail, Coroutines, Written
  <2>9. Resets'
    BY <1>2, <1>3, <1>8, <1>11, <2>1, <2>2, <2>3 DEF Resets, Written
  <2>10. Reading'
    BY <1>2, <1>11, <2>1, <2>2, <2>3 DEF Reading, Readable, Written
  <2>11. Outbound'
    <3>1. ASSUME NEW c \in Conns PROVE OutStream(c)'
      BY <1>2, <1>5, <1>11, <2>2, <2>3, <3>1 DEF Outbound, OutStream, Sent, Written, a
    <3>2. Sent(accepted)' = a /\ Held' = b
      BY <1>2, <1>5, <1>11, <2>2 DEF Sent, Held, Written, a, b
    <3>3. DOMAIN pipe' = {} /\ Len(pipe') = 0
      BY <1>4
    <3>4. conn[accepted].sent = b + 0
      BY <1>5
    <3>5. OutHeld'
      BY <1>2, <1>4, <1>5, <2>2, <3>2, <3>3, <3>4 DEF OutHeld
    <3> QED BY <1>2, <3>1, <3>5 DEF Outbound
  <2>12. Inbound'
    BY <1>2, <1>11, <2>1, <2>3, InboundKept DEF Written
  <2> QED BY <2>4, <2>5, <2>6, <2>7, <2>8, <2>9, <2>10, <2>11, <2>12
<1> QED BY <1>13, <1>14, <1>15

-----------------------------------------------------------------------------
(* The service dispatches a packle.                                        *)

LEMMA MailTail ==
    ASSUME Types, mail # <<>>, mail' = Tail(mail)
    PROVE  \E l \in Nat :
             /\ Len(mail) = l + 1 /\ Len(mail') = l /\ Head(mail) = mail[1] /\ 1 \in DOMAIN mail
             /\ DOMAIN mail' = 1..l /\ DOMAIN mail = 1..(l + 1) /\ mail' \in Seq(Packles)
             /\ \A i \in 1..l : i + 1 \in DOMAIN mail /\ mail'[i] = mail[i + 1]
<1>1. mail \in Seq(Packles)
  BY DEF Types
<1>2. PICK n \in Nat : n = Len(mail) /\ n > 0 /\ DOMAIN mail = 1..n
  BY <1>1, SeqIs
<1>3. /\ Head(mail) = mail[1] /\ mail' \in Seq(Packles) /\ Len(mail') = Len(mail) - 1
      /\ DOMAIN mail' = 1..(Len(mail) - 1)
      /\ \A i \in 1..(Len(mail) - 1) : mail'[i] = mail[i + 1]
  BY <1>1, TailIs
<1>4. PICK l \in Nat : n = l + 1 /\ l = n - 1
  BY <1>2
<1>5. /\ Len(mail') = l /\ DOMAIN mail' = 1..l /\ \A i \in 1..l : mail'[i] = mail[i + 1]
      /\ Len(mail) = l + 1 /\ DOMAIN mail = 1..(l + 1)
  BY <1>2, <1>3, <1>4
<1>6. 1 \in 1..(l + 1) /\ \A i \in 1..l : i + 1 \in 1..(l + 1)
  BY <1>4
<1> QED BY <1>3, <1>5, <1>6

\* Every dispatched packle leaves the others as they are.
LEMMA DispatchIs ==
    ASSUME IInv, NEW kind \in {"NEWCONN", "READY", "DATA", "CLOSEREAD", "ERROR", "CLOSED"},
           Dispatch(kind)
    PROVE  /\ run = NoCor /\ mail # <<>> /\ mail' = Tail(mail)
           /\ Head(mail) = mail[1] /\ 1 \in DOMAIN mail /\ mail[1].kind = kind
           /\ mail' \in Seq(Packles)
           /\ UNCHANGED <<accepted, open, peer, pc, batch, err>>
           /\ accepted \in Nat /\ ctx \in Contexts
           /\ conns # NoConn =>
                /\ accepted \in Conns /\ accepted > 0 /\ conns = accepted /\ Begun /\ Known
                /\ ~Fresh /\ ctx.of = accepted /\ ctx.valid /\ ~ctx.closing /\ ctx.closer = NoCor
<1>1. /\ run = NoCor /\ mail # <<>> /\ mail' = Tail(mail) /\ Head(mail).kind = kind
      /\ UNCHANGED <<accepted, open, peer, pc, batch, err>>
  BY DEF Dispatch, kernelVars, threadVars
<1>2. Head(mail) = mail[1] /\ 1 \in DOMAIN mail /\ mail' \in Seq(Packles)
  BY <1>1, MailTail DEF IInv
<1>3. accepted \in Nat /\ ctx \in Contexts
  BY ConnIs DEF IInv, Types
<1>4. conns # NoConn =>
        /\ accepted \in Conns /\ accepted > 0 /\ conns = accepted /\ Begun /\ Known
        /\ ~Fresh /\ ctx.of = accepted /\ ctx.valid /\ ~ctx.closing /\ ctx.closer = NoCor
  BY ConnIs DEF IInv, Lives, Types, Context, Begun, Fresh, Known
<1> QED BY <1>1, <1>2, <1>3, <1>4

LEMMA MailTailKept ==
    ASSUME Types, Mail, mail # <<>>, mail' = Tail(mail), accepted' = accepted,
           ctx'.of = ctx.of, ctx'.valid = ctx.valid, ctx'.type = ctx.type, peer' = peer,
           \A i \in DOMAIN mail : i # 1 /\ mail[i].kind \in {"READY", "CLOSED"} =>
              co'[mail[i].cor] = co[mail[i].cor]
    PROVE  Mail'
<1>1. PICK l \in Nat :
        /\ Len(mail) = l + 1 /\ Len(mail') = l
        /\ DOMAIN mail' = 1..l /\ DOMAIN mail = 1..(l + 1)
        /\ \A i \in 1..l : i + 1 \in DOMAIN mail /\ mail'[i] = mail[i + 1]
  BY MailTail
<1>2. Fresh' = Fresh /\ Begun' = Begun
  BY DEF Fresh, Begun
<1>3. ASSUME NEW i \in DOMAIN mail'
      PROVE  /\ i + 1 \in DOMAIN mail /\ mail'[i] = mail[i + 1] /\ i + 1 # 1
             /\ i + 1 = Len(mail) => i = Len(mail')
  BY <1>1
<1>4. ASSUME NEW i \in DOMAIN mail', NEW j \in DOMAIN mail', i + 1 = j + 1 PROVE i = j
  BY <1>1, <1>4
<1>5. ASSUME NEW i \in DOMAIN mail'
      PROVE  /\ mail'[i].kind = "READY" => co'[Cb(accepted)] = co[Cb(accepted)]
             /\ mail'[i].kind = "CLOSED" => co'[mail'[i].cor] = co[mail'[i].cor]
  BY <1>3 DEF Mail
<1> QED BY <1>2, <1>3, <1>4, <1>5 DEF Mail

\* The head has no data.
LEMMA InMailTailKept ==
    ASSUME Types, InMail, mail # <<>>, mail' = Tail(mail), mail[1].kind # "DATA",
           accepted' = accepted,
           Here(accepted)' = Here(accepted), Read(accepted)' = Read(accepted)
    PROVE  InMail'
<1>1. PICK l \in Nat :
        /\ DOMAIN mail' = 1..l /\ DOMAIN mail = 1..(l + 1)
        /\ \A i \in 1..l : i + 1 \in DOMAIN mail /\ mail'[i] = mail[i + 1]
  BY MailTail
<1>2. ASSUME NEW i \in DOMAIN mail'
      PROVE  /\ i + 1 \in DOMAIN mail /\ mail'[i] = mail[i + 1] /\ HasData(i)' = HasData(i + 1)
             /\ Before(i)' = Before(i + 1) /\ Upto(i)' = Upto(i + 1)
  BY <1>1 DEF HasData, Before, Upto
<1>3. \A i \in DOMAIN mail' : HasData(i)' =>
          /\ mail'[i].data = Stretch(accepted', Before(i)', Upto(i)')
          /\ Here(accepted)' <= Before(i)' /\ Upto(i)' <= Read(accepted)'
  BY <1>2 DEF InMail
<1>4. \A i, j \in DOMAIN mail' :
        HasData(i)' /\ HasData(j)' /\ i < j => Upto(i)' <= Before(j)'
  <2> TAKE i, j \in DOMAIN mail'
  <2>1. i < j => i + 1 < j + 1
    BY <1>1
  <2> QED BY <1>2, <2>1 DEF InMail
<1>5. \A n \in (Here(accepted)' + 1)..Read(accepted)' :
        \E i \in DOMAIN mail' : HasData(i)' /\ Before(i)' < n /\ n <= Upto(i)'
  <2> TAKE n \in (Here(accepted)' + 1)..Read(accepted)'
  <2>1. PICK k \in DOMAIN mail : HasData(k) /\ Before(k) < n /\ n <= Upto(k)
    BY DEF InMail
  <2>2. k # 1
    BY <2>1 DEF HasData
  <2>3. PICK i \in 1..l : k = i + 1
    <3>1. k \in 1..(l + 1) /\ k - 1 \in 1..l /\ k = (k - 1) + 1
      BY <1>1, <2>2
    <3> QED BY <3>1
  <2> QED BY <1>1, <1>2, <2>1, <2>3
<1> QED BY <1>3, <1>4, <1>5 DEF InMail

LEMMA InboundTailKept ==
    ASSUME Types, Inbound, accepted' = accepted, Known' => Known, peer' = peer,
           \A c \in Conns : conn'[c].got = conn[c].got /\ conn'[c].buf = conn[c].buf,
           mail # <<>>, mail' = Tail(mail), mail[1].kind # "DATA"
    PROVE  Inbound'
<1>1. \A c \in Conns : Read(c)' = Read(c) /\ Here(c)' = Here(c) /\ Got(c)' = Got(c)
  BY DEF Read, Here, Got
<1>2. ASSUME Known' PROVE InMail'
  <2>1. accepted \in Conns /\ InMail
    BY <1>2, ConnIs DEF Inbound, Known
  <2>2. Here(accepted)' = Here(accepted) /\ Read(accepted)' = Read(accepted)
    BY <1>1, <2>1
  <2> QED BY <2>1, <2>2, InMailTailKept
<1> QED BY <1>1, <1>2 DEF Inbound, InStream

LEMMA HandleHalfCloseStep == ASSUME Kept, IInv, HandleHalfClose PROVE IInv'
<1> USE DEF IInv, Lives
<1>1. Dispatch("CLOSEREAD")
  BY DEF HandleHalfClose
<1>2. /\ run = NoCor /\ mail # <<>> /\ mail' = Tail(mail)
      /\ mail[1].kind = "CLOSEREAD" /\ mail' \in Seq(Packles)
      /\ UNCHANGED <<accepted, open, peer, pc, batch, err>>
  BY <1>1, DispatchIs
<1>3. /\ UNCHANGED <<ctx, pipe, conns, co, run, forkQ>>
      /\ conn' = IF conns = NoConn THEN conn ELSE [conn EXCEPT ![conns].closing = TRUE]
  BY DEF HandleHalfClose
<1>4. /\ conn' \in [Conns -> Connections]
      /\ \A c \in Conns :
           /\ conn'[c].got = conn[c].got /\ conn'[c].buf = conn[c].buf
           /\ conn'[c].readers = conn[c].readers /\ conn'[c].sent = conn[c].sent
           /\ conn'[c].fd = conn[c].fd
           /\ c # conns => conn'[c] = conn[c]
  <2>1. conn \in [Conns -> Connections]
    BY DEF Types
  <2>2. CASE conns = NoConn
    BY <1>3, <2>1, <2>2
  <2>3. CASE conns # NoConn
    <3> DEFINE q == [conn[conns] EXCEPT !.closing = TRUE]
    <3>1. conns \in Conns
      BY <1>1, <2>3, DispatchIs
    <3>2. /\ q \in Connections /\ q.got = conn[conns].got /\ q.buf = conn[conns].buf
          /\ q.readers = conn[conns].readers /\ q.sent = conn[conns].sent
          /\ q.fd = conn[conns].fd
      BY <2>1, <3>1 DEF Connections
    <3>3. conn' = [conn EXCEPT ![conns] = q]
      BY <1>3, <2>3
    <3> HIDE DEF q
    <3> QED BY <2>1, <3>1, <3>2, <3>3
  <2> QED BY <2>2, <2>3
<1> HIDE DEF Kept
<1>5. Types'
  BY <1>2, <1>3, <1>4 DEF Types
<1>6. /\ Fresh' = Fresh /\ Begun' = Begun /\ Known' = Known /\ IsReset' = IsReset
      /\ conns # NoConn => ~Fresh /\ conns = accepted
  BY <1>1, <1>2, <1>3, DispatchIs DEF Fresh, Begun, Known, IsReset
<1>7. Later'
  BY <1>2, <1>3, <1>4, <1>6, ConnIs DEF Later, Untouched
<1>8. Earlier' /\ Context' /\ Thread' /\ Pipe'
  BY <1>2, <1>3, <1>6 DEF Earlier, Context, Thread, Pipe
<1>9. Mail'
  BY <1>2, <1>3, MailTailKept
<1>10. Coroutines' /\ Resets' /\ Reading'
  BY <1>2, <1>3, <1>4, <1>6 DEF Coroutines, Resets, Reading, Readable, ReadingIsOver
<1>11. Outbound'
  <2>1. ASSUME NEW c \in Conns PROVE OutStream(c)'
    BY <1>2, <1>3, <1>4, <1>6, <2>1 DEF Outbound, OutStream, Sent
  <2>2. ctx'.valid => OutHeld'
    <3>1. ctx.valid => conn'[accepted].sent = conn[accepted].sent
      BY <1>4, ConnIs DEF Context, Begun
    <3> QED BY <1>2, <1>3, <3>1 DEF Outbound, OutHeld, Held, Sent
  <2> QED BY <2>1, <2>2 DEF Outbound
<1>12. Inbound'
  BY <1>2, <1>4, <1>6, InboundTailKept
<1> QED BY <1>5, <1>7, <1>8, <1>9, <1>10, <1>11, <1>12

LEMMA HandleNewConnStep == ASSUME Kept, IInv, HandleNewConn PROVE IInv'
<1> USE DEF IInv, Lives
<1>1. Dispatch("NEWCONN")
  BY DEF HandleNewConn
<1>2. /\ run = NoCor /\ mail # <<>> /\ mail' = Tail(mail)
      /\ Head(mail) = mail[1] /\ 1 \in DOMAIN mail /\ mail[1].kind = "NEWCONN"
      /\ mail' \in Seq(Packles) /\ UNCHANGED <<accepted, open, peer, pc, batch, err>>
  BY <1>1, DispatchIs
<1>3. /\ conns = NoConn /\ ~ctx.valid /\ conns' = Head(mail).conn
      /\ ctx' = Reset(conns') /\ run' = Cb(conns')
      /\ co' = [co EXCEPT ![Cb(conns')] = "begin"]
      /\ UNCHANGED <<pipe, conn, forkQ>>
  BY DEF HandleNewConn
<1>4. /\ Fresh /\ Len(mail) = 1 /\ mail[1].conn = accepted /\ accepted \in Conns
      /\ accepted > 0 /\ ctx.of # accepted
  BY <1>2, ConnIs DEF Mail, Fresh
<1>5. mail' = <<>> /\ DOMAIN mail' = {}
  <2>1. PICK l \in Nat : Len(mail) = l + 1 /\ Len(mail') = l /\ DOMAIN mail' = 1..l
    BY <1>2, MailTail
  <2>2. l = 0
    BY <1>4, <2>1
  <2> QED BY <1>2, <2>1, <2>2, SeqIs
<1>6. conns' = accepted /\ run' = Cb(accepted) /\ ctx' = Reset(accepted)
  BY <1>2, <1>3, <1>4
<1>7. pipe = <<>> /\ DOMAIN pipe = {} /\ ctx.watch = {} /\ forkQ = <<>>
      /\ open = accepted /\ Untouched(accepted)
  <2>1. pipe = <<>>
    <3>1. PICK n \in Nat : n = Len(pipe) /\ DOMAIN pipe = 1..n
      BY PipeIs
    <3>2. n # 0 => 1 \in DOMAIN pipe
      BY <3>1
    <3> QED BY <1>3, <3>1, <3>2, SeqIs DEF Pipe, Types
  <2>2. forkQ = <<>> /\ ctx.watch = {} /\ open = accepted /\ Untouched(accepted)
    BY <1>3, <1>4 DEF Coroutines, Begun, Context, Later
  <2> QED BY <2>1, <2>2
<1>8. /\ ctx' \in Contexts /\ ctx'.of = accepted /\ ctx'.valid /\ ctx'.type = "PACCEPT"
      /\ ctx'.revents = {} /\ ctx'.wb = <<>> /\ ~ctx'.closing /\ ctx'.closer = NoCor
      /\ ctx'.watch = {}
  <2>1. <<>> \in Seq(PieceSet)
    BY EmptySeq
  <2> QED BY <1>4, <1>6, <1>7, <2>1 DEF Reset, NewContext, Contexts, SockTypes
<1>9. /\ ~Fresh' /\ Begun' /\ Known' /\ IsReset' = IsReset
  BY <1>2, <1>4, <1>6, <1>8 DEF Fresh, Begun, Known, IsReset
<1>10. /\ co' \in [Cors -> {"none", "begin", "start", "run", "recv", "ready", "close",
                           "closed", "done"}]
       /\ co'[Cb(accepted)] = "begin" /\ run' \in Cors \cup {NoCor} /\ run' # NoCor
       /\ \A c \in Conns : c # accepted => co'[Cb(c)] = co[Cb(c)]
       /\ \A c \in Conns : co'[Err(c)] = co[Err(c)]
  BY <1>3, <1>4, <1>6, CorIs DEF Types
<1> HIDE DEF Kept
<1>11. Types'
  BY <1>2, <1>3, <1>6, <1>8, <1>10 DEF Types
<1>12. Later' /\ Earlier'
  BY <1>2, <1>3, <1>4, <1>9, <1>10, ConnIs DEF Later, Earlier, Untouched
<1>13. Context'
  <2>1. ctx'.of <= accepted' /\ accepted' = accepted
    BY <1>2, <1>8, ConnIs
  <2> QED BY <1>2, <1>3, <1>4, <1>7, <1>8, <1>9, <1>10, <2>1 DEF Context
<1>14. Thread' /\ Pipe' /\ Mail'
  <2>1. pc \in {"loop", "pipe"} /\ ~err
    BY <1>4 DEF Thread, Begun, Types
  <2>2. DOMAIN pipe' = {} /\ DOMAIN mail' = {}
    BY <1>3, <1>5, <1>7
  <2>3. Thread'
    BY <1>2, <2>1 DEF Thread
  <2> QED BY <2>2, <2>3 DEF Pipe, Mail
<1>15. Coroutines'
  <2>1. conn[accepted].readers = <<>>
    BY <1>7 DEF Untouched
  <2> QED BY <1>2, <1>3, <1>4, <1>6, <1>7, <1>8, <1>9, <1>10, <2>1 DEF Coroutines
<1>16. Resets'
  <2>1. pc \in {"loop", "pipe"} /\ ~err
    BY <1>4 DEF Thread, Begun, Types
  <2> QED BY <1>2, <1>4, <1>7, <1>8, <1>9, <1>10, <2>1, ConnIs DEF Resets
<1>17. Reading'
  <2>1. pc \in {"loop", "pipe"} /\ ~peer[accepted].shut
    BY <1>4, <1>7 DEF Thread, Begun, Types, Untouched
  <2> QED BY <1>2, <1>8, <2>1 DEF Reading, ReadingIsOver
<1>18. Outbound'
  <2>0. Sent(accepted) = 0 /\ conn[accepted].sent = 0 /\ conn[accepted].fd /\ peer[accepted].out = <<>>
    BY <1>7 DEF Untouched, Sent
  <2>1. ASSUME NEW c \in Conns PROVE OutStream(c)'
    BY <1>2, <1>3, <1>8, <1>9, <2>0, <2>1 DEF Outbound, OutStream, Sent
  <2>2. Sent(accepted)' = 0 /\ Held' = 0
    BY <1>2, <1>8, <2>0 DEF Held, Sent
  <2>3. Stretch(accepted, 0, 0) = <<>>
    BY <1>4, StretchEmpty
  <2>4. Len(pipe') = 0 /\ pipe' = <<>> /\ DOMAIN pipe' = {}
    BY <1>3, <1>7
  <2>5. OutHeld'
    BY <1>2, <1>3, <1>8, <2>0, <2>2, <2>3, <2>4 DEF OutHeld
  <2> QED BY <1>2, <2>1, <2>5 DEF Outbound
<1>19. Inbound'
  <2>1. ASSUME NEW c \in Conns PROVE InStream(c)' /\ Read(c)' = Read(c) /\ Here(c)' = Here(c)
    BY <1>2, <1>3, <2>1 DEF Inbound, InStream, Got, Here, Read
  <2>2. Read(accepted) = 0
    <3>1. PICK x \in Nat : x = peer[accepted].sent /\ Len(peer[accepted].in) = x
      BY <1>4, <1>7, PeerIs DEF Untouched
    <3>2. Read(accepted) = x - x
      BY <3>1 DEF Read
    <3> QED BY <3>2
  <2>3. Here(accepted) \in Nat
    BY <1>4, HereIs
  <2>4. (Here(accepted) + 1)..Read(accepted) = {}
    BY <2>2, <2>3
  <2>5. (Here(accepted)' + 1)..Read(accepted)' = {}
    BY <1>2, <1>4, <2>1, <2>4
  <2>6. InMail'
    BY <1>5, <2>5 DEF InMail
  <2> QED BY <2>1, <2>6 DEF Inbound
<1> QED BY <1>11, <1>12, <1>13, <1>14, <1>15, <1>16, <1>17, <1>18, <1>19

\* Connection::close by k, up to where it yields; the step takes the head of the
\* mailbox or leaves it.
LEMMA BeginCloseKept ==
    ASSUME IInv, Begun, ~ctx.closing, ctx.type # "PACCEPT", NEW k \in {Cb(accepted), Err(accepted)},
           BeginClose(k, accepted),
           k = Err(accepted) => IsReset,
           k = Cb(accepted) => run = k /\ co[k] = "run" /\ run' = NoCor,
           k = Err(accepted) => run' = run /\ run = NoCor,
           mail' = mail \/ (mail # <<>> /\ mail' = Tail(mail)),
           UNCHANGED <<accepted, open, peer, pc, batch, err, forkQ>>
    PROVE  IInv'
<1> USE DEF IInv, Lives
<1>1. /\ accepted \in Conns /\ accepted > 0
      /\ ~Fresh /\ ctx.of = accepted /\ ctx.valid /\ ~ctx.closing /\ ctx.closer = NoCor
      /\ ctx \in Contexts
  BY ConnIs DEF Types, Context, Begun, Fresh
<1> DEFINE m == Command("C", accepted, k, <<>>)
<1>2. /\ conn' = [conn EXCEPT ![accepted].closing = TRUE]
      /\ ctx' = [ctx EXCEPT !.closing = TRUE]
      /\ conns' = NoConn /\ pipe' = Append(pipe, m) /\ co' = [co EXCEPT ![k] = "close"]
  BY DEF BeginClose, SendCtrl
<1>3. /\ k \in Cors /\ k # NoCor /\ co \in [Cors -> {"none", "begin", "start", "run", "recv",
                                             "ready", "close", "closed", "done"}]
  BY <1>1, CorIs DEF Types
<1>4. m \in Commands /\ m.cmd = "C" /\ m.conn = accepted /\ m.cor = k
  BY <1>1, <1>3, EmptySeq DEF Command, Commands
<1> HIDE DEF m
<1>5. /\ co' \in [Cors -> {"none", "begin", "start", "run", "recv",
                         "ready", "close", "closed", "done"}]
      /\ co'[k] = "close" /\ \A x \in Cors : x # k => co'[x] = co[x]
      /\ co'[k] # co[k] => co[k] \in {"run", "none", "done"}
  BY <1>1, <1>2, <1>3 DEF Coroutines
<1>6. /\ ctx' \in Contexts /\ ctx'.of = ctx.of /\ ctx'.valid = ctx.valid /\ ctx'.type = ctx.type
      /\ ctx'.revents = ctx.revents /\ ctx'.wb = ctx.wb /\ ctx'.closing
      /\ ctx'.closer = NoCor /\ ctx'.watch = ctx.watch
  BY <1>1, <1>2 DEF Contexts
<1>7. /\ conn' \in [Conns -> Connections]
      /\ \A c \in Conns :
           /\ conn'[c].got = conn[c].got /\ conn'[c].buf = conn[c].buf
           /\ conn'[c].readers = conn[c].readers /\ conn'[c].sent = conn[c].sent
           /\ conn'[c].fd = conn[c].fd
           /\ c # accepted => conn'[c] = conn[c]
  <2> DEFINE q == [conn[accepted] EXCEPT !.closing = TRUE]
  <2>1. conn \in [Conns -> Connections]
    BY DEF Types
  <2>2. /\ q \in Connections /\ q.got = conn[accepted].got /\ q.buf = conn[accepted].buf
        /\ q.readers = conn[accepted].readers /\ q.sent = conn[accepted].sent
        /\ q.fd = conn[accepted].fd
    BY <1>1, <2>1 DEF Connections
  <2>3. conn' = [conn EXCEPT ![accepted] = q]
    BY <1>2
  <2> HIDE DEF q
  <2> QED BY <1>1, <2>1, <2>2, <2>3
<1>8. PICK l \in Nat :
        /\ Len(pipe) = l /\ Len(pipe') = l + 1 /\ DOMAIN pipe = 1..l /\ DOMAIN pipe' = 1..(l + 1)
        /\ pipe' \in Seq(Commands) /\ pipe'[l + 1] = m /\ pipe' # <<>>
        /\ \A i \in 1..l : pipe'[i] = pipe[i]
  <2>1. pipe \in Seq(Commands)
    BY DEF Types
  <2>2. /\ pipe' \in Seq(Commands) /\ Len(pipe') = Len(pipe) + 1
        /\ DOMAIN pipe' = 1..(Len(pipe) + 1) /\ pipe' # <<>>
        /\ \A i \in 1..Len(pipe) : pipe'[i] = pipe[i]
        /\ pipe'[Len(pipe) + 1] = m
    BY <1>2, <1>4, <2>1, AppendIs
  <2>3. PICK l \in Nat : l = Len(pipe) /\ DOMAIN pipe = 1..l
    BY PipeIs
  <2> QED BY <2>2, <2>3
<1>9. /\ \A i \in DOMAIN pipe : pipe[i].cmd = "D"
      /\ \A i \in DOMAIN mail : mail[i].kind \notin {"NEWCONN", "CLOSED"}
  <2>1. \A i \in DOMAIN pipe : pipe[i].cmd \notin {"S", "C"}
    BY <1>1 DEF Pipe
  <2> QED BY <1>1, <2>1, PipeIs DEF Mail
<1>10. /\ ~Fresh' /\ Begun' /\ ~Known' /\ IsReset' = IsReset
  BY <1>1, <1>2, <1>6 DEF Fresh, Begun, Known, IsReset, NoConn
<1>11. /\ \A c \in Conns : Cb(c) \in Cors /\ Err(c) \in Cors
       /\ \A c \in Conns : c # accepted => co'[Cb(c)] = co[Cb(c)] /\ co'[Err(c)] = co[Err(c)]
       /\ k = Cb(accepted) => co'[Err(accepted)] = co[Err(accepted)]
       /\ k = Err(accepted) => co'[Cb(accepted)] = co[Cb(accepted)]
  BY <1>1, <1>5, CorIs
<1>12. Types'
  <2>1. mail' \in Seq(Packles)
    <3>1. mail \in Seq(Packles)
      BY DEF Types
    <3> QED BY <3>1, TailIs
  <2>2. conns' \in {NoConn, accepted'} /\ run' \in Cors \cup {NoCor}
    BY <1>2, <1>3 DEF Types
  <2> QED BY <1>2, <1>5, <1>6, <1>7, <1>8, <2>1, <2>2 DEF Types
<1>13. Later' /\ Earlier'
  BY <1>1, <1>7, <1>10, <1>11, ConnIs DEF Later, Earlier, Untouched
<1>14. Context' /\ Thread'
  BY <1>1, <1>2, <1>6, <1>10 DEF Context, Thread
<1>15. Pipe'
  <2> SUFFICES ASSUME NEW i \in DOMAIN pipe'
               PROVE  /\ ctx'.valid /\ pipe'[i].conn = accepted' /\ pipe'[i].cmd # "S"
                      /\ ctx'.type # "PACCEPT"
                      /\ pipe'[i].cmd = "C" =>
                           /\ i = Len(pipe') /\ ctx'.closing
                           /\ pipe'[i].cor \in {Cb(accepted'), Err(accepted')}
                           /\ co'[pipe'[i].cor] = "close"
    BY DEF Pipe
  <2>1. CASE i = l + 1
    BY <1>1, <1>4, <1>5, <1>6, <1>8, <2>1
  <2>2. CASE i \in 1..l
    <3>1. pipe'[i] = pipe[i] /\ pipe[i].cmd = "D" /\ pipe[i].conn = accepted
      BY <1>8, <1>9, <2>2 DEF Pipe
    <3> QED BY <1>1, <1>6, <3>1
  <2> QED BY <1>8, <2>1, <2>2
<1>16. Mail'
  <2>1. \A i \in DOMAIN mail : mail[i].kind \in {"READY", "CLOSED"} =>
          mail[i].kind = "READY" /\ mail[i].cor = Cb(accepted) /\ co[Cb(accepted)] = "start"
    BY <1>9 DEF Mail
  <2>2. (\E i \in DOMAIN mail : mail[i].kind = "READY") => co'[Cb(accepted)] = "start"
    BY <1>1, <1>11, <2>1
  <2>3. CASE mail' = mail
    BY <1>1, <1>6, <1>9, <1>10, <2>2, <2>3 DEF Mail
  <2>4. CASE mail # <<>> /\ mail' = Tail(mail)
    <3>1. \A i \in DOMAIN mail : i # 1 /\ mail[i].kind \in {"READY", "CLOSED"} =>
              co'[mail[i].cor] = co[mail[i].cor]
      BY <2>1, <2>2
    <3> QED BY <1>6, <2>4, <3>1, MailTailKept
  <2> QED BY <2>3, <2>4
<1>17. Coroutines'
  <2>1. forkQ # <<>> => co[Cb(accepted)] = "ready" /\ k = Err(accepted)
    BY DEF Coroutines
  <2>2. \A c \in Conns : co'[Err(c)] \in {"none", "close", "done"}
    BY <1>1, <1>5, <1>11 DEF Coroutines
  <2>3. \A c \in Conns :
          /\ conn'[c].readers # <<>> => conn'[c].readers = <<Cb(c)>> /\ co'[Cb(c)] = "recv"
          /\ co'[Cb(c)] = "ready" => conn'[c].buf # <<>>
    <3> TAKE c \in Conns
    <3>1. CASE co'[Cb(c)] = co[Cb(c)]
      BY <1>7, <3>1 DEF Coroutines
    <3>2. CASE co'[Cb(c)] # co[Cb(c)]
      <4>1. Cb(c) = k /\ co[Cb(c)] = "run" /\ co'[Cb(c)] = "close"
        BY <1>5, <1>11, <3>2
      <4>2. conn[c].readers = <<>>
        BY <4>1 DEF Coroutines
      <4> QED BY <1>7, <4>1, <4>2
    <3> QED BY <3>1, <3>2
  <2>4. run' = NoCor
    OBVIOUS
  <2>5. /\ co'[Cb(accepted)] # "none"
        /\ co'[Cb(accepted)] # "begin"
    <3>1. co[Cb(accepted)] # "none" /\ co[Cb(accepted)] # "begin"
      BY <1>1 DEF Coroutines
    <3> QED BY <1>5, <1>11, <3>1
  <2>6. forkQ' # <<>> => forkQ' = <<Cb(accepted)>> /\ co'[Cb(accepted)] = "ready"
    BY <1>11, <2>1 DEF Coroutines
  <2> QED BY <1>1, <1>6, <1>10, <2>2, <2>3, <2>4, <2>5, <2>6 DEF Coroutines
<1>18. Resets'
  <2>1. \A c \in Conns : co'[Err(c)] # "none" => peer'[c].eof = "reset"
    BY <1>1, <1>11 DEF Resets, IsReset
  <2>2. co'[Err(accepted)] # "none" \/ co'[Cb(accepted)] \in {"close", "closed", "done"}
    BY <1>5
  <2>3. co'[Cb(accepted)] \in {"closed", "done"} => co'[Err(accepted)] # "none"
    BY <1>1, <1>5, <1>11 DEF Resets
  <2> QED BY <1>1, <1>6, <1>10, <2>1, <2>2, <2>3 DEF Resets
<1>19. Reading'
  BY <1>6, <1>10 DEF Reading, Readable
<1>20. Outbound'
  <2>1. ASSUME NEW c \in Conns PROVE OutStream(c)'
    BY <1>6, <1>7, <1>10, <2>1 DEF Outbound, OutStream, Sent
  <2>2. Sent(accepted)' = Sent(accepted) /\ Held' = Held
    BY <1>6 DEF Sent, Held
  <2>3. OutHeld
    BY <1>1 DEF Outbound
  <2>4. conn[accepted].sent = Held + l
    <3>1. pipe # <<>> => pipe[Len(pipe)].cmd = "D"
      BY <1>8, <1>9, SeqIs DEF Types
    <3> QED BY <1>8, <2>3, <3>1 DEF OutHeld
  <2>5. pipe'[Len(pipe')].cmd = "C" /\ Len(pipe') - 1 = l
    BY <1>4, <1>8
  <2>6. ASSUME NEW i \in DOMAIN pipe', pipe'[i].cmd = "D"
        PROVE  pipe'[i].data = <<Piece(accepted, Held + i)>>
    <3>1. i \in 1..l
      BY <1>4, <1>8, <2>6
    <3> QED BY <1>8, <2>3, <2>6, <3>1 DEF OutHeld
  <2>7. OutHeld'
    BY <1>1, <1>6, <1>7, <1>8, <2>2, <2>3, <2>4, <2>5, <2>6 DEF OutHeld
  <2> QED BY <2>1, <2>7 DEF Outbound
<1>21. Inbound'
  BY <1>7, <1>10 DEF Inbound, InStream, Got, Here, Read
<1> QED BY <1>12, <1>13, <1>14, <1>15, <1>16, <1>17, <1>18, <1>19, <1>20, <1>21

LEMMA HandleErrorStep == ASSUME Kept, IInv, HandleError PROVE IInv'
<1> USE DEF IInv, Lives
<1>1. Dispatch("ERROR")
  BY DEF HandleError
<1>2. /\ run = NoCor /\ mail # <<>> /\ mail' = Tail(mail)
      /\ 1 \in DOMAIN mail /\ mail[1].kind = "ERROR" /\ mail' \in Seq(Packles)
      /\ UNCHANGED <<accepted, open, peer, pc, batch, err>>
  BY <1>1, DispatchIs
<1>3. run' = run /\ forkQ' = forkQ
  BY DEF HandleError
<1> HIDE DEF Kept
<1>4. CASE conns = NoConn \/ ctx.closing
  <2>1. UNCHANGED <<ctx, pipe, conns, conn, co>>
    BY <1>4 DEF HandleError
  <2>2. Types' /\ Fresh' = Fresh /\ Begun' = Begun /\ Known' = Known /\ IsReset' = IsReset
    BY <1>2, <1>3, <2>1 DEF Types, Fresh, Begun, Known, IsReset
  <2>3. Later' /\ Earlier' /\ Context' /\ Thread' /\ Pipe' /\ Coroutines'
    BY <1>2, <1>3, <2>1, <2>2 DEF Later, Earlier, Context, Thread, Pipe, Coroutines, Untouched
  <2>4. Mail'
    BY <1>2, <2>1, MailTailKept
  <2>5. Resets' /\ Reading'
    BY <1>2, <1>3, <2>1, <2>2 DEF Resets, Reading, Readable, ReadingIsOver
  <2>6. Outbound'
    BY <1>2, <2>1, OutboundKept
  <2>7. Inbound'
    BY <1>2, <2>1, <2>2, InboundTailKept
  <2> QED BY <2>2, <2>3, <2>4, <2>5, <2>6, <2>7
<1>5. CASE ~(conns = NoConn \/ ctx.closing)
  <2>1. Begun /\ ~ctx.closing /\ conns = accepted /\ ctx.of = accepted
    BY <1>1, <1>5, DispatchIs
  <2>2. BeginClose(Err(accepted), accepted)
    BY <1>5, <2>1 DEF HandleError
  <2>3. IsReset /\ ctx.type # "PACCEPT"
    BY <1>2, <2>1 DEF Mail, IsReset
  <2>4. Err(accepted) # Cb(accepted)
    BY <1>1, <1>5, DispatchIs, CorIs
  <2> QED BY <1>2, <1>3, <2>1, <2>2, <2>3, <2>4, BeginCloseKept
<1> QED BY <1>4, <1>5

LEMMA StartedStep == ASSUME Kept, IInv, Started PROVE IInv'
<1> USE DEF IInv, Lives
<1>1. Dispatch("READY")
  BY DEF Started
<1>2. /\ run = NoCor /\ mail # <<>> /\ mail' = Tail(mail)
      /\ Head(mail) = mail[1] /\ 1 \in DOMAIN mail /\ mail[1].kind = "READY"
      /\ mail' \in Seq(Packles) /\ UNCHANGED <<accepted, open, peer, pc, batch, err>>
  BY <1>1, DispatchIs
<1>3. /\ co' = [co EXCEPT ![mail[1].cor] = "run"] /\ run' = mail[1].cor
      /\ UNCHANGED <<ctx, pipe, conns, conn, forkQ>>
  BY <1>2 DEF Started
<1>4. /\ Begun /\ accepted \in Conns /\ accepted > 0 /\ ctx.type # "PACCEPT"
      /\ mail[1].cor = Cb(accepted) /\ co[Cb(accepted)] = "start"
  BY <1>2, ConnIs DEF Mail, Begun
<1>5. /\ run' = Cb(accepted) /\ Cb(accepted) \in Cors /\ co'[Cb(accepted)] = "run"
      /\ \A x \in Cors : x # Cb(accepted) => co'[x] = co[x]
      /\ co' \in [Cors -> {"none", "begin", "start", "run", "recv", "ready", "close",
                           "closed", "done"}]
  BY <1>3, <1>4, CorIs DEF Types
<1>6. /\ \A c \in Conns : c # accepted => co'[Cb(c)] = co[Cb(c)]
      /\ \A c \in Conns : co'[Err(c)] = co[Err(c)]
      /\ Cb(accepted) # NoCor
      /\ \A x \in Cors : co[x] # "start" => co'[x] = co[x]
  BY <1>4, <1>5, CorIs
<1> HIDE DEF Kept
<1>7. Types' /\ Fresh' = Fresh /\ Begun' = Begun /\ Known' = Known /\ IsReset' = IsReset /\ ~Fresh
  BY <1>2, <1>3, <1>4, <1>5 DEF Types, Fresh, Begun, Known, IsReset
<1>8. Later' /\ Earlier'
  BY <1>2, <1>3, <1>4, <1>6, <1>7, ConnIs DEF Later, Earlier, Untouched
<1>9. \A x \in {Cb(accepted), Err(accepted)} : co[x] = "close" => co'[x] = "close"
  BY <1>4, <1>6, CorIs
<1>10. Context' /\ Thread'
  BY <1>2, <1>3, <1>4, <1>7, <1>9 DEF Context, Thread
<1>11. Pipe'
  <2>1. \A i \in DOMAIN pipe : pipe[i].cmd # "S"
    BY <1>4 DEF Pipe
  <2> QED BY <1>2, <1>3, <1>9, <2>1 DEF Pipe
<1>12. Mail'
  <2>1. \A i \in DOMAIN mail : i # 1 => mail[i].kind # "READY"
    BY <1>2 DEF Mail
  <2>2. \A i \in DOMAIN mail : mail[i].kind = "CLOSED" => co'[mail[i].cor] = co[mail[i].cor]
    <3>1. \A i \in DOMAIN mail : mail[i].kind = "CLOSED" =>
            mail[i].cor \in {Cb(accepted), Err(accepted)} /\ co[mail[i].cor] = "close"
      BY <1>4 DEF Mail, Begun
    <3> QED BY <1>9, <3>1
  <2> QED BY <1>2, <1>3, <2>1, <2>2, MailTailKept
<1>13. Coroutines'
  <2>1. forkQ = <<>> /\ conn[accepted].readers = <<>>
    BY <1>4 DEF Coroutines
  <2>2. \A c \in Conns :
          /\ conn[c].readers # <<>> => conn[c].readers = <<Cb(c)>> /\ co'[Cb(c)] = "recv"
          /\ co'[Cb(c)] = "ready" => conn[c].buf # <<>>
    <3> TAKE c \in Conns
    <3>1. CASE c = accepted
      BY <1>5, <2>1, <3>1
    <3>2. CASE c # accepted
      BY <1>6, <3>2 DEF Coroutines
    <3> QED BY <3>1, <3>2
  <2>3. accepted' = accepted /\ ctx' = ctx /\ forkQ' = <<>> /\ conn' = conn
    BY <1>2, <1>3, <2>1
  <2> QED BY <1>4, <1>5, <1>6, <1>7, <2>2, <2>3 DEF Coroutines
<1>14. Resets'
  BY <1>2, <1>3, <1>4, <1>5, <1>6, <1>7 DEF Resets
<1>15. Reading'
  BY <1>2, <1>3, <1>7 DEF Reading, Readable, ReadingIsOver
<1>16. Outbound'
  BY <1>2, <1>3, OutboundKept
<1>17. Inbound'
  BY <1>2, <1>3, <1>7, InboundTailKept
<1> QED BY <1>7, <1>8, <1>10, <1>11, <1>12, <1>13, <1>14, <1>15, <1>16, <1>17

LEMMA ClosedStep == ASSUME Kept, IInv, Closed PROVE IInv'
<1> USE DEF IInv, Lives
<1>1. Dispatch("CLOSED")
  BY DEF Closed
<1>2. /\ run = NoCor /\ mail # <<>> /\ mail' = Tail(mail)
      /\ Head(mail) = mail[1] /\ 1 \in DOMAIN mail /\ mail[1].kind = "CLOSED"
      /\ mail' \in Seq(Packles) /\ UNCHANGED <<accepted, open, peer, pc, batch, err>>
  BY <1>1, DispatchIs
<1> DEFINE x == mail[1].cor
           c == ctx.of
<1>3. /\ conn' = [conn EXCEPT ![x[2]].fd = FALSE]
      /\ IF x[1] = "cb" THEN co' = [co EXCEPT ![x] = "closed"] /\ run' = x
                        ELSE co' = [co EXCEPT ![x] = "done"] /\ run' = run
      /\ UNCHANGED <<ctx, pipe, conns, forkQ>>
  BY <1>2 DEF Closed
<1>4. /\ ~ctx.valid /\ x \in {Cb(c), Err(c)} /\ co[x] = "close" /\ c \in Conns
      /\ c <= accepted /\ accepted \in Nat /\ accepted > 0 /\ accepted \in Conns
      /\ c = ctx.of
  <2>1. ~ctx.valid /\ x \in {Cb(c), Err(c)} /\ co[x] = "close" /\ mail[1].conn = c
    BY <1>2 DEF Mail
  <2>2. c \in Conns /\ c <= accepted
    BY <1>2, <2>1, MailIs DEF Context
  <2> HIDE DEF c, x
  <2> QED BY <2>1, <2>2, ConnIs DEF c
<1> HIDE DEF x, c
<1>5. \/ c = accepted /\ Begun /\ ~Fresh
      \/ c < accepted /\ Fresh /\ ~Begun /\ x = Err(c)
  <2>1. CASE c = accepted
    BY <1>4, <2>1 DEF Begun, Fresh
  <2>2. CASE c # accepted
    <3>1. c < accepted
      BY <1>4, <2>2, ConnIs
    <3>2. co[Cb(c)] \in {"recv", "done"}
      BY <1>4, <3>1 DEF Earlier
    <3> QED BY <1>4, <2>2, <3>1, <3>2 DEF Begun, Fresh
  <2> QED BY <2>1, <2>2
<1>6. /\ conn' \in [Conns -> Connections]
      /\ \A d \in Conns :
           /\ conn'[d].got = conn[d].got /\ conn'[d].buf = conn[d].buf
           /\ conn'[d].readers = conn[d].readers /\ conn'[d].sent = conn[d].sent
           /\ conn'[d].closing = conn[d].closing
           /\ d # c => conn'[d] = conn[d]
  <2> DEFINE q == [conn[c] EXCEPT !.fd = FALSE]
  <2>1. conn \in [Conns -> Connections] /\ x[2] = c
    BY <1>4, CorIs DEF Types
  <2>2. /\ q \in Connections /\ q.got = conn[c].got /\ q.buf = conn[c].buf
        /\ q.readers = conn[c].readers /\ q.sent = conn[c].sent
        /\ q.closing = conn[c].closing
    BY <1>4, <2>1 DEF Connections
  <2>3. conn' = [conn EXCEPT ![c] = q]
    BY <1>3, <2>1
  <2> HIDE DEF q
  <2> QED BY <1>4, <2>1, <2>2, <2>3
<1>7. /\ \/ x = Cb(c) /\ co'[x] = "closed" /\ run' = x /\ c = accepted /\ Begun
         \/ x = Err(c) /\ co'[x] = "done" /\ run' = NoCor
      /\ x \in Cors
      /\ \A y \in Cors : y # x => co'[y] = co[y]
      /\ co' \in [Cors -> {"none", "begin", "start", "run", "recv", "ready", "close",
                           "closed", "done"}]
  <2>1. x \in Cors /\ (x[1] = "cb" <=> x = Cb(c))
    BY <1>4, CorIs
  <2>2. co \in [Cors -> {"none", "begin", "start", "run", "recv", "ready", "close",
                         "closed", "done"}]
    BY DEF Types
  <2>3. CASE x = Cb(c)
    <3>1. c = accepted /\ Begun
      BY <1>4, <1>5, <2>3, CorIs
    <3> QED BY <1>3, <2>1, <2>2, <2>3, <3>1
  <2>4. CASE x # Cb(c)
    BY <1>2, <1>3, <1>4, <2>1, <2>2, <2>4
  <2> QED BY <2>3, <2>4
<1>8. /\ \A d \in Conns : Cb(d) # x => co'[Cb(d)] = co[Cb(d)]
      /\ \A d \in Conns : Err(d) # x => co'[Err(d)] = co[Err(d)]
      /\ \A d \in Conns : Cb(d) = x => d = c /\ c = accepted /\ Begun /\ co'[x] = "closed"
      /\ \A d \in Conns : Err(d) = x => d = c /\ co'[x] = "done"
      /\ \A d \in Conns : Cb(d) \in Cors /\ Cb(d) # NoCor
  <2>1. ASSUME NEW d \in Conns
        PROVE  /\ Cb(d) \in Cors /\ Err(d) \in Cors /\ Cb(d) # NoCor
               /\ Cb(d) = Cb(c) => d = c
               /\ Err(d) = Err(c) => d = c
               /\ Cb(d) # Err(c) /\ Err(d) # Cb(c)
    BY <1>4, CorIs
  <2>2. ASSUME NEW d \in Conns, Cb(d) = x
        PROVE  d = c /\ c = accepted /\ Begun /\ co'[x] = "closed"
    BY <1>7, <2>1, <2>2
  <2>3. ASSUME NEW d \in Conns, Err(d) = x PROVE d = c /\ co'[x] = "done"
    BY <1>7, <2>1, <2>3
  <2>4. ASSUME NEW d \in Conns
        PROVE  /\ Cb(d) # x => co'[Cb(d)] = co[Cb(d)]
               /\ Err(d) # x => co'[Err(d)] = co[Err(d)]
    BY <1>7, <2>1
  <2> QED BY <2>1, <2>2, <2>3, <2>4
<1> HIDE DEF Kept
<1>9. pipe = <<>> /\ DOMAIN pipe = {} /\ conns = NoConn
  <2>1. PICK n \in Nat : n = Len(pipe) /\ DOMAIN pipe = 1..n
    BY PipeIs
  <2>2. n # 0 => 1 \in DOMAIN pipe
    BY <2>1
  <2>3. pipe = <<>>
    BY <1>4, <2>1, <2>2, SeqIs DEF Pipe, Types
  <2> QED BY <1>4, <2>3 DEF Context
<1>10. /\ Fresh' = Fresh /\ Begun' = Begun /\ Known' = Known /\ ~Known /\ IsReset' = IsReset
  BY <1>2, <1>3, <1>4, <1>9 DEF Fresh, Begun, Known, IsReset, NoConn
<1>11. Types'
  <2>1. run' \in Cors \cup {NoCor}
    BY <1>7
  <2> QED BY <1>2, <1>3, <1>6, <1>7, <2>1 DEF Types
<1>12. Later'
  <2>1. ASSUME NEW d \in Conns, d # c, Untouched(d) PROVE Untouched(d)'
    BY <1>2, <1>6, <1>8, <2>1 DEF Untouched
  <2> QED BY <1>2, <1>4, <1>5, <1>10, <2>1, ConnIs DEF Later
<1>13. Earlier'
  BY <1>2, <1>4, <1>5, <1>8, ConnIs DEF Earlier
<1>14. Context' /\ Thread' /\ Pipe'
  BY <1>2, <1>3, <1>4, <1>9, <1>10 DEF Context, Thread, Pipe
<1>15. Mail'
  <2>1. \A i \in DOMAIN mail : i # 1 => mail[i].kind # "CLOSED"
    BY <1>2 DEF Mail
  <2>2. ASSUME NEW i \in DOMAIN mail, mail[i].kind = "READY"
        PROVE  co'[mail[i].cor] = co[mail[i].cor]
    <3>1. mail[i].cor = Cb(accepted) /\ co[Cb(accepted)] = "start"
      BY <2>2 DEF Mail
    <3>2. Cb(accepted) # x
      BY <1>4, <3>1
    <3> QED BY <1>4, <1>8, <3>1, <3>2
  <2> QED BY <1>2, <1>3, <2>1, <2>2, MailTailKept
<1>16. Coroutines'
  <2>1. \A d \in Conns : co'[Err(d)] \in {"none", "close", "done"}
    BY <1>7, <1>8 DEF Coroutines
  <2>2. \A d \in Conns :
          /\ conn'[d].readers # <<>> => conn'[d].readers = <<Cb(d)>> /\ co'[Cb(d)] = "recv"
          /\ co'[Cb(d)] = "ready" => conn'[d].buf # <<>>
    <3> TAKE d \in Conns
    <3>1. CASE Cb(d) # x
      BY <1>6, <1>8, <3>1 DEF Coroutines
    <3>2. CASE Cb(d) = x
      <4>1. co[Cb(d)] = "close" /\ co'[Cb(d)] = "closed"
        BY <1>4, <1>8, <3>2
      <4>2. conn[d].readers = <<>>
        BY <4>1 DEF Coroutines
      <4> QED BY <1>6, <4>1, <4>2
    <3> QED BY <3>1, <3>2
  <2>3. Begun => co'[Cb(accepted)] = co[Cb(accepted)] \/ co'[Cb(accepted)] = "closed"
    BY <1>4, <1>7, <1>8
  <2>4. forkQ' # <<>> => Begun /\ forkQ' = <<Cb(accepted)>> /\ co'[Cb(accepted)] = "ready"
    BY <1>3, <1>4, <1>8 DEF Coroutines
  <2>5. run' # NoCor => Begun /\ run' = Cb(accepted) /\ co'[run'] = "closed"
    BY <1>7
  <2>6. ctx.type # "PACCEPT"
    BY <1>4 DEF Context
  <2>7. Begun' /\ co'[Cb(accepted')] = "begin" => ctx'.type = "PACCEPT" /\ pipe' = <<>>
    BY <1>2, <1>3, <1>10, <2>3 DEF Coroutines
  <2>8. Begun' => co'[Cb(accepted')] # "none"
    BY <1>2, <1>10, <2>3 DEF Coroutines
  <2> QED BY <1>2, <1>3, <1>10, <2>1, <2>2, <2>4, <2>5, <2>6, <2>7, <2>8 DEF Coroutines
<1>17. Resets'
  <2>1. \A d \in Conns : co'[Err(d)] # "none" => peer'[d].eof = "reset"
    BY <1>2, <1>4, <1>8 DEF Resets
  <2>2. Begun /\ ctx.closing =>
          co'[Err(accepted)] # "none" \/ co'[Cb(accepted)] \in {"close", "closed", "done"}
    BY <1>4, <1>7, <1>8 DEF Resets
  <2> QED BY <1>2, <1>3, <1>4, <1>10, <2>1, <2>2 DEF Resets
<1>18. Reading'
  BY <1>2, <1>3, <1>4, <1>10 DEF Reading
<1>19. Outbound'
  <2>1. ASSUME NEW d \in Conns PROVE OutStream(d)'
    BY <1>2, <1>3, <1>4, <1>5, <1>6, <1>10, <2>1 DEF Outbound, OutStream, Sent
  <2> QED BY <1>3, <1>4, <2>1 DEF Outbound
<1>20. Inbound'
  BY <1>2, <1>6, <1>10, InboundTailKept
<1> QED BY <1>11, <1>12, <1>13, <1>14, <1>15, <1>16, <1>17, <1>18, <1>19, <1>20

-----------------------------------------------------------------------------
(* Data reaches the buffer of its connection, and the reader.              *)

\* The first packle with data continues what the connection has.
LEMMA HeadData ==
    ASSUME IInv, Known, mail # <<>>, mail[1].kind = "DATA", 1 \in DOMAIN mail
    PROVE  /\ Here(accepted) \in Nat /\ Upto(1) \in Nat /\ Here(accepted) <= Upto(1)
           /\ mail[1].data = Stretch(accepted, Here(accepted), Upto(1))
           /\ Upto(1) <= Read(accepted)
<1> USE DEF IInv, Lives
<1>1. accepted \in Conns /\ InMail /\ HasData(1) /\ Here(accepted) \in Nat
  BY ConnIs, HereIs DEF Known, Inbound, HasData
<1>2. PICK h \in Nat : h = Here(accepted)
  BY <1>1
<1>3. PICK r \in Nat : r = Read(accepted)
  <2>1. PICK s \in Nat, w \in Nat : s = peer[accepted].sent /\ w = Len(peer[accepted].in) /\ w <= s
    BY <1>1, PeerIs DEF Inbound, InStream
  <2>2. Read(accepted) = s - w
    BY <2>1 DEF Read
  <2> QED BY <2>1, <2>2
<1>4. ASSUME NEW i \in DOMAIN mail, HasData(i)
      PROVE  \E b \in Int, u \in Int : b = Before(i) /\ u = Upto(i) /\ b < u /\ h <= b /\ u <= r
  <2>1. mail[i].data \in Seq(PieceSet) /\ mail[i].data # <<>>
    BY <1>4, MailIs DEF HasData, Mail
  <2>2. PICK n \in Nat : n = Len(mail[i].data) /\ n > 0
    BY <2>1, SeqIs
  <2>3. mail[i].data[1] \in PieceSet
    <3>1. 1 \in 1..n
      BY <2>2
    <3> QED BY <2>1, <2>2, <3>1, SeqIs
  <2>4. PICK v \in Nat : v = mail[i].data[1][2]
    BY <2>3 DEF PieceSet
  <2>5. Before(i) = v - 1 /\ Upto(i) = (v - 1) + n
    BY <2>2, <2>4 DEF Before, Upto
  <2>6. h <= Before(i) /\ Upto(i) <= r
    BY <1>1, <1>2, <1>3, <1>4 DEF InMail
  <2>7. v - 1 \in Int /\ (v - 1) + n \in Int /\ v - 1 < (v - 1) + n
    BY <2>2, <2>4
  <2> QED BY <2>5, <2>6, <2>7
<1>5. PICK b \in Int, u \in Int : b = Before(1) /\ u = Upto(1) /\ b < u /\ h <= b /\ u <= r
  BY <1>1, <1>4
<1>6. h + 1 \in (h + 1)..r
  BY <1>2, <1>3, <1>5
<1>7. PICK i \in DOMAIN mail : HasData(i) /\ Before(i) < h + 1 /\ h + 1 <= Upto(i)
  BY <1>1, <1>2, <1>3, <1>6 DEF InMail
<1>8. PICK d \in Int : d = Before(i) /\ d < h + 1
  BY <1>4, <1>7
<1>9. i = 1
  <2> SUFFICES ASSUME i # 1 PROVE FALSE
    OBVIOUS
  <2>1. 1 < i
    BY MailIs
  <2>2. Upto(1) <= Before(i)
    BY <1>1, <1>7, <2>1 DEF InMail
  <2> QED BY <1>2, <1>5, <1>8, <2>2
<1>10. b = h
  BY <1>2, <1>5, <1>8, <1>9
<1>11. mail[1].data = Stretch(accepted, b, u)
  BY <1>1, <1>5 DEF InMail
<1> QED BY <1>2, <1>3, <1>5, <1>10, <1>11

LEMMA HandleReadStep == ASSUME Kept, IInv, HandleRead PROVE IInv'
<1> USE DEF IInv, Lives
<1>1. Dispatch("DATA")
  BY DEF HandleRead
<1>2. /\ run = NoCor /\ mail # <<>> /\ mail' = Tail(mail)
      /\ Head(mail) = mail[1] /\ 1 \in DOMAIN mail /\ mail[1].kind = "DATA"
      /\ mail' \in Seq(Packles) /\ UNCHANGED <<accepted, open, peer, pc, batch, err>>
  BY <1>1, DispatchIs
<1>3. UNCHANGED <<ctx, pipe, conns, run>>
  BY DEF HandleRead
<1> HIDE DEF Kept
<1>4. CASE conns = NoConn
  <2>1. UNCHANGED <<conn, co, forkQ>>
    BY <1>4 DEF HandleRead
  <2>2. Types' /\ Fresh' = Fresh /\ Begun' = Begun /\ Known' = Known /\ IsReset' = IsReset
    BY <1>2, <1>3, <2>1 DEF Types, Fresh, Begun, Known, IsReset
  <2>3. Later' /\ Earlier' /\ Context' /\ Thread' /\ Pipe' /\ Coroutines'
    BY <1>2, <1>3, <2>1, <2>2 DEF Later, Earlier, Context, Thread, Pipe, Coroutines, Untouched
  <2>4. Mail'
    BY <1>2, <1>3, <2>1, MailTailKept
  <2>5. Resets' /\ Reading'
    BY <1>2, <1>3, <2>1, <2>2 DEF Resets, Reading, Readable, ReadingIsOver
  <2>6. Outbound'
    BY <1>2, <1>3, <2>1, OutboundKept
  <2>7. Inbound'
    <3>1. ~Known'
      BY <1>3, <1>4 DEF Known, NoConn
    <3> QED BY <1>2, <2>1, <3>1 DEF Inbound, InStream, Read, Here, Got
  <2> QED BY <2>2, <2>3, <2>4, <2>5, <2>6, <2>7
<1>5. CASE conns # NoConn
  <2> DEFINE c == accepted
             readers == conn[accepted].readers
  <2>1. /\ accepted \in Conns /\ accepted > 0 /\ conns = accepted /\ Begun /\ Known
        /\ ~Fresh /\ ctx.of = accepted /\ ctx.valid /\ ~ctx.closing /\ ctx.closer = NoCor
    BY <1>1, <1>5, DispatchIs
  <2>2. /\ conn' = [conn EXCEPT ![accepted].buf = @ \o mail[1].data, ![accepted].readers = <<>>]
        /\ forkQ' = forkQ \o readers
        /\ co' = [x \in Cors |-> IF x \in ToSet(readers) THEN "ready" ELSE co[x]]
    BY <1>2, <1>5, <2>1 DEF HandleRead
  <2>3. \/ readers = <<>>
        \/ /\ readers = <<Cb(accepted)>> /\ co[Cb(accepted)] = "recv" /\ forkQ = <<>>
           /\ ctx.type # "PACCEPT"
    BY <2>1 DEF Coroutines
  <2> DEFINE g == Got(accepted)
             h == Here(accepted)
             u == Upto(1)
             s == Stretch(accepted, g, u)
  <2>4. /\ h \in Nat /\ u \in Nat /\ h <= u /\ mail[1].data = Stretch(accepted, h, u)
        /\ u <= Read(accepted)
    BY <1>2, <2>1, HeadData
  <2>5. /\ g \in Nat /\ g <= h /\ conn[accepted].buf = Stretch(accepted, g, h)
        /\ conn[accepted].got = Stretch(accepted, 0, g)
    <3>1. PICK x \in Nat, y \in Nat : x = Len(conn[accepted].got) /\ y = Len(conn[accepted].buf)
      BY <2>1, ConnectionIs
    <3>2. g = x /\ h = x + y
      BY <3>1 DEF Got, Here
    <3>3. /\ conn[accepted].buf = Stretch(accepted, g, h)
          /\ conn[accepted].got = Stretch(accepted, 0, g)
      BY <2>1 DEF Inbound, InStream
    <3> HIDE DEF g, h
    <3>4. x \in Nat /\ x <= x + y
      OBVIOUS
    <3>5. g \in Nat /\ g <= h
      BY <3>2, <3>4
    <3> QED BY <3>3, <3>5
  <2>6. /\ conn[accepted].buf \o mail[1].data = s /\ s \in Seq(PieceSet) /\ Len(s) = u - g
    <3> HIDE DEF g, h, u
    <3>1. accepted \in Conns /\ g \in Nat /\ h \in Nat /\ u \in Nat /\ g <= h /\ h <= u /\ g <= u
      BY <2>1, <2>4, <2>5
    <3>2. Stretch(accepted, g, h) \o Stretch(accepted, h, u) = Stretch(accepted, g, u)
      BY <3>1, StretchConcat
    <3>3. Stretch(accepted, g, u) \in Seq(PieceSet) /\ Len(Stretch(accepted, g, u)) = u - g
      BY <3>1, StretchIs
    <3> QED BY <2>4, <2>5, <3>2, <3>3
  <2> HIDE DEF s
  <2>7. /\ conn' \in [Conns -> Connections]
        /\ \A d \in Conns : d # accepted => conn'[d] = conn[d]
        /\ \A d \in Conns :
             /\ conn'[d].got = conn[d].got /\ conn'[d].sent = conn[d].sent
             /\ conn'[d].fd = conn[d].fd
        /\ conn'[accepted].buf = s /\ conn'[accepted].readers = <<>>
    <3> DEFINE p == conn[accepted]
               q == [p EXCEPT !.buf = s, !.readers = <<>>]
    <3>1. conn \in [Conns -> Connections] /\ p \in Connections /\ <<>> \in Seq(Cors)
      BY <2>1, EmptySeq DEF Types
    <3>2. conn' = [conn EXCEPT ![accepted] = q]
      BY <2>2, <2>6
    <3> HIDE DEF p
    <3>3. /\ q \in Connections /\ q.got = p.got /\ q.sent = p.sent /\ q.fd = p.fd
          /\ q.buf = s /\ q.readers = <<>>
      BY <2>6, <3>1 DEF Connections
    <3> HIDE DEF q
    <3> QED BY <2>1, <3>1, <3>2, <3>3 DEF p
  <2>8. /\ co' \in [Cors -> {"none", "begin", "start", "run", "recv", "ready", "close",
                             "closed", "done"}]
        /\ \A x \in Cors : co'[x] = co[x] \/ (x = Cb(accepted) /\ co[x] = "recv" /\ co'[x] = "ready")
        /\ \/ co' = co /\ forkQ' = forkQ /\ readers = <<>>
           \/ /\ co[Cb(accepted)] = "recv" /\ co'[Cb(accepted)] = "ready"
              /\ forkQ' = <<Cb(accepted)>> /\ ctx.type # "PACCEPT" /\ forkQ' \in Seq(Cors)
    <3>1. co \in [Cors -> {"none", "begin", "start", "run", "recv", "ready", "close",
                             "closed", "done"}] /\ forkQ \in Seq(Cors)
      BY DEF Types
    <3>2. CASE readers = <<>>
      <4>1. ToSet(readers) = {}
        BY <3>2 DEF ToSet
      <4>2. co' = co
        BY <2>2, <3>1, <4>1
      <4>3. forkQ' = forkQ
        BY <2>2, <3>1, <3>2, ConcatEmptySeq
      <4> QED BY <3>1, <3>2, <4>2, <4>3
    <3>3. CASE readers # <<>>
      <4>1. readers = <<Cb(accepted)>> /\ co[Cb(accepted)] = "recv" /\ forkQ = <<>> /\ ctx.type # "PACCEPT"
        BY <2>3, <3>3
      <4>2. ToSet(readers) = {Cb(accepted)}
        BY <4>1 DEF ToSet
      <4>3. Cb(accepted) \in Cors /\ <<Cb(accepted)>> \in Seq(Cors)
        BY <2>1, CorIs, OneIs
      <4>4. forkQ' = <<Cb(accepted)>>
        BY <2>2, <4>1, <4>3, ConcatEmptySeq
      <4>5. co' = [x \in Cors |-> IF x = Cb(accepted) THEN "ready" ELSE co[x]]
        BY <2>2, <4>2
      <4> HIDE DEF readers
      <4> QED BY <3>1, <4>1, <4>3, <4>4, <4>5
    <3> QED BY <3>2, <3>3
  <2>9. /\ \A d \in Conns : co'[Err(d)] = co[Err(d)] /\ Err(d) \in Cors
        /\ \A d \in Conns : d # accepted => co'[Cb(d)] = co[Cb(d)]
    BY <2>1, <2>8, CorIs
  <2> HIDE DEF readers
  <2>10. /\ Fresh' = Fresh /\ Begun' = Begun /\ Known' = Known /\ IsReset' = IsReset
    BY <1>2, <1>3 DEF Fresh, Begun, Known, IsReset
  <2>11. Types'
    <3>1. forkQ' \in Seq(Cors)
      BY <2>8 DEF Types
    <3> QED BY <1>2, <1>3, <2>7, <2>8, <3>1 DEF Types
  <2>12. Later' /\ Earlier'
    <3>1. ASSUME NEW d \in Conns, d # accepted, Untouched(d) PROVE Untouched(d)'
      BY <1>2, <2>7, <2>9, <3>1 DEF Untouched
    <3>2. \A d \in Conns : (d > accepted \/ d < accepted) => d # accepted
      BY ConnIs
    <3>3. Later'
      BY <1>2, <2>1, <2>10, <3>1, <3>2 DEF Later
    <3>4. Earlier'
      BY <1>2, <2>9, <3>2 DEF Earlier
    <3> QED BY <3>3, <3>4
  <2>13. Cb(accepted) \in Cors /\ (co'[Cb(accepted)] # co[Cb(accepted)] =>
            co[Cb(accepted)] = "recv" /\ co'[Cb(accepted)] = "ready" /\ ctx.type # "PACCEPT")
    BY <2>1, <2>8, CorIs
  <2>14. Context' /\ Thread' /\ Pipe'
    <3>1. \A x \in {Cb(accepted), Err(accepted)} : co[x] # "recv" => co'[x] = co[x]
      BY <2>1, <2>9, <2>13
    <3>2. Context'
      BY <1>2, <1>3, <2>1, <2>10, <2>13 DEF Context
    <3>3. Pipe'
      BY <1>2, <1>3, <2>1, <2>10, <3>1 DEF Pipe
    <3> QED BY <1>2, <1>3, <2>10, <3>2, <3>3 DEF Thread
  <2>15. Mail'
    <3>1. \A i \in DOMAIN mail : mail[i].kind \in {"READY", "CLOSED"} =>
            co'[mail[i].cor] = co[mail[i].cor]
      BY <2>1, <2>13 DEF Mail
    <3> QED BY <1>2, <1>3, <3>1, MailTailKept
  <2>16. Coroutines'
    <3>1. \A d \in Conns :
          /\ conn'[d].readers # <<>> => conn'[d].readers = <<Cb(d)>> /\ co'[Cb(d)] = "recv"
          /\ co'[Cb(d)] = "ready" => conn'[d].buf # <<>>
      <4> TAKE d \in Conns
      <4>1. CASE d # accepted
        BY <2>7, <2>9, <4>1 DEF Coroutines
      <4>2. CASE d = accepted
        <5>1. h < u
          <6>1. mail[1].data \in Seq(PieceSet) /\ mail[1].data # <<>>
            BY <1>2, MailIs DEF Mail
          <6> HIDE DEF h, u
          <6>2. h = u => mail[1].data = <<>>
            BY <2>1, <2>4, StretchEmpty
          <6> QED BY <2>4, <6>1, <6>2
        <5>2. s # <<>>
          <6> HIDE DEF g, h, u
          <6>1. Len(s) # 0
            BY <2>4, <2>5, <2>6, <5>1
          <6> QED BY <2>6, <6>1, SeqIs
        <5> QED BY <2>7, <4>2, <5>2
      <4> QED BY <4>1, <4>2
    <3>2. accepted' = accepted /\ ctx' = ctx /\ pipe' = pipe /\ run' = NoCor
      BY <1>2, <1>3
    <3>3. forkQ' # <<>> => forkQ' = <<Cb(accepted)>> /\ co'[Cb(accepted)] = "ready"
      BY <2>8 DEF Coroutines
    <3> QED BY <2>1, <2>9, <2>10, <2>13, <3>1, <3>2, <3>3 DEF Coroutines
  <2>17. Resets'
    BY <1>2, <1>3, <2>1, <2>9, <2>10, <2>13 DEF Resets
  <2>18. Reading'
    BY <1>2, <1>3, <2>10 DEF Reading, Readable, ReadingIsOver
  <2>19. Outbound'
    <3>1. ASSUME NEW d \in Conns PROVE OutStream(d)'
      BY <1>2, <1>3, <2>7, <2>10, <3>1 DEF Outbound, OutStream, Sent
    <3>2. OutHeld'
      BY <1>2, <1>3, <2>1, <2>7 DEF Outbound, OutHeld, Held, Sent
    <3> QED BY <3>1, <3>2 DEF Outbound
  <2>20. Here(accepted)' = u /\ Got(accepted)' = g
    <3>1. Got(accepted)' = g
      BY <1>2, <2>1, <2>7 DEF Got
    <3>2. Here(accepted)' = Got(accepted)' + (u - g)
      BY <1>2, <2>6, <2>7 DEF Here
    <3> HIDE DEF g, h, u
    <3> QED BY <2>4, <2>5, <3>1, <3>2
  <2>21. Read(accepted)' = Read(accepted)
    BY <1>2 DEF Read
  <2>22. InMail'
    <3>1. PICK l \in Nat :
            /\ DOMAIN mail' = 1..l /\ DOMAIN mail = 1..(l + 1)
            /\ \A i \in 1..l : i + 1 \in DOMAIN mail /\ mail'[i] = mail[i + 1]
      BY <1>2, MailTail
    <3>2. ASSUME NEW i \in DOMAIN mail'
          PROVE  /\ i + 1 \in DOMAIN mail /\ mail'[i] = mail[i + 1] /\ 1 < i + 1
                 /\ HasData(i)' = HasData(i + 1)
                 /\ Before(i)' = Before(i + 1) /\ Upto(i)' = Upto(i + 1)
      BY <3>1 DEF HasData, Before, Upto
    <3>3. InMail /\ HasData(1) /\ 1 \in DOMAIN mail
      BY <1>2, <2>1 DEF Inbound, HasData
    <3>4. \A i \in DOMAIN mail' : HasData(i)' =>
            /\ mail'[i].data = Stretch(accepted', Before(i)', Upto(i)')
            /\ Here(accepted)' <= Before(i)' /\ Upto(i)' <= Read(accepted)'
      BY <1>2, <2>20, <2>21, <3>2, <3>3 DEF InMail
    <3>5. \A i, j \in DOMAIN mail' :
            HasData(i)' /\ HasData(j)' /\ i < j => Upto(i)' <= Before(j)'
      <4> TAKE i, j \in DOMAIN mail'
      <4>1. i < j => i + 1 < j + 1
        BY <3>1
      <4> QED BY <3>2, <3>3, <4>1 DEF InMail
    <3>6. \A n \in (Here(accepted)' + 1)..Read(accepted)' :
            \E i \in DOMAIN mail' : HasData(i)' /\ Before(i)' < n /\ n <= Upto(i)'
      <4> TAKE n \in (Here(accepted)' + 1)..Read(accepted)'
      <4>0. n \in Int /\ n > u /\ n <= Read(accepted)
        BY <2>4, <2>20, <2>21
      <4>1. n \in (Here(accepted) + 1)..Read(accepted)
        <5>1. PICK a \in Nat, b \in Nat : a = Here(accepted) /\ b = u /\ a <= b
          BY <2>4
        <5>2. Read(accepted) \in Int
          <6>1. PICK x \in Nat, y \in Nat : x = peer[accepted].sent /\ y = Len(peer[accepted].in)
            BY <2>1, PeerIs
          <6>2. Read(accepted) = x - y
            BY <6>1 DEF Read
          <6> QED BY <6>1, <6>2
        <5>3. n \in Int /\ n > b /\ n <= Read(accepted)
          BY <4>0, <5>1
        <5>4. n \in (a + 1)..Read(accepted)
          BY <5>1, <5>2, <5>3
        <5> QED BY <5>1, <5>4
      <4>2. PICK k \in DOMAIN mail : HasData(k) /\ Before(k) < n /\ n <= Upto(k)
        BY <3>3, <4>1 DEF InMail
      <4>3. k # 1
        BY <2>4, <4>0, <4>2
      <4>4. PICK i \in 1..l : k = i + 1
        <5>1. k \in 1..(l + 1) /\ k - 1 \in 1..l /\ k = (k - 1) + 1
          BY <3>1, <4>3
        <5> QED BY <5>1
      <4> QED BY <3>1, <3>2, <4>2, <4>4
    <3> QED BY <3>4, <3>5, <3>6 DEF InMail
  <2>23. Inbound'
    <3>1. ASSUME NEW d \in Conns, d # accepted PROVE InStream(d)'
      BY <1>2, <2>7, <3>1 DEF Inbound, InStream, Got, Here, Read
    <3>2. InStream(accepted)'
      <4>1. /\ Len(peer[accepted].in) <= peer[accepted].sent
            /\ peer[accepted].in = Stretch(accepted, Read(accepted), peer[accepted].sent)
        BY <2>1 DEF Inbound, InStream
      <4> QED BY <1>2, <2>1, <2>4, <2>5, <2>7, <2>20, <2>21, <4>1 DEF InStream, s
    <3> QED BY <1>2, <2>22, <3>1, <3>2 DEF Inbound
  <2> QED BY <2>11, <2>12, <2>14, <2>15, <2>16, <2>17, <2>18, <2>19, <2>23
<1> QED BY <1>4, <1>5

LEMMA TakeIs ==
    ASSUME Types, Inbound, NEW c \in Conns, conn[c].buf # <<>>, Take(c)
    PROVE  /\ conn' \in [Conns -> Connections]
           /\ \A d \in Conns : d # c => conn'[d] = conn[d]
           /\ conn'[c].fd = conn[c].fd /\ conn'[c].closing = conn[c].closing
           /\ conn'[c].readers = conn[c].readers /\ conn'[c].sent = conn[c].sent
           /\ Here(c)' = Here(c)
           /\ conn'[c].got = Stretch(c, 0, Got(c)') /\ conn'[c].buf = Stretch(c, Got(c)', Here(c))
<1> DEFINE g == Got(c)
           h == Here(c)
           p == conn[c]
           s == Stretch(c, 0, g + 1)
           t == Stretch(c, g + 1, h)
           q == [p EXCEPT !.buf = t, !.got = s]
<1>1. /\ g \in Nat /\ h \in Nat /\ p.got = Stretch(c, 0, g) /\ p.buf = Stretch(c, g, h) /\ g < h
  <2>1. p.got = Stretch(c, 0, g) /\ p.buf = Stretch(c, g, h)
    BY DEF Inbound, InStream
  <2>2. PICK x \in Nat, y \in Nat : x = Len(conn[c].got) /\ y = Len(conn[c].buf)
    BY ConnectionIs
  <2>3. y # 0
    BY <2>2, ConnectionIs, SeqIs
  <2>4. g = x /\ h = x + y
    BY <2>2 DEF Got, Here
  <2>5. x + y \in Nat /\ x < x + y
    BY <2>3
  <2> HIDE DEF g, h, p
  <2> QED BY <2>1, <2>4, <2>5
<1>2. p \in Connections /\ conn \in [Conns -> Connections]
  BY DEF Types
<1> HIDE DEF g, h, p
<1>3. /\ Append(p.got, Head(p.buf)) = s /\ Tail(p.buf) = t
      /\ s \in Seq(PieceSet) /\ t \in Seq(PieceSet) /\ Len(s) = g + 1 /\ Len(t) = h - (g + 1)
  <2>1. 0 \in Nat /\ g \in Nat /\ h \in Nat /\ g < h /\ 0 <= g /\ g + 1 \in Nat /\ 0 <= g + 1 /\ g + 1 <= h
    BY <1>1
  <2>2. Head(Stretch(c, g, h)) = Piece(c, g + 1) /\ Tail(Stretch(c, g, h)) = Stretch(c, g + 1, h)
    BY <2>1, StretchTail
  <2>3. Append(Stretch(c, 0, g), Piece(c, g + 1)) = Stretch(c, 0, g + 1)
    BY <2>1, StretchAppend
  <2>4. s \in Seq(PieceSet) /\ Len(s) = (g + 1) - 0
    BY <2>1, StretchIs
  <2>5. t \in Seq(PieceSet) /\ Len(t) = h - (g + 1)
    BY <2>1, StretchIs
  <2>6. (g + 1) - 0 = g + 1
    BY <2>1
  <2> HIDE DEF s, t
  <2>7. Append(p.got, Head(p.buf)) = s /\ Tail(p.buf) = t
    BY <1>1, <2>2, <2>3 DEF s, t
  <2> QED BY <2>4, <2>5, <2>6, <2>7
<1>4. conn' = [conn EXCEPT ![c] = q]
  <2>1. conn' = [conn EXCEPT ![c].buf = Tail(@), ![c].got = Append(@, Head(p.buf))]
    BY DEF Take, p
  <2> HIDE DEF s, t
  <2> QED BY <1>2, <1>3, <2>1 DEF p, Connections
<1> HIDE DEF s, t
<1>5. /\ q \in Connections /\ q.fd = p.fd /\ q.closing = p.closing /\ q.readers = p.readers
      /\ q.sent = p.sent /\ q.got = s /\ q.buf = t
  BY <1>2, <1>3 DEF Connections
<1> HIDE DEF q
<1>6. /\ conn' \in [Conns -> Connections] /\ conn'[c] = q
      /\ \A d \in Conns : d # c => conn'[d] = conn[d]
  BY <1>2, <1>4, <1>5
<1>7. Got(c)' = g + 1 /\ Here(c)' = h
  <2>1. Got(c)' = g + 1
    BY <1>3, <1>5, <1>6 DEF Got
  <2>2. Here(c)' = Got(c)' + (h - (g + 1))
    BY <1>3, <1>5, <1>6 DEF Here
  <2>3. (g + 1) + (h - (g + 1)) = h
    BY <1>1
  <2> QED BY <2>1, <2>2, <2>3
<1>8. conn'[c].got = Stretch(c, 0, Got(c)') /\ conn'[c].buf = Stretch(c, Got(c)', Here(c))
  BY <1>5, <1>6, <1>7 DEF s, t, h
<1> QED BY <1>5, <1>6, <1>7, <1>8 DEF p, h

\* Steps of the service that take the next piece.
LEMMA TakeKept ==
    ASSUME Types, Inbound, NEW c \in Conns, conn[c].buf # <<>>, Take(c),
           UNCHANGED <<accepted, peer, mail, conns>>
    PROVE  Inbound'
<1>1. /\ \A d \in Conns : d # c => conn'[d] = conn[d]
      /\ Here(c)' = Here(c)
      /\ conn'[c].got = Stretch(c, 0, Got(c)') /\ conn'[c].buf = Stretch(c, Got(c)', Here(c))
  BY TakeIs
<1>2. \A d \in Conns : Here(d)' = Here(d) /\ Read(d)' = Read(d)
  BY <1>1 DEF Here, Got, Read
<1>3. ASSUME NEW d \in Conns, d # c PROVE InStream(d)'
  BY <1>1, <1>2, <1>3 DEF Inbound, InStream, Got
<1>4. InStream(c)'
  <2>1. /\ Len(peer[c].in) <= peer[c].sent
        /\ peer[c].in = Stretch(c, Read(c), peer[c].sent)
        /\ Here(c) <= Read(c)
    BY DEF Inbound, InStream
  <2> QED BY <1>1, <1>2, <2>1 DEF InStream
<1>5. ASSUME Known' PROVE InMail'
  <2>1. accepted \in Conns /\ InMail
    BY <1>5, ConnIs DEF Inbound, Known
  <2>2. Here(accepted)' = Here(accepted) /\ Read(accepted)' = Read(accepted)
    BY <1>2, <2>1
  <2> QED BY <2>1, <2>2, InMailKept
<1> QED BY <1>3, <1>4, <1>5 DEF Inbound

LEMMA ResumeReaderStep == ASSUME Kept, IInv, ResumeReader PROVE IInv'
<1> USE DEF IInv, Lives
<1>1. /\ run = NoCor /\ forkQ # <<>> /\ forkQ' = Tail(forkQ) /\ run' = Head(forkQ)
      /\ co' = [co EXCEPT ![run'] = "run"] /\ Take(run'[2])
      /\ UNCHANGED <<accepted, open, peer, ctx, pipe, pc, batch, err, mail, conns>>
  BY DEF ResumeReader, kernelVars, threadVars
<1>2. /\ Begun /\ forkQ = <<Cb(accepted)>> /\ co[Cb(accepted)] = "ready" /\ ~Fresh
      /\ accepted \in Conns /\ accepted > 0 /\ ctx.type # "PACCEPT"
      /\ conn[accepted].buf # <<>> /\ conn[accepted].readers = <<>>
  BY <1>1, ConnIs DEF Coroutines, Begun, Fresh
<1>3. /\ run' = Cb(accepted) /\ run' # NoCor /\ run' \in Cors /\ forkQ' = <<>> /\ Take(accepted)
  <2>1. Cb(accepted) \in Cors /\ Cb(accepted) # NoCor /\ Cb(accepted)[2] = accepted
    BY <1>2, CorIs
  <2>2. Head(forkQ) = Cb(accepted) /\ Tail(forkQ) = <<>>
    BY <1>2, <2>1, OneIs
  <2> QED BY <1>1, <2>1, <2>2
<1>4. /\ conn' \in [Conns -> Connections]
      /\ \A d \in Conns : d # accepted => conn'[d] = conn[d]
      /\ \A d \in Conns : /\ conn'[d].fd = conn[d].fd /\ conn'[d].readers = conn[d].readers
                          /\ conn'[d].sent = conn[d].sent
  BY <1>2, <1>3, TakeIs
<1>5. /\ co' \in [Cors -> {"none", "begin", "start", "run", "recv", "ready", "close",
                           "closed", "done"}]
      /\ co'[Cb(accepted)] = "run"
      /\ \A d \in Conns : d # accepted => co'[Cb(d)] = co[Cb(d)]
      /\ \A d \in Conns : co'[Err(d)] = co[Err(d)]
  BY <1>1, <1>2, <1>3, CorIs DEF Types
<1> HIDE DEF Kept
<1>6. Types'
  <2>1. forkQ' \in Seq(Cors)
    BY <1>3, EmptySeq
  <2> QED BY <1>1, <1>3, <1>4, <1>5, <2>1 DEF Types
<1>7. /\ Fresh' = Fresh /\ Begun' = Begun /\ Known' = Known /\ IsReset' = IsReset
  BY <1>1 DEF Fresh, Begun, Known, IsReset
<1>8. \A d \in Conns : (d > accepted \/ d < accepted) => d # accepted
  BY ConnIs
<1>9. Later' /\ Earlier'
  <2>1. ASSUME NEW d \in Conns, d # accepted, Untouched(d) PROVE Untouched(d)'
    BY <1>1, <1>4, <1>5, <2>1 DEF Untouched
  <2>2. Later'
    BY <1>1, <1>2, <1>7, <1>8, <2>1 DEF Later
  <2> QED BY <1>1, <1>5, <1>8, <2>2 DEF Earlier
<1>10. \A x \in {Cb(accepted), Err(accepted)} : co[x] # "ready" => co'[x] = co[x]
  BY <1>2, <1>5
<1>11. Context' /\ Thread' /\ Pipe'
  <2>1. Context'
    BY <1>1, <1>2, <1>7, <1>10 DEF Context
  <2>2. Pipe'
    BY <1>1, <1>2, <1>7, <1>10 DEF Pipe
  <2> QED BY <1>1, <1>7, <2>1, <2>2 DEF Thread
<1>12. Mail'
  BY <1>1, <1>2, <1>7, <1>10 DEF Mail, Begun
<1>13. Coroutines'
  BY <1>1, <1>2, <1>3, <1>4, <1>5, <1>7 DEF Coroutines
<1>14. Resets' /\ Reading'
  BY <1>1, <1>2, <1>5, <1>7 DEF Resets, Reading, Readable, ReadingIsOver
<1>15. Outbound'
  <2>1. ASSUME NEW d \in Conns PROVE OutStream(d)'
    BY <1>1, <1>4, <1>7, <2>1 DEF Outbound, OutStream, Sent
  <2>2. ctx'.valid => OutHeld'
    BY <1>1, <1>2, <1>4 DEF Outbound, OutHeld, Held, Sent
  <2> QED BY <2>1, <2>2 DEF Outbound
<1>16. Inbound'
  BY <1>1, <1>2, <1>3, TakeKept
<1> QED BY <1>6, <1>9, <1>11, <1>12, <1>13, <1>14, <1>15, <1>16

-----------------------------------------------------------------------------
(* The code of a connection.                                               *)

LEMMA CodeIs ==
    ASSUME IInv, NEW c \in Conns, NEW state \in {"begin", "run", "closed"}, InCode(c, state)
    PROVE  /\ c = accepted /\ Begun /\ ~Fresh /\ accepted > 0 /\ ctx.of = accepted
           /\ run = Cb(accepted) /\ co[Cb(accepted)] = state
           /\ Cb(accepted) \in Cors /\ Cb(accepted) # NoCor
           /\ conn[accepted].readers = <<>> /\ forkQ = <<>>
           /\ UNCHANGED <<accepted, peer, pc, batch, err, mail, forkQ>>
           /\ state # "begin" => ctx.type # "PACCEPT"
           /\ \A i \in DOMAIN mail : mail[i].kind = "CLOSED" =>
                 mail[i].cor = Err(accepted)
           /\ \A i \in DOMAIN mail : mail[i].kind \notin {"READY", "NEWCONN"}
<1> USE DEF IInv, Lives
<1>1. /\ run = Cb(c) /\ co[Cb(c)] = state
      /\ UNCHANGED <<accepted, peer, pc, batch, err, mail, forkQ>>
  BY DEF InCode, threadVars
<1>2. c = accepted /\ Begun /\ ~Fresh /\ accepted > 0 /\ ctx.of = accepted
  BY <1>1, CorIs DEF Coroutines, Begun, Fresh
<1>3. Cb(accepted) \in Cors /\ Cb(accepted) # NoCor
  BY <1>2, CorIs
<1>4. conn[accepted].readers = <<>> /\ forkQ = <<>>
  BY <1>1, <1>2 DEF Coroutines
<1>5. state # "begin" => ctx.type # "PACCEPT"
  BY <1>1, <1>2 DEF Coroutines, Context
<1>6. \A i \in DOMAIN mail : mail[i].kind = "CLOSED" => mail[i].cor = Err(accepted)
  BY <1>1, <1>2 DEF Mail
<1>7. \A i \in DOMAIN mail : mail[i].kind \notin {"READY", "NEWCONN"}
  BY <1>1, <1>2 DEF Mail
<1> QED BY <1>1, <1>2, <1>3, <1>4, <1>5, <1>6, <1>7

LEMMA RecvNowStep == ASSUME Kept, IInv, NEW c \in Conns, RecvNow(c) PROVE IInv'
<1> USE DEF IInv, Lives
<1>1. /\ InCode(c, "run") /\ conn[c].buf # <<>> /\ Take(c)
      /\ UNCHANGED <<open, ctx, pipe, conns, co, run>>
  BY DEF RecvNow
<1>2. /\ c = accepted /\ Begun /\ ~Fresh /\ co[Cb(c)] = "run" /\ conn[c].readers = <<>>
      /\ UNCHANGED <<accepted, peer, pc, batch, err, mail, forkQ>>
  BY <1>1, CodeIs
<1>3. /\ conn' \in [Conns -> Connections]
      /\ \A d \in Conns : d # accepted => conn'[d] = conn[d]
      /\ \A d \in Conns : /\ conn'[d].fd = conn[d].fd /\ conn'[d].readers = conn[d].readers
                          /\ conn'[d].sent = conn[d].sent
  BY <1>1, <1>2, TakeIs
<1> HIDE DEF Kept
<1>4. Types' /\ Fresh' = Fresh /\ Begun' = Begun /\ Known' = Known /\ IsReset' = IsReset
  BY <1>1, <1>2, <1>3 DEF Types, Fresh, Begun, Known, IsReset
<1>5. \A d \in Conns : (d > accepted \/ d < accepted) => d # accepted
  BY ConnIs
<1>6. Later' /\ Earlier'
  <2>1. ASSUME NEW d \in Conns, d # accepted, Untouched(d) PROVE Untouched(d)'
    BY <1>1, <1>2, <1>3, <2>1 DEF Untouched
  <2>2. Later'
    BY <1>1, <1>2, <1>4, <1>5, <2>1 DEF Later
  <2> QED BY <1>1, <1>2, <1>5, <2>2 DEF Earlier
<1>7. Context' /\ Thread' /\ Pipe' /\ Mail'
  BY <1>1, <1>2, <1>4 DEF Context, Thread, Pipe, Mail
<1>8. Coroutines'
  <2>1. \A d \in Conns :
          /\ conn'[d].readers # <<>> => conn'[d].readers = <<Cb(d)>> /\ co'[Cb(d)] = "recv"
          /\ co'[Cb(d)] = "ready" => conn'[d].buf # <<>>
    <3> TAKE d \in Conns
    <3>1. CASE d = accepted
      BY <1>1, <1>2, <1>3, <3>1
    <3>2. CASE d # accepted
      BY <1>1, <1>3, <3>2 DEF Coroutines
    <3> QED BY <3>1, <3>2
  <2> QED BY <1>1, <1>2, <1>4, <2>1 DEF Coroutines
<1>9. Resets' /\ Reading'
  BY <1>1, <1>2, <1>4 DEF Resets, Reading, Readable, ReadingIsOver
<1>10. Outbound'
  <2>1. ASSUME NEW d \in Conns PROVE OutStream(d)'
    BY <1>1, <1>2, <1>3, <1>4, <2>1 DEF Outbound, OutStream, Sent
  <2>2. ctx'.valid => OutHeld'
    BY <1>1, <1>2, <1>3 DEF Outbound, OutHeld, Held, Sent
  <2> QED BY <2>1, <2>2 DEF Outbound
<1>11. Inbound'
  BY <1>1, <1>2, TakeKept
<1> QED BY <1>4, <1>6, <1>7, <1>8, <1>9, <1>10, <1>11

LEMMA RecvWaitStep == ASSUME Kept, IInv, NEW c \in Conns, RecvWait(c) PROVE IInv'
<1> USE DEF IInv, Lives
<1>1. /\ InCode(c, "run") /\ conn' = [conn EXCEPT ![c].readers = Append(@, Cb(c))]
      /\ co' = [co EXCEPT ![Cb(c)] = "recv"] /\ run' = NoCor
      /\ UNCHANGED <<open, ctx, pipe, conns>>
  BY DEF RecvWait
<1>2. /\ c = accepted /\ Begun /\ ~Fresh /\ co[Cb(c)] = "run" /\ conn[c].readers = <<>>
      /\ UNCHANGED <<accepted, peer, pc, batch, err, mail, forkQ>> /\ forkQ = <<>>
      /\ Cb(c) \in Cors /\ ctx.type # "PACCEPT" /\ accepted > 0
      /\ \A i \in DOMAIN mail : mail[i].kind = "CLOSED" => mail[i].cor = Err(accepted)
      /\ \A i \in DOMAIN mail : mail[i].kind # "READY"
  BY <1>1, CodeIs
<1>3. /\ conn' \in [Conns -> Connections]
      /\ \A d \in Conns : d # accepted => conn'[d] = conn[d]
      /\ \A d \in Conns : /\ conn'[d].fd = conn[d].fd /\ conn'[d].sent = conn[d].sent
                          /\ conn'[d].buf = conn[d].buf /\ conn'[d].got = conn[d].got
      /\ conn'[accepted].readers = <<Cb(accepted)>>
  <2> DEFINE s == <<Cb(c)>>
             p == conn[c]
             q == [p EXCEPT !.readers = s]
  <2>1. p \in Connections /\ conn \in [Conns -> Connections] /\ s \in Seq(Cors)
    BY <1>2, OneIs DEF Types
  <2>2. Append(p.readers, Cb(c)) = s
    BY <1>2
  <2>3. conn' = [conn EXCEPT ![c] = [p EXCEPT !.readers = Append(p.readers, Cb(c))]]
    BY <1>1
  <2> HIDE DEF p, s
  <2>4. conn' = [conn EXCEPT ![c] = q]
    BY <2>2, <2>3
  <2>5. /\ q \in Connections /\ q.fd = p.fd /\ q.sent = p.sent /\ q.buf = p.buf
        /\ q.got = p.got /\ q.readers = s
    BY <2>1 DEF Connections
  <2> HIDE DEF q
  <2> QED BY <1>2, <2>1, <2>4, <2>5 DEF p, s
<1>4. /\ co' \in [Cors -> {"none", "begin", "start", "run", "recv", "ready", "close",
                           "closed", "done"}]
      /\ co'[Cb(accepted)] = "recv"
      /\ \A d \in Conns : d # accepted => co'[Cb(d)] = co[Cb(d)]
      /\ \A d \in Conns : co'[Err(d)] = co[Err(d)]
  BY <1>1, <1>2, CorIs DEF Types
<1> HIDE DEF Kept
<1>5. Types' /\ Fresh' = Fresh /\ Begun' = Begun /\ Known' = Known /\ IsReset' = IsReset
  BY <1>1, <1>2, <1>3, <1>4 DEF Types, Fresh, Begun, Known, IsReset
<1>6. \A d \in Conns : (d > accepted \/ d < accepted) => d # accepted
  BY ConnIs
<1>7. Later' /\ Earlier'
  <2>1. ASSUME NEW d \in Conns, d # accepted, Untouched(d) PROVE Untouched(d)'
    BY <1>1, <1>2, <1>3, <1>4, <2>1 DEF Untouched
  <2>2. Later'
    BY <1>1, <1>2, <1>5, <1>6, <2>1 DEF Later
  <2> QED BY <1>1, <1>2, <1>4, <1>6, <2>2 DEF Earlier
<1>8. \A x \in {Cb(accepted), Err(accepted)} : co[x] # "run" => co'[x] = co[x]
  BY <1>2, <1>4
<1>9. Context' /\ Thread' /\ Pipe'
  <2>1. Context'
    BY <1>1, <1>2, <1>5, <1>8 DEF Context
  <2>2. Pipe'
    BY <1>1, <1>2, <1>5, <1>8 DEF Pipe
  <2> QED BY <1>1, <1>2, <1>5, <2>1, <2>2 DEF Thread
<1>10. Mail'
  BY <1>1, <1>2, <1>4, <1>5 DEF Mail, Begun
<1>11. Coroutines'
  BY <1>1, <1>2, <1>3, <1>4, <1>5 DEF Coroutines
<1>12. Resets' /\ Reading'
  BY <1>1, <1>2, <1>4, <1>5 DEF Resets, Reading, Readable, ReadingIsOver
<1>13. Outbound'
  <2>1. ASSUME NEW d \in Conns PROVE OutStream(d)'
    BY <1>1, <1>2, <1>3, <1>5, <2>1 DEF Outbound, OutStream, Sent
  <2>2. ctx'.valid => OutHeld'
    BY <1>1, <1>2, <1>3 DEF Outbound, OutHeld, Held, Sent
  <2> QED BY <2>1, <2>2 DEF Outbound
<1>14. Inbound'
  BY <1>1, <1>2, <1>3, <1>5, InboundKept
<1> QED BY <1>5, <1>7, <1>9, <1>10, <1>11, <1>12, <1>13, <1>14

LEMMA PipePushed ==
    ASSUME Types, NEW m \in Commands, pipe' = Append(pipe, m)
    PROVE  \E l \in Nat :
             /\ Len(pipe) = l /\ Len(pipe') = l + 1 /\ DOMAIN pipe = 1..l /\ DOMAIN pipe' = 1..(l + 1)
             /\ pipe' \in Seq(Commands) /\ pipe'[l + 1] = m /\ pipe' # <<>>
             /\ (pipe = <<>> <=> l = 0)
             /\ \A i \in 1..l : pipe'[i] = pipe[i]
<1>1. pipe \in Seq(Commands)
  BY DEF Types
<1>2. /\ pipe' \in Seq(Commands) /\ Len(pipe') = Len(pipe) + 1
      /\ DOMAIN pipe' = 1..(Len(pipe) + 1) /\ pipe' # <<>>
      /\ \A i \in 1..Len(pipe) : pipe'[i] = pipe[i]
      /\ pipe'[Len(pipe) + 1] = m
  BY <1>1, AppendIs
<1>3. PICK l \in Nat : l = Len(pipe) /\ DOMAIN pipe = 1..l /\ (pipe = <<>> <=> l = 0)
  BY <1>1, SeqIs
<1> QED BY <1>2, <1>3

LEMMA StartStep == ASSUME Kept, IInv, NEW c \in Conns, Start(c) PROVE IInv'
<1> USE DEF IInv, Lives
<1>1. /\ InCode(c, "begin") /\ pipe' = Append(pipe, Command("S", c, Cb(c), <<>>))
      /\ co' = [co EXCEPT ![Cb(c)] = "start"] /\ run' = NoCor
      /\ UNCHANGED <<open, ctx, conns, conn>>
  BY DEF Start, SendCtrl
<1>2. /\ c = accepted /\ Begun /\ ~Fresh /\ co[Cb(c)] = "begin" /\ conn[c].readers = <<>>
      /\ UNCHANGED <<accepted, peer, pc, batch, err, mail, forkQ>> /\ forkQ = <<>>
      /\ Cb(c) \in Cors /\ accepted > 0
      /\ \A i \in DOMAIN mail : mail[i].kind = "CLOSED" => mail[i].cor = Err(accepted)
      /\ \A i \in DOMAIN mail : mail[i].kind # "READY"
  BY <1>1, CodeIs
<1>3. ctx.type = "PACCEPT" /\ pipe = <<>> /\ ctx.valid /\ ~ctx.closing /\ ctx.wb = <<>>
  BY <1>2 DEF Coroutines, Context
<1> DEFINE m == Command("S", c, Cb(c), <<>>)
<1>4. m \in Commands /\ m.cmd = "S" /\ m.conn = accepted /\ m.cor = Cb(accepted)
  BY <1>2, EmptySeq DEF Command, Commands
<1> HIDE DEF m
<1>5. /\ Len(pipe') = 1 /\ pipe'[1] = m /\ DOMAIN pipe' = 1..1 /\ pipe' # <<>>
      /\ pipe' \in Seq(Commands)
  <2>1. pipe' = Append(pipe, m)
    BY <1>1 DEF m
  <2> QED BY <1>3, <1>4, <2>1, PipePushed
<1>6. /\ co' \in [Cors -> {"none", "begin", "start", "run", "recv", "ready", "close",
                           "closed", "done"}]
      /\ co'[Cb(accepted)] = "start"
      /\ \A d \in Conns : d # accepted => co'[Cb(d)] = co[Cb(d)]
      /\ \A d \in Conns : co'[Err(d)] = co[Err(d)]
  BY <1>1, <1>2, CorIs DEF Types
<1> HIDE DEF Kept
<1>7. Types' /\ Fresh' = Fresh /\ Begun' = Begun /\ Known' = Known /\ IsReset' = IsReset
  BY <1>1, <1>2, <1>5, <1>6 DEF Types, Fresh, Begun, Known, IsReset
<1>8. \A d \in Conns : (d > accepted \/ d < accepted) => d # accepted
  BY ConnIs
<1>9. Later' /\ Earlier'
  <2>1. ASSUME NEW d \in Conns, d # accepted, Untouched(d) PROVE Untouched(d)'
    BY <1>1, <1>2, <1>6, <2>1 DEF Untouched
  <2>2. Later'
    BY <1>1, <1>2, <1>7, <1>8, <2>1 DEF Later
  <2> QED BY <1>1, <1>2, <1>6, <1>8, <2>2 DEF Earlier
<1>10. Context' /\ Thread'
  <2>1. Context'
    BY <1>1, <1>2, <1>3, <1>6, <1>7 DEF Context
  <2> QED BY <1>1, <1>2, <1>7, <2>1 DEF Thread
<1>11. Pipe'
  <2>1. \A i \in DOMAIN pipe' : i = 1
    BY <1>5
  <2> QED BY <1>1, <1>2, <1>3, <1>4, <1>5, <1>6, <2>1 DEF Pipe
<1>12. Mail'
  BY <1>1, <1>2, <1>6, <1>7 DEF Mail, Begun
<1>13. Coroutines'
  BY <1>1, <1>2, <1>6, <1>7 DEF Coroutines
<1>14. Resets' /\ Reading'
  BY <1>1, <1>2, <1>3, <1>6, <1>7 DEF Resets, Reading, Readable, ReadingIsOver
<1>15. Outbound'
  <2>1. ASSUME NEW d \in Conns PROVE OutStream(d)'
    BY <1>1, <1>2, <1>7, <2>1 DEF Outbound, OutStream, Sent
  <2>2. Held' = Held /\ Sent(accepted)' = Sent(accepted) /\ OutHeld
    BY <1>1, <1>2, <1>3 DEF Held, Sent, Outbound
  <2>3. conn[accepted].sent = Held + 0
    <3>1. Len(pipe) = 0
      BY <1>3
    <3> QED BY <1>3, <2>2, <3>1 DEF OutHeld
  <2>4. pipe'[Len(pipe')].cmd # "D" /\ Len(pipe') - 1 = 0
    BY <1>4, <1>5
  <2>5. \A i \in DOMAIN pipe' : pipe'[i].cmd # "D"
    BY <1>4, <1>5
  <2>6. OutHeld'
    BY <1>1, <1>2, <1>5, <2>2, <2>3, <2>4, <2>5 DEF OutHeld
  <2> QED BY <2>1, <2>6 DEF Outbound
<1>16. Inbound'
  BY <1>1, <1>2, <1>7, InboundKept
<1> QED BY <1>7, <1>9, <1>10, <1>11, <1>12, <1>13, <1>14, <1>15, <1>16

LEMMA SendStep == ASSUME Kept, IInv, NEW c \in Conns, Send(c) PROVE IInv'
<1> USE DEF IInv, Lives
<1>1. /\ InCode(c, "run") /\ ~ctx.closing
      /\ conn' = [conn EXCEPT ![c].sent = @ + 1]
      /\ pipe' = Append(pipe, Command("D", c, NoCor, <<Piece(c, conn[c].sent + 1)>>))
      /\ UNCHANGED <<open, ctx, conns, co, run>>
  BY DEF Send, SendCtrl
<1>2. /\ c = accepted /\ Begun /\ ~Fresh /\ co[Cb(c)] = "run" /\ conn[c].readers = <<>>
      /\ UNCHANGED <<accepted, peer, pc, batch, err, mail, forkQ>> /\ forkQ = <<>>
      /\ Cb(c) \in Cors /\ accepted > 0 /\ ctx.type # "PACCEPT"
  BY <1>1, CodeIs
<1>3. ctx.valid /\ \A i \in DOMAIN pipe : pipe[i].cmd = "D"
  <2>1. ctx.valid
    BY <1>1, <1>2 DEF Context
  <2>2. \A i \in DOMAIN pipe : pipe[i].cmd \notin {"S", "C"}
    BY <1>1, <1>2 DEF Pipe
  <2> QED BY <2>1, <2>2, PipeIs
<1> DEFINE n == conn[accepted].sent
           w == <<Piece(accepted, n + 1)>>
           m == Command("D", accepted, NoCor, w)
<1>4. n \in Nat
  BY <1>2, ConnectionIs
<1> HIDE DEF n
<1>5. w \in Seq(PieceSet)
  BY <1>2, <1>4, OneIs DEF Piece, PieceSet
<1>6. pipe' = Append(pipe, m)
  BY <1>1, <1>2 DEF n
<1> HIDE DEF w
<1>7. m \in Commands /\ m.cmd = "D" /\ m.conn = accepted /\ m.data = w
  BY <1>2, <1>5 DEF Command, Commands
<1> HIDE DEF m
<1>8. PICK l \in Nat :
        /\ Len(pipe) = l /\ Len(pipe') = l + 1 /\ DOMAIN pipe = 1..l /\ DOMAIN pipe' = 1..(l + 1)
        /\ pipe' \in Seq(Commands) /\ pipe'[l + 1] = m /\ pipe' # <<>>
        /\ (pipe = <<>> <=> l = 0)
        /\ \A i \in 1..l : pipe'[i] = pipe[i]
  BY <1>6, <1>7, PipePushed
<1>9. /\ conn' \in [Conns -> Connections]
      /\ \A d \in Conns : d # accepted => conn'[d] = conn[d]
      /\ \A d \in Conns : /\ conn'[d].fd = conn[d].fd /\ conn'[d].readers = conn[d].readers
                          /\ conn'[d].buf = conn[d].buf /\ conn'[d].got = conn[d].got
      /\ conn'[accepted].sent = n + 1
  <2> DEFINE p == conn[accepted]
             q == [p EXCEPT !.sent = n + 1]
  <2>0. PICK k \in Nat : k = n + 1
    BY <1>4
  <2>1. p \in Connections /\ conn \in [Conns -> Connections]
    BY <1>2 DEF Types
  <2>2. conn' = [conn EXCEPT ![accepted] = q]
    BY <1>1, <1>2 DEF n
  <2> HIDE DEF p
  <2>3. /\ q \in Connections /\ q.fd = p.fd /\ q.readers = p.readers /\ q.buf = p.buf
        /\ q.got = p.got /\ q.sent = n + 1
    <3>1. q = [p EXCEPT !.sent = k]
      BY <2>0
    <3> HIDE DEF q
    <3>2. /\ q \in Connections /\ q.fd = p.fd /\ q.readers = p.readers /\ q.buf = p.buf
          /\ q.got = p.got /\ q.sent = k
      BY <2>1, <3>1 DEF Connections
    <3> QED BY <2>0, <3>2
  <2> HIDE DEF q
  <2> QED BY <1>2, <2>1, <2>2, <2>3 DEF p
<1> HIDE DEF Kept
<1>10. Types' /\ Fresh' = Fresh /\ Begun' = Begun /\ Known' = Known /\ IsReset' = IsReset
  BY <1>1, <1>2, <1>8, <1>9 DEF Types, Fresh, Begun, Known, IsReset
<1>11. \A d \in Conns : (d > accepted \/ d < accepted) => d # accepted
  BY ConnIs
<1>12. Later' /\ Earlier'
  <2>1. ASSUME NEW d \in Conns, d # accepted, Untouched(d) PROVE Untouched(d)'
    BY <1>1, <1>2, <1>9, <2>1 DEF Untouched
  <2>2. Later'
    BY <1>1, <1>2, <1>10, <1>11, <2>1 DEF Later
  <2> QED BY <1>1, <1>2, <2>2 DEF Earlier
<1>13. Context' /\ Thread'
  BY <1>1, <1>2, <1>10 DEF Context, Thread
<1>14. Pipe'
  <2> SUFFICES ASSUME NEW i \in DOMAIN pipe'
               PROVE  pipe'[i].cmd = "D" /\ pipe'[i].conn = accepted
    BY <1>1, <1>2, <1>3 DEF Pipe
  <2>1. CASE i = l + 1
    BY <1>7, <1>8, <2>1
  <2>2. CASE i \in 1..l
    BY <1>3, <1>8, <2>2 DEF Pipe
  <2> QED BY <1>8, <2>1, <2>2
<1>15. Mail'
  BY <1>1, <1>2, <1>10 DEF Mail
<1>16. Coroutines'
  <2>1. \A d \in Conns :
          /\ conn'[d].readers # <<>> => conn'[d].readers = <<Cb(d)>> /\ co'[Cb(d)] = "recv"
          /\ co'[Cb(d)] = "ready" => conn'[d].buf # <<>>
    BY <1>1, <1>9 DEF Coroutines
  <2> QED BY <1>1, <1>2, <1>10, <2>1 DEF Coroutines
<1>17. Resets' /\ Reading'
  BY <1>1, <1>2, <1>10 DEF Resets, Reading, Readable, ReadingIsOver
<1>18. Outbound'
  <2>0. Sent(accepted) \in Nat /\ Held \in Nat /\ Sent(accepted) <= n
    <3>1. Sent(accepted) <= n
      BY <1>2 DEF Outbound, OutStream, n
    <3> QED BY <1>2, <3>1, HeldIs
  <2>1. Held' = Held /\ Sent(accepted)' = Sent(accepted) /\ OutHeld
    BY <1>1, <1>2, <1>3 DEF Held, Sent, Outbound
  <2>2. ASSUME NEW d \in Conns, d # accepted PROVE OutStream(d)'
    BY <1>1, <1>2, <1>9, <1>10, <2>2 DEF Outbound, OutStream, Sent
  <2>3. OutStream(accepted)'
    <3>1. Sent(accepted) <= n + 1
      BY <1>4, <2>0
    <3>2. peer[accepted].out = Stretch(accepted, 0, Sent(accepted))
          /\ (~conn[accepted].fd => accepted < accepted \/ ~ctx.valid)
      BY <1>2 DEF Outbound, OutStream
    <3>3. conn[accepted].fd
      BY <1>3, <3>2, ConnIs, ConnectionIs
    <3> QED BY <1>1, <1>2, <1>3, <1>9, <2>1, <3>1, <3>2, <3>3 DEF OutStream
  <2>4. n = Held + l
    <3>1. pipe # <<>> => pipe[Len(pipe)].cmd = "D"
      <4>1. l # 0 => l \in 1..l
        BY <1>8
      <4> QED BY <1>3, <1>8, <4>1
    <3> QED BY <1>8, <2>1, <3>1 DEF OutHeld, n
  <2>5. n + 1 = Held + (l + 1)
    BY <2>0, <2>4
  <2>6. ASSUME NEW i \in DOMAIN pipe' PROVE pipe'[i].data = <<Piece(accepted, Held + i)>>
    <3>1. CASE i = l + 1
      BY <1>7, <1>8, <2>5, <3>1 DEF w
    <3>2. CASE i \in 1..l
      BY <1>3, <1>8, <2>1, <3>2 DEF OutHeld
    <3> QED BY <1>8, <3>1, <3>2
  <2>7. pipe'[Len(pipe')].cmd = "D"
    BY <1>7, <1>8
  <2>8. OutHeld'
    BY <1>1, <1>2, <1>8, <1>9, <2>1, <2>5, <2>6, <2>7 DEF OutHeld
  <2> QED BY <1>2, <2>2, <2>3, <2>8 DEF Outbound
<1>19. Inbound'
  BY <1>1, <1>2, <1>9, <1>10, InboundKept
<1> QED BY <1>10, <1>12, <1>13, <1>14, <1>15, <1>16, <1>17, <1>18, <1>19

LEMMA CloseStep == ASSUME Kept, IInv, NEW c \in Conns, Close(c) PROVE IInv'
<1> USE DEF IInv, Lives
<1>1. /\ InCode(c, "run") /\ open' = open
      /\ IF ctx.closing
         THEN co' = [co EXCEPT ![Cb(c)] = "closed"] /\ UNCHANGED <<ctx, pipe, conns, conn, run>>
         ELSE BeginClose(Cb(c), c) /\ run' = NoCor
  BY DEF Close
<1>2. /\ c = accepted /\ Begun /\ ~Fresh /\ co[Cb(c)] = "run" /\ conn[c].readers = <<>>
      /\ UNCHANGED <<accepted, peer, pc, batch, err, mail, forkQ>> /\ forkQ = <<>>
      /\ run = Cb(accepted)
      /\ Cb(c) \in Cors /\ accepted > 0 /\ ctx.type # "PACCEPT"
      /\ \A i \in DOMAIN mail : mail[i].kind = "CLOSED" => mail[i].cor = Err(accepted)
      /\ \A i \in DOMAIN mail : mail[i].kind # "READY"
  BY <1>1, CodeIs
<1>3. CASE ~ctx.closing
  <2>1. BeginClose(Cb(accepted), accepted) /\ run' = NoCor
    BY <1>1, <1>2, <1>3
  <2>2. Cb(accepted) # Err(accepted)
    BY <1>2, CorIs
  <2> QED BY <1>1, <1>2, <1>3, <2>1, <2>2, BeginCloseKept
<1>4. CASE ctx.closing
  <2>1. /\ co' = [co EXCEPT ![Cb(accepted)] = "closed"]
        /\ UNCHANGED <<open, ctx, pipe, conns, conn, run>>
    BY <1>1, <1>2, <1>4
  <2>2. /\ co' \in [Cors -> {"none", "begin", "start", "run", "recv", "ready", "close",
                             "closed", "done"}]
        /\ co'[Cb(accepted)] = "closed"
        /\ \A d \in Conns : d # accepted => co'[Cb(d)] = co[Cb(d)]
        /\ \A d \in Conns : co'[Err(d)] = co[Err(d)]
    BY <1>2, <2>1, CorIs DEF Types
  <2> HIDE DEF Kept
  <2>3. Types' /\ Fresh' = Fresh /\ Begun' = Begun /\ Known' = Known /\ IsReset' = IsReset
    BY <1>2, <2>1, <2>2 DEF Types, Fresh, Begun, Known, IsReset
  <2>4. \A d \in Conns : (d > accepted \/ d < accepted) => d # accepted
    BY ConnIs
  <2>5. Later' /\ Earlier'
    <3>1. ASSUME NEW d \in Conns, d # accepted, Untouched(d) PROVE Untouched(d)'
      BY <1>2, <2>1, <2>2, <3>1 DEF Untouched
    <3>2. Later'
      BY <1>2, <2>1, <2>3, <2>4, <3>1 DEF Later
    <3> QED BY <1>2, <2>1, <2>2, <2>4, <3>2 DEF Earlier
  <2>6. \A x \in {Cb(accepted), Err(accepted)} : co[x] # "run" => co'[x] = co[x]
    BY <1>2, <2>2
  <2>7. Context' /\ Thread' /\ Pipe'
    <3>1. Context'
      BY <1>2, <2>1, <2>3, <2>6 DEF Context
    <3>2. Pipe'
      BY <1>2, <2>1, <2>3, <2>6 DEF Pipe
    <3> QED BY <1>2, <2>1, <2>3, <3>1, <3>2 DEF Thread
  <2>8. Mail'
    BY <1>2, <2>1, <2>2, <2>3 DEF Mail, Begun
  <2>9. Coroutines'
    BY <1>2, <2>1, <2>2, <2>3 DEF Coroutines
  <2>10. Resets' /\ Reading'
    BY <1>2, <1>4, <2>1, <2>2, <2>3 DEF Resets, Reading, Readable, ReadingIsOver
  <2>11. Outbound'
    BY <1>2, <2>1, OutboundKept
  <2>12. Inbound'
    BY <1>2, <2>1, <2>3, InboundKept
  <2> QED BY <2>3, <2>5, <2>7, <2>8, <2>9, <2>10, <2>11, <2>12
<1> QED BY <1>3, <1>4

LEMMA ReturnStep == ASSUME Kept, IInv, NEW c \in Conns, Return(c) PROVE IInv'
<1> USE DEF IInv, Lives
<1>1. /\ InCode(c, "closed") \/ (InCode(c, "run") /\ ~conn[c].fd)
      /\ open' = NoConn /\ ctx' = [ctx EXCEPT !.watch = {}]
      /\ co' = [co EXCEPT ![Cb(c)] = "done"] /\ run' = NoCor
      /\ UNCHANGED <<pipe, conns, conn>>
  BY DEF Return
<1>2. PICK state \in {"closed", "run"} :
        /\ c = accepted /\ Begun /\ ~Fresh /\ co[Cb(c)] = state /\ conn[c].readers = <<>>
        /\ UNCHANGED <<accepted, peer, pc, batch, err, mail, forkQ>> /\ forkQ = <<>>
        /\ Cb(c) \in Cors /\ accepted > 0 /\ ctx.type # "PACCEPT" /\ ctx.of = accepted
        /\ \A i \in DOMAIN mail : mail[i].kind = "CLOSED" => mail[i].cor = Err(accepted)
        /\ \A i \in DOMAIN mail : mail[i].kind # "READY"
        /\ state = "run" => ~conn[accepted].fd
  <2>1. CASE InCode(c, "closed")
    BY <2>1, CodeIs
  <2>2. CASE InCode(c, "run") /\ ~conn[c].fd
    BY <2>2, CodeIs
  <2> QED BY <1>1, <2>1, <2>2
<1>3. ctx.valid => co[Err(accepted)] # "none" /\ IsReset
  <2>1. CASE state = "closed"
    BY <1>2, <2>1 DEF Resets, IsReset
  <2>2. CASE state = "run"
    BY <1>2, <2>2, ConnIs DEF Outbound, OutStream
  <2> QED BY <2>1, <2>2
<1>4. /\ co' \in [Cors -> {"none", "begin", "start", "run", "recv", "ready", "close",
                           "closed", "done"}]
      /\ co'[Cb(accepted)] = "done"
      /\ \A d \in Conns : d # accepted => co'[Cb(d)] = co[Cb(d)]
      /\ \A d \in Conns : co'[Err(d)] = co[Err(d)]
  BY <1>1, <1>2, CorIs DEF Types
<1>5. /\ ctx' \in Contexts /\ ctx'.of = ctx.of /\ ctx'.valid = ctx.valid /\ ctx'.type = ctx.type
      /\ ctx'.revents = ctx.revents /\ ctx'.wb = ctx.wb /\ ctx'.closing = ctx.closing
      /\ ctx'.closer = ctx.closer /\ ctx'.watch = {}
  <2>1. ctx \in Contexts
    BY DEF Types
  <2> QED BY <1>1, <2>1 DEF Contexts
<1> HIDE DEF Kept
<1>6. Types' /\ Fresh' = Fresh /\ Begun' = Begun /\ Known' = Known /\ IsReset' = IsReset
  BY <1>1, <1>2, <1>4, <1>5 DEF Types, Fresh, Begun, Known, IsReset
<1>7. \A d \in Conns : (d > accepted \/ d < accepted) => d # accepted
  BY ConnIs
<1>8. Later' /\ Earlier'
  <2>1. ASSUME NEW d \in Conns, d # accepted, Untouched(d) PROVE Untouched(d)'
    BY <1>1, <1>2, <1>4, <2>1 DEF Untouched
  <2>2. Later'
    BY <1>1, <1>2, <1>6, <1>7, <2>1 DEF Later
  <2> QED BY <1>1, <1>2, <1>4, <1>7, <2>2 DEF Earlier
<1>9. \A x \in {Cb(accepted), Err(accepted)} : co[x] \notin {"run", "closed"} => co'[x] = co[x]
  BY <1>2, <1>4
<1>10. Context' /\ Thread' /\ Pipe'
  <2>1. Context'
    BY <1>1, <1>2, <1>5, <1>6, <1>9 DEF Context
  <2>2. Pipe'
    BY <1>1, <1>2, <1>5, <1>6, <1>9 DEF Pipe
  <2> QED BY <1>1, <1>2, <1>5, <1>6, <2>1, <2>2 DEF Thread
<1>11. Mail'
  BY <1>1, <1>2, <1>4, <1>5, <1>6 DEF Mail, Begun
<1>12. Coroutines'
  BY <1>1, <1>2, <1>4, <1>5, <1>6 DEF Coroutines
<1>13. Resets' /\ Reading'
  BY <1>1, <1>2, <1>3, <1>4, <1>5, <1>6 DEF Resets, Reading, Readable, ReadingIsOver
<1>14. Outbound'
  BY <1>1, <1>2, <1>5, OutboundKept
<1>15. Inbound'
  BY <1>1, <1>2, <1>6, InboundKept
<1> QED BY <1>6, <1>8, <1>10, <1>11, <1>12, <1>13, <1>14, <1>15

-----------------------------------------------------------------------------
(* The invariant and what follows from it.                                 *)

LEMMA Stutters == ASSUME IInv, UNCHANGED vars PROVE IInv'
<1> USE DEF IInv, Lives
<1>1. UNCHANGED <<accepted, open, peer, ctx, pipe, pc, batch, err, mail, conns, conn, co, run, forkQ>>
  BY DEF vars, kernelVars, threadVars, serviceVars
<1>2. Types' /\ Fresh' = Fresh /\ Begun' = Begun /\ Known' = Known /\ IsReset' = IsReset
  BY <1>1 DEF Types, Fresh, Begun, Known, IsReset
<1>3. Later' /\ Earlier' /\ Context' /\ Thread' /\ Pipe' /\ Mail' /\ Coroutines'
  BY <1>1, <1>2 DEF Later, Earlier, Context, Thread, Pipe, Mail, Coroutines, Untouched
<1>4. Resets' /\ Reading'
  BY <1>1, <1>2 DEF Resets, Reading, Readable, ReadingIsOver
<1>5. Outbound'
  BY <1>1, OutboundKept
<1>6. Inbound'
  BY <1>1, <1>2, InboundKept
<1> QED BY <1>2, <1>3, <1>4, <1>5, <1>6

LEMMA Continues == ASSUME Kept PROVE IInv /\ [Next]_vars => IInv'
<1> SUFFICES ASSUME IInv, [Next]_vars PROVE IInv'
  OBVIOUS
<1>1. CASE \E c \in Conns : PeerSends(c) \/ \E how \in {"fin", "reset"} : PeerEnds(c, how)
  BY <1>1, PeerSendsStep, PeerEndsStep
<1>2. CASE NewConnection
  BY <1>2, NewConnectionStep
<1>3. CASE SocketThread
  <2>1. CASE Poll \/ TakePipe \/ TakeContext \/ PipeEnds
    BY <2>1, PollStep, TurnStep, TakeContextStep
  <2>2. CASE ReadError \/ ReadEnd \/ ReadData
    BY <2>2, ReadErrorStep, ReadEndStep, ReadDataStep
  <2>3. CASE WriteAll \/ WriteSome \/ WriteError \/ ReportError
    BY <2>3, WriteStep, ReportErrorStep
  <2>4. CASE HandleStart \/ HandleData \/ HandleClose
    BY <2>4, HandleStartStep, HandleDataStep, HandleCloseStep
  <2> QED BY <1>3, <2>1, <2>2, <2>3, <2>4 DEF SocketThread
<1>4. CASE WorkerLoop
  BY <1>4, HandleNewConnStep, HandleReadStep, HandleHalfCloseStep, HandleErrorStep,
     StartedStep, ClosedStep, ResumeReaderStep DEF WorkerLoop
<1>5. CASE Code
  BY <1>5, StartStep, SendStep, RecvNowStep, RecvWaitStep, CloseStep, ReturnStep DEF Code
<1>6. CASE UNCHANGED vars
  BY <1>6, Stutters
<1> QED BY <1>1, <1>2, <1>3, <1>4, <1>5, <1>6 DEF Next

LEMMA Begins == Init => IInv
<1> SUFFICES ASSUME Init PROVE IInv
  OBVIOUS
<1> USE DEF Init, NoConn
<1>1. /\ NConns \in Nat /\ \A c \in Conns : c \in Nat /\ c > 0
      /\ NoConn \notin Conns
  BY SocketsAssumption DEF Conns
<1>2. <<>> \in Seq(PieceSet) /\ <<>> \in Seq(Cors) /\ <<>> \in Seq(Commands) /\ <<>> \in Seq(Packles)
  BY EmptySeq
<1>3. /\ DOMAIN pipe = {} /\ DOMAIN mail = {} /\ Len(<<>>) = 0
      /\ pipe = <<>> /\ mail = <<>>
  OBVIOUS
<1>4. ctx \in Contexts /\ ctx.of = NoConn /\ ~ctx.valid /\ ctx.type = "NEW" /\ ctx.watch = {}
      /\ ctx.revents = {} /\ ctx.closer = NoCor /\ ~ctx.closing
  BY <1>2 DEF NewContext, Contexts, SockTypes
<1>5. /\ peer \in [Conns -> Streams]
      /\ \A c \in Conns : /\ peer[c].in = <<>> /\ peer[c].sent = 0 /\ peer[c].eof = "no"
                          /\ peer[c].shut = FALSE /\ peer[c].out = <<>>
  BY <1>2 DEF Streams
<1>6. /\ conn \in [Conns -> Connections]
      /\ \A c \in Conns : conn[c] = [fd |-> TRUE, closing |-> FALSE, buf |-> <<>>,
                                readers |-> <<>>, got |-> <<>>, sent |-> 0]
  BY <1>2 DEF Connections
<1>7. /\ co \in [Cors -> {"none", "begin", "start", "run", "recv", "ready", "close",
                          "closed", "done"}]
      /\ \A c \in Conns : co[Cb(c)] = "none" /\ co[Err(c)] = "none"
  BY CorIs
<1>8. accepted = 0 /\ open = 0 /\ conns = 0 /\ pc = "loop" /\ batch = {} /\ err = FALSE
      /\ run = NoCor /\ forkQ = <<>>
  OBVIOUS
<1> HIDE DEF Init
<1>9. Types
  <2>1. accepted \in 0..NConns /\ open \in {NoConn, accepted} /\ conns \in {NoConn, accepted}
    BY <1>1, <1>8
  <2>2. pipe \in Seq(Commands) /\ mail \in Seq(Packles) /\ forkQ \in Seq(Cors)
    BY <1>2, <1>3, <1>8
  <2>3. batch \in SUBSET {"pipe", "conn"} /\ err \in BOOLEAN /\ run \in Cors \cup {NoCor}
        /\ pc \in {"loop", "pipe", "read", "write", "report"}
    BY <1>8
  <2> QED BY <1>4, <1>5, <1>6, <1>7, <2>1, <2>2, <2>3 DEF Types
<1>10. ~Fresh /\ ~Begun /\ ~Known
  BY <1>8 DEF Fresh, Begun, Known
<1>11. Later /\ Earlier
  BY <1>1, <1>3, <1>5, <1>6, <1>7, <1>8, <1>10 DEF Later, Earlier, Untouched
<1>12. Context /\ Thread /\ Pipe /\ Mail
  BY <1>3, <1>4, <1>8, <1>10 DEF Context, Thread, Pipe, Mail
<1>13. Coroutines
  BY <1>6, <1>7, <1>8, <1>10 DEF Coroutines
<1>14. Resets /\ Reading
  BY <1>4, <1>7, <1>8, <1>10 DEF Resets, Reading
<1>15. \A c \in Conns : Stretch(c, 0, 0) = <<>>
  BY StretchEmpty
<1>16. Outbound
  BY <1>3, <1>4, <1>5, <1>6, <1>15 DEF Outbound, OutStream, Sent
<1>17. Inbound
  <2>1. ASSUME NEW c \in Conns PROVE InStream(c)
    <3>1. Got(c) = 0 /\ Len(conn[c].buf) = 0 /\ Len(peer[c].in) = 0
      BY <1>3, <1>5, <1>6 DEF Got
    <3>2. Here(c) = 0 + 0 /\ Read(c) = 0 - 0
      BY <1>5, <3>1 DEF Here, Read
    <3>3. Here(c) = 0 /\ Read(c) = 0
      BY <3>2
    <3> QED BY <1>5, <1>6, <1>15, <3>1, <3>3 DEF InStream
  <2> QED BY <1>10, <2>1 DEF Inbound
<1> QED BY <1>9, <1>11, <1>12, <1>13, <1>14, <1>16, <1>17 DEF IInv, Lives

LEMMA PrefixIs ==
    ASSUME NEW c \in Conns, NEW m \in Nat, NEW n \in Nat, m <= n
    PROVE  IsPrefix(Stretch(c, 0, m), Pieces(c, n))
<1>1. 0 \in Nat /\ 0 <= m /\ 0 <= n /\ 0 + m <= n /\ 0 + m <= m /\ m - 0 = m /\ n - 0 = n /\ 0 + m = m
  OBVIOUS
<1>2. Len(Stretch(c, 0, m)) = m - 0 /\ Len(Stretch(c, 0, n)) = n - 0
  BY <1>1, StretchIs
<1>3. SubSeq(Stretch(c, 0, n), 1, m) = Stretch(c, 0, 0 + m)
  BY <1>1, StretchSub
<1>4. SubSeq(Stretch(c, 0, m), 1, m) = Stretch(c, 0, 0 + m)
  BY <1>1, StretchSub
<1>5. Len(Stretch(c, 0, m)) = m /\ Len(Stretch(c, 0, n)) = n
  BY <1>1, <1>2
<1> QED BY <1>3, <1>4, <1>5 DEF IsPrefix, Pieces

LEMMA TypesImply == IInv => TypeOK
<1> SUFFICES ASSUME IInv PROVE TypeOK
  OBVIOUS
<1> USE DEF IInv, Lives
<1>1. /\ ctx.type \in {"NEW", "PACCEPT", "ACCEPT", "HALFCLOSE_READ", "HALFCLOSE_WRITE", "CLOSE"}
      /\ ctx.events \subseteq {"in", "out"} /\ ctx.revents \subseteq {"in", "out", "hup"}
      /\ ctx.watch \subseteq {"on", "in", "out"} /\ ctx.closer \in Cors \cup {NoCor}
  BY ContextIs DEF SockTypes
<1>2. accepted \in 0..NConns /\ open \in 0..accepted /\ conns \in 0..accepted
  BY ConnIs DEF Types
<1>3. /\ pc \in {"loop", "pipe", "read", "write", "report"}
      /\ batch \subseteq {"pipe", "conn"} /\ err \in BOOLEAN
      /\ co \in [Cors -> {"none", "begin", "start", "run", "recv", "ready", "close",
                          "closed", "done"}]
      /\ run \in Cors \cup {NoCor}
  BY DEF Types
<1>4. run # NoCor => co[run] \in {"begin", "run", "closed"}
  BY DEF Coroutines
<1>5. \A x \in ToSet(forkQ) : co[x] = "ready"
  <2>1. CASE forkQ = <<>>
    BY <2>1 DEF ToSet
  <2>2. CASE forkQ # <<>>
    <3>1. forkQ = <<Cb(accepted)>> /\ co[Cb(accepted)] = "ready"
      BY <2>2 DEF Coroutines
    <3> QED BY <3>1 DEF ToSet
  <2> QED BY <2>1, <2>2
<1> QED BY <1>1, <1>2, <1>3, <1>4, <1>5 DEF TypeOK

LEMMA AssertionsImply == IInv => AssertionsHold
<1> SUFFICES ASSUME IInv PROVE AssertionsHold
  OBVIOUS
<1> USE DEF IInv, Lives
<1>1. ASSUME pipe # <<>>
      PROVE  /\ ctx.valid /\ ctx.of = Head(pipe).conn
             /\ Head(pipe).cmd = "S" => ctx.type = "PACCEPT"
  <2>1. Head(pipe) = pipe[1] /\ 1 \in DOMAIN pipe
    BY <1>1, TailIs, PipeIs, SeqIs DEF Types
  <2> QED BY <2>1 DEF Pipe, Context, Begun
<1>2. ASSUME mail # <<>>, Head(mail).kind = "NEWCONN" PROVE conns = NoConn /\ ~ctx.valid
  <2>1. Head(mail) = mail[1] /\ 1 \in DOMAIN mail
    BY <1>2, TailIs, MailIs, SeqIs DEF Types
  <2> QED BY <1>2, <2>1 DEF Mail, Context, Begun, Fresh
<1> QED BY <1>1, <1>2 DEF AssertionsHold, NumberIsNew

LEMMA InboundImplies == IInv => InboundWhole
<1> SUFFICES ASSUME IInv PROVE InboundWhole
  OBVIOUS
<1> USE DEF IInv, Lives
<1> SUFFICES ASSUME NEW c \in Conns
             PROVE
    LET here == conn[c].got \o conn[c].buf
        read == peer[c].sent - Len(peer[c].in)
        withData == {i \in DOMAIN mail : mail[i].data # <<>>}
        Before2(i) == mail[i].data[1][2] - 1
        Upto2(i) == Before2(i) + Len(mail[i].data)
    IN  /\ IsPrefix(here, Pieces(c, peer[c].sent))
        /\ conns = c =>
              /\ peer[c].in = Stretch(c, read, peer[c].sent)
              /\ \A i \in withData :
                    /\ mail[i].data = Stretch(c, Before2(i), Upto2(i))
                    /\ Len(here) <= Before2(i) /\ Upto2(i) <= read
              /\ \A i, j \in withData : i < j => Upto2(i) <= Before2(j)
              /\ \A n \in (Len(here) + 1)..read :
                    \E i \in withData : n \in (Before2(i) + 1)..Upto2(i)
  BY DEF InboundWhole
<1> DEFINE here == conn[c].got \o conn[c].buf
<1> DEFINE withData == {i \in DOMAIN mail : mail[i].data # <<>>}
<1>1. PICK g \in Nat, h \in Nat, s \in Nat, r \in Nat :
        /\ g = Got(c) /\ h = Here(c) /\ s = peer[c].sent /\ r = Read(c)
        /\ g <= h /\ h <= r /\ r <= s
  <2>1. PICK x \in Nat, y \in Nat, w \in Nat, s \in Nat :
          x = Len(conn[c].got) /\ y = Len(conn[c].buf) /\ w = Len(peer[c].in) /\ s = peer[c].sent
    BY ConnectionIs, PeerIs
  <2>2. Got(c) = x /\ Here(c) = x + y /\ Read(c) = s - w
    BY <2>1 DEF Got, Here, Read
  <2>3. w <= s /\ x + y <= s - w
    BY <2>1, <2>2 DEF Inbound, InStream
  <2>4. x <= x + y /\ s - w <= s /\ x + y \in Nat /\ s - w \in Nat
    BY <2>3
  <2> QED BY <2>1, <2>2, <2>3, <2>4
<1>2. here = Stretch(c, 0, h) /\ Len(here) = h
  <2>1. 0 \in Nat /\ g \in Nat /\ h \in Nat /\ 0 <= g /\ g <= h /\ 0 <= h
    BY <1>1
  <2>2. conn[c].got = Stretch(c, 0, g) /\ conn[c].buf = Stretch(c, g, h)
    BY <1>1 DEF Inbound, InStream
  <2>3. Stretch(c, 0, g) \o Stretch(c, g, h) = Stretch(c, 0, h)
    BY <2>1, StretchConcat
  <2>4. Len(Stretch(c, 0, h)) = h - 0
    BY <2>1, StretchIs
  <2>5. h - 0 = h
    OBVIOUS
  <2> QED BY <2>2, <2>3, <2>4, <2>5
<1> HIDE DEF here
<1>3. IsPrefix(here, Pieces(c, peer[c].sent))
  BY <1>1, <1>2, PrefixIs
<1>4. ASSUME conns = c
      PROVE  c = accepted /\ InMail /\ peer[c].in = Stretch(c, r, peer[c].sent)
  BY <1>1, <1>4, ConnIs DEF Types, Known, Inbound, InStream
<1>5. \A i : i \in withData <=> i \in DOMAIN mail /\ HasData(i)
  BY DEF HasData, Mail
<1> HIDE DEF withData
<1>6. ASSUME conns = c
      PROVE  /\ \A i \in withData :
                  /\ mail[i].data = Stretch(c, Before(i), Upto(i))
                  /\ Len(here) <= Before(i) /\ Upto(i) <= r
             /\ \A i, j \in withData : i < j => Upto(i) <= Before(j)
  BY <1>1, <1>2, <1>4, <1>5, <1>6 DEF InMail
<1>7. ASSUME conns = c, NEW n \in (Len(here) + 1)..r
      PROVE  \E i \in withData : n \in (Before(i) + 1)..Upto(i)
  <2>1. n \in (Here(accepted) + 1)..Read(accepted) /\ n \in Nat
    BY <1>1, <1>2, <1>4, <1>7
  <2>2. PICK i \in DOMAIN mail : HasData(i) /\ Before(i) < n /\ n <= Upto(i)
    BY <1>4, <1>7, <2>1 DEF InMail
  <2>3. Before(i) \in Int /\ Upto(i) \in Int
    <3>1. mail[i].data \in Seq(PieceSet) /\ mail[i].data # <<>>
      BY <2>2, MailIs DEF HasData, Mail
    <3>2. PICK k \in Nat : k = Len(mail[i].data) /\ k > 0
      BY <3>1, SeqIs
    <3>3. mail[i].data[1] \in PieceSet
      <4>1. 1 \in 1..k
        BY <3>2
      <4> QED BY <3>1, <3>2, <4>1, SeqIs
    <3>4. PICK v \in Nat : v = mail[i].data[1][2]
      BY <3>3 DEF PieceSet
    <3>5. Before(i) = v - 1 /\ Upto(i) = (v - 1) + k
      BY <3>2, <3>4 DEF Before, Upto
    <3> QED BY <3>5
  <2>4. n \in (Before(i) + 1)..Upto(i)
    BY <2>1, <2>2, <2>3
  <2> QED BY <1>5, <2>2, <2>4
<1>8. peer[c].sent - Len(peer[c].in) = r
  BY <1>1 DEF Read
<1> QED BY <1>3, <1>4, <1>6, <1>7, <1>8 DEF here, withData, Before, Upto

LEMMA OutboundImplies == IInv => OutboundWhole
<1> SUFFICES ASSUME IInv, NEW c \in Conns
             PROVE  /\ IsPrefix(peer[c].out, Pieces(c, conn[c].sent))
                    /\ ~conn[c].fd /\ peer[c].eof # "reset" => Len(peer[c].out) = conn[c].sent
  BY DEF OutboundWhole
<1>1. OutStream(c)
  BY DEF IInv, Outbound
<1>2. PICK m \in Nat, n \in Nat : m = Sent(c) /\ n = conn[c].sent /\ m <= n
  <2>1. Sent(c) \in Nat /\ conn[c].sent \in Nat
    BY PeerIs, ConnectionIs DEF IInv, Sent
  <2> QED BY <1>1, <2>1 DEF OutStream
<1>3. IsPrefix(peer[c].out, Pieces(c, conn[c].sent))
  BY <1>1, <1>2, PrefixIs DEF OutStream
<1>4. ~conn[c].fd => c # accepted \/ ~ctx.valid
  BY <1>1, ConnIs DEF IInv, OutStream
<1>5. ~conn[c].fd /\ peer[c].eof # "reset" => Len(peer[c].out) = conn[c].sent
  BY <1>1, <1>4 DEF OutStream, Sent
<1> QED BY <1>3, <1>5

\* Under the two rules, whatever comes in whatever order, the components keep
\* their types: the scheduled coroutines are ready, and the one that executes can
\* execute (socketContext.cc, connection.cc, tcpServer.cc).
THEOREM SocketsTypesHold == ASSUME Kept PROVE Spec => []TypeOK
<1>1. IInv /\ [Next]_vars => IInv'
  BY Continues
<1> QED BY <1>1, Begins, TypesImply, PTL DEF Spec

\* Under the two rules no assertion of the pipe or of the server fails, and a
\* command reaches the connection it was sent for, although both are found by a
\* number that another connection has had (pipeContext.cc:82-117,
\* tcpServer.cc:90-104).
THEOREM CommandsReachTheirConnection == ASSUME Kept PROVE Spec => []AssertionsHold
<1>1. IInv /\ [Next]_vars => IInv'
  BY Continues
<1> QED BY <1>1, Begins, AssertionsImply, PTL DEF Spec

\* Under the two rules every piece a peer sent is read once and in order: it is in
\* the kernel, in one data packle or at the connection until the service closes it
\* (socketContext.cc:98-149, tcpServer.cc:109-121, connection.cc:85-127).
THEOREM NothingReceivedIsLost == ASSUME Kept PROVE Spec => []InboundWhole
<1>1. IInv /\ [Next]_vars => IInv'
  BY Continues
<1> QED BY <1>1, Begins, InboundImplies, PTL DEF Spec

\* Under the two rules the peer gets what the service sent, in order, and all of it
\* before close returns unless the peer has reset the connection
\* (socketContext.cc:151-204, 233-255).
THEOREM CloseFollowsAllData == ASSUME Kept PROVE Spec => []OutboundWhole
<1>1. IInv /\ [Next]_vars => IInv'
  BY Continues
<1> QED BY <1>1, Begins, OutboundImplies, PTL DEF Spec
=============================================================================
