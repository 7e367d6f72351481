------------------------------ MODULE Sockets -------------------------------
(***************************************************************************)
(* TCP connections of a service: Connection and TcpServer in the service,  *)
(* the pipe that carries their commands, SocketContext, PipeContext and    *)
(* EventLoop in the socket thread, and the kernel as far as they use it.   *)
(*                                                                         *)
(* The model has one descriptor number, which the kernel may give to one   *)
(* connection after another, and so one SocketContext: m_contexts is       *)
(* indexed by the number.  The service is one sequential process, in the   *)
(* worker's loop or in a coroutine, as in Dispatch; so DATA, CLOSEREAD and *)
(* ERROR, whose handlers do not yield, are dispatched in one step.         *)
(*                                                                         *)
(* The code behind m_cb is that of tests/test_conn.cc: start first, then   *)
(* any sequence of send and recv, then close, then return; and nothing on  *)
(* a connection whose fd() is -1, because close would index m_contexts     *)
(* with it.                                                                *)
(***************************************************************************)
EXTENDS Integers, Sequences, SequencesExt, FiniteSetsExt

CONSTANTS
    NConns,   \* bound: connections accepted with this descriptor number
    MaxData,  \* bound: pieces of data sent, by peers and by the service
    Rules     \* what the kernel refrains from, see below

\* "ownNumber": the number is not given to a new connection as long as somebody
\*              who takes it for the old one may still close it;
\* "roomy":     a write finds room in the kernel once a close is pending.
AllRules == {"ownNumber", "roomy"}

ASSUME SocketsAssumption ==
    /\ NConns \in Nat /\ MaxData \in Nat
    /\ Rules \subseteq AllRules

Conns == 1..NConns
NoConn == 0
\* The coroutines: that of handleNewConn, and that of handleError.
Cb(c) == <<"cb", c>>
Err(c) == <<"err", c>>
Cors == {"cb", "err"} \X Conns
NoCor == <<"none", NoConn>>

VARIABLES
    accepted,  \* how many connections have been accepted
    open,      \* kernel: the connection the number refers to
    peer,      \* kernel: the streams of each connection, and how its peer ended
    ctx,       \* m_contexts[fd], and what epoll watches for it
    pipe,      \* commands to the socket thread
    pc,        \* where the socket thread is
    batch,     \* the rest of m_activeFds
    err,       \* err of SocketContext::handleEvent
    mail,      \* PackleQueue of the service
    conns,     \* m_conns: the Connection under the number
    conn,      \* the Connections
    co,        \* the coroutines
    run,       \* the one that executes
    forkQ      \* m_forkingQueue

kernelVars  == <<accepted, open, peer>>
threadVars  == <<pc, batch, err>>
serviceVars == <<conns, conn, co, run, forkQ>>
vars == <<kernelVars, ctx, pipe, threadVars, mail, serviceVars>>

\* The n-th piece of data in one direction of c; those after m up to n; the first n.
Piece(c, n) == <<c, n>>
Stretch(c, m, n) == [i \in 1..(n - m) |-> Piece(c, m + i)]
Pieces(c, n) == Stretch(c, 0, n)

\* A SocketContext: events, revents and type are as in the code; added stands for
\* m_type = ADDED, valid for isValid(), closer for m_closeSession (the coroutine
\* that has it).  of is a ghost: the connection it was reset for.  watch is
\* epoll's: {} if the number is not registered, else "on" and the events.
NewContext ==
    [of |-> NoConn, valid |-> FALSE, type |-> "NEW", events |-> {}, added |-> FALSE,
     revents |-> {}, wb |-> <<>>, closing |-> FALSE, closer |-> NoCor, watch |-> {}]

Packle(kind, c, cor, data) == [kind |-> kind, conn |-> c, cor |-> cor, data |-> data]
Push(p) == mail' = Append(mail, p)

\* sendCtrl; c is a ghost: the connection the command is meant for.
Command(cmd, c, cor, data) == [cmd |-> cmd, conn |-> c, cor |-> cor, data |-> data]
SendCtrl(m) == pipe' = Append(pipe, m)

MoreData == MapThenSumSet(LAMBDA c : peer[c].sent + conn[c].sent, Conns) < MaxData

Init ==
    /\ accepted = 0 /\ open = NoConn
    /\ peer = [c \in Conns |->
                 [in |-> <<>>, sent |-> 0, eof |-> "no", shut |-> FALSE, out |-> <<>>]]
    /\ ctx = NewContext
    /\ pipe = <<>>
    /\ pc = "loop" /\ batch = {} /\ err = FALSE
    /\ mail = <<>>
    /\ conns = NoConn
    /\ conn = [c \in Conns |-> [fd |-> TRUE, closing |-> FALSE, buf |-> <<>>,
                                readers |-> <<>>, got |-> <<>>, sent |-> 0]]
    /\ co = [x \in Cors |-> "none"]
    /\ run = NoCor
    /\ forkQ = <<>>

-----------------------------------------------------------------------------
(* The kernel and the peers.                                               *)

PeerSends(c) ==
    /\ open = c /\ peer[c].eof = "no" /\ MoreData
    /\ peer' = [peer EXCEPT ![c].sent = @ + 1,
                            ![c].in = Append(@, Piece(c, peer[c].sent + 1))]
    /\ UNCHANGED <<accepted, open, ctx, pipe, threadVars, mail, serviceVars>>

PeerEnds(c, how) ==
    /\ open = c /\ peer[c].eof # "reset" /\ peer[c].eof # how
    /\ peer' = [peer EXCEPT ![c].eof = how]
    /\ UNCHANGED <<accepted, open, ctx, pipe, threadVars, mail, serviceVars>>

\* epoll_ctl: EBADF, EEXIST and ENOENT change nothing.
Watched(x, ev) ==
    IF open = NoConn \/ (x.added # ("on" \in x.watch)) THEN x.watch
    ELSE IF x.added /\ ev = {} THEN {}
    ELSE {"on"} \cup ev

\* m_events = ev; update().
SetEvents(x, ev) == [x EXCEPT !.events = ev, !.added = ~x.added \/ ev # {},
                              !.watch = Watched(x, ev)]

\* What epoll_wait reports.  A full send buffer, for which it reports no "out",
\* is left to the write that then fails with EAGAIN.
Readable(c) == peer[c].in # <<>> \/ peer[c].eof # "no" \/ peer[c].shut
Revents ==
    IF "on" \notin ctx.watch THEN {}
    ELSE {e \in {"in", "out"} \cap ctx.watch : e = "in" => Readable(open)}
         \cup {e \in {"hup"} : peer[open].eof = "reset"}

\* Results of read(2).  On a reset connection it reports the error once.
ReadFails == open # NoConn =>
                peer[open].in = <<>> /\ (Readable(open) => peer[open].eof = "reset")
ReadEnds == open # NoConn /\ peer[open].in = <<>> /\ Readable(open)

WriteFails == open # NoConn => peer[open].eof = "reset"
MayBeFull == "roomy" \in Rules => ctx.closer = NoCor

\* Whoever may still close the number; a coroutine that nobody wakes will not.
NumberIsFree ==
    "ownNumber" \in Rules => /\ ~ctx.valid
                             /\ \A c \in Conns : co[Cb(c)] \in {"none", "recv", "done"}

-----------------------------------------------------------------------------
(* The socket thread: EventLoop::loop.                                     *)

\* The listening context may be ready at any time, and be anywhere in the batch.
\* A connection that gets another number is not part of the model.
NewConnection ==
    /\ pc = "loop"
    /\ accepted < NConns /\ open = NoConn /\ NumberIsFree
    /\ accepted' = accepted + 1 /\ open' = accepted'
    /\ Push(Packle("NEWCONN", accepted', NoCor, <<>>))
    /\ UNCHANGED <<peer, ctx, pipe, threadVars, serviceVars>>

Poll ==
    /\ pc = "loop" /\ batch = {}
    /\ batch' = {x \in {"pipe"} : pipe # <<>>} \cup {x \in {"conn"} : Revents # {}}
    /\ batch' # {}
    /\ ctx' = IF Revents # {} THEN [ctx EXCEPT !.revents = Revents] ELSE ctx
    /\ UNCHANGED <<kernelVars, pipe, pc, err, mail, serviceVars>>

TakePipe ==
    /\ pc = "loop" /\ "pipe" \in batch
    /\ batch' = batch \ {"pipe"} /\ pc' = "pipe"
    /\ UNCHANGED <<kernelVars, ctx, pipe, err, mail, serviceVars>>

\* isValid() in loop, and handleEvent up to the reading and writing.
TakeContext ==
    /\ pc = "loop" /\ "conn" \in batch
    /\ batch' = batch \ {"conn"}
    /\ IF ~ctx.valid \/ ctx.revents = {} THEN UNCHANGED <<ctx, pc, err>>
       ELSE IF "hup" \in ctx.revents
            THEN /\ ctx' = [SetEvents(ctx, {}) EXCEPT !.type = "CLOSE"]
                 /\ err' = TRUE /\ pc' = "report"
            ELSE /\ pc' = IF "in" \in ctx.revents THEN "read" ELSE "write"
                 /\ UNCHANGED <<ctx, err>>
    /\ UNCHANGED <<kernelVars, pipe, mail, serviceVars>>

ReadingIsOver == ctx.type \in {"HALFCLOSE_READ", "CLOSE"}

\* shutRead and shutWrite: the socket's new type.
NoMoreReads(x) == IF x.type \in {"HALFCLOSE_WRITE", "CLOSE"} THEN "CLOSE" ELSE "HALFCLOSE_READ"
NoMoreWrites(x) == IF x.type \in {"HALFCLOSE_READ", "CLOSE"} THEN "CLOSE" ELSE "HALFCLOSE_WRITE"

\* handleEvent goes on after handleRead, or ends.
Then(bad) == pc' = IF "out" \in ctx.revents /\ pc = "read" THEN "write"
                   ELSE IF bad THEN "report" ELSE "loop"

\* handleRead, after EINTR was dealt with.
ReadError ==
    /\ pc = "read" /\ ReadFails
    /\ err' = TRUE /\ Then(TRUE)
    /\ UNCHANGED <<kernelVars, ctx, pipe, batch, mail, serviceVars>>

ReadEnd ==
    /\ pc = "read" /\ ReadEnds
    /\ IF ReadingIsOver THEN UNCHANGED <<ctx, peer, mail>>
       ELSE /\ ctx' = [SetEvents(ctx, ctx.events \ {"in"}) EXCEPT !.type = NoMoreReads(ctx)]
            /\ peer' = [peer EXCEPT ![open].shut = TRUE]
            /\ IF ctx.closing THEN UNCHANGED mail
               ELSE Push(Packle("CLOSEREAD", ctx.of, NoCor, <<>>))
    /\ Then(FALSE)
    /\ UNCHANGED <<accepted, open, pipe, batch, err, serviceVars>>

ReadData == \E n \in 1..MaxData :
    /\ pc = "read" /\ open # NoConn /\ n <= Len(peer[open].in)
    /\ peer' = [peer EXCEPT ![open].in = SubSeq(@, n + 1, Len(@))]
    /\ IF ReadingIsOver THEN UNCHANGED mail
       ELSE Push(Packle("DATA", ctx.of, NoCor, SubSeq(peer[open].in, 1, n)))
    /\ Then(FALSE)
    /\ UNCHANGED <<accepted, open, ctx, pipe, batch, err, serviceVars>>

\* sendClosedPackle, and the freeWB before it; x is the context until then.
SendClosedPackle(x, cor) ==
    /\ ctx' = [x EXCEPT !.valid = FALSE, !.wb = <<>>, !.watch = {}]
    /\ open' = NoConn
    /\ Push(Packle("CLOSED", x.of, cor, <<>>))

\* writeWB has written n of the pieces and ended with result (0, 1 or -1);
\* then the rest of handleWrite.
HandleWrite(n, result) ==
    LET left == SubSeq(ctx.wb, n + 1, Len(ctx.wb)) IN
    /\ pc = "write"
    /\ peer' = IF n = 0 THEN peer
               ELSE [peer EXCEPT ![open].out = @ \o SubSeq(ctx.wb, 1, n)]
    /\ IF ctx.closer # NoCor
       THEN /\ SendClosedPackle([SetEvents(ctx, {}) EXCEPT !.type = "CLOSE"], ctx.closer)
            /\ UNCHANGED err
       ELSE /\ ctx' = IF result = 1 THEN [ctx EXCEPT !.wb = left]
                      ELSE [SetEvents(ctx, ctx.events \ {"out"}) EXCEPT !.wb = left,
                              !.type = IF result = -1 THEN NoMoreWrites(ctx) ELSE @]
            /\ err' = (err \/ result = -1)
            /\ UNCHANGED <<open, mail>>
    /\ Then(err')
    /\ UNCHANGED <<accepted, pipe, batch, serviceVars>>

WriteAll   == (ctx.wb = <<>> \/ ~WriteFails) /\ HandleWrite(Len(ctx.wb), 0)
WriteSome  == \E n \in 0..(Len(ctx.wb) - 1) : ~WriteFails /\ MayBeFull /\ HandleWrite(n, 1)
WriteError == ctx.wb # <<>> /\ WriteFails /\ HandleWrite(0, -1)

\* sendProto to m_serv, which asserts that there is such a service.
ReportError ==
    /\ pc = "report" /\ ctx.valid
    /\ Push(Packle("ERROR", ctx.of, NoCor, <<>>))
    /\ err' = FALSE /\ pc' = "loop"
    /\ UNCHANGED <<kernelVars, ctx, pipe, batch, serviceVars>>

-----------------------------------------------------------------------------
(* PipeContext::handleEvent: all commands that are there.                  *)

PipeEnds ==
    /\ pc = "pipe" /\ pipe = <<>>
    /\ pc' = "loop"
    /\ UNCHANGED <<kernelVars, ctx, pipe, batch, err, mail, serviceVars>>

TakeCommand(cmd) ==
    /\ pc = "pipe" /\ pipe # <<>>
    /\ Head(pipe).cmd = cmd /\ ctx.valid
    /\ pipe' = Tail(pipe)
    /\ UNCHANGED <<accepted, threadVars, serviceVars>>

HandleStart ==
    /\ TakeCommand("S")
    /\ ctx.type = "PACCEPT"
    /\ ctx' = [SetEvents(ctx, ctx.events \cup {"in"}) EXCEPT !.type = "ACCEPT"]
    /\ Push(Packle("READY", ctx.of, Head(pipe).cor, <<>>))
    /\ UNCHANGED <<open, peer>>

\* A mutant: appendWB does not ask for EPOLLOUT.
AppendWBSilent(x, data) == [x EXCEPT !.wb = @ \o data]
AppendWB(x, data) ==
    LET y == [x EXCEPT !.wb = @ \o data]
    IN  IF "out" \in x.events THEN y ELSE SetEvents(y, x.events \cup {"out"})

HandleData ==
    /\ TakeCommand("D")
    /\ ctx' = AppendWB(ctx, Head(pipe).data)
    /\ UNCHANGED <<open, peer, mail>>

\* A mutant: close does not look whether data is left.
HandleCloseNow ==
    /\ TakeCommand("C")
    /\ SendClosedPackle([SetEvents(ctx, {}) EXCEPT !.type = "CLOSE"], Head(pipe).cor)
    /\ UNCHANGED peer

\* SocketContext::close.
HandleClose ==
    /\ TakeCommand("C")
    /\ IF ctx.type = "CLOSE" THEN SendClosedPackle(ctx, Head(pipe).cor) /\ UNCHANGED peer
       ELSE LET x == [SetEvents(ctx, ctx.events \ {"in"}) EXCEPT !.type = IF ReadingIsOver
                        THEN @ ELSE NoMoreReads(ctx)] IN
            /\ peer' = IF open = NoConn THEN peer ELSE [peer EXCEPT ![open].shut = TRUE]
            /\ IF ctx.wb = <<>>
               THEN SendClosedPackle([SetEvents(x, {}) EXCEPT !.type = "CLOSE"], Head(pipe).cor)
               ELSE /\ ctx' = [AppendWB(x, <<>>) EXCEPT !.closer = Head(pipe).cor]
                    /\ UNCHANGED <<open, mail>>

\* NewConnection is the thread's too, but nothing depends on its being taken.
SocketThread ==
    \/ Poll \/ TakePipe \/ TakeContext \/ PipeEnds
    \/ ReadError \/ ReadEnd \/ ReadData
    \/ WriteAll \/ WriteSome \/ WriteError \/ ReportError
    \/ HandleStart \/ HandleData \/ HandleClose

-----------------------------------------------------------------------------
(* The worker's loop of the service: dispatch and doFork.                  *)

Dispatch(kind) ==
    /\ run = NoCor
    /\ mail # <<>> /\ Head(mail).kind = kind
    /\ mail' = Tail(mail)
    /\ UNCHANGED <<kernelVars, threadVars>>

\* A mutant: reset keeps m_type, so that epoll_ctl is asked to modify.
ResetKeepsType(c) == [NewContext EXCEPT !.of = c, !.valid = TRUE, !.type = "PACCEPT",
                                        !.added = ctx.added, !.watch = ctx.watch]
\* SocketContext::reset, and setSockType.
Reset(c) == [NewContext EXCEPT !.of = c, !.valid = TRUE, !.type = "PACCEPT",
                               !.watch = ctx.watch]

HandleNewConn ==
    /\ Dispatch("NEWCONN")
    /\ conns = NoConn /\ ~ctx.valid
    /\ conns' = Head(mail).conn
    /\ ctx' = Reset(conns')
    /\ run' = Cb(conns') /\ co' = [co EXCEPT ![Cb(conns')] = "begin"]
    /\ UNCHANGED <<pipe, conn, forkQ>>

\* A mutant: m_cors is not cleared.
HandleReadKeepsCors ==
    /\ Dispatch("DATA")
    /\ IF conns = NoConn THEN UNCHANGED <<conn, co, forkQ>>
       ELSE LET readers == conn[conns].readers IN
            /\ conn' = [conn EXCEPT ![conns].buf = @ \o Head(mail).data]
            /\ forkQ' = forkQ \o readers
            /\ co' = [x \in Cors |-> IF x \in ToSet(readers) THEN "ready" ELSE co[x]]
    /\ UNCHANGED <<ctx, pipe, conns, run>>

\* TcpServer::handleRead and Connection::append, with addFork for the readers.
HandleRead ==
    /\ Dispatch("DATA")
    /\ IF conns = NoConn THEN UNCHANGED <<conn, co, forkQ>>
       ELSE LET readers == conn[conns].readers IN
            /\ conn' = [conn EXCEPT ![conns].buf = @ \o Head(mail).data,
                                    ![conns].readers = <<>>]
            /\ forkQ' = forkQ \o readers
            /\ co' = [x \in Cors |-> IF x \in ToSet(readers) THEN "ready" ELSE co[x]]
    /\ UNCHANGED <<ctx, pipe, conns, run>>

HandleHalfClose ==
    /\ Dispatch("CLOSEREAD")
    /\ conn' = IF conns = NoConn THEN conn ELSE [conn EXCEPT ![conns].closing = TRUE]
    /\ UNCHANGED <<ctx, pipe, conns, co, run, forkQ>>

\* Connection::close by x, up to where it yields.  A mutant: the connection
\* stays in m_conns.
BeginCloseStays(x, c) ==
    /\ conn' = [conn EXCEPT ![c].closing = TRUE]
    /\ ctx' = [ctx EXCEPT !.closing = TRUE]
    /\ UNCHANGED conns
    /\ SendCtrl(Command("C", c, x, <<>>))
    /\ co' = [co EXCEPT ![x] = "close"]

BeginClose(x, c) ==
    /\ conn' = [conn EXCEPT ![c].closing = TRUE]
    /\ ctx' = [ctx EXCEPT !.closing = TRUE]
    /\ conns' = NoConn
    /\ SendCtrl(Command("C", c, x, <<>>))
    /\ co' = [co EXCEPT ![x] = "close"]

HandleError ==
    /\ Dispatch("ERROR")
    /\ IF conns = NoConn \/ ctx.closing THEN UNCHANGED <<ctx, pipe, conns, conn, co>>
       ELSE BeginClose(Err(conns), conns)
    /\ UNCHANGED <<run, forkQ>>

\* The response to start or close: go on behind its yieldToSuspend.
Started ==
    /\ Dispatch("READY")
    /\ co' = [co EXCEPT ![Head(mail).cor] = "run"]
    /\ run' = Head(mail).cor
    /\ UNCHANGED <<ctx, pipe, conns, conn, forkQ>>

Closed ==
    /\ Dispatch("CLOSED")
    /\ LET x == Head(mail).cor IN
        /\ conn' = [conn EXCEPT ![x[2]].fd = FALSE]
        /\ IF x[1] = "cb" THEN co' = [co EXCEPT ![x] = "closed"] /\ run' = x
                          ELSE co' = [co EXCEPT ![x] = "done"] /\ UNCHANGED run
    /\ UNCHANGED <<ctx, pipe, conns, forkQ>>

\* m_buffer.read, one piece at a time.  A mutant: the rest is forgotten.
TakeClears(c) == conn' = [conn EXCEPT ![c].buf = <<>>, ![c].got = Append(@, Head(conn[c].buf))]
Take(c) == conn' = [conn EXCEPT ![c].buf = Tail(@), ![c].got = Append(@, Head(conn[c].buf))]

\* doFork resumes a reader, and its recv returns.
ResumeReader ==
    /\ run = NoCor
    /\ forkQ # <<>> /\ forkQ' = Tail(forkQ)
    /\ run' = Head(forkQ) /\ co' = [co EXCEPT ![run'] = "run"]
    /\ Take(run'[2])
    /\ UNCHANGED <<kernelVars, ctx, pipe, threadVars, mail, conns>>

WorkerLoop ==
    \/ HandleNewConn \/ HandleRead \/ HandleHalfClose \/ HandleError
    \/ Started \/ Closed \/ ResumeReader

-----------------------------------------------------------------------------
(* The code behind m_cb for connection c.                                  *)

InCode(c, state) ==
    /\ run = Cb(c) /\ co[run] = state
    /\ UNCHANGED <<accepted, peer, threadVars, mail, forkQ>>

Start(c) ==
    /\ InCode(c, "begin")
    /\ SendCtrl(Command("S", c, Cb(c), <<>>))
    /\ co' = [co EXCEPT ![Cb(c)] = "start"] /\ run' = NoCor
    /\ UNCHANGED <<open, ctx, conns, conn>>

\* sendToSocket, unless it returns -1.
Send(c) ==
    /\ InCode(c, "run")
    /\ conn[c].fd /\ ~ctx.closing /\ MoreData
    /\ conn' = [conn EXCEPT ![c].sent = @ + 1]
    /\ SendCtrl(Command("D", c, NoCor, <<Piece(c, conn[c].sent + 1)>>))
    /\ UNCHANGED <<open, ctx, conns, co, run>>

RecvNow(c) ==
    /\ InCode(c, "run")
    /\ conn[c].buf # <<>> /\ Take(c)
    /\ UNCHANGED <<open, ctx, pipe, conns, co, run>>

\* recv pushes the coroutine to m_cors and yields; when closing it returns 0.
RecvWait(c) ==
    /\ InCode(c, "run")
    /\ conn[c].buf = <<>> /\ ~conn[c].closing
    /\ conn' = [conn EXCEPT ![c].readers = Append(@, Cb(c))]
    /\ co' = [co EXCEPT ![Cb(c)] = "recv"] /\ run' = NoCor
    /\ UNCHANGED <<open, ctx, pipe, conns>>

Close(c) ==
    /\ InCode(c, "run") /\ conn[c].fd
    /\ IF ctx.closing
       THEN co' = [co EXCEPT ![Cb(c)] = "closed"] /\ UNCHANGED <<ctx, pipe, conns, conn, run>>
       ELSE BeginClose(Cb(c), c) /\ run' = NoCor
    /\ UNCHANGED open

\* The end of handleNewConn: its copy of the Socket is destroyed, which closes
\* the number.
Return(c) ==
    /\ InCode(c, "closed") \/ (InCode(c, "run") /\ ~conn[c].fd)
    /\ open' = NoConn /\ ctx' = [ctx EXCEPT !.watch = {}]
    /\ co' = [co EXCEPT ![Cb(c)] = "done"] /\ run' = NoCor
    /\ UNCHANGED <<pipe, conns, conn>>

Code == \E c \in Conns :
    Start(c) \/ Send(c) \/ RecvNow(c) \/ RecvWait(c) \/ Close(c) \/ Return(c)

Next ==
    \/ \E c \in Conns : PeerSends(c) \/ \E how \in {"fin", "reset"} : PeerEnds(c, how)
    \/ NewConnection \/ SocketThread \/ WorkerLoop \/ Code

Spec == Init /\ [][Next]_vars
FairSpec == Spec /\ WF_vars(SocketThread) /\ WF_vars(WorkerLoop) /\ WF_vars(Code)

-----------------------------------------------------------------------------
TypeOK ==
    /\ accepted \in 0..NConns /\ open \in 0..accepted
    /\ ctx.type \in {"NEW", "PACCEPT", "ACCEPT", "HALFCLOSE_READ", "HALFCLOSE_WRITE", "CLOSE"}
    /\ ctx.events \subseteq {"in", "out"} /\ ctx.revents \subseteq {"in", "out", "hup"}
    /\ ctx.watch \subseteq {"on", "in", "out"} /\ ctx.closer \in Cors \cup {NoCor}
    /\ pc \in {"loop", "pipe", "read", "write", "report"}
    /\ batch \subseteq {"pipe", "conn"} /\ err \in BOOLEAN
    /\ conns \in 0..accepted
    /\ co \in [Cors -> {"none", "begin", "start", "run", "recv", "ready", "close",
                        "closed", "done"}]
    /\ run \in Cors \cup {NoCor}
    /\ run # NoCor => co[run] \in {"begin", "run", "closed"}
    /\ \A x \in ToSet(forkQ) : co[x] = "ready"

(* A new connection finds its number unused in TcpServer and in its        *)
(* context (tcpServer.cc:96, 99).                                          *)
NumberIsNew ==
    run = NoCor /\ mail # <<>> /\ Head(mail).kind = "NEWCONN" => conns = NoConn /\ ~ctx.valid

(* So do the assertions of pipeContext.cc:85-87, 105, 114 hold, and a      *)
(* command is carried out on the connection it was sent for.               *)
AssertionsHold ==
    /\ pc = "pipe" /\ pipe # <<>> =>
          /\ ctx.valid /\ ctx.of = Head(pipe).conn
          /\ Head(pipe).cmd = "S" => ctx.type = "PACCEPT"
    /\ NumberIsNew

(* An error is reported to a service that there is: m_serv is that of the  *)
(* connection, and not 0 (fdContext.cc:34-38, socketContext.cc:55-60).     *)
ReportsToService == pc = "report" => ctx.valid

(* What recv returns is what the peer sent, in order; and while the service *)
(* has not closed the connection every piece the peer sent is in exactly    *)
(* one place on its way, the data packles holding one stretch each, in the  *)
(* order of the mailbox and without a gap (socketContext.cc:98-149,         *)
(* tcpServer.cc:109-121).                                                   *)
InboundWhole == \A c \in Conns :
    LET here == conn[c].got \o conn[c].buf
        read == peer[c].sent - Len(peer[c].in)
        withData == {i \in DOMAIN mail : mail[i].data # <<>>}
        Before(i) == mail[i].data[1][2] - 1
        Upto(i) == Before(i) + Len(mail[i].data)
    IN  /\ IsPrefix(here, Pieces(c, peer[c].sent))
        /\ conns = c =>
              /\ peer[c].in = Stretch(c, read, peer[c].sent)
              /\ \A i \in withData :
                    /\ mail[i].data = Stretch(c, Before(i), Upto(i))
                    /\ Len(here) <= Before(i) /\ Upto(i) <= read
              /\ \A i, j \in withData : i < j => Upto(i) <= Before(j)
              /\ \A n \in (Len(here) + 1)..read :
                    \E i \in withData : n \in (Before(i) + 1)..Upto(i)

(* What the peer gets is what was sent, in order; and when close returns it *)
(* has got everything, unless it reset the connection: "closing after all   *)
(* data sent" (socketContext.cc:151-204, 233-255).                          *)
OutboundWhole == \A c \in Conns :
    /\ IsPrefix(peer[c].out, Pieces(c, conn[c].sent))
    /\ ~conn[c].fd /\ peer[c].eof # "reset" => Len(peer[c].out) = conn[c].sent

(* start and close return: the socket thread answers both.  close may wait  *)
(* for ever if the peer resets the connection while it has not got          *)
(* everything (socketContext.cc:30-39, pipeContext.cc:82-117).              *)
Waits(x) == co[x] \in {"start", "close"}
EveryCommandIsAnswered == \A x \in Cors :
    Waits(x) ~> ~Waits(x) \/ (peer[x[2]].eof = "reset" /\ ctx.wb # <<>>)

(* And so without the exception: a coroutine that waits in start or close  *)
(* goes on, like after any blocking function (README.md:37).               *)
EveryWaitEnds == \A x \in Cors : Waits(x) ~> ~Waits(x)

(* A reader gets the data that arrives while it waits, unless the peer      *)
(* resets the connection (connection.cc:119-127).                           *)
DataReachesReader == \A c \in Conns :
    co[Cb(c)] = "recv" /\ peer[c].in # <<>>
       ~> co[Cb(c)] # "recv" \/ peer[c].eof = "reset"

(* A reader learns that the peer has closed the connection: recv returns    *)
(* (tests/test_conn.cc:24-28).                                              *)
ReaderSeesEnd == \A c \in Conns :
    co[Cb(c)] = "recv" /\ peer[c].eof = "fin" ~> co[Cb(c)] # "recv"
=============================================================================
