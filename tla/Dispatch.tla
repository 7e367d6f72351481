------------------------------ MODULE Dispatch ------------------------------
(***************************************************************************)
(* Messages, calls, coroutines and timers of services: ServiceContext      *)
(* (serviceContext.cc), Coroutine (coroutine.cc) and the part of TimeWheel *)
(* that delivers TIMER packles.                                            *)
(*                                                                         *)
(* By ServiceMailbox, which Scheduler implements, at most one worker is    *)
(* inside a service; so each service is one sequential process here, and   *)
(* services interleave.  The process is either in the worker's loop (no    *)
(* coroutine runs) or in a coroutine, which executes service code until it *)
(* yields or ends; then dispatch or doFork goes on where it resumed it.    *)
(* The loop may resume forked coroutines and dispatch packles in any       *)
(* order: its rounds (forks first, then a batch) are in Scheduler.         *)
(*                                                                         *)
(* What service code does is not oimo's: it is any sequence of calls of    *)
(* the API, except those the set Rules forbids.                            *)
(***************************************************************************)
EXTENDS Naturals, Sequences, FiniteSets, Functions

CONSTANTS
    Services,    \* the services
    Main,        \* source 0: a sender that is not a service
    TimerUsers,  \* the services whose code uses timers
    Sids,        \* session ids generateSid can return
    MaxCors,     \* bound: coroutines ever constructed
    Limit,       \* bound: how often each operation of the API is used
    MaxUses,     \* bound: how often all of them together are used
    IdRange,     \* values of Timer::session, a uint16_t: 2^16 in the code
    Rules        \* what service code refrains from, see below

\* "replyFirst":  a handler sets its return packle before it sleeps;
\* "quickLoops":  the callback of a repeating timer neither calls nor sleeps;
\* "removeIdle":  a timer is not removed while its callback is under way;
\* "answer":      the handler of a call sets a return packle before it ends;
\* "replyOnce":   only the handler of a call sets one, and only one.
AllRules == {"replyFirst", "quickLoops", "removeIdle", "answer", "replyOnce"}

Ops == {"call", "send", "fork", "timer", "expire", "remove"}

ASSUME DispatchAssumption ==
    /\ Main \notin Services
    /\ TimerUsers \subseteq Services
    /\ Sids \subseteq Nat \ {0}
    /\ MaxCors \in Nat /\ IdRange \in Nat \ {0}
    /\ Limit \in [Ops -> Nat] /\ MaxUses \in Nat
    /\ Rules \subseteq AllRules

Cors == 1..MaxCors
NoCor == 0

VARIABLES
    mail,     \* PackleQueue of each service
    run,      \* the coroutine the loop resumed, and for what
    co,       \* the coroutines
    made,     \* how many coroutines have been constructed
    free,     \* t_freeQueue of all threads: how often each coroutine is in one
    forkQ,    \* m_forkingQueue
    pool,     \* m_suspendingPool: a function from session ids to coroutines
    retp,     \* m_returnPackle, NoPackle when reset
    timers,   \* m_timers: a function from ids to TimerContexts
    wheel,    \* the Timers the wheel holds
    lastId,   \* the static id of addTimer
    within,   \* where call or addTimer is, and its locals
    used      \* how often each operation was used (bounds the model)

corVars   == <<co, made, free>>
timerVars == <<timers, wheel, lastId, within>>
vars == <<mail, run, corVars, forkQ, pool, retp, timerVars, used>>

\* A packle: kind is its type as far as dispatch tells types apart ("odd": no
\* handler is registered for it); re is a ghost, the call a packle belongs to
\* or the timer that sent it.
Packle(kind, src, sid, re) == [kind |-> kind, src |-> src, sid |-> sid, re |-> re]
NoPackle == Packle("none", Main, 0, 0)

\* Ghosts: what a coroutine waits for, and what last woke it.
Nothing  == [what |-> "nothing", n |-> 0]
Reply(n) == [what |-> "reply", n |-> n]
Tick(n)  == [what |-> "timer", n |-> n]

\* A coroutine: state and sid, rsid, rsrc are Coroutine's fields; job is what
\* m_func was bound to, req the call a handler serves, replied whether it set
\* its return packle.
NewCor(job) ==
    [state |-> "INIT", job |-> job, sid |-> 0, rsid |-> 0, rsrc |-> Main,
     req |-> 0, replied |-> FALSE, tid |-> 0, wants |-> Nothing, got |-> Nothing]

\* One that ended: Back still reads its fields, the ghosts are done with.
Stopped(c) == [NewCor("none") EXCEPT
    !.state = "STOPPED", !.sid = c.sid, !.rsid = c.rsid, !.rsrc = c.rsrc]

NotRunning == [cor |-> NoCor, by |-> "none", tid |-> 0, loop |-> FALSE]
NotWithin  == [at |-> "no", op |-> "sleep", session |-> 0, val |-> 0]

Init ==
    \* newService has sent each service its INIT packle.
    /\ mail = [s \in Services |-> <<Packle("msg", Main, 0, 0)>>]
    /\ run = [s \in Services |-> NotRunning]
    /\ co = [c \in Cors |-> NewCor("none")]
    /\ made = 0
    /\ free = [c \in Cors |-> 0]
    /\ forkQ = [s \in Services |-> <<>>]
    /\ pool = [s \in Services |-> <<>>]
    /\ retp = [s \in Services |-> NoPackle]
    /\ timers = [s \in Services |-> <<>>]
    /\ wheel = {}
    /\ lastId = 0
    /\ within = [s \in Services |-> NotWithin]
    /\ used = [op \in Ops |-> 0]

-----------------------------------------------------------------------------
(* Helpers.                                                                *)

Put(f, k, v)  == [x \in DOMAIN f \cup {k} |-> IF x = k THEN v ELSE f[x]]
Drop(f, k)    == [x \in DOMAIN f \ {k} |-> f[x]]

May(op) == used[op] < Limit[op] /\ FoldFunction(+, 0, used) < MaxUses
Use(op) == used' = [used EXCEPT ![op] = @ + 1]

\* PackleQueue::push.
Push(s, p) == mail' = [mail EXCEPT ![s] = Append(@, p)]

\* getCoroutine: from the free queue, else a new one.  One free queue stands
\* for those of all threads, and c for any coroutine in it: it is reset before
\* it is used again.
GetCoroutine(c) ==
    /\ \/ free[c] > 0 /\ \A f \in 1..(c - 1) : free[f] = 0
       \/ c = made + 1 /\ \A f \in Cors : free[f] = 0
    /\ made' = IF c > made THEN c ELSE made
    /\ free' = [free EXCEPT ![c] = IF c > made THEN 0 ELSE @ - 1]

\* What Coroutine::resume requires: the alternatives are LOG_FATAL.
Resumable(c) == co[c].state \in {"INIT", "SUSPENDED"}

\* The coroutine that service s executes now, if any.
Executes(s, c) ==
    /\ run[s].cor = c /\ c # NoCor
    /\ co[c].state = "RUNNING"

\* Service code of s may use the API: it is in a coroutine, in no other call.
InCode(s, c) == Executes(s, c) /\ within[s].at = "no"

MayBlock(c) == co[c].job = "loop" => "quickLoops" \notin Rules

-----------------------------------------------------------------------------
(* WorkThread::work for service s.                                         *)

\* No coroutine runs: the worker is in its loop, or not in s at all.
InLoop(s) == run[s] = NotRunning

\* doFork resumes the next coroutine.
ResumeFork(s) ==
    /\ InLoop(s)
    /\ forkQ[s] # <<>>
    /\ LET c == Head(forkQ[s]) IN
        /\ Resumable(c)
        /\ co' = [co EXCEPT ![c].state = "RUNNING"]
        /\ run' = [run EXCEPT ![s] = [NotRunning EXCEPT !.cor = c, !.by = "fork"]]
    /\ forkQ' = [forkQ EXCEPT ![s] = Tail(@)]
    /\ UNCHANGED <<mail, made, free, pool, retp, timerVars, used>>

\* ret(dest), with the packle popped from `box`: the packle goes to dest if
\* that is a service, and is forgotten either way.
Ret(s, dest, box) ==
    /\ mail' = IF retp[s] # NoPackle /\ dest \in Services
               THEN [box EXCEPT ![dest] =
                       Append(@, Packle("ret", s, retp[s].sid, retp[s].re))]
               ELSE box
    /\ retp' = [retp EXCEPT ![s] = NoPackle]

Oldest(s) == IF mail[s] = <<>> THEN {} ELSE {Head(mail[s])}
Popped(s) == [mail EXCEPT ![s] = Tail(@)]

\* A TIMER packle whose timer is there: resume its coroutine, or count the
\* tick if it is executing.
DispatchTimer(s) == \E p \in Oldest(s) :
    /\ InLoop(s)
    /\ p.kind = "timer" /\ p.sid \in DOMAIN timers[s]
    /\ LET t == timers[s][p.sid] IN
        IF co[t.cor].state = "RUNNING"
        THEN /\ timers' = [timers EXCEPT ![s][p.sid].pending = @ + 1]
             /\ UNCHANGED <<co, run>>
        ELSE /\ Resumable(t.cor)
             /\ co' = [co EXCEPT ![t.cor].state = "RUNNING",
                                 ![t.cor].got = Tick(p.re)]
             /\ run' = [run EXCEPT ![s] =
                   [cor |-> t.cor, by |-> "timer", tid |-> p.sid, loop |-> t.loop]]
             /\ UNCHANGED timers
    /\ mail' = Popped(s)
    /\ UNCHANGED <<made, free, forkQ, pool, retp, wheel, lastId, within, used>>

\* Session 0, or a timer that was removed: the packle is dropped.
DropTimer(s) == \E p \in Oldest(s) :
    /\ InLoop(s)
    /\ p.kind = "timer" /\ p.sid \notin DOMAIN timers[s]
    /\ mail' = Popped(s)
    /\ UNCHANGED <<run, corVars, forkQ, pool, retp, timerVars, used>>

\* A response: resume the coroutine suspended under its session.
DispatchRet(s) == \E p \in Oldest(s) :
    /\ InLoop(s)
    /\ p.kind = "ret" /\ p.sid \in DOMAIN pool[s]
    /\ LET c == pool[s][p.sid] IN
        /\ co[c].state = "SUSPENDED"
        /\ co' = [co EXCEPT ![c].state = "RUNNING", ![c].got = Reply(p.re)]
        /\ run' = [run EXCEPT ![s] = [NotRunning EXCEPT !.cor = c, !.by = "ret"]]
    /\ pool' = [pool EXCEPT ![s] = Drop(@, p.sid)]
    /\ mail' = Popped(s)
    /\ UNCHANGED <<made, free, forkQ, retp, timerVars, used>>

\* setReservSrc, for the packles of call.  Mutant: it is forgotten.
ReservSrcNot(p) == Main
ReservSrc(p) == IF p.sid # 0 THEN p.src ELSE Main

\* A request with a handler: run the handler in a coroutine of its own.
DispatchMsg(s) == \E p \in Oldest(s), c \in Cors :
    /\ InLoop(s)
    /\ p.kind = "msg"
    /\ GetCoroutine(c)
    /\ co' = [co EXCEPT ![c] =
          [NewCor("handler") EXCEPT !.state = "RUNNING", !.req = p.re,
             !.rsid = p.sid, !.rsrc = ReservSrc(p)]]
    /\ run' = [run EXCEPT ![s] = [NotRunning EXCEPT !.cor = c, !.by = "msg"]]
    /\ mail' = Popped(s)
    /\ UNCHANGED <<forkQ, pool, retp, timerVars, used>>

\* No handler for its type, or a response nobody waits for; a return packle
\* that is still set goes to the sender.
DispatchNobody(s) == \E p \in Oldest(s) :
    /\ InLoop(s)
    /\ p.kind = "odd" \/ (p.kind = "ret" /\ p.sid \notin DOMAIN pool[s])
    /\ Ret(s, p.src, Popped(s))
    /\ UNCHANGED <<run, corVars, forkQ, pool, timerVars, used>>

\* What dispatch looks at when the coroutine it resumed has yielded or stopped:
\* whether a return packle is sent, m_timers.erase and returnCoroutine follow.
\* Mutants: a handler resumed by a response does not answer; one-shot timers
\* stay in m_timers; coroutines that are suspended are returned too.
AnswersMsgOnly(s) == run[s].by = "msg"
Answers(s) == run[s].by \in {"msg", "ret"}
OneShotNever(s) == FALSE
OneShot(s) == run[s].by = "timer" /\ ~run[s].loop
DoneAlways(c) == TRUE
Done(c) == co[c].state = "STOPPED"

\* The coroutine yielded or stopped, and what resumed it goes on: doFork and
\* the TIMER branch of dispatch return, the others send the return packle.
Back(s) == \E c \in Cors :
    /\ run[s].cor = c
    /\ co[c].state # "RUNNING"
    /\ run' = [run EXCEPT ![s] = NotRunning]
    /\ free' = [free EXCEPT ![c] = IF Done(c) THEN @ + 1 ELSE @]
    /\ IF Answers(s)
       THEN Ret(s, co[c].rsrc, mail)
       ELSE UNCHANGED <<mail, retp>>
    /\ timers' = IF OneShot(s)
                 THEN [timers EXCEPT ![s] = Drop(@, run[s].tid)]
                 ELSE timers
    /\ UNCHANGED <<co, made, forkQ, pool, wheel, lastId, within, used>>

-----------------------------------------------------------------------------
(* The API, used by the coroutine c that executes code of s.               *)

\* ServiceContext::send.
Send(s, c) == \E d \in Services, kind \in {"msg", "odd"} :
    /\ InCode(s, c)
    /\ May("send") /\ Use("send")
    /\ Push(d, Packle(kind, s, 0, 0))
    /\ UNCHANGED <<run, corVars, forkQ, pool, retp, timerVars>>

\* getSession: a session that no suspended coroutine has.  Mutant: it does not
\* ask hasSession.
AnySession(s) == Sids
GetSession(s) == Sids \ DOMAIN pool[s]

\* ServiceContext::call pushes the packle ...
Call(s, c) == \E d \in Services, sid \in GetSession(s) :
    /\ InCode(s, c) /\ MayBlock(c)
    /\ May("call") /\ Use("call")
    /\ Push(d, Packle("msg", s, sid, used["call"] + 1))
    /\ within' = [within EXCEPT ![s] = [at |-> "suspend", op |-> "call",
                                       session |-> sid, val |-> used["call"] + 1]]
    /\ UNCHANGED <<run, corVars, forkQ, pool, retp, timers, wheel, lastId>>

\* ... and suspends the caller when the answer may be there already.
Suspend(s, c) ==
    /\ Executes(s, c) /\ within[s].at = "suspend"
    /\ pool' = [pool EXCEPT ![s] = Put(@, within[s].session, c)]
    /\ co' = [co EXCEPT ![c].sid = within[s].session, ![c].state = "SUSPENDED",
                        ![c].wants = Reply(within[s].val)]
    /\ within' = [within EXCEPT ![s] = NotWithin]
    /\ UNCHANGED <<mail, run, made, free, forkQ, retp, timers, wheel, lastId, used>>

\* setReturnPackle: for the session of the call that c handles, if any.
SetReturn(s, c) ==
    /\ InCode(s, c)
    /\ "replyOnce" \in Rules => co[c].req # 0 /\ ~co[c].replied
    /\ retp' = [retp EXCEPT ![s] = Packle("ret", s, co[c].rsid, co[c].req)]
    /\ co' = [co EXCEPT ![c].replied = TRUE]
    /\ UNCHANGED <<mail, run, made, free, forkQ, pool, timerVars, used>>

\* fork.
Fork(s, c) == \E new \in Cors :
    /\ InCode(s, c)
    /\ May("fork") /\ Use("fork")
    /\ GetCoroutine(new)
    /\ co' = [co EXCEPT ![new] = NewCor("fork")]
    /\ forkQ' = [forkQ EXCEPT ![s] = Append(@, new)]
    /\ UNCHANGED <<mail, run, pool, retp, timerVars>>

(* addTimer, for sleep and for timers with a callback.  All threads share  *)
(* the static id, with no lock: ++id is a load and a store, and the key in *)
(* m_timers is another load.                                               *)
LoadId(s, c) == \E op \in {"sleep", "once", "loop"} :
    /\ InCode(s, c) /\ s \in TimerUsers
    /\ op = "sleep" =>
          /\ MayBlock(c)
          /\ "replyFirst" \in Rules => co[c].req = 0 \/ co[c].replied
    /\ May("timer") /\ Use("timer")
    /\ within' = [within EXCEPT ![s] =
                    [at |-> "store", op |-> op, session |-> 0, val |-> lastId]]
    /\ UNCHANGED <<mail, run, corVars, forkQ, pool, retp, timers, wheel, lastId>>

\* ++id, and its value in the uint16_t timer->session.  Mutants: the id is not
\* incremented; the session is too narrow.
Same(val) == val
Increment(val) == val + 1
SessionNarrow(val) == Increment(val) % 2
Session(val) == Increment(val) % IdRange

StoreId(s, c) ==
    /\ Executes(s, c) /\ within[s].at = "store"
    /\ lastId' = Increment(within[s].val)
    /\ within' = [within EXCEPT ![s].at = "key", ![s].session = Session(within[s].val)]
    /\ UNCHANGED <<mail, run, corVars, forkQ, pool, retp, timers, wheel, used>>

\* m_timers[id] = ctx, and GTimerWheel's addTimer.
Armed(s, cor, loop) ==
    /\ timers' = [timers EXCEPT ![s] =
                     Put(@, lastId, [cor |-> cor, loop |-> loop, pending |-> 0])]
    /\ wheel' = wheel \cup {[serv |-> s, session |-> within[s].session,
                             id |-> lastId, cor |-> cor, loop |-> loop]}
    /\ within' = [within EXCEPT ![s] = NotWithin]

\* sleep: the timer resumes the caller itself, which yields.
RegisterSleep(s, c) ==
    /\ Executes(s, c) /\ within[s].at = "key" /\ within[s].op = "sleep"
    /\ Armed(s, c, FALSE)
    /\ co' = [co EXCEPT ![c].state = "SUSPENDED", ![c].wants = Tick(lastId)]
    /\ UNCHANGED <<mail, run, made, free, forkQ, pool, retp, lastId, used>>

\* A callback gets a coroutine of its own, started by the first TIMER packle.
RegisterCallback(s, c) == \E new \in Cors :
    /\ Executes(s, c) /\ within[s].at = "key" /\ within[s].op \in {"once", "loop"}
    /\ GetCoroutine(new)
    /\ co' = [co EXCEPT ![new] = [NewCor(within[s].op) EXCEPT
                                    !.tid = lastId, !.wants = Tick(lastId)]]
    /\ Armed(s, new, within[s].op = "loop")
    /\ UNCHANGED <<mail, run, forkQ, pool, retp, lastId, used>>

\* The callback of timer id waits for its timer, not for anything else.
Idle(s, id) ==
    LET c == timers[s][id].cor IN
    co[c].state = "INIT" \/ (co[c].state = "SUSPENDED" /\ co[c].wants = Tick(id))

\* removeTimer of a timer with a callback (nobody knows the id of a sleep).
RemoveTimer(s, c) == \E id \in DOMAIN timers[s] :
    LET cor == timers[s][id].cor IN
    /\ InCode(s, c)
    /\ co[cor].tid = id
    /\ "removeIdle" \in Rules => Idle(s, id)
    /\ May("remove") /\ Use("remove")
    /\ timers' = [timers EXCEPT ![s] = Drop(@, id)]
    /\ free' = [free EXCEPT ![cor] = @ + 1]
    /\ UNCHANGED <<mail, run, co, made, forkQ, pool, retp, wheel, lastId, within>>

\* The handler, forked function or callback returns: yieldToStopped, except
\* that a repeating timer's coroutine waits for the next tick, unless one
\* came meanwhile.
Finish(s, c) ==
    /\ InCode(s, c)
    /\ "answer" \in Rules => co[c].req = 0 \/ co[c].replied
    /\ LET id == co[c].tid
           again == /\ co[c].job = "loop" /\ id \in DOMAIN timers[s]
                    /\ timers[s][id].pending > 0
       IN /\ co' = IF again THEN co
                   ELSE IF co[c].job = "loop"
                   THEN [co EXCEPT ![c].state = "SUSPENDED", ![c].wants = Tick(id)]
                   ELSE [co EXCEPT ![c] = Stopped(@)]
          /\ timers' = IF again THEN [timers EXCEPT ![s][id].pending = @ - 1]
                       ELSE timers
    /\ UNCHANGED <<mail, run, made, free, forkQ, pool, retp, wheel, lastId,
                   within, used>>

-----------------------------------------------------------------------------
(* TimeWheel: a timer expires at some time after it was added.             *)

\* The Timer lives as long as its TimerContext does.
Alive(t) == t.id \in DOMAIN timers[t.serv] /\ timers[t.serv][t.id].cor = t.cor

\* execute pushes a TIMER packle, and a repeating timer stays.
Expire(t) ==
    /\ Alive(t)
    /\ Push(t.serv, Packle("timer", Main, t.session, t.id))
    /\ IF t.loop
       THEN May("expire") /\ Use("expire") /\ UNCHANGED wheel
       ELSE wheel' = wheel \ {t} /\ UNCHANGED used
    /\ UNCHANGED <<run, corVars, forkQ, pool, retp, timers, lastId, within>>

\* The weak_ptr is dangling: tick erases it.
Forget(t) ==
    /\ ~Alive(t)
    /\ wheel' = wheel \ {t}
    /\ UNCHANGED <<mail, run, corVars, forkQ, pool, retp, timers, lastId, within,
                   used>>

Loop(s) ==
    \/ ResumeFork(s)
    \/ DispatchTimer(s) \/ DropTimer(s) \/ DispatchRet(s) \/ DispatchMsg(s)
    \/ DispatchNobody(s) \/ Back(s)

Code(s, c) ==
    \/ Send(s, c) \/ Call(s, c) \/ Suspend(s, c) \/ SetReturn(s, c) \/ Fork(s, c)
    \/ LoadId(s, c) \/ StoreId(s, c)
    \/ RegisterSleep(s, c) \/ RegisterCallback(s, c)
    \/ RemoveTimer(s, c) \/ Finish(s, c)

Next ==
    \/ \E s \in Services : Loop(s)
    \/ \E s \in Services, c \in Cors : Code(s, c)
    \/ \E t \in wheel : Expire(t) \/ Forget(t)

(***************************************************************************)
(* Workers run (Scheduler), service code ends, and a timer that does not   *)
(* repeat expires.  Nobody is obliged to send, call, fork or add timers.   *)
(***************************************************************************)
CodeGoesOn(s) == \E c \in Cors :
    \/ Suspend(s, c) \/ SetReturn(s, c) \/ StoreId(s, c)
    \/ RegisterSleep(s, c) \/ RegisterCallback(s, c) \/ Finish(s, c)

Fairness ==
    /\ \A s \in Services : WF_vars(ResumeFork(s)) /\ WF_vars(Loop(s)) /\ WF_vars(CodeGoesOn(s))
    /\ WF_vars(\E t \in wheel : ~t.loop /\ Expire(t))

Spec == Init /\ [][Next]_vars
FairSpec == Spec /\ Fairness

-----------------------------------------------------------------------------
(* Properties.                                                             *)

InMail(s, p) == \E i \in 1..Len(mail[s]) : mail[s][i] = p
Forked(c) == \E s \in Services : \E i \in 1..Len(forkQ[s]) : forkQ[s][i] = c
Pooled(c) == \E s \in Services : \E sid \in DOMAIN pool[s] : pool[s][sid] = c
Timed(c)  == \E s \in Services : \E id \in DOMAIN timers[s] : timers[s][id].cor = c

TypeOK ==
    /\ \A s \in Services :
          /\ \A i \in 1..Len(mail[s]) :
                mail[s][i] \in [kind : {"msg", "odd", "ret", "timer"},
                               src : Services \cup {Main}, sid : Nat, re : Nat]
          /\ run[s].cor \in Cors \cup {NoCor}
          /\ \A i \in 1..Len(forkQ[s]) : forkQ[s][i] \in 1..made
          /\ DOMAIN pool[s] \subseteq Sids
          /\ \A sid \in DOMAIN pool[s] : pool[s][sid] \in 1..made
          /\ \A id \in DOMAIN timers[s] : timers[s][id].cor \in 1..made
    /\ made \in 0..MaxCors
    /\ \A c \in Cors : co[c].state \in {"INIT", "RUNNING", "SUSPENDED", "STOPPED"}
    /\ \A t \in wheel : t.id \in 1..lastId

\* Blocking functions block (README.md:24 call, README.md:37 sleep): service
\* code that runs after a call has the response to that very call, and after
\* a sleep its own timer has expired; a callback runs for its own timer only.
WokenByWhatItWaitsFor ==
    \A c \in Cors : co[c].state = "RUNNING" => co[c].got = co[c].wants

\* The waiting caller of call n.
Waits(s, c, n) ==
    /\ co[c].state = "SUSPENDED" /\ co[c].wants = Reply(n)
    /\ co[c].sid \in DOMAIN pool[s] /\ pool[s][co[c].sid] = c

\* Where packle p waits to be dispatched.
AskedAt(p) ==
    UNION {{<<"asked", d, i>> : i \in {i \in 1..Len(mail[d]) : mail[d][i] = p}} : d \in Services}

\* Where the answer to call n may be: not begun, being worked out, set as
\* return packle of the service that handles it, or in the caller's mailbox
\* under the caller's session.
AnswersTo(s, c, n) ==
    AskedAt(Packle("msg", s, co[c].sid, n))
    \cup {<<"handled", h>> : h \in {h \in Cors :
            /\ co[h].job = "handler" /\ co[h].req = n /\ ~co[h].replied
            /\ co[h].state \in {"RUNNING", "SUSPENDED"}}}
    \cup {<<"set", d>> : d \in {d \in Services :
            /\ retp[d].re = n /\ retp[d].sid = co[c].sid
            /\ run[d].cor # NoCor /\ co[run[d].cor].rsrc = s}}
    \cup {<<"sent", i>> : i \in {i \in 1..Len(mail[s]) :
            mail[s][i].kind = "ret" /\ mail[s][i].sid = co[c].sid /\ mail[s][i].re = n}}

\* Every call that waits has its answer in exactly one place: no response is
\* lost, overwritten, duplicated or sent to somebody else.
OneAnswerPerCall ==
    \A s \in Services, c \in Cors, n \in 1..Limit["call"] :
        Waits(s, c, n) => Cardinality(AnswersTo(s, c, n)) = 1

\* What the code requires of coroutines and their places: one that is taken
\* from a free queue does not run (serviceContext.cc:147, coroutine.cc:61), the
\* session of a call is not in the pool when it is put there
\* (serviceContext.cc:48), a response finds its coroutine suspended (:250), a fork
\* one that neither runs nor ended and a timer one that has not ended
\* (coroutine.cc:96,99), and m_timers.erase(it) at serviceContext.cc:80 erases an
\* entry that is there.
AssertionsHold ==
    /\ \A c \in Cors : free[c] > 0 => co[c].state # "RUNNING"
    /\ \A s \in Services : within[s].at = "suspend" => within[s].session \notin DOMAIN pool[s]
    /\ \A c \in Cors : Forked(c) => Resumable(c)
    /\ \A c \in Cors : Pooled(c) => co[c].state = "SUSPENDED"
    /\ \A c \in Cors : Timed(c) => co[c].state # "STOPPED" \/ \E s \in Services : run[s].cor = c
    /\ \A s \in Services :
          run[s].by = "timer" /\ ~run[s].loop => run[s].tid \in DOMAIN timers[s]

\* A coroutine in a free queue is there once and nobody else holds it: reset
\* never takes the stack from under a coroutine that is still waiting.
FreeMeansFree ==
    \A c \in Cors : free[c] > 0 =>
        /\ free[c] = 1
        /\ ~Forked(c) /\ ~Pooled(c) /\ ~Timed(c)
        /\ \A s \in Services : run[s].cor # c

\* "Coroutine should never be reset when running" (coroutine.cc:62; asserted at
\* serviceContext.cc:147): what getCoroutine takes from a free queue does not run.
NeverResetRunning ==
    [][\A c \in Cors : free'[c] < free[c] => co[c].state # "RUNNING"]_vars

CallOpen(n)  == \E c \in Cors : co[c].state = "SUSPENDED" /\ co[c].wants = Reply(n)
SleepOpen(n) == \E c \in Cors :
    co[c].state = "SUSPENDED" /\ co[c].wants = Tick(n) /\ co[c].tid # n

\* README.md:24: call wakes the caller once the response is there; provided
\* handlers set a return packle ("answer").
EveryCallReturns == \A n \in 1..Limit["call"] : CallOpen(n) ~> ~CallOpen(n)

\* README.md:37: sleep returns.
EverySleepReturns ==
    \A n \in 1..Limit["timer"] : SleepOpen(n) ~> ~SleepOpen(n)
=============================================================================
