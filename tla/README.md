# A TLA+ model of oimo

oimo is an actor-like service framework in C++: services exchange packles
(messages), every callback of a service runs in a coroutine, and a small pool of
worker threads executes all services. This directory specifies its behaviour,
checks it with TLC on small instances, and proves the central results with TLAPS
for instances of any size. Paths below are relative to the root of the repository.

Contents: [the system](#1-the-system), [the modules](#2-the-modules),
[the runs](#3-the-runs), [the proofs](#4-the-proofs),
[disagreements found](#5-disagreements-between-the-code-and-its-documentation),
[not modelled](#6-what-is-not-modelled), [what could follow](#7-what-could-follow).

## 1. The system

| Component | State it keeps | Operations | What makes it correct |
|---|---|---|---|
| `PackleQueue` (queue.h, queue.cc), one per service | deque of packles, `m_isInGlobal`, `m_isProcessing`, spin lock | `push`, `pop`, `size`, `startProcess`, `finishProcess` | a service with work is known to the workers, and to one of them only |
| `GlobalQueue` (queue.h) | deque of PackleQueues, spin lock | `push`, `pop`, `empty` | a service is in it at most once |
| `WorkThread` (workThread.cc) | `running`; per worker its queue and batch | `start`, `stop`, `join`, `work` | README.md:35: one thread at a time inside a service |
| `ServiceContext` (serviceContext.cc) | handlers, `m_suspendingPool`, `m_forkingQueue`, `m_timers`, `m_returnPackle`, `m_responsePackle`; per thread `t_freeQueue` | `dispatch`, `doFork`, `send`, `call`, `ret`, `fork`, `addFork`, `addTimer`, `removeTimer` | every call gets its own response; blocked code is woken by what it waits for; no coroutine is used twice |
| `Coroutine` (coroutine.cc) | state, session, caller's session and source, stack | `resume`, `reset`, `yieldToSuspend`, `yieldToStopped` | its LOG_FATALs cannot be reached |
| `TimeWheel` (timeWheel.cc) | wheel of slots with weak pointers to timers, list of new timers | `addTimer`, `tick`, `stop` | a timer fires once per period, neither early nor a turn late |
| `RingBuffer` (ringBuffer.cc) | buffer, head, tail | `write`, `read`, `remain`, `used` | a queue of bytes |
| `Connection`, `TcpServer` | receive buffer, waiting readers, close flag | `start`, `send`, `recv`, `close`; handlers of DATA, CLOSEREAD, NEWCONN, ERROR | readers are woken; what was sent before close is written |
| Socket thread: `SocketContext`, `PipeContext`, `EventLoop`, `EPoller` | socket type, events, write buffers, pending close | commands through a pipe, epoll events | no command reaches a context that is gone |
| `Application`, `Thread`, `TimeThread`, `SocketThread` | thread states, four running flags | `run`, `stop`, `start`, `join`, destructors | stop ends every thread; no thread outlives what it uses |
| `Logger`, `LogThread`, `LogFile` | list of lines, the batch under way, the open file with its counters | log, swap, append, flush, roll | no line is lost or overtaken; a waiting log thread owes the disk nothing |
| `newService`, `ServiceContextMgr` | contexts by name and by id, services by id, an id counter, the INIT packles | `createContext`, `registerService`, `handleInit`, `removeService` | unique ids and names, maps that agree, every service starts |

How they interact. Any thread may `push` a packle to a service; the first push to
an idle service also puts the service into the global queue. A worker pops a
service, resumes the coroutines forked in it, dispatches the packles that were
there when it looked, and puts the service back if work remains. `dispatch` runs
a handler in a coroutine, or resumes one that was suspended in a call or by a
timer. The time thread and the socket thread only ever push packles. Services
write commands to the socket thread through a pipe.

What is hard. The flags of PackleQueue are written without the lock that
protects them elsewhere. Coroutines suspended in one place are resumed from
three others (responses, timers, forks) and are recycled through free queues.
`addTimer` uses a shared counter without a lock. Closing a socket involves two
threads and the kernel. Stopping races with starting, and services create and remove
each other while main still does the same. `PROJECT.json` lists these
hazards with their lines and the properties that address them.

## 2. The modules

**ServiceMailbox** is the promise of the scheduling core, in four actions: packles
are appended to the mailbox of a service (`Send`); a worker must be admitted
(`Enter`), which it is only when nobody is inside; only the worker inside takes
packles, oldest first (`Take`); then it leaves.

**Scheduler** is that core as written: PackleQueue, GlobalQueue and
`WorkThread::work`. One variable per field; `pc` and `push` are the program
counters of the worker's loop and of a thread inside `push`. Granularity:

* PackleQueue::m_lock is explicit (`lock`), because `startProcess` writes the flags
  without it. Each read of a flag in `push` and each store of `startProcess` is a
  step of its own.
* A section under GlobalQueue::m_lock is one step: it takes no other lock, and
  everything it touches except `m_isInGlobal` is only touched there. That flag is
  set under both locks, and read under PackleQueue::m_lock.
* A worker executing service code (`inFork`, `inMsg`) may push to any service and
  may fork, any number of times within the bounds.
* `assert(packle)` (workThread.cc:63) is a guard of `TakePackle`; that the guard
  is true whenever it is needed is the property `BatchIsThere`.

| Code | Actions |
|---|---|
| `PackleQueue::push` | PushLock, PushReadInGlobal, PushReadProcessing, PushEnqueue, PushUnlock |
| `work`: G.pop, startProcess | Claim, MarkProcessing, ClearInGlobal |
| `doFork`, batch loop, coroutines | ResumeFork, ReadSize, TakePackle, Fork, HandlerReturns |
| `finishProcess` | FinishLock, FinishRequeue, FinishDrained, FinishUnlock |
| end of the loop, `stop` | Exit, Stop |

**Dispatch** is what happens inside services: ServiceContext, Coroutine, and what
the TimeWheel does to them. It relies on ServiceMailbox: a service is one
sequential process, and services interleave. The process is in the worker's loop
(`run[s] = NotRunning`) or in a coroutine. When a coroutine yields, `Back` does
what follows `resume()` in doFork and the branches of dispatch (return packle,
`m_timers.erase`, returnCoroutine). It drops the order between forks and batches,
so it allows more than Scheduler does.

Service code is not part of oimo, so it is arbitrary: any sequence of `Send`,
`call` (two steps: `Call` pushes the request, `Suspend` puts the caller into
`m_suspendingPool` when the answer may be there already), `SetReturn`, `Fork`, `addTimer`
(three steps: `LoadId`, `StoreId`, `RegisterSleep` or `RegisterCallback`), `RemoveTimer`,
`Finish`. The constant `Rules` states what it must refrain from, and each rule stands for
a limitation of the code: the passing runs show the framework right under all five rules,
and configurations of section 5 leave one of the first three out.

| Rule | Meaning |
|---|---|
| `replyFirst` | a handler sets its return packle before it sleeps |
| `quickLoops` | the callback of a repeating timer neither calls nor sleeps |
| `removeIdle` | a timer is not removed while its callback is under way |
| `answer` | the handler of a call sets a return packle before it ends |
| `replyOnce` | only the handler of a call sets a return packle, and only one |

Two more limits of the code are parameters of the instance: `TimerUsers`, because the id of
addTimer is shared without a lock, and `IdRange`, the values of the 16-bit session.

Ghost data: `re` in packles names the call they belong to, or the timer that sent them;
`req` and `replied` in coroutines do so for handlers; `wants` and `got` say what a coroutine
waits for and what woke it, where `got` is taken from the packle's `re` and never from the
session by which dispatch looked it up.
Abstractions: message types are "has a handler" or `odd`; session ids come from
the small set `Sids`; the free queues of all threads are one; timers expire at any
time after they were added. `pending` is modelled, and is never incremented: a
coroutine is not RUNNING when a packle for its service is dispatched.

**TimeWheel** says when timers fire. Dispatch leaves that open and models what
becomes of the TIMER packles; TimeWheel has no packles and models `tick`: the timers
taken over from `m_timers` under `m_lock` (`Adopt`, one per step), `Advance`, and the
loop over the list of the slot, one step per iteration (`VisitDead` ... `VisitRepeat`).
Between any two steps another thread may add or drop a timer; `wt.lock()` and
`unique()` read whether it is still `owned`. The list is a sequence and the iterator
a position; `Proceed` ends the loop at the last element, because an element appended
after `erase` returned `end()` is not visited. Time is in milliseconds and a tick takes
none; `due` is a ghost clock of each timer.

**RingBuffer** is the receive buffer of a Connection, byte by byte: the arithmetic of
head and tail modulo 2^64, growth and wrapping; **ByteQueue** is what it promises.
Its owner writes what the network delivers, and nothing is excluded. The code is not
always a queue, so the ghost `spoilt` remembers the first write that leaves no byte free,
or that moves bytes which did not end at the tail; what holds until then is stated with it, and
what the code promises without it is what two configurations of section 5 refute. Where a
write has gone past the end of the buffer, no action is enabled any more (`InBuffer`).

**Sockets** is the network side: the coroutines of a service on one end, the socket
thread on the other, and between them the pipe (commands `S`, `D`, `C`), the mailbox
(NEWCONN, DATA, CLOSEREAD, ERROR, and the responses to start and close), and the
SocketContext, which both threads write. One descriptor number stands for all, because
contexts and `m_conns` are indexed by it; connections come and go under it.

| Code | Actions |
|---|---|
| `EventLoop::loop`, `EPoller::poll` | Poll, TakePipe, TakeContext |
| `PipeContext::handleEvent` | HandleStart, HandleData, HandleClose, PipeEnds |
| `SocketContext::handleEvent` | TakeContext, then ReadError / ReadEnd / ReadData, then WriteAll / WriteSome / WriteError, then ReportError |
| `SocketContext::newConnection` | NewConnection |
| handlers of TcpServer | HandleNewConn, HandleRead, HandleHalfClose, HandleError |
| Connection and the end of handleNewConn | Start, Send, RecvNow, RecvWait, Close, Started, Closed, ResumeReader, Return |

A step of the socket thread is one command, one `read`, one `writeWB` or one report;
`batch` keeps what is left of `m_activeFds` between them. The epoll registration is in
`ctx.watch`, next to `added` and `events`, with which it may disagree after failed
`epoll_ctl` calls. The kernel and the peers are external: a peer sends, ends its
direction or resets the connection at any time; a write may find no room. Data come in
pieces that carry their connection and number. Rules:

| Rule | Meaning |
|---|---|
| `ownNumber` | the kernel does not give the number away while somebody who takes it for the old connection may still close it |
| `roomy` | a write finds room in the kernel once a close is pending |

The code behind `m_cb` is that of tests/test_conn.cc: start, then send and recv in any
order, then close, then return. It uses no Connection whose `fd()` is -1: `close` would
index `m_contexts` with it (connection.cc:31).

**Logging** follows a line from the statement to the disk. A Logger appends under
`g_logMutex`, so a statement is one step (`Log`, `Abort` for FATAL); the log thread is
a loop whose steps are the test of `m_running` (`Loop`), the exchange of the two vectors
(`Swap`) and one line for the file or for stdout (`AppendToFile`, `FlushFile`,
`PrintLine`, `Printed`). A line is its size: `Fit` cuts what exceeds the buffer. `wait_for` may end
at any time. `AppendToFile` is `LogFile::append` with its flush and its two ways to `rollFile`; lines
carry a ghost that says in which file and when they were written. The constructor leaves
`m_startOfPeriod` uninitialised, so `Init` draws it.

**Registry** is how services come and go. Every call of `newService` has a number, by which
its object and its context are named, and a stage: the look-up in createContext
(`NewService`), the two halves of `++s_serviceID` (`ReadCounter`, `WriteCounter`),
`RegisterContext`, `RegisterService`, `RegisterFunc`, `SendInit`, and the end of the wait
(`Return`). `BeginInit` and `EndInit` are handleInit before and after `init`;
`RemoveService` is removeService with removeContext, which hold both locks. The ghost `clashed`
remembers that a name in use was given or that two calls drew an id at the same time: nothing
in the code prevents either.

**Lifecycle** is the threads from main to exit: `Run`, `StartThread` and `Started` (Thread::start),
`Begin` (Thread::run), `Enter` and `End` (the loops), `Join`, and `ClearFlag`, Application::stop
one flag at a time. The four thread singletons are constructed by whoever uses them first, run or
stop, and `built` records the order; `Destroy` is their destructors in the opposite order, and
`DestroyApplication` that of Application, which calls stop once more and may construct them.

**Application** composes both: main creates services and runs; a worker takes an INIT packle
or the answer to a newService (at most one worker per service, which Scheduler shows), runs the
service's code until it ends or waits in newService, and this code creates and removes
services and calls stop. The constants `RegistryRules` and `LifecycleRules` are to these modules what
`Rules` is to Dispatch:

| Rule | Meaning |
|---|---|
| `newNames` | a name is given again only when its service was removed |
| `oneCounts` | two calls of newService do not draw an id at the same time |
| `removeIdle` | a service is not removed while its code is in newService, and creates none after its removal |
| `run` | main calls run before it returns |
| `patient` | a thread sets its state to RUNNING before the 500 ms wait of its start ends |
| `started` | stop is called when all threads are in their loops |

**MCScheduler**, **MCDispatch**, **MCRingBuffer** give TLC what its instances need.
**SchedulerProofs**, **DispatchProofs**, **DispatchAnswersProofs**, **RingBufferProofs**,
**TimeWheelProofs**, **LoggingProofs**, **ApplicationProofs** and **SocketsProofs** hold the
proofs.

An operator whose comment calls it a mutant is a deliberately wrong version of
the definition below it. Replacing that definition by it must make a property
fail, which shows that the property depends on that line of the code.

## 3. The runs

| Run | Instance | What it shows |
|---|---|---|
| `scheduler` | 2 services, 2 workers, 1 other sender, each thread sends one packle, 1 fork per service; about 21 000 states | below |
| `dispatch_call` | 2 services, 2 sessions, any 2 uses of call, fork, send and (in one service) addTimer; about 46 000 states | below |
| `dispatch_timer` | 1 service, 2 timers of any kind, 1 extra tick, 1 removal, 1 fork, 1 send; about 58 000 states | below |
| `time_wheel` | 2 timers, 3 slots, 2 ms per tick, delays 0, 6 (one turn), 7, interval 7; about 190 000 states | below |
| `ring_buffer` | 2 bytes, sizes 3 and 6, up to 3 bytes per call, 2^16 for the 2^64 of size_t (any number that is larger than all sizes does); about 13 500 states | below |
| `sockets` | 2 connections under one number, 2 pieces of data; about 160 000 states | below |
| `logging` | 5 lines of two sizes, one cut in the buffer, 3 seconds, rolls after 4 bytes and every second, periods looked at every 2 lines; about 400 000 states | below |
| `application` | 4 calls of newService, 2 of them by main, 2 workers, 1 service that may be removed and 1 that calls stop, all rules but `run`; about 110 000 states | below |
| `late_reply`, `reader_left`, `whole_turn`, `id_race` | small instances in which a property is violated | section 5 |

Further configurations are not in `PROJECT.json`. Two hold, and show that the safety half of
`application` needs no rules; the others are the counterexamples that section 5 names by their file.

| Configuration of `Application` | Instance | What it shows |
|---|---|---|
| `MCRegistry.cfg` | 4 calls of newService, 2 workers, removal, no stop, no rule about names, ids and removal; about 490 000 states | `MapsAgree` |
| `MCLifecycle.cfg` | 2 calls of newService, 2 workers, a stop by one service, no rule at all; about 130 000 states | `OnlyUnstartedFail`, `NoThreadLeft` |

*scheduler.* `OneThreadPerService` (README.md:35), `QueuedOnce`, `BatchIsThere`,
`NoLostWakeup` and the refinement `MailboxSpec` are safety; `EveryPackleDispatched`,
`EveryForkResumed` (both unless stop is called, after which workers leave their
queues as they are) and `StopEndsWorkers` are liveness. Two workers suffice for
two threads to compete for a service; three threads can be in `push` for one
service at once or one after the other; batches of up to three packles occur,
and packles and forks that arrive while a batch is processed. The proofs remove
the bounds for safety.

*dispatch_call.* `WokenByWhatItWaitsFor`: code that goes on after a call has the
response to that call, and code that goes on after a sleep was woken by its timer.
`OneAnswerPerCall`: while a caller waits, its answer is in exactly one place
(request queued, handler at work, return packle set, response queued).
`EveryCallReturns`. Two calls are needed for two callers of one service, for a
handler that calls before it answers, and for two calls under way in each
direction; a service may call itself. Two session ids make a clash possible.

*dispatch_timer.* `AssertionsHold` (what getCoroutine takes does not run, serviceContext.cc:147
and coroutine.cc:61; call finds its session unused in the pool, :48; a response finds its
coroutine suspended, :250, a fork one that neither runs nor ended, and a timer one that has not
ended, coroutine.cc:96 and 99; `m_timers.erase(it)` at :80 erases a present entry),
`FreeMeansFree` (a coroutine in a free queue is there once and nobody else holds
it), `EverySleepReturns`, and the type invariant. Two timers
give every pair of sleep, one-shot and repeating timer, one inside the callback
of the other or side by side. `expire` bounds the ticks of repeating timers.

*time_wheel.* `FiresOnTime`: every TIMER packle is sent within an interval of the wheel
of its time, `NeverLate`: no timer is overdue by more than that (both for delays that
are rounded up, for delay 0, and for more than a turn), and `TickEnds`. Intervals are not whole numbers of turns; see section 5. Two
timers make lists of two elements, where one is erased, re-added or dropped before or
behind the other.

*sockets.* `AssertionsHold`: the assertions of PipeContext and handleNewConn, and that a
command is carried out on the connection it was sent for. `InboundWhole`,
`OutboundWhole`: the two streams of every connection; what the service sent before a
close has reached the kernel when close returns. `EveryCommandIsAnswered`,
`DataReachesReader`: start, close and recv return. A second connection is what the
remains of the first could harm; two pieces can be exchanged, mixed up or handed over
separately, in each direction.

*ring_buffer.* `QueueUntilSpoilt`, the refinement of ByteQueue up to the first write that spoils
the buffer. Two different bytes tell any wrong copy from a right one; three cells wrap in every
position, and one growth happens with every fill. `BlamedRightly`: the ghost is set only where the
code fails, that is, by a write that does not append its bytes or that leaves a full buffer whose
`remain()` has gone below zero; otherwise the first property could hold of anything.

*logging.* `NoLineLost`: what was written, what is left of the batch and what is queued are
at every moment the lines logged so far, in order, for the file and for stdout. `OnDisk`: an
abort while the log thread waits loses nothing it has taken. `PeriodsApart`: a file opened by
a roll gets at most `m_checkEveryN` lines of a later day. `EveryLineWritten`, unless the
process is stopped or aborts. Five lines make batches of several lines while others are
queued, a roll by size and by time in one batch, and a check that falls on a new period and
one that does not.

*application.* `EveryServiceStarts`: init is run and newService returns, from main and from inits
of inits, of removed services too, unless stop comes or the process ends first. `StopEndsProcess`:
every thread sees its flag, main joins them all, and the destructors end. `MapsAgree`: the two maps of
ServiceContextMgr and that of Application lead to the same contexts and objects while calls of
newService are at any stage and services are removed. `OnlyUnstartedFail`: nothing but the destructor
of a thread that main never created ends the process early. `NoThreadLeft`: all threads have ended
when destructors run. Main may return without run, after which ~Application constructs the thread
singletons. Four calls are enough for coroutines of both workers to be in newService at once, for a
removed service's name to be given again, and for a service three levels deep. In `MCRegistry.cfg`
behaviours in which `clashed` is set are part of the instance, but `MapsAgree` says nothing of what
follows. In `MCLifecycle.cfg` main may give up waiting for any thread, and stop may come at any time,
also while main starts threads, so that the singletons are constructed in several orders.

`CHECK_DEADLOCK FALSE` everywhere: idle services, stopped workers and used-up
bounds are legitimate ends.

*Fairness.* Threads that are in the middle of something go on (weak fairness of
`PushGoesOn`, `WorkGoesOn`; in Dispatch of the worker's loop and of code that has
begun an operation or may end): the operating system schedules every runnable
thread. The spin locks are test-and-set locks, which are not fair; weak
fairness is nevertheless enough here, because each thread takes a lock a bounded
number of times (`MaxSends`), so a lock is not for ever taken by others. That
service code ends, and that a one-shot timer expires, is assumed (the latter is what
`time_wheel` shows, with weak fairness of the time thread alone); that
anybody sends, calls, forks, adds timers or stops is not. In Sockets the socket thread,
the worker's loop and service code that is not waiting go on (weak fairness of
`SocketThread`, `WorkerLoop`, `Code`); peers and the arrival of connections are not fair. In
Logging only the log thread is (each of its steps is enabled until it is taken). In Application
fairness is that of `Next`: every behaviour is finite there, because calls, jobs, flags and
threads only go forward, so it says that the process goes on while any thread can, and
the end of every behaviour is checked. Init code ends in it, and stop may never be called.

## 4. The proofs

`SchedulerProofs` proves about `Scheduler`, for all sets of services, workers and
senders and all bounds: `TypeCorrect`, `OneThread`, `NeverQueuedTwice`,
`AssertPackleHolds`, `WakeupsKept`, and `ImplementsMailbox` (every step of the
scheduler is a step of ServiceMailbox or a stutter). The only assumptions are
those the module states: workers and other senders are disjoint, `NoThread` and
`NoService` are values of their own, the bounds are naturals.

None of the properties is inductive. "One worker inside a service" needs to know
how the second worker would have got in: out of the global queue, where only a
push that read both flags as false, or finishProcess, can have put it. So the
invariant `IInv` follows a *token* of each service: its entry in the global queue,
or the worker that owns it, or a push about to queue it, never two of these.
Its parts:

* `LockHeld`: between its first and last step a push or finishProcess holds the lock;
* `OneOwner`, `QueuedOnce`: at most one token;
* `FlagsAgree`: what the flags say at each program counter. The heart of the matter:
  `m_isInGlobal` stays true until `m_isProcessing` is true, so a push, which reads
  them in that order, cannot find both false while a worker owns the service;
* `PushersRight`: what a push has read still holds when it acts on it, because it
  has the lock and only startProcess, which needs the token, ignores the lock;
* `FlagsMeanToken`: conversely, a flag that is true means that there is a token;
  this is what `NoLostWakeup` needs;
* `ForksAreThere`, `BatchIsThere`: the loop counters never exceed what is there.

There is one lemma per action; each first states what the action does to the
predicates the invariant is made of, then derives each part from these facts.
For the refinement one lemma per action of ServiceMailbox shows which step
implements it (PushLock sends, ClearInGlobal enters, TakePackle takes, FinishLock
leaves), and `OthersMap` that all others stutter.

`DispatchProofs` proves about `Dispatch`, for any services, coroutines, sessions and limits:
`TypeCorrect`, `Asserted` (`AssertionsHold`), `FreeIsFree` (`FreeMeansFree`) and `NeverShared`
(no two services hold one coroutine, and none waits under two sessions), if one service uses
timers and service code keeps to "quickLoops" and "removeIdle", as in `dispatch_timer`.
The first condition (`OneTimerUser`) is there because addTimer takes no lock; the others
(`Refrains`) because the code is wrong without them: `MCDispatchTwoUsers.cfg`,
`MCDispatchSlowLoop.cfg` and `MCDispatchSelfRemoval.cfg` (section 5). The invariant says
for each place where a coroutine can be which state it has there:

* `ForksOk`: what is in `forkQ` is in INIT, once, and nowhere else;
* `PoolOk`: what is in `pool` is SUSPENDED, under one session. It may still have the timer
  that resumed it, because dispatch erases a one-shot timer only when the coroutine is back
  (`Doomed`), so a callback that calls is in `pool` and in `timers` at once;
* `TimersOk`: all other entries of `timers` are of different coroutines that have not ended,
  and run only if they are callbacks of repeating timers. This is what "quickLoops" keeps: such a
  callback is in `timers` while it runs, and would be in `pool` too if it called;
* `RunOk`, `AddOk`: the entry that will be erased is that of what runs, and addTimer is called
  by what runs;
* `Belongs`, `Made`, `Freed`: one service holds a coroutine, and none that is free.
  A step of one service leaves the others alone because of `Belongs` (`StepOf`), so each
  action is looked at in its own service only (`StepShrinks`, `StepGrows`, `PlacesStay`).

`DispatchAnswersProofs` goes on from there with the calls: `WokenRight`
(`WokenByWhatItWaitsFor`) and `AnsweredOnce` (`OneAnswerPerCall`), under the same conditions and
"replyFirst" and "replyOnce" (`RepliesFirst`). `WokenRight` needs fewer timers than sessions, too
(`NoWrap`; `MCDispatchWrap.cfg` shows why), and `AnsweredOnce` needs "answer", for a handler that
ends without a return packle leaves its caller waiting for nothing. "replyFirst" is needed by both: dispatch sends the
return packle when a handler that a request or a response has resumed is back, not after a timer, so
one set after a sleep stays in `retp` and goes out with the next coroutine (section 5). "replyOnce"
is needed because a second return packle overwrites the first, and because one set by code that
handles no call goes to whoever is answered next. Both
theorems follow from one invariant about the numbers of calls (the ghost `re`), on top of
`DispatchProofs`' about coroutines:

* `Wants`: what is in `pool` waits under its own session for the response to a call, what is in
  `timers` for that timer, what is in `forkQ` for nothing;
* `Handlers`: a handler that owes an answer runs or is in `pool`, never in `timers`; while it
  runs, a request or a response has resumed it, so `ret` will follow;
* `Opens`: wherever a number is (in a packle of any mailbox, in a handler that owes an answer, in a
  return packle), it is that of a call that waits (`Open`), in the service and under the session the
  answer will be sent to. So a response never finds another call under its session, though
  sessions are reused: they are free again only when no answer is under way;
* `Once`: no number is in two places; `Answered`: with "answer", that of a call that waits is in
  one.

Between `Call` and `Suspend` the request is out and the caller is not in `pool` yet; `Open` counts
it as waiting from `Call` on (`Calling`). Each action moves at most one number: `Call` puts a new one in a mailbox, `DispatchMsg` takes it to
a handler, `SetReturn` to the return packle, `Back` to the caller's mailbox, and `DispatchRet`
closes the call. All others leave the numbers alone (`AnswersStay`, `QuietAnswers`).

`RingBufferProofs` proves about `RingBuffer`, for any bytes, any sizes that double, calls of any
length and every use of the buffer, with no condition: `TypeCorrect`; `RoomTold` (`RemainTells`:
what remain() returns until the buffer is spoilt, the empty buffer included, where it is 2^64 - 1);
`ImplementsQueue` (`QueueUntilSpoilt`); and `Blamed` (`BlamedRightly`), without
which a ghost that is always set would make the others true of anything: a write that sets
it either does not append its bytes or leaves a full buffer of which remain() says that there is
no end of room. The invariant adds three facts to the types, as long as nothing is spoilt: the
buffer is not full, head = tail only at 0, and every unread byte was written. Each action has a
lemma that says what it does to the unread bytes by index; all arithmetic is in them.

`TimeWheelProofs` proves about `TimeWheel`, for any timers, delays, wheel and interval:
`TypeCorrect`, and `InTime` (`NeverLate`) and `OnTime` (`FiresOnTime`) under the rule
`NoWholeTurn`: no timer repeats after a whole number of turns, where `whole_turn` shows
the code to be wrong. The invariant compares two clocks of each timer: `due`, and `Wait`, which
is what its level in turns and the distance of its slot from the iterator make of it.

* `OnCourse`: they differ by no more than an interval. Adding a timer makes it so, because
  `Ticks` rounds up (`TicksIs`, `AddIs`), and every later step moves both alike: a millisecond,
  `m_cur` going on, a level counted down as the iterator passes;
* `Added`: the same for a timer that is still in `m_timers`, which is late by what is
  over of the tick;
* `Once`, `Wanted`: no timer is in two places, so that a step at one place leaves the clocks
  of all others alone, and one that is in a list and has an owner has yet to fire, and the
  other way round;
* the rule is needed for one step only: a repeating timer appended to the list of `m_cur` would
  be at a distance of a turn by its level, and of nothing by the iterator.

`LoggingProofs` proves about `Logging`, for lines, buffers, files and intervals of any size:
`TypeCorrect`, `NothingLost`, `Durable` and `Apart`. For the second the invariant adds that
`m_buffers` is empty when it is exchanged (`Emptied`). `PeriodsApart` is far from inductive: it
does not say how many lines of a later period are still to come before the next check. `Dated`
ties `m_startOfPeriod` and the lines of the open file to the time when it was opened, and
`FewLate` says that a file that was opened by a roll holds no more lines of a later period than
`m_count`; this holds because lines on time are written before all late ones.

`ApplicationProofs` proves about `Application`, for any number of services, workers and calls:
`TypeCorrect` under "newNames" and "oneCounts"; and with no rule at all `Agreement` (`MapsAgree`:
the maps agree until a name in use is given or two calls draw an id at once), `AssertionsHold`
(`OnlyUnstartedFail`) and `AllJoined` (`NoThreadLeft`). For the first two `RegistryInv`, which is
claimed as long as `clashed` is not set (`Sound`), follows each call through its stages:

* `Ids`, `Counted`: the counter is the number of calls that have drawn; one call is between
  reading and writing it, and has read its value;
* `Own`, `Names`: while a name is looked up, nobody else looks it up or has registered it, so
  each call creates a context of its own;
* `NamedMap`, `ByIdMap`, `ServicesMap`, `Enlisting`: what each entry of the three maps leads to,
  and that the entries of a call that has registered its context are its own;
* `Sent`: a call's INIT packle is queued or its job under way, never both, and only while
  the call waits or main has gone on; `Turns`: a worker is in a job that has begun.

For the last two `Phases` says how far main is: before `start(k)` the threads from k on do not
exist; when main joins, it has created them all; those it has joined have ended. A thread
leaves INIT by itself, so a join fails only at one that is "created". A flag can be wrong, and a
singleton constructed by a stop that comes early, in any of these states without harm to either
property; only that the process ends depends on it.

`SocketsProofs` proves about `Sockets`, for any number of connections and pieces of data and
under both rules: `SocketsTypesHold`, `CommandsReachTheirConnection` (`AssertionsHold`),
`NothingReceivedIsLost` (`InboundWhole`) and `CloseFollowsAllData` (`OutboundWhole`). All
four follow from one invariant, for they need each other: what is in the pipe concerns the
open connection only because the one before was closed by a command that came last, and that
its data were all sent by then is what `OutboundWhole` says. Its parts:

* `Later`, `Earlier`, `Context`, `Thread`: connections to come are untouched and those past have
  no coroutine left that runs; the context is about the last one accepted (`Begun`) or still
  about the one before (`Fresh`, until NEWCONN is handled), and a closed context stays so;
* `Pipe`, `Mail`: what each command and packle says about the context and about the coroutine
  whose call waits for it. A close is the last command; NEWCONN is the last packle, so all
  that an old connection left in the mailbox is handled before the number has a new meaning;
* `Coroutines`: which coroutine can run, be woken or wait in `recv`, and for whom;
* `Resets`: the thread gives up a connection by itself (error, HUP, writing no more) only if
  the peer has reset it. With the rule "roomy" this is why a close is always after all data;
* `Reading`: when the thread stops reading, nothing is left to read, or the peer has reset the
  connection and what is left is lost to nobody who could still read it;
* `OutStream` and `OutHeld`, `InStream` and `InMail`: where the pieces are. Everything is a
  `Stretch` of the stream: what the peer has, `m_wb`, and the commands one by one; what `recv`
  returned, the Connection's buffer, each DATA packle, and what the kernel still holds. A step
  moves a boundary between two stretches (`StretchConcat`, `StretchCut`).

`InboundWhole` speaks of packles with data that follow each other without a gap, where one
would write that their concatenation is the stream: the operators that fold over a sequence
are recursive, and nothing can be proved of them here. There is again one lemma per action
and part of the invariant.

Every safety property that a passing run checks is stated by one of these theorems. Only
model-checked are the liveness properties: the prover has no support for fairness.

## 5. Disagreements between the code and its documentation

The first four are runs of `PROJECT.json`. The others have a configuration each, of the module that
its name begins with (`MCRegistryRace.cfg` and `MCLifecycle*.cfg` of `Application`), and TLC finds the
property violated within seconds.

* `late_reply`: README.md:24, 26 and 37 promise that a caller is woken by the response, that
  setReturnPackle sets it when processing ends, and that sleep can be used in between. A handler
  that sleeps first is continued by the TIMER branch of `dispatch` (serviceContext.cc:64-88),
  which returns before `if (m_returnPackle) ret(source)`. The caller waits for ever, and the
  packle goes to whoever sends the next one. `Service::handleInit` does the same when `init`
  sleeps (tests/test_timer.cc:9) and the service was created by another one.
* `reader_left`: a coroutine in recv is not woken when the peer closes (tcpServer.cc:154-163): it
  waits for ever, and its connection is never closed.
* `whole_turn`: a repeating timer whose interval is a whole number of turns (n times 600 ms with
  the default wheel; tests/test_timer.cc:13 uses 3000) is appended to the list `tick` is walking
  (timeWheel.cc:82-88). With another entry behind it, it is visited again in the same tick: it
  fires again at once, or a turn too early. Two such timers in one slot keep the time thread in
  this loop for ever.
* `id_race` (no `oneCounts`): two calls of newService read the same `s_serviceID`
  (serviceContextMgr.cc:12), and one of the contexts can no longer be found.
* `MCRingBufferFull.cfg` (`QueueSpec`): `remain()` of an empty buffer, and of one filled to the
  last byte, is -1 and so 2^64 - 1 (ringBuffer.cc:85-91). A first read of 1024 bytes from a socket
  fills the buffer of 1024 bytes exactly, and the next one overwrites it.
* `MCRingBufferGrown.cfg` (`GrowthAppends`): when the buffer grows, `used()` is computed after
  `m_head = 0` (ringBuffer.cc:34-35) and gives the old tail back, so bytes nobody wrote come out
  if some were read before, or, if the data wrapped, some are lost.
* `MCDispatchSlowLoop.cfg` (`WokenByWhatItWaitsFor`, no `quickLoops`): the next tick of a
  repeating timer resumes its callback in the middle of a call (serviceContext.cc:69-77), which
  returns without a response, against README.md:24. The callback then runs while it is still in
  m_suspendingPool, and the response would resume it once more.
* `MCDispatchSelfRemoval.cfg` (`NeverResetRunning`, no `removeIdle`): a callback that removes its
  own timer puts the coroutine it runs in into the free queue (serviceContext.cc:319); the next
  fork or timer resets it, which coroutine.cc:62 says should never happen.
* `MCDispatchTwoUsers.cfg` (`EverySleepReturns`): two services mix up their ids
  (serviceContext.cc:286-295); a TIMER packle carries another session than the TimerContext has,
  and a sleep never ends.
* `MCDispatchWrap.cfg` (`WokenByWhatItWaitsFor`): ids of timers have 64 bits, their sessions 16
  (timeWheel.h:17). A TIMER packle resumes what is registered under its session, which is another
  timer's code.
* `MCSocketsNumber.cfg` (`NumberIsNew`, no `ownNumber`): handleNewConn copies a Socket, so the
  descriptor is closed once more when it ends (tcpServer.cc:101, socket.cc:12-14). An error has
  made the service close the connection by then, but the old Connection is still in m_conns when
  the NEWCONN of the next one under this number is dispatched, and `assert(m_conns.find(fd) ==
  m_conns.end())` (tcpServer.cc:96) fails.
* `MCSocketsFull.cfg` (`OutboundWhole`, no `roomy`): handleWrite looks at `m_closeSession` before
  it looks at what writeWB returned, so that EAGAIN loses the rest (socketContext.cc:175-184),
  though the log says that all data were sent.
* `MCSocketsReset.cfg` (`EveryWaitEnds`): a close that waits for unsent data is not answered when
  the peer resets: the HUP branch of handleEvent reports an error, which handleError ignores
  because the connection is already out of `m_conns`. `EveryCommandIsAnswered` excepts this,
  `EveryWaitEnds` does not.
* `MCSocketsReport.cfg` (`ReportsToService`): if the reset comes between epoll_wait and read in
  the batch in which such a close arrives, handleRead fails, handleWrite closes, and the error is
  sent to service 0, whose absence `assert(servCtx)` (fdContext.cc:36) turns into an abort.
  `ReportError` has the assertion as its guard.
* `MCLifecycleSlow.cfg` (`NoAssertionFails`, no `patient`): Thread::start goes on after 500 ms or
  a spurious wake-up, and join asserts that the state is not INIT (thread.cc:22, 26).
* `MCLifecycleEarly.cfg` (`StopEndsProcess`, no `started`): a stop that clears `m_running` or
  `m_looping` before the time or socket thread has set it (timeWheel.cc:21, eventloop.cc:11) is
  undone, and main joins that thread for ever. An init that calls stop may do this, since workers
  run before the other two threads are started (application.cc:32-34).

Four things are shown by no configuration as a violation, because nothing in the repository says
what should happen:

* A name that is in use may be given again. Two calls can find it free and both register a context
  for it (serviceContext.cc:10-19); and a second service of a name that is taken binds its own
  handleInit over that of the first, while `services` keeps the first (application.cc:63-68). The
  ghost `clashed` excepts both from `MapsAgree`.
* Without the `removeIdle` of Application, `EveryServiceStarts` fails: ret cannot find the context
  of a caller that was removed while it waits in newService, and its coroutine is never resumed
  (serviceContext.cc:223-236).
* A process whose main does not call run ends in the destructor of TimeThread, which joins a
  thread that does not exist (timerThread.cc:7-10, 18): ~Application calls stop, which constructs
  the singletons. `OnlyUnstartedFail` names this end.
* `m_startOfPeriod` is not initialised (log.h:141-173). If its value happens to be a later period
  in which the first check falls, the first file collects all lines of that period; otherwise the
  first check rolls the file, although its period may not have ended (log.cc:85-91).
  `PeriodsApart` excepts the first file.

## 6. What is not modelled

* Stacks and the register switch (coctx_swap.S), registration of handlers other than INIT's,
  contents and serialisation of packles, log texts and levels, configuration, address
  conversion and wrappers of system calls: data or I/O without an order of steps to get wrong.
* A PackleQueue whose ServiceContext has expired (workThread.cc:55-57): the service
  has been removed and nothing can be observed of it any more.
* Weak memory: the model is sequentially consistent. The two plain stores of
  startProcess are taken in source order or as one; another order is the mutant
  `MarkProcessingLate`, which breaks the service's mutual exclusion.
* In Sockets: a write to a reset connection returns an error; that it also raises
  SIGPIPE, which oimo does not ignore, is left out. The listening context, several
  readers of one connection, read sizes and a full pipe are left out too.
* In Logging: a failing or short `fwrite`, a failing `fopen` in rollFile, and two clock readings
  of one `append` that differ.
* In Application: an init that sleeps (`late_reply` is about what becomes of its answer), packles
  other than INIT and its answers (Dispatch has them), destructors of
  singletons other than the four threads (TimeThread's uses the TimeWheel, LogThread's the sinks:
  that these still exist is not checked), stop called by a thread that is no worker, and a second run.
* Data races as undefined behaviour of C++: the flags, counters and states above are plain
  variables, read and written by several threads; the model gives each access its place in
  one order.

## 7. What could follow

The listening context of TcpServer and several descriptor numbers in Sockets.
