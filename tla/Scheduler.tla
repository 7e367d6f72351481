----------------------------- MODULE Scheduler ------------------------------
(***************************************************************************)
(* The scheduling core: PackleQueue (queue.h, queue.cc), GlobalQueue       *)
(* (queue.h) and the loop of a worker thread (workThread.cc), with the     *)
(* part of ServiceContext the loop calls (doFork, hasFork).                *)
(*                                                                         *)
(* A service's PackleQueue holds its packles and two plain bools;          *)
(* PackleQueue::m_lock protects the packles and the transitions of         *)
(* m_isInGlobal to true, but startProcess writes both bools without it.    *)
(* The model therefore keeps m_lock explicit and every unlocked access a   *)
(* step of its own.  GlobalQueue::m_lock is only ever held around a few    *)
(* statements that take no other lock, so each of those sections is one    *)
(* atomic step.                                                            *)
(*                                                                         *)
(* The two stores of startProcess race with the loads of push.  The build  *)
(* emits them in source order (-O0) or as one 16-bit store (-O3), and push *)
(* loads m_isInGlobal first; every such outcome is an interleaving of the  *)
(* steps MarkProcessing and ClearInGlobal below.                           *)
(***************************************************************************)
EXTENDS Naturals, Sequences

CONSTANTS Services,     \* the services; each has one PackleQueue
          Workers,      \* worker threads running WorkThread::work
          Producers,    \* other threads that push: main, timer, socket
          NoThread,     \* "the lock is free"
          NoService,    \* "the worker has no queue"
          MaxSends,     \* bound: packles each thread sends
          MaxForks      \* bound: coroutines forked in each service

Threads == Workers \cup Producers

ASSUME ThreadsAssumption ==
    /\ Workers \cap Producers = {}
    /\ NoThread \notin Threads
    /\ NoService \notin Services

ASSUME BoundsAssumption == MaxSends \in Nat /\ MaxForks \in Nat

\* A packle is told apart by the thread that sent it and its number there.
Packles == Threads \X (1..MaxSends)

VARIABLES
    queue,        \* PackleQueue::m_queue
    isInGlobal,   \* PackleQueue::m_isInGlobal
    isProcessing, \* PackleQueue::m_isProcessing
    lock,         \* PackleQueue::m_lock: its holder or NoThread
    global,       \* GlobalQueue::m_queue
    forking,      \* length of ServiceContext::m_forkingQueue
    running,      \* WorkThread::running
    pc,           \* where a worker is in WorkThread::work
    que,          \* the worker's local variable que
    todo,         \* iterations left in the worker's current for loop
    push,         \* where a thread is in PackleQueue::push
    dest,         \* the queue a thread pushes to
    sent,         \* packles each thread has sent (bounds the model)
    forked        \* coroutines forked so far (bounds the model)

queueVars  == <<queue, isInGlobal, isProcessing, lock, global>>
workVars   == <<pc, que, todo>>
pushVars   == <<push, dest, sent>>
forkVars   == <<forking, forked>>
vars == <<queueVars, workVars, pushVars, forkVars, running>>

PC == {"idle", "claimed", "marked", "forks", "inFork", "msgs", "inMsg",
       "finish", "unlock", "exited"}
PushPC == {"no", "readInGlobal", "readProcessing", "enqueue", "unlock"}

TypeOK ==
    /\ queue \in [Services -> Seq(Packles)]
    /\ isInGlobal \in [Services -> BOOLEAN]
    /\ isProcessing \in [Services -> BOOLEAN]
    /\ lock \in [Services -> Threads \cup {NoThread}]
    /\ global \in Seq(Services)
    /\ forking \in [Services -> Nat]
    /\ forked \in [Services -> Nat]
    /\ running \in BOOLEAN
    /\ pc \in [Workers -> PC]
    /\ que \in [Workers -> Services \cup {NoService}]
    /\ todo \in [Workers -> Nat]
    /\ push \in [Threads -> PushPC]
    /\ dest \in [Threads -> Services \cup {NoService}]
    /\ sent \in [Threads -> Nat]

Init ==
    /\ queue = [s \in Services |-> <<>>]
    /\ isInGlobal = [s \in Services |-> FALSE]
    /\ isProcessing = [s \in Services |-> FALSE]
    /\ lock = [s \in Services |-> NoThread]
    /\ global = <<>>
    /\ forking = [s \in Services |-> 0]
    /\ forked = [s \in Services |-> 0]
    /\ running = TRUE
    /\ pc = [w \in Workers |-> "idle"]
    /\ que = [w \in Workers |-> NoService]
    /\ todo = [w \in Workers |-> 0]
    /\ push = [t \in Threads |-> "no"]
    /\ dest = [t \in Threads |-> NoService]
    /\ sent = [t \in Threads |-> 0]

-----------------------------------------------------------------------------
(* PackleQueue::push, by any thread: a producer at any time, a worker      *)
(* while it executes a handler or a forked coroutine.                      *)

InHandler(w) == pc[w] \in {"inFork", "inMsg"}

MayPush(t) == t \in Producers \/ (t \in Workers /\ InHandler(t))

\* GlobalQueue::push, one critical section of GlobalQueue::m_lock.
GlobalPush(s) ==
    /\ global' = Append(global, s)
    /\ isInGlobal' = [isInGlobal EXCEPT ![s] = TRUE]

\* Take m_lock and append the packle.
PushLock(t, s) ==
    /\ MayPush(t)
    /\ push[t] = "no"
    /\ sent[t] < MaxSends
    /\ lock[s] = NoThread
    /\ lock' = [lock EXCEPT ![s] = t]
    /\ queue' = [queue EXCEPT ![s] = Append(@, <<t, sent[t] + 1>>)]
    /\ sent' = [sent EXCEPT ![t] = @ + 1]
    /\ push' = [push EXCEPT ![t] = "readInGlobal"]
    /\ dest' = [dest EXCEPT ![t] = s]
    /\ UNCHANGED <<isInGlobal, isProcessing, global, workVars, forkVars, running>>

\* First operand of the && : true skips the second and releases m_lock.
PushReadInGlobal(t) ==
    /\ push[t] = "readInGlobal"
    /\ push' = [push EXCEPT ![t] =
                  IF isInGlobal[dest[t]] THEN "unlock" ELSE "readProcessing"]
    /\ UNCHANGED <<queueVars, workVars, dest, sent, forkVars, running>>

\* Mutant: push forgets the second operand.
PushSkipsProcessing(t) ==
    /\ push[t] = "readProcessing"
    /\ push' = [push EXCEPT ![t] = "enqueue"]
    /\ UNCHANGED <<queueVars, workVars, dest, sent, forkVars, running>>

\* Second operand of the && .
PushReadProcessing(t) ==
    /\ push[t] = "readProcessing"
    /\ push' = [push EXCEPT ![t] =
                  IF isProcessing[dest[t]] THEN "unlock" ELSE "enqueue"]
    /\ UNCHANGED <<queueVars, workVars, dest, sent, forkVars, running>>

\* Neither queued nor being processed: hand the queue to the workers.
PushEnqueue(t) ==
    /\ push[t] = "enqueue"
    /\ GlobalPush(dest[t])
    /\ push' = [push EXCEPT ![t] = "unlock"]
    /\ UNCHANGED <<queue, isProcessing, lock, workVars, dest, sent, forkVars, running>>

\* The SpinLockGuard leaves its scope.
PushUnlock(t) ==
    /\ push[t] = "unlock"
    /\ lock' = [lock EXCEPT ![dest[t]] = NoThread]
    /\ push' = [push EXCEPT ![t] = "no"]
    /\ dest' = [dest EXCEPT ![t] = NoService]
    /\ UNCHANGED <<queue, isInGlobal, isProcessing, global, workVars, sent,
                   forkVars, running>>

Push(t) ==
    \/ \E s \in Services : PushLock(t, s)
    \/ PushReadInGlobal(t)
    \/ PushReadProcessing(t)
    \/ PushEnqueue(t)
    \/ PushUnlock(t)

-----------------------------------------------------------------------------
(* WorkThread::work.                                                       *)

\* The test of running and GlobalQueue::pop: stop() between the two is the
\* same as stop() after the pop, which does not read running.
Claim(w) ==
    /\ pc[w] = "idle"
    /\ running
    /\ global # <<>>
    /\ que' = [que EXCEPT ![w] = Head(global)]
    /\ global' = Tail(global)
    /\ pc' = [pc EXCEPT ![w] = "claimed"]
    /\ UNCHANGED <<queue, isInGlobal, isProcessing, lock, todo, pushVars,
                   forkVars, running>>

\* Mutant: m_isInGlobal is cleared first.
MarkProcessingLate(w) ==
    /\ pc[w] = "claimed"
    /\ isInGlobal' = [isInGlobal EXCEPT ![que[w]] = FALSE]
    /\ pc' = [pc EXCEPT ![w] = "marked"]
    /\ UNCHANGED <<queue, isProcessing, lock, global, que, todo, pushVars,
                   forkVars, running>>

\* startProcess, first store; no lock is held.
MarkProcessing(w) ==
    /\ pc[w] = "claimed"
    /\ isProcessing' = [isProcessing EXCEPT ![que[w]] = TRUE]
    /\ pc' = [pc EXCEPT ![w] = "marked"]
    /\ UNCHANGED <<queue, isInGlobal, lock, global, que, todo, pushVars,
                   forkVars, running>>

\* Mutants: doFork runs one iteration too many, or is not called.
ClearInGlobalThen(w, n) ==
    /\ pc[w] = "marked"
    /\ isInGlobal' = [isInGlobal EXCEPT ![que[w]] = FALSE]
    /\ todo' = [todo EXCEPT ![w] = n]
    /\ pc' = [pc EXCEPT ![w] = "forks"]
    /\ UNCHANGED <<queue, isProcessing, lock, global, que, pushVars, forkVars,
                   running>>
ClearInGlobalOneMore(w) == ClearInGlobalThen(w, forking[que[w]] + 1)
ClearInGlobalNoFork(w)  == ClearInGlobalThen(w, 0)

\* startProcess, second store; then doFork reads the number of coroutines,
\* which only the worker inside the service changes.
ClearInGlobal(w) ==
    /\ pc[w] = "marked"
    /\ isInGlobal' = [isInGlobal EXCEPT ![que[w]] = FALSE]
    /\ todo' = [todo EXCEPT ![w] = forking[que[w]]]
    /\ pc' = [pc EXCEPT ![w] = "forks"]
    /\ UNCHANGED <<queue, isProcessing, lock, global, que, pushVars, forkVars,
                   running>>

\* One iteration of doFork: pop a coroutine and resume it.
ResumeFork(w) ==
    /\ pc[w] = "forks"
    /\ todo[w] > 0
    /\ forking' = [forking EXCEPT ![que[w]] = @ - 1]
    /\ todo' = [todo EXCEPT ![w] = @ - 1]
    /\ pc' = [pc EXCEPT ![w] = "inFork"]
    /\ UNCHANGED <<queueVars, que, pushVars, forked, running>>

\* Mutant: the batch is one packle too long.
ReadSizeOneMore(w) ==
    /\ pc[w] = "forks"
    /\ todo[w] = 0
    /\ lock[que[w]] = NoThread
    /\ todo' = [todo EXCEPT ![w] = Len(queue[que[w]]) + 1]
    /\ pc' = [pc EXCEPT ![w] = "msgs"]
    /\ UNCHANGED <<queueVars, que, pushVars, forkVars, running>>

\* que->size(), under m_lock: the batch is what is queued now.
ReadSize(w) ==
    /\ pc[w] = "forks"
    /\ todo[w] = 0
    /\ lock[que[w]] = NoThread
    /\ todo' = [todo EXCEPT ![w] = Len(queue[que[w]])]
    /\ pc' = [pc EXCEPT ![w] = "msgs"]
    /\ UNCHANGED <<queueVars, que, pushVars, forkVars, running>>

\* Mutant: pop_back instead of pop_front.
TakeNewest(w) ==
    /\ pc[w] = "msgs"
    /\ todo[w] > 0
    /\ lock[que[w]] = NoThread
    /\ queue[que[w]] # <<>>
    /\ queue' = [queue EXCEPT ![que[w]] = SubSeq(@, 1, Len(@) - 1)]
    /\ todo' = [todo EXCEPT ![w] = @ - 1]
    /\ pc' = [pc EXCEPT ![w] = "inMsg"]
    /\ UNCHANGED <<isInGlobal, isProcessing, lock, global, que, pushVars,
                   forkVars, running>>

\* que->pop(), under m_lock, and the start of dispatch.  On an empty queue
\* pop returns nullptr and assert(packle) ends the process: see BatchIsThere.
TakePackle(w) ==
    /\ pc[w] = "msgs"
    /\ todo[w] > 0
    /\ lock[que[w]] = NoThread
    /\ queue[que[w]] # <<>>
    /\ queue' = [queue EXCEPT ![que[w]] = Tail(@)]
    /\ todo' = [todo EXCEPT ![w] = @ - 1]
    /\ pc' = [pc EXCEPT ![w] = "inMsg"]
    /\ UNCHANGED <<isInGlobal, isProcessing, lock, global, que, pushVars,
                   forkVars, running>>

\* Code of the service calls fork or wakes a waiting coroutine (addFork).
Fork(w) ==
    /\ InHandler(w)
    /\ push[w] = "no"
    /\ forked[que[w]] < MaxForks
    /\ forking' = [forking EXCEPT ![que[w]] = @ + 1]
    /\ forked' = [forked EXCEPT ![que[w]] = @ + 1]
    /\ UNCHANGED <<queueVars, workVars, pushVars, running>>

\* The coroutine yields or ends: back in the loop that resumed it.
HandlerReturns(w) ==
    /\ InHandler(w)
    /\ push[w] = "no"
    /\ pc' = [pc EXCEPT ![w] = IF @ = "inFork" THEN "forks" ELSE "msgs"]
    /\ UNCHANGED <<queueVars, que, todo, pushVars, forkVars, running>>

\* finishProcess: take m_lock and clear m_isProcessing.
FinishLock(w) ==
    /\ pc[w] = "msgs"
    /\ todo[w] = 0
    /\ lock[que[w]] = NoThread
    /\ lock' = [lock EXCEPT ![que[w]] = w]
    /\ isProcessing' = [isProcessing EXCEPT ![que[w]] = FALSE]
    /\ pc' = [pc EXCEPT ![w] = "finish"]
    /\ UNCHANGED <<queue, isInGlobal, global, que, todo, pushVars, forkVars,
                   running>>

\* finishProcess: the service still has work, so queue it again.  hasFork() is
\* read before the lock is taken, but only this worker changes its value.
FinishRequeue(w) ==
    /\ pc[w] = "finish"
    /\ forking[que[w]] > 0 \/ queue[que[w]] # <<>>
    /\ GlobalPush(que[w])
    /\ pc' = [pc EXCEPT ![w] = "unlock"]
    /\ UNCHANGED <<queue, isProcessing, lock, que, todo, pushVars, forkVars,
                   running>>

\* Mutants: finishProcess forgets the forked coroutines, or the packles.
FinishForgetsForks(w) ==
    /\ pc[w] = "finish"
    /\ queue[que[w]] = <<>>
    /\ pc' = [pc EXCEPT ![w] = "unlock"]
    /\ UNCHANGED <<queueVars, que, todo, pushVars, forkVars, running>>
FinishForgetsPackles(w) ==
    /\ pc[w] = "finish"
    /\ forking[que[w]] = 0
    /\ pc' = [pc EXCEPT ![w] = "unlock"]
    /\ UNCHANGED <<queueVars, que, todo, pushVars, forkVars, running>>

\* finishProcess: nothing left to do for the service.
FinishDrained(w) ==
    /\ pc[w] = "finish"
    /\ forking[que[w]] = 0 /\ queue[que[w]] = <<>>
    /\ pc' = [pc EXCEPT ![w] = "unlock"]
    /\ UNCHANGED <<queueVars, que, todo, pushVars, forkVars, running>>

\* Mutant: m_lock is not released.
FinishKeepsLock(w) ==
    /\ pc[w] = "unlock"
    /\ que' = [que EXCEPT ![w] = NoService]
    /\ pc' = [pc EXCEPT ![w] = "idle"]
    /\ UNCHANGED <<queueVars, todo, pushVars, forkVars, running>>

\* finishProcess returns, releasing m_lock; the worker looks for work again.
FinishUnlock(w) ==
    /\ pc[w] = "unlock"
    /\ lock' = [lock EXCEPT ![que[w]] = NoThread]
    /\ que' = [que EXCEPT ![w] = NoService]
    /\ pc' = [pc EXCEPT ![w] = "idle"]
    /\ UNCHANGED <<queue, isInGlobal, isProcessing, global, todo, pushVars,
                   forkVars, running>>

\* The loop ends once running is false.
Exit(w) ==
    /\ pc[w] = "idle"
    /\ ~running
    /\ pc' = [pc EXCEPT ![w] = "exited"]
    /\ UNCHANGED <<queueVars, que, todo, pushVars, forkVars, running>>

\* WorkThread::stop, called by Application::stop from any thread.
Stop ==
    /\ running
    /\ running' = FALSE
    /\ UNCHANGED <<queueVars, workVars, pushVars, forkVars>>

Work(w) ==
    \/ Claim(w) \/ MarkProcessing(w) \/ ClearInGlobal(w)
    \/ ResumeFork(w) \/ ReadSize(w) \/ TakePackle(w)
    \/ Fork(w) \/ HandlerReturns(w)
    \/ FinishLock(w) \/ FinishRequeue(w) \/ FinishDrained(w) \/ FinishUnlock(w)
    \/ Exit(w)

Next ==
    \/ \E t \in Threads : Push(t)
    \/ \E w \in Workers : Work(w)
    \/ Stop

(***************************************************************************)
(* The operating system runs every thread.  A thread inside push goes on,  *)
(* a worker goes on; nobody is obliged to send, to fork or to stop.        *)
(***************************************************************************)
PushGoesOn(t) ==
    PushReadInGlobal(t) \/ PushReadProcessing(t) \/ PushEnqueue(t) \/ PushUnlock(t)

WorkGoesOn(w) ==
    \/ Claim(w) \/ MarkProcessing(w) \/ ClearInGlobal(w)
    \/ ResumeFork(w) \/ ReadSize(w) \/ TakePackle(w) \/ HandlerReturns(w)
    \/ FinishLock(w) \/ FinishRequeue(w) \/ FinishDrained(w) \/ FinishUnlock(w)
    \/ Exit(w)

Fairness ==
    /\ \A t \in Threads : WF_vars(PushGoesOn(t))
    /\ \A w \in Workers : WF_vars(WorkGoesOn(w))

Spec == Init /\ [][Next]_vars
FairSpec == Spec /\ Fairness

-----------------------------------------------------------------------------
(* Properties.                                                             *)

\* w owns service s: from GlobalQueue::pop until finishProcess has decided.
Owns(w, s) ==
    /\ que[w] = s
    /\ pc[w] \in {"claimed", "marked", "forks", "inFork", "msgs", "inMsg", "finish"}

\* w executes code of s or touches what only the service may touch.
Inside(w, s) ==
    /\ que[w] = s
    /\ pc[w] \in {"forks", "inFork", "msgs", "inMsg"}

InGlobalQueue(s) == \E i \in 1..Len(global) : global[i] = s

\* What finishProcess asks: packles waiting or coroutines forked.
HasWork(s) == queue[s] # <<>> \/ forking[s] > 0

\* t has put a packle into s's queue and not yet decided who takes care of it.
Deciding(t, s) ==
    /\ dest[t] = s
    /\ push[t] \in {"readInGlobal", "readProcessing", "enqueue"}

\* README.md:35: the logic of one service is executed by one thread at a
\* time, so service code needs no locks.
OneThreadPerService ==
    \A s \in Services : \A v, w \in Workers :
        Inside(v, s) /\ Inside(w, s) => v = w

\* A service waits in the global queue at most once, and never while a
\* worker still owns it (what the two bools of PackleQueue are for).
GlobalDistinct == \A i, j \in 1..Len(global) : global[i] = global[j] => i = j
OwnedNotQueued ==
    \A s \in Services, w \in Workers : Owns(w, s) => ~InGlobalQueue(s)
QueuedOnce == GlobalDistinct /\ OwnedNotQueued

\* The batch counted by que->size() is still there when it is popped:
\* assert(packle) at workThread.cc:63 never fails.
BatchIsThere ==
    \A w \in Workers : pc[w] \in {"msgs", "inMsg"} => todo[w] <= Len(queue[que[w]])

\* No lost wake-up: a service with packles or forked coroutines is in the
\* global queue, or owned by a worker, or a push that will see to it has
\* not released the lock yet.
NoLostWakeup ==
    \A s \in Services :
        HasWork(s) =>
            \/ InGlobalQueue(s)
            \/ \E w \in Workers : Owns(w, s)
            \/ \E t \in Threads : Deciding(t, s)

\* Liveness: every packle sent is dispatched, unless the system is stopped.
EveryPackleDispatched ==
    \A s \in Services, t \in Threads, n \in 1..MaxSends :
        (\E i \in 1..Len(queue[s]) : queue[s][i] = <<t, n>>) ~>
            (~running \/ ~\E i \in 1..Len(queue[s]) : queue[s][i] = <<t, n>>)

\* Liveness: forked coroutines are resumed, unless the system is stopped.
EveryForkResumed ==
    \A s \in Services : (forking[s] > 0) ~> (~running \/ forking[s] = 0)

\* stop() makes every worker leave its loop, once its batch is done.
StopEndsWorkers ==
    \A w \in Workers : ~running ~> pc[w] = "exited"

\* The scheduler implements the mailboxes of ServiceMailbox.
Mailbox == INSTANCE ServiceMailbox
    WITH box <- queue,
         inside <- [s \in Services |-> {w \in Workers : Inside(w, s)}]
MailboxSpec == Mailbox!Spec
=============================================================================
