----------------------------- MODULE Lifecycle -----------------------------
(***************************************************************************)
(* The threads of a process from main to exit: run, stop and the           *)
(* destructors of Application, Thread, LogThread, WorkThread, SocketThread *)
(* and TimeThread (application.cc, thread.cc, logThread.cc, workThread.cc, *)
(* socketThread.cc, timerThread.cc) and the loops they run (eventloop.cc,  *)
(* timeWheel.cc).                                                          *)
(*                                                                         *)
(* A loop goes on while a plain bool is set.  Two of these are set by who  *)
(* starts the thread, two by the thread itself, and stop, which any thread *)
(* may call, clears all four, one after the other.                         *)
(*                                                                         *)
(* LogThread, WorkThread, SocketThread and TimeThread are singletons: the  *)
(* first use constructs each, in run or in stop, and at exit they are      *)
(* destroyed in the opposite order, Application, older than all, last.     *)
(***************************************************************************)
EXTENDS Naturals, Sequences

CONSTANTS
    Workers,       \* thread.workthread_count
    LifecycleRules \* what the program and its scheduling refrain from

\* "run":     main calls run before it returns;
\* "patient": no thread needs 500 ms to set its state to RUNNING, nor does
\*            the wait for that end spuriously;
\* "started": stop is called when all threads are in their loops.
AllLifecycleRules == {"run", "patient", "started"}

ASSUME LifecycleAssumption ==
    Workers \in Nat \ {0} /\ LifecycleRules \subseteq AllLifecycleRules

\* The threads in the order in which run starts them.
LogT == 1
Worker == 2..(Workers + 1)
SockT == Workers + 2
TimeT == Workers + 3
Thread == 1..TimeT
Flags == {"log", "work", "sock", "time"}
FlagOf(t) == CASE t = LogT -> "log" [] t = SockT -> "sock" [] t = TimeT -> "time"
               [] OTHER -> "work"
\* The order in which run joins them, and stop uses the singletons.
JoinOrderNoLog == <<TimeT, SockT>> \o [i \in 1..Workers |-> i + 1] \* mutant
JoinOrder == <<TimeT, SockT>> \o [i \in 1..Workers |-> i + 1] \o <<LogT>>
StopOrderNoLog == <<"time", "sock", "work", "work">> \* mutant
StopOrder == <<"time", "sock", "work", "log">>
Main0 == [at |-> "main", k |-> 0]

VARIABLES
    main,     \* where main is, and at which thread
    state,    \* Thread::m_state
    thread,   \* where each thread is
    flag,     \* m_running, running, m_looping, m_running
    stopping, \* how many flags the call of stop has cleared
    built,    \* the singletons in the order of their construction
    failed    \* whether an assertion or a null pointer has ended the process

lifecycleVars == <<main, state, thread, flag, stopping, built, failed>>

LifecycleTypeOK ==
    /\ main \in [at : {"main", "start", "wait", "join", "destroy", "exited"}, k : Nat]
    /\ state \in [Thread -> {"INIT", "RUNNING", "STOPPED"}]
    /\ thread \in [Thread -> {"none", "created", "begun", "loop", "ended"}]
    /\ flag \in [Flags -> BOOLEAN]
    /\ stopping \in 0..4
    /\ built \in Seq(Flags)
    /\ failed \in BOOLEAN

LifecycleInit ==
    /\ main = Main0
    /\ state = [t \in Thread |-> "INIT"]
    /\ thread = [t \in Thread |-> "none"]
    /\ flag = [f \in Flags |-> FALSE]
    /\ stopping = 0
    /\ built = <<>>
    /\ failed = FALSE

-----------------------------------------------------------------------------
(* Main.                                                                   *)

\* Main calls run, or returns without it, and its destructors come next.
Run ==
    /\ ~failed /\ main.at = "main"
    /\ main' \in {[at |-> "start", k |-> 1]} \cup
                  IF "run" \in LifecycleRules THEN {} ELSE {[at |-> "destroy", k |-> 1]}
    /\ UNCHANGED <<state, thread, flag, stopping, built, failed>>

\* The first use of the singleton of a flag.
Use(f) ==
    built' = IF \E j \in DOMAIN built : built[j] = f THEN built ELSE Append(built, f)

\* The flags of the log thread and of the workers are set by who starts them,
\* before there is a thread that could see it.
StartThread(t) ==
    /\ ~failed /\ main = [at |-> "start", k |-> t]
    /\ Use(FlagOf(t))
    /\ thread' = [thread EXCEPT ![t] = "created"]
    /\ flag' = IF t \in {LogT, 2} THEN [flag EXCEPT ![FlagOf(t)] = TRUE] ELSE flag
    /\ main' = [at |-> "wait", k |-> t]
    /\ UNCHANGED <<state, stopping, failed>>

\* Mutant: the time thread is forgotten.
StartedNoTime(t) ==
    /\ ~failed /\ main = [at |-> "wait", k |-> t]
    /\ "patient" \in LifecycleRules => state[t] # "INIT"
    /\ main' = IF t = SockT THEN [at |-> "join", k |-> 1] ELSE [at |-> "start", k |-> t + 1]
    /\ UNCHANGED <<state, thread, flag, stopping, built, failed>>

\* wait_for in Thread::start ends.
Started(t) ==
    /\ ~failed /\ main = [at |-> "wait", k |-> t]
    /\ "patient" \in LifecycleRules => state[t] # "INIT"
    /\ main' = IF t = TimeT THEN [at |-> "join", k |-> 1] ELSE [at |-> "start", k |-> t + 1]
    /\ UNCHANGED <<state, thread, flag, stopping, built, failed>>

\* Thread::join of a thread, which may not be in state INIT.
Join ==
    /\ ~failed /\ main.at = "join"
    /\ LET t == JoinOrder[main.k]
       IN  IF state[t] = "INIT" THEN failed' = TRUE /\ UNCHANGED <<main, state>>
           ELSE /\ thread[t] = "ended"
                /\ state' = [state EXCEPT ![t] = "STOPPED"]
                /\ main' = IF main.k = Len(JoinOrder) THEN [at |-> "destroy", k |-> 1]
                                                      ELSE [main EXCEPT !.k = @ + 1]
                /\ UNCHANGED failed
    /\ UNCHANGED <<thread, flag, stopping, built>>

\* The destructors of TimeThread and SocketThread join without a question, though
\* m_thread is null if it was not started; the others look at their flag first.
Joins(f) == f \in {"time", "sock"} \/ flag[f]

\* The destructor of a singleton: stop and join.
Destroy ==
    /\ ~failed /\ main.at = "destroy" /\ main.k <= Len(built)
    /\ LET f == built[Len(built) + 1 - main.k]
           mine == {t \in Thread : FlagOf(t) = f}
       IN  /\ flag' = [flag EXCEPT ![f] = FALSE]
           /\ IF Joins(f) /\ \E t \in mine : state[t] = "INIT"
              THEN failed' = TRUE /\ UNCHANGED <<main, state>>
              ELSE /\ Joins(f) => \A t \in mine : thread[t] = "ended"
                   /\ state' = [t \in Thread |->
                                  IF Joins(f) /\ t \in mine THEN "STOPPED" ELSE state[t]]
                   /\ main' = [main EXCEPT !.k = @ + 1]
                   /\ UNCHANGED failed
    /\ UNCHANGED <<thread, stopping, built>>

\* The destructor of Application calls stop, which constructs the singletons if
\* nobody has used them, and then their destructors come after it.
DestroyApplication ==
    /\ ~failed /\ main.at = "destroy" /\ main.k = Len(built) + 1
    /\ flag' = [f \in Flags |-> FALSE]
    /\ built' = IF built = <<>> THEN StopOrder ELSE built
    /\ main' = IF built = <<>> THEN main ELSE [at |-> "exited", k |-> 0]
    /\ UNCHANGED <<state, thread, stopping, failed>>

MainStep ==
    \/ Run \/ \E t \in Thread : StartThread(t) \/ Started(t)
    \/ Join \/ Destroy \/ DestroyApplication

-----------------------------------------------------------------------------
(* The threads, and stop.                                                  *)

Alive == ~failed /\ main.at # "exited"

\* Thread::run up to m_func.
Begin(t) ==
    /\ Alive /\ thread[t] = "created"
    /\ state' = [state EXCEPT ![t] = "RUNNING"]
    /\ thread' = [thread EXCEPT ![t] = IF t \in {SockT, TimeT} THEN "begun" ELSE "loop"]
    /\ UNCHANGED <<main, flag, stopping, built, failed>>

\* EventLoop::loop and TimeWheel::run set their flags.
Enter(t) ==
    /\ Alive /\ thread[t] = "begun"
    /\ thread' = [thread EXCEPT ![t] = "loop"]
    /\ flag' = [flag EXCEPT ![FlagOf(t)] = TRUE]
    /\ UNCHANGED <<main, state, stopping, built, failed>>

\* A loop sees its flag at the end of a round.
End(t) ==
    /\ Alive /\ thread[t] = "loop" /\ ~flag[FlagOf(t)]
    /\ thread' = [thread EXCEPT ![t] = "ended"]
    /\ UNCHANGED <<main, state, flag, stopping, built, failed>>

ThreadStep(t) == Begin(t) \/ Enter(t) \/ End(t)

\* Application::stop, one flag at a time; calling it again changes nothing.
ClearFlag ==
    /\ Alive /\ stopping < 4
    /\ stopping = 0 /\ "started" \in LifecycleRules => \A t \in Thread : thread[t] = "loop"
    /\ flag' = [flag EXCEPT ![StopOrder[stopping + 1]] = FALSE]
    /\ Use(StopOrder[stopping + 1])
    /\ stopping' = stopping + 1
    /\ UNCHANGED <<main, state, thread, failed>>

-----------------------------------------------------------------------------
(* Main joins only threads that have set their state (thread.cc:26).       *)
NoAssertionFails == ~failed

(* Two things alone end a process before its time, whenever stop is called *)
(* and in whatever order the singletons are constructed: main has given up *)
(* waiting for a thread that it created, and joins it before the thread    *)
(* has set its state; or main returns without run, and a destructor meets  *)
(* a thread that nobody started (thread.cc:17-31, timerThread.cc:7-19,     *)
(* socketThread.cc:9-21).                                                  *)
OnlyUnstartedFail ==
    failed => \/ main.at = "join" /\ thread[JoinOrder[main.k]] = "created"
              \/ main.at = "destroy" /\ \A t \in Thread : thread[t] = "none"

(* No thread runs on when the destructors of main and of the singletons    *)
(* take away what it uses (application.cc:35-38).                          *)
NoThreadLeft ==
    main.at \in {"destroy", "exited"} => \A t \in Thread : thread[t] \in {"none", "ended"}

(* Stop ends the process: every thread sees its flag, main joins them all, *)
(* in an order that cannot block, and its destructors end (README.md:69-72,*)
(* application.cc, timeWheel.cc:29-31).                                    *)
StopEndsProcess == stopping > 0 ~> main.at = "exited"
=============================================================================
