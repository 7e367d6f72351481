---------------------------- MODULE Application ----------------------------
(***************************************************************************)
(* A whole process: main creates services and calls run (Lifecycle);       *)
(* workers take the INIT packles of services and run their code, which     *)
(* creates more services, removes some, and calls stop (Registry).         *)
(*                                                                         *)
(* What services do after init, and all other packles, is in Dispatch.     *)
(* The check of the flag and the pop of a worker's round are one step      *)
(* here; Scheduler has them apart.                                         *)
(***************************************************************************)
EXTENDS Registry, Lifecycle

CONSTANTS
    MainServices, \* bound: how many services main creates
    Removable,    \* bound: the ids of services that are ever removed
    Stoppers      \* bound: the services that call stop

ASSUME ApplicationAssumption ==
    MainServices \in Nat /\ Removable \subseteq Service /\ Stoppers \subseteq Service

VARIABLES
    turn,   \* the coroutine each worker is in: a run of handleInit, or none
    stopper \* the worker that calls stop

vars == <<registryVars, lifecycleVars, turn, stopper>>
NoWorker == 0

TypeOK ==
    /\ RegistryTypeOK /\ LifecycleTypeOK
    /\ turn \in [Worker -> jobs \cup {Main}]
    /\ stopper \in Worker \cup {NoWorker}

Init ==
    /\ RegistryInit /\ LifecycleInit
    /\ turn = [w \in Worker |-> Main]
    /\ stopper = NoWorker

-----------------------------------------------------------------------------
\* The call of newService a caller is in.
In(caller, s) == parent[s] = caller /\ stage[s] \notin {"none", "done"}
Busy(caller) == \E s \in Service : In(caller, s)

\* Main before run.
MainCreates ==
    /\ Alive /\ main.at = "main"
    /\ \E s \in Service :
          \/ s <= MainServices /\ ~Busy(Main) /\ \E n \in Name : NewService(s, Main, n)
          \/ In(Main, s) /\ (Create(s) \/ Return(s))
    /\ UNCHANGED <<lifecycleVars, turn, stopper>>

MainRuns ==
    /\ ~Busy(Main)
    /\ MainStep
    /\ UNCHANGED <<registryVars, turn, stopper>>

ThreadRuns(t) ==
    /\ t \in Worker => turn[t] = Main
    /\ ThreadStep(t)
    /\ UNCHANGED <<registryVars, turn, stopper>>

-----------------------------------------------------------------------------
(* A worker.                                                               *)

\* By Scheduler, a service is in the hands of one worker at most.
Held(c) == \E w \in Worker : turn[w] # Main /\ context[turn[w][1]] = c
Free(w) == Alive /\ thread[w] = "loop" /\ flag["work"] /\ turn[w] = Main

TakesInit(w) ==
    /\ Free(w)
    /\ \E c \in Service, job \in (Service \cup {None}) \X Service :
          /\ ~Held(c) /\ BeginInit(c, job)
          /\ turn' = [turn EXCEPT ![w] = IF job \in jobs' THEN job ELSE Main]
    /\ UNCHANGED <<lifecycleVars, stopper>>

\* The answer to the call of newService: its caller goes on.
TakesAnswer(w) ==
    /\ Free(w)
    /\ \E s \in Service :
          /\ parent[s] # Main /\ ~Held(context[parent[s][1]])
          /\ Return(s)
          /\ turn' = [turn EXCEPT ![w] = parent[s]]
    /\ UNCHANGED <<lifecycleVars, stopper>>

\* Whether service code runs on w, outside of stop.
Runs(w) == Alive /\ turn[w] # Main /\ ~(stopper = w /\ stopping < 4)

CodeCreates(w) ==
    /\ Runs(w) /\ ~Busy(turn[w])
    /\ \E s \in Service : s > MainServices /\ \E n \in Name : NewService(s, turn[w], n)
    /\ UNCHANGED <<lifecycleVars, turn, stopper>>

\* newService goes on, until call suspends the coroutine.
CreateGoesOn(w) ==
    /\ Runs(w)
    /\ \E s \in Service : In(turn[w], s) /\ Create(s)
    /\ turn' = [turn EXCEPT ![w] = IF \E s \in Service : In(turn[w], s) /\ stage'[s] = "wait"
                                   THEN Main ELSE @]
    /\ UNCHANGED <<lifecycleVars, stopper>>

CodeRemoves(w) ==
    /\ Runs(w) /\ ~Busy(turn[w])
    /\ \E i \in Removable : RemoveService(i)
    /\ UNCHANGED <<lifecycleVars, turn, stopper>>

CodeStops(w) ==
    /\ turn[w][1] \in Stoppers /\ ~Busy(turn[w]) /\ stopper \in {NoWorker, w}
    /\ ClearFlag
    /\ stopper' = w
    /\ UNCHANGED <<registryVars, turn>>

\* Mutant: the coroutine is not given back.
CodeEndsTwice(w) ==
    /\ Runs(w) /\ ~Busy(turn[w])
    /\ EndInit(turn[w])
    /\ UNCHANGED <<lifecycleVars, turn, stopper>>

CodeEnds(w) ==
    /\ Runs(w) /\ ~Busy(turn[w])
    /\ EndInit(turn[w])
    /\ turn' = [turn EXCEPT ![w] = Main]
    /\ UNCHANGED <<lifecycleVars, stopper>>

WorkerStep(w) ==
    \/ TakesInit(w) \/ TakesAnswer(w)
    \/ CodeCreates(w) \/ CreateGoesOn(w) \/ CodeRemoves(w) \/ CodeStops(w) \/ CodeEnds(w)

Next ==
    \/ MainCreates \/ MainRuns
    \/ \E t \in Thread : ThreadRuns(t)
    \/ \E w \in Worker : WorkerStep(w)

Spec == Init /\ [][Next]_vars

\* Each thread runs, and service code ends.  Every behaviour of the model is
\* finite, so that it comes to this that some thread goes on while one can.
FairSpec == Spec /\ WF_vars(Next)

-----------------------------------------------------------------------------
(* Every service for which newService was called has its init run to the   *)
(* end, and the call returns, unless the process is stopped or ends before *)
(* that: from main before there are workers and from any init, also of a   *)
(* service that is removed (application.h:20-43, service.cc:4-15).         *)
EveryServiceStarts ==
    \A s \in Service :
        stage[s] # "none" ~> \/ stopping > 0
                             \/ ~Alive
                             \/ s \in inited /\ stage[s] = "done"
=============================================================================
