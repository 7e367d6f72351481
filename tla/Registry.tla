------------------------------ MODULE Registry ------------------------------
(***************************************************************************)
(* How services come and go: newService, registerService and removeService *)
(* (application.h, application.cc), createContext (serviceContext.cc) and  *)
(* ServiceContextMgr (serviceContextMgr.cc).                               *)
(*                                                                         *)
(* newService runs through two locks, a counter without one, the handlers  *)
(* of the new context and its queue, and main and any number of coroutines *)
(* may be in it; each of these is an action.  Who takes them is in         *)
(* Application.                                                            *)
(*                                                                         *)
(* A service object has the number of the call of newService that made it, *)
(* and a context that of the call that created it.  The INIT handler of a  *)
(* context owns the object, the object its context: removeService frees    *)
(* neither, and what is queued is dispatched all the same.                 *)
(*                                                                         *)
(* Nothing in the code keeps a name from being given twice, nor two calls  *)
(* from drawing one id.  The ghost clashed remembers that it happened.     *)
(***************************************************************************)
EXTENDS Naturals, Sequences, FiniteSets

CONSTANTS
    MaxServices,   \* bound: calls of newService
    RegistryRules  \* what callers refrain from, see below

\* "newNames":   a name is given again only when its service was removed;
\* "oneCounts":  two calls do not draw an id at the same time;
\* "removeIdle": a service is not removed while its code is in newService, nor
\*               does its code call it after that.
AllRegistryRules == {"newNames", "oneCounts", "removeIdle"}

ASSUME RegistryAssumption ==
    MaxServices \in Nat /\ RegistryRules \subseteq AllRegistryRules

Service == 1..MaxServices
None == 0
Name == Service
\* A run of handleInit: the object, and the call whose INIT packle it handles.
Job == Service \X Service
Main == <<None, None>>

VARIABLES
    stage,    \* where each call of newService is
    parent,   \* who called: main, or the coroutine of a service's init
    name,     \* the name it was given
    context,  \* the context it found or created
    seen,     \* what it read of s_serviceID
    clashed,  \* ghost: a name in use was given, or two calls drew an id at once
    counter,  \* s_serviceID
    idOf,     \* m_serviceID of each context
    named,    \* namedContexts
    byId,     \* idContexts
    services, \* Application::services
    handler,  \* the object to which the INIT handler of each context belongs
    mail,     \* INIT packles in the queue of each context, by their calls
    jobs,     \* the runs of handleInit that have begun and not ended
    inited    \* the objects whose inited is set

callVars == <<stage, parent, name, context, seen, clashed>>
mapVars == <<counter, idOf, named, byId, services>>
initVars == <<handler, mail, jobs, inited>>
registryVars == <<callVars, mapVars, initVars>>

RegistryTypeOK ==
    /\ stage \in [Service -> {"none", "read", "count", "register", "enlist", "bind",
                              "send", "wait", "answered", "done"}]
    /\ parent \in [Service -> Job \cup {Main}]
    /\ name \in [Service -> Name \cup {None}]
    /\ context \in [Service -> Service \cup {None}]
    /\ seen \in [Service -> 0..MaxServices]
    /\ clashed \in BOOLEAN
    /\ counter \in 0..MaxServices
    /\ idOf \in [Service -> 0..MaxServices]
    /\ named \in [Name -> Service \cup {None}]
    /\ byId \in [Service -> Service \cup {None}]
    /\ services \in [Service -> Service \cup {None}]
    /\ handler \in [Service -> Service \cup {None}]
    /\ mail \in [Service -> Seq(Service)]
    /\ jobs \subseteq Job
    /\ inited \subseteq Service

RegistryInit ==
    /\ stage = [s \in Service |-> "none"]
    /\ parent = [s \in Service |-> Main]
    /\ name = [s \in Service |-> None]
    /\ context = [s \in Service |-> None]
    /\ seen = [s \in Service |-> 0]
    /\ clashed = FALSE
    /\ counter = 0
    /\ idOf = [s \in Service |-> 0]
    /\ named = [n \in Name |-> None]
    /\ byId = [i \in Service |-> None]
    /\ services = [i \in Service |-> None]
    /\ handler = [s \in Service |-> None]
    /\ mail = [s \in Service |-> <<>>]
    /\ jobs = {} /\ inited = {}

-----------------------------------------------------------------------------
(* newService.                                                             *)

To(s, st) == stage' = [stage EXCEPT ![s] = st]

\* The context of a caller that is a coroutine is found by its id, for the
\* answer; main needs no answer.
Reachable(caller) ==
    caller # Main => byId[idOf[context[caller[1]]]] = context[caller[1]]

\* A context of the name is registered, or some call has looked it up in vain.
InUse(n) ==
    \/ named[n] # None
    \/ \E r \in Service : name[r] = n /\ stage[r] \in {"read", "count", "register"}

\* The look-up of createContext.  Calls are numbered as they begin, and names
\* by their first use.
NewService(s, caller, n) ==
    /\ stage[s] = "none" /\ \A r \in 1..(s - 1) : stage[r] # "none"
    /\ \A m \in 1..(n - 1) : \E r \in Service : name[r] = m
    /\ "newNames" \in RegistryRules => ~InUse(n)
    /\ "removeIdle" \in RegistryRules => Reachable(caller)
    /\ name' = [name EXCEPT ![s] = n]
    /\ parent' = [parent EXCEPT ![s] = caller]
    /\ context' = [context EXCEPT ![s] = named[n]]
    /\ To(s, IF named[n] = None THEN "read" ELSE "enlist")
    /\ clashed' = (clashed \/ InUse(n))
    /\ UNCHANGED <<seen, mapVars, initVars>>

Counting == \E r \in Service : stage[r] = "count"

\* ++s_serviceID, which is no atomic.
ReadCounter(s) ==
    /\ stage[s] = "read"
    /\ "oneCounts" \in RegistryRules => ~Counting
    /\ seen' = [seen EXCEPT ![s] = counter]
    /\ To(s, "count")
    /\ clashed' = (clashed \/ Counting)
    /\ UNCHANGED <<parent, name, context, mapVars, initVars>>

NextId(s) == seen[s] + 1

WriteCounter(s) ==
    /\ stage[s] = "count"
    /\ counter' = NextId(s)
    /\ idOf' = [idOf EXCEPT ![s] = NextId(s)]
    /\ To(s, "register")
    /\ UNCHANGED <<parent, name, context, seen, clashed, named, byId, services, initVars>>

RegisterContext(s) ==
    /\ stage[s] = "register"
    /\ context' = [context EXCEPT ![s] = s]
    /\ named' = [named EXCEPT ![name[s]] = s]
    /\ byId' = [byId EXCEPT ![idOf[s]] = s]
    /\ To(s, "enlist")
    /\ UNCHANGED <<parent, name, seen, clashed, counter, idOf, services, initVars>>

\* A second service of an id is refused, and newService goes on.
RegisterService(s) ==
    /\ stage[s] = "enlist"
    /\ LET i == idOf[context[s]]
       IN  services' = IF services[i] = None THEN [services EXCEPT ![i] = s] ELSE services
    /\ To(s, "bind")
    /\ UNCHANGED <<parent, name, context, seen, clashed, counter, idOf, named, byId, initVars>>

RegisterFunc(s) ==
    /\ stage[s] = "bind"
    /\ handler' = [handler EXCEPT ![context[s]] = s]
    /\ To(s, "send")
    /\ UNCHANGED <<parent, name, context, seen, clashed, mapVars, mail, jobs, inited>>

SendInit(s) ==
    /\ stage[s] = "send"
    /\ mail' = [mail EXCEPT ![context[s]] = Append(@, s)]
    /\ To(s, "wait")
    /\ UNCHANGED <<parent, name, context, seen, clashed, mapVars, handler, jobs, inited>>

\* Main waits 100 microseconds and goes on, a coroutine for the answer.
Return(s) ==
    /\ stage[s] = IF parent[s] = Main THEN "wait" ELSE "answered"
    /\ To(s, "done")
    /\ UNCHANGED <<parent, name, context, seen, clashed, mapVars, initVars>>

Create(s) ==
    \/ ReadCounter(s) \/ WriteCounter(s) \/ RegisterContext(s)
    \/ RegisterService(s) \/ RegisterFunc(s) \/ SendInit(s)

-----------------------------------------------------------------------------
(* handleInit and removeService.                                           *)

\* A context takes the first packle of its queue, and its INIT handler, if it
\* has one, the job; unless the object is inited, which answers nothing.
BeginInit(c, job) ==
    /\ mail[c] # <<>>
    /\ job = <<handler[c], Head(mail[c])>>
    /\ mail' = [mail EXCEPT ![c] = Tail(@)]
    /\ jobs' = IF handler[c] \in inited \cup {None} THEN jobs ELSE jobs \cup {job}
    /\ UNCHANGED <<callVars, mapVars, handler, inited>>

\* Mutant: the test of the source is the wrong way round.
EndInitAnswersMain(job) ==
    /\ job \in jobs
    /\ jobs' = jobs \ {job}
    /\ inited' = inited \cup {job[1]}
    /\ IF parent[job[2]] = Main THEN To(job[2], "answered") ELSE UNCHANGED stage
    /\ UNCHANGED <<parent, name, context, seen, clashed, mapVars, handler, mail>>

EndInit(job) ==
    /\ job \in jobs
    /\ jobs' = jobs \ {job}
    /\ inited' = inited \cup {job[1]}
    /\ LET caller == parent[job[2]]
       IN  IF caller # Main /\ Reachable(caller) THEN To(job[2], "answered")
                                                 ELSE UNCHANGED stage
    /\ UNCHANGED <<parent, name, context, seen, clashed, mapVars, handler, mail>>

\* Whether the code of a context is in newService.
Creating(c) ==
    \E s \in Service : /\ stage[s] \notin {"none", "done"}
                       /\ parent[s] # Main /\ context[parent[s][1]] = c

\* Mutant: the name stays.
RemoveServiceNotName(i) ==
    /\ services[i] # None
    /\ "removeIdle" \in RegistryRules => ~Creating(context[services[i]])
    /\ byId' = [byId EXCEPT ![idOf[context[services[i]]]] = None]
    /\ services' = [services EXCEPT ![i] = None]
    /\ UNCHANGED <<callVars, counter, idOf, named, initVars>>

\* removeService with removeContext, under both locks.
RemoveService(i) ==
    /\ services[i] # None
    /\ LET c == context[services[i]]
           d == byId[idOf[c]]
       IN  /\ "removeIdle" \in RegistryRules => ~Creating(c)
           /\ IF d = None THEN UNCHANGED <<named, byId>>
              ELSE /\ named' = [named EXCEPT ![name[d]] = None]
                   /\ byId' = [byId EXCEPT ![idOf[c]] = None]
    /\ services' = [services EXCEPT ![i] = None]
    /\ UNCHANGED <<callVars, counter, idOf, initVars>>

-----------------------------------------------------------------------------
\* The contexts that were registered.
Contexts == {c \in Service : \E s \in Service : context[s] = c}

(* The two maps of ServiceContextMgr and the one of Application are        *)
(* changed under two locks, at different times, by any number of callers:  *)
(* still a name and an id lead to the same context, and an id to the       *)
(* object whose INIT handler that context has, once newService has bound   *)
(* it, until a name in use is given or two calls draw an id at once        *)
(* (application.h:25-26, application.cc:63-80, serviceContextMgr.cc).      *)
MapsAgree ==
    ~clashed =>
      /\ \A n \in Name : named[n] # None =>
           /\ name[named[n]] = n
           /\ idOf[named[n]] # 0 /\ byId[idOf[named[n]]] = named[n]
      /\ \A i \in Service : byId[i] # None =>
           idOf[byId[i]] = i /\ named[name[byId[i]]] = byId[i]
      /\ \A i \in Service : services[i] # None =>
           LET s == services[i]
           IN  /\ byId[i] = context[s] /\ context[s] # None
               /\ stage[s] # "bind" => handler[context[s]] = s

(* newService creates a new service: no two contexts get one id            *)
(* (README.md:22, application.h:20-42, serviceContextMgr.cc:10-13).        *)
IdsUnique == \A c, d \in Contexts : c # d => idOf[c] # idOf[d]
=============================================================================
