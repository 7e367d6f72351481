------------------------- MODULE ApplicationProofs -------------------------
(***************************************************************************)
(* Proofs about Application, for every number of services and of workers:  *)
(* that the maps agree until a name in use is given or two calls draw an   *)
(* id at once, and its types for callers who do neither; what alone can    *)
(* end the process before its time, and that no thread outlives main.  The *)
(* last two hold however the program is written and scheduled.             *)
(***************************************************************************)
EXTENDS Application, FiniteSetTheorems, TLAPS

Undrawn == {"none", "read", "count"}
Unregistered == Undrawn \cup {"register"}
InLookUp(s) == stage[s] \in Unregistered \ {"none"}
Drawn == {s \in Service : idOf[s] # 0}

\* Ids are drawn one after the other.
Ids ==
    /\ \A s \in Service : stage[s] \in Undrawn <=> idOf[s] = 0
    /\ \A s \in Service : idOf[s] <= counter
    /\ \A s \in Service : stage[s] = "count" => seen[s] = counter
    /\ \A r, s \in Service : stage[r] = "count" /\ stage[s] = "count" => r = s
    /\ \A r, s \in Service : idOf[r] # 0 /\ idOf[r] = idOf[s] => r = s

\* The counter is within its type because each call draws once.
Counted == counter = Cardinality(Drawn)

\* Every call creates a context of its own.
Own ==
    /\ \A s \in Service : context[s] = IF stage[s] \in Unregistered THEN None ELSE s
    /\ \A c \in Service : handler[c] \in {None, c}

\* Nobody else takes a name before its context is registered.
Names ==
    /\ \A s \in Service : stage[s] # "none" => name[s] # None
    /\ \A s \in Service : InLookUp(s) => named[name[s]] = None
    /\ \A r, s \in Service : InLookUp(r) /\ InLookUp(s) /\ name[r] = name[s] => r = s

\* What the three maps hold, by the call that made it.
NamedOf(n) ==
    /\ name[named[n]] = n /\ stage[named[n]] \notin Unregistered
    /\ byId[idOf[named[n]]] = named[n]
ByIdOf(i) ==
    /\ idOf[byId[i]] = i /\ stage[byId[i]] \notin Unregistered
    /\ named[name[byId[i]]] = byId[i]
ServicesOf(i) ==
    /\ byId[i] = services[i] /\ stage[services[i]] \notin Unregistered \cup {"enlist"}
    /\ stage[services[i]] # "bind" => handler[services[i]] = services[i]
NamedMap == \A n \in Name : named[n] # None => NamedOf(n)
ByIdMap == \A i \in Service : byId[i] # None => ByIdOf(i)
ServicesMap == \A i \in Service : services[i] # None => ServicesOf(i)
Enlisting ==
    \A s \in Service : stage[s] = "enlist" => byId[idOf[s]] = s /\ services[idOf[s]] = None

\* A call is sent one INIT packle, and goes on when that was handled.
Waits(c) == stage[c] = "wait" \/ (stage[c] = "done" /\ parent[c] = Main)
Sent ==
    /\ \A c \in Service :
         /\ mail[c] \in {<<>>, <<c>>}
         /\ mail[c] = <<c>> => <<c, c>> \notin jobs
         /\ mail[c] = <<c>> \/ <<c, c>> \in jobs => Waits(c)
    /\ \A job \in jobs : \E c \in Service : job = <<c, c>>

RegistryInv ==
    /\ RegistryTypeOK /\ Ids /\ Counted /\ Own /\ Names /\ Sent
    /\ NamedMap /\ ByIdMap /\ ServicesMap /\ Enlisting

\* What callers refrain from.
Careful == {"newNames", "oneCounts"} \subseteq RegistryRules
-----------------------------------------------------------------------------
(* Numbers of calls and ids.                                               *)
LEMMA Numbers ==
    /\ MaxServices \in Nat /\ None \notin Service /\ 0 \notin Service /\ None = 0
    /\ Service \subseteq Nat
    /\ \A i \in 0..MaxServices : i # 0 => i \in Service
    /\ \A i \in Service : i \in 0..MaxServices
    /\ Main \notin Job
BY RegistryAssumption DEF Service, None, Main, Job

LEMMA StageSet ==
    ASSUME RegistryTypeOK, NEW s \in Service, NEW st, stage' = [stage EXCEPT ![s] = st]
    PROVE  stage'[s] = st /\ \A c \in Service : c # s => stage'[c] = stage[c]
BY DEF RegistryTypeOK

\* INIT packles of one call stay what they are while another one goes on that
\* has none.
LEMMA SentStays ==
    ASSUME RegistryInv, NEW s \in Service, ~Waits(s), mail' = mail, jobs' = jobs,
           \A c \in Service : c # s => stage'[c] = stage[c] /\ parent'[c] = parent[c]
    PROVE  Sent'
<1>1. \A c \in Service : c # s => (Waits(c)' <=> Waits(c))
  BY DEF Waits
<1>2. mail[s] # <<s>> /\ <<s, s>> \notin jobs
  BY DEF RegistryInv, Sent
<1>. QED  BY <1>1, <1>2 DEF RegistryInv, Sent

\* Nor do ids change while no call draws one or begins to.
LEMMA IdsStay ==
    ASSUME Ids, seen' = seen, counter' = counter, idOf' = idOf,
           \A c \in Service : /\ stage'[c] \in Undrawn <=> stage[c] \in Undrawn
                              /\ stage'[c] = "count" => stage[c] = "count"
    PROVE  Ids'
BY DEF Ids

\* Nor names while no look-up begins or ends.
LEMMA NamesStay ==
    ASSUME Names, name' = name, named' = named,
           \A c \in Service : /\ stage'[c] \in Unregistered <=> stage[c] \in Unregistered
                              /\ stage'[c] = "none" <=> stage[c] = "none"
    PROVE  Names'
<1>1. \A c \in Service : InLookUp(c)' <=> InLookUp(c)
  BY DEF InLookUp
<1>. QED  BY <1>1 DEF Names

\* Nor the map of names while no registered call changes.
LEMMA NamedStays ==
    ASSUME RegistryInv, idOf' = idOf, named' = named, byId' = byId,
           \A c \in Service : stage[c] \notin Unregistered =>
                              stage'[c] \notin Unregistered /\ name'[c] = name[c]
    PROVE  NamedMap'
<1>1. \A n \in Name : named[n] # None => named[n] \in Service
  BY DEF RegistryInv, RegistryTypeOK
<1>2. NamedMap  BY DEF RegistryInv
<1>. QED  BY <1>1, <1>2 DEF NamedMap, NamedOf

(* The look-up finds no context, for the name is new. *)
LEMMA KeptByNewService ==
    ASSUME RegistryInv, ~clashed', NEW s \in Service, NEW caller \in Job \cup {Main},
           NEW n \in Name, NewService(s, caller, n)
    PROVE  RegistryInv'
<1>. USE Numbers DEF Name
<1>a. /\ named[n] = None /\ stage[s] = "none" /\ stage' = [stage EXCEPT ![s] = "read"]
      /\ context' = [context EXCEPT ![s] = None] /\ name' = [name EXCEPT ![s] = n]
      /\ parent' = [parent EXCEPT ![s] = caller]
      /\ \A r \in Service : InLookUp(r) => name[r] # n
      /\ UNCHANGED <<seen, counter, idOf, named, byId, services, handler, mail, jobs,
                     inited>>
  BY DEF NewService, InUse, To, mapVars, initVars, InLookUp, Unregistered, Undrawn
<1>b. clashed' \in BOOLEAN  BY DEF NewService
<1>1. RegistryTypeOK'
  BY <1>a, <1>b DEF RegistryInv, RegistryTypeOK, Job
<1>2. Ids'
  <2>1. \A c \in Service : /\ stage'[c] \in Undrawn <=> stage[c] \in Undrawn
                           /\ stage'[c] = "count" => stage[c] = "count"
    BY <1>a DEF RegistryInv, RegistryTypeOK, Undrawn
  <2>. QED  BY <1>a, <2>1, IdsStay DEF RegistryInv
<1>3. Counted'
  <2>1. Drawn' = Drawn  BY <1>a DEF Drawn, Job
  <2>. QED  BY <1>a, <2>1 DEF RegistryInv, Counted, Job
<1>4. Own'
  BY <1>a DEF RegistryInv, Own, Unregistered, Undrawn
<1>5. Names'
  <2>1. \A r \in Service : InLookUp(r)' <=> r = s \/ InLookUp(r)
    BY <1>a DEF RegistryInv, RegistryTypeOK, InLookUp, Unregistered, Undrawn
  <2>2. name'[s] = n /\ \A r \in Service : r # s => name'[r] = name[r]
    BY <1>a DEF RegistryInv, RegistryTypeOK
  <2>3. \A r \in Service : stage'[r] # "none" => r = s \/ stage[r] # "none"
    BY <1>a DEF RegistryInv, RegistryTypeOK
  <2>. QED  BY <1>a, <2>1, <2>2, <2>3 DEF RegistryInv, Names
<1>6. NamedMap'
  <2>1. \A c \in Service : stage[c] \notin Unregistered =>
                           stage'[c] \notin Unregistered /\ name'[c] = name[c]
    BY <1>a DEF RegistryInv, RegistryTypeOK, Unregistered, Undrawn
  <2>. QED  BY <1>a, <2>1, NamedStays
<1>7. ByIdMap'
  BY <1>a DEF RegistryInv, Unregistered, Undrawn, ByIdMap, ByIdOf
<1>8. ServicesMap'
  BY <1>a DEF RegistryInv, Unregistered, Undrawn, ServicesMap, ServicesOf
<1>9. Enlisting'
  BY <1>a DEF RegistryInv, Enlisting
<1>10. Sent'
  <2>1. ~Waits(s)  BY <1>a DEF Waits
  <2>2. \A c \in Service : c # s => stage'[c] = stage[c] /\ parent'[c] = parent[c]
    BY <1>a DEF RegistryInv, RegistryTypeOK
  <2>. QED  BY <1>a, <2>1, <2>2, SentStays
<1>. QED
  BY <1>1, <1>2, <1>3, <1>4, <1>5, <1>6, <1>7, <1>8, <1>9, <1>10 DEF RegistryInv

(* One caller reads the counter. *)
LEMMA KeptByReadCounter ==
    ASSUME RegistryInv, ~clashed', NEW s \in Service, ReadCounter(s)
    PROVE  RegistryInv'
<1>. USE Numbers DEF Name
<1>1. RegistryTypeOK'
  BY DEF RegistryInv, RegistryTypeOK, ReadCounter, To, mapVars, initVars
<1>2. Ids'
  <2>1. /\ \A r \in Service : stage[r] # "count"
        /\ stage' = [stage EXCEPT ![s] = "count"] /\ stage[s] = "read"
        /\ seen' = [seen EXCEPT ![s] = counter] /\ UNCHANGED <<counter, idOf>>
    BY DEF ReadCounter, Counting, To, mapVars
  <2>. QED  BY <2>1 DEF RegistryInv, RegistryTypeOK, Ids, Undrawn
<1>3. Counted'
  <2>1. Drawn' = Drawn  BY DEF Drawn, ReadCounter, To, mapVars, initVars
  <2>. QED  BY <2>1 DEF RegistryInv, Counted, ReadCounter, To, mapVars
<1>4. Own'
  BY DEF RegistryInv, Own, Unregistered, Undrawn, ReadCounter, To, initVars
<1>5. Names'
  BY DEF RegistryInv, Names, InLookUp, Unregistered, Undrawn, ReadCounter, To, mapVars
<1>6. NamedMap'
  BY DEF RegistryInv, Unregistered, Undrawn, NamedMap, NamedOf, ReadCounter, To, mapVars
<1>7. ByIdMap'
  BY DEF RegistryInv, Unregistered, Undrawn, ByIdMap, ByIdOf, ReadCounter, To, mapVars
<1>8. ServicesMap'
  BY DEF RegistryInv, Unregistered, Undrawn, ServicesMap, ServicesOf, ReadCounter, To,
         mapVars, initVars
<1>9. Enlisting'
  BY DEF RegistryInv, Enlisting, ReadCounter, To, mapVars
<1>10. Sent'
  <2>1. ~Waits(s)  BY DEF ReadCounter, Waits
  <2>2. \A c \in Service : c # s => stage'[c] = stage[c] /\ parent'[c] = parent[c]
    BY DEF RegistryInv, RegistryTypeOK, ReadCounter, To
  <2>3. mail' = mail /\ jobs' = jobs
    BY DEF ReadCounter, To, initVars
  <2>. QED  BY <2>1, <2>2, <2>3, SentStays
<1>. QED
  BY <1>1, <1>2, <1>3, <1>4, <1>5, <1>6, <1>7, <1>8, <1>9, <1>10 DEF RegistryInv

(* A new id is drawn, which is not beyond the bound: each service draws    *)
(* once.                                                                   *)
LEMMA DrawOnce ==
    ASSUME RegistryInv, NEW s \in Service, WriteCounter(s)
    PROVE  Counted' /\ counter' = counter + 1 /\ counter' \in 0..MaxServices
<1>. USE Numbers
<1>1. s \notin Drawn  BY DEF RegistryInv, Ids, Undrawn, Drawn, WriteCounter
<1>2. Drawn' = Drawn \cup {s}
  BY DEF RegistryInv, RegistryTypeOK, Drawn, WriteCounter, NextId
<1>3. IsFiniteSet(Service) /\ Cardinality(Service) = MaxServices
  BY FS_Interval, RegistryAssumption DEF Service
<1>4. IsFiniteSet(Drawn)  BY <1>3, FS_Subset DEF Drawn
<1>5. Cardinality(Drawn') = Cardinality(Drawn) + 1  BY <1>1, <1>2, <1>4, FS_AddElement
<1>6. counter' = counter + 1  BY DEF RegistryInv, Ids, WriteCounter, NextId
<1>7. Counted'  BY <1>5, <1>6 DEF RegistryInv, Counted
<1>8. Drawn' \in SUBSET Service  BY <1>2 DEF Drawn
<1>9. Cardinality(Drawn') <= MaxServices  BY <1>3, <1>8, FS_Subset
<1>10. counter \in Nat  BY DEF RegistryInv, RegistryTypeOK
<1>. QED  BY <1>6, <1>7, <1>9, <1>10 DEF Counted

(* One caller writes the counter, and takes the id. *)
LEMMA KeptByWriteCounter ==
    ASSUME RegistryInv, NEW s \in Service, WriteCounter(s)
    PROVE  RegistryInv'
<1>. USE Numbers DEF Name
<1>1. RegistryTypeOK'
  BY DrawOnce DEF RegistryInv, RegistryTypeOK, WriteCounter, To, initVars
<1>2. Ids'
  <2>1. /\ idOf' = [idOf EXCEPT ![s] = counter'] /\ counter' = counter + 1
        /\ stage' = [stage EXCEPT ![s] = "register"] /\ seen' = seen /\ stage[s] = "count"
    BY DrawOnce DEF RegistryInv, WriteCounter, To
  <2>2. counter \in Nat /\ idOf \in [Service -> 0..MaxServices]
    BY DEF RegistryInv, RegistryTypeOK
  <2>3. /\ stage'[s] = "register" /\ idOf'[s] = counter + 1
        /\ \A r \in Service : r # s => stage'[r] = stage[r] /\ idOf'[r] = idOf[r]
    BY <2>1, <2>2 DEF RegistryInv, RegistryTypeOK
  <2>4. \A r \in Service : idOf[r] \in Nat /\ idOf[r] <= counter
    BY <2>2 DEF RegistryInv, Ids
  <2>5. \A r \in Service : r # s => stage[r] # "count"
    BY <2>1 DEF RegistryInv, Ids
  <2>6. \A r, q \in Service : idOf[r] # 0 /\ idOf[r] = idOf[q] => r = q
    BY DEF RegistryInv, Ids
  <2>7. \A r \in Service : stage[r] \in Undrawn <=> idOf[r] = 0
    BY DEF RegistryInv, Ids
  <2>. QED  BY <2>1, <2>2, <2>3, <2>4, <2>5, <2>6, <2>7 DEF Ids, Undrawn
<1>3. Counted'
  BY DrawOnce
<1>4. Own'
  BY DEF RegistryInv, Own, Unregistered, Undrawn, WriteCounter, To, initVars
<1>5. Names'
  BY DEF RegistryInv, Names, InLookUp, Unregistered, Undrawn, WriteCounter, To
<1>6. NamedMap'
  BY DEF RegistryInv, Unregistered, Undrawn, NamedMap, NamedOf, WriteCounter, To
<1>7. ByIdMap'
  BY DEF RegistryInv, Unregistered, Undrawn, ByIdMap, ByIdOf, WriteCounter, To
<1>8. ServicesMap'
  BY DEF RegistryInv, Unregistered, Undrawn, ServicesMap, ServicesOf, WriteCounter, To,
         initVars
<1>9. Enlisting'
  BY DEF RegistryInv, Enlisting, WriteCounter, To
<1>10. Sent'
  <2>1. ~Waits(s)  BY DEF WriteCounter, Waits
  <2>2. \A c \in Service : c # s => stage'[c] = stage[c] /\ parent'[c] = parent[c]
    BY DEF RegistryInv, RegistryTypeOK, WriteCounter, To
  <2>3. mail' = mail /\ jobs' = jobs
    BY DEF WriteCounter, To, initVars
  <2>. QED  BY <2>1, <2>2, <2>3, SentStays
<1>. QED
  BY <1>1, <1>2, <1>3, <1>4, <1>5, <1>6, <1>7, <1>8, <1>9, <1>10 DEF RegistryInv

(* Both maps get the context. *)
LEMMA KeptByRegisterContext ==
    ASSUME RegistryInv, NEW s \in Service, RegisterContext(s)
    PROVE  RegistryInv'
<1>. USE Numbers DEF Name
<1>a. /\ idOf[s] \in Service /\ name[s] \in Service /\ stage[s] = "register"
      /\ stage' = [stage EXCEPT ![s] = "enlist"] /\ context' = [context EXCEPT ![s] = s]
      /\ named' = [named EXCEPT ![name[s]] = s] /\ byId' = [byId EXCEPT ![idOf[s]] = s]
      /\ UNCHANGED <<parent, name, seen, clashed, counter, idOf, services, handler,
                     mail, jobs, inited>>
  <2>1. stage[s] = "register"  BY DEF RegisterContext
  <2>2. idOf[s] \in Service  BY <2>1 DEF RegistryInv, RegistryTypeOK, Ids, Undrawn
  <2>3. name[s] \in Service  BY <2>1 DEF RegistryInv, RegistryTypeOK, Names
  <2>. QED  BY <2>1, <2>2, <2>3 DEF RegisterContext, To, initVars
<1>b. /\ \A r \in Service : r # s => idOf[r] # idOf[s]
      /\ \A r \in Service : r # s /\ InLookUp(r) => name[r] # name[s]
      /\ services[idOf[s]] = None
  <2>1. \A r \in Service : r # s => idOf[r] # idOf[s]
    BY <1>a DEF RegistryInv, Ids
  <2>2. \A r \in Service : r # s /\ InLookUp(r) => name[r] # name[s]
    BY <1>a DEF RegistryInv, Names, InLookUp, Unregistered
  <2>3. ASSUME services[idOf[s]] # None  PROVE FALSE
    <3>1. ServicesOf(idOf[s]) /\ services[idOf[s]] \in Service
      BY <1>a, <2>3 DEF RegistryInv, RegistryTypeOK, ServicesMap
    <3>2. ByIdOf(idOf[s]) /\ byId[idOf[s]] = services[idOf[s]]
      BY <1>a, <2>3, <3>1 DEF RegistryInv, ByIdMap, ServicesOf
    <3>3. services[idOf[s]] = s  BY <2>1, <3>1, <3>2 DEF ByIdOf
    <3>. QED  BY <1>a, <3>1, <3>3 DEF ServicesOf, Unregistered, Undrawn
  <2>. QED  BY <2>1, <2>2, <2>3
<1>1. RegistryTypeOK'
  BY <1>a, <1>b DEF RegistryInv, RegistryTypeOK, Job
<1>2. Ids'
  BY <1>a, <1>b DEF RegistryInv, Ids, Undrawn
<1>3. Counted'
  <2>1. Drawn' = Drawn  BY <1>a, <1>b DEF Drawn, Job
  <2>. QED  BY <1>a, <1>b, <2>1 DEF RegistryInv, Counted, Job
<1>4. Own'
  BY <1>a, <1>b DEF RegistryInv, RegistryTypeOK, Own, Unregistered, Undrawn
<1>5. Names'
  BY <1>a, <1>b DEF RegistryInv, RegistryTypeOK, Names, InLookUp, Unregistered, Undrawn
<1>6. NamedMap'
  <2>1. SUFFICES ASSUME NEW n \in Service, named'[n] # None  PROVE NamedOf(n)'
    BY DEF NamedMap
  <2>2. CASE n = name[s]
    <3>1. /\ named'[n] = s /\ stage'[s] = "enlist" /\ byId'[idOf[s]] = s
          /\ name'[s] = n /\ idOf'[s] = idOf[s]
      BY <1>a, <2>2 DEF RegistryInv, RegistryTypeOK
    <3>. QED  BY <3>1 DEF NamedOf, Unregistered, Undrawn
  <2>3. CASE n # name[s]
    <3>1. named'[n] = named[n] /\ named[n] \in Service /\ NamedOf(n)
      BY <1>a, <2>1, <2>3 DEF RegistryInv, RegistryTypeOK, NamedMap
    <3>2. named[n] # s  BY <1>a, <3>1 DEF NamedOf, Unregistered, Undrawn
    <3>3. stage'[named[n]] = stage[named[n]]
      BY <1>a, <3>1, <3>2 DEF RegistryInv, RegistryTypeOK
    <3>4. byId'[idOf[named[n]]] = byId[idOf[named[n]]]
      <4>1. idOf[named[n]] # idOf[s]  BY <1>b, <3>1, <3>2
      <4>. QED  BY <1>a, <4>1 DEF RegistryInv, RegistryTypeOK
    <3>. QED  BY <1>a, <3>1, <3>3, <3>4 DEF NamedOf, Unregistered, Undrawn
  <2>. QED  BY <2>2, <2>3
<1>7. ByIdMap'
  <2>1. SUFFICES ASSUME NEW i \in Service, byId'[i] # None  PROVE ByIdOf(i)'
    BY DEF ByIdMap
  <2>2. CASE i = idOf[s]
    <3>1. /\ byId'[i] = s /\ stage'[s] = "enlist" /\ named'[name[s]] = s
          /\ idOf'[s] = i /\ name'[s] = name[s]
      BY <1>a, <2>2 DEF RegistryInv, RegistryTypeOK
    <3>. QED  BY <3>1 DEF ByIdOf, Unregistered, Undrawn
  <2>3. CASE i # idOf[s]
    <3>1. byId'[i] = byId[i] /\ byId[i] \in Service /\ ByIdOf(i)
      BY <1>a, <2>1, <2>3 DEF RegistryInv, RegistryTypeOK, ByIdMap
    <3>2. byId[i] # s  BY <2>3, <3>1 DEF ByIdOf
    <3>3. stage'[byId[i]] = stage[byId[i]]
      BY <1>a, <3>1, <3>2 DEF RegistryInv, RegistryTypeOK
    <3>4. name[byId[i]] # name[s]
      BY <1>a, <3>1 DEF RegistryInv, Names, InLookUp, Unregistered, ByIdOf
    <3>5. named'[name[byId[i]]] = named[name[byId[i]]]
      BY <1>a, <3>1, <3>4 DEF RegistryInv, RegistryTypeOK
    <3>. QED  BY <1>a, <3>1, <3>3, <3>5 DEF ByIdOf, Unregistered, Undrawn
  <2>. QED  BY <2>2, <2>3
<1>8. ServicesMap'
  BY <1>a, <1>b DEF RegistryInv, ByIdMap, ByIdOf, ServicesMap, ServicesOf
<1>9. Enlisting'
  BY <1>a, <1>b DEF RegistryInv, RegistryTypeOK, Enlisting
<1>10. Sent'
  <2>1. ~Waits(s)  BY <1>a DEF Waits
  <2>2. \A c \in Service : c # s => stage'[c] = stage[c] /\ parent'[c] = parent[c]
    BY <1>a DEF RegistryInv, RegistryTypeOK
  <2>. QED  BY <1>a, <2>1, <2>2, SentStays
<1>. QED
  BY <1>1, <1>2, <1>3, <1>4, <1>5, <1>6, <1>7, <1>8, <1>9, <1>10 DEF RegistryInv

(* No other service has the id. *)
LEMMA KeptByRegisterService ==
    ASSUME RegistryInv, NEW s \in Service, RegisterService(s)
    PROVE  RegistryInv'
<1>. USE Numbers DEF Name
<1>a. /\ context[s] = s /\ idOf[s] \in Service /\ byId[idOf[s]] = s
      /\ stage[s] = "enlist" /\ stage' = [stage EXCEPT ![s] = "bind"]
      /\ services' = [services EXCEPT ![idOf[s]] = s]
      /\ UNCHANGED <<parent, name, context, seen, clashed, counter, idOf, named, byId,
                     handler, mail, jobs, inited>>
  <2>1. stage[s] = "enlist"  BY DEF RegisterService
  <2>2. context[s] = s  BY <2>1 DEF RegistryInv, Own, Unregistered, Undrawn
  <2>3. idOf[s] \in Service  BY <2>1 DEF RegistryInv, RegistryTypeOK, Ids, Undrawn
  <2>4. byId[idOf[s]] = s /\ services[idOf[s]] = None
    BY <2>1 DEF RegistryInv, Enlisting
  <2>. QED  BY <2>1, <2>2, <2>3, <2>4 DEF RegisterService, To, initVars
<1>1. RegistryTypeOK'
  BY <1>a DEF RegistryInv, RegistryTypeOK, Job
<1>2. Ids'
  <2>1. \A c \in Service : /\ stage'[c] \in Undrawn <=> stage[c] \in Undrawn
                           /\ stage'[c] = "count" => stage[c] = "count"
    BY <1>a DEF RegistryInv, RegistryTypeOK, Undrawn
  <2>. QED  BY <1>a, <2>1, IdsStay DEF RegistryInv
<1>3. Counted'
  <2>1. Drawn' = Drawn  BY <1>a DEF Drawn, Job
  <2>. QED  BY <1>a, <2>1 DEF RegistryInv, Counted, Job
<1>4. Own'
  BY <1>a DEF RegistryInv, Own, Unregistered, Undrawn
<1>5. Names'
  BY <1>a DEF RegistryInv, Names, InLookUp, Unregistered, Undrawn
<1>6. NamedMap'
  BY <1>a DEF RegistryInv, Unregistered, Undrawn, NamedMap, NamedOf
<1>7. ByIdMap'
  BY <1>a DEF RegistryInv, Unregistered, Undrawn, ByIdMap, ByIdOf
<1>8. ServicesMap'
  <2>1. SUFFICES ASSUME NEW i \in Service, services'[i] # None  PROVE ServicesOf(i)'
    BY DEF ServicesMap
  <2>2. CASE i = idOf[s]
    <3>1. services'[i] = s /\ stage'[s] = "bind" /\ byId'[i] = s
      BY <1>a, <2>2 DEF RegistryInv, RegistryTypeOK
    <3>. QED  BY <3>1 DEF ServicesOf, Unregistered, Undrawn
  <2>3. CASE i # idOf[s]
    <3>1. services'[i] = services[i] /\ services[i] \in Service /\ ServicesOf(i)
      BY <1>a, <2>1, <2>3 DEF RegistryInv, RegistryTypeOK, ServicesMap
    <3>2. services[i] # s  BY <1>a, <3>1 DEF ServicesOf
    <3>3. stage'[services[i]] = stage[services[i]]
      BY <1>a, <3>1, <3>2 DEF RegistryInv, RegistryTypeOK
    <3>. QED  BY <1>a, <3>1, <3>3 DEF ServicesOf, Unregistered, Undrawn
  <2>. QED  BY <2>2, <2>3
<1>9. Enlisting'
  BY <1>a DEF RegistryInv, RegistryTypeOK, Enlisting
<1>10. Sent'
  <2>1. ~Waits(s)  BY <1>a DEF Waits
  <2>2. \A c \in Service : c # s => stage'[c] = stage[c] /\ parent'[c] = parent[c]
    BY <1>a DEF RegistryInv, RegistryTypeOK
  <2>. QED  BY <1>a, <2>1, <2>2, SentStays
<1>. QED
  BY <1>1, <1>2, <1>3, <1>4, <1>5, <1>6, <1>7, <1>8, <1>9, <1>10 DEF RegistryInv

(* The handler is that of the object. *)
LEMMA KeptByRegisterFunc ==
    ASSUME RegistryInv, NEW s \in Service, RegisterFunc(s)
    PROVE  RegistryInv'
<1>. USE Numbers DEF Name
<1>1. RegistryTypeOK'
  BY DEF RegistryInv, RegistryTypeOK, RegisterFunc, To, mapVars
<1>2. Ids'
  BY DEF RegistryInv, Ids, Undrawn, RegisterFunc, To, mapVars
<1>3. Counted'
  <2>1. Drawn' = Drawn  BY DEF Drawn, RegisterFunc, To, mapVars
  <2>. QED  BY <2>1 DEF RegistryInv, Counted, RegisterFunc, mapVars
<1>4. Own'
  <2>1. context[s] = s /\ stage[s] = "bind"
    BY DEF RegistryInv, Own, Unregistered, Undrawn, RegisterFunc
  <2>2. /\ handler' = [handler EXCEPT ![s] = s] /\ context' = context
        /\ stage' = [stage EXCEPT ![s] = "send"]
    BY <2>1 DEF RegisterFunc, To
  <2>3. \A c \in Service : stage'[c] \in Unregistered <=> stage[c] \in Unregistered
    BY <2>1, <2>2 DEF RegistryInv, RegistryTypeOK, Unregistered, Undrawn
  <2>4. \A c \in Service : handler'[c] \in {None, c}
    BY <2>1, <2>2 DEF RegistryInv, RegistryTypeOK, Own
  <2>. QED  BY <2>2, <2>3, <2>4 DEF RegistryInv, Own
<1>5. Names'
  <2>1. \A c \in Service : /\ stage'[c] \in Unregistered <=> stage[c] \in Unregistered
                           /\ stage'[c] = "none" <=> stage[c] = "none"
    BY DEF RegistryInv, RegistryTypeOK, Unregistered, Undrawn, RegisterFunc, To
  <2>2. name' = name /\ named' = named
    BY DEF RegisterFunc, mapVars
  <2>. QED  BY <2>1, <2>2, NamesStay DEF RegistryInv
<1>6. NamedMap'
  BY DEF RegistryInv, Unregistered, Undrawn, NamedMap, NamedOf, RegisterFunc, To,
         mapVars
<1>7. ByIdMap'
  BY DEF RegistryInv, Unregistered, Undrawn, ByIdMap, ByIdOf, RegisterFunc, To, mapVars
<1>8. ServicesMap'
  BY DEF RegistryInv, RegistryTypeOK, Own, Unregistered, Undrawn, ServicesMap,
         ServicesOf, RegisterFunc, To, mapVars
<1>9. Enlisting'
  BY DEF RegistryInv, Enlisting, RegisterFunc, To, mapVars
<1>10. Sent'
  <2>1. ~Waits(s)  BY DEF RegisterFunc, Waits
  <2>2. \A c \in Service : c # s => stage'[c] = stage[c] /\ parent'[c] = parent[c]
    BY DEF RegistryInv, RegistryTypeOK, RegisterFunc, To
  <2>3. mail' = mail /\ jobs' = jobs
    BY DEF RegisterFunc, To, initVars
  <2>. QED  BY <2>1, <2>2, <2>3, SentStays
<1>. QED
  BY <1>1, <1>2, <1>3, <1>4, <1>5, <1>6, <1>7, <1>8, <1>9, <1>10 DEF RegistryInv

(* The packle is queued. *)
LEMMA KeptBySendInit ==
    ASSUME RegistryInv, NEW s \in Service, SendInit(s)
    PROVE  RegistryInv'
<1>. USE Numbers DEF Name
<1>a. /\ mail[s] \in Seq(Service) /\ stage[s] = "send" /\ stage' = [stage EXCEPT ![s] = "wait"]
      /\ mail' = [mail EXCEPT ![s] = Append(mail[s], s)]
      /\ UNCHANGED <<parent, name, context, seen, clashed, counter, idOf, named, byId,
                     services, handler, jobs, inited>>
  BY DEF RegistryInv, RegistryTypeOK, Own, Unregistered, Undrawn, SendInit, To, mapVars
<1>1. RegistryTypeOK'
  <2>1. Append(mail[s], s) \in Seq(Service)  BY <1>a
  <2>2. mail' \in [Service -> Seq(Service)]
    BY <1>a, <2>1 DEF RegistryInv, RegistryTypeOK
  <2>. QED  BY <1>a, <2>2 DEF RegistryInv, RegistryTypeOK
<1>2. Ids'
  BY <1>a DEF RegistryInv, Ids, Undrawn
<1>3. Counted'
  <2>1. Drawn' = Drawn  BY <1>a DEF Drawn, Job
  <2>. QED  BY <1>a, <2>1 DEF RegistryInv, Counted, Job
<1>4. Own'
  BY <1>a DEF RegistryInv, Own, Unregistered, Undrawn
<1>5. Names'
  BY <1>a DEF RegistryInv, Names, InLookUp, Unregistered, Undrawn
<1>6. NamedMap'
  <2>1. \A c \in Service : stage[c] \notin Unregistered => stage'[c] \notin Unregistered
    BY <1>a DEF RegistryInv, RegistryTypeOK, Unregistered, Undrawn
  <2>. QED  BY <1>a, <2>1, NamedStays
<1>7. ByIdMap'
  BY <1>a DEF RegistryInv, Unregistered, Undrawn, ByIdMap, ByIdOf
<1>8. ServicesMap'
  BY <1>a DEF RegistryInv, Unregistered, Undrawn, ServicesMap, ServicesOf
<1>9. Enlisting'
  BY <1>a DEF RegistryInv, RegistryTypeOK, Enlisting
<1>10. Sent'
  <2>1. mail[s] = <<>> /\ <<s, s>> \notin jobs  BY <1>a DEF RegistryInv, Sent, Waits
  <2>2. mail'[s] = <<s>> /\ \A c \in Service : c # s => mail'[c] = mail[c]
    BY <1>a, <2>1 DEF RegistryInv, RegistryTypeOK
  <2>3. stage'[s] = "wait" /\ \A c \in Service : c # s => stage'[c] = stage[c]
    <3>1. stage' = [stage EXCEPT ![s] = "wait"]  BY <1>a
    <3>. QED  BY <3>1, StageSet DEF RegistryInv
  <2>. QED  BY <1>a, <2>1, <2>2, <2>3 DEF RegistryInv, Sent, Waits
<1>. QED
  BY <1>1, <1>2, <1>3, <1>4, <1>5, <1>6, <1>7, <1>8, <1>9, <1>10 DEF RegistryInv

(* newService ends. *)
LEMMA KeptByReturn ==
    ASSUME RegistryInv, NEW s \in Service, Return(s)
    PROVE  RegistryInv'
<1>. USE Numbers DEF Name
<1>1. RegistryTypeOK'
  BY DEF RegistryInv, RegistryTypeOK, Return, To, mapVars, initVars
<1>2. Ids'
  <2>1. \A c \in Service : /\ stage'[c] \in Undrawn <=> stage[c] \in Undrawn
                           /\ stage'[c] = "count" => stage[c] = "count"
    BY DEF RegistryInv, RegistryTypeOK, Undrawn, Return, To
  <2>2. seen' = seen /\ counter' = counter /\ idOf' = idOf
    BY DEF Return, mapVars
  <2>. QED  BY <2>1, <2>2, IdsStay DEF RegistryInv
<1>3. Counted'
  <2>1. Drawn' = Drawn  BY DEF Drawn, Return, To, mapVars, initVars
  <2>. QED  BY <2>1 DEF RegistryInv, Counted, Return, To, mapVars
<1>4. Own'
  BY DEF RegistryInv, Own, Unregistered, Undrawn, Return, To, initVars
<1>5. Names'
  <2>1. \A c \in Service : /\ stage'[c] \in Unregistered <=> stage[c] \in Unregistered
                           /\ stage'[c] = "none" <=> stage[c] = "none"
    BY DEF RegistryInv, RegistryTypeOK, Unregistered, Undrawn, Return, To
  <2>2. name' = name /\ named' = named
    BY DEF Return, mapVars
  <2>. QED  BY <2>1, <2>2, NamesStay DEF RegistryInv
<1>6. NamedMap'
  BY DEF RegistryInv, Unregistered, Undrawn, NamedMap, NamedOf, Return, To, mapVars
<1>7. ByIdMap'
  BY DEF RegistryInv, Unregistered, Undrawn, ByIdMap, ByIdOf, Return, To, mapVars
<1>8. ServicesMap'
  BY DEF RegistryInv, Unregistered, Undrawn, ServicesMap, ServicesOf, Return, To,
         mapVars, initVars
<1>9. Enlisting'
  BY DEF RegistryInv, Own, Enlisting, Return, To, mapVars
<1>10. Sent'
  BY DEF RegistryInv, RegistryTypeOK, Sent, Waits, Return, To, initVars
<1>. QED
  BY <1>1, <1>2, <1>3, <1>4, <1>5, <1>6, <1>7, <1>8, <1>9, <1>10 DEF RegistryInv

(* A packle is taken. *)
LEMMA KeptByBeginInit ==
    ASSUME RegistryInv, NEW c \in Service, NEW job \in (Service \cup {None}) \X Service,
           BeginInit(c, job)
    PROVE  RegistryInv'
<1>. USE Numbers DEF Name
<1>a. /\ mail[c] = <<c>> /\ job = <<handler[c], c>> /\ <<c, c>> \notin jobs /\ Waits(c)
      /\ mail' = [mail EXCEPT ![c] = <<>>]
      /\ jobs' = jobs \/ (handler[c] # None /\ jobs' = jobs \cup {job})
      /\ UNCHANGED <<stage, parent, name, context, seen, clashed, counter, idOf, named,
                     byId, services, handler, inited>>
  <2>1. mail[c] = <<c>>  BY DEF RegistryInv, Sent, BeginInit
  <2>2. Head(mail[c]) = c /\ Tail(mail[c]) = <<>>  BY <2>1
  <2>. QED  BY <2>1, <2>2 DEF RegistryInv, Sent, BeginInit, callVars, mapVars
<1>b. jobs' = jobs \/ jobs' = jobs \cup {<<c, c>>}  BY <1>a DEF RegistryInv, Own
<1>1. RegistryTypeOK'
  <2>1. mail' \in [Service -> Seq(Service)]
    <3>1. <<>> \in Seq(Service)  OBVIOUS
    <3>. QED  BY <1>a, <3>1 DEF RegistryInv, RegistryTypeOK
  <2>2. jobs' \subseteq Job  BY <1>b DEF RegistryInv, RegistryTypeOK, Job
  <2>. QED  BY <1>a, <2>1, <2>2 DEF RegistryInv, RegistryTypeOK
<1>2. Ids'
  BY <1>a DEF RegistryInv, Ids
<1>3. Counted'
  <2>1. Drawn' = Drawn  BY <1>a DEF Drawn, Job
  <2>. QED  BY <1>a, <2>1 DEF RegistryInv, Counted, Job
<1>4. Own'
  BY <1>a DEF RegistryInv, Own
<1>5. Names'
  BY <1>a DEF RegistryInv, Names, InLookUp
<1>6. NamedMap'
  BY <1>a DEF RegistryInv, NamedMap, NamedOf
<1>7. ByIdMap'
  BY <1>a DEF RegistryInv, ByIdMap, ByIdOf
<1>8. ServicesMap'
  BY <1>a DEF RegistryInv, ServicesMap, ServicesOf
<1>9. Enlisting'
  BY <1>a DEF RegistryInv, Enlisting
<1>10. Sent'
  <2>1. mail'[c] = <<>> /\ \A d \in Service : d # c => mail'[d] = mail[d]
    BY <1>a DEF RegistryInv, RegistryTypeOK
  <2>2. <<>> # <<c>>  OBVIOUS
  <2>3. \A d \in Service : d # c => (<<d, d>> \in jobs' <=> <<d, d>> \in jobs)  BY <1>b
  <2>. QED  BY <1>a, <1>b, <2>1, <2>2, <2>3 DEF RegistryInv, Sent, Waits
<1>. QED
  BY <1>1, <1>2, <1>3, <1>4, <1>5, <1>6, <1>7, <1>8, <1>9, <1>10 DEF RegistryInv

(* The init of a service ends. *)
LEMMA KeptByEndInit ==
    ASSUME RegistryInv, NEW job \in Job, EndInit(job)
    PROVE  RegistryInv'
<1>. USE Numbers DEF Name
<1>a. PICK c \in Service : job = <<c, c>>  BY DEF RegistryInv, Sent, EndInit
<1>b. /\ <<c, c>> \in jobs /\ jobs' = jobs \ {<<c, c>>} /\ inited' = inited \cup {c}
      /\ \/ stage' = stage
         \/ parent[c] # Main /\ stage' = [stage EXCEPT ![c] = "answered"]
      /\ UNCHANGED <<parent, name, context, seen, clashed, counter, idOf, named, byId,
                     services, handler, mail>>
  BY <1>a DEF EndInit, To, mapVars
<1>c. \A r \in Service :
        \/ stage'[r] = stage[r]
        \/ r = c /\ parent[c] # Main /\ stage[r] = "wait" /\ stage'[r] = "answered"
  <2>1. Waits(c)  BY <1>b DEF RegistryInv, Sent
  <2>. QED  BY <1>b, <2>1 DEF RegistryInv, RegistryTypeOK, Waits
<1>1. RegistryTypeOK'
  <2>1. /\ stage' \in [Service -> {"none", "read", "count", "register", "enlist", "bind",
                                  "send", "wait", "answered", "done"}]
    BY <1>b DEF RegistryInv, RegistryTypeOK
  <2>2. jobs' \subseteq Job /\ inited' \subseteq Service
    BY <1>b DEF RegistryInv, RegistryTypeOK
  <2>. QED  BY <1>b, <2>1, <2>2 DEF RegistryInv, RegistryTypeOK
<1>2. Ids'
  <2>1. \A r \in Service : /\ stage'[r] \in Undrawn <=> stage[r] \in Undrawn
                           /\ stage'[r] = "count" => stage[r] = "count"
    BY <1>c DEF Undrawn
  <2>. QED  BY <1>b, <2>1, IdsStay DEF RegistryInv
<1>3. Counted'
  <2>1. Drawn' = Drawn  BY <1>b, <1>c DEF Drawn
  <2>. QED  BY <1>a, <1>b, <2>1 DEF RegistryInv, Counted
<1>4. Own'
  BY <1>b, <1>c DEF RegistryInv, Own, Unregistered, Undrawn
<1>5. Names'
  <2>1. \A r \in Service : InLookUp(r)' <=> InLookUp(r)
    BY <1>c DEF InLookUp, Unregistered, Undrawn
  <2>2. \A r \in Service : stage'[r] # "none" => stage[r] # "none"  BY <1>c
  <2>. QED  BY <1>b, <2>1, <2>2 DEF RegistryInv, Names
<1>6. NamedMap'
  <2>1. SUFFICES ASSUME NEW i \in Name, named'[i] # None  PROVE NamedOf(i)'
    BY DEF NamedMap
  <2>2. named[i] \in Service /\ NamedOf(i)
    BY <1>b, <2>1 DEF RegistryInv, RegistryTypeOK, NamedMap
  <2>. QED  BY <1>b, <1>c, <2>2 DEF NamedOf, Unregistered, Undrawn
<1>7. ByIdMap'
  <2>1. SUFFICES ASSUME NEW i \in Service, byId'[i] # None  PROVE ByIdOf(i)'
    BY DEF ByIdMap
  <2>2. byId[i] \in Service /\ ByIdOf(i)
    BY <1>b, <2>1 DEF RegistryInv, RegistryTypeOK, ByIdMap
  <2>. QED  BY <1>b, <1>c, <2>2 DEF ByIdOf, Unregistered, Undrawn
<1>8. ServicesMap'
  <2>1. SUFFICES ASSUME NEW i \in Service, services'[i] # None  PROVE ServicesOf(i)'
    BY DEF ServicesMap
  <2>2. services[i] \in Service /\ ServicesOf(i)
    BY <1>b, <2>1 DEF RegistryInv, RegistryTypeOK, ServicesMap
  <2>. QED  BY <1>b, <1>c, <2>2 DEF ServicesOf, Unregistered, Undrawn
<1>9. Enlisting'
  BY <1>b, <1>c DEF RegistryInv, Enlisting
<1>10. Sent'
  <2>1. mail[c] # <<c>>  BY <1>b DEF RegistryInv, Sent
  <2>2. \A d \in Service : d # c => <<d, d>> # <<c, c>>  OBVIOUS
  <2>3. \A d \in Service : <<d, d>> \in jobs' <=> d # c /\ <<d, d>> \in jobs
    BY <1>b, <2>2
  <2>. QED  BY <1>b, <1>c, <2>1, <2>3 DEF RegistryInv, Sent, Waits
<1>. QED
  BY <1>1, <1>2, <1>3, <1>4, <1>5, <1>6, <1>7, <1>8, <1>9, <1>10 DEF RegistryInv

(* A service leaves all three maps. *)
LEMMA KeptByRemoveService ==
    ASSUME RegistryInv, NEW i \in Service, RemoveService(i)
    PROVE  RegistryInv'
<1>. USE Numbers DEF Name
<1>a. /\ services[i] \in Service /\ byId[i] = services[i] /\ idOf[services[i]] = i
      /\ name[services[i]] \in Name /\ named[name[services[i]]] = services[i]
      /\ services' = [services EXCEPT ![i] = None]
      /\ named' = [named EXCEPT ![name[services[i]]] = None]
      /\ byId' = [byId EXCEPT ![i] = None]
      /\ UNCHANGED <<stage, parent, name, context, seen, clashed, counter, idOf,
                     handler, mail, jobs, inited>>
  <2>1. /\ services[i] \in Service /\ stage[services[i]] \notin Unregistered
        /\ byId[i] = services[i]
    BY DEF RegistryInv, RegistryTypeOK, ServicesMap, ServicesOf, RemoveService
  <2>2. context[services[i]] = services[i]  BY <2>1 DEF RegistryInv, Own
  <2>3. /\ idOf[services[i]] = i /\ named[name[services[i]]] = services[i]
        /\ name[services[i]] \in Service
    <3>1. ByIdOf(i)  BY <2>1 DEF RegistryInv, ByIdMap
    <3>2. name[services[i]] # None
      BY <2>1 DEF RegistryInv, Names, Unregistered, Undrawn
    <3>. QED  BY <2>1, <3>1, <3>2 DEF RegistryInv, RegistryTypeOK, ByIdOf
  <2>. QED  BY <2>1, <2>2, <2>3 DEF RemoveService, callVars, initVars
<1>1. RegistryTypeOK'
  BY <1>a DEF RegistryInv, RegistryTypeOK, Job
<1>2. Ids'
  BY <1>a DEF RegistryInv, Ids
<1>3. Counted'
  <2>1. Drawn' = Drawn  BY <1>a DEF Drawn, Job
  <2>. QED  BY <1>a, <2>1 DEF RegistryInv, Counted, Job
<1>4. Own'
  BY <1>a DEF RegistryInv, Own
<1>5. Names'
  BY <1>a DEF RegistryInv, Names, InLookUp
<1>6. NamedMap'
  BY <1>a DEF RegistryInv, RegistryTypeOK, Unregistered, NamedMap, NamedOf
<1>7. ByIdMap'
  BY <1>a DEF RegistryInv, RegistryTypeOK, ByIdMap, ByIdOf
<1>8. ServicesMap'
  BY <1>a DEF RegistryInv, RegistryTypeOK, ServicesMap, ServicesOf
<1>9. Enlisting'
  BY <1>a DEF RegistryInv, Enlisting
<1>10. Sent'
  BY <1>a DEF RegistryInv, RegistryTypeOK, Sent, Waits
<1>. QED
  BY <1>1, <1>2, <1>3, <1>4, <1>5, <1>6, <1>7, <1>8, <1>9, <1>10 DEF RegistryInv

(* The steps of newService between the look-up and the answer.             *)
LEMMA KeptByCreate ==
    ASSUME RegistryInv, ~clashed', NEW s \in Service, Create(s)
    PROVE  RegistryInv'
BY KeptByReadCounter, KeptByWriteCounter, KeptByRegisterContext, KeptByRegisterService,
   KeptByRegisterFunc, KeptBySendInit DEF Create

LEMMA KeptByOthers ==
    ASSUME RegistryInv, UNCHANGED registryVars
    PROVE  RegistryInv'
<1>1. Drawn' = Drawn  BY DEF Drawn, registryVars, mapVars
<1>. QED
  BY <1>1
  DEF RegistryInv, RegistryTypeOK, Ids, Counted, Own, Names, InLookUp, Sent, Waits,
      NamedMap, NamedOf, ByIdMap, ByIdOf, ServicesMap, ServicesOf, Enlisting,
      registryVars, callVars, mapVars, initVars

LEMMA RegistryStarts == RegistryInit => RegistryInv
<1>. SUFFICES ASSUME RegistryInit  PROVE RegistryInv
  OBVIOUS
<1>. USE Numbers DEF Name
<1>1. RegistryTypeOK
  <2>1. <<>> \in Seq(Service)  OBVIOUS
  <2>2. Main \in Job \cup {Main} /\ 0 \in 0..MaxServices  OBVIOUS
  <2>3. clashed \in BOOLEAN  BY DEF RegistryInit
  <2>. QED  BY <2>1, <2>2, <2>3 DEF RegistryInit, RegistryTypeOK
<1>2. Counted
  <2>1. Drawn = {}  BY DEF RegistryInit, Drawn
  <2>. QED  BY <2>1, FS_EmptySet DEF RegistryInit, Counted
<1>3. Sent
  <2>1. \A c \in Service : <<>> # <<c>>  OBVIOUS
  <2>. QED  BY <2>1 DEF RegistryInit, Sent
<1>. QED
  BY <1>1, <1>2, <1>3
  DEF RegistryInv, RegistryInit, Ids, Own, Names, InLookUp, Unregistered, Undrawn,
      NamedMap, ByIdMap, ServicesMap, Enlisting

-----------------------------------------------------------------------------
(* The types of the life cycle, and the workers' coroutines.               *)

\* A coroutine is with one worker, and does not end while it is in newService.
Turns ==
    /\ turn \in [Worker -> jobs \cup {Main}]
    /\ stopper \in Worker \cup {NoWorker}
    /\ \A s \in Service :
         parent[s] # Main /\ stage[s] \notin {"none", "done"} => parent[s] \in jobs
    /\ \A v, w \in Worker : turn[v] = turn[w] /\ turn[w] # Main => v = w

IInv == RegistryInv /\ LifecycleTypeOK /\ Turns

LEMMA Threads ==
    /\ Workers \in Nat /\ Workers > 0
    /\ Thread = 1..(Workers + 3) /\ LogT = 1 /\ SockT = Workers + 2 /\ TimeT = Workers + 3
    /\ \A t \in Thread : FlagOf(t) \in Flags
    /\ Worker \subseteq Thread
BY LifecycleAssumption DEF Thread, LogT, SockT, TimeT, FlagOf, Flags, Worker

LEMMA LifecycleStarts == LifecycleInit => LifecycleTypeOK
<1>. SUFFICES ASSUME LifecycleInit  PROVE LifecycleTypeOK
  OBVIOUS
<1>1. main \in [at : {"main", "start", "wait", "join", "destroy", "exited"}, k : Nat]
  BY DEF LifecycleInit, Main0
<1>2. /\ state \in [Thread -> {"INIT", "RUNNING", "STOPPED"}]
      /\ thread \in [Thread -> {"none", "created", "begun", "loop", "ended"}]
      /\ flag \in [Flags -> BOOLEAN]
  BY DEF LifecycleInit
<1>3. stopping \in 0..4 /\ built \in Seq(Flags)  BY DEF LifecycleInit
<1>4. failed \in BOOLEAN  BY DEF LifecycleInit
<1>. QED  BY <1>1, <1>2, <1>3, <1>4 DEF LifecycleTypeOK

LEMMA UseTyped ==
    ASSUME LifecycleTypeOK, NEW f \in Flags, Use(f)
    PROVE  built' \in Seq(Flags)
BY DEF LifecycleTypeOK, Use

LEMMA StopUses == StopOrder \in Seq(Flags) /\ \A i \in 0..3 : StopOrder[i + 1] \in Flags
BY DEF StopOrder, Flags

LEMMA MainTyped ==
    ASSUME LifecycleTypeOK, MainStep
    PROVE  LifecycleTypeOK'
<1>. USE Threads DEF LifecycleTypeOK
<1>1. CASE Run  BY <1>1 DEF Run
<1>2. ASSUME NEW t \in Thread, StartThread(t)  PROVE LifecycleTypeOK'
  <2>1. built' \in Seq(Flags)  BY <1>2, UseTyped DEF StartThread
  <2>2. flag' \in [Flags -> BOOLEAN] /\ UNCHANGED <<state, stopping, failed>>
    BY <1>2 DEF StartThread
  <2>3. thread' = [thread EXCEPT ![t] = "created"] /\ main' = [at |-> "wait", k |-> t]
    BY <1>2 DEF StartThread
  <2>. QED  BY <2>1, <2>2, <2>3
<1>3. ASSUME NEW t \in Thread, Started(t)  PROVE LifecycleTypeOK'
  BY <1>3 DEF Started
<1>4. CASE Join
  <2>1. state' \in [Thread -> {"INIT", "RUNNING", "STOPPED"}]  BY <1>4 DEF Join
  <2>2. main' \in [at : {"main", "start", "wait", "join", "destroy", "exited"}, k : Nat]
    BY <1>4 DEF Join
  <2>. QED  BY <1>4, <2>1, <2>2 DEF Join
<1>5. CASE Destroy
  <2>1. flag' \in [Flags -> BOOLEAN]  BY <1>5 DEF Destroy
  <2>2. state' \in [Thread -> {"INIT", "RUNNING", "STOPPED"}]  BY <1>5 DEF Destroy
  <2>3. main' \in [at : {"main", "start", "wait", "join", "destroy", "exited"}, k : Nat]
    BY <1>5 DEF Destroy
  <2>4. failed' \in BOOLEAN /\ UNCHANGED <<thread, stopping, built>>  BY <1>5 DEF Destroy
  <2>. QED  BY <2>1, <2>2, <2>3, <2>4
<1>6. CASE DestroyApplication
  <2>1. flag' \in [Flags -> BOOLEAN]  BY <1>6 DEF DestroyApplication
  <2>2. main' \in [at : {"main", "start", "wait", "join", "destroy", "exited"}, k : Nat]
    BY <1>6 DEF DestroyApplication
  <2>3. built' \in Seq(Flags)  BY <1>6, StopUses DEF DestroyApplication
  <2>4. UNCHANGED <<state, thread, stopping, failed>>  BY <1>6 DEF DestroyApplication
  <2>. QED  BY <2>1, <2>2, <2>3, <2>4
<1>. QED  BY <1>1, <1>2, <1>3, <1>4, <1>5, <1>6 DEF MainStep

LEMMA ThreadTyped ==
    ASSUME LifecycleTypeOK, NEW t \in Thread, ThreadStep(t)
    PROVE  LifecycleTypeOK'
BY Threads DEF LifecycleTypeOK, ThreadStep, Begin, Enter, End

LEMMA StopTyped ==
    ASSUME LifecycleTypeOK, ClearFlag
    PROVE  LifecycleTypeOK'
<1>1. built' \in Seq(Flags)
  BY UseTyped, StopUses DEF LifecycleTypeOK, ClearFlag
<1>2. flag' \in [Flags -> BOOLEAN]  BY DEF LifecycleTypeOK, ClearFlag
<1>3. stopping' \in 0..4 /\ UNCHANGED <<main, state, thread, failed>>
  BY DEF LifecycleTypeOK, ClearFlag
<1>. QED  BY <1>1, <1>2, <1>3 DEF LifecycleTypeOK

LEMMA OthersTyped ==
    ASSUME LifecycleTypeOK, UNCHANGED lifecycleVars
    PROVE  LifecycleTypeOK'
BY DEF LifecycleTypeOK, lifecycleVars

-----------------------------------------------------------------------------
(* The steps of Next.                                                      *)

LEMMA Turned ==
    ASSUME IInv, NEW w \in Worker
    PROVE  turn[w] \in Job \cup {Main} /\ (turn[w] # Main => turn[w] \in jobs)
BY DEF IInv, RegistryInv, RegistryTypeOK, Turns

LEMMA TurnsKeptByOthers ==
    ASSUME IInv, UNCHANGED <<registryVars, turn, stopper>>
    PROVE  Turns'
BY DEF IInv, Turns, registryVars, callVars, initVars

(* The types of the registry, main and the coroutines in newService.       *)
LEMMA TurnsKeptByNewService ==
    ASSUME IInv, NEW s \in Service, NEW caller \in jobs \cup {Main}, NEW n \in Name,
           NewService(s, caller, n), UNCHANGED <<turn, stopper>>
    PROVE  Turns'
<1>1. UNCHANGED jobs /\ parent' = [parent EXCEPT ![s] = caller]
      /\ \A r \in Service : r # s => stage'[r] = stage[r]
  BY DEF IInv, NewService, To, initVars
<1>2. parent'[s] = caller /\ \A r \in Service : r # s => parent'[r] = parent[r]
  BY <1>1 DEF IInv, RegistryInv, RegistryTypeOK
<1>. QED  BY <1>1, <1>2 DEF IInv, Turns

LEMMA TurnsKeptByCreate ==
    ASSUME IInv, NEW s \in Service, Create(s), UNCHANGED stopper,
           turn' = turn \/ \E w \in Worker : turn' = [turn EXCEPT ![w] = Main]
    PROVE  Turns'
<1>1. UNCHANGED <<jobs, parent>>
  BY DEF Create, ReadCounter, WriteCounter, RegisterContext, RegisterService,
         RegisterFunc, SendInit, initVars
<1>2. \E st : stage' = [stage EXCEPT ![s] = st] /\ stage[s] \notin {"none", "done"}
  BY DEF Create, ReadCounter, WriteCounter, RegisterContext, RegisterService,
         RegisterFunc, SendInit, To
<1>3. \A r \in Service : stage'[r] \notin {"none", "done"} => stage[r] \notin {"none", "done"}
  BY <1>2 DEF IInv, RegistryInv, RegistryTypeOK
<1>4. /\ turn' \in [Worker -> jobs \cup {Main}]
      /\ \A v \in Worker : turn'[v] \in {turn[v], Main}
  BY DEF IInv, Turns
<1>. QED  BY <1>1, <1>3, <1>4 DEF IInv, Turns

(* The calls of main.                                                      *)
LEMMA KeptByMain ==
    ASSUME IInv, ~clashed', MainCreates
    PROVE  IInv'
<1>1. PICK s \in Service :
        \/ \E n \in Name : NewService(s, Main, n)
        \/ parent[s] = Main /\ (Create(s) \/ Return(s))
  BY DEF MainCreates, In
<1>2. UNCHANGED <<lifecycleVars, turn, stopper>>  BY DEF MainCreates
<1>3. LifecycleTypeOK'  BY <1>2, OthersTyped DEF IInv
<1>4. ASSUME NEW n \in Name, NewService(s, Main, n)  PROVE IInv'
  BY <1>2, <1>3, <1>4, KeptByNewService, TurnsKeptByNewService DEF IInv
<1>5. CASE Create(s)
  BY <1>2, <1>3, <1>5, KeptByCreate, TurnsKeptByCreate DEF IInv
<1>6. CASE parent[s] = Main /\ Return(s)
  <2>1. UNCHANGED <<jobs, parent>> /\ \A r \in Service : r # s => stage'[r] = stage[r]
    BY <1>6 DEF Return, To, initVars
  <2>2. Turns'  BY <1>2, <1>6, <2>1 DEF IInv, Turns
  <2>. QED  BY <1>3, <1>6, <2>2, KeptByReturn DEF IInv
<1>. QED  BY <1>1, <1>4, <1>5, <1>6

(* Steps that leave the registry alone.                                    *)
LEMMA KeptByLifecycle ==
    ASSUME IInv, \/ MainRuns
                 \/ \E t \in Thread : ThreadRuns(t)
                 \/ \E w \in Worker : CodeStops(w)
    PROVE  IInv'
<1>1. CASE MainRuns
  <2>1. LifecycleTypeOK'  BY <1>1, MainTyped DEF IInv, MainRuns
  <2>2. RegistryInv'  BY <1>1, KeptByOthers DEF IInv, MainRuns
  <2>. QED  BY <1>1, <2>1, <2>2, TurnsKeptByOthers DEF IInv, MainRuns
<1>2. ASSUME NEW t \in Thread, ThreadRuns(t)  PROVE IInv'
  <2>1. LifecycleTypeOK'  BY <1>2, ThreadTyped DEF IInv, ThreadRuns
  <2>2. RegistryInv'  BY <1>2, KeptByOthers DEF IInv, ThreadRuns
  <2>. QED  BY <1>2, <2>1, <2>2, TurnsKeptByOthers DEF IInv, ThreadRuns
<1>3. ASSUME NEW w \in Worker, CodeStops(w)  PROVE IInv'
  <2>1. LifecycleTypeOK'  BY <1>3, StopTyped DEF IInv, CodeStops
  <2>2. RegistryInv'  BY <1>3, KeptByOthers DEF IInv, CodeStops
  <2>3. Turns'
    BY <1>3 DEF CodeStops, IInv, Turns, registryVars, callVars, initVars
  <2>. QED  BY <2>1, <2>2, <2>3 DEF IInv
<1>. QED  BY <1>1, <1>2, <1>3

(* A worker takes an INIT packle, or an answer.                            *)
LEMMA KeptByTaking ==
    ASSUME IInv, NEW w \in Worker, TakesInit(w) \/ TakesAnswer(w)
    PROVE  IInv'
<1>1. UNCHANGED <<lifecycleVars, stopper>>  BY DEF TakesInit, TakesAnswer
<1>2. LifecycleTypeOK'  BY <1>1, OthersTyped DEF IInv
<1>3. CASE TakesInit(w)
  <2>1. PICK c \in Service, job \in (Service \cup {None}) \X Service :
          /\ ~Held(c) /\ BeginInit(c, job)
          /\ turn' = [turn EXCEPT ![w] = IF job \in jobs' THEN job ELSE Main]
    BY <1>3 DEF TakesInit
  <2>2. RegistryInv'  BY <2>1, KeptByBeginInit DEF IInv
  <2>3. /\ UNCHANGED <<stage, parent>> /\ jobs \subseteq jobs'
        /\ job = <<handler[c], Head(mail[c])>>
        /\ mail[c] # <<>>
    BY <2>1 DEF BeginInit, callVars
  <2>4. job[1] \in {None, c} /\ context[c] = c
    <3>1. mail[c] = <<c>>  BY <2>3 DEF IInv, RegistryInv, Sent
    <3>2. Waits(c)  BY <3>1 DEF IInv, RegistryInv, Sent
    <3>. QED  BY <2>3, <3>2 DEF IInv, RegistryInv, Own, Waits, Unregistered, Undrawn
  <2>5. job \in jobs' => job[1] = c
    <3>1. job \in jobs' => job \in Job  BY <2>2 DEF RegistryInv, RegistryTypeOK
    <3>. QED  BY <2>4, <3>1, Numbers DEF Job
  <2>6. turn'[w] \in jobs' \cup {Main} /\ \A v \in Worker : v # w => turn'[v] = turn[v]
    BY <2>1 DEF IInv, Turns
  <2>7. \A v \in Worker : v # w /\ turn[v] # Main => turn[v] # turn'[w]
    BY <2>1, <2>4, <2>5 DEF Held, IInv, Turns
  <2>8. turn' \in [Worker -> jobs' \cup {Main}]  BY <2>1, <2>3 DEF IInv, Turns
  <2>9. Turns'  BY <1>1, <2>3, <2>6, <2>7, <2>8 DEF IInv, Turns
  <2>. QED  BY <1>2, <2>2, <2>9 DEF IInv
<1>4. CASE TakesAnswer(w)
  <2>1. PICK s \in Service :
          /\ parent[s] # Main /\ ~Held(context[parent[s][1]]) /\ Return(s)
          /\ turn' = [turn EXCEPT ![w] = parent[s]]
    BY <1>4 DEF TakesAnswer
  <2>2. RegistryInv'  BY <2>1, KeptByReturn DEF IInv
  <2>3. /\ UNCHANGED <<jobs, parent>> /\ stage[s] = "answered" /\ stage'[s] = "done"
        /\ \A r \in Service : r # s => stage'[r] = stage[r]
    BY <2>1 DEF Return, To, initVars, IInv, RegistryInv, RegistryTypeOK
  <2>4. parent[s] \in jobs  BY <2>1, <2>3 DEF IInv, Turns
  <2>5. \A v \in Worker : turn[v] # parent[s]  BY <2>1 DEF Held
  <2>6. /\ turn' \in [Worker -> jobs' \cup {Main}] /\ turn'[w] = parent[s]
        /\ \A v \in Worker : v # w => turn'[v] = turn[v]
    BY <2>1, <2>3, <2>4 DEF IInv, Turns
  <2>7. Turns'  BY <1>1, <2>3, <2>5, <2>6 DEF IInv, Turns
  <2>. QED  BY <1>2, <2>2, <2>7 DEF IInv
<1>. QED  BY <1>3, <1>4

(* Code creates, goes on in newService, and removes.                       *)
LEMMA KeptByCode ==
    ASSUME IInv, ~clashed', NEW w \in Worker, CodeCreates(w) \/ CreateGoesOn(w) \/ CodeRemoves(w)
    PROVE  IInv'
<1>1. UNCHANGED <<lifecycleVars, stopper>>
  BY DEF CodeCreates, CreateGoesOn, CodeRemoves
<1>2. LifecycleTypeOK'  BY <1>1, OthersTyped DEF IInv
<1>3. CASE CodeCreates(w)
  <2>1. PICK s \in Service, n \in Name : NewService(s, turn[w], n)
    BY <1>3 DEF CodeCreates
  <2>2. RegistryInv'  BY <2>1, Turned, KeptByNewService DEF IInv
  <2>3. turn[w] \in jobs \cup {Main}  BY Turned
  <2>4. Turns'  BY <1>1, <1>3, <2>1, <2>3, TurnsKeptByNewService DEF CodeCreates
  <2>. QED  BY <1>2, <2>2, <2>4 DEF IInv
<1>4. CASE CreateGoesOn(w)
  <2>1. PICK s \in Service : Create(s)  BY <1>4 DEF CreateGoesOn
  <2>2. turn' = turn \/ turn' = [turn EXCEPT ![w] = Main]
    BY <1>4 DEF CreateGoesOn, IInv, Turns
  <2>3. RegistryInv' /\ Turns'
    BY <1>1, <2>1, <2>2, KeptByCreate, TurnsKeptByCreate DEF IInv
  <2>. QED  BY <1>2, <2>3 DEF IInv
<1>5. CASE CodeRemoves(w)
  <2>1. PICK i \in Service : RemoveService(i)
    BY <1>5, ApplicationAssumption DEF CodeRemoves
  <2>2. RegistryInv'  BY <2>1, KeptByRemoveService DEF IInv
  <2>3. Turns'
    BY <1>5, <2>1 DEF CodeRemoves, RemoveService, callVars, initVars, IInv, Turns
  <2>. QED  BY <1>2, <2>2, <2>3 DEF IInv
<1>. QED  BY <1>3, <1>4, <1>5

(* The coroutine of a service's init ends.                                 *)
LEMMA KeptByEnds ==
    ASSUME IInv, NEW w \in Worker, CodeEnds(w)
    PROVE  IInv'
<1>1. /\ turn[w] # Main /\ turn[w] \in Job /\ EndInit(turn[w])
      /\ turn' = [turn EXCEPT ![w] = Main] /\ UNCHANGED <<lifecycleVars, stopper>>
  BY Turned DEF CodeEnds, Runs
<1>2. LifecycleTypeOK'  BY <1>1, OthersTyped DEF IInv
<1>3. RegistryInv'  BY <1>1, KeptByEndInit DEF IInv
<1>4. PICK c \in Service : turn[w] = <<c, c>>
  BY <1>1 DEF IInv, RegistryInv, Sent, EndInit
<1>5. <<c, c>> \in jobs  BY <1>1, <1>4 DEF EndInit
<1>6. jobs' = jobs \ {turn[w]} /\ UNCHANGED parent  BY <1>1 DEF EndInit
<1>7. \A s \in Service : \/ stage'[s] = stage[s]
                         \/ stage[s] = "wait"
  <2>1. stage' = stage \/ (parent[c] # Main /\ stage' = [stage EXCEPT ![c] = "answered"])
    <3>1. turn[w][2] = c  BY <1>4
    <3>. QED  BY <1>1, <3>1 DEF EndInit, To
  <2>2. Waits(c)  BY <1>5 DEF IInv, RegistryInv, Sent
  <2>. QED  BY <2>1, <2>2 DEF Waits, IInv, RegistryInv, RegistryTypeOK
<1>8. \A s \in Service :
        parent[s] # Main /\ stage'[s] \notin {"none", "done"} => parent[s] \in jobs'
  <2>1. \A s \in Service : parent[s] = turn[w] => stage[s] \in {"none", "done"}
    BY DEF CodeEnds, Busy, In
  <2>. QED  BY <1>6, <1>7, <2>1 DEF IInv, Turns
<1>9. turn'[w] = Main /\ \A v \in Worker : v # w => turn'[v] = turn[v]
  BY <1>1 DEF IInv, Turns
<1>10. turn' \in [Worker -> jobs' \cup {Main}]
  <2>1. \A v \in Worker : turn'[v] \in jobs' \cup {Main}
    BY <1>1, <1>6, <1>9 DEF IInv, Turns
  <2>2. turn' = [v \in Worker |-> turn'[v]]  BY <1>1 DEF IInv, Turns
  <2>. QED  BY <2>1, <2>2
<1>11. Turns'  BY <1>1, <1>6, <1>8, <1>9, <1>10 DEF IInv, Turns
<1>. QED  BY <1>2, <1>3, <1>11 DEF IInv

-----------------------------------------------------------------------------
(* Once clashed, always clashed; and who does neither is never clashed.    *)
LEMMA Clashes ==
    ASSUME [Next]_vars
    PROVE  \/ clashed' = clashed
           \/ \E s, n \in Service : \E caller : NewService(s, caller, n)
           \/ \E s \in Service : ReadCounter(s)
<1>. DEFINE Clash ==
       \/ clashed' = clashed
       \/ \E s, n \in Service : \E caller : NewService(s, caller, n)
       \/ \E s \in Service : ReadCounter(s)
<1>1. ASSUME NEW s \in Service, Create(s)  PROVE Clash
  BY <1>1 DEF Create, WriteCounter, RegisterContext, RegisterService, RegisterFunc, SendInit
<1>2. CASE MainCreates
  BY <1>1, <1>2 DEF MainCreates, Return, Name
<1>3. CASE MainRuns \/ \E t \in Thread : ThreadRuns(t)
  BY <1>3 DEF MainRuns, ThreadRuns, registryVars, callVars
<1>4. ASSUME NEW w \in Worker, WorkerStep(w)  PROVE Clash
  <2>1. CASE TakesInit(w)  BY <2>1 DEF TakesInit, BeginInit, callVars
  <2>2. CASE TakesAnswer(w)  BY <2>2 DEF TakesAnswer, Return
  <2>3. CASE CodeCreates(w)  BY <2>3 DEF CodeCreates, Name
  <2>4. CASE CreateGoesOn(w)  BY <1>1, <2>4 DEF CreateGoesOn
  <2>5. CASE CodeRemoves(w)  BY <2>5 DEF CodeRemoves, RemoveService, callVars
  <2>6. CASE CodeStops(w)  BY <2>6 DEF CodeStops, registryVars, callVars
  <2>7. CASE CodeEnds(w)  BY <2>7 DEF CodeEnds, EndInit
  <2>. QED  BY <1>4, <2>1, <2>2, <2>3, <2>4, <2>5, <2>6, <2>7 DEF WorkerStep
<1>5. CASE UNCHANGED vars  BY <1>5 DEF vars, registryVars, callVars
<1>. QED  BY <1>2, <1>3, <1>4, <1>5 DEF Next

Sound == ~clashed => IInv

LEMMA Invariance == Spec => []Sound
<1>1. Init => Sound
  <2>1. SUFFICES ASSUME Init  PROVE IInv
    BY DEF Sound
  <2>2. RegistryInv  BY <2>1, RegistryStarts DEF Init
  <2>3. LifecycleTypeOK  BY <2>1, LifecycleStarts DEF Init
  <2>4. Turns  BY <2>1 DEF Init, RegistryInit, Turns
  <2>. QED  BY <2>2, <2>3, <2>4 DEF IInv
<1>2. Sound /\ [Next]_vars => Sound'
  <2>1. SUFFICES ASSUME Sound, [Next]_vars, ~clashed'  PROVE IInv'
    BY DEF Sound
  <2>a. ~clashed
    <3>1. ASSUME NEW s \in Service, NEW n \in Service, NEW caller, NewService(s, caller, n)
          PROVE  ~clashed
      BY <2>1, <3>1 DEF NewService
    <3>2. ASSUME NEW s \in Service, ReadCounter(s)  PROVE ~clashed
      BY <2>1, <3>2 DEF ReadCounter
    <3>. QED  BY <2>1, <3>1, <3>2, Clashes
  <2>b. IInv  BY <2>1, <2>a DEF Sound
  <2>2. CASE MainCreates  BY <2>1, <2>b, <2>2, KeptByMain
  <2>3. CASE MainRuns \/ \E t \in Thread : ThreadRuns(t)  BY <2>1, <2>b, <2>3, KeptByLifecycle
  <2>4. ASSUME NEW w \in Worker, WorkerStep(w)  PROVE IInv'
    <3>1. CASE TakesInit(w) \/ TakesAnswer(w)  BY <2>1, <2>b, <3>1, KeptByTaking
    <3>2. CASE CodeCreates(w) \/ CreateGoesOn(w) \/ CodeRemoves(w)
      BY <2>1, <2>b, <3>2, KeptByCode
    <3>3. CASE CodeStops(w)  BY <2>1, <2>b, <3>3, KeptByLifecycle
    <3>4. CASE CodeEnds(w)  BY <2>1, <2>b, <3>4, KeptByEnds
    <3>. QED  BY <2>4, <3>1, <3>2, <3>3, <3>4 DEF WorkerStep
  <2>5. CASE UNCHANGED vars
    <3>1. RegistryInv'  BY <2>1, <2>b, <2>5, KeptByOthers DEF IInv, vars
    <3>2. LifecycleTypeOK'  BY <2>1, <2>b, <2>5, OthersTyped DEF IInv, vars
    <3>3. Turns'  BY <2>1, <2>b, <2>5, TurnsKeptByOthers DEF vars
    <3>. QED  BY <3>1, <3>2, <3>3 DEF IInv
  <2>. QED  BY <2>1, <2>b, <2>2, <2>3, <2>4, <2>5 DEF Next
<1>. QED  BY <1>1, <1>2, PTL DEF Spec

LEMMA NeverClashed ==
    ASSUME Careful
    PROVE  Spec => []~clashed
<1>1. Init => ~clashed  BY DEF Init, RegistryInit
<1>2. ~clashed /\ [Next]_vars => ~clashed'
  <2>1. SUFFICES ASSUME ~clashed, [Next]_vars  PROVE ~clashed'
    OBVIOUS
  <2>2. ASSUME NEW s \in Service, NEW n \in Service, NEW caller, NewService(s, caller, n)
        PROVE  ~clashed'
    BY <2>1, <2>2 DEF NewService, Careful
  <2>3. ASSUME NEW s \in Service, ReadCounter(s)  PROVE ~clashed'
    BY <2>1, <2>3 DEF ReadCounter, Careful
  <2>. QED  BY <2>1, <2>2, <2>3, Clashes
<1>. QED  BY <1>1, <1>2, PTL DEF Spec

(* Every variable keeps its type; of the counter it says that it counts    *)
(* the contexts, of a worker's turn that it is a coroutine that has begun  *)
(* and not ended.                                                          *)
THEOREM TypeCorrect ==
    ASSUME Careful
    PROVE  Spec => []TypeOK
<1>1. IInv => TypeOK  BY DEF IInv, RegistryInv, Turns, TypeOK
<1>2. ~clashed /\ Sound => TypeOK  BY <1>1 DEF Sound
<1>. QED  BY <1>2, Invariance, NeverClashed, PTL

(* The three maps agree in every state of every behaviour, until a name in *)
(* use is given or two calls draw an id at once (application.h:25-26,      *)
(* application.cc:63-80, serviceContextMgr.cc).                            *)
THEOREM Agreement == Spec => []MapsAgree
<1>1. Sound => MapsAgree
  <2>1. SUFFICES ASSUME IInv, ~clashed  PROVE MapsAgree
    BY DEF Sound, MapsAgree
  <2>2. ASSUME NEW n \in Name, named[n] # None
        PROVE  name[named[n]] = n /\ idOf[named[n]] # 0 /\ byId[idOf[named[n]]] = named[n]
    <3>1. NamedOf(n) /\ named[n] \in Service
      BY <2>1, <2>2 DEF IInv, RegistryInv, RegistryTypeOK, NamedMap
    <3>. QED  BY <2>1, <3>1 DEF NamedOf, IInv, RegistryInv, Ids, Unregistered
  <2>3. ASSUME NEW i \in Service, byId[i] # None
        PROVE  idOf[byId[i]] = i /\ named[name[byId[i]]] = byId[i]
    BY <2>1, <2>3 DEF IInv, RegistryInv, ByIdMap, ByIdOf
  <2>4. ASSUME NEW i \in Service, services[i] # None
        PROVE  /\ byId[i] = context[services[i]] /\ context[services[i]] # None
               /\ stage[services[i]] # "bind" => handler[context[services[i]]] = services[i]
    <3>1. ServicesOf(i) /\ services[i] \in Service
      BY <2>1, <2>4 DEF IInv, RegistryInv, RegistryTypeOK, ServicesMap
    <3>2. context[services[i]] = services[i]
      BY <2>1, <3>1 DEF ServicesOf, IInv, RegistryInv, Own
    <3>. QED  BY <3>1, <3>2, Numbers DEF ServicesOf
  <2>. QED  BY <2>2, <2>3, <2>4 DEF MapsAgree
<1>. QED  BY <1>1, Invariance, PTL

(* Starting, joining and leaving.                                          *)

\* How far main and the threads have come, by where main is.
Phases ==
    /\ \A t \in Thread : state[t] = "INIT" <=> thread[t] \in {"none", "created"}
    /\ main.at = "main" => \A t \in Thread : thread[t] = "none"
    /\ main.at \in {"start", "wait"} =>
         /\ main.k \in Thread
         /\ \A t \in Thread : t < main.k => thread[t] # "none"
         /\ \A t \in Thread : t > main.k => thread[t] = "none"
    /\ main.at = "start" => thread[main.k] = "none"
    /\ main.at = "wait" => thread[main.k] # "none"
    /\ main.at = "join" =>
         /\ main.k \in 1..(Workers + 3)
         /\ \A t \in Thread : thread[t] # "none"
         /\ \A j \in 1..(Workers + 3) : j < main.k => thread[JoinOrder[j]] = "ended"
    /\ main.at \in {"destroy", "exited"} =>
         \/ \A t \in Thread : thread[t] = "none"
         \/ \A t \in Thread : thread[t] = "ended"

Lives == LifecycleTypeOK /\ Phases /\ OnlyUnstartedFail

(* Main joins every thread.                                                *)
LEMMA Joined ==
    /\ Len(JoinOrder) = Workers + 3
    /\ \A j \in 1..(Workers + 3) : JoinOrder[j] \in Thread
    /\ \A t \in Thread : \E j \in 1..(Workers + 3) : JoinOrder[j] = t
<1>. USE Threads
<1>1. /\ Len(JoinOrder) = Workers + 3
      /\ \A j \in 1..(Workers + 3) :
           JoinOrder[j] = IF j = 1 THEN TimeT ELSE IF j = 2 THEN SockT
                          ELSE IF j = Workers + 3 THEN LogT ELSE j - 1
  <2>1. DEFINE w == [i \in 1..Workers |-> i + 1]
  <2>2. w \in Seq(Nat) /\ Len(w) = Workers  OBVIOUS
  <2>3. <<TimeT, SockT>> \in Seq(Nat) /\ <<LogT>> \in Seq(Nat)  OBVIOUS
  <2>. QED  BY <2>2, <2>3 DEF JoinOrder
<1>2. \A t \in Thread : \E j \in 1..(Workers + 3) : JoinOrder[j] = t
  <2>1. TAKE t \in Thread
  <2>2. CASE t = TimeT
    <3>1. JoinOrder[1] = TimeT  BY <1>1
    <3>. QED  BY <2>2, <3>1
  <2>3. CASE t = SockT
    <3>1. JoinOrder[2] = SockT  BY <1>1
    <3>. QED  BY <2>3, <3>1
  <2>4. CASE t = LogT
    <3>1. JoinOrder[Workers + 3] = LogT  BY <1>1
    <3>. QED  BY <2>4, <3>1
  <2>5. CASE t \in 2..(Workers + 1)
    <3>1. /\ t + 1 \in 1..(Workers + 3)
          /\ t + 1 # 1 /\ t + 1 # 2 /\ t + 1 # Workers + 3 /\ (t + 1) - 1 = t
      BY <2>5
    <3>2. JoinOrder[t + 1] = (t + 1) - 1  BY <1>1, <3>1
    <3>. QED  BY <3>1, <3>2
  <2>. QED  BY <2>2, <2>3, <2>4, <2>5
<1>3. \A j \in 1..(Workers + 3) : JoinOrder[j] \in Thread
  <2>1. TAKE j \in 1..(Workers + 3)
  <2>. QED  BY <1>1
<1>. QED  BY <1>1, <1>2, <1>3

(* Main starts the threads one by one, whether or not they have begun, and *)
(* joins each, so that none is left when it comes to the destructors.      *)
LEMMA LivesOnWithMain ==
    ASSUME Lives, MainStep
    PROVE  Lives'
<1>. USE Threads DEF Lives, LifecycleTypeOK, Phases
<1>1. LifecycleTypeOK'  BY MainTyped
<1>2. CASE Run
  <2>1. main.at = "main" /\ ~failed /\ UNCHANGED <<state, thread, failed>>
    BY <1>2 DEF Run
  <2>2. \/ main'.at = "start" /\ main'.k = 1
        \/ main'.at = "destroy"
    BY <1>2 DEF Run
  <2>. QED  BY <1>1, <2>1, <2>2 DEF OnlyUnstartedFail
<1>3. ASSUME NEW t \in Thread, StartThread(t)  PROVE Lives'
  BY <1>1, <1>3 DEF StartThread, OnlyUnstartedFail
<1>4. ASSUME NEW t \in Thread, Started(t)  PROVE Lives'
  <2>1. main.at = "wait" /\ main.k = t /\ ~failed /\ UNCHANGED <<state, thread, failed>>
    BY <1>4 DEF Started
  <2>2. thread[t] # "none"  BY <2>1
  <2>3. CASE t = TimeT
    <3>1. main'.at = "join" /\ main'.k = 1  BY <1>4, <2>3 DEF Started
    <3>2. \A r \in Thread : thread[r] # "none"  BY <2>1, <2>2, <2>3
    <3>. QED  BY <1>1, <2>1, <3>1, <3>2 DEF OnlyUnstartedFail
  <2>4. CASE t # TimeT
    <3>1. main'.at = "start" /\ main'.k = t + 1  BY <1>4, <2>4 DEF Started
    <3>2. t + 1 \in Thread  BY <2>4
    <3>3. \A r \in Thread : (r < t + 1 => thread[r] # "none") /\ (r > t => thread[r] = "none")
      BY <2>1, <2>2
    <3>. QED  BY <1>1, <2>1, <3>1, <3>2, <3>3 DEF OnlyUnstartedFail
  <2>. QED  BY <2>3, <2>4
<1>5. CASE Join
  <2>1. DEFINE t == JoinOrder[main.k]
  <2>2. /\ main.at = "join" /\ main.k \in 1..(Workers + 3) /\ ~failed
        /\ \A r \in Thread : thread[r] # "none"
    BY <1>5 DEF Join
  <2>3. t \in Thread  BY <2>2, Joined
  <2>4. CASE state[t] = "INIT"
    <3>1. thread[t] = "created"  BY <2>2, <2>3, <2>4
    <3>2. UNCHANGED <<main, state, thread>>  BY <1>5, <2>4 DEF Join
    <3>. QED  BY <1>1, <2>2, <3>1, <3>2 DEF OnlyUnstartedFail
  <2>5. CASE state[t] # "INIT"
    <3>1. /\ thread[t] = "ended" /\ state' = [state EXCEPT ![t] = "STOPPED"]
          /\ main' = IF main.k = Workers + 3 THEN [at |-> "destroy", k |-> 1]
                                             ELSE [main EXCEPT !.k = main.k + 1]
          /\ UNCHANGED <<failed, thread>>
      BY <1>5, <2>5, Joined DEF Join
    <3>2. \A r \in Thread : state'[r] = "INIT" <=> thread[r] \in {"none", "created"}
      BY <2>3, <3>1
    <3>3. \A j \in 1..(Workers + 3) : j <= main.k => thread[JoinOrder[j]] = "ended"
      BY <2>2, <3>1
    <3>4. CASE main.k = Workers + 3
      <4>1. \A r \in Thread : thread[r] = "ended"  BY <3>3, <3>4, Joined
      <4>2. main'.at = "destroy"  BY <3>1, <3>4
      <4>. QED  BY <1>1, <2>2, <3>1, <3>2, <4>1, <4>2 DEF OnlyUnstartedFail
    <3>5. CASE main.k # Workers + 3
      <4>1. main'.at = "join" /\ main'.k = main.k + 1  BY <2>2, <3>1, <3>5
      <4>2. main.k + 1 \in 1..(Workers + 3)  BY <2>2, <3>5
      <4>3. \A j \in 1..(Workers + 3) : j < main.k + 1 => thread[JoinOrder[j]] = "ended"
        BY <2>2, <3>3
      <4>. QED  BY <1>1, <2>2, <3>1, <3>2, <4>1, <4>2, <4>3 DEF OnlyUnstartedFail
    <3>. QED  BY <3>4, <3>5
  <2>. QED  BY <2>4, <2>5
<1>6. CASE Destroy
  <2>1. \A t \in Thread : state'[t] = state[t] \/ (state[t] # "INIT" /\ state'[t] = "STOPPED")
    BY <1>6 DEF Destroy
  <2>2. (\A t \in Thread : state[t] # "INIT") => UNCHANGED failed
    BY <1>6 DEF Destroy
  <2>3. main.at = "destroy" /\ main'.at = "destroy" /\ UNCHANGED thread
    BY <1>6 DEF Destroy
  <2>4. \A t \in Thread : state'[t] = "INIT" <=> thread'[t] \in {"none", "created"}
    BY <2>1, <2>3
  <2>5. CASE \A t \in Thread : thread[t] = "none"
    BY <1>1, <2>3, <2>4, <2>5 DEF OnlyUnstartedFail
  <2>6. CASE \A t \in Thread : thread[t] = "ended"
    <3>1. UNCHANGED failed  BY <2>2, <2>6
    <3>2. ~failed  BY <1>6 DEF Destroy
    <3>. QED  BY <1>1, <2>3, <2>4, <2>6, <3>1, <3>2 DEF OnlyUnstartedFail
  <2>. QED  BY <2>3, <2>5, <2>6
<1>7. CASE DestroyApplication
  <2>1. /\ main.at = "destroy" /\ main'.at \in {"destroy", "exited"} /\ ~failed
        /\ UNCHANGED <<state, thread, failed>>
    BY <1>7 DEF DestroyApplication
  <2>. QED  BY <1>1, <2>1 DEF OnlyUnstartedFail
<1>. QED  BY <1>2, <1>3, <1>4, <1>5, <1>6, <1>7 DEF MainStep

LEMMA LivesOnWithThreads ==
    ASSUME Lives, NEW t \in Thread, ThreadStep(t)
    PROVE  Lives'
<1>1. LifecycleTypeOK'  BY ThreadTyped DEF Lives
<1>2. main' = main /\ ~failed /\ failed' = failed
  BY DEF ThreadStep, Begin, Enter, End, Alive
<1>3. /\ thread[t] # "none" /\ thread[t] # "ended"
      /\ \A r \in Thread : r # t => thread'[r] = thread[r] /\ state'[r] = state[r]
      /\ thread'[t] \notin {"none", "created"} /\ state'[t] # "INIT"
  BY DEF Lives, LifecycleTypeOK, Phases, ThreadStep, Begin, Enter, End
<1>4. \A r \in Thread :
        /\ thread'[r] = "none" <=> thread[r] = "none"
        /\ thread[r] = "ended" => thread'[r] = "ended"
  BY <1>3
<1>5. Phases'
  <2>1. \A r \in Thread : state'[r] = "INIT" <=> thread'[r] \in {"none", "created"}
    BY <1>3 DEF Lives, Phases
  <2>2. \A j \in 1..(Workers + 3) : JoinOrder[j] \in Thread  BY Joined
  <2>3. main.at \in {"start", "wait"} =>
          /\ main.k \in Thread
          /\ \A r \in Thread : r < main.k => thread'[r] # "none"
          /\ \A r \in Thread : r > main.k => thread'[r] = "none"
    BY <1>4 DEF Lives, Phases
  <2>4. /\ main.at = "main" => \A r \in Thread : thread'[r] = "none"
        /\ main.at = "start" => thread'[main.k] = "none"
        /\ main.at = "wait" => thread'[main.k] # "none"
    BY <1>4 DEF Lives, Phases
  <2>5. main.at = "join" =>
          /\ main.k \in 1..(Workers + 3)
          /\ \A r \in Thread : thread'[r] # "none"
          /\ \A j \in 1..(Workers + 3) : j < main.k => thread'[JoinOrder[j]] = "ended"
    BY <1>4, <2>2 DEF Lives, Phases
  <2>6. main.at \notin {"destroy", "exited"}  BY <1>3 DEF Lives, Phases
  <2>. QED  BY <1>2, <2>1, <2>3, <2>4, <2>5, <2>6 DEF Phases
<1>. QED  BY <1>1, <1>2, <1>5 DEF Lives, OnlyUnstartedFail

LEMMA LivesOnWithOthers ==
    ASSUME Lives, ClearFlag \/ UNCHANGED lifecycleVars
    PROVE  Lives'
<1>1. LifecycleTypeOK'  BY StopTyped, OthersTyped DEF Lives
<1>2. UNCHANGED <<main, state, thread, failed>>  BY DEF ClearFlag, lifecycleVars
<1>. QED  BY <1>1, <1>2 DEF Lives, Phases, OnlyUnstartedFail

LEMMA LifeInvariance == Spec => []Lives
<1>1. Init => Lives
  <2>1. SUFFICES ASSUME Init  PROVE Lives
    OBVIOUS
  <2>2. LifecycleTypeOK  BY <2>1, LifecycleStarts DEF Init
  <2>3. main.at = "main" /\ \A t \in Thread : state[t] = "INIT" /\ thread[t] = "none"
    BY <2>1 DEF Init, LifecycleInit, Main0
  <2>4. ~failed  BY <2>1 DEF Init, LifecycleInit
  <2>. QED  BY <2>2, <2>3, <2>4 DEF Lives, Phases, OnlyUnstartedFail
<1>2. Lives /\ [Next]_vars => Lives'
  <2>1. SUFFICES ASSUME Lives, [Next]_vars  PROVE Lives'
    OBVIOUS
  <2>2. CASE MainRuns  BY <2>1, <2>2, LivesOnWithMain DEF MainRuns
  <2>3. ASSUME NEW t \in Thread, ThreadRuns(t)  PROVE Lives'
    BY <2>1, <2>3, LivesOnWithThreads DEF ThreadRuns
  <2>4. CASE MainCreates  BY <2>1, <2>4, LivesOnWithOthers DEF MainCreates
  <2>5. ASSUME NEW w \in Worker, WorkerStep(w)  PROVE Lives'
    BY <2>1, <2>5, LivesOnWithOthers
       DEF WorkerStep, TakesInit, TakesAnswer, CodeCreates, CreateGoesOn, CodeRemoves,
           CodeStops, CodeEnds
  <2>6. CASE UNCHANGED vars  BY <2>1, <2>6, LivesOnWithOthers DEF vars
  <2>. QED  BY <2>1, <2>2, <2>3, <2>4, <2>5, <2>6 DEF Next
<1>. QED  BY <1>1, <1>2, PTL DEF Spec

(* Nothing but a thread that was joined before it had set its state, or    *)
(* destroyed and never started, ends a process before its time, however    *)
(* slow the threads, whenever stop is called and whichever singletons it   *)
(* constructs (thread.cc:17-31, timerThread.cc:7-19, socketThread.cc:9-21).*)
THEOREM AssertionsHold == Spec => []OnlyUnstartedFail
<1>1. Lives => OnlyUnstartedFail  BY DEF Lives
<1>. QED  BY <1>1, LifeInvariance, PTL

(* All threads have ended when the destructors begin, unless none was ever *)
(* started, whenever stop is called (application.cc:35-38).                *)
THEOREM AllJoined == Spec => []NoThreadLeft
<1>1. Lives => NoThreadLeft  BY DEF Lives, Phases, NoThreadLeft
<1>. QED  BY <1>1, LifeInvariance, PTL
=============================================================================
