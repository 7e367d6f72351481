--------------------------- MODULE DispatchProofs ---------------------------
(***************************************************************************)
(* Proofs about Dispatch, for any services, coroutines, sessions and calls *)
(* of the API: coroutines are where the assertions of the code want them,  *)
(* and one in a free queue is nowhere else; if one service uses timers     *)
(* (addTimer takes no lock), callbacks of repeating timers neither call    *)
(* nor sleep, and no timer is removed while its callback is under way.     *)
(*                                                                         *)
(* The invariant tells for each place where a coroutine can be (forkQ,     *)
(* pool, timers, run) its state there, and which places exclude each       *)
(* other: all do, but that a coroutine resumed by a one-shot timer stays   *)
(* in timers until it is back in the loop, whatever it does meanwhile.     *)
(***************************************************************************)
EXTENDS Dispatch, SequenceTheorems, TLAPS

\* What the runs with timers keep to, too.
OneTimerUser == \A s, t \in TimerUsers : s = t
Refrains == {"quickLoops", "removeIdle"} \subseteq Rules

Senders == Services \cup {Main}
Packles == [kind : {"msg", "odd", "ret", "timer"}, src : Senders, sid : Nat, re : Nat]
Answer  == [kind : {"none", "ret"}, src : Senders, sid : Nat, re : Nat]
Reasons == [what : {"nothing", "reply", "timer"}, n : Nat]
States  == {"INIT", "RUNNING", "SUSPENDED", "STOPPED"}
Coroutines ==
    [state : States, job : {"none", "handler", "fork", "once", "loop"}, sid : Nat,
     rsid : Nat, rsrc : Senders, req : Nat, replied : BOOLEAN, tid : Nat,
     wants : Reasons, got : Reasons]
Resumptions ==
    [cor : Cors \cup {NoCor}, by : {"none", "fork", "timer", "ret", "msg"},
     tid : Nat, loop : BOOLEAN]
Additions ==
    [at : {"no", "suspend", "store", "key"}, op : {"call", "sleep", "once", "loop"},
     session : Nat, val : Nat]
Entries  == [cor : Cors, loop : BOOLEAN, pending : Nat]
Expiries == [serv : Services, session : Nat, id : Nat, cor : Cors, loop : BOOLEAN]

\* Types of what dispatch and doFork keep ...
Kept ==
    /\ mail \in [Services -> Seq(Packles)]
    /\ run \in [Services -> Resumptions]
    /\ co \in [Cors -> Coroutines]
    /\ made \in 0..MaxCors
    /\ free \in [Cors -> Nat]
    /\ retp \in [Services -> Answer]
    /\ used \in [Ops -> Nat]

\* ... and of what holds coroutines.
Holding ==
    /\ forkQ \in [Services -> Seq(Cors)]
    /\ DOMAIN pool = Services
    /\ \A s \in Services :
         DOMAIN pool[s] \subseteq Sids /\ pool[s] \in [DOMAIN pool[s] -> Cors]
    /\ DOMAIN timers = Services
    /\ \A s \in Services :
         DOMAIN timers[s] \subseteq Nat /\ timers[s] \in [DOMAIN timers[s] -> Entries]
    /\ wheel \subseteq Expiries
    /\ lastId \in Nat
    /\ within \in [Services -> Additions]

\* Ids grow, and addTimer puts none over another.
Adding ==
    /\ \A s \in Services :
         /\ \A id \in DOMAIN timers[s] : id \in 1..lastId
         /\ within[s].at \in {"store", "key"} => s \in TimerUsers
         /\ within[s].at = "store" => within[s].val = lastId
         /\ within[s].at = "key" =>
              lastId > 0 /\ \A id \in DOMAIN timers[s] : id < lastId
    /\ \A t \in wheel : t.id \in 1..lastId

Types == Kept /\ Holding /\ Adding

\* The places where a coroutine can be.
ForkedIn(s, c) == \E i \in 1..Len(forkQ[s]) : forkQ[s][i] = c
PooledIn(s, c) == \E sid \in DOMAIN pool[s] : pool[s][sid] = c
TimedAt(s, id, c) == id \in DOMAIN timers[s] /\ timers[s][id].cor = c
TimedIn(s, c) == \E id \in DOMAIN timers[s] : timers[s][id].cor = c
Runs(s, c) == run[s].cor = c
HeldIn(s, c) == ForkedIn(s, c) \/ PooledIn(s, c) \/ TimedIn(s, c) \/ Runs(s, c)

\* The entry that is erased when the coroutine it resumed is back.
Doomed(s, id) == run[s].by = "timer" /\ ~run[s].loop /\ run[s].tid = id

\* One service holds a coroutine, and only one that was made and is not free.
Belongs == \A c \in Cors : \A s, t \in Services : HeldIn(s, c) /\ HeldIn(t, c) => s = t
Made    == \A c \in Cors : \A s \in Services : HeldIn(s, c) => c <= made
Freed   == \A c \in Cors : free[c] > 0 =>
    /\ free[c] = 1 /\ c <= made /\ co[c].state # "RUNNING"
    /\ \A s \in Services : ~HeldIn(s, c)

\* What is in forkQ has not begun, and is nowhere else.
ForksOk(s) ==
    /\ \A i, j \in 1..Len(forkQ[s]) : forkQ[s][i] = forkQ[s][j] => i = j
    /\ \A c \in Cors : ForkedIn(s, c) =>
         co[c].state = "INIT" /\ ~PooledIn(s, c) /\ ~TimedIn(s, c) /\ ~Runs(s, c)

\* What is in pool is suspended, under one session; it has no timer but the one
\* that resumed it.
PoolOk(s) ==
    /\ \A x, y \in DOMAIN pool[s] : pool[s][x] = pool[s][y] => x = y
    /\ \A c \in Cors : PooledIn(s, c) => co[c].state = "SUSPENDED"
    /\ \A c \in Cors, id \in Nat : PooledIn(s, c) /\ TimedAt(s, id, c) => Doomed(s, id)

\* What waits for a timer has one only and has not ended.
TimersOk(s) ==
    /\ \A id \in DOMAIN timers[s] : timers[s][id].loop <=> co[timers[s][id].cor].job = "loop"
    /\ \A id \in DOMAIN timers[s] : ~Doomed(s, id) =>
         /\ co[timers[s][id].cor].state # "STOPPED"
         /\ co[timers[s][id].cor].state = "RUNNING" => co[timers[s][id].cor].job = "loop"
    /\ \A x, y \in DOMAIN timers[s] : ~Doomed(s, x) /\ ~Doomed(s, y) =>
         (timers[s][x].cor = timers[s][y].cor => x = y)

\* The timer that resumed what runs is there, as long as it does.
RunOk(s) ==
    /\ run[s].by = "timer" => run[s].cor # NoCor
    /\ \A id \in Nat : Doomed(s, id) => TimedAt(s, id, run[s].cor)

\* call and addTimer are called by what runs; the callback of a repeating timer
\* neither calls nor sleeps; the session of a call is not in pool yet.
AddOk(s) ==
    within[s].at # "no" =>
      /\ run[s].cor # NoCor /\ co[run[s].cor].state = "RUNNING"
      /\ within[s].op \in {"call", "sleep"} => co[run[s].cor].job # "loop"
      /\ within[s].at = "suspend" =>
           within[s].op = "call" /\ within[s].session \in Sids \ DOMAIN pool[s]

PlacesOk(s) == ForksOk(s) /\ PoolOk(s) /\ TimersOk(s) /\ RunOk(s) /\ AddOk(s)

Places == Belongs /\ Made /\ Freed /\ \A s \in Services : PlacesOk(s)
IInv == Types /\ Places

-----------------------------------------------------------------------------
(* Helpers of the actions.                                                 *)

LEMMA MainIs == Main \in Senders /\ Services \subseteq Senders
  BY DEF Senders

LEMMA ReasonsAre ==
    ASSUME NEW n \in Nat
    PROVE  Nothing \in Reasons /\ Reply(n) \in Reasons /\ Tick(n) \in Reasons
  BY DEF Nothing, Reply, Tick, Reasons

LEMMA NewCorIs ==
    ASSUME NEW job \in {"none", "handler", "fork", "once", "loop"}
    PROVE  NewCor(job) \in Coroutines /\ NewCor(job).state = "INIT" /\ NewCor(job).job = job
  BY MainIs, ReasonsAre DEF NewCor, Coroutines, States

LEMMA StoppedIs ==
    ASSUME NEW c \in Coroutines
    PROVE  Stopped(c) \in Coroutines /\ Stopped(c).state = "STOPPED" /\ Stopped(c).job = "none"
<1>1. NewCor("none") \in Coroutines
  BY NewCorIs
<1>2. c.sid \in Nat /\ c.rsid \in Nat /\ c.rsrc \in Senders
  BY DEF Coroutines
<1> QED BY <1>1, <1>2 DEF Stopped, NewCor, Coroutines, States

LEMMA NotRunningIs ==
    NotRunning \in Resumptions /\ NotRunning.cor = NoCor /\ NotRunning.by = "none"
  BY DEF NotRunning, Resumptions

LEMMA NotWithinIs == NotWithin \in Additions /\ NotWithin.at = "no"
  BY DEF NotWithin, Additions

LEMMA NoPackleIs == NoPackle \in Answer
  BY MainIs DEF NoPackle, Packle, Answer

LEMMA PackleIs ==
    ASSUME NEW kind \in {"msg", "odd", "ret", "timer"}, NEW src \in Senders,
           NEW sid \in Nat, NEW re \in Nat
    PROVE  /\ Packle(kind, src, sid, re) \in Packles
           /\ kind = "ret" => Packle(kind, src, sid, re) \in Answer
  BY DEF Packle, Packles, Answer

LEMMA GetCoroutineIs ==
    ASSUME Kept, NEW c \in Cors, GetCoroutine(c)
    PROVE  /\ made' \in 0..MaxCors /\ made' >= made /\ c <= made'
           /\ free' \in [Cors -> Nat]
           /\ \A f \in Cors : f # c => free'[f] = free[f]
           /\ free[c] > 0 \/ c = made + 1
           /\ c > made => free'[c] = 0
           /\ c <= made => free'[c] = free[c] - 1
  BY DispatchAssumption DEF Kept, Cors, GetCoroutine

LEMMA UseIs ==
    ASSUME Kept, NEW op \in Ops, Use(op)
    PROVE  used' \in [Ops -> Nat]
  BY DEF Kept, Use

LEMMA PushIs ==
    ASSUME Kept, NEW s \in Services, NEW p \in Packles, Push(s, p)
    PROVE  mail' \in [Services -> Seq(Packles)]
  BY DEF Kept, Push

\* The packle that dispatch pops.
LEMMA OldestIs ==
    ASSUME Kept, NEW s \in Services, NEW p \in Oldest(s)
    PROVE  p \in Packles /\ Popped(s) \in [Services -> Seq(Packles)]
<1>1. mail[s] \in Seq(Packles) /\ mail[s] # <<>> /\ p = Head(mail[s])
  BY DEF Kept, Oldest
<1>2. Head(mail[s]) \in Packles /\ Tail(mail[s]) \in Seq(Packles)
  BY <1>1
<1> QED BY <1>1, <1>2 DEF Kept, Popped

LEMMA RetIs ==
    ASSUME Kept, NEW s \in Services, NEW dest, NEW box \in [Services -> Seq(Packles)],
           Ret(s, dest, box)
    PROVE  mail' \in [Services -> Seq(Packles)] /\ retp' \in [Services -> Answer]
<1>1. retp[s] \in Answer /\ retp[s].sid \in Nat /\ retp[s].re \in Nat
  BY DEF Kept, Answer
<1>2. Packle("ret", s, retp[s].sid, retp[s].re) \in Packles
  BY <1>1, PackleIs, MainIs
<1>3. retp' \in [Services -> Answer]
  BY NoPackleIs DEF Kept, Ret
<1>4. mail' \in [Services -> Seq(Packles)]
  BY <1>2 DEF Ret
<1> QED BY <1>3, <1>4
-----------------------------------------------------------------------------
(* Types.                                                                  *)

\* Fields of a coroutine that actions change.
LEMMA FieldsAre ==
    ASSUME NEW k \in Coroutines, NEW st \in States, NEW r \in Reasons, NEW n \in Nat
    PROVE  /\ [k EXCEPT !.state = st] \in Coroutines
           /\ [k EXCEPT !.state = st, !.got = r] \in Coroutines
           /\ [k EXCEPT !.state = st, !.wants = r] \in Coroutines
           /\ [k EXCEPT !.sid = n, !.state = st, !.wants = r] \in Coroutines
           /\ [k EXCEPT !.replied = TRUE] \in Coroutines
  BY DEF Coroutines

LEMMA StateIs ==
    ASSUME co \in [Cors -> Coroutines], NEW c \in Cors, NEW st \in States
    PROVE  [co EXCEPT ![c].state = st] \in [Cors -> Coroutines]
<1>1. co[c] \in Coroutines /\ Nothing \in Reasons
  BY ReasonsAre
<1> QED BY <1>1, FieldsAre

LEMMA GotIs ==
    ASSUME co \in [Cors -> Coroutines], NEW c \in Cors, NEW st \in States, NEW r \in Reasons
    PROVE  [co EXCEPT ![c].state = st, ![c].got = r] \in [Cors -> Coroutines]
<1>1. co[c] \in Coroutines
  OBVIOUS
<1> QED BY <1>1, FieldsAre

LEMMA WantsIs ==
    ASSUME co \in [Cors -> Coroutines], NEW c \in Cors, NEW st \in States, NEW r \in Reasons
    PROVE  [co EXCEPT ![c].state = st, ![c].wants = r] \in [Cors -> Coroutines]
<1>1. co[c] \in Coroutines
  OBVIOUS
<1> QED BY <1>1, FieldsAre

LEMMA SidIs ==
    ASSUME co \in [Cors -> Coroutines], NEW c \in Cors, NEW st \in States, NEW r \in Reasons,
           NEW n \in Nat
    PROVE  [co EXCEPT ![c].sid = n, ![c].state = st, ![c].wants = r] \in [Cors -> Coroutines]
<1>1. co[c] \in Coroutines
  OBVIOUS
<1> QED BY <1>1, FieldsAre

LEMMA RepliedIs ==
    ASSUME co \in [Cors -> Coroutines], NEW c \in Cors
    PROVE  [co EXCEPT ![c].replied = TRUE] \in [Cors -> Coroutines]
<1>1. co[c] \in Coroutines /\ Nothing \in Reasons
  BY ReasonsAre
<1>2. co[c].state \in States
  BY <1>1 DEF Coroutines
<1> QED BY <1>1, <1>2, FieldsAre

LEMMA AddingStays ==
    ASSUME Adding, UNCHANGED <<lastId, within>>, wheel' \subseteq wheel,
           \A s \in Services : DOMAIN timers'[s] \subseteq DOMAIN timers[s]
    PROVE  Adding'
  BY DEF Adding

LEMMA ResumeForkTypes ==
    ASSUME Types, NEW s \in Services, ResumeFork(s)
    PROVE  Types'
<1> DEFINE c == Head(forkQ[s])
<1>1. c \in Cors /\ Tail(forkQ[s]) \in Seq(Cors)
  BY DEF Types, Holding, ResumeFork
<1>2. co' \in [Cors -> Coroutines]
  BY <1>1, StateIs DEF Types, Kept, ResumeFork, States
<1>3. [NotRunning EXCEPT !.cor = c, !.by = "fork"] \in Resumptions
  BY <1>1, NotRunningIs DEF Resumptions
<1>4. Kept'
  BY <1>2, <1>3 DEF Types, Kept, ResumeFork
<1>5. Holding'
  BY <1>1 DEF Types, Holding, ResumeFork, timerVars
<1>6. Adding'
  BY AddingStays DEF Types, ResumeFork, timerVars
<1> QED BY <1>4, <1>5, <1>6 DEF Types

LEMMA DispatchTimerTypes ==
    ASSUME Types, NEW s \in Services, DispatchTimer(s)
    PROVE  Types'
<1>1. PICK p \in Oldest(s) : DispatchTimer(s)!(p)
  BY DEF DispatchTimer
<1> DEFINE t == timers[s][p.sid]
<1>2. p.sid \in DOMAIN timers[s] /\ t \in Entries /\ t.cor \in Cors /\ t.loop \in BOOLEAN
  BY <1>1 DEF Types, Holding, Entries
<1>3. p \in Packles /\ p.sid \in Nat /\ p.re \in Nat /\ mail' \in [Services -> Seq(Packles)]
  BY <1>1, OldestIs DEF Types, Packles
<1>4. CASE co[t.cor].state = "RUNNING"
  <2>1. timers' = [timers EXCEPT ![s][p.sid].pending = @ + 1] /\ UNCHANGED <<co, run>>
    BY <1>1, <1>4
  <2>2. Kept'
    BY <1>1, <1>3, <2>1 DEF Types, Kept
  <2>3. /\ DOMAIN timers' = Services
        /\ \A r \in Services :
             DOMAIN timers'[r] = DOMAIN timers[r] /\ timers'[r] \in [DOMAIN timers[r] -> Entries]
    <3>1. t.pending \in Nat /\ [t EXCEPT !.pending = @ + 1] \in Entries
      BY <1>2 DEF Entries
    <3>2. timers' = [timers EXCEPT ![s] = [timers[s] EXCEPT ![p.sid] = [t EXCEPT !.pending = @ + 1]]]
      BY <2>1
    <3> QED BY <1>2, <3>1, <3>2 DEF Types, Holding
  <2>4. Holding'
    BY <1>1, <2>3 DEF Types, Holding
  <2>5. Adding'
    BY <1>1, <2>3, AddingStays DEF Types
  <2> QED BY <2>2, <2>4, <2>5 DEF Types
<1>5. CASE co[t.cor].state # "RUNNING"
  <2>1. /\ co' = [co EXCEPT ![t.cor].state = "RUNNING", ![t.cor].got = Tick(p.re)]
        /\ run' = [run EXCEPT ![s] =
              [cor |-> t.cor, by |-> "timer", tid |-> p.sid, loop |-> t.loop]]
        /\ UNCHANGED timers
    BY <1>1, <1>5
  <2>2. co' \in [Cors -> Coroutines]
    BY <1>2, <1>3, <2>1, GotIs, ReasonsAre DEF Types, Kept, States
  <2>3. Kept'
    BY <1>1, <1>2, <1>3, <2>1, <2>2 DEF Types, Kept, Resumptions
  <2>4. Holding'
    BY <1>1, <2>1 DEF Types, Holding
  <2>5. Adding'
    BY <1>1, <2>1, AddingStays DEF Types
  <2> QED BY <2>3, <2>4, <2>5 DEF Types
<1> QED BY <1>4, <1>5

LEMMA DropTimerTypes ==
    ASSUME Types, NEW s \in Services, DropTimer(s)
    PROVE  Types'
<1>1. PICK p \in Oldest(s) : DropTimer(s)!(p)
  BY DEF DropTimer
<1>2. mail' \in [Services -> Seq(Packles)]
  BY <1>1, OldestIs DEF Types
<1>3. Kept' /\ Holding'
  BY <1>1, <1>2 DEF Types, Kept, Holding, corVars, timerVars
<1>4. Adding'
  BY <1>1, AddingStays DEF Types, timerVars
<1> QED BY <1>3, <1>4 DEF Types

LEMMA DispatchRetTypes ==
    ASSUME Types, NEW s \in Services, DispatchRet(s)
    PROVE  Types'
<1>1. PICK p \in Oldest(s) : DispatchRet(s)!(p)
  BY DEF DispatchRet
<1> DEFINE c == pool[s][p.sid]
<1>2. c \in Cors
  BY <1>1 DEF Types, Holding
<1>3. p.re \in Nat /\ mail' \in [Services -> Seq(Packles)]
  BY <1>1, OldestIs DEF Types, Packles
<1>4. co' \in [Cors -> Coroutines]
  BY <1>1, <1>2, <1>3, GotIs, ReasonsAre DEF Types, Kept, States
<1>5. [NotRunning EXCEPT !.cor = c, !.by = "ret"] \in Resumptions
  BY <1>2, NotRunningIs DEF Resumptions
<1>6. Kept'
  BY <1>1, <1>3, <1>4, <1>5 DEF Types, Kept
<1>7. /\ DOMAIN pool' = Services
      /\ \A r \in Services :
           DOMAIN pool'[r] \subseteq Sids /\ pool'[r] \in [DOMAIN pool'[r] -> Cors]
  BY <1>1 DEF Types, Holding, Drop
<1>8. Holding'
  BY <1>1, <1>7 DEF Types, Holding, timerVars
<1>9. Adding'
  BY <1>1, AddingStays DEF Types, timerVars
<1> QED BY <1>6, <1>8, <1>9 DEF Types

LEMMA DispatchMsgTypes ==
    ASSUME Types, NEW s \in Services, DispatchMsg(s)
    PROVE  Types'
<1>1. PICK p \in Oldest(s), c \in Cors : DispatchMsg(s)!(p, c)
  BY DEF DispatchMsg
<1>2. /\ p.sid \in Nat /\ p.re \in Nat /\ p.src \in Senders
      /\ mail' \in [Services -> Seq(Packles)]
  BY <1>1, OldestIs DEF Types, Packles
<1>3. ReservSrc(p) \in Senders
  BY <1>2, MainIs DEF ReservSrc
<1>4. [NewCor("handler") EXCEPT !.state = "RUNNING", !.req = p.re,
             !.rsid = p.sid, !.rsrc = ReservSrc(p)] \in Coroutines
  BY <1>2, <1>3, NewCorIs DEF Coroutines, States
<1>5. co' \in [Cors -> Coroutines]
  BY <1>1, <1>4 DEF Types, Kept
<1>6. [NotRunning EXCEPT !.cor = c, !.by = "msg"] \in Resumptions
  BY NotRunningIs DEF Resumptions
<1>7. made' \in 0..MaxCors /\ free' \in [Cors -> Nat]
  BY <1>1, GetCoroutineIs DEF Types
<1>8. Kept'
  BY <1>1, <1>2, <1>5, <1>6, <1>7 DEF Types, Kept
<1>9. Holding'
  BY <1>1 DEF Types, Holding, timerVars
<1>10. Adding'
  BY <1>1, AddingStays DEF Types, timerVars
<1> QED BY <1>8, <1>9, <1>10 DEF Types

LEMMA DispatchNobodyTypes ==
    ASSUME Types, NEW s \in Services, DispatchNobody(s)
    PROVE  Types'
<1>1. PICK p \in Oldest(s) : DispatchNobody(s)!(p)
  BY DEF DispatchNobody
<1>2. mail' \in [Services -> Seq(Packles)] /\ retp' \in [Services -> Answer]
  BY <1>1, OldestIs, RetIs DEF Types
<1>3. Kept' /\ Holding'
  BY <1>1, <1>2 DEF Types, Kept, Holding, corVars, timerVars
<1>4. Adding'
  BY <1>1, AddingStays DEF Types, timerVars
<1> QED BY <1>3, <1>4 DEF Types

LEMMA BackTypes ==
    ASSUME Types, NEW s \in Services, Back(s)
    PROVE  Types'
<1>1. PICK c \in Cors : Back(s)!(c)
  BY DEF Back
<1>2. mail' \in [Services -> Seq(Packles)] /\ retp' \in [Services -> Answer]
  <2>1. CASE Answers(s)
    <3>1. mail \in [Services -> Seq(Packles)]
      BY DEF Types, Kept
    <3> QED BY <1>1, <2>1, <3>1, RetIs DEF Types
  <2>2. CASE ~Answers(s)
    BY <1>1, <2>2 DEF Types, Kept
  <2> QED BY <2>1, <2>2
<1>3. run' \in [Services -> Resumptions] /\ free' \in [Cors -> Nat]
  BY <1>1, NotRunningIs DEF Types, Kept
<1>4. Kept'
  BY <1>1, <1>2, <1>3 DEF Types, Kept
<1>5. /\ DOMAIN timers' = Services
      /\ \A r \in Services :
           DOMAIN timers'[r] \subseteq DOMAIN timers[r] /\ timers'[r] \in [DOMAIN timers'[r] -> Entries]
  BY <1>1 DEF Types, Holding, Drop
<1>6. Holding'
  BY <1>1, <1>5 DEF Types, Holding
<1>7. Adding'
  BY <1>1, <1>5, AddingStays DEF Types
<1> QED BY <1>4, <1>6, <1>7 DEF Types
LEMMA SendTypes ==
    ASSUME Types, NEW s \in Services, NEW c \in Cors, Send(s, c)
    PROVE  Types'
<1>1. PICK d \in Services, kind \in {"msg", "odd"} : Send(s, c)!(d, kind)
  BY DEF Send
<1>2. Packle(kind, s, 0, 0) \in Packles
  BY PackleIs, MainIs
<1>3. mail' \in [Services -> Seq(Packles)]
  BY <1>1, <1>2, PushIs DEF Types
<1>4. used' \in [Ops -> Nat]
  BY <1>1, UseIs DEF Types, Ops
<1>5. Kept' /\ Holding'
  BY <1>1, <1>3, <1>4 DEF Types, Kept, Holding, corVars, timerVars
<1>6. Adding'
  BY <1>1, AddingStays DEF Types, timerVars
<1> QED BY <1>5, <1>6 DEF Types

LEMMA CallTypes ==
    ASSUME Types, NEW s \in Services, NEW c \in Cors, Call(s, c)
    PROVE  Types'
<1>1. PICK d \in Services, sid \in GetSession(s) : Call(s, c)!(d, sid)
  BY DEF Call
<1>2. sid \in Nat /\ used["call"] + 1 \in Nat
  <2>1. sid \in Nat
    BY DispatchAssumption DEF GetSession
  <2>2. used["call"] \in Nat
    BY DEF Types, Kept, Ops
  <2> QED BY <2>1, <2>2
<1>3. Packle("msg", s, sid, used["call"] + 1) \in Packles
  BY <1>2, PackleIs, MainIs
<1>4. mail' \in [Services -> Seq(Packles)]
  BY <1>1, <1>3, PushIs DEF Types
<1>5. used' \in [Ops -> Nat]
  BY <1>1, UseIs DEF Types, Ops
<1>6. Kept'
  BY <1>1, <1>4, <1>5 DEF Types, Kept, corVars
<1> DEFINE a == [at |-> "suspend", op |-> "call", session |-> sid, val |-> used["call"] + 1]
<1>7. a \in Additions /\ a.at = "suspend" /\ within' = [within EXCEPT ![s] = a]
  BY <1>1, <1>2 DEF Additions
<1> HIDE DEF a
<1>8. Holding'
  BY <1>1, <1>7 DEF Types, Holding
<1>9. Adding'
  BY <1>1, <1>7 DEF Types, Holding, Adding
<1> QED BY <1>6, <1>8, <1>9 DEF Types

LEMMA SuspendTypes ==
    ASSUME Types, Places, NEW s \in Services, NEW c \in Cors, Suspend(s, c)
    PROVE  Types'
<1>1. PICK sid \in Nat : sid = within[s].session
  BY DEF Types, Holding, Additions
<1>2. PICK n \in Nat : n = within[s].val
  BY DEF Types, Holding, Additions
<1>3. sid \in Sids
  BY <1>1 DEF Suspend, Places, PlacesOk, AddOk
<1>4. /\ pool' = [pool EXCEPT ![s] = Put(@, sid, c)]
      /\ co' = [co EXCEPT ![c].sid = sid, ![c].state = "SUSPENDED", ![c].wants = Reply(n)]
  BY <1>1, <1>2 DEF Suspend
<1>5. co' \in [Cors -> Coroutines]
  BY <1>4, SidIs, ReasonsAre DEF Types, Kept, States
<1>6. Kept'
  BY <1>5 DEF Types, Kept, Suspend
<1>7. /\ DOMAIN pool' = Services
      /\ \A r \in Services :
           DOMAIN pool'[r] \subseteq Sids /\ pool'[r] \in [DOMAIN pool'[r] -> Cors]
  BY <1>3, <1>4 DEF Types, Holding, Put
<1>8. within' \in [Services -> Additions] /\ within'[s].at = "no"
      /\ \A r \in Services : r # s => within'[r] = within[r]
  BY NotWithinIs DEF Types, Holding, Suspend
<1>9. Holding'
  BY <1>7, <1>8 DEF Types, Holding, Suspend
<1>10. Adding'
  BY <1>8 DEF Types, Adding, Suspend
<1> QED BY <1>6, <1>9, <1>10 DEF Types

LEMMA SetReturnTypes ==
    ASSUME Types, NEW s \in Services, NEW c \in Cors, SetReturn(s, c)
    PROVE  Types'
<1>1. co[c].rsid \in Nat /\ co[c].req \in Nat
  BY DEF Types, Kept, Coroutines
<1>2. Packle("ret", s, co[c].rsid, co[c].req) \in Answer
  BY <1>1, PackleIs, MainIs
<1>3. co' \in [Cors -> Coroutines]
  BY RepliedIs DEF SetReturn, Types, Kept
<1>4. Kept'
  BY <1>2, <1>3 DEF Types, Kept, SetReturn
<1>5. Holding'
  BY DEF Types, Holding, SetReturn, timerVars
<1>6. Adding'
  BY AddingStays DEF Types, SetReturn, timerVars
<1> QED BY <1>4, <1>5, <1>6 DEF Types

LEMMA ForkTypes ==
    ASSUME Types, NEW s \in Services, NEW c \in Cors, Fork(s, c)
    PROVE  Types'
<1>1. PICK new \in Cors : Fork(s, c)!(new)
  BY DEF Fork
<1>2. co' \in [Cors -> Coroutines]
  BY <1>1, NewCorIs DEF Types, Kept
<1>3. made' \in 0..MaxCors /\ free' \in [Cors -> Nat] /\ used' \in [Ops -> Nat]
  BY <1>1, GetCoroutineIs, UseIs DEF Types, Ops
<1>4. Kept'
  BY <1>1, <1>2, <1>3 DEF Types, Kept
<1>5. forkQ' \in [Services -> Seq(Cors)]
  BY <1>1 DEF Types, Holding
<1>6. Holding'
  BY <1>1, <1>5 DEF Types, Holding, timerVars
<1>7. Adding'
  BY <1>1, AddingStays DEF Types, timerVars
<1> QED BY <1>4, <1>6, <1>7 DEF Types

LEMMA LoadIdTypes ==
    ASSUME Types, NEW s \in Services, NEW c \in Cors, LoadId(s, c)
    PROVE  Types'
<1>1. PICK op \in {"sleep", "once", "loop"} : LoadId(s, c)!(op)
  BY DEF LoadId
<1>2. used' \in [Ops -> Nat]
  BY <1>1, UseIs DEF Types, Ops
<1>3. Kept'
  BY <1>1, <1>2 DEF Types, Kept, corVars
<1>4. [at |-> "store", op |-> op, session |-> 0, val |-> lastId] \in Additions
  BY DEF Types, Holding, Additions
<1>5. Holding'
  BY <1>1, <1>4 DEF Types, Holding
<1>6. Adding'
  BY <1>1 DEF Types, Holding, Adding, InCode
<1> QED BY <1>3, <1>5, <1>6 DEF Types

LEMMA SessionIs ==
    ASSUME NEW val \in Nat
    PROVE  Increment(val) = val + 1 /\ Session(val) \in Nat
  BY DispatchAssumption DEF Increment, Session

LEMMA StoreIdTypes ==
    ASSUME Types, OneTimerUser, NEW s \in Services, NEW c \in Cors, StoreId(s, c)
    PROVE  Types'
<1>1. /\ within[s] \in Additions /\ within[s].val \in Nat /\ within[s].val = lastId
      /\ s \in TimerUsers
  BY DEF Types, Holding, Additions, Adding, StoreId
<1>2. lastId' = lastId + 1 /\ Session(within[s].val) \in Nat /\ lastId \in Nat
  BY <1>1, SessionIs DEF StoreId
<1>3. Kept'
  BY DEF Types, Kept, StoreId, corVars
<1>4. [within[s] EXCEPT !.at = "key", !.session = Session(within[s].val)] \in Additions
  BY <1>1, <1>2 DEF Additions
<1>5. within' \in [Services -> Additions] /\ within'[s].at = "key"
      /\ \A r \in Services : r # s => within'[r] = within[r]
  BY <1>1, <1>4 DEF Types, Holding, StoreId, Additions
<1>6. Holding'
  BY <1>2, <1>5 DEF Types, Holding, StoreId
<1>7. \A r \in Services : r # s => within[r].at \notin {"store", "key"}
  BY <1>1 DEF OneTimerUser, Types, Adding
<1>8. Adding'
  <2>1. UNCHANGED <<timers, wheel>>
    BY DEF StoreId
  <2>2. \A r \in Services : \A id \in DOMAIN timers[r] : id \in 1..lastId
    BY DEF Types, Adding
  <2>3. \A t \in wheel : t.id \in 1..lastId
    BY DEF Types, Adding
  <2> QED BY <1>1, <1>2, <1>5, <1>7, <2>1, <2>2, <2>3 DEF Adding
<1> QED BY <1>3, <1>6, <1>8 DEF Types

\* What addTimer registers, and that its id is new.
LEMMA ArmedTypes ==
    ASSUME Types, NEW s \in Services, NEW cor \in Cors, NEW loop \in BOOLEAN,
           within[s].at = "key", Armed(s, cor, loop), UNCHANGED <<forkQ, pool, lastId>>
    PROVE  /\ Holding' /\ Adding'
           /\ lastId \notin DOMAIN timers[s] /\ lastId \in Nat
           /\ DOMAIN timers'[s] = DOMAIN timers[s] \cup {lastId}
           /\ timers'[s][lastId].cor = cor /\ timers'[s][lastId].loop = loop
           /\ \A id \in DOMAIN timers[s] : timers'[s][id] = timers[s][id]
           /\ \A r \in Services : r # s => timers'[r] = timers[r] /\ within'[r] = within[r]
           /\ within'[s].at = "no"
<1> DEFINE entry == [cor |-> cor, loop |-> loop, pending |-> 0]
<1>1. /\ entry \in Entries /\ entry.cor = cor /\ entry.loop = loop
      /\ timers[s] \in [DOMAIN timers[s] -> Entries]
      /\ timers' = [timers EXCEPT ![s] = Put(timers[s], lastId, entry)]
      /\ DOMAIN timers = Services
  BY DEF Types, Holding, Entries, Armed
<1>2. lastId \in Nat /\ lastId > 0 /\ \A id \in DOMAIN timers[s] : id < lastId /\ id \in Nat
  BY DEF Types, Holding, Adding
<1>3. lastId \notin DOMAIN timers[s]
  BY <1>2
<1> HIDE DEF entry
<1>4. /\ DOMAIN timers'[s] = DOMAIN timers[s] \cup {lastId}
      /\ timers'[s] \in [DOMAIN timers'[s] -> Entries]
      /\ timers'[s][lastId] = entry
      /\ \A id \in DOMAIN timers[s] : timers'[s][id] = timers[s][id]
  <2>1. timers'[s] = Put(timers[s], lastId, entry)
    BY <1>1
  <2>2. /\ DOMAIN Put(timers[s], lastId, entry) = DOMAIN timers[s] \cup {lastId}
        /\ Put(timers[s], lastId, entry) \in [DOMAIN Put(timers[s], lastId, entry) -> Entries]
        /\ Put(timers[s], lastId, entry)[lastId] = entry
        /\ \A id \in DOMAIN timers[s] :
             id # lastId => Put(timers[s], lastId, entry)[id] = timers[s][id]
    BY <1>1 DEF Put
  <2> QED BY <1>3, <2>1, <2>2
<1>5. DOMAIN timers' = Services /\ \A r \in Services : r # s => timers'[r] = timers[r]
  BY <1>1
<1>6. /\ within' \in [Services -> Additions] /\ within'[s].at = "no"
      /\ \A r \in Services : r # s => within'[r] = within[r]
  BY NotWithinIs DEF Types, Holding, Armed
<1> DEFINE timer == [serv |-> s, session |-> within[s].session,
                     id |-> lastId, cor |-> cor, loop |-> loop]
<1>7. wheel' = wheel \cup {timer} /\ timer \in Expiries /\ timer.id = lastId
  BY <1>2 DEF Types, Holding, Armed, Additions, Expiries
<1> HIDE DEF timer
<1>8. Holding'
  BY <1>2, <1>4, <1>5, <1>6, <1>7 DEF Types, Holding
<1>9. Adding'
  <2>1. \A r \in Services : \A id \in DOMAIN timers'[r] : id \in 1..lastId
    BY <1>2, <1>4, <1>5 DEF Types, Adding
  <2>2. \A t \in wheel' : t.id \in 1..lastId
    BY <1>2, <1>7 DEF Types, Adding
  <2>3. \A r \in Services : r # s => timers'[r] = timers[r] /\ within'[r] = within[r]
    BY <1>5, <1>6
  <2> QED BY <1>6, <2>1, <2>2, <2>3 DEF Types, Adding
<1> QED BY <1>1, <1>2, <1>3, <1>4, <1>5, <1>6, <1>8, <1>9

LEMMA RegisterSleepTypes ==
    ASSUME Types, NEW s \in Services, NEW c \in Cors, RegisterSleep(s, c)
    PROVE  Types'
<1>1. Holding' /\ Adding'
  BY ArmedTypes DEF RegisterSleep
<1>2. co' \in [Cors -> Coroutines]
  BY WantsIs, ReasonsAre DEF RegisterSleep, Types, Kept, Holding, States
<1>3. Kept'
  BY <1>2 DEF Types, Kept, RegisterSleep
<1> QED BY <1>1, <1>3 DEF Types

LEMMA RegisterCallbackTypes ==
    ASSUME Types, NEW s \in Services, NEW c \in Cors, RegisterCallback(s, c)
    PROVE  Types'
<1>1. PICK new \in Cors : RegisterCallback(s, c)!(new)
  BY DEF RegisterCallback
<1>2. Holding' /\ Adding'
  BY <1>1, ArmedTypes
<1>3. within[s].op \in {"once", "loop"} /\ lastId \in Nat
  BY <1>1 DEF Types, Holding, Additions
<1>4. [NewCor(within[s].op) EXCEPT !.tid = lastId, !.wants = Tick(lastId)] \in Coroutines
  <2>1. NewCor(within[s].op) \in Coroutines
    BY <1>3, NewCorIs
  <2>2. Tick(lastId) \in Reasons
    BY <1>3, ReasonsAre
  <2> QED BY <1>3, <2>1, <2>2 DEF Coroutines
<1>5. co' \in [Cors -> Coroutines]
  BY <1>1, <1>4 DEF Types, Kept
<1>6. made' \in 0..MaxCors /\ free' \in [Cors -> Nat]
  BY <1>1, GetCoroutineIs DEF Types
<1>7. Kept'
  BY <1>1, <1>5, <1>6 DEF Types, Kept
<1> QED BY <1>2, <1>7 DEF Types

LEMMA RemoveTimerTypes ==
    ASSUME Types, NEW s \in Services, NEW c \in Cors, RemoveTimer(s, c)
    PROVE  Types'
<1>1. PICK id \in DOMAIN timers[s] : RemoveTimer(s, c)!(id)
  BY DEF RemoveTimer
<1>2. timers[s][id].cor \in Cors
  BY DEF Types, Holding, Entries
<1>3. free' \in [Cors -> Nat] /\ used' \in [Ops -> Nat]
  <2>1. free' \in [Cors -> Nat]
    BY <1>1, <1>2 DEF Types, Kept
  <2>2. used' \in [Ops -> Nat]
    BY <1>1, UseIs DEF Types, Ops
  <2> QED BY <2>1, <2>2
<1>4. Kept'
  BY <1>1, <1>3 DEF Types, Kept
<1>5. /\ DOMAIN timers' = Services
      /\ \A r \in Services :
           DOMAIN timers'[r] \subseteq DOMAIN timers[r] /\ timers'[r] \in [DOMAIN timers'[r] -> Entries]
  BY <1>1 DEF Types, Holding, Drop
<1>6. Holding'
  BY <1>1, <1>5 DEF Types, Holding
<1>7. Adding'
  BY <1>1, <1>5, AddingStays DEF Types
<1> QED BY <1>4, <1>6, <1>7 DEF Types

\* The two ways a coroutine ends: the first lets it run once more.
LEMMA FinishIs ==
    ASSUME Types, NEW s \in Services, NEW c \in Cors, Finish(s, c)
    PROVE  /\ \/ /\ co' = co
                 /\ \E id \in DOMAIN timers[s] : timers[s][id].pending > 0 /\
                      timers' = [timers EXCEPT ![s][id].pending = @ - 1]
              \/ /\ co[c].job = "loop" /\ timers' = timers
                 /\ co' = [co EXCEPT ![c].state = "SUSPENDED", ![c].wants = Tick(co[c].tid)]
              \/ /\ co[c].job # "loop" /\ timers' = timers
                 /\ co' = [co EXCEPT ![c] = Stopped(@)]
           /\ UNCHANGED <<mail, run, made, free, forkQ, pool, retp, wheel, lastId, within, used>>
           /\ co[c].tid \in Nat
<1>1. co[c].tid \in Nat
  BY DEF Types, Kept, Coroutines
<1> DEFINE again == /\ co[c].job = "loop" /\ co[c].tid \in DOMAIN timers[s]
                    /\ timers[s][co[c].tid].pending > 0
<1>2. CASE again
  BY <1>1, <1>2 DEF Finish
<1>3. CASE ~again
  BY <1>1, <1>3 DEF Finish
<1> QED BY <1>2, <1>3

LEMMA FinishTypes ==
    ASSUME Types, NEW s \in Services, NEW c \in Cors, Finish(s, c)
    PROVE  Types'
<1>1. co' \in [Cors -> Coroutines]
  <2>1. co \in [Cors -> Coroutines] /\ co[c] \in Coroutines
    BY DEF Types, Kept
  <2>2. "SUSPENDED" \in States
    BY DEF States
  <2>3. Tick(co[c].tid) \in Reasons
    BY FinishIs, ReasonsAre
  <2>4. [co EXCEPT ![c].state = "SUSPENDED", ![c].wants = Tick(co[c].tid)]
          \in [Cors -> Coroutines]
    BY <2>1, <2>2, <2>3, WantsIs
  <2>5. [co EXCEPT ![c] = Stopped(@)] \in [Cors -> Coroutines]
    BY <2>1, StoppedIs
  <2> QED BY <2>1, <2>4, <2>5, FinishIs
<1>2. /\ DOMAIN timers' = Services
      /\ \A r \in Services :
           DOMAIN timers'[r] = DOMAIN timers[r] /\ timers'[r] \in [DOMAIN timers[r] -> Entries]
  <2>1. CASE timers' = timers
    BY <2>1 DEF Types, Holding
  <2>2. CASE timers' # timers
    <3>1. PICK id \in DOMAIN timers[s] : timers[s][id].pending > 0 /\
                 timers' = [timers EXCEPT ![s][id].pending = @ - 1]
      BY <2>2, FinishIs
    <3> DEFINE t == timers[s][id]
    <3>2. t \in Entries /\ [t EXCEPT !.pending = @ - 1] \in Entries
      <4>1. t \in Entries /\ t.pending \in Nat /\ t.pending > 0
        BY <3>1 DEF Types, Holding, Entries
      <4>2. t.pending - 1 \in Nat
        BY <4>1
      <4> QED BY <4>1, <4>2 DEF Entries
    <3>3. timers' = [timers EXCEPT ![s] =
                       [timers[s] EXCEPT ![id] = [t EXCEPT !.pending = @ - 1]]]
      BY <3>1
    <3> QED BY <3>2, <3>3 DEF Types, Holding
  <2> QED BY <2>1, <2>2
<1>3. Kept' /\ Holding'
  BY <1>1, <1>2, FinishIs DEF Types, Kept, Holding
<1>4. Adding'
  BY <1>2, FinishIs, AddingStays DEF Types
<1> QED BY <1>3, <1>4 DEF Types

LEMMA ExpireTypes ==
    ASSUME Types, NEW t \in wheel, Expire(t)
    PROVE  Types'
<1>1. t \in Expiries /\ t.serv \in Services /\ t.session \in Nat /\ t.id \in Nat
  BY DEF Types, Holding, Expiries
<1>2. Packle("timer", Main, t.session, t.id) \in Packles
  BY <1>1, PackleIs, MainIs
<1>3. mail' \in [Services -> Seq(Packles)]
  BY <1>1, <1>2, PushIs DEF Types, Expire
<1>4. used' \in [Ops -> Nat]
  BY UseIs DEF Types, Kept, Ops, Expire
<1>5. wheel' \subseteq wheel
  BY DEF Expire
<1>6. Kept' /\ Holding'
  BY <1>3, <1>4, <1>5 DEF Types, Kept, Holding, Expire, corVars
<1>7. Adding'
  BY <1>5, AddingStays DEF Types, Expire
<1> QED BY <1>6, <1>7 DEF Types

LEMMA ForgetTypes ==
    ASSUME Types, NEW t \in wheel, Forget(t)
    PROVE  Types'
<1>1. Kept' /\ Holding'
  BY DEF Types, Kept, Holding, Forget, corVars
<1>2. Adding'
  BY AddingStays DEF Types, Forget
<1> QED BY <1>1, <1>2 DEF Types
LEMMA TypesBegin == Init => Types
<1> SUFFICES ASSUME Init PROVE Types
  OBVIOUS
<1>1. Packle("msg", Main, 0, 0) \in Packles
  BY PackleIs, MainIs
<1>2. Kept
  BY <1>1, NotRunningIs, NewCorIs, NoPackleIs, DispatchAssumption DEF Init, Kept
<1>3. Holding
  BY NotWithinIs DEF Init, Holding
<1>4. Adding
  BY NotWithinIs DEF Init, Adding
<1> QED BY <1>2, <1>3, <1>4 DEF Types

LEMMA TypesContinue ==
    ASSUME Types, Places, OneTimerUser, [Next]_vars
    PROVE  Types'
<1>1. ASSUME NEW s \in Services, Loop(s) PROVE Types'
  BY <1>1, ResumeForkTypes, DispatchTimerTypes, DropTimerTypes, DispatchRetTypes,
     DispatchMsgTypes, DispatchNobodyTypes, BackTypes DEF Loop
<1>2. ASSUME NEW s \in Services, NEW c \in Cors, Code(s, c) PROVE Types'
  BY <1>2, SendTypes, CallTypes, SuspendTypes, SetReturnTypes, ForkTypes, LoadIdTypes, StoreIdTypes,
     RegisterSleepTypes, RegisterCallbackTypes, RemoveTimerTypes, FinishTypes DEF Code
<1>3. ASSUME NEW t \in wheel, Expire(t) \/ Forget(t) PROVE Types'
  BY <1>3, ExpireTypes, ForgetTypes
<1>4. CASE UNCHANGED vars
  BY <1>4 DEF Types, Kept, Holding, Adding, vars, corVars, timerVars
<1> QED BY <1>1, <1>2, <1>3, <1>4 DEF Next

-----------------------------------------------------------------------------
(* Places: what all actions have in common.                                *)

\* Nobody gets a coroutine, and x becomes free if nobody has it any more.
LEMMA HeldShrinks ==
    ASSUME Belongs, Made, Freed, free \in [Cors -> Nat], made' = made, NEW x \in Cors,
           \A s \in Services, c \in Cors : HeldIn(s, c)' => HeldIn(s, c),
           \A c \in Cors : c # x => free'[c] = free[c] /\ co'[c] = co[c],
           \E s \in Services : HeldIn(s, x),
           \/ free'[x] = free[x]
           \/ /\ free'[x] = free[x] + 1 /\ co'[x].state # "RUNNING"
              /\ \A s \in Services : ~HeldIn(s, x)'
    PROVE  Belongs' /\ Made' /\ Freed'
<1>1. Belongs'
  BY DEF Belongs
<1>2. Made'
  BY DEF Made
<1>3. free[x] = 0 /\ x <= made
  <2>1. free[x] \in Nat
    OBVIOUS
  <2> QED BY <2>1 DEF Freed, Made
<1>4. Freed'
  <2> SUFFICES ASSUME NEW c \in Cors, free'[c] > 0
               PROVE  /\ free'[c] = 1 /\ c <= made /\ co'[c].state # "RUNNING"
                      /\ \A s \in Services : ~HeldIn(s, c)'
    BY DEF Freed
  <2>1. CASE c # x
    BY <2>1 DEF Freed
  <2>2. CASE c = x
    BY <1>3, <2>2
  <2> QED BY <2>1, <2>2
<1> QED BY <1>1, <1>2, <1>4

\* What getCoroutine returns, nobody has.
LEMMA NewIsNowhere ==
    ASSUME Kept, Made, Freed, NEW x \in Cors, GetCoroutine(x)
    PROVE  \A s \in Services : ~HeldIn(s, x)
<1>1. free[x] > 0 \/ x = made + 1
  BY GetCoroutineIs
<1>2. made \in Nat /\ made < made + 1
  BY DispatchAssumption DEF Kept
<1> QED BY <1>1, <1>2 DEF Made, Freed

LEMMA HeldGrows ==
    ASSUME Kept, Belongs, Made, Freed, NEW x \in Cors, GetCoroutine(x), NEW s \in Services,
           \A c \in Cors : c # x => co'[c] = co[c],
           \A r \in Services, c \in Cors :
             HeldIn(r, c)' => HeldIn(r, c) \/ (r = s /\ c = x)
    PROVE  Belongs' /\ Made' /\ Freed'
<1>1. \A r \in Services : ~HeldIn(r, x)
  BY NewIsNowhere
<1>2. Belongs'
  BY <1>1 DEF Belongs
<1>3. /\ made \in Nat /\ made' \in Nat /\ made <= made' /\ x <= made'
      /\ \A c \in Cors : c # x => free'[c] = free[c]
      /\ free'[x] = 0 \/ (x <= made /\ free[x] > 0 /\ free'[x] = free[x] - 1)
  BY GetCoroutineIs, DispatchAssumption DEF Kept, Cors
<1>4. Made'
  BY <1>3 DEF Made, Cors
<1>5. Freed'
  <2> SUFFICES ASSUME NEW c \in Cors, free'[c] > 0
               PROVE  /\ free'[c] = 1 /\ c <= made' /\ co'[c].state # "RUNNING"
                      /\ \A r \in Services : ~HeldIn(r, c)'
    BY DEF Freed
  <2>1. c # x
    BY <1>3 DEF Freed
  <2>2. /\ free[c] = 1 /\ c <= made /\ co[c].state # "RUNNING"
        /\ \A r \in Services : ~HeldIn(r, c)
    BY <1>3, <2>1 DEF Freed
  <2> QED BY <1>3, <2>1, <2>2 DEF Cors
<1> QED BY <1>2, <1>4, <1>5

\* A service that keeps its coroutines, of which none changes.
LEMMA OthersStay ==
    ASSUME Types, NEW r \in Services, PlacesOk(r), NEW x \in Cors, ~HeldIn(r, x),
           \A c \in Cors : c # x => co'[c] = co[c],
           forkQ'[r] = forkQ[r], pool'[r] = pool[r], timers'[r] = timers[r],
           run'[r] = run[r], within'[r] = within[r]
    PROVE  PlacesOk(r)' /\ \A c \in Cors : HeldIn(r, c)' <=> HeldIn(r, c)
<1> USE DEF PlacesOk, ForkedIn, PooledIn, TimedIn, TimedAt, Runs, Doomed, HeldIn
<1>1. \A id \in DOMAIN timers[r] : timers[r][id].cor \in Cors /\ timers[r][id].cor # x
  BY DEF Types, Holding, Entries
<1>2. run[r].cor # x /\ (run[r].cor # NoCor => run[r].cor \in Cors)
  BY DEF Types, Kept, Resumptions
<1>3. ForksOk(r)'
  BY DEF ForksOk
<1>4. PoolOk(r)'
  BY DEF PoolOk
<1>5. TimersOk(r)'
  <2>1. \A id \in DOMAIN timers[r] : co'[timers[r][id].cor] = co[timers[r][id].cor]
    BY <1>1
  <2> QED BY <2>1 DEF TimersOk
<1>6. RunOk(r)'
  BY DEF RunOk
<1>7. AddOk(r)'
  BY <1>2 DEF AddOk
<1> QED BY <1>3, <1>4, <1>5, <1>6, <1>7

\* A step that moves no coroutine.
LEMMA PlacesStay ==
    ASSUME Types, Places, UNCHANGED <<run, made, free, forkQ, pool>>,
           \A c \in Cors : co'[c].state = co[c].state /\ co'[c].job = co[c].job,
           \A s \in Services : DOMAIN timers'[s] = DOMAIN timers[s],
           \A s \in Services : \A id \in DOMAIN timers[s] :
             timers'[s][id].cor = timers[s][id].cor /\ timers'[s][id].loop = timers[s][id].loop,
           \A s \in Services : AddOk(s)'
    PROVE  Places'
<1>1. \A s \in Services : \A id \in DOMAIN timers[s] : timers[s][id].cor \in Cors
  BY DEF Types, Holding, Entries
<1>2. \A s \in Services, c \in Cors : HeldIn(s, c)' <=> HeldIn(s, c)
  BY DEF ForkedIn, PooledIn, TimedIn, Runs, HeldIn
<1>3. Belongs' /\ Made' /\ Freed'
  BY <1>2 DEF Places, Belongs, Made, Freed
<1>4. ASSUME NEW s \in Services PROVE PlacesOk(s)'
  <2> USE DEF ForkedIn, PooledIn, TimedIn, TimedAt, Runs, Doomed
  <2>1. PlacesOk(s)
    BY DEF Places
  <2>2. ForksOk(s)'
    BY <2>1 DEF PlacesOk, ForksOk
  <2>3. PoolOk(s)'
    BY <2>1 DEF PlacesOk, PoolOk
  <2>4. TimersOk(s)'
    BY <1>1, <2>1 DEF PlacesOk, TimersOk
  <2>5. RunOk(s)'
    BY <2>1 DEF PlacesOk, RunOk
  <2> QED BY <2>2, <2>3, <2>4, <2>5 DEF PlacesOk
<1> QED BY <1>3, <1>4 DEF Places

\* What a step of s leaves of the others, x being the coroutine it changes: one
\* that s has or that nobody had.
LEMMA StepOf ==
    ASSUME Types, Places, NEW s \in Services, NEW x \in Cors,
           HeldIn(s, x) \/ GetCoroutine(x),
           \A c \in Cors : c # x => co'[c] = co[c],
           \A r \in Services : r # s =>
             /\ forkQ'[r] = forkQ[r] /\ pool'[r] = pool[r] /\ timers'[r] = timers[r]
             /\ run'[r] = run[r] /\ within'[r] = within[r]
    PROVE  \A r \in Services : r # s =>
             PlacesOk(r)' /\ \A c \in Cors : HeldIn(r, c)' <=> HeldIn(r, c)
<1> SUFFICES ASSUME NEW r \in Services, r # s
             PROVE  PlacesOk(r)' /\ \A c \in Cors : HeldIn(r, c)' <=> HeldIn(r, c)
  OBVIOUS
<1>1. ~HeldIn(r, x)
  BY NewIsNowhere DEF Types, Places, Belongs
<1> QED BY <1>1, OthersStay DEF Places

\* A step of s that takes no coroutine and may give x back ...
LEMMA StepShrinks ==
    ASSUME Types, Places, NEW s \in Services, NEW x \in Cors, HeldIn(s, x),
           \A c \in Cors : c # x => co'[c] = co[c],
           \A r \in Services : r # s =>
             /\ forkQ'[r] = forkQ[r] /\ pool'[r] = pool[r] /\ timers'[r] = timers[r]
             /\ run'[r] = run[r] /\ within'[r] = within[r],
           PlacesOk(s)', \A c \in Cors : HeldIn(s, c)' => HeldIn(s, c),
           made' = made, \A c \in Cors : c # x => free'[c] = free[c],
           \/ free'[x] = free[x]
           \/ free'[x] = free[x] + 1 /\ co'[x].state # "RUNNING" /\ ~HeldIn(s, x)'
    PROVE  Places'
<1>1. \A r \in Services : r # s =>
        PlacesOk(r)' /\ \A c \in Cors : HeldIn(r, c)' <=> HeldIn(r, c)
  BY StepOf
<1>2. \A r \in Services : r # s => ~HeldIn(r, x)'
  BY <1>1 DEF Places, Belongs
<1>3. Belongs' /\ Made' /\ Freed'
  BY <1>1, <1>2, HeldShrinks DEF Types, Kept, Places
<1> QED BY <1>1, <1>3 DEF Places

\* ... and one that takes x.
LEMMA StepGrows ==
    ASSUME Types, Places, NEW s \in Services, NEW x \in Cors, GetCoroutine(x),
           \A c \in Cors : c # x => co'[c] = co[c],
           \A r \in Services : r # s =>
             /\ forkQ'[r] = forkQ[r] /\ pool'[r] = pool[r] /\ timers'[r] = timers[r]
             /\ run'[r] = run[r] /\ within'[r] = within[r],
           PlacesOk(s)', \A c \in Cors : HeldIn(s, c)' => HeldIn(s, c) \/ c = x
    PROVE  Places'
<1>1. \A r \in Services : r # s =>
        PlacesOk(r)' /\ \A c \in Cors : HeldIn(r, c)' <=> HeldIn(r, c)
  BY StepOf
<1>2. Belongs' /\ Made' /\ Freed'
  BY <1>1, HeldGrows DEF Types, Places
<1> QED BY <1>1, <1>2 DEF Places

\* In the worker's loop nothing is under way.
LEMMA InLoopIs ==
    ASSUME NEW s \in Services, PlacesOk(s), InLoop(s)
    PROVE  /\ run[s].cor = NoCor /\ within[s].at = "no"
           /\ \A id : ~Doomed(s, id)
  BY NotRunningIs DEF PlacesOk, AddOk, InLoop, Doomed

\* What runs code is in no queue, and has no timer but the one that resumed it,
\* or its own if it is the callback of a repeating one.
LEMMA CodeIs ==
    ASSUME Types, NEW s \in Services, PlacesOk(s), NEW c \in Cors, Executes(s, c)
    PROVE  /\ run[s].cor = c /\ co[c].state = "RUNNING" /\ HeldIn(s, c)
           /\ ~ForkedIn(s, c) /\ ~PooledIn(s, c)
           /\ co[c].job # "loop" => \A id \in Nat : TimedAt(s, id, c) => Doomed(s, id)
<1>1. run[s].cor = c /\ co[c].state = "RUNNING"
  BY DEF Executes
<1>2. ~ForkedIn(s, c) /\ ~PooledIn(s, c)
  BY <1>1 DEF PlacesOk, ForksOk, PoolOk
<1>3. co[c].job # "loop" => \A id \in Nat : TimedAt(s, id, c) => Doomed(s, id)
  BY <1>1 DEF PlacesOk, TimersOk, TimedAt
<1> QED BY <1>1, <1>2, <1>3 DEF HeldIn, Runs

-----------------------------------------------------------------------------
(* Places: the worker's loop.                                              *)

LEMMA ResumeForkPlaces ==
    ASSUME Types, Places, NEW s \in Services, ResumeFork(s)
    PROVE  Places'
<1> DEFINE c == Head(forkQ[s])
<1> DEFINE q == forkQ[s]
<1>1. /\ q \in Seq(Cors) /\ q # <<>> /\ Len(q) \in Nat /\ Len(q) > 0
      /\ c \in Cors /\ c = q[1] /\ forkQ'[s] = Tail(q)
      /\ Len(Tail(q)) = Len(q) - 1
      /\ \A i \in 1..Len(Tail(q)) : Tail(q)[i] = q[i + 1]
  BY DEF Types, Holding, ResumeFork
<1>2. PlacesOk(s)
  BY DEF Places
<1>3. run[s].cor = NoCor /\ within[s].at = "no" /\ \A id : ~Doomed(s, id)
  BY <1>2, InLoopIs DEF ResumeFork
<1>4. ForkedIn(s, c) /\ HeldIn(s, c)
  BY <1>1 DEF ForkedIn, HeldIn
<1>5. ~PooledIn(s, c) /\ ~TimedIn(s, c)
  BY <1>1, <1>2, <1>4 DEF PlacesOk, ForksOk
<1>6. /\ co'[c].state = "RUNNING" /\ co'[c].job = co[c].job
      /\ \A d \in Cors : d # c => co'[d] = co[d]
  BY <1>1 DEF ResumeFork, Types, Kept, Coroutines
<1>7. run'[s].cor = c /\ run'[s].by = "fork" /\ \A id : ~Doomed(s, id)'
  BY NotRunningIs DEF ResumeFork, Types, Kept, Resumptions, Doomed
<1>8. UNCHANGED <<pool, timers, within, made, free>>
  BY DEF ResumeFork, timerVars
<1>9. \A d \in Cors : ForkedIn(s, d)' => ForkedIn(s, d) /\ d # c
  <2> SUFFICES ASSUME NEW d \in Cors, NEW i \in 1..Len(forkQ'[s]), forkQ'[s][i] = d
               PROVE  ForkedIn(s, d) /\ d # c
    BY DEF ForkedIn
  <2>1. i + 1 \in 1..Len(q) /\ q[i + 1] = d /\ 1 \in 1..Len(q) /\ i + 1 # 1
    BY <1>1
  <2> QED BY <1>1, <1>2, <2>1 DEF ForkedIn, PlacesOk, ForksOk
<1>10. \A d \in Cors : HeldIn(s, d)' => HeldIn(s, d)
  BY <1>4, <1>7, <1>8, <1>9 DEF HeldIn, PooledIn, TimedIn, Runs
<1> HIDE DEF c
<1>11. PlacesOk(s)'
  <2>1. \A i, j \in 1..Len(forkQ'[s]) : forkQ'[s][i] = forkQ'[s][j] => i = j
    <3> SUFFICES ASSUME NEW i \in 1..Len(Tail(q)), NEW j \in 1..Len(Tail(q)),
                        Tail(q)[i] = Tail(q)[j]
                 PROVE  i = j
      BY <1>1
    <3>1. i + 1 \in 1..Len(q) /\ j + 1 \in 1..Len(q) /\ q[i + 1] = q[j + 1]
      BY <1>1
    <3>2. i + 1 = j + 1
      BY <1>2, <3>1 DEF PlacesOk, ForksOk
    <3> QED BY <3>2
  <2>2. ForksOk(s)'
    BY <1>2, <1>6, <1>7, <1>8, <1>9, <2>1 DEF PlacesOk, ForksOk, PooledIn, TimedIn, Runs
  <2>3. PoolOk(s)'
    BY <1>2, <1>3, <1>5, <1>6, <1>8 DEF PlacesOk, PoolOk, PooledIn, TimedAt
  <2>4. TimersOk(s)'
    <3>1. \A id \in DOMAIN timers[s] : timers[s][id].cor \in Cors /\ timers[s][id].cor # c
      BY <1>5 DEF TimedIn, Types, Holding, Entries
    <3> QED BY <1>2, <1>3, <1>6, <1>8, <3>1 DEF PlacesOk, TimersOk
  <2>5. RunOk(s)'
    BY <1>7 DEF RunOk
  <2>6. AddOk(s)'
    BY <1>3, <1>8 DEF AddOk
  <2> QED BY <2>2, <2>3, <2>4, <2>5, <2>6 DEF PlacesOk
<1>12. \A r \in Services : r # s =>
         /\ forkQ'[r] = forkQ[r] /\ pool'[r] = pool[r] /\ timers'[r] = timers[r]
         /\ run'[r] = run[r] /\ within'[r] = within[r]
  BY <1>8 DEF ResumeFork, Types, Kept, Holding
<1>13. \A d \in Cors : free'[d] = free[d]
  BY <1>8
<1> QED BY <1>1, <1>4, <1>6, <1>8, <1>10, <1>11, <1>12, <1>13, StepShrinks

LEMMA DispatchTimerPlaces ==
    ASSUME Types, Places, NEW s \in Services, DispatchTimer(s)
    PROVE  Places'
<1>1. PICK p \in Oldest(s) : DispatchTimer(s)!(p)
  BY DEF DispatchTimer
<1> DEFINE t == timers[s][p.sid]
<1> DEFINE c == t.cor
<1>2. /\ p.sid \in DOMAIN timers[s] /\ p.sid \in Nat /\ t \in Entries
      /\ c \in Cors /\ t.loop \in BOOLEAN
  BY <1>1 DEF Types, Holding, Entries
<1>3. PlacesOk(s)
  BY DEF Places
<1>4. run[s].cor = NoCor /\ within[s].at = "no" /\ \A id : ~Doomed(s, id)
  BY <1>1, <1>3, InLoopIs
<1>5. CASE co[c].state = "RUNNING"
  <2>1. timers' = [timers EXCEPT ![s][p.sid].pending = @ + 1] /\ UNCHANGED <<co, run>>
    BY <1>1, <1>5
  <2>2. /\ \A r \in Services : DOMAIN timers'[r] = DOMAIN timers[r]
        /\ \A r \in Services : \A id \in DOMAIN timers[r] :
             timers'[r][id].cor = timers[r][id].cor /\ timers'[r][id].loop = timers[r][id].loop
    <3>1. timers' = [timers EXCEPT ![s] = [timers[s] EXCEPT ![p.sid] = [t EXCEPT !.pending = @ + 1]]]
      BY <2>1
    <3>2. [t EXCEPT !.pending = @ + 1].cor = t.cor /\ [t EXCEPT !.pending = @ + 1].loop = t.loop
      BY <1>2 DEF Entries
    <3> QED BY <1>2, <3>1, <3>2 DEF Types, Holding
  <2>3. \A r \in Services : AddOk(r)'
    BY <1>1, <2>1 DEF Places, PlacesOk, AddOk
  <2> QED BY <1>1, <2>1, <2>2, <2>3, PlacesStay
<1>6. CASE co[c].state # "RUNNING"
  <2>1. /\ co' = [co EXCEPT ![c].state = "RUNNING", ![c].got = Tick(p.re)]
        /\ run' = [run EXCEPT ![s] =
              [cor |-> c, by |-> "timer", tid |-> p.sid, loop |-> t.loop]]
        /\ UNCHANGED <<forkQ, pool, timers, within, made, free>>
    BY <1>1, <1>6
  <2>2. TimedAt(s, p.sid, c) /\ TimedIn(s, c) /\ HeldIn(s, c)
    BY <1>2 DEF TimedAt, TimedIn, HeldIn
  <2>3. ~ForkedIn(s, c) /\ ~PooledIn(s, c)
    BY <1>2, <1>3, <1>4, <2>2 DEF PlacesOk, ForksOk, PoolOk
  <2>4. \A id \in DOMAIN timers[s] : timers[s][id].cor = c => id = p.sid
    BY <1>2, <1>3, <1>4 DEF PlacesOk, TimersOk
  <2>5. /\ co'[c].state = "RUNNING" /\ co'[c].job = co[c].job
        /\ \A d \in Cors : d # c => co'[d] = co[d]
    BY <1>2, <2>1 DEF Types, Kept, Coroutines
  <2>6. /\ run'[s].cor = c /\ run'[s].by = "timer" /\ run'[s].tid = p.sid
        /\ run'[s].loop = t.loop
    BY <2>1 DEF Types, Kept
  <2>7. \A r \in Services : r # s => run'[r] = run[r]
    BY <2>1 DEF Types, Kept
  <2>8. UNCHANGED <<forkQ, pool, timers, within, made, free>>
    BY <2>1
  <2>9. \A id : Doomed(s, id)' <=> ~t.loop /\ id = p.sid
    BY <2>6 DEF Doomed
  <2>10. \A d \in Cors : HeldIn(s, d)' => HeldIn(s, d)
    BY <2>2, <2>6, <2>8 DEF HeldIn, ForkedIn, PooledIn, TimedIn, Runs
  <2>11. PlacesOk(s)'
    <3>1. ForksOk(s)'
      <4>1. \A d \in Cors : ForkedIn(s, d) =>
              co'[d].state = "INIT" /\ ~PooledIn(s, d) /\ ~TimedIn(s, d) /\ run'[s].cor # d
        BY <1>3, <2>3, <2>5, <2>6 DEF PlacesOk, ForksOk
      <4> QED BY <1>3, <2>8, <4>1 DEF PlacesOk, ForksOk, ForkedIn, PooledIn, TimedIn, Runs
    <3>2. PoolOk(s)'
      BY <1>3, <1>4, <2>3, <2>5, <2>8 DEF PlacesOk, PoolOk, PooledIn, TimedAt
    <3>3. TimersOk(s)'
      <4>1. \A id \in DOMAIN timers[s] : timers[s][id].cor \in Cors
        BY DEF Types, Holding, Entries
      <4>2. t.loop <=> co[c].job = "loop"
        BY <1>2, <1>3 DEF PlacesOk, TimersOk
      <4> HIDE DEF t, c
      <4>3. \A id \in DOMAIN timers[s] : timers[s][id].loop <=> co'[timers[s][id].cor].job = "loop"
        BY <1>3, <2>5, <4>1 DEF PlacesOk, TimersOk
      <4>4. \A id \in DOMAIN timers[s] : ~Doomed(s, id)' =>
              /\ co'[timers[s][id].cor].state # "STOPPED"
              /\ co'[timers[s][id].cor].state = "RUNNING" => co'[timers[s][id].cor].job = "loop"
        BY <1>3, <1>4, <2>4, <2>5, <2>9, <4>1, <4>2 DEF PlacesOk, TimersOk
      <4>5. \A x, y \in DOMAIN timers[s] : timers[s][x].cor = timers[s][y].cor => x = y
        BY <1>3, <1>4 DEF PlacesOk, TimersOk
      <4> QED BY <2>8, <4>3, <4>4, <4>5 DEF TimersOk
    <3>4. RunOk(s)'
      BY <1>2, <2>2, <2>6, <2>8, <2>9 DEF RunOk, TimedAt, Cors, NoCor
    <3>5. AddOk(s)'
      BY <1>4, <2>8 DEF AddOk
    <3> QED BY <3>1, <3>2, <3>3, <3>4, <3>5 DEF PlacesOk
  <2> HIDE DEF t, c
  <2>12. \A r \in Services : r # s =>
           /\ forkQ'[r] = forkQ[r] /\ pool'[r] = pool[r] /\ timers'[r] = timers[r]
           /\ run'[r] = run[r] /\ within'[r] = within[r]
    BY <2>7, <2>8
  <2>13. \A d \in Cors : free'[d] = free[d]
    BY <2>8
  <2> QED BY <1>2, <2>2, <2>5, <2>8, <2>10, <2>11, <2>12, <2>13, StepShrinks
<1> QED BY <1>5, <1>6

LEMMA DropTimerPlaces ==
    ASSUME Types, Places, NEW s \in Services, DropTimer(s)
    PROVE  Places'
<1>1. UNCHANGED <<run, co, made, free, forkQ, pool, timers, within>>
  BY DEF DropTimer, corVars, timerVars
<1>2. \A r \in Services : AddOk(r)'
  BY <1>1 DEF Places, PlacesOk, AddOk
<1> QED BY <1>1, <1>2, PlacesStay

LEMMA DispatchRetPlaces ==
    ASSUME Types, Places, NEW s \in Services, DispatchRet(s)
    PROVE  Places'
<1>1. PICK p \in Oldest(s) : DispatchRet(s)!(p)
  BY DEF DispatchRet
<1> DEFINE c == pool[s][p.sid]
<1>2. p.sid \in DOMAIN pool[s] /\ c \in Cors
  BY <1>1 DEF Types, Holding
<1>3. PlacesOk(s)
  BY DEF Places
<1>4. run[s].cor = NoCor /\ within[s].at = "no" /\ \A id : ~Doomed(s, id)
  BY <1>1, <1>3, InLoopIs
<1>5. PooledIn(s, c) /\ HeldIn(s, c)
  BY <1>2 DEF PooledIn, HeldIn
<1>6. ~ForkedIn(s, c) /\ \A id \in DOMAIN timers[s] : timers[s][id].cor \in Cors /\ timers[s][id].cor # c
  BY <1>2, <1>3, <1>4, <1>5 DEF PlacesOk, ForksOk, PoolOk, TimedAt, Types, Holding, Entries
<1>7. /\ co'[c].state = "RUNNING" /\ co'[c].job = co[c].job
      /\ \A d \in Cors : d # c => co'[d] = co[d]
  BY <1>1, <1>2 DEF Types, Kept, Coroutines
<1>8. /\ run'[s].cor = c /\ run'[s].by = "ret" /\ \A id : ~Doomed(s, id)'
      /\ \A r \in Services : r # s => run'[r] = run[r]
  BY <1>1, NotRunningIs DEF Types, Kept, Resumptions, Doomed
<1>9. UNCHANGED <<forkQ, timers, within, made, free>>
  BY <1>1 DEF timerVars
<1>10. /\ DOMAIN pool'[s] = DOMAIN pool[s] \ {p.sid}
       /\ \A sid \in DOMAIN pool'[s] : pool'[s][sid] = pool[s][sid]
       /\ \A r \in Services : r # s => pool'[r] = pool[r]
  BY <1>1 DEF Types, Holding, Drop
<1>11. \A d \in Cors : PooledIn(s, d)' => PooledIn(s, d) /\ d # c
  BY <1>2, <1>3, <1>10 DEF PlacesOk, PoolOk, PooledIn
<1>12. \A d \in Cors : HeldIn(s, d)' => HeldIn(s, d)
  BY <1>5, <1>8, <1>9, <1>11 DEF HeldIn, ForkedIn, TimedIn, Runs
<1> HIDE DEF c
<1>13. PlacesOk(s)'
  <2>1. ForksOk(s)'
    BY <1>3, <1>6, <1>7, <1>8, <1>9, <1>11 DEF PlacesOk, ForksOk, ForkedIn, TimedIn, Runs
  <2>2. PoolOk(s)'
    <3>1. \A x, y \in DOMAIN pool'[s] : pool'[s][x] = pool'[s][y] => x = y
      BY <1>3, <1>10 DEF PlacesOk, PoolOk
    <3> QED BY <1>3, <1>4, <1>7, <1>9, <1>11, <3>1 DEF PlacesOk, PoolOk, TimedAt
  <2>3. TimersOk(s)'
    BY <1>3, <1>4, <1>6, <1>7, <1>9 DEF PlacesOk, TimersOk
  <2>4. RunOk(s)'
    BY <1>8 DEF RunOk
  <2>5. AddOk(s)'
    BY <1>4, <1>9 DEF AddOk
  <2> QED BY <2>1, <2>2, <2>3, <2>4, <2>5 DEF PlacesOk
<1>14. \A d \in Cors : free'[d] = free[d]
  BY <1>9
<1> QED BY <1>2, <1>5, <1>7, <1>8, <1>9, <1>10, <1>12, <1>13, <1>14, StepShrinks

LEMMA DispatchMsgPlaces ==
    ASSUME Types, Places, NEW s \in Services, DispatchMsg(s)
    PROVE  Places'
<1>1. PICK p \in Oldest(s), c \in Cors : DispatchMsg(s)!(p, c)
  BY DEF DispatchMsg
<1>2. PlacesOk(s)
  BY DEF Places
<1>3. run[s].cor = NoCor /\ within[s].at = "no" /\ \A id : ~Doomed(s, id)
  BY <1>1, <1>2, InLoopIs
<1>4. GetCoroutine(c) /\ UNCHANGED <<forkQ, pool, timers, within>>
  BY <1>1 DEF timerVars
<1>5. ~HeldIn(s, c)
  BY <1>4, NewIsNowhere DEF Types, Places
<1>6. /\ co'[c].state = "RUNNING"
      /\ \A d \in Cors : d # c => co'[d] = co[d]
  BY <1>1, NewCorIs DEF Types, Kept, Coroutines
<1>7. /\ run'[s].cor = c /\ run'[s].by = "msg" /\ \A id : ~Doomed(s, id)'
      /\ \A r \in Services : r # s => run'[r] = run[r]
  BY <1>1, NotRunningIs DEF Types, Kept, Resumptions, Doomed
<1>8. \A d \in Cors : HeldIn(s, d)' => HeldIn(s, d) \/ d = c
  BY <1>4, <1>7 DEF HeldIn, ForkedIn, PooledIn, TimedIn, Runs
<1>9. PlacesOk(s)'
  <2>1. \A id \in DOMAIN timers[s] : timers[s][id].cor \in Cors /\ timers[s][id].cor # c
    BY <1>5 DEF HeldIn, TimedIn, Types, Holding, Entries
  <2>2. ForksOk(s)'
    BY <1>2, <1>4, <1>5, <1>6, <1>7 DEF PlacesOk, ForksOk, HeldIn, ForkedIn, PooledIn, TimedIn, Runs
  <2>3. PoolOk(s)'
    BY <1>2, <1>3, <1>4, <1>5, <1>6 DEF PlacesOk, PoolOk, HeldIn, PooledIn, TimedAt
  <2>4. TimersOk(s)'
    BY <1>2, <1>3, <1>4, <1>6, <2>1 DEF PlacesOk, TimersOk
  <2>5. RunOk(s)'
    BY <1>7 DEF RunOk
  <2>6. AddOk(s)'
    BY <1>3, <1>4 DEF AddOk
  <2> QED BY <2>2, <2>3, <2>4, <2>5, <2>6 DEF PlacesOk
<1> QED BY <1>4, <1>6, <1>7, <1>8, <1>9, StepGrows

LEMMA DispatchNobodyPlaces ==
    ASSUME Types, Places, NEW s \in Services, DispatchNobody(s)
    PROVE  Places'
<1>1. UNCHANGED <<run, co, made, free, forkQ, pool, timers, within>>
  BY DEF DispatchNobody, corVars, timerVars
<1>2. \A r \in Services : AddOk(r)'
  BY <1>1 DEF Places, PlacesOk, AddOk
<1> QED BY <1>1, <1>2, PlacesStay

\* Back in the loop, the entry of a one-shot timer is gone, and a coroutine that
\* ended is nowhere.
LEMMA BackPlaces ==
    ASSUME Types, Places, NEW s \in Services, Back(s)
    PROVE  Places'
<1>1. PICK c \in Cors : Back(s)!(c)
  BY DEF Back
<1>2. PlacesOk(s)
  BY DEF Places
<1>3. Runs(s, c) /\ HeldIn(s, c) /\ run[s].cor = c /\ co[c].state # "RUNNING"
  BY <1>1 DEF HeldIn, Runs
<1>4. UNCHANGED <<co, made, forkQ, pool, within>>
  BY <1>1
<1>5. within[s].at = "no"
  BY <1>2, <1>3 DEF PlacesOk, AddOk
<1>6. run'[s].cor = NoCor /\ run'[s].by = "none" /\ \A id : ~Doomed(s, id)'
  BY <1>1, NotRunningIs DEF Types, Kept, Doomed
<1>7. /\ \A id : id \in DOMAIN timers'[s] <=> id \in DOMAIN timers[s] /\ ~Doomed(s, id)
      /\ \A id \in DOMAIN timers'[s] : timers'[s][id] = timers[s][id]
  <2>1. CASE OneShot(s)
    <3>1. timers'[s] = Drop(timers[s], run[s].tid)
      BY <1>1, <2>1 DEF Types, Holding
    <3> QED BY <2>1, <3>1 DEF Drop, OneShot, Doomed
  <2>2. CASE ~OneShot(s)
    BY <1>1, <2>2 DEF OneShot, Doomed
  <2> QED BY <2>1, <2>2
<1>8. \A r \in Services : r # s => run'[r] = run[r] /\ timers'[r] = timers[r]
  BY <1>1 DEF Types, Kept, Holding
<1>9. \A d \in Cors : HeldIn(s, d)' => ForkedIn(s, d) \/ PooledIn(s, d) \/ TimedIn(s, d)'
  BY <1>4, <1>6 DEF HeldIn, ForkedIn, PooledIn, Runs, Cors, NoCor
<1>10. \A d \in Cors : HeldIn(s, d)' => HeldIn(s, d)
  BY <1>7, <1>9 DEF HeldIn, TimedIn
<1>11. PlacesOk(s)'
  <2>1. \A id \in DOMAIN timers'[s] : id \in DOMAIN timers[s] /\ ~Doomed(s, id) /\ id \in Nat
    BY <1>7 DEF Types, Holding
  <2>2. ForksOk(s)'
    BY <1>2, <1>4, <1>6, <1>7
       DEF PlacesOk, ForksOk, ForkedIn, PooledIn, TimedIn, Runs, Cors, NoCor
  <2>3. PoolOk(s)'
    BY <1>2, <1>4, <1>7 DEF PlacesOk, PoolOk, PooledIn, TimedAt
  <2>4. TimersOk(s)'
    BY <1>2, <1>4, <1>7, <2>1 DEF PlacesOk, TimersOk
  <2>5. RunOk(s)'
    BY <1>6 DEF RunOk
  <2>6. AddOk(s)'
    BY <1>4, <1>5 DEF AddOk
  <2> QED BY <2>2, <2>3, <2>4, <2>5, <2>6 DEF PlacesOk
<1>12. \A d \in Cors : d # c => free'[d] = free[d]
  BY <1>1 DEF Types, Kept
<1>13. \/ free'[c] = free[c]
       \/ free'[c] = free[c] + 1 /\ co'[c].state # "RUNNING" /\ ~HeldIn(s, c)'
  <2>1. CASE co[c].state = "STOPPED"
    <3>1. free'[c] = free[c] + 1
      BY <1>1, <2>1 DEF Types, Kept, Done
    <3>2. ~ForkedIn(s, c) /\ ~PooledIn(s, c)
      BY <1>2, <2>1 DEF PlacesOk, ForksOk, PoolOk
    <3>3. ~TimedIn(s, c)'
      BY <1>2, <1>7, <2>1 DEF PlacesOk, TimersOk, TimedIn
    <3> QED BY <1>4, <1>9, <2>1, <3>1, <3>2, <3>3
  <2>2. CASE co[c].state # "STOPPED"
    BY <1>1, <2>2 DEF Types, Kept, Done
  <2> QED BY <2>1, <2>2
<1>14. \A d \in Cors : co'[d] = co[d]
  BY <1>4
<1> QED BY <1>3, <1>4, <1>8, <1>10, <1>11, <1>12, <1>13, <1>14, StepShrinks

-----------------------------------------------------------------------------
(* Places: the API and the wheel.                                          *)

LEMMA SendPlaces ==
    ASSUME Types, Places, NEW s \in Services, NEW c \in Cors, Send(s, c)
    PROVE  Places'
<1>1. UNCHANGED <<run, co, made, free, forkQ, pool, timers, within>>
  BY DEF Send, corVars, timerVars
<1>2. \A r \in Services : AddOk(r)'
  BY <1>1 DEF Places, PlacesOk, AddOk
<1> QED BY <1>1, <1>2, PlacesStay

LEMMA SetReturnPlaces ==
    ASSUME Types, Places, NEW s \in Services, NEW c \in Cors, SetReturn(s, c)
    PROVE  Places'
<1>1. UNCHANGED <<run, made, free, forkQ, pool, timers, within>>
  BY DEF SetReturn, timerVars
<1>2. \A d \in Cors : co'[d].state = co[d].state /\ co'[d].job = co[d].job
  BY DEF SetReturn, Types, Kept, Coroutines
<1>3. \A r \in Services : run[r].cor # NoCor => run[r].cor \in Cors
  BY DEF Types, Kept, Resumptions
<1>4. \A r \in Services : AddOk(r)'
  BY <1>1, <1>2, <1>3 DEF Places, PlacesOk, AddOk
<1> QED BY <1>1, <1>2, <1>4, PlacesStay

LEMMA CallPlaces ==
    ASSUME Types, Places, Refrains, NEW s \in Services, NEW c \in Cors, Call(s, c)
    PROVE  Places'
<1>1. PICK d \in Services, sid \in GetSession(s) : Call(s, c)!(d, sid)
  BY DEF Call
<1>2. UNCHANGED <<run, co, made, free, forkQ, pool, timers>>
  BY <1>1 DEF corVars
<1>3. /\ within'[s].at = "suspend" /\ within'[s].op = "call" /\ within'[s].session = sid
      /\ \A r \in Services : r # s => within'[r] = within[r]
  BY <1>1 DEF Types, Holding
<1>4. /\ sid \in Sids \ DOMAIN pool[s]
      /\ run[s].cor = c /\ c # NoCor /\ co[c].state = "RUNNING" /\ co[c].job # "loop"
  BY <1>1 DEF GetSession, InCode, Executes, MayBlock, Refrains
<1>5. \A r \in Services : AddOk(r)'
  BY <1>2, <1>3, <1>4 DEF Places, PlacesOk, AddOk
<1> QED BY <1>2, <1>5, PlacesStay

LEMMA SuspendPlaces ==
    ASSUME Types, Places, NEW s \in Services, NEW c \in Cors, Suspend(s, c)
    PROVE  Places'
<1>1. PICK sid : sid = within[s].session
  OBVIOUS
<1>2. PlacesOk(s)
  BY DEF Places
<1>3. Executes(s, c) /\ co[c].job # "loop" /\ sid \in Sids \ DOMAIN pool[s]
  BY <1>1, <1>2 DEF Suspend, Executes, PlacesOk, AddOk
<1>4. /\ run[s].cor = c /\ co[c].state = "RUNNING" /\ HeldIn(s, c)
      /\ ~ForkedIn(s, c) /\ ~PooledIn(s, c)
      /\ \A id \in Nat : TimedAt(s, id, c) => Doomed(s, id)
  BY <1>2, <1>3, CodeIs
<1>5. /\ UNCHANGED <<run, forkQ, timers, made, free>>
      /\ within'[s].at = "no" /\ \A r \in Services : r # s => within'[r] = within[r]
  BY NotWithinIs DEF Suspend, Types, Holding
<1>6. /\ sid \notin DOMAIN pool[s]
      /\ DOMAIN pool'[s] = DOMAIN pool[s] \cup {sid} /\ pool'[s][sid] = c
      /\ \A x \in DOMAIN pool[s] : pool'[s][x] = pool[s][x]
      /\ \A r \in Services : r # s => pool'[r] = pool[r]
  BY <1>1, <1>3 DEF Suspend, Types, Holding, Put
<1>7. /\ co'[c].state = "SUSPENDED" /\ co'[c].job = co[c].job
      /\ \A e \in Cors : e # c => co'[e] = co[e]
  BY DEF Suspend, Types, Kept, Coroutines
<1>8. \A e \in Cors : PooledIn(s, e)' <=> PooledIn(s, e) \/ e = c
  BY <1>6 DEF PooledIn
<1>9. \A e \in Cors : HeldIn(s, e)' => HeldIn(s, e)
  BY <1>4, <1>5, <1>8 DEF HeldIn, ForkedIn, TimedIn, Runs
<1>10. PlacesOk(s)'
  <2>1. ForksOk(s)'
    BY <1>2, <1>4, <1>5, <1>7, <1>8 DEF PlacesOk, ForksOk, ForkedIn, TimedIn, Runs
  <2>2. PoolOk(s)'
    <3>1. \A x, y \in DOMAIN pool'[s] : pool'[s][x] = pool'[s][y] => x = y
      BY <1>2, <1>4, <1>6 DEF PlacesOk, PoolOk, PooledIn
    <3> QED BY <1>2, <1>4, <1>5, <1>7, <1>8, <3>1 DEF PlacesOk, PoolOk, TimedAt, Doomed
  <2>3. TimersOk(s)'
    <3>1. \A id \in DOMAIN timers[s] : timers[s][id].cor \in Cors /\ id \in Nat
      BY DEF Types, Holding, Entries
    <3>2. \A id \in DOMAIN timers[s] : ~Doomed(s, id) => timers[s][id].cor # c
      BY <1>4, <3>1 DEF TimedAt
    <3> QED BY <1>2, <1>5, <1>7, <3>1, <3>2 DEF PlacesOk, TimersOk, Doomed
  <2>4. RunOk(s)'
    BY <1>2, <1>5 DEF PlacesOk, RunOk, Doomed, TimedAt
  <2>5. AddOk(s)'
    BY <1>5 DEF AddOk
  <2> QED BY <2>1, <2>2, <2>3, <2>4, <2>5 DEF PlacesOk
<1>11. \A e \in Cors : free'[e] = free[e]
  BY <1>5
<1> QED BY <1>4, <1>5, <1>6, <1>7, <1>9, <1>10, <1>11, StepShrinks

LEMMA ForkPlaces ==
    ASSUME Types, Places, NEW s \in Services, NEW c \in Cors, Fork(s, c)
    PROVE  Places'
<1>1. PICK new \in Cors : Fork(s, c)!(new)
  BY DEF Fork
<1> DEFINE q == forkQ[s]
<1>2. PlacesOk(s)
  BY DEF Places
<1>3. GetCoroutine(new) /\ within[s].at = "no" /\ UNCHANGED <<run, pool, timers, within>>
  BY <1>1 DEF InCode, timerVars
<1>4. ~HeldIn(s, new)
  BY <1>3, NewIsNowhere DEF Types, Places
<1>5. /\ co'[new].state = "INIT"
      /\ \A e \in Cors : e # new => co'[e] = co[e]
  BY <1>1, NewCorIs DEF Types, Kept
<1>6. /\ q \in Seq(Cors) /\ Len(q) \in Nat /\ Len(forkQ'[s]) = Len(q) + 1
      /\ forkQ'[s][Len(q) + 1] = new
      /\ \A i \in 1..Len(q) : forkQ'[s][i] = q[i] /\ q[i] # new
      /\ \A r \in Services : r # s => forkQ'[r] = forkQ[r]
  <2>1. \A i \in 1..Len(q) : q[i] # new
    BY <1>4 DEF HeldIn, ForkedIn
  <2>2. forkQ' = [forkQ EXCEPT ![s] = Append(q, new)]
    BY <1>1
  <2>3. forkQ \in [Services -> Seq(Cors)] /\ q \in Seq(Cors)
    BY DEF Types, Holding
  <2>4. forkQ'[s] = Append(q, new) /\ \A r \in Services : r # s => forkQ'[r] = forkQ[r]
    BY <2>2, <2>3
  <2>5. /\ Len(q) \in Nat /\ Len(Append(q, new)) = Len(q) + 1
        /\ Append(q, new)[Len(q) + 1] = new
        /\ \A i \in 1..Len(q) : Append(q, new)[i] = q[i]
    <3> HIDE DEF q
    <3> QED BY <2>3
  <2> HIDE DEF q
  <2> QED BY <2>1, <2>3, <2>4, <2>5
<1>7. \A e \in Cors : ForkedIn(s, e)' <=> ForkedIn(s, e) \/ e = new
  <2>1. PICK n \in Nat : n = Len(q)
    BY <1>6
  <2>2. /\ Len(forkQ'[s]) = n + 1 /\ forkQ'[s][n + 1] = new /\ n + 1 \in 1..(n + 1)
        /\ \A i \in 1..n : i \in 1..(n + 1) /\ forkQ'[s][i] = forkQ[s][i]
        /\ \A i \in 1..(n + 1) : i \in 1..n \/ i = n + 1
    BY <1>6, <2>1
  <2>3. n = Len(forkQ[s])
    BY <2>1
  <2> HIDE DEF q
  <2> QED BY <2>2, <2>3 DEF ForkedIn
<1>8. \A e \in Cors : HeldIn(s, e)' => HeldIn(s, e) \/ e = new
  BY <1>3, <1>7 DEF HeldIn, PooledIn, TimedIn, Runs
<1>9. PlacesOk(s)'
  <2>1. \A id \in DOMAIN timers[s] : timers[s][id].cor \in Cors /\ timers[s][id].cor # new
    BY <1>4 DEF HeldIn, TimedIn, Types, Holding, Entries
  <2>2. ForksOk(s)'
    <3>1. \A i, j \in 1..Len(forkQ'[s]) : forkQ'[s][i] = forkQ'[s][j] => i = j
      <4> SUFFICES ASSUME NEW i \in 1..(Len(q) + 1), NEW j \in 1..(Len(q) + 1),
                          forkQ'[s][i] = forkQ'[s][j]
                   PROVE  i = j
        BY <1>6
      <4>1. \A k \in 1..(Len(q) + 1) : k \in 1..Len(q) \/ k = Len(q) + 1
        BY <1>6
      <4>2. \A k, l \in 1..Len(q) : q[k] = q[l] => k = l
        BY <1>2 DEF PlacesOk, ForksOk
      <4> HIDE DEF q
      <4> QED BY <1>6, <4>1, <4>2
    <3>2. \A e \in Cors : ForkedIn(s, e)' =>
            co'[e].state = "INIT" /\ ~PooledIn(s, e) /\ ~TimedIn(s, e) /\ ~Runs(s, e)
      BY <1>2, <1>4, <1>5, <1>7 DEF PlacesOk, ForksOk, HeldIn
    <3> QED BY <1>3, <3>1, <3>2 DEF ForksOk, PooledIn, TimedIn, Runs
  <2>3. PoolOk(s)'
    BY <1>2, <1>3, <1>4, <1>5 DEF PlacesOk, PoolOk, HeldIn, PooledIn, TimedAt, Doomed
  <2>4. TimersOk(s)'
    BY <1>2, <1>3, <1>5, <2>1 DEF PlacesOk, TimersOk, Doomed
  <2>5. RunOk(s)'
    BY <1>2, <1>3 DEF PlacesOk, RunOk, Doomed, TimedAt
  <2>6. AddOk(s)'
    BY <1>3 DEF AddOk
  <2> QED BY <2>2, <2>3, <2>4, <2>5, <2>6 DEF PlacesOk
<1> QED BY <1>3, <1>5, <1>6, <1>8, <1>9, StepGrows

LEMMA LoadIdPlaces ==
    ASSUME Types, Places, Refrains, NEW s \in Services, NEW c \in Cors, LoadId(s, c)
    PROVE  Places'
<1>1. PICK op \in {"sleep", "once", "loop"} : LoadId(s, c)!(op)
  BY DEF LoadId
<1>2. UNCHANGED <<run, co, made, free, forkQ, pool, timers>>
  BY <1>1 DEF corVars
<1>3. /\ within'[s].at = "store" /\ within'[s].op = op
      /\ run[s].cor = c /\ c # NoCor /\ co[c].state = "RUNNING"
      /\ op = "sleep" => co[c].job # "loop"
  BY <1>1 DEF Types, Holding, InCode, Executes, MayBlock, Refrains
<1>4. \A r \in Services : r # s => within'[r] = within[r]
  BY <1>1 DEF Types, Holding
<1>5. \A r \in Services : AddOk(r)'
  BY <1>2, <1>3, <1>4 DEF Places, PlacesOk, AddOk
<1> QED BY <1>2, <1>5, PlacesStay

LEMMA StoreIdPlaces ==
    ASSUME Types, Places, NEW s \in Services, NEW c \in Cors, StoreId(s, c)
    PROVE  Places'
<1>1. UNCHANGED <<run, co, made, free, forkQ, pool, timers>>
  BY DEF StoreId, corVars
<1>2. /\ within[s].at = "store" /\ within'[s].at = "key" /\ within'[s].op = within[s].op
      /\ \A r \in Services : r # s => within'[r] = within[r]
  BY DEF StoreId, Types, Holding, Additions
<1>3. \A r \in Services : AddOk(r)'
  BY <1>1, <1>2 DEF Places, PlacesOk, AddOk
<1> QED BY <1>1, <1>3, PlacesStay

LEMMA RegisterSleepPlaces ==
    ASSUME Types, Places, NEW s \in Services, NEW c \in Cors, RegisterSleep(s, c)
    PROVE  Places'
<1>1. PlacesOk(s)
  BY DEF Places
<1>2. Executes(s, c) /\ Armed(s, c, FALSE) /\ within[s].at = "key" /\ within[s].op = "sleep"
  BY DEF RegisterSleep
<1>3. UNCHANGED <<run, made, free, forkQ, pool, lastId>>
  BY DEF RegisterSleep
<1>4. /\ run[s].cor = c /\ co[c].state = "RUNNING" /\ HeldIn(s, c)
      /\ ~ForkedIn(s, c) /\ ~PooledIn(s, c)
      /\ co[c].job # "loop" /\ \A id \in Nat : TimedAt(s, id, c) => Doomed(s, id)
  BY <1>1, <1>2, CodeIs DEF PlacesOk, AddOk
<1>5. /\ lastId \notin DOMAIN timers[s] /\ lastId \in Nat
      /\ DOMAIN timers'[s] = DOMAIN timers[s] \cup {lastId}
      /\ timers'[s][lastId].cor = c /\ timers'[s][lastId].loop = FALSE
      /\ \A id \in DOMAIN timers[s] : timers'[s][id] = timers[s][id]
      /\ \A r \in Services : r # s => timers'[r] = timers[r] /\ within'[r] = within[r]
      /\ within'[s].at = "no"
  BY <1>2, <1>3, ArmedTypes
<1>6. /\ co'[c].state = "SUSPENDED" /\ co'[c].job = co[c].job
      /\ \A d \in Cors : d # c => co'[d] = co[d]
  BY DEF RegisterSleep, Types, Kept, Coroutines
<1>7. \A d \in Cors : TimedIn(s, d)' <=> TimedIn(s, d) \/ d = c
  BY <1>5 DEF TimedIn
<1>8. \A d \in Cors : HeldIn(s, d)' => HeldIn(s, d)
  BY <1>3, <1>4, <1>7 DEF HeldIn, ForkedIn, PooledIn, Runs
<1>9. PlacesOk(s)'
  <2>1. ForksOk(s)'
    BY <1>1, <1>3, <1>4, <1>6, <1>7 DEF PlacesOk, ForksOk, ForkedIn, PooledIn, Runs
  <2>2. PoolOk(s)'
    BY <1>1, <1>3, <1>4, <1>5, <1>6 DEF PlacesOk, PoolOk, PooledIn, TimedAt, Doomed
  <2>3. TimersOk(s)'
    <3>1. \A id \in DOMAIN timers[s] : timers[s][id].cor \in Cors /\ id \in Nat
      BY DEF Types, Holding, Entries
    <3>2. \A id \in DOMAIN timers[s] : ~Doomed(s, id) => timers[s][id].cor # c
      BY <1>4, <3>1 DEF TimedAt
    <3>3. \A id : Doomed(s, id)' <=> Doomed(s, id)
      BY <1>3 DEF Doomed
    <3>4. \A id \in DOMAIN timers'[s] : id = lastId \/ id \in DOMAIN timers[s]
      BY <1>5
    <3>5. \A id \in DOMAIN timers'[s] : timers'[s][id].loop <=> co'[timers'[s][id].cor].job = "loop"
      BY <1>1, <1>4, <1>5, <1>6, <3>1, <3>4 DEF PlacesOk, TimersOk
    <3>6. \A id \in DOMAIN timers'[s] : ~Doomed(s, id) =>
            /\ co'[timers'[s][id].cor].state # "STOPPED"
            /\ co'[timers'[s][id].cor].state = "RUNNING" => co'[timers'[s][id].cor].job = "loop"
      BY <1>1, <1>4, <1>5, <1>6, <3>1, <3>2, <3>4 DEF PlacesOk, TimersOk
    <3>7. \A x, y \in DOMAIN timers'[s] : ~Doomed(s, x) /\ ~Doomed(s, y) =>
            (timers'[s][x].cor = timers'[s][y].cor => x = y)
      BY <1>1, <1>5, <3>2, <3>4 DEF PlacesOk, TimersOk
    <3> QED BY <3>3, <3>5, <3>6, <3>7 DEF TimersOk
  <2>4. RunOk(s)'
    BY <1>1, <1>3, <1>5 DEF PlacesOk, RunOk, Doomed, TimedAt
  <2>5. AddOk(s)'
    BY <1>5 DEF AddOk
  <2> QED BY <2>1, <2>2, <2>3, <2>4, <2>5 DEF PlacesOk
<1>10. \A d \in Cors : free'[d] = free[d]
  BY <1>3
<1> QED BY <1>3, <1>4, <1>5, <1>6, <1>8, <1>9, <1>10, StepShrinks

LEMMA RegisterCallbackPlaces ==
    ASSUME Types, Places, NEW s \in Services, NEW c \in Cors, RegisterCallback(s, c)
    PROVE  Places'
<1>1. PICK new \in Cors : RegisterCallback(s, c)!(new)
  BY DEF RegisterCallback
<1> DEFINE op == within[s].op
<1>2. PlacesOk(s)
  BY DEF Places
<1>3. op \in {"once", "loop"} /\ within[s].at = "key" /\ Armed(s, new, op = "loop")
      /\ GetCoroutine(new)
  BY <1>1
<1>4. UNCHANGED <<run, forkQ, pool, lastId>>
  BY <1>1
<1>5. /\ lastId \notin DOMAIN timers[s] /\ lastId \in Nat
      /\ DOMAIN timers'[s] = DOMAIN timers[s] \cup {lastId}
      /\ timers'[s][lastId].cor = new /\ timers'[s][lastId].loop = (op = "loop")
      /\ \A id \in DOMAIN timers[s] : timers'[s][id] = timers[s][id]
      /\ \A r \in Services : r # s => timers'[r] = timers[r] /\ within'[r] = within[r]
      /\ within'[s].at = "no"
  <2>1. (op = "loop") \in BOOLEAN
    OBVIOUS
  <2> QED BY <1>3, <1>4, <2>1, ArmedTypes
<1>6. ~HeldIn(s, new)
  BY <1>3, NewIsNowhere DEF Types, Places
<1>7. /\ co'[new].state = "INIT" /\ co'[new].job = op
      /\ \A d \in Cors : d # new => co'[d] = co[d]
  <2>1. NewCor(op) \in Coroutines /\ NewCor(op).state = "INIT" /\ NewCor(op).job = op
    BY <1>3, NewCorIs
  <2> DEFINE k == [NewCor(op) EXCEPT !.tid = lastId, !.wants = Tick(lastId)]
  <2>2. k.state = "INIT" /\ k.job = op
    BY <2>1 DEF Coroutines
  <2>3. co' = [co EXCEPT ![new] = k]
    BY <1>1
  <2> HIDE DEF k
  <2> QED BY <2>2, <2>3 DEF Types, Kept
<1>8. \A d \in Cors : TimedIn(s, d)' <=> TimedIn(s, d) \/ d = new
  BY <1>5 DEF TimedIn
<1>9. \A d \in Cors : HeldIn(s, d)' => HeldIn(s, d) \/ d = new
  BY <1>4, <1>8 DEF HeldIn, ForkedIn, PooledIn, Runs
<1> HIDE DEF op
<1>10. PlacesOk(s)'
  <2>1. ForksOk(s)'
    BY <1>2, <1>4, <1>6, <1>7, <1>8 DEF PlacesOk, ForksOk, HeldIn, ForkedIn, PooledIn, Runs
  <2>2. PoolOk(s)'
    BY <1>2, <1>4, <1>5, <1>6, <1>7 DEF PlacesOk, PoolOk, HeldIn, PooledIn, TimedAt, Doomed
  <2>3. TimersOk(s)'
    <3>1. \A id \in DOMAIN timers[s] : timers[s][id].cor \in Cors /\ timers[s][id].cor # new
      BY <1>6 DEF HeldIn, TimedIn, Types, Holding, Entries
    <3>2. \A id : Doomed(s, id)' <=> Doomed(s, id)
      BY <1>4 DEF Doomed
    <3>3. \A id \in DOMAIN timers'[s] : id = lastId \/ id \in DOMAIN timers[s]
      BY <1>5
    <3>4. \A id \in DOMAIN timers'[s] : timers'[s][id].loop <=> co'[timers'[s][id].cor].job = "loop"
      <4>1. timers'[s][lastId].loop <=> co'[timers'[s][lastId].cor].job = "loop"
        BY <1>5, <1>7
      <4>2. \A id \in DOMAIN timers[s] :
              timers'[s][id] = timers[s][id] /\ co'[timers[s][id].cor] = co[timers[s][id].cor]
        BY <1>5, <1>7, <3>1
      <4>3. \A id \in DOMAIN timers[s] : timers[s][id].loop <=> co[timers[s][id].cor].job = "loop"
        BY <1>2 DEF PlacesOk, TimersOk
      <4> QED BY <3>3, <4>1, <4>2, <4>3
    <3>5. \A id \in DOMAIN timers'[s] : ~Doomed(s, id) =>
            /\ co'[timers'[s][id].cor].state # "STOPPED"
            /\ co'[timers'[s][id].cor].state = "RUNNING" => co'[timers'[s][id].cor].job = "loop"
      <4>1. co'[timers'[s][lastId].cor].state = "INIT"
        BY <1>5, <1>7
      <4>2. \A id \in DOMAIN timers[s] : co'[timers'[s][id].cor] = co[timers[s][id].cor]
        BY <1>5, <1>7, <3>1
      <4> QED BY <1>2, <3>3, <4>1, <4>2 DEF PlacesOk, TimersOk
    <3>6. \A x, y \in DOMAIN timers'[s] : ~Doomed(s, x) /\ ~Doomed(s, y) =>
            (timers'[s][x].cor = timers'[s][y].cor => x = y)
      BY <1>2, <1>5, <3>1, <3>3 DEF PlacesOk, TimersOk
    <3> QED BY <3>2, <3>4, <3>5, <3>6 DEF TimersOk
  <2>4. RunOk(s)'
    BY <1>2, <1>4, <1>5 DEF PlacesOk, RunOk, Doomed, TimedAt
  <2>5. AddOk(s)'
    BY <1>5 DEF AddOk
  <2> QED BY <2>1, <2>2, <2>3, <2>4, <2>5 DEF PlacesOk
<1>11. \A r \in Services : r # s => forkQ'[r] = forkQ[r] /\ pool'[r] = pool[r] /\ run'[r] = run[r]
  BY <1>4
<1> QED BY <1>3, <1>5, <1>7, <1>9, <1>10, <1>11, StepGrows

\* The callback whose timer is removed waited for nothing but that timer.
LEMMA RemoveTimerPlaces ==
    ASSUME Types, Places, Refrains, NEW s \in Services, NEW c \in Cors, RemoveTimer(s, c)
    PROVE  Places'
<1>1. PICK id \in DOMAIN timers[s] : RemoveTimer(s, c)!(id)
  BY DEF RemoveTimer
<1>2. PICK x \in Cors : x = timers[s][id].cor
  BY DEF Types, Holding, Entries
<1>3. PlacesOk(s) /\ id \in Nat
  BY DEF Places, Types, Holding
<1>4. co[x].state \in {"INIT", "SUSPENDED"}
  BY <1>1, <1>2 DEF Refrains, Idle
<1>5. run[s].cor = c /\ co[c].state = "RUNNING" /\ within[s].at = "no"
  BY <1>1 DEF InCode, Executes
<1>6. \A j \in Nat : Doomed(s, j) => j \in DOMAIN timers[s] /\ timers[s][j].cor = c /\ j # id
  BY <1>2, <1>3, <1>4, <1>5 DEF PlacesOk, RunOk, TimedAt
<1>7. TimedAt(s, id, x) /\ TimedIn(s, x) /\ HeldIn(s, x) /\ ~Doomed(s, id)
  BY <1>2, <1>3, <1>6 DEF TimedAt, TimedIn, HeldIn
<1>8. ~ForkedIn(s, x) /\ ~PooledIn(s, x) /\ ~Runs(s, x)
  BY <1>2, <1>3, <1>4, <1>5, <1>7 DEF PlacesOk, ForksOk, PoolOk, Runs
<1>9. UNCHANGED <<run, co, made, forkQ, pool, within>>
  BY <1>1
<1>10. /\ DOMAIN timers'[s] = DOMAIN timers[s] \ {id}
       /\ \A j \in DOMAIN timers'[s] : timers'[s][j] = timers[s][j]
       /\ \A r \in Services : r # s => timers'[r] = timers[r]
  BY <1>1 DEF Types, Holding, Drop
<1>11. ~TimedIn(s, x)'
  <2> SUFFICES ASSUME NEW j \in DOMAIN timers[s], j # id, timers[s][j].cor = x
               PROVE  FALSE
    BY <1>10 DEF TimedIn
  <2>1. j \in Nat
    BY DEF Types, Holding
  <2>2. ~Doomed(s, j)
    BY <1>4, <1>5, <1>6, <2>1
  <2> QED BY <1>2, <1>3, <1>7, <2>2 DEF PlacesOk, TimersOk
<1>12. \A d \in Cors : TimedIn(s, d)' => TimedIn(s, d)
  BY <1>10 DEF TimedIn
<1>13. \A d \in Cors : HeldIn(s, d)' => HeldIn(s, d)
  BY <1>9, <1>12 DEF HeldIn, ForkedIn, PooledIn, Runs
<1>14. ~HeldIn(s, x)'
  BY <1>8, <1>9, <1>11 DEF HeldIn, ForkedIn, PooledIn, Runs
<1>15. free'[x] = free[x] + 1 /\ \A d \in Cors : d # x => free'[d] = free[d]
  BY <1>1, <1>2, <1>3 DEF Types, Kept
<1>16. PlacesOk(s)'
  <2>1. ForksOk(s)'
    BY <1>2, <1>3, <1>9, <1>12 DEF PlacesOk, ForksOk, ForkedIn, PooledIn, Runs
  <2>2. PoolOk(s)'
    BY <1>2, <1>3, <1>9, <1>10 DEF PlacesOk, PoolOk, PooledIn, TimedAt, Doomed
  <2>3. TimersOk(s)'
    BY <1>2, <1>3, <1>9, <1>10 DEF PlacesOk, TimersOk, Doomed
  <2>4. RunOk(s)'
    BY <1>2, <1>3, <1>5, <1>6, <1>9, <1>10 DEF PlacesOk, RunOk, Doomed, TimedAt
  <2>5. AddOk(s)'
    BY <1>5, <1>9 DEF AddOk
  <2> QED BY <2>1, <2>2, <2>3, <2>4, <2>5 DEF PlacesOk
<1>17. co'[x].state # "RUNNING" /\ \A d \in Cors : co'[d] = co[d]
  BY <1>4, <1>9
<1>18. \A r \in Services : r # s =>
         /\ forkQ'[r] = forkQ[r] /\ pool'[r] = pool[r] /\ timers'[r] = timers[r]
         /\ run'[r] = run[r] /\ within'[r] = within[r]
  BY <1>9, <1>10
<1>19. made' = made
  BY <1>9
<1> QED BY <1>7, <1>13, <1>14, <1>15, <1>16, <1>17, <1>18, <1>19, StepShrinks

LEMMA FinishPlaces ==
    ASSUME Types, Places, NEW s \in Services, NEW c \in Cors, Finish(s, c)
    PROVE  Places'
<1>1. PlacesOk(s)
  BY DEF Places
<1>2. Executes(s, c) /\ within[s].at = "no"
  BY DEF Finish, InCode
<1>3. /\ run[s].cor = c /\ co[c].state = "RUNNING" /\ HeldIn(s, c)
      /\ ~ForkedIn(s, c) /\ ~PooledIn(s, c)
      /\ co[c].job # "loop" => \A id \in Nat : TimedAt(s, id, c) => Doomed(s, id)
  BY <1>1, <1>2, CodeIs
<1>4. UNCHANGED <<run, made, free, forkQ, pool, within>>
  BY FinishIs
<1>5. CASE co' = co
  <2>1. /\ \A r \in Services : DOMAIN timers'[r] = DOMAIN timers[r]
        /\ \A r \in Services : \A id \in DOMAIN timers[r] :
             timers'[r][id].cor = timers[r][id].cor /\ timers'[r][id].loop = timers[r][id].loop
    <3>1. CASE timers' = timers
      BY <3>1
    <3>2. CASE timers' # timers
      <4>1. PICK id \in DOMAIN timers[s] :
              timers' = [timers EXCEPT ![s][id].pending = @ - 1]
        BY <3>2, FinishIs
      <4> DEFINE t == timers[s][id]
      <4>2. timers' = [timers EXCEPT ![s] = [timers[s] EXCEPT ![id] = [t EXCEPT !.pending = @ - 1]]]
        BY <4>1
      <4>3. t \in Entries
        BY DEF Types, Holding
      <4>4. [t EXCEPT !.pending = @ - 1].cor = t.cor /\ [t EXCEPT !.pending = @ - 1].loop = t.loop
        BY <4>3 DEF Entries
      <4> QED BY <4>2, <4>4 DEF Types, Holding
    <3> QED BY <3>1, <3>2
  <2>2. \A r \in Services : AddOk(r)'
    BY <1>4, <1>5 DEF Places, PlacesOk, AddOk
  <2> QED BY <1>4, <1>5, <2>1, <2>2, PlacesStay
<1>6. CASE co' # co
  <2>1. timers' = timers
    BY <1>6, FinishIs
  <2>2. /\ \/ co'[c].state = "SUSPENDED" /\ co'[c].job = co[c].job
           \/ co'[c].state = "STOPPED" /\ co'[c].job # "loop" /\ co[c].job # "loop"
        /\ \A d \in Cors : d # c => co'[d] = co[d]
    <3>1. co \in [Cors -> Coroutines] /\ co[c] \in Coroutines
      BY DEF Types, Kept
    <3>2. Stopped(co[c]).state = "STOPPED" /\ Stopped(co[c]).job = "none"
      BY <3>1, StoppedIs
    <3>3. CASE co' = [co EXCEPT ![c].state = "SUSPENDED", ![c].wants = Tick(co[c].tid)]
      BY <3>1, <3>3 DEF Coroutines
    <3>4. CASE co' = [co EXCEPT ![c] = Stopped(@)] /\ co[c].job # "loop"
      BY <3>1, <3>2, <3>4
    <3> QED BY <1>6, <3>3, <3>4, FinishIs
  <2>3. \A d \in Cors : HeldIn(s, d)' => HeldIn(s, d)
    BY <1>4, <2>1 DEF HeldIn, ForkedIn, PooledIn, TimedIn, Runs
  <2>4. PlacesOk(s)'
    <3>1. ForksOk(s)'
      BY <1>1, <1>3, <1>4, <2>1, <2>2 DEF PlacesOk, ForksOk, ForkedIn, PooledIn, TimedIn, Runs
    <3>2. PoolOk(s)'
      BY <1>1, <1>3, <1>4, <2>1, <2>2 DEF PlacesOk, PoolOk, PooledIn, TimedAt, Doomed
    <3>3. TimersOk(s)'
      <4>1. \A id \in DOMAIN timers[s] : timers[s][id].cor \in Cors /\ id \in Nat
        BY DEF Types, Holding, Entries
      <4>2. co[c].job # "loop" =>
              \A id \in DOMAIN timers[s] : ~Doomed(s, id) => timers[s][id].cor # c
        BY <1>3, <4>1 DEF TimedAt
      <4>3. \A id \in DOMAIN timers[s] : timers[s][id].loop <=> co'[timers[s][id].cor].job = "loop"
        BY <1>1, <2>2, <4>1 DEF PlacesOk, TimersOk
      <4>4. \A id \in DOMAIN timers[s] : ~Doomed(s, id) =>
              /\ co'[timers[s][id].cor].state # "STOPPED"
              /\ co'[timers[s][id].cor].state = "RUNNING" => co'[timers[s][id].cor].job = "loop"
        BY <1>1, <2>2, <4>1, <4>2 DEF PlacesOk, TimersOk
      <4> QED BY <1>1, <1>4, <2>1, <4>3, <4>4 DEF PlacesOk, TimersOk, Doomed
    <3>4. RunOk(s)'
      BY <1>1, <1>4, <2>1 DEF PlacesOk, RunOk, Doomed, TimedAt
    <3>5. AddOk(s)'
      BY <1>2, <1>4 DEF AddOk
    <3> QED BY <3>1, <3>2, <3>3, <3>4, <3>5 DEF PlacesOk
  <2>5. \A d \in Cors : free'[d] = free[d]
    BY <1>4
  <2> QED BY <1>3, <1>4, <2>1, <2>2, <2>3, <2>4, <2>5, StepShrinks
<1> QED BY <1>5, <1>6

LEMMA WheelPlaces ==
    ASSUME Types, Places, NEW t \in wheel, Expire(t) \/ Forget(t)
    PROVE  Places'
<1>1. UNCHANGED <<run, co, made, free, forkQ, pool, timers, within>>
  BY DEF Expire, Forget, corVars
<1>2. \A r \in Services : AddOk(r)'
  BY <1>1 DEF Places, PlacesOk, AddOk
<1> QED BY <1>1, <1>2, PlacesStay

-----------------------------------------------------------------------------
(* The invariant.                                                          *)

LEMMA Begins == Init => IInv
<1> SUFFICES ASSUME Init PROVE IInv
  OBVIOUS
<1>1. \A s \in Services :
        /\ Len(forkQ[s]) = 0 /\ DOMAIN pool[s] = {} /\ DOMAIN timers[s] = {}
        /\ run[s].cor = NoCor /\ run[s].by = "none" /\ within[s].at = "no"
  BY NotRunningIs, NotWithinIs DEF Init
<1>2. \A s \in Services, c \in Cors : ~HeldIn(s, c)
  BY <1>1 DEF HeldIn, ForkedIn, PooledIn, TimedIn, Runs, Cors, NoCor
<1>3. Belongs /\ Made /\ Freed
  BY <1>2 DEF Belongs, Made, Freed, Init
<1>4. ASSUME NEW s \in Services PROVE PlacesOk(s)
  BY <1>1 DEF PlacesOk, ForksOk, PoolOk, TimersOk, RunOk, AddOk, ForkedIn, PooledIn, Doomed
<1>5. Places
  BY <1>3, <1>4 DEF Places
<1> QED BY <1>5, TypesBegin DEF IInv

LEMMA PlacesContinue ==
    ASSUME Types, Places, Refrains, [Next]_vars
    PROVE  Places'
<1>1. ASSUME NEW s \in Services, Loop(s) PROVE Places'
  BY <1>1, ResumeForkPlaces, DispatchTimerPlaces, DropTimerPlaces, DispatchRetPlaces,
     DispatchMsgPlaces, DispatchNobodyPlaces, BackPlaces DEF Loop
<1>2. ASSUME NEW s \in Services, NEW c \in Cors, Code(s, c) PROVE Places'
  BY <1>2, SendPlaces, CallPlaces, SuspendPlaces, SetReturnPlaces, ForkPlaces, LoadIdPlaces,
     StoreIdPlaces, RegisterSleepPlaces, RegisterCallbackPlaces, RemoveTimerPlaces,
     FinishPlaces DEF Code
<1>3. ASSUME NEW t \in wheel, Expire(t) \/ Forget(t) PROVE Places'
  BY <1>3, WheelPlaces
<1>4. CASE UNCHANGED vars
  <2>1. UNCHANGED <<run, co, made, free, forkQ, pool, timers, within>>
    BY <1>4 DEF vars, corVars, timerVars
  <2>2. \A r \in Services : AddOk(r)'
    BY <2>1 DEF Places, PlacesOk, AddOk
  <2> QED BY <2>1, <2>2, PlacesStay
<1> QED BY <1>1, <1>2, <1>3, <1>4 DEF Next

LEMMA Continues ==
    ASSUME OneTimerUser, Refrains, IInv, [Next]_vars
    PROVE  IInv'
<1>1. Types /\ Places
  BY DEF IInv
<1>2. Types' /\ Places'
  BY <1>1, TypesContinue, PlacesContinue
<1> QED BY <1>2 DEF IInv

-----------------------------------------------------------------------------
(* Theorems.                                                               *)

\* Everything has its type; every coroutine in a queue, a pool or a timer is one
\* that was made, and the wheel knows no id that addTimer has not given: if one
\* service uses timers, and service code refrains from what Refrains says.
THEOREM TypeCorrect ==
    ASSUME OneTimerUser, Refrains PROVE Spec => []TypeOK
<1>1. IInv => TypeOK
  <2> SUFFICES ASSUME IInv PROVE TypeOK
    OBVIOUS
  <2>1. made \in 0..MaxCors /\ made \in Nat
    BY DispatchAssumption DEF IInv, Types, Kept
  <2>2. ASSUME NEW s \in Services, NEW i \in 1..Len(mail[s])
        PROVE  mail[s][i] \in [kind : {"msg", "odd", "ret", "timer"},
                              src : Services \cup {Main}, sid : Nat, re : Nat]
    <3>1. mail[s] \in Seq(Packles)
      BY DEF IInv, Types, Kept
    <3>2. mail[s][i] \in Packles
      BY <3>1
    <3> QED BY <3>2 DEF Packles, Senders
  <2>3. ASSUME NEW s \in Services PROVE run[s].cor \in Cors \cup {NoCor}
    BY DEF IInv, Types, Kept, Resumptions
  <2>4. ASSUME NEW s \in Services, NEW i \in 1..Len(forkQ[s]) PROVE forkQ[s][i] \in 1..made
    <3>1. forkQ[s] \in Seq(Cors)
      BY DEF IInv, Types, Holding
    <3>2. forkQ[s][i] \in Cors /\ HeldIn(s, forkQ[s][i])
      BY <3>1 DEF HeldIn, ForkedIn
    <3> QED BY <2>1, <3>2 DEF IInv, Places, Made, Cors
  <2>5. ASSUME NEW s \in Services
        PROVE  /\ DOMAIN pool[s] \subseteq Sids
               /\ \A sid \in DOMAIN pool[s] : pool[s][sid] \in 1..made
    <3>1. DOMAIN pool[s] \subseteq Sids /\ pool[s] \in [DOMAIN pool[s] -> Cors]
      BY DEF IInv, Types, Holding
    <3>2. \A sid \in DOMAIN pool[s] : pool[s][sid] \in Cors /\ HeldIn(s, pool[s][sid])
      BY <3>1 DEF HeldIn, PooledIn
    <3> QED BY <2>1, <3>1, <3>2 DEF IInv, Places, Made, Cors
  <2>6. ASSUME NEW s \in Services, NEW id \in DOMAIN timers[s]
        PROVE  timers[s][id].cor \in 1..made
    <3>1. timers[s][id].cor \in Cors /\ HeldIn(s, timers[s][id].cor)
      BY DEF IInv, Types, Holding, Entries, HeldIn, TimedIn
    <3> QED BY <2>1, <3>1 DEF IInv, Places, Made, Cors
  <2>7. \A c \in Cors : co[c].state \in {"INIT", "RUNNING", "SUSPENDED", "STOPPED"}
    BY DEF IInv, Types, Kept, Coroutines, States
  <2>8. \A t \in wheel : t.id \in 1..lastId
    BY DEF IInv, Types, Adding
  <2> QED BY <2>1, <2>2, <2>3, <2>4, <2>5, <2>6, <2>7, <2>8 DEF TypeOK
<1>2. IInv /\ [Next]_vars => IInv'
  BY Continues
<1> QED BY <1>1, <1>2, Begins, PTL DEF Spec

\* What getCoroutine takes does not run, the session of a call is not in the pool
\* when suspend puts it there, responses and forks find their coroutines in the
\* state that the assertions of serviceContext.cc:48,147,250 and the LOG_FATALs of
\* coroutine.cc:61,96,99 want, and dispatch erases a timer that is there, under
\* the same conditions.
THEOREM Asserted ==
    ASSUME OneTimerUser, Refrains PROVE Spec => []AssertionsHold
<1>1. IInv => AssertionsHold
  <2> SUFFICES ASSUME IInv PROVE AssertionsHold
    OBVIOUS
  <2>1. \A s \in Services : PlacesOk(s)
    BY DEF IInv, Places
  <2>2. \A c \in Cors : Forked(c) => Resumable(c)
    BY <2>1 DEF PlacesOk, ForksOk, Forked, ForkedIn, Resumable
  <2>3. \A c \in Cors : Pooled(c) => co[c].state = "SUSPENDED"
    BY <2>1 DEF PlacesOk, PoolOk, Pooled, PooledIn
  <2>4. \A c \in Cors : Timed(c) =>
          co[c].state # "STOPPED" \/ \E s \in Services : run[s].cor = c
    <3> SUFFICES ASSUME NEW c \in Cors, NEW s \in Services, NEW id \in DOMAIN timers[s],
                        timers[s][id].cor = c, co[c].state = "STOPPED"
                 PROVE  run[s].cor = c
      BY DEF Timed
    <3>1. id \in Nat /\ Doomed(s, id)
      BY <2>1 DEF IInv, Types, Holding, PlacesOk, TimersOk
    <3> QED BY <2>1, <3>1 DEF PlacesOk, RunOk, TimedAt
  <2>5. \A s \in Services :
          run[s].by = "timer" /\ ~run[s].loop => run[s].tid \in DOMAIN timers[s]
    BY <2>1 DEF IInv, Types, Kept, Resumptions, PlacesOk, RunOk, Doomed, TimedAt
  <2>6. \A c \in Cors : free[c] > 0 => co[c].state # "RUNNING"
    BY DEF IInv, Places, Freed
  <2>7. \A s \in Services : within[s].at = "suspend" => within[s].session \notin DOMAIN pool[s]
    BY <2>1 DEF PlacesOk, AddOk
  <2> QED BY <2>2, <2>3, <2>4, <2>5, <2>6, <2>7 DEF AssertionsHold
<1>2. IInv /\ [Next]_vars => IInv'
  BY Continues
<1> QED BY <1>1, <1>2, Begins, PTL DEF Spec

\* A coroutine in a free queue is there once, and nobody else holds it, whatever
\* services call, fork, sleep and remove, under the same conditions.
THEOREM FreeIsFree ==
    ASSUME OneTimerUser, Refrains PROVE Spec => []FreeMeansFree
<1>1. IInv => FreeMeansFree
  <2> SUFFICES ASSUME IInv, NEW c \in Cors, free[c] > 0
               PROVE  /\ free[c] = 1
                      /\ ~Forked(c) /\ ~Pooled(c) /\ ~Timed(c)
                      /\ \A s \in Services : run[s].cor # c
    BY DEF FreeMeansFree
  <2>1. free[c] = 1 /\ \A s \in Services : ~HeldIn(s, c)
    BY DEF IInv, Places, Freed
  <2> QED BY <2>1 DEF HeldIn, ForkedIn, PooledIn, TimedIn, Runs, Forked, Pooled, Timed
<1>2. IInv /\ [Next]_vars => IInv'
  BY Continues
<1> QED BY <1>1, <1>2, Begins, PTL DEF Spec

\* No coroutine waits under two sessions, and no two services have the same one.
Apart ==
    /\ \A s \in Services : \A x, y \in DOMAIN pool[s] : pool[s][x] = pool[s][y] => x = y
    /\ \A s, t \in Services, c \in Cors : HeldIn(s, c) /\ HeldIn(t, c) => s = t

\* A response resumes one call only and services never mix up their coroutines,
\* though they take them from the same free queues, under the same conditions:
\* this is what lets a worker resume one without a lock.
THEOREM NeverShared ==
    ASSUME OneTimerUser, Refrains PROVE Spec => []Apart
<1>1. IInv => Apart
  BY DEF IInv, Places, PlacesOk, PoolOk, Belongs, Apart
<1>2. IInv /\ [Next]_vars => IInv'
  BY Continues
<1> QED BY <1>1, <1>2, Begins, PTL DEF Spec
=============================================================================
