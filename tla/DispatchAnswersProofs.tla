----------------------- MODULE DispatchAnswersProofs -----------------------
(***************************************************************************)
(* Proofs about the calls of Dispatch, for any services, coroutines and    *)
(* sessions: what service code waits for is what wakes it, and the answer  *)
(* to a call that waits is in exactly one place.                           *)
(*                                                                         *)
(* A call has a number, which the packle, the handler and the response     *)
(* carry as a ghost.  The invariant says that each number in one of these  *)
(* places is that of a call that still waits, under the session that the   *)
(* place will answer to, and that no number is in two of them.             *)
(***************************************************************************)
EXTENDS DispatchProofs, FiniteSetTheorems

\* What service code keeps to: the handler of a call, and nobody else, sets a return
\* packle, once and before it sleeps.
RepliesFirst == Refrains /\ {"replyFirst", "replyOnce"} \subseteq Rules

\* No two timers get the same session.
NoWrap == Limit["timer"] < IdRange

\* The call a packle belongs to, if any.
CallOf(p) == IF p.kind = "timer" THEN 0 ELSE p.re

\* Session x of s is that of call n: its caller waits, or is about to.
Calling(s, x, n) ==
    within[s].at = "suspend" /\ within[s].session = x /\ within[s].val = n
Open(s, x, n) ==
    /\ s \in Services
    /\ \/ x \in DOMAIN pool[s] /\ co[pool[s][x]].wants = Reply(n)
       \/ Calling(s, x, n)

\* The handler of a call, before it sets the return packle.
Busy(h) == co[h].req # 0 /\ ~co[h].replied

\* Packle p is in the box of d; a packle of call n is in some box.
In(box, d, p) == \E i \in 1..Len(box[d]) : box[d][i] = p
MailedIn(box, n) == \E d \in Services : \E i \in 1..Len(box[d]) : CallOf(box[d][i]) = n
OnceIn(box) == \A d, e \in Services : \A i \in 1..Len(box[d]), j \in 1..Len(box[e]) :
    CallOf(box[d][i]) # 0 /\ CallOf(box[d][i]) = CallOf(box[e][j]) => d = e /\ i = j

Mailed(n) == MailedIn(mail, n)
Handled(n) == \E h \in Cors : Busy(h) /\ co[h].req = n
IsSet(n) == \E d \in Services : retp[d] # NoPackle /\ retp[d].re = n

-----------------------------------------------------------------------------
(* What coroutines wait for.                                               *)

PoolWants(s) == \A x \in DOMAIN pool[s] :
    /\ co[pool[s][x]].sid = x
    /\ \E n \in 1..used["call"] : co[pool[s][x]].wants = Reply(n)

TimerWants(s) == \A id \in DOMAIN timers[s] : ~Doomed(s, id) =>
    /\ co[timers[s][id].cor].wants = Tick(id)
    /\ timers[s][id].loop => co[timers[s][id].cor].tid = id

ForkWants(s) == \A c \in Cors : ForkedIn(s, c) =>
    co[c].got = co[c].wants /\ co[c].req = 0

WantsOk(s) == PoolWants(s) /\ TimerWants(s) /\ ForkWants(s)
Wants == (NoWrap => WokenByWhatItWaitsFor) /\ \A s \in Services : WantsOk(s)

-----------------------------------------------------------------------------
(* Numbers of calls and of timers.                                         *)

\* The number of a call is given before it is in pool.
CallsCount == \A s \in Services :
    within[s].at = "suspend" => within[s].val \in 1..used["call"]

\* The session of a timer is its id.
Ticks ==
    /\ used["timer"] <= Limit["timer"] /\ lastId <= used["timer"]
    /\ \A s \in Services :
         /\ within[s].at = "store" => within[s].val < used["timer"]
         /\ within[s].at = "key" => within[s].session = lastId
    /\ \A t \in wheel : t.session = t.id
    /\ \A d \in Services, p \in Packles : In(mail, d, p) /\ p.kind = "timer" => p.re = p.sid

Numbers == CallsCount /\ (NoWrap => Ticks)

-----------------------------------------------------------------------------
(* Handlers that owe an answer.                                            *)

\* They run or wait for a response, but not for a timer.
BusyIn(s, h) == (Runs(s, h) /\ co[h].state = "RUNNING") \/ PooledIn(s, h)
BusyHeld == \A h \in Cors : Busy(h) =>
    co[h].job = "handler" /\ \E s \in Services : BusyIn(s, h)
BusyRuns(s) == run[s].cor # NoCor /\ Busy(run[s].cor) =>
    /\ run[s].by \in {"msg", "ret"}
    /\ within[s].at # "no" => within[s].op # "sleep"

Handlers == BusyHeld /\ \A s \in Services : BusyRuns(s)

-----------------------------------------------------------------------------
(* Where answers are.                                                      *)

CallsDiffer == \A s, t \in Services, x, y \in Sids, n \in Nat :
    Open(s, x, n) /\ Open(t, y, n) => s = t /\ x = y

\* Each place is that of a call that waits ...
MailOpen == \A d \in Services, p \in Packles : In(mail, d, p) =>
    /\ p.kind = "ret" => p.re # 0 /\ Open(d, p.sid, p.re)
    /\ p.kind = "msg" /\ p.re # 0 => Open(p.src, p.sid, p.re)
    /\ p.kind = "odd" => p.re = 0
BusyOpen == \A h \in Cors : Busy(h) => Open(co[h].rsrc, co[h].rsid, co[h].req)
SetOpen == \A d \in Services : retp[d] # NoPackle =>
    /\ retp[d].re # 0
    /\ run[d].cor # NoCor /\ run[d].by \in {"msg", "ret"} /\ ~Busy(run[d].cor)
    /\ Open(co[run[d].cor].rsrc, retp[d].sid, retp[d].re)

\* ... and no call has two,
BusyOnce == \A h, k \in Cors : Busy(h) /\ Busy(k) /\ co[h].req = co[k].req => h = k
SetOnce == \A d, e \in Services :
    retp[d] # NoPackle /\ retp[e] # NoPackle /\ retp[d].re = retp[e].re => d = e
PlacesApart == \A n \in Nat \ {0} :
    ~(Mailed(n) /\ Handled(n)) /\ ~(Mailed(n) /\ IsSet(n)) /\ ~(Handled(n) /\ IsSet(n))

\* but each has one if handlers answer.
Answered == "answer" \in Rules => \A s \in Services, x \in Sids, n \in Nat \ {0} :
    Open(s, x, n) => Mailed(n) \/ Handled(n) \/ IsSet(n)

Opens == CallsDiffer /\ MailOpen /\ BusyOpen /\ SetOpen
Once == OnceIn(mail) /\ BusyOnce /\ SetOnce /\ PlacesApart

AnswersOk == Opens /\ Once /\ Answered
AInv == Wants /\ Handlers /\ AnswersOk

-----------------------------------------------------------------------------
(* Mailboxes.                                                              *)

Boxes == [Services -> Seq(Packles)]

\* What is left of a sequence without its head, and what Append adds.
LEMMA TailIs ==
    ASSUME NEW S, NEW q \in Seq(S), q # <<>>
    PROVE  /\ Head(q) = q[1] /\ Head(q) \in S /\ 1 \in 1..Len(q)
           /\ \A i \in 1..Len(Tail(q)) : i + 1 \in 1..Len(q) /\ i + 1 # 1 /\ Tail(q)[i] = q[i + 1]
           /\ \A i \in 1..Len(q) : i # 1 => i - 1 \in 1..Len(Tail(q)) /\ Tail(q)[i - 1] = q[i]
<1>1. /\ Len(q) \in Nat /\ Len(q) > 0 /\ Head(q) = q[1] /\ Head(q) \in S
      /\ Tail(q) \in Seq(S) /\ Len(Tail(q)) = Len(q) - 1
      /\ \A i \in 1..(Len(q) - 1) : Tail(q)[i] = q[i + 1]
  OBVIOUS
<1> QED BY <1>1

LEMMA AppendIs ==
    ASSUME NEW S, NEW q \in Seq(S), NEW p \in S
    PROVE  /\ Len(q) \in Nat /\ Len(Append(q, p)) = Len(q) + 1
           /\ \A i \in 1..Len(q) : i \in 1..(Len(q) + 1) /\ Append(q, p)[i] = q[i]
           /\ Len(q) + 1 \in 1..(Len(q) + 1) /\ Append(q, p)[Len(q) + 1] = p
           /\ \A i \in 1..(Len(q) + 1) : i \in 1..Len(q) \/ i = Len(q) + 1
  OBVIOUS

\* The packle dispatch pops was in the mailbox, and leaves it.
LEMMA PopIs ==
    ASSUME mail \in Boxes, OnceIn(mail), NEW s \in Services, NEW p \in Oldest(s)
    PROVE  /\ Popped(s) \in Boxes /\ p \in Packles /\ In(mail, s, p)
           /\ \A d \in Services, q \in Packles : In(Popped(s), d, q) => In(mail, d, q)
           /\ OnceIn(Popped(s))
           /\ CallOf(p) # 0 => Mailed(CallOf(p))
           /\ \A n \in Nat \ {0} : MailedIn(Popped(s), n) <=> Mailed(n) /\ n # CallOf(p)
<1> DEFINE box == Popped(s)
<1>1. mail[s] \in Seq(Packles) /\ mail[s] # <<>> /\ p = Head(mail[s])
  BY DEF Oldest, Boxes
<1>2. /\ p = mail[s][1] /\ p \in Packles /\ 1 \in 1..Len(mail[s])
      /\ \A i \in 1..Len(Tail(mail[s])) :
           i + 1 \in 1..Len(mail[s]) /\ i + 1 # 1 /\ Tail(mail[s])[i] = mail[s][i + 1]
      /\ \A i \in 1..Len(mail[s]) : i # 1 =>
           i - 1 \in 1..Len(Tail(mail[s])) /\ Tail(mail[s])[i - 1] = mail[s][i]
  BY <1>1, TailIs
<1>3. Tail(mail[s]) \in Seq(Packles)
  BY <1>1
<1>4. box \in Boxes /\ box[s] = Tail(mail[s]) /\ \A d \in Services : d # s => box[d] = mail[d]
  BY <1>3 DEF Popped, Boxes
<1> HIDE DEF box
<1>5. \A d \in Services : \A i \in 1..Len(box[d]) : \E j \in 1..Len(mail[d]) :
        /\ box[d][i] = mail[d][j]
        /\ d = s => j = i + 1 /\ j # 1
        /\ d # s => j = i
  <2> SUFFICES ASSUME NEW d \in Services, NEW i \in 1..Len(box[d])
               PROVE  \E j \in 1..Len(mail[d]) :
                        box[d][i] = mail[d][j] /\ (d = s => j = i + 1 /\ j # 1) /\ (d # s => j = i)
    OBVIOUS
  <2>1. CASE d = s
    <3>1. i \in 1..Len(Tail(mail[s])) /\ box[d][i] = Tail(mail[s])[i]
      BY <1>4, <2>1
    <3>2. i + 1 \in 1..Len(mail[s]) /\ i + 1 # 1 /\ box[d][i] = mail[s][i + 1]
      BY <1>2, <3>1
    <3> QED BY <2>1, <3>2
  <2>2. CASE d # s
    <3>1. box[d] = mail[d]
      BY <1>4, <2>2
    <3> QED BY <2>2, <3>1
  <2> QED BY <2>1, <2>2
<1>6. \A d \in Services : \A j \in 1..Len(mail[d]) : ~(d = s /\ j = 1) =>
        \E i \in 1..Len(box[d]) : box[d][i] = mail[d][j]
  <2> SUFFICES ASSUME NEW d \in Services, NEW j \in 1..Len(mail[d]), ~(d = s /\ j = 1)
               PROVE  \E i \in 1..Len(box[d]) : box[d][i] = mail[d][j]
    OBVIOUS
  <2>1. CASE d = s
    <3>1. j \in 1..Len(mail[s]) /\ j # 1
      BY <2>1
    <3>2. j - 1 \in 1..Len(Tail(mail[s])) /\ Tail(mail[s])[j - 1] = mail[s][j]
      BY <1>2, <3>1
    <3> QED BY <1>4, <2>1, <3>2
  <2>2. CASE d # s
    BY <1>4, <2>2
  <2> QED BY <2>1, <2>2
<1>7. OnceIn(box)
  <2> SUFFICES ASSUME NEW d \in Services, NEW e \in Services, NEW i \in 1..Len(box[d]),
                      NEW j \in 1..Len(box[e]), CallOf(box[d][i]) # 0, CallOf(box[d][i]) = CallOf(box[e][j])
               PROVE  d = e /\ i = j
    BY DEF OnceIn
  <2>1. PICK x \in 1..Len(mail[d]) :
          box[d][i] = mail[d][x] /\ (d = s => x = i + 1) /\ (d # s => x = i)
    BY <1>5
  <2>2. PICK y \in 1..Len(mail[e]) :
          box[e][j] = mail[e][y] /\ (e = s => y = j + 1) /\ (e # s => y = j)
    BY <1>5
  <2>3. d = e /\ x = y
    BY <2>1, <2>2 DEF OnceIn
  <2> QED BY <2>1, <2>2, <2>3
<1>8. \A d \in Services, q \in Packles : In(box, d, q) => In(mail, d, q)
  BY <1>5 DEF In
<1>9. In(mail, s, p) /\ (CallOf(p) # 0 => Mailed(CallOf(p)))
  BY <1>2 DEF In, Mailed, MailedIn
<1>10. ASSUME NEW n \in Nat \ {0}
       PROVE  MailedIn(box, n) <=> Mailed(n) /\ n # CallOf(p)
  <2>1. ASSUME MailedIn(box, n) PROVE Mailed(n) /\ n # CallOf(p)
    <3>1. PICK d \in Services : \E i \in 1..Len(box[d]) : CallOf(box[d][i]) = n
      BY <2>1 DEF MailedIn
    <3>2. PICK j \in 1..Len(mail[d]) : CallOf(mail[d][j]) = n /\ (d = s => j # 1)
      BY <1>5, <3>1
    <3>3. ~(CallOf(mail[s][1]) = n)
      BY <1>2, <3>2 DEF OnceIn
    <3> QED BY <1>2, <3>2, <3>3 DEF Mailed, MailedIn
  <2>2. ASSUME Mailed(n), n # CallOf(p) PROVE MailedIn(box, n)
    <3>1. PICK d \in Services : \E j \in 1..Len(mail[d]) : CallOf(mail[d][j]) = n
      BY <2>2 DEF Mailed, MailedIn
    <3>2. PICK j \in 1..Len(mail[d]) : CallOf(mail[d][j]) = n
      BY <3>1
    <3>3. ~(d = s /\ j = 1)
      BY <1>2, <2>2, <3>2
    <3> QED BY <1>6, <3>2, <3>3 DEF MailedIn
  <2> QED BY <2>1, <2>2
<1> QED BY <1>2, <1>4, <1>7, <1>8, <1>9, <1>10 DEF box

\* A packle that is pushed belongs to no call, or to one of which none is there.
LEMMA PushedIs ==
    ASSUME NEW box \in Boxes, OnceIn(box), NEW d \in Services, NEW p \in Packles,
           CallOf(p) = 0 \/ ~MailedIn(box, CallOf(p)),
           mail' = [box EXCEPT ![d] = Append(@, p)]
    PROVE  /\ mail' \in Boxes
           /\ \A e \in Services, q \in Packles :
                In(mail', e, q) => In(box, e, q) \/ (e = d /\ q = p)
           /\ OnceIn(mail')
           /\ \A n \in Nat \ {0} : MailedIn(mail', n) <=> MailedIn(box, n) \/ n = CallOf(p)
<1> DEFINE m == mail'
<1>1. box[d] \in Seq(Packles)
  BY DEF Boxes
<1>2. Append(box[d], p) \in Seq(Packles)
  BY <1>1
<1>3. m \in Boxes /\ m[d] = Append(box[d], p) /\ \A e \in Services : e # d => m[e] = box[e]
  BY <1>2 DEF Boxes
<1>4. PICK k \in Nat : k = Len(box[d])
  BY <1>1
<1>5. /\ Len(m[d]) = k + 1 /\ m[d][k + 1] = p /\ k + 1 \in 1..(k + 1)
      /\ \A i \in 1..k : i \in 1..(k + 1) /\ m[d][i] = box[d][i]
      /\ \A i \in 1..(k + 1) : i \in 1..k \/ i = k + 1
  BY <1>1, <1>3, <1>4, AppendIs
<1> HIDE DEF m
<1>6. \A e \in Services : \A i \in 1..Len(m[e]) :
        \/ i \in 1..Len(box[e]) /\ m[e][i] = box[e][i]
        \/ e = d /\ i = k + 1 /\ m[e][i] = p
  BY <1>3, <1>4, <1>5
<1>7. \A e \in Services : \A i \in 1..Len(box[e]) : i \in 1..Len(m[e]) /\ m[e][i] = box[e][i]
  BY <1>3, <1>4, <1>5
<1>8. k + 1 \in 1..Len(m[d]) /\ m[d][k + 1] = p
  BY <1>5
<1>9. \A e \in Services, q \in Packles : In(m, e, q) => In(box, e, q) \/ (e = d /\ q = p)
  BY <1>6 DEF In
<1>10. OnceIn(m)
  <2> SUFFICES ASSUME NEW e \in Services, NEW f \in Services, NEW i \in 1..Len(m[e]),
                      NEW j \in 1..Len(m[f]), CallOf(m[e][i]) # 0, CallOf(m[e][i]) = CallOf(m[f][j])
               PROVE  e = f /\ i = j
    BY DEF OnceIn
  <2>1. CASE i \in 1..Len(box[e]) /\ m[e][i] = box[e][i] /\ j \in 1..Len(box[f]) /\ m[f][j] = box[f][j]
    BY <2>1 DEF OnceIn
  <2>2. CASE e = d /\ i = k + 1 /\ m[e][i] = p
    <3>1. ~MailedIn(box, CallOf(p))
      BY <2>2
    <3> QED BY <1>6, <2>2, <3>1 DEF MailedIn
  <2>3. CASE f = d /\ j = k + 1 /\ m[f][j] = p
    <3>1. ~MailedIn(box, CallOf(p))
      BY <2>3
    <3> QED BY <1>6, <2>3, <3>1 DEF MailedIn
  <2> QED BY <1>6, <2>1, <2>2, <2>3
<1>11. \A n \in Nat \ {0} : MailedIn(m, n) <=> MailedIn(box, n) \/ n = CallOf(p)
  <2> SUFFICES ASSUME NEW n \in Nat \ {0}
               PROVE  MailedIn(m, n) <=> MailedIn(box, n) \/ n = CallOf(p)
    OBVIOUS
  <2>1. MailedIn(m, n) => MailedIn(box, n) \/ n = CallOf(p)
    BY <1>6 DEF MailedIn
  <2>2. MailedIn(box, n) => MailedIn(m, n)
    BY <1>7 DEF MailedIn
  <2>3. n = CallOf(p) => MailedIn(m, n)
    BY <1>8 DEF MailedIn
  <2> QED BY <2>1, <2>2, <2>3
<1> QED BY <1>3, <1>9, <1>10, <1>11 DEF m
\* What is in a box that dispatch pops from or that is pushed to.
LEMMA PoppedIn ==
    ASSUME mail \in Boxes, NEW s \in Services, NEW p \in Oldest(s)
    PROVE  /\ p \in Packles /\ In(mail, s, p)
           /\ \A d \in Services, q \in Packles : In(Popped(s), d, q) => In(mail, d, q)
<1>1. mail[s] \in Seq(Packles) /\ mail[s] # <<>> /\ p = Head(mail[s])
  BY DEF Oldest, Boxes
<1>2. /\ p = mail[s][1] /\ p \in Packles /\ 1 \in 1..Len(mail[s])
      /\ \A i \in 1..Len(Tail(mail[s])) :
           i + 1 \in 1..Len(mail[s]) /\ Tail(mail[s])[i] = mail[s][i + 1]
  BY <1>1, TailIs
<1>3. Popped(s)[s] = Tail(mail[s]) /\ \A d \in Services : d # s => Popped(s)[d] = mail[d]
  BY DEF Popped, Boxes
<1> QED BY <1>2, <1>3 DEF In

LEMMA AppendedIn ==
    ASSUME NEW box \in Boxes, NEW d, NEW p \in Packles,
           mail' = [box EXCEPT ![d] = Append(@, p)]
    PROVE  \A e \in Services, q \in Packles : In(mail', e, q) => In(box, e, q) \/ q = p
<1>1. CASE d \in Services
  <2>1. box[d] \in Seq(Packles)
    BY <1>1 DEF Boxes
  <2>2. \A i \in 1..Len(Append(box[d], p)) :
          (i \in 1..Len(box[d]) /\ Append(box[d], p)[i] = box[d][i]) \/ Append(box[d], p)[i] = p
    BY <2>1, AppendIs
  <2>3. mail'[d] = Append(box[d], p) /\ \A e \in Services : e # d => mail'[e] = box[e]
    BY <1>1 DEF Boxes
  <2> QED BY <2>2, <2>3 DEF In
<1>2. CASE d \notin Services
  <2>1. \A e \in Services : mail'[e] = box[e]
    BY <1>2 DEF Boxes
  <2> QED BY <2>1 DEF In
<1> QED BY <1>1, <1>2


-----------------------------------------------------------------------------
(* What all actions have in common.                                        *)

\* A step of s that changes x, which it has or takes, leaves the others alone.
LEMMA OthersWant ==
    ASSUME Types, Places, NEW s \in Services, NEW x \in Cors, HeldIn(s, x) \/ GetCoroutine(x),
           NEW r \in Services, r # s
    PROVE  /\ ~HeldIn(r, x) /\ run[r].cor # x
           /\ \A y \in DOMAIN pool[r] : pool[r][y] # x
           /\ \A id \in DOMAIN timers[r] : timers[r][id].cor # x
<1>1. ~HeldIn(r, x)
  BY NewIsNowhere DEF Types, Places, Belongs
<1> QED BY <1>1 DEF HeldIn, PooledIn, TimedIn, Runs

LEMMA WantsStep ==
    ASSUME Types, Places, Wants, NEW s \in Services, NEW x \in Cors,
           HeldIn(s, x) \/ GetCoroutine(x),
           \A c \in Cors : c # x => co'[c] = co[c],
           \A r \in Services : r # s =>
             /\ forkQ'[r] = forkQ[r] /\ pool'[r] = pool[r] /\ timers'[r] = timers[r]
             /\ run'[r] = run[r],
           used["call"] \in Nat, used'["call"] \in Nat, used["call"] <= used'["call"],
           WantsOk(s)',
           NoWrap /\ co'[x].state = "RUNNING" => co'[x].got = co'[x].wants
    PROVE  Wants'
<1>1. NoWrap => WokenByWhatItWaitsFor'
  BY DEF Wants, WokenByWhatItWaitsFor
<1>2. ASSUME NEW r \in Services, r # s PROVE WantsOk(r)'
  <2>1. WantsOk(r)
    BY DEF Wants
  <2>2. /\ forkQ'[r] = forkQ[r] /\ pool'[r] = pool[r] /\ timers'[r] = timers[r]
        /\ run'[r] = run[r]
    BY <1>2
  <2>3. \A y \in DOMAIN pool[r] : pool[r][y] \in Cors /\ co'[pool[r][y]] = co[pool[r][y]]
    BY <1>2, OthersWant DEF Types, Holding
  <2>4. \A id \in DOMAIN timers[r] :
          timers[r][id].cor \in Cors /\ co'[timers[r][id].cor] = co[timers[r][id].cor]
    BY <1>2, OthersWant DEF Types, Holding, Entries
  <2>5. \A c \in Cors : ForkedIn(r, c) => co'[c] = co[c]
    BY <1>2, OthersWant DEF HeldIn
  <2>6. PoolWants(r)'
    <3>1. \A n \in 1..used["call"] : n \in 1..used'["call"]
      OBVIOUS
    <3> QED BY <2>1, <2>2, <2>3, <3>1 DEF WantsOk, PoolWants
  <2>7. TimerWants(r)'
    BY <2>1, <2>2, <2>4 DEF WantsOk, TimerWants, Doomed
  <2>8. ForkWants(r)'
    BY <2>1, <2>2, <2>5 DEF WantsOk, ForkWants, ForkedIn
  <2> QED BY <2>6, <2>7, <2>8 DEF WantsOk
<1> QED BY <1>1, <1>2 DEF Wants

LEMMA HandlersStep ==
    ASSUME Types, Places, Handlers, NEW s \in Services, NEW x \in Cors,
           HeldIn(s, x) \/ GetCoroutine(x),
           \A c \in Cors : c # x => co'[c] = co[c],
           \A r \in Services : r # s =>
             /\ pool'[r] = pool[r] /\ run'[r] = run[r] /\ within'[r] = within[r],
           \A c \in Cors : c # x /\ BusyIn(s, c) => BusyIn(s, c)',
           Busy(x)' => co'[x].job = "handler" /\ BusyIn(s, x)',
           BusyRuns(s)'
    PROVE  Handlers'
<1>1. BusyHeld'
  <2> SUFFICES ASSUME NEW h \in Cors, Busy(h)'
               PROVE  co'[h].job = "handler" /\ \E r \in Services : BusyIn(r, h)'
    BY DEF BusyHeld
  <2>1. CASE h = x
    BY <2>1
  <2>2. CASE h # x
    <3>1. Busy(h) /\ co'[h] = co[h]
      BY <2>2 DEF Busy
    <3>2. co[h].job = "handler" /\ \E r \in Services : BusyIn(r, h)
      BY <3>1 DEF Handlers, BusyHeld
    <3>3. PICK r \in Services : BusyIn(r, h)
      BY <3>2
    <3>4. BusyIn(r, h)'
      <4>1. CASE r = s
        BY <2>2, <3>3, <4>1
      <4>2. CASE r # s
        BY <3>1, <3>3, <4>2 DEF BusyIn, Runs, PooledIn
      <4> QED BY <4>1, <4>2
    <3> QED BY <3>1, <3>2, <3>4
  <2> QED BY <2>1, <2>2
<1>2. ASSUME NEW r \in Services, r # s PROVE BusyRuns(r)'
  <2>1. BusyRuns(r) /\ run'[r] = run[r] /\ within'[r] = within[r]
    BY <1>2 DEF Handlers
  <2>2. run[r].cor # NoCor => run[r].cor \in Cors /\ co'[run[r].cor] = co[run[r].cor]
    BY <1>2, OthersWant DEF Types, Kept, Resumptions
  <2> QED BY <2>1, <2>2 DEF BusyRuns, Busy
<1> QED BY <1>1, <1>2 DEF Handlers

\* A step that changes no coroutine, and none comes anywhere.
LEMMA QuietStep ==
    ASSUME Types, Wants, Handlers, UNCHANGED <<co, run, forkQ, pool>>,
           used["call"] \in Nat, used'["call"] \in Nat, used["call"] <= used'["call"],
           \A s \in Services : \A id \in DOMAIN timers'[s] :
             /\ id \in DOMAIN timers[s] /\ timers'[s][id].cor = timers[s][id].cor
             /\ timers'[s][id].loop = timers[s][id].loop,
           \A s \in Services : BusyRuns(s)'
    PROVE  Wants' /\ Handlers'
<1>1. NoWrap => WokenByWhatItWaitsFor'
  BY DEF Wants, WokenByWhatItWaitsFor
<1>2. ASSUME NEW s \in Services PROVE WantsOk(s)'
  <2>1. WantsOk(s)
    BY DEF Wants
  <2>2. PoolWants(s)'
    <3>1. \A n \in 1..used["call"] : n \in 1..used'["call"]
      OBVIOUS
    <3> QED BY <2>1, <3>1 DEF WantsOk, PoolWants
  <2>3. TimerWants(s)'
    BY <2>1 DEF WantsOk, TimerWants, Doomed
  <2>4. ForkWants(s)'
    BY <2>1 DEF WantsOk, ForkWants, ForkedIn
  <2> QED BY <2>2, <2>3, <2>4 DEF WantsOk
<1>3. BusyHeld'
  BY DEF Handlers, BusyHeld, Busy, BusyIn, Runs, PooledIn
<1> QED BY <1>1, <1>2, <1>3 DEF Wants, Handlers

\* The mailboxes gain and lose no packle of a call.
MailCalm ==
    /\ \A d \in Services, q \in Packles :
         In(mail', d, q) => In(mail, d, q) \/ (CallOf(q) = 0 /\ q.kind # "ret")
    /\ OnceIn(mail')
    /\ \A n \in Nat \ {0} : MailedIn(mail', n) <=> Mailed(n)

LEMMA SameMail == ASSUME AnswersOk, mail' = mail PROVE MailCalm
  BY DEF AnswersOk, Once, MailCalm, Mailed

LEMMA PushCalm ==
    ASSUME Types, AnswersOk, NEW d \in Services, NEW p \in Packles, CallOf(p) = 0, p.kind # "ret",
           Push(d, p)
    PROVE  MailCalm
<1>1. mail \in Boxes /\ OnceIn(mail) /\ mail' = [mail EXCEPT ![d] = Append(@, p)]
  BY DEF Types, Kept, Boxes, AnswersOk, Once, Push
<1> QED BY <1>1, PushedIs DEF MailCalm, Mailed

LEMMA PopCalm ==
    ASSUME Types, AnswersOk, NEW s \in Services, NEW p \in Oldest(s), CallOf(p) = 0,
           mail' = Popped(s)
    PROVE  MailCalm
<1>1. mail \in Boxes /\ OnceIn(mail)
  BY DEF Types, Kept, Boxes, AnswersOk, Once
<1> QED BY <1>1, PopIs DEF MailCalm

\* A step that moves no answer; some handlers may end.
LEMMA AnswersStay ==
    ASSUME Types, AnswersOk, retp' = retp,
           \A s, y, n : Open(s, y, n)' <=> Open(s, y, n),
           \A h \in Cors : Busy(h)' =>
             /\ Busy(h) /\ co'[h].rsrc = co[h].rsrc /\ co'[h].rsid = co[h].rsid
             /\ co'[h].req = co[h].req,
           "answer" \in Rules => \A h \in Cors : Busy(h) => Busy(h)',
           \A d \in Services : retp[d] # NoPackle =>
             /\ run'[d].cor = run[d].cor /\ run'[d].by = run[d].by
             /\ co'[run[d].cor].rsrc = co[run[d].cor].rsrc,
           MailCalm
    PROVE  AnswersOk'
<1>1. \A s, y, n : Open(s, y, n)' <=> Open(s, y, n)
  OBVIOUS
<1>2. \A n : Handled(n)' => Handled(n)
  BY DEF Handled
<1>3. \A n : IsSet(n)' <=> IsSet(n)
  BY DEF IsSet
<1>4. \A n \in Nat \ {0} : Mailed(n)' <=> Mailed(n)
  BY DEF MailCalm, Mailed, MailedIn
<1>5. CallsDiffer'
  BY <1>1 DEF AnswersOk, Opens, CallsDiffer
<1>6. MailOpen'
  <2> USE DEF MailCalm
  <2> SUFFICES ASSUME NEW d \in Services, NEW p \in Packles, In(mail', d, p)
               PROVE  /\ p.kind = "ret" => p.re # 0 /\ Open(d, p.sid, p.re)
                      /\ p.kind = "msg" /\ p.re # 0 => Open(p.src, p.sid, p.re)
                      /\ p.kind = "odd" => p.re = 0
    BY <1>1 DEF MailOpen
  <2> QED BY DEF AnswersOk, Opens, MailOpen, CallOf
<1>7. BusyOpen'
  BY <1>1 DEF AnswersOk, Opens, BusyOpen
<1>8. SetOpen'
  <2> SUFFICES ASSUME NEW d \in Services, retp[d] # NoPackle
               PROVE  /\ retp[d].re # 0
                      /\ run'[d].cor # NoCor /\ run'[d].by \in {"msg", "ret"}
                      /\ ~(co'[run'[d].cor].req # 0 /\ ~co'[run'[d].cor].replied)
                      /\ Open(co'[run'[d].cor].rsrc, retp[d].sid, retp[d].re)
    BY <1>1 DEF SetOpen, Busy
  <2>1. /\ retp[d].re # 0
        /\ run[d].cor # NoCor /\ run[d].by \in {"msg", "ret"} /\ ~Busy(run[d].cor)
        /\ Open(co[run[d].cor].rsrc, retp[d].sid, retp[d].re)
    BY DEF AnswersOk, Opens, SetOpen
  <2>2. run'[d].cor = run[d].cor /\ run'[d].by = run[d].by /\ run[d].cor \in Cors
    BY <2>1 DEF Types, Kept, Resumptions
  <2>3. ~(co'[run[d].cor].req # 0 /\ ~co'[run[d].cor].replied)
    BY <2>1, <2>2 DEF Busy
  <2> QED BY <2>1, <2>2, <2>3
<1>9. BusyOnce' /\ SetOnce'
  BY DEF AnswersOk, Once, BusyOnce, SetOnce
<1>10. PlacesApart'
  BY <1>2, <1>3, <1>4 DEF AnswersOk, Once, PlacesApart
<1>11. Answered'
  <2> SUFFICES ASSUME "answer" \in Rules, NEW s \in Services, NEW y \in Sids,
                      NEW n \in Nat \ {0},
                      Open(s, y, n)
               PROVE  Mailed(n)' \/ Handled(n)' \/ IsSet(n)'
    BY <1>1 DEF Answered
  <2>1. Mailed(n) \/ Handled(n) \/ IsSet(n)
    BY DEF AnswersOk, Answered
  <2>2. Handled(n) => Handled(n)'
    BY DEF Handled
  <2>3. Mailed(n) => Mailed(n)'
    BY <1>4
  <2> QED BY <1>3, <2>1, <2>2, <2>3
<1>12. OnceIn(mail)'
  BY DEF MailCalm, OnceIn
<1> QED BY <1>5, <1>6, <1>7, <1>8, <1>9, <1>10, <1>11, <1>12 DEF AnswersOk, Opens, Once
\* Nobody begins to call, and nobody who did goes on.
CallingStays == \A s \in Services : \A y, n : Calling(s, y, n)' <=> Calling(s, y, n)

LEMMA SameCalling == ASSUME within' = within PROVE CallingStays
  BY DEF CallingStays, Calling


LEMMA QuietAnswers ==
    ASSUME Types, AInv, UNCHANGED <<co, run, forkQ, pool, retp>>, MailCalm, CallingStays,
           used["call"] \in Nat, used'["call"] \in Nat, used["call"] <= used'["call"],
           \A s \in Services : \A id \in DOMAIN timers'[s] :
             /\ id \in DOMAIN timers[s] /\ timers'[s][id].cor = timers[s][id].cor
             /\ timers'[s][id].loop = timers[s][id].loop,
           \A s \in Services : BusyRuns(s)'
    PROVE  AInv'
<1>1. Wants' /\ Handlers'
  BY QuietStep DEF AInv
<1>2. \A h \in Cors : Busy(h)' <=> Busy(h)
  BY DEF Busy
<1>3. \A s, y, n : Open(s, y, n)' <=> Open(s, y, n)
  BY DEF Open, CallingStays
<1>4. AnswersOk'
  BY <1>2, <1>3, AnswersStay DEF AInv
<1> QED BY <1>1, <1>4 DEF AInv

\* The same number of calls, or one more.
LEMMA SameCalls ==
    ASSUME Types, used' = used
    PROVE  used["call"] \in Nat /\ used'["call"] \in Nat /\ used["call"] <= used'["call"]
  BY DEF Types, Kept, Ops

LEMMA UsedCalls ==
    ASSUME Types, NEW op \in Ops, Use(op)
    PROVE  used["call"] \in Nat /\ used'["call"] \in Nat /\ used["call"] <= used'["call"]
<1>1. used["call"] \in Nat /\ used[op] \in Nat
  BY DEF Types, Kept, Ops
<1>2. used'["call"] = IF op = "call" THEN used["call"] + 1 ELSE used["call"]
  BY DEF Types, Kept, Ops, Use
<1> QED BY <1>1, <1>2

LEMMA SameRuns ==
    ASSUME Handlers, UNCHANGED <<co, run, within>>
    PROVE  \A s \in Services : BusyRuns(s)'
  BY DEF Handlers, BusyRuns, Busy

\* No handler runs, so no return packle is set.
LEMMA LoopIs ==
    ASSUME AInv, NEW s \in Services, InLoop(s)
    PROVE  run[s].cor = NoCor /\ retp[s] = NoPackle
  BY NotRunningIs DEF AInv, AnswersOk, Opens, SetOpen, InLoop

-----------------------------------------------------------------------------
(* Actions that move no coroutine.                                         *)

LEMMA DropTimerAnswers ==
    ASSUME Types, AInv, NEW s \in Services, DropTimer(s)
    PROVE  AInv'
<1>1. PICK p \in Oldest(s) : DropTimer(s)!(p)
  BY DEF DropTimer
<1>2. mail \in Boxes /\ OnceIn(mail)
  BY DEF Types, Kept, Boxes, AInv, AnswersOk, Once
<1>3. p \in Packles /\ In(mail, s, p)
  BY <1>2, PopIs
<1>4. CallOf(p) = 0
  BY <1>1 DEF CallOf
<1>5. MailCalm
  BY <1>1, <1>4, PopCalm DEF AInv
<1>6. UNCHANGED <<co, run, forkQ, pool, retp, timers, within, used>>
  BY <1>1 DEF corVars, timerVars
<1> QED BY <1>5, <1>6, SameCalls, SameCalling, SameRuns, QuietAnswers DEF AInv

LEMMA DispatchNobodyAnswers ==
    ASSUME Types, Places, AInv, NEW s \in Services, DispatchNobody(s)
    PROVE  AInv'
<1>1. PICK p \in Oldest(s) : DispatchNobody(s)!(p)
  BY DEF DispatchNobody
<1>2. mail \in Boxes /\ OnceIn(mail)
  BY DEF Types, Kept, Boxes, AInv, AnswersOk, Once
<1>3. p \in Packles /\ In(mail, s, p)
  BY <1>2, PopIs
<1>4. p.kind = "odd" /\ CallOf(p) = 0
  <2>1. within[s].at = "no"
    BY <1>1, InLoopIs DEF Places
  <2> QED BY <1>1, <1>3, <2>1 DEF AInv, AnswersOk, Opens, MailOpen, Open, Calling, CallOf
<1>5. retp[s] = NoPackle
  BY <1>1, LoopIs
<1>6. mail' = Popped(s) /\ retp' = retp
  BY <1>1, <1>5 DEF Ret, Types, Kept
<1>7. MailCalm
  BY <1>4, <1>6, PopCalm DEF AInv
<1>8. UNCHANGED <<co, run, forkQ, pool, timers, within, used>>
  BY <1>1 DEF corVars, timerVars
<1> QED BY <1>6, <1>7, <1>8, SameCalls, SameCalling, SameRuns, QuietAnswers DEF AInv

LEMMA SendAnswers ==
    ASSUME Types, AInv, NEW s \in Services, NEW c \in Cors, Send(s, c)
    PROVE  AInv'
<1>1. PICK d \in Services, kind \in {"msg", "odd"} : Send(s, c)!(d, kind)
  BY DEF Send
<1>2. /\ Packle(kind, s, 0, 0) \in Packles /\ CallOf(Packle(kind, s, 0, 0)) = 0
      /\ Packle(kind, s, 0, 0).kind # "ret"
  BY PackleIs, MainIs DEF Packle, CallOf
<1>3. MailCalm
  BY <1>1, <1>2, PushCalm DEF AInv
<1>4. UNCHANGED <<co, run, forkQ, pool, retp, timers, within>>
  BY <1>1 DEF corVars, timerVars
<1>5. used["call"] \in Nat /\ used'["call"] \in Nat /\ used["call"] <= used'["call"]
  BY <1>1, UsedCalls DEF Ops
<1> QED BY <1>3, <1>4, <1>5, SameCalling, SameRuns, QuietAnswers DEF AInv

LEMMA LoadIdAnswers ==
    ASSUME Types, AInv, RepliesFirst, NEW s \in Services, NEW c \in Cors, LoadId(s, c)
    PROVE  AInv'
<1>1. PICK op \in {"sleep", "once", "loop"} : LoadId(s, c)!(op)
  BY DEF LoadId
<1>2. UNCHANGED <<mail, co, run, forkQ, pool, retp, timers>>
  BY <1>1 DEF corVars
<1>3. used["call"] \in Nat /\ used'["call"] \in Nat /\ used["call"] <= used'["call"]
  BY <1>1, UsedCalls DEF Ops
<1>4. ASSUME NEW r \in Services PROVE BusyRuns(r)'
  <2>1. CASE r = s
    <3>1. run[s].cor = c /\ within'[s].op = op
      BY <1>1 DEF InCode, Executes, Types, Holding
    <3>2. op = "sleep" => ~Busy(c)
      BY <1>1 DEF RepliesFirst, Busy
    <3> QED BY <1>2, <2>1, <3>1, <3>2 DEF AInv, Handlers, BusyRuns, Busy
  <2>2. CASE r # s
    <3>1. within'[r] = within[r]
      BY <1>1, <2>2 DEF Types, Holding
    <3> QED BY <1>2, <3>1 DEF AInv, Handlers, BusyRuns, Busy
  <2> QED BY <2>1, <2>2
<1>5. MailCalm
  BY <1>2, SameMail DEF AInv
<1>6. CallingStays
  BY <1>1 DEF CallingStays, Calling, InCode, Types, Holding
<1> QED BY <1>2, <1>3, <1>4, <1>5, <1>6, QuietAnswers

LEMMA StoreIdAnswers ==
    ASSUME Types, AInv, NEW s \in Services, NEW c \in Cors, StoreId(s, c)
    PROVE  AInv'
<1>1. UNCHANGED <<mail, co, run, forkQ, pool, retp, timers, used>>
  BY DEF StoreId, corVars
<1>2. ASSUME NEW r \in Services PROVE BusyRuns(r)'
  <2>1. within'[r].op = within[r].op /\ (within'[r].at # "no" => within[r].at # "no")
    BY DEF StoreId, Types, Holding, Additions
  <2> QED BY <1>1, <2>1 DEF AInv, Handlers, BusyRuns, Busy
<1>3. MailCalm
  BY <1>1, SameMail DEF AInv
<1>4. CallingStays
  BY DEF StoreId, CallingStays, Calling, Types, Holding, Additions
<1> QED BY <1>1, <1>2, <1>3, <1>4, SameCalls, QuietAnswers

LEMMA RemoveTimerAnswers ==
    ASSUME Types, AInv, NEW s \in Services, NEW c \in Cors, RemoveTimer(s, c)
    PROVE  AInv'
<1>1. PICK id \in DOMAIN timers[s] : RemoveTimer(s, c)!(id)
  BY DEF RemoveTimer
<1>2. UNCHANGED <<mail, co, run, forkQ, pool, retp, within>>
  BY <1>1
<1>3. used["call"] \in Nat /\ used'["call"] \in Nat /\ used["call"] <= used'["call"]
  BY <1>1, UsedCalls DEF Ops
<1>4. \A r \in Services : \A k \in DOMAIN timers'[r] :
        k \in DOMAIN timers[r] /\ timers'[r][k] = timers[r][k]
  <2>1. timers' = [timers EXCEPT ![s] = Drop(timers[s], id)]
    BY <1>1
  <2> QED BY <2>1 DEF Drop, Types, Holding
<1>5. MailCalm
  BY <1>2, SameMail DEF AInv
<1> QED BY <1>2, <1>3, <1>4, <1>5, SameCalling, SameRuns, QuietAnswers DEF AInv

LEMMA ExpireAnswers ==
    ASSUME Types, AInv, NEW t \in wheel, Expire(t)
    PROVE  AInv'
<1>1. t.serv \in Services /\ t.session \in Nat /\ t.id \in Nat
  BY DEF Types, Holding, Expiries
<1> DEFINE p == Packle("timer", Main, t.session, t.id)
<1>2. p \in Packles /\ CallOf(p) = 0 /\ p.kind # "ret"
  BY <1>1, PackleIs, MainIs DEF Packle, CallOf
<1>3. Push(t.serv, p)
  BY DEF Expire
<1> HIDE DEF p
<1>4. MailCalm
  BY <1>1, <1>2, <1>3, PushCalm DEF AInv
<1>5. UNCHANGED <<co, run, forkQ, pool, retp, timers, within>>
  BY DEF Expire, corVars
<1>6. used["call"] \in Nat /\ used'["call"] \in Nat /\ used["call"] <= used'["call"]
  BY SameCalls, UsedCalls DEF Expire, Ops
<1> QED BY <1>4, <1>5, <1>6, SameCalling, SameRuns, QuietAnswers DEF AInv

LEMMA ForgetAnswers ==
    ASSUME Types, AInv, NEW t \in wheel, Forget(t)
    PROVE  AInv'
<1>1. UNCHANGED <<mail, co, run, forkQ, pool, retp, timers, within, used>>
  BY DEF Forget, corVars
<1>2. MailCalm
  BY <1>1, SameMail DEF AInv
<1> QED BY <1>1, <1>2, SameCalls, SameCalling, SameRuns, QuietAnswers DEF AInv

-----------------------------------------------------------------------------
(* The worker's loop resumes a coroutine.                                  *)

\* Only states, and what woke a coroutine, change.
SameFields == \A d \in Cors :
    /\ co'[d].wants = co[d].wants /\ co'[d].tid = co[d].tid /\ co'[d].sid = co[d].sid
    /\ co'[d].job = co[d].job /\ co'[d].req = co[d].req /\ co'[d].replied = co[d].replied
    /\ co'[d].rsrc = co[d].rsrc /\ co'[d].rsid = co[d].rsid

LEMMA ResumedIs ==
    ASSUME Types, NEW c \in Cors, NEW g \in Reasons,
           \/ co' = [co EXCEPT ![c].state = "RUNNING"]
           \/ co' = [co EXCEPT ![c].state = "RUNNING", ![c].got = g]
    PROVE  /\ SameFields /\ co'[c].state = "RUNNING"
           /\ \A d \in Cors : d # c => co'[d] = co[d]
           /\ \A d \in Cors : Busy(d)' <=> Busy(d)
<1>1. co \in [Cors -> Coroutines] /\ co[c] \in Coroutines
  BY DEF Types, Kept
<1>2. SameFields /\ co'[c].state = "RUNNING" /\ \A d \in Cors : d # c => co'[d] = co[d]
  BY <1>1 DEF SameFields, Coroutines
<1> QED BY <1>2 DEF SameFields, Busy

LEMMA WantsResumed ==
    ASSUME Types, Places, AInv, SameFields, NEW s \in Services, InLoop(s), used' = used,
           timers'[s] = timers[s],
           \A y \in DOMAIN pool'[s] : y \in DOMAIN pool[s] /\ pool'[s][y] = pool[s][y],
           \A d \in Cors : ForkedIn(s, d)' => ForkedIn(s, d) /\ co'[d].got = co[d].got
    PROVE  WantsOk(s)'
<1>1. WantsOk(s)
  BY DEF AInv, Wants
<1>2. \A id : ~Doomed(s, id)
  BY InLoopIs DEF Places
<1>3. PoolWants(s)'
  <2>1. \A y \in DOMAIN pool'[s] : pool[s][y] \in Cors
    BY DEF Types, Holding
  <2>2. \A y \in DOMAIN pool'[s] :
          co'[pool[s][y]].sid = co[pool[s][y]].sid /\ co'[pool[s][y]].wants = co[pool[s][y]].wants
    BY <2>1 DEF SameFields
  <2> QED BY <1>1, <2>2 DEF WantsOk, PoolWants
<1>4. TimerWants(s)'
  <2>1. \A id \in DOMAIN timers[s] : timers[s][id].cor \in Cors
    BY DEF Types, Holding, Entries
  <2> QED BY <1>1, <1>2, <2>1 DEF WantsOk, TimerWants, SameFields
<1>5. ForkWants(s)'
  BY <1>1 DEF WantsOk, ForkWants, SameFields
<1> QED BY <1>3, <1>4, <1>5 DEF WantsOk

\* Nothing ran, so what was busy in s is in pool.
LEMMA BusyPooled ==
    ASSUME Types, NEW s \in Services, InLoop(s), NEW d \in Cors
    PROVE  ~Runs(s, d) /\ (BusyIn(s, d) => PooledIn(s, d))
<1>1. run[s].cor = NoCor /\ d # NoCor
  BY NotRunningIs DEF InLoop, Cors, NoCor
<1> QED BY <1>1 DEF BusyIn, Runs

\* A handler that owes an answer does not wait for a timer.
LEMMA BusyNotTimed ==
    ASSUME Types, Places, AInv, NEW s \in Services, InLoop(s), NEW id \in DOMAIN timers[s]
    PROVE  ~Busy(timers[s][id].cor)
<1> DEFINE c == timers[s][id].cor
<1>1. c \in Cors /\ id \in Nat /\ TimedAt(s, id, c) /\ HeldIn(s, c)
  BY DEF Types, Holding, Entries, TimedAt, HeldIn, TimedIn
<1>2. ~Doomed(s, id)
  BY InLoopIs DEF Places
<1>3. ~PooledIn(s, c)
  BY <1>1, <1>2 DEF Places, PlacesOk, PoolOk
<1>4. ASSUME Busy(c) PROVE FALSE
  <2>1. PICK r \in Services : BusyIn(r, c)
    BY <1>1, <1>4 DEF AInv, Handlers, BusyHeld
  <2>2. HeldIn(r, c)
    BY <2>1 DEF BusyIn, HeldIn
  <2>3. r = s
    BY <1>1, <2>2 DEF Places, Belongs
  <2> QED BY <1>1, <1>3, <2>1, <2>3, BusyPooled
<1> QED BY <1>4

LEMMA ResumeForkAnswers ==
    ASSUME Types, Places, AInv, NEW s \in Services, ResumeFork(s)
    PROVE  AInv'
<1>0. PICK c \in Cors : c = Head(forkQ[s])
  BY TailIs DEF Types, Holding, ResumeFork
<1>1. /\ forkQ[s] \in Seq(Cors) /\ forkQ[s] # <<>> /\ InLoop(s)
      /\ co' = [co EXCEPT ![c].state = "RUNNING"]
      /\ run' = [run EXCEPT ![s] = [NotRunning EXCEPT !.cor = c, !.by = "fork"]]
      /\ forkQ' = [forkQ EXCEPT ![s] = Tail(@)]
      /\ UNCHANGED <<mail, pool, retp, timers, within, used>>
  BY <1>0 DEF Types, Holding, ResumeFork, timerVars
<1>2. /\ c \in Cors /\ c = forkQ[s][1] /\ 1 \in 1..Len(forkQ[s])
      /\ \A i \in 1..Len(Tail(forkQ[s])) :
           i + 1 \in 1..Len(forkQ[s]) /\ Tail(forkQ[s])[i] = forkQ[s][i + 1]
  BY <1>0, <1>1, TailIs
<1>3. ForkedIn(s, c) /\ HeldIn(s, c)
  BY <1>2 DEF ForkedIn, HeldIn
<1>4. co[c].got = co[c].wants /\ co[c].req = 0
  BY <1>2, <1>3 DEF AInv, Wants, WantsOk, ForkWants
<1>5. /\ SameFields /\ co'[c].state = "RUNNING"
      /\ \A d \in Cors : d # c => co'[d] = co[d]
      /\ \A d \in Cors : Busy(d)' <=> Busy(d)
  BY <1>1, <1>2, ReasonsAre, ResumedIs
<1>6. \A d \in Cors : co'[d].got = co[d].got
  BY <1>1, <1>2 DEF Types, Kept, Coroutines
<1>7. \A d \in Cors : ForkedIn(s, d)' => ForkedIn(s, d)
  <2>1. forkQ'[s] = Tail(forkQ[s])
    BY <1>1 DEF Types, Holding
  <2> QED BY <1>2, <2>1 DEF ForkedIn
<1>8. run'[s].cor = c /\ \A r \in Services : r # s => run'[r] = run[r] /\ forkQ'[r] = forkQ[r]
  BY <1>1, NotRunningIs DEF Types, Kept, Holding, Resumptions
<1>9. WantsOk(s)'
  BY <1>1, <1>5, <1>6, <1>7, WantsResumed
<1>10. co'[c].got = co'[c].wants
  BY <1>2, <1>4, <1>5, <1>6 DEF SameFields
<1>11. Wants'
  BY <1>1, <1>2, <1>3, <1>5, <1>8, <1>9, <1>10, SameCalls, WantsStep DEF AInv
<1>12. ~Busy(c)' /\ ~Busy(c)
  BY <1>2, <1>4, <1>5 DEF Busy
<1>13. Handlers'
  <2>1. \A d \in Cors : BusyIn(s, d) => BusyIn(s, d)'
    BY <1>1, BusyPooled DEF BusyIn, PooledIn
  <2>2. BusyRuns(s)'
    BY <1>8, <1>12 DEF BusyRuns, Busy
  <2> QED BY <1>1, <1>2, <1>3, <1>5, <1>8, <1>12, <2>1, <2>2, HandlersStep DEF AInv
<1>14. AnswersOk'
  <2>1. MailCalm
    BY <1>1, SameMail DEF AInv
  <2>2. \A d \in Services : retp[d] # NoPackle =>
          /\ run'[d].cor = run[d].cor /\ run'[d].by = run[d].by
          /\ co'[run[d].cor].rsrc = co[run[d].cor].rsrc
    <3>1. \A d \in Services : retp[d] # NoPackle => d # s /\ run[d].cor \in Cors
      BY <1>1, LoopIs DEF AInv, AnswersOk, Opens, SetOpen, Types, Kept, Resumptions
    <3> QED BY <1>5, <1>8, <3>1 DEF SameFields
  <2>3. \A r \in Services : \A y \in DOMAIN pool[r] :
          co'[pool[r][y]].wants = co[pool[r][y]].wants
    BY <1>5 DEF SameFields, Types, Holding
  <2>4. \A r, y, n : Open(r, y, n)' <=> Open(r, y, n)
    BY <1>1, <2>3 DEF Open, Calling
  <2> QED BY <1>1, <1>5, <2>1, <2>2, <2>4, AnswersStay DEF AInv, SameFields
<1> QED BY <1>11, <1>13, <1>14 DEF AInv

LEMMA DispatchTimerAnswers ==
    ASSUME Types, Places, Numbers, AInv, NEW s \in Services, DispatchTimer(s)
    PROVE  AInv'
<1>1. PICK p \in Oldest(s) : DispatchTimer(s)!(p)
  BY DEF DispatchTimer
<1> DEFINE t == timers[s][p.sid]
<1>0. PICK c \in Cors : c = t.cor
  BY <1>1 DEF Types, Holding, Entries
<1>2. /\ c = t.cor /\ p.sid \in DOMAIN timers[s] /\ p.sid \in Nat /\ t \in Entries
      /\ c \in Cors /\ t.loop \in BOOLEAN
  BY <1>0, <1>1 DEF Types, Holding, Entries
<1>3. mail \in Boxes /\ OnceIn(mail)
  BY DEF Types, Kept, Boxes, AInv, AnswersOk, Once
<1>4. p \in Packles /\ In(mail, s, p)
  BY <1>3, PopIs
<1>5. CallOf(p) = 0 /\ p.re \in Nat /\ (NoWrap => p.re = p.sid)
  BY <1>1, <1>4 DEF CallOf, Packles, Numbers, Ticks
<1>6. MailCalm
  BY <1>1, <1>5, PopCalm DEF AInv
<1>7. CASE co[c].state = "RUNNING"
  <2>1. /\ timers' = [timers EXCEPT ![s][p.sid].pending = @ + 1] /\ UNCHANGED <<co, run>>
        /\ UNCHANGED <<forkQ, pool, retp, within, used>>
    BY <1>1, <1>2, <1>7
  <2>2. \A r \in Services : \A id \in DOMAIN timers'[r] :
          /\ id \in DOMAIN timers[r] /\ timers'[r][id].cor = timers[r][id].cor
          /\ timers'[r][id].loop = timers[r][id].loop
    <3>1. timers' = [timers EXCEPT ![s] = [timers[s] EXCEPT ![p.sid] = [t EXCEPT !.pending = @ + 1]]]
      BY <2>1
    <3>2. [t EXCEPT !.pending = @ + 1].cor = t.cor /\ [t EXCEPT !.pending = @ + 1].loop = t.loop
      BY <1>2 DEF Entries
    <3> QED BY <1>2, <3>1, <3>2 DEF Types, Holding
  <2> QED BY <1>6, <2>1, <2>2, SameCalls, SameCalling, SameRuns, QuietAnswers DEF AInv
<1>8. CASE co[c].state # "RUNNING"
  <2>1. /\ co' = [co EXCEPT ![c].state = "RUNNING", ![c].got = Tick(p.re)]
        /\ run' = [run EXCEPT ![s] =
              [cor |-> c, by |-> "timer", tid |-> p.sid, loop |-> t.loop]]
        /\ UNCHANGED <<forkQ, pool, retp, timers, within, used>>
    BY <1>1, <1>2, <1>8
  <2>2. HeldIn(s, c)
    BY <1>2 DEF TimedIn, HeldIn
  <2>3. ~Doomed(s, p.sid)
    BY <1>1, InLoopIs DEF Places
  <2>4. co[c].wants = Tick(p.sid)
    BY <1>2, <2>3 DEF AInv, Wants, WantsOk, TimerWants
  <2>5. ~Busy(c) /\ ~ForkedIn(s, c)
    <3>1. TimedIn(s, c)
      BY <1>2 DEF TimedIn
    <3>2. ~ForkedIn(s, c)
      BY <1>2, <3>1 DEF Places, PlacesOk, ForksOk
    <3> QED BY <1>1, <1>2, <3>2, BusyNotTimed
  <2>6. co'[c].got = Tick(p.re)
    BY <1>2, <2>1 DEF Types, Kept, Coroutines
  <2> HIDE DEF t
  <2>7. /\ SameFields /\ co'[c].state = "RUNNING"
        /\ \A d \in Cors : d # c => co'[d] = co[d]
        /\ \A d \in Cors : Busy(d)' <=> Busy(d)
    BY <1>2, <1>5, <2>1, ReasonsAre, ResumedIs
  <2>8. run'[s].cor = c /\ \A r \in Services : r # s => run'[r] = run[r]
    BY <2>1 DEF Types, Kept
  <2>9. \A d \in Cors : ForkedIn(s, d)' => ForkedIn(s, d) /\ co'[d].got = co[d].got
    BY <2>1, <2>5, <2>7 DEF ForkedIn
  <2>10. WantsOk(s)'
    BY <1>1, <2>1, <2>7, <2>9, WantsResumed
  <2>11. Wants'
    <3>1. NoWrap => co'[c].got = co'[c].wants
      BY <1>2, <1>5, <2>4, <2>6, <2>7 DEF SameFields
    <3> QED BY <1>2, <2>1, <2>2, <2>7, <2>8, <2>10, <3>1, SameCalls, WantsStep DEF AInv
  <2>12. Handlers'
    <3>1. \A d \in Cors : BusyIn(s, d) => BusyIn(s, d)'
      BY <1>1, <2>1, BusyPooled DEF BusyIn, PooledIn
    <3>2. ~Busy(c)'
      BY <1>2, <2>5, <2>7
    <3>3. BusyRuns(s)'
      BY <2>8, <3>2 DEF BusyRuns, Busy
    <3> QED BY <1>2, <2>1, <2>2, <2>7, <2>8, <3>1, <3>2, <3>3, HandlersStep DEF AInv
  <2>13. AnswersOk'
    <3>1. \A d \in Services : retp[d] # NoPackle =>
            /\ run'[d].cor = run[d].cor /\ run'[d].by = run[d].by
            /\ co'[run[d].cor].rsrc = co[run[d].cor].rsrc
      <4>1. \A d \in Services : retp[d] # NoPackle => d # s /\ run[d].cor \in Cors
        BY <1>1, LoopIs DEF AInv, AnswersOk, Opens, SetOpen, Types, Kept, Resumptions
      <4> QED BY <2>7, <2>8, <4>1 DEF SameFields
    <3>2. \A r \in Services : \A y \in DOMAIN pool[r] :
            co'[pool[r][y]].wants = co[pool[r][y]].wants
      BY <2>7 DEF SameFields, Types, Holding
    <3>3. \A r, y, n : Open(r, y, n)' <=> Open(r, y, n)
      BY <2>1, <3>2 DEF Open, Calling
    <3> QED BY <1>6, <2>1, <2>7, <3>1, <3>3, AnswersStay DEF AInv, SameFields
  <2> QED BY <2>11, <2>12, <2>13 DEF AInv
<1> QED BY <1>7, <1>8

-----------------------------------------------------------------------------
(* Service code takes a coroutine.                                         *)

\* A new coroutine was no handler that owes an answer, and nobody has it.
LEMMA NewIsIdle ==
    ASSUME Types, Places, AInv, NEW x \in Cors, GetCoroutine(x)
    PROVE  /\ ~Busy(x) /\ \A r \in Services : ~HeldIn(r, x)
           /\ \A r \in Services : run[r].cor # x
           /\ \A r \in Services : \A y \in DOMAIN pool[r] : pool[r][y] # x
           /\ \A r \in Services : \A id \in DOMAIN timers[r] : timers[r][id].cor # x
<1>1. \A r \in Services : ~HeldIn(r, x)
  BY NewIsNowhere DEF Types, Places
<1>2. ~Busy(x)
  BY <1>1 DEF AInv, Handlers, BusyHeld, BusyIn, HeldIn
<1> QED BY <1>1, <1>2 DEF HeldIn, PooledIn, TimedIn, Runs

\* What the new coroutine does not touch: everything that is about others.
LEMMA NewAnswers ==
    ASSUME Types, Places, AInv, NEW x \in Cors, GetCoroutine(x), UNCHANGED <<mail, run, pool, retp>>,
           CallingStays, \A d \in Cors : d # x => co'[d] = co[d], ~Busy(x)'
    PROVE  AnswersOk'
<1>1. \A h \in Cors : Busy(h)' <=> Busy(h)
  BY NewIsIdle DEF Busy
<1>2. \A h \in Cors : Busy(h)' => co'[h] = co[h]
  OBVIOUS
<1>3. \A r \in Services : \A y \in DOMAIN pool[r] : co'[pool[r][y]] = co[pool[r][y]]
  BY NewIsIdle DEF Types, Holding
<1>4. \A d \in Services : retp[d] # NoPackle => co'[run[d].cor] = co[run[d].cor]
  <2>1. \A d \in Services : retp[d] # NoPackle => run[d].cor \in Cors
    BY DEF AInv, AnswersOk, Opens, SetOpen, Types, Kept, Resumptions
  <2> QED BY <2>1, NewIsIdle
<1>5. MailCalm
  BY SameMail DEF AInv
<1>6. \A r, y, n : Open(r, y, n)' <=> Open(r, y, n)
  BY <1>3 DEF Open, CallingStays
<1> QED BY <1>1, <1>2, <1>4, <1>5, <1>6, AnswersStay DEF AInv

LEMMA ForkAnswers ==
    ASSUME Types, Places, AInv, NEW s \in Services, NEW c \in Cors, Fork(s, c)
    PROVE  AInv'
<1>1. PICK x \in Cors : Fork(s, c)!(x)
  BY DEF Fork
<1>2. /\ co'[x] = NewCor("fork") /\ \A d \in Cors : d # x => co'[d] = co[d]
      /\ UNCHANGED <<mail, run, pool, retp, timers, within>>
  BY <1>1 DEF Types, Kept, timerVars
<1>3. /\ co'[x].req = 0 /\ co'[x].got = co'[x].wants /\ co'[x].state = "INIT"
      /\ ~Busy(x)'
  BY <1>2 DEF NewCor, Busy
<1>4. used["call"] \in Nat /\ used'["call"] \in Nat /\ used["call"] <= used'["call"]
  BY <1>1, UsedCalls DEF Ops
<1>5. /\ \A r \in Services : r # s => forkQ'[r] = forkQ[r]
      /\ \A d \in Cors : ForkedIn(s, d)' => ForkedIn(s, d) \/ d = x
  <2>1. forkQ[s] \in Seq(Cors) /\ forkQ'[s] = Append(forkQ[s], x)
    BY <1>1 DEF Types, Holding
  <2>2. \A i \in 1..Len(forkQ'[s]) :
          (i \in 1..Len(forkQ[s]) /\ forkQ'[s][i] = forkQ[s][i]) \/ forkQ'[s][i] = x
    BY <2>1, AppendIs
  <2>3. \A r \in Services : r # s => forkQ'[r] = forkQ[r]
    BY <1>1 DEF Types, Holding
  <2> QED BY <2>2, <2>3 DEF ForkedIn
<1>6. WantsOk(s)'
  <2>1. WantsOk(s)
    BY DEF AInv, Wants
  <2>2. PoolWants(s)'
    <3>1. \A y \in DOMAIN pool[s] : co'[pool[s][y]] = co[pool[s][y]]
      BY <1>1, <1>2, NewIsIdle DEF Types, Holding
    <3>2. \A n \in 1..used["call"] : n \in 1..used'["call"]
      BY <1>4
    <3> QED BY <1>2, <2>1, <3>1, <3>2 DEF WantsOk, PoolWants
  <2>3. TimerWants(s)'
    <3>1. \A id \in DOMAIN timers[s] : co'[timers[s][id].cor] = co[timers[s][id].cor]
      BY <1>1, <1>2, NewIsIdle DEF Types, Holding, Entries
    <3> QED BY <1>2, <2>1, <3>1 DEF WantsOk, TimerWants, Doomed
  <2>4. ForkWants(s)'
    BY <1>2, <1>3, <1>5, <2>1 DEF WantsOk, ForkWants
  <2> QED BY <2>2, <2>3, <2>4 DEF WantsOk
<1>7. Wants'
  BY <1>1, <1>2, <1>3, <1>4, <1>5, <1>6, WantsStep DEF AInv
<1>8. Handlers'
  <2>1. \A d \in Cors : d # x /\ BusyIn(s, d) => BusyIn(s, d)'
    BY <1>2 DEF BusyIn, Runs, PooledIn
  <2>2. BusyRuns(s)'
    <3>1. run[s].cor # NoCor => run[s].cor \in Cors /\ run[s].cor # x
      BY <1>1, NewIsIdle DEF Types, Kept, Resumptions
    <3> QED BY <1>2, <3>1 DEF AInv, Handlers, BusyRuns, Busy
  <2> QED BY <1>1, <1>2, <1>3, <2>1, <2>2, HandlersStep DEF AInv
<1>9. AnswersOk'
  BY <1>1, <1>2, <1>3, SameCalling, NewAnswers
<1> QED BY <1>7, <1>8, <1>9 DEF AInv

\* m_timers has one entry more, that of the coroutine addTimer was called for.
LEMMA ArmedIs ==
    ASSUME Types, NEW s \in Services, NEW x \in Cors, NEW loop \in BOOLEAN, Armed(s, x, loop),
           within[s].at = "key"
    PROVE  /\ lastId \in Nat
           /\ \A r \in Services : r # s => timers'[r] = timers[r] /\ within'[r] = within[r]
           /\ within'[s].at = "no"
           /\ \A id \in DOMAIN timers'[s] :
                \/ id = lastId /\ timers'[s][id].cor = x /\ timers'[s][id].loop = loop
                \/ id \in DOMAIN timers[s] /\ id # lastId /\ timers'[s][id] = timers[s][id]
<1>1. timers' = [timers EXCEPT ![s] =
          Put(timers[s], lastId, [cor |-> x, loop |-> loop, pending |-> 0])]
  BY DEF Armed
<1>2. timers'[s] = Put(timers[s], lastId, [cor |-> x, loop |-> loop, pending |-> 0])
  BY <1>1 DEF Types, Holding
<1>3. \A id \in DOMAIN timers[s] : id # lastId
  BY DEF Types, Adding, Holding
<1>4. \A id \in DOMAIN timers'[s] :
        \/ id = lastId /\ timers'[s][id].cor = x /\ timers'[s][id].loop = loop
        \/ id \in DOMAIN timers[s] /\ id # lastId /\ timers'[s][id] = timers[s][id]
  BY <1>2, <1>3 DEF Put
<1>5. /\ \A r \in Services : r # s => timers'[r] = timers[r] /\ within'[r] = within[r]
      /\ within'[s].at = "no" /\ lastId \in Nat
  BY <1>1, NotWithinIs DEF Armed, Types, Holding
<1> QED BY <1>4, <1>5

LEMMA RegisterCallbackAnswers ==
    ASSUME Types, Places, AInv, NEW s \in Services, NEW c \in Cors, RegisterCallback(s, c)
    PROVE  AInv'
<1>1. PICK x \in Cors : RegisterCallback(s, c)!(x)
  BY DEF RegisterCallback
<1> DEFINE loop == within[s].op = "loop"
<1>2. /\ co'[x] = [NewCor(within[s].op) EXCEPT !.tid = lastId, !.wants = Tick(lastId)]
      /\ \A d \in Cors : d # x => co'[d] = co[d]
      /\ UNCHANGED <<mail, run, forkQ, pool, retp, used>>
  BY <1>1 DEF Types, Kept
<1>3. /\ co'[x].req = 0 /\ co'[x].wants = Tick(lastId) /\ co'[x].tid = lastId
      /\ co'[x].state = "INIT" /\ ~Busy(x)'
  BY <1>2 DEF NewCor, Busy
<1>4. /\ lastId \in Nat
      /\ \A r \in Services : r # s => timers'[r] = timers[r] /\ within'[r] = within[r]
      /\ within'[s].at = "no"
      /\ \A id \in DOMAIN timers'[s] :
           \/ id = lastId /\ timers'[s][id].cor = x /\ timers'[s][id].loop = loop
           \/ id \in DOMAIN timers[s] /\ id # lastId /\ timers'[s][id] = timers[s][id]
  <2>1. loop \in BOOLEAN /\ Armed(s, x, loop) /\ within[s].at = "key"
    BY <1>1
  <2> HIDE DEF loop
  <2> QED BY <2>1, ArmedIs
<1> HIDE DEF loop
<1>5. WantsOk(s)'
  <2>1. WantsOk(s)
    BY DEF AInv, Wants
  <2>2. PoolWants(s)'
    <3>1. \A y \in DOMAIN pool[s] : co'[pool[s][y]] = co[pool[s][y]]
      BY <1>1, <1>2, NewIsIdle DEF Types, Holding
    <3> QED BY <1>2, <2>1, <3>1 DEF WantsOk, PoolWants
  <2>3. TimerWants(s)'
    <3>1. \A id \in DOMAIN timers[s] : co'[timers[s][id].cor] = co[timers[s][id].cor]
      BY <1>1, <1>2, NewIsIdle DEF Types, Holding, Entries
    <3>2. ASSUME NEW id \in DOMAIN timers'[s], ~Doomed(s, id)
          PROVE  /\ co'[timers'[s][id].cor].wants = Tick(id)
                 /\ timers'[s][id].loop => co'[timers'[s][id].cor].tid = id
      <4>1. CASE id = lastId /\ timers'[s][id].cor = x
        BY <1>3, <4>1
      <4>2. CASE id \in DOMAIN timers[s] /\ timers'[s][id] = timers[s][id]
        BY <2>1, <3>1, <3>2, <4>2 DEF WantsOk, TimerWants
      <4> QED BY <1>4, <4>1, <4>2
    <3> QED BY <1>2, <3>2 DEF TimerWants, Doomed
  <2>4. ForkWants(s)'
    <3>1. ~ForkedIn(s, x)
      BY <1>1, NewIsIdle DEF HeldIn
    <3> QED BY <1>2, <2>1, <3>1 DEF WantsOk, ForkWants, ForkedIn
  <2> QED BY <2>2, <2>3, <2>4 DEF WantsOk
<1>6. Wants'
  BY <1>1, <1>2, <1>3, <1>4, <1>5, SameCalls, WantsStep DEF AInv
<1>7. Handlers'
  <2>1. \A d \in Cors : d # x /\ BusyIn(s, d) => BusyIn(s, d)'
    BY <1>2 DEF BusyIn, Runs, PooledIn
  <2>2. BusyRuns(s)'
    <3>1. run[s].cor # NoCor => run[s].cor \in Cors /\ run[s].cor # x
      BY <1>1, NewIsIdle DEF Types, Kept, Resumptions
    <3> QED BY <1>2, <1>4, <3>1 DEF AInv, Handlers, BusyRuns, Busy
  <2> QED BY <1>1, <1>2, <1>3, <1>4, <2>1, <2>2, HandlersStep DEF AInv
<1>8. CallingStays
  BY <1>1, <1>4 DEF CallingStays, Calling
<1>9. AnswersOk'
  BY <1>1, <1>2, <1>3, <1>8, NewAnswers
<1> QED BY <1>6, <1>7, <1>9 DEF AInv

-----------------------------------------------------------------------------
(* Service code gives up its coroutine, or goes on.                        *)

\* What runs code waits under no session and holds no other place.
LEMMA RunnerIs ==
    ASSUME Types, Places, NEW s \in Services, NEW c \in Cors, Executes(s, c)
    PROVE  /\ run[s].cor = c /\ co[c].state = "RUNNING" /\ HeldIn(s, c)
           /\ \A r \in Services : r # s => run[r].cor # c
           /\ \A r \in Services : ~ForkedIn(r, c)
           /\ \A r \in Services : \A y \in DOMAIN pool[r] : pool[r][y] # c
           /\ \A id \in DOMAIN timers[s] :
                timers[s][id].cor = c => Doomed(s, id) \/ co[c].job = "loop"
<1>1. PlacesOk(s)
  BY DEF Places
<1>2. /\ run[s].cor = c /\ co[c].state = "RUNNING" /\ HeldIn(s, c)
      /\ ~ForkedIn(s, c) /\ ~PooledIn(s, c)
      /\ co[c].job # "loop" => \A id \in Nat : TimedAt(s, id, c) => Doomed(s, id)
  BY <1>1, CodeIs
<1>3. \A r \in Services : r # s => ~HeldIn(r, c)
  BY <1>2 DEF Places, Belongs
<1>4. \A r \in Services : ~ForkedIn(r, c) /\ ~PooledIn(r, c)
  BY <1>2, <1>3 DEF HeldIn
<1>5. \A id \in DOMAIN timers[s] :
        timers[s][id].cor = c => Doomed(s, id) \/ co[c].job = "loop"
  BY <1>2 DEF TimedAt, Types, Holding
<1> QED BY <1>2, <1>3, <1>4, <1>5 DEF HeldIn, Runs, PooledIn

\* It runs no handler that owes an answer, and lets go of no packle.
LEMMA RunnerAnswers ==
    ASSUME Types, Places, AInv, NEW s \in Services, NEW c \in Cors, Executes(s, c),
           UNCHANGED <<mail, run, pool, retp>>, CallingStays,
           \A d \in Cors : d # c => co'[d] = co[d], co'[c].rsrc = co[c].rsrc, ~Busy(c)',
           "answer" \in Rules => ~Busy(c)
    PROVE  AnswersOk'
<1>1. \A h \in Cors : Busy(h)' => Busy(h) /\ co'[h] = co[h]
  BY DEF Busy
<1>2. "answer" \in Rules => \A h \in Cors : Busy(h) => Busy(h)'
  BY DEF Busy
<1>3. \A r \in Services : \A y \in DOMAIN pool[r] : co'[pool[r][y]] = co[pool[r][y]]
  BY RunnerIs DEF Types, Holding
<1>4. \A d \in Services : retp[d] # NoPackle => co'[run[d].cor].rsrc = co[run[d].cor].rsrc
  <2>1. \A d \in Services : retp[d] # NoPackle => run[d].cor \in Cors
    BY DEF AInv, AnswersOk, Opens, SetOpen, Types, Kept, Resumptions
  <2> QED BY <2>1
<1>5. MailCalm
  BY SameMail DEF AInv
<1>6. \A r, y, n : Open(r, y, n)' <=> Open(r, y, n)
  BY <1>3 DEF Open, CallingStays
<1> QED BY <1>1, <1>2, <1>4, <1>5, <1>6, AnswersStay DEF AInv

LEMMA RegisterSleepAnswers ==
    ASSUME Types, Places, AInv, NEW s \in Services, NEW c \in Cors, RegisterSleep(s, c)
    PROVE  AInv'
<1>1. /\ Executes(s, c) /\ within[s].at = "key" /\ within[s].op = "sleep"
      /\ Armed(s, c, FALSE)
      /\ co' = [co EXCEPT ![c].state = "SUSPENDED", ![c].wants = Tick(lastId)]
      /\ UNCHANGED <<mail, run, forkQ, pool, retp, used>>
  BY DEF RegisterSleep
<1>2. /\ run[s].cor = c /\ co[c].state = "RUNNING" /\ HeldIn(s, c)
      /\ ~ForkedIn(s, c) /\ c # NoCor
      /\ \A y \in DOMAIN pool[s] : pool[s][y] # c
  BY <1>1, RunnerIs DEF Cors, NoCor
<1>3. ~Busy(c) /\ co[c].job # "loop"
  BY <1>1, <1>2 DEF AInv, Handlers, BusyRuns, Places, PlacesOk, AddOk
<1>4. /\ \A d \in Cors : d # c => co'[d] = co[d]
      /\ co'[c].state = "SUSPENDED" /\ co'[c].wants = Tick(lastId)
      /\ co'[c].req = co[c].req /\ co'[c].replied = co[c].replied /\ co'[c].rsrc = co[c].rsrc
  BY <1>1 DEF Types, Kept, Coroutines
<1>5. ~Busy(c)'
  BY <1>3, <1>4 DEF Busy
<1>6. /\ lastId \in Nat
      /\ \A r \in Services : r # s => timers'[r] = timers[r] /\ within'[r] = within[r]
      /\ within'[s].at = "no"
      /\ \A id \in DOMAIN timers'[s] :
           \/ id = lastId /\ timers'[s][id].cor = c /\ timers'[s][id].loop = FALSE
           \/ id \in DOMAIN timers[s] /\ id # lastId /\ timers'[s][id] = timers[s][id]
  BY <1>1, ArmedIs
<1>7. WantsOk(s)'
  <2>1. WantsOk(s)
    BY DEF AInv, Wants
  <2>2. PoolWants(s)'
    <3>1. \A y \in DOMAIN pool[s] : co'[pool[s][y]] = co[pool[s][y]]
      BY <1>2, <1>4 DEF Types, Holding
    <3>2. pool' = pool /\ used' = used
      BY <1>1
    <3> QED BY <2>1, <3>1, <3>2 DEF WantsOk, PoolWants
  <2>3. TimerWants(s)'
    <3>1. \A id \in DOMAIN timers[s] : ~Doomed(s, id) => co'[timers[s][id].cor] = co[timers[s][id].cor]
      <4>1. \A id \in DOMAIN timers[s] : timers[s][id].cor = c => Doomed(s, id)
        BY <1>1, <1>3, RunnerIs
      <4>2. \A id \in DOMAIN timers[s] : timers[s][id].cor \in Cors
        BY DEF Types, Holding, Entries
      <4> QED BY <1>4, <4>1, <4>2
    <3>2. ASSUME NEW id \in DOMAIN timers'[s], ~Doomed(s, id)
          PROVE  /\ co'[timers'[s][id].cor].wants = Tick(id)
                 /\ timers'[s][id].loop => co'[timers'[s][id].cor].tid = id
      <4>1. CASE id = lastId /\ timers'[s][id].cor = c /\ timers'[s][id].loop = FALSE
        BY <1>4, <4>1
      <4>2. CASE id \in DOMAIN timers[s] /\ timers'[s][id] = timers[s][id]
        BY <2>1, <3>1, <3>2, <4>2 DEF WantsOk, TimerWants
      <4> QED BY <1>6, <4>1, <4>2
    <3>3. run' = run
      BY <1>1
    <3> QED BY <3>2, <3>3 DEF TimerWants, Doomed
  <2>4. ForkWants(s)'
    BY <1>1, <1>2, <1>4, <2>1 DEF WantsOk, ForkWants, ForkedIn
  <2> QED BY <2>2, <2>3, <2>4 DEF WantsOk
<1>8. Wants'
  BY <1>1, <1>2, <1>4, <1>6, <1>7, SameCalls, WantsStep DEF AInv
<1>9. Handlers'
  <2>1. \A d \in Cors : d # c /\ BusyIn(s, d) => BusyIn(s, d)'
    BY <1>1, <1>4 DEF BusyIn, Runs, PooledIn
  <2>2. BusyRuns(s)'
    BY <1>1, <1>2, <1>5 DEF BusyRuns, Busy
  <2> QED BY <1>1, <1>2, <1>4, <1>5, <1>6, <2>1, <2>2, HandlersStep DEF AInv
<1>10. CallingStays
  BY <1>1, <1>6 DEF CallingStays, Calling
<1>11. AnswersOk'
  BY <1>1, <1>3, <1>4, <1>5, <1>10, RunnerAnswers
<1> QED BY <1>8, <1>9, <1>11 DEF AInv

LEMMA FinishAnswers ==
    ASSUME Types, Places, AInv, NEW s \in Services, NEW c \in Cors, Finish(s, c)
    PROVE  AInv'
<1> DEFINE again == /\ co[c].job = "loop" /\ co[c].tid \in DOMAIN timers[s]
                    /\ timers[s][co[c].tid].pending > 0
<1>1. /\ Executes(s, c) /\ within[s].at = "no"
      /\ "answer" \in Rules => co[c].req = 0 \/ co[c].replied
      /\ co' = IF again THEN co
               ELSE IF co[c].job = "loop"
               THEN [co EXCEPT ![c].state = "SUSPENDED", ![c].wants = Tick(co[c].tid)]
               ELSE [co EXCEPT ![c] = Stopped(@)]
      /\ timers' = IF again THEN [timers EXCEPT ![s][co[c].tid].pending = @ - 1]
                   ELSE timers
      /\ UNCHANGED <<mail, run, forkQ, pool, retp, within, used>>
  BY DEF Finish, InCode
<1>2. /\ run[s].cor = c /\ co[c].state = "RUNNING" /\ HeldIn(s, c)
      /\ ~ForkedIn(s, c) /\ c # NoCor
      /\ \A y \in DOMAIN pool[s] : pool[s][y] # c
  BY <1>1, RunnerIs DEF Cors, NoCor
<1>3. CASE again
  <2>1. co' = co /\ timers' = [timers EXCEPT ![s][co[c].tid].pending = @ - 1]
    BY <1>1, <1>3
  <2>2. \A r \in Services : \A id \in DOMAIN timers'[r] :
          /\ id \in DOMAIN timers[r] /\ timers'[r][id].cor = timers[r][id].cor
          /\ timers'[r][id].loop = timers[r][id].loop
    BY <1>3, <2>1 DEF Types, Holding, Entries
  <2>3. MailCalm
    BY <1>1, SameMail DEF AInv
  <2> QED BY <1>1, <2>1, <2>2, <2>3, SameCalls, SameCalling, SameRuns, QuietAnswers DEF AInv
<1>4. CASE ~again
  <2>1. /\ \A d \in Cors : d # c => co'[d] = co[d]
        /\ timers' = timers /\ co'[c].rsrc = co[c].rsrc
        /\ co'[c].state # "RUNNING" /\ ~Busy(c)'
        /\ co[c].job = "loop" => co'[c].wants = Tick(co[c].tid) /\ co'[c].tid = co[c].tid
    <3>1. timers' = timers /\ \A d \in Cors : d # c => co'[d] = co[d]
      BY <1>1, <1>4 DEF Types, Kept
    <3>2. CASE co[c].job = "loop"
      <4>1. co' = [co EXCEPT ![c].state = "SUSPENDED", ![c].wants = Tick(co[c].tid)]
        BY <1>1, <1>4, <3>2
      <4>2. /\ co'[c].rsrc = co[c].rsrc /\ co'[c].state = "SUSPENDED"
            /\ co'[c].wants = Tick(co[c].tid) /\ co'[c].tid = co[c].tid
            /\ co'[c].req = co[c].req /\ co'[c].replied = co[c].replied
        BY <4>1 DEF Types, Kept, Coroutines
      <4>3. ~Busy(c)
        BY <3>2 DEF AInv, Handlers, BusyHeld
      <4> QED BY <3>1, <4>2, <4>3 DEF Busy
    <3>3. CASE co[c].job # "loop"
      <4>1. co' = [co EXCEPT ![c] = Stopped(co[c])]
        BY <1>1, <1>4, <3>3
      <4>2. co'[c] = Stopped(co[c])
        BY <4>1 DEF Types, Kept
      <4>3. co'[c].rsrc = co[c].rsrc /\ co'[c].state = "STOPPED" /\ co'[c].req = 0
        BY <4>2 DEF Stopped, NewCor
      <4> QED BY <3>1, <3>3, <4>3 DEF Busy
    <3> QED BY <3>2, <3>3
  <2>2. WantsOk(s)'
    <3>1. WantsOk(s)
      BY DEF AInv, Wants
    <3>2. PoolWants(s)'
      <4>1. \A y \in DOMAIN pool[s] : co'[pool[s][y]] = co[pool[s][y]]
        BY <1>2, <2>1 DEF Types, Holding
      <4>2. pool' = pool /\ used' = used
        BY <1>1
      <4> QED BY <3>1, <4>1, <4>2 DEF WantsOk, PoolWants
    <3>3. TimerWants(s)'
      <4>1. ASSUME NEW id \in DOMAIN timers[s], ~Doomed(s, id)
            PROVE  /\ co'[timers[s][id].cor].wants = Tick(id)
                   /\ timers[s][id].loop => co'[timers[s][id].cor].tid = id
        <5>1. /\ co[timers[s][id].cor].wants = Tick(id)
              /\ timers[s][id].loop => co[timers[s][id].cor].tid = id
          BY <3>1, <4>1 DEF WantsOk, TimerWants
        <5>2. timers[s][id].cor \in Cors
          BY DEF Types, Holding, Entries
        <5>3. CASE timers[s][id].cor = c
          <6>1. co[c].job = "loop"
            BY <1>1, <4>1, <5>3, RunnerIs
          <6>2. timers[s][id].loop
            BY <5>3, <6>1 DEF Places, PlacesOk, TimersOk
          <6> QED BY <2>1, <5>1, <5>3, <6>1, <6>2
        <5>4. CASE timers[s][id].cor # c
          BY <2>1, <5>1, <5>2, <5>4
        <5> QED BY <5>3, <5>4
      <4> QED BY <1>1, <2>1, <4>1 DEF TimerWants, Doomed
    <3>4. ForkWants(s)'
      <4>1. forkQ' = forkQ
        BY <1>1
      <4> QED BY <1>2, <2>1, <3>1, <4>1 DEF WantsOk, ForkWants, ForkedIn
    <3> QED BY <3>2, <3>3, <3>4 DEF WantsOk
  <2>3. Wants'
    BY <1>1, <1>2, <2>1, <2>2, SameCalls, WantsStep DEF AInv
  <2>4. Handlers'
    <3>1. \A d \in Cors : d # c /\ BusyIn(s, d) => BusyIn(s, d)'
      BY <1>1, <2>1 DEF BusyIn, Runs, PooledIn
    <3>2. BusyRuns(s)'
      BY <1>1, <1>2, <2>1 DEF BusyRuns, Busy
    <3> QED BY <1>1, <1>2, <2>1, <3>1, <3>2, HandlersStep DEF AInv
  <2>5. AnswersOk'
    BY <1>1, <2>1, SameCalling, RunnerAnswers DEF Busy
  <2> QED BY <2>3, <2>4, <2>5 DEF AInv
<1> QED BY <1>3, <1>4

-----------------------------------------------------------------------------
(* An answer moves on.                                                     *)

LEMMA OpenIs ==
    ASSUME Types, Places, Numbers, AInv, NEW s, NEW y, NEW n, Open(s, y, n)
    PROVE  /\ s \in Services /\ y \in Sids /\ y \in Nat /\ y # 0
           /\ n \in Nat \ {0} /\ n <= used["call"]
<1>1. s \in Services
  BY DEF Open
<1>2. y \in Sids /\ \E m \in 1..used["call"] : m = n
  <2>1. CASE y \in DOMAIN pool[s] /\ co[pool[s][y]].wants = Reply(n)
    <3>1. PICK m \in 1..used["call"] : co[pool[s][y]].wants = Reply(m)
      BY <1>1, <2>1 DEF AInv, Wants, WantsOk, PoolWants
    <3>2. m = n
      BY <2>1, <3>1 DEF Reply
    <3> QED BY <1>1, <2>1, <3>1, <3>2 DEF Types, Holding
  <2>2. CASE Calling(s, y, n)
    BY <1>1, <2>2 DEF Calling, Numbers, CallsCount, Places, PlacesOk, AddOk
  <2> QED BY <2>1, <2>2 DEF Open
<1>3. y \in Nat /\ y # 0
  BY <1>2, DispatchAssumption
<1>4. used["call"] \in Nat
  BY DEF Types, Kept, Ops
<1> QED BY <1>1, <1>2, <1>3, <1>4

\* A number that is somewhere is that of a call that waits.
LEMMA PlacesAreOpen ==
    ASSUME Types, AInv, NEW n \in Nat \ {0}, Mailed(n) \/ Handled(n) \/ IsSet(n)
    PROVE  \E s, y : Open(s, y, n)
<1>1. CASE Mailed(n)
  <2>1. PICK d \in Services : \E i \in 1..Len(mail[d]) : CallOf(mail[d][i]) = n
    BY <1>1 DEF Mailed, MailedIn
  <2>2. PICK i \in 1..Len(mail[d]) : CallOf(mail[d][i]) = n
    BY <2>1
  <2>3. mail[d][i] \in Packles
    BY DEF Types, Kept
  <2>4. In(mail, d, mail[d][i])
    BY DEF In
  <2>5. mail[d][i].kind \in {"msg", "odd", "ret", "timer"}
    BY <2>3 DEF Packles
  <2> QED BY <2>2, <2>3, <2>4, <2>5 DEF AInv, AnswersOk, Opens, MailOpen, CallOf
<1>2. CASE Handled(n)
  BY <1>2 DEF Handled, AInv, AnswersOk, Opens, BusyOpen
<1>3. CASE IsSet(n)
  BY <1>3 DEF IsSet, AInv, AnswersOk, Opens, SetOpen
<1> QED BY <1>1, <1>2, <1>3

\* Nothing but the box of packles has changed for a number.
LEMMA MailedThen ==
    \A n : Mailed(n)' <=> MailedIn(mail', n)
  BY DEF Mailed, MailedIn

LEMMA SetReturnAnswers ==
    ASSUME Types, Places, AInv, RepliesFirst, NEW s \in Services, NEW c \in Cors,
           SetReturn(s, c)
    PROVE  AInv'
<1>1. /\ Executes(s, c) /\ Busy(c)
      /\ retp' = [retp EXCEPT ![s] = Packle("ret", s, co[c].rsid, co[c].req)]
      /\ co' = [co EXCEPT ![c].replied = TRUE]
  BY DEF SetReturn, InCode, Busy, RepliesFirst
<1>2. UNCHANGED <<mail, run, forkQ, pool, timers, within, used>>
  BY DEF SetReturn, timerVars
<1>3. PICK n \in Nat \ {0}, y \in Nat, t \in Senders : n = co[c].req /\ y = co[c].rsid /\ t = co[c].rsrc
  BY <1>1 DEF Types, Kept, Coroutines, Busy
<1>4. run[s].cor = c /\ co[c].state = "RUNNING" /\ HeldIn(s, c) /\ c # NoCor
  BY <1>1, RunnerIs DEF Cors, NoCor
<1>5. \A d \in Cors :
        /\ co'[d].wants = co[d].wants /\ co'[d].tid = co[d].tid /\ co'[d].sid = co[d].sid
        /\ co'[d].job = co[d].job /\ co'[d].req = co[d].req /\ co'[d].state = co[d].state
        /\ co'[d].got = co[d].got /\ co'[d].rsrc = co[d].rsrc /\ co'[d].rsid = co[d].rsid
  BY <1>1 DEF Types, Kept, Coroutines
<1>6. co'[c].replied = TRUE /\ \A d \in Cors : d # c => co'[d] = co[d]
  BY <1>1 DEF Types, Kept, Coroutines
<1>7. \A h \in Cors : Busy(h)' <=> Busy(h) /\ h # c
  BY <1>5, <1>6 DEF Busy
<1>8. Wants'
  <2>1. WantsOk(s)
    BY DEF AInv, Wants
  <2>2. \A y2 \in DOMAIN pool[s] : pool[s][y2] \in Cors
    BY DEF Types, Holding
  <2>3. \A id \in DOMAIN timers[s] : timers[s][id].cor \in Cors
    BY DEF Types, Holding, Entries
  <2>4. PoolWants(s)'
    BY <1>2, <1>5, <2>1, <2>2 DEF WantsOk, PoolWants
  <2>5. TimerWants(s)'
    BY <1>2, <1>5, <2>1, <2>3 DEF WantsOk, TimerWants, Doomed
  <2>6. ForkWants(s)'
    BY <1>2, <1>5, <2>1 DEF WantsOk, ForkWants, ForkedIn
  <2>7. NoWrap /\ co'[c].state = "RUNNING" => co'[c].got = co'[c].wants
    BY <1>5 DEF AInv, Wants, WokenByWhatItWaitsFor
  <2>8. WantsOk(s)'
    BY <2>4, <2>5, <2>6 DEF WantsOk
  <2> QED BY <1>2, <1>4, <1>6, <2>7, <2>8, SameCalls, WantsStep DEF AInv
<1>9. Handlers'
  <2>1. \A d \in Cors : BusyIn(s, d) => BusyIn(s, d)'
    BY <1>2, <1>5 DEF BusyIn, Runs, PooledIn
  <2>2. BusyRuns(s)'
    BY <1>2, <1>4, <1>6 DEF BusyRuns, Busy
  <2>3. ~Busy(c)'
    BY <1>7
  <2> QED BY <1>2, <1>4, <1>6, <2>1, <2>2, <2>3, HandlersStep DEF AInv
<1>10. \A t2, y2, m : Open(t2, y2, m)' <=> Open(t2, y2, m)
  <2>1. \A r \in Services : \A y2 \in DOMAIN pool[r] : pool[r][y2] \in Cors
    BY DEF Types, Holding
  <2> QED BY <1>2, <1>5, <2>1 DEF Open, Calling
<1>11. Open(t, y, n)
  BY <1>1, <1>3 DEF AInv, AnswersOk, Opens, BusyOpen
<1>12. Handled(n)
  BY <1>1, <1>3 DEF Handled
<1>13. retp[s] = NoPackle /\ ~Mailed(n) /\ ~IsSet(n)
  BY <1>1, <1>4, <1>12 DEF AInv, AnswersOk, Opens, SetOpen, Once, PlacesApart
<1>14. /\ retp'[s].re = n /\ retp'[s].sid = y /\ retp'[s] # NoPackle
       /\ \A d \in Services : d # s => retp'[d] = retp[d]
  BY <1>1, <1>3 DEF Types, Kept, Packle, NoPackle
<1>15. \A m : IsSet(m)' <=> IsSet(m) \/ m = n
  BY <1>13, <1>14 DEF IsSet
<1>16. \A m : Handled(m)' <=> Handled(m) /\ m # n
  <2>1. \A h \in Cors : Busy(h) /\ co[h].req = n => h = c
    BY <1>1, <1>3 DEF AInv, AnswersOk, Once, BusyOnce
  <2> QED BY <1>3, <1>5, <1>7, <2>1 DEF Handled
<1>17. \A m : Mailed(m)' <=> Mailed(m)
  BY <1>2 DEF Mailed, MailedIn
<1>18. Opens'
  <2>1. CallsDiffer'
    BY <1>10 DEF AInv, AnswersOk, Opens, CallsDiffer
  <2>2. MailOpen'
    BY <1>2, <1>10 DEF AInv, AnswersOk, Opens, MailOpen, In
  <2>3. BusyOpen'
    BY <1>5, <1>7, <1>10 DEF AInv, AnswersOk, Opens, BusyOpen
  <2>4. SetOpen'
    <3> SUFFICES ASSUME NEW d \in Services, retp'[d] # NoPackle
                 PROVE  /\ retp'[d].re # 0
                        /\ run[d].cor # NoCor /\ run[d].by \in {"msg", "ret"}
                        /\ ~(co'[run[d].cor].req # 0 /\ ~co'[run[d].cor].replied)
                        /\ Open(co'[run[d].cor].rsrc, retp'[d].sid, retp'[d].re)
      BY <1>2, <1>10 DEF SetOpen, Busy
    <3>1. CASE d = s
      <4>1. run[s].by \in {"msg", "ret"}
        BY <1>1, <1>4 DEF AInv, Handlers, BusyRuns
      <4>2. co'[c].rsrc = t
        BY <1>3, <1>5
      <4> QED BY <1>3, <1>4, <1>6, <1>11, <1>14, <3>1, <4>1, <4>2
    <3>2. CASE d # s
      <4>1. /\ retp[d].re # 0
            /\ run[d].cor # NoCor /\ run[d].by \in {"msg", "ret"} /\ ~Busy(run[d].cor)
            /\ Open(co[run[d].cor].rsrc, retp[d].sid, retp[d].re)
        BY <1>14, <3>2 DEF AInv, AnswersOk, Opens, SetOpen
      <4>2. run[d].cor \in Cors /\ run[d].cor # c
        BY <1>1, <3>2, <4>1, RunnerIs DEF Types, Kept, Resumptions
      <4> QED BY <1>6, <1>14, <3>2, <4>1, <4>2 DEF Busy
    <3> QED BY <3>1, <3>2
  <2> QED BY <2>1, <2>2, <2>3, <2>4 DEF Opens
<1>19. Once'
  <2>1. OnceIn(mail)'
    BY <1>2 DEF AInv, AnswersOk, Once, OnceIn
  <2>2. BusyOnce'
    BY <1>5, <1>7 DEF AInv, AnswersOk, Once, BusyOnce
  <2>3. SetOnce'
    <3>1. \A d \in Services : d # s /\ retp'[d] # NoPackle => retp'[d].re # n
      BY <1>13, <1>14 DEF IsSet
    <3> QED BY <1>14, <3>1 DEF AInv, AnswersOk, Once, SetOnce
  <2>4. PlacesApart'
    BY <1>13, <1>15, <1>16, <1>17 DEF AInv, AnswersOk, Once, PlacesApart
  <2> QED BY <2>1, <2>2, <2>3, <2>4 DEF Once
<1>20. Answered'
  BY <1>10, <1>15, <1>16, <1>17 DEF AInv, AnswersOk, Answered
<1> QED BY <1>8, <1>9, <1>18, <1>19, <1>20 DEF AInv, AnswersOk

LEMMA DispatchMsgAnswers ==
    ASSUME Types, Places, Numbers, AInv, NEW s \in Services, DispatchMsg(s)
    PROVE  AInv'
<1>1. PICK p \in Oldest(s), c \in Cors : DispatchMsg(s)!(p, c)
  BY DEF DispatchMsg
<1>2. /\ InLoop(s) /\ p.kind = "msg" /\ GetCoroutine(c) /\ mail' = Popped(s)
      /\ UNCHANGED <<forkQ, pool, retp, timers, within, used>>
  BY <1>1 DEF timerVars
<1>3. mail \in Boxes /\ OnceIn(mail)
  BY DEF Types, Kept, Boxes, AInv, AnswersOk, Once
<1>4. /\ p \in Packles /\ In(mail, s, p)
      /\ \A d \in Services, q \in Packles : In(mail', d, q) => In(mail, d, q)
      /\ OnceIn(mail')
      /\ p.re # 0 => Mailed(p.re)
      /\ \A m \in Nat \ {0} : MailedIn(mail', m) <=> Mailed(m) /\ m # p.re
  <2>1. CallOf(p) = p.re
    BY <1>2 DEF CallOf
  <2>2. mail' = Popped(s)
    BY <1>2
  <2> QED BY <1>3, <2>1, <2>2, PopIs
<1>5. PICK n \in Nat : n = p.re
  BY <1>4 DEF Packles
<1>6. n # 0 => Open(p.src, p.sid, n)
  BY <1>2, <1>4, <1>5 DEF AInv, AnswersOk, Opens, MailOpen
<1>7. /\ co'[c] = [NewCor("handler") EXCEPT !.state = "RUNNING", !.req = p.re,
                     !.rsid = p.sid, !.rsrc = ReservSrc(p)]
      /\ \A d \in Cors : d # c => co'[d] = co[d]
      /\ run'[s] = [NotRunning EXCEPT !.cor = c, !.by = "msg"]
      /\ \A r \in Services : r # s => run'[r] = run[r]
  BY <1>1 DEF Types, Kept
<1>70. /\ \A d \in Cors : d # c => co'[d] = co[d]
       /\ \A r \in Services : r # s =>
            /\ forkQ'[r] = forkQ[r] /\ pool'[r] = pool[r] /\ timers'[r] = timers[r]
            /\ run'[r] = run[r] /\ within'[r] = within[r]
  BY <1>2, <1>7
<1>8. /\ co'[c].req = n /\ co'[c].rsid = p.sid /\ co'[c].replied = FALSE
      /\ co'[c].rsrc = (IF p.sid # 0 THEN p.src ELSE Main)
      /\ co'[c].job = "handler" /\ co'[c].state = "RUNNING"
      /\ co'[c].got = co'[c].wants
  BY <1>5, <1>7 DEF NewCor, ReservSrc
<1>9. run'[s].cor = c /\ run'[s].by = "msg"
  BY <1>7 DEF NotRunning
<1>10. /\ ~Busy(c) /\ \A r \in Services : ~HeldIn(r, c) /\ run[r].cor # c
       /\ \A r \in Services : \A y \in DOMAIN pool[r] : pool[r][y] # c
       /\ \A r \in Services : \A id \in DOMAIN timers[r] : timers[r][id].cor # c
  BY <1>2, NewIsIdle
<1>11. \A h \in Cors : Busy(h)' <=> Busy(h) \/ (h = c /\ n # 0)
  BY <1>7, <1>8, <1>10 DEF Busy
<1>12. \A r \in Services : \A y \in DOMAIN pool[r] : co'[pool[r][y]] = co[pool[r][y]]
  BY <1>7, <1>10 DEF Types, Holding
<1>13. within[s].at = "no" /\ \A id : ~Doomed(s, id)
  BY <1>2, InLoopIs DEF Places
<1>14. Wants'
  <2>1. WantsOk(s)
    BY DEF AInv, Wants
  <2>2. PoolWants(s)'
    BY <1>2, <1>12, <2>1 DEF WantsOk, PoolWants
  <2>3. TimerWants(s)'
    <3>1. \A id \in DOMAIN timers[s] : co'[timers[s][id].cor] = co[timers[s][id].cor]
      BY <1>7, <1>10 DEF Types, Holding, Entries
    <3> QED BY <1>2, <1>13, <2>1, <3>1 DEF WantsOk, TimerWants
  <2>4. ForkWants(s)'
    <3>1. ~ForkedIn(s, c)
      BY <1>10 DEF HeldIn
    <3> QED BY <1>2, <1>7, <2>1, <3>1 DEF WantsOk, ForkWants, ForkedIn
  <2>5. WantsOk(s)'
    BY <2>2, <2>3, <2>4 DEF WantsOk
  <2>6. used["call"] \in Nat /\ used'["call"] \in Nat /\ used["call"] <= used'["call"]
    BY <1>2, SameCalls
  <2> QED BY <1>2, <1>70, <1>8, <2>5, <2>6, WantsStep DEF AInv
<1>15. Handlers'
  <2>1. \A d \in Cors : d # c /\ BusyIn(s, d) => BusyIn(s, d)'
    BY <1>2, BusyPooled DEF BusyIn, PooledIn
  <2>2. BusyIn(s, c)'
    BY <1>8, <1>9 DEF BusyIn, Runs
  <2>3. BusyRuns(s)'
    BY <1>2, <1>9, <1>13 DEF BusyRuns
  <2> QED BY <1>2, <1>70, <1>8, <2>1, <2>2, <2>3, HandlersStep DEF AInv
<1>16. \A t, y, m : Open(t, y, m)' <=> Open(t, y, m)
  BY <1>2, <1>12 DEF Open, Calling
<1>17. \A m \in Nat \ {0} : Mailed(m)' <=> Mailed(m) /\ m # n
  BY <1>4, <1>5, MailedThen
<1>18. n # 0 => Mailed(n) /\ ~Handled(n) /\ ~IsSet(n)
  BY <1>4, <1>5 DEF AInv, AnswersOk, Once, PlacesApart
<1>19. \A m \in Nat \ {0} : Handled(m)' <=> Handled(m) \/ m = n
  <2> SUFFICES ASSUME NEW m \in Nat \ {0}
               PROVE  (\E h \in Cors : Busy(h)' /\ co'[h].req = m)
                        <=> (\E h \in Cors : Busy(h) /\ co[h].req = m) \/ m = n
    BY DEF Handled
  <2>1. \A h \in Cors : Busy(h) => h # c /\ Busy(h)' /\ co'[h].req = co[h].req
    BY <1>70, <1>10, <1>11
  <2>2. \A h \in Cors : Busy(h)' => (h = c /\ n # 0) \/ (Busy(h) /\ co'[h].req = co[h].req)
    BY <1>70, <1>10, <1>11
  <2>3. n # 0 => Busy(c)' /\ co'[c].req = n
    BY <1>8, <1>11
  <2> QED BY <1>8, <2>1, <2>2, <2>3
<1>20. \A m : IsSet(m)' <=> IsSet(m)
  BY <1>2 DEF IsSet
<1>21. Opens'
  <2>1. CallsDiffer'
    BY <1>16 DEF AInv, AnswersOk, Opens, CallsDiffer
  <2>2. MailOpen'
    <3> SUFFICES ASSUME NEW d \in Services, NEW q \in Packles, In(mail', d, q)
                 PROVE  /\ q.kind = "ret" => q.re # 0 /\ Open(d, q.sid, q.re)
                        /\ q.kind = "msg" /\ q.re # 0 => Open(q.src, q.sid, q.re)
                        /\ q.kind = "odd" => q.re = 0
      BY <1>16 DEF MailOpen
    <3> QED BY <1>4 DEF AInv, AnswersOk, Opens, MailOpen
  <2>3. BusyOpen'
    <3> SUFFICES ASSUME NEW h \in Cors, Busy(h)'
                 PROVE  Open(co'[h].rsrc, co'[h].rsid, co'[h].req)
      BY <1>16 DEF BusyOpen
    <3>1. CASE h = c
      <4>1. n # 0
        BY <1>8, <1>10, <1>11, <3>1
      <4>2. p.sid # 0
        BY <1>6, <4>1, OpenIs
      <4> QED BY <1>6, <1>8, <3>1, <4>1, <4>2
    <3>2. CASE h # c
      BY <1>7, <1>11, <3>2 DEF AInv, AnswersOk, Opens, BusyOpen
    <3> QED BY <3>1, <3>2
  <2>4. SetOpen'
    <3> SUFFICES ASSUME NEW d \in Services, retp[d] # NoPackle
                 PROVE  /\ retp[d].re # 0
                        /\ run'[d].cor # NoCor /\ run'[d].by \in {"msg", "ret"}
                        /\ ~(co'[run'[d].cor].req # 0 /\ ~co'[run'[d].cor].replied)
                        /\ Open(co'[run'[d].cor].rsrc, retp[d].sid, retp[d].re)
      BY <1>2, <1>16 DEF SetOpen, Busy
    <3>1. d # s
      BY <1>2, LoopIs
    <3>2. /\ retp[d].re # 0
          /\ run[d].cor # NoCor /\ run[d].by \in {"msg", "ret"} /\ ~Busy(run[d].cor)
          /\ Open(co[run[d].cor].rsrc, retp[d].sid, retp[d].re)
      BY DEF AInv, AnswersOk, Opens, SetOpen
    <3>3. run[d].cor \in Cors /\ run[d].cor # c /\ run'[d] = run[d]
      BY <1>7, <1>10, <3>1, <3>2 DEF Types, Kept, Resumptions
    <3> QED BY <1>7, <3>2, <3>3 DEF Busy
  <2> QED BY <2>1, <2>2, <2>3, <2>4 DEF Opens
<1>22. Once'
  <2>1. OnceIn(mail)'
    BY <1>4 DEF OnceIn
  <2>2. BusyOnce'
    <3>1. \A h \in Cors : h # c /\ Busy(h)' /\ n # 0 => co'[h].req # n
      BY <1>7, <1>11, <1>18 DEF Handled
    <3>2. Busy(c)' => n # 0
      BY <1>10, <1>11
    <3>3. \A h \in Cors : h # c /\ Busy(h)' => Busy(h) /\ co'[h] = co[h]
      BY <1>7, <1>11
    <3> QED BY <1>8, <3>1, <3>2, <3>3 DEF AInv, AnswersOk, Once, BusyOnce
  <2>3. SetOnce'
    BY <1>2 DEF AInv, AnswersOk, Once, SetOnce
  <2>4. PlacesApart'
    BY <1>17, <1>18, <1>19, <1>20 DEF AInv, AnswersOk, Once, PlacesApart
  <2> QED BY <2>1, <2>2, <2>3, <2>4 DEF Once
<1>23. Answered'
  BY <1>16, <1>17, <1>19, <1>20 DEF AInv, AnswersOk, Answered
<1> QED BY <1>14, <1>15, <1>21, <1>22, <1>23 DEF AInv, AnswersOk

LEMMA DispatchRetAnswers ==
    ASSUME Types, Places, Numbers, AInv, NEW s \in Services, DispatchRet(s)
    PROVE  AInv'
<1>1. PICK p \in Oldest(s) : DispatchRet(s)!(p)
  BY DEF DispatchRet
<1>2. PICK c \in Cors : c = pool[s][p.sid]
  BY <1>1 DEF Types, Holding
<1>3. /\ InLoop(s) /\ p.kind = "ret" /\ p.sid \in DOMAIN pool[s]
      /\ mail' = Popped(s) /\ UNCHANGED <<forkQ, retp, timers, within, used>>
  BY <1>1 DEF timerVars
<1>4. /\ co' = [co EXCEPT ![c].state = "RUNNING", ![c].got = Reply(p.re)]
      /\ run' = [run EXCEPT ![s] = [NotRunning EXCEPT !.cor = c, !.by = "ret"]]
      /\ pool' = [pool EXCEPT ![s] = Drop(@, p.sid)]
  BY <1>1, <1>2
<1>5. mail \in Boxes /\ OnceIn(mail)
  BY DEF Types, Kept, Boxes, AInv, AnswersOk, Once
<1>6. /\ p \in Packles /\ In(mail, s, p)
      /\ \A d \in Services, q \in Packles : In(mail', d, q) => In(mail, d, q)
      /\ OnceIn(mail')
      /\ p.re # 0 => Mailed(p.re)
      /\ \A m \in Nat \ {0} : MailedIn(mail', m) <=> Mailed(m) /\ m # p.re
  <2>1. CallOf(p) = p.re
    BY <1>3 DEF CallOf
  <2>2. mail' = Popped(s)
    BY <1>3
  <2> QED BY <1>5, <2>1, <2>2, PopIs
<1>60. within[s].at = "no" /\ \A y, m : ~Calling(s, y, m)
  <2>1. within[s].at = "no"
    BY <1>3, InLoopIs DEF Places
  <2> QED BY <2>1 DEF Calling
<1>7. PICK n \in Nat \ {0}, x \in Sids :
        n = p.re /\ x = p.sid /\ Open(s, x, n) /\ co[c].wants = Reply(n)
  <2>1. p.re # 0 /\ Open(s, p.sid, p.re)
    BY <1>3, <1>6 DEF AInv, AnswersOk, Opens, MailOpen
  <2>2. p.re \in Nat \ {0} /\ p.sid \in Sids
    BY <2>1, OpenIs
  <2>3. co[c].wants = Reply(p.re)
    BY <1>2, <1>60, <2>1 DEF Open
  <2> QED BY <2>1, <2>2, <2>3
<1>8. /\ PooledIn(s, c) /\ HeldIn(s, c)
      /\ \A y \in DOMAIN pool[s] : pool[s][y] = c => y = x
  BY <1>2, <1>3, <1>7 DEF PooledIn, HeldIn, Places, PlacesOk, PoolOk
<1>9. /\ SameFields /\ co'[c].state = "RUNNING"
      /\ \A d \in Cors : d # c => co'[d] = co[d]
      /\ \A d \in Cors : Busy(d)' <=> Busy(d)
  BY <1>4, <1>7, ReasonsAre, ResumedIs
<1>10. co'[c].got = Reply(n)
  BY <1>4, <1>7 DEF Types, Kept, Coroutines
<1>11. /\ run'[s].cor = c /\ run'[s].by = "ret"
       /\ \A r \in Services : r # s => run'[r] = run[r] /\ pool'[r] = pool[r]
  BY <1>4 DEF Types, Kept, Holding, NotRunning
<1>12. /\ DOMAIN pool'[s] = DOMAIN pool[s] \ {x}
       /\ \A y \in DOMAIN pool'[s] : y \in DOMAIN pool[s] /\ pool'[s][y] = pool[s][y]
  <2>1. pool'[s] = Drop(pool[s], x)
    BY <1>4, <1>7 DEF Types, Holding
  <2> QED BY <2>1 DEF Drop
<1>13. Wants'
  <2>1. ~ForkedIn(s, c)
    BY <1>8 DEF Places, PlacesOk, ForksOk
  <2>2. \A d \in Cors : ForkedIn(s, d)' => ForkedIn(s, d) /\ co'[d].got = co[d].got
    BY <1>3, <1>9, <2>1 DEF ForkedIn
  <2>3. timers'[s] = timers[s] /\ used' = used
    BY <1>3
  <2>4. WantsOk(s)'
    BY <1>3, <1>9, <1>12, <2>2, <2>3, WantsResumed
  <2>5. co'[c].got = co'[c].wants
    BY <1>7, <1>9, <1>10 DEF SameFields
  <2>6. used["call"] \in Nat /\ used'["call"] \in Nat /\ used["call"] <= used'["call"]
    BY <2>3, SameCalls
  <2>7. \A r \in Services : r # s =>
          /\ forkQ'[r] = forkQ[r] /\ pool'[r] = pool[r] /\ timers'[r] = timers[r]
          /\ run'[r] = run[r]
    BY <1>3, <1>11
  <2> QED BY <1>8, <1>9, <2>4, <2>5, <2>6, <2>7, WantsStep DEF AInv
<1>14. Handlers'
  <2>1. ASSUME NEW d \in Cors, d # c, BusyIn(s, d) PROVE BusyIn(s, d)'
    <3>1. PICK y \in DOMAIN pool[s] : pool[s][y] = d
      BY <1>3, <2>1, BusyPooled DEF PooledIn
    <3>2. y # x
      BY <1>2, <1>7, <2>1, <3>1
    <3> QED BY <1>12, <3>1, <3>2 DEF BusyIn, PooledIn
  <2>2. BusyIn(s, c)'
    BY <1>9, <1>11 DEF BusyIn, Runs
  <2>3. Busy(c)' => co'[c].job = "handler"
    BY <1>9 DEF SameFields, AInv, Handlers, BusyHeld
  <2>4. BusyRuns(s)'
    <3>1. within[s].at = "no"
      BY <1>3, InLoopIs DEF Places
    <3> QED BY <1>3, <1>11, <3>1 DEF BusyRuns
  <2>5. \A r \in Services : r # s =>
          pool'[r] = pool[r] /\ run'[r] = run[r] /\ within'[r] = within[r]
    BY <1>3, <1>11
  <2> QED BY <1>8, <1>9, <2>1, <2>2, <2>3, <2>4, <2>5, HandlersStep DEF AInv
<1>15. \A t, y, m : Open(t, y, m)' <=> Open(t, y, m) /\ ~(t = s /\ y = x)
  <2> SUFFICES ASSUME NEW t \in Services, NEW y, NEW m
               PROVE  (y \in DOMAIN pool'[t] /\ co'[pool'[t][y]].wants = Reply(m)) \/ Calling(t, y, m)
                        <=> /\ \/ y \in DOMAIN pool[t] /\ co[pool[t][y]].wants = Reply(m)
                               \/ Calling(t, y, m)
                            /\ ~(t = s /\ y = x)
    BY <1>3 DEF Open, Calling
  <2>1. \A z \in DOMAIN pool[t] : co'[pool[t][z]].wants = co[pool[t][z]].wants
    BY <1>9 DEF SameFields, Types, Holding
  <2>2. CASE t = s
    BY <1>12, <1>60, <2>1, <2>2
  <2>3. CASE t # s
    BY <1>11, <2>1, <2>3
  <2> QED BY <2>2, <2>3
<1>16. \A m : Open(s, x, m) => m = n
  BY <1>7, <1>60 DEF Open, Reply
<1>17. \A t, y, m : Open(t, y, m) /\ m # n => Open(t, y, m)'
  BY <1>15, <1>16
<1>18. \A m \in Nat \ {0} : Mailed(m)' <=> Mailed(m) /\ m # n
  BY <1>6, <1>7, MailedThen
<1>19. Mailed(n) /\ ~Handled(n) /\ ~IsSet(n)
  BY <1>6, <1>7 DEF AInv, AnswersOk, Once, PlacesApart
<1>20. \A m : Handled(m)' <=> Handled(m)
  BY <1>9 DEF Handled, SameFields
<1>21. \A m : IsSet(m)' <=> IsSet(m)
  BY <1>3 DEF IsSet
<1>22. Opens'
  <2>1. CallsDiffer'
    BY <1>15 DEF AInv, AnswersOk, Opens, CallsDiffer
  <2>2. MailOpen'
    <3> SUFFICES ASSUME NEW d \in Services, NEW q \in Packles, In(mail', d, q)
                 PROVE  /\ q.kind = "ret" => q.re # 0 /\ Open(d, q.sid, q.re)'
                        /\ q.kind = "msg" /\ q.re # 0 => Open(q.src, q.sid, q.re)'
                        /\ q.kind = "odd" => q.re = 0
      BY DEF MailOpen
    <3>1. q.kind # "timer" => q.re # n
      <4>1. CallOf(q) = n => MailedIn(mail', n)
        BY DEF In, MailedIn
      <4>2. CallOf(q) # n
        BY <1>6, <1>7, <4>1
      <4> QED BY <4>2 DEF CallOf
    <3>2. /\ q.kind = "ret" => q.re # 0 /\ Open(d, q.sid, q.re)
          /\ q.kind = "msg" /\ q.re # 0 => Open(q.src, q.sid, q.re)
          /\ q.kind = "odd" => q.re = 0
      BY <1>6 DEF AInv, AnswersOk, Opens, MailOpen
    <3> QED BY <1>17, <3>1, <3>2
  <2>3. BusyOpen'
    <3> SUFFICES ASSUME NEW h \in Cors, Busy(h)
                 PROVE  \A t, y, m : t = co'[h].rsrc /\ y = co'[h].rsid /\ m = co'[h].req
                                       => Open(t, y, m)'
      BY <1>9 DEF BusyOpen
    <3>1. co[h].req # n
      BY <1>19 DEF Handled
    <3>2. Open(co[h].rsrc, co[h].rsid, co[h].req)
      BY DEF AInv, AnswersOk, Opens, BusyOpen
    <3>3. co'[h].rsrc = co[h].rsrc /\ co'[h].rsid = co[h].rsid /\ co'[h].req = co[h].req
      BY <1>9 DEF SameFields
    <3> QED BY <1>17, <3>1, <3>2, <3>3
  <2>4. SetOpen'
    <3> SUFFICES ASSUME NEW d \in Services, retp[d] # NoPackle
                 PROVE  /\ retp[d].re # 0
                        /\ run'[d].cor # NoCor /\ run'[d].by \in {"msg", "ret"}
                        /\ ~(co'[run'[d].cor].req # 0 /\ ~co'[run'[d].cor].replied)
                        /\ \A t, y, m : t = co'[run'[d].cor].rsrc /\ y = retp[d].sid
                                          /\ m = retp[d].re => Open(t, y, m)'
      BY <1>3 DEF SetOpen, Busy
    <3>1. d # s
      BY <1>3, LoopIs
    <3>2. /\ retp[d].re # 0
          /\ run[d].cor # NoCor /\ run[d].by \in {"msg", "ret"} /\ ~Busy(run[d].cor)
          /\ Open(co[run[d].cor].rsrc, retp[d].sid, retp[d].re)
      BY DEF AInv, AnswersOk, Opens, SetOpen
    <3>3. run[d].cor \in Cors /\ run'[d] = run[d]
      BY <1>11, <3>1, <3>2 DEF Types, Kept, Resumptions
    <3>4. retp[d].re # n
      BY <1>19 DEF IsSet
    <3>5. /\ co'[run[d].cor].rsrc = co[run[d].cor].rsrc /\ co'[run[d].cor].req = co[run[d].cor].req
          /\ co'[run[d].cor].replied = co[run[d].cor].replied
      BY <1>9, <3>3 DEF SameFields
    <3>6. \A t, y, m : t = co[run[d].cor].rsrc /\ y = retp[d].sid /\ m = retp[d].re
            => Open(t, y, m)'
      BY <1>17, <3>2, <3>4
    <3> QED BY <3>2, <3>3, <3>5, <3>6 DEF Busy
  <2> QED BY <2>1, <2>2, <2>3, <2>4 DEF Opens
<1>23. Once'
  <2>1. OnceIn(mail)'
    BY <1>6 DEF OnceIn
  <2>2. BusyOnce' /\ SetOnce'
    BY <1>3, <1>9 DEF SameFields, AInv, AnswersOk, Once, BusyOnce, SetOnce
  <2>3. PlacesApart'
    BY <1>18, <1>20, <1>21 DEF AInv, AnswersOk, Once, PlacesApart
  <2> QED BY <2>1, <2>2, <2>3 DEF Once
<1>24. Answered'
  <2> SUFFICES ASSUME "answer" \in Rules, NEW t \in Services, NEW y \in Sids,
                      NEW m \in Nat \ {0}, Open(t, y, m)'
               PROVE  Mailed(m)' \/ Handled(m)' \/ IsSet(m)'
    BY DEF Answered
  <2>1. Open(t, y, m) /\ ~(t = s /\ y = x)
    BY <1>15
  <2>2. m # n
    BY <1>7, <2>1 DEF AInv, AnswersOk, Opens, CallsDiffer
  <2>3. Mailed(m) \/ Handled(m) \/ IsSet(m)
    BY <2>1 DEF AInv, AnswersOk, Answered
  <2> QED BY <1>18, <1>20, <1>21, <2>2, <2>3
<1> QED BY <1>13, <1>14, <1>22, <1>23, <1>24 DEF AInv, AnswersOk

\* A call begins: the packle is in the mailbox of the service that is called.
LEMMA CallAnswers ==
    ASSUME Types, Places, Numbers, AInv, NEW s \in Services, NEW c \in Cors, Call(s, c)
    PROVE  AInv'
<1>1. PICK d \in Services, x \in GetSession(s) : Call(s, c)!(d, x)
  BY DEF Call
<1>2. PICK n \in Nat \ {0} : n = used["call"] + 1
  BY DEF Types, Kept, Ops
<1>3. used["call"] \in Nat /\ used'["call"] = n /\ used["call"] <= n /\ ~(n <= used["call"])
  BY <1>1, <1>2 DEF Use, Types, Kept, Ops
<1>4. x \in Sids /\ x \in Nat /\ x # 0
  BY DispatchAssumption DEF GetSession
<1>5. PICK p : p = Packle("msg", s, x, n)
  OBVIOUS
<1>6. p \in Packles /\ p.kind = "msg" /\ p.re = n /\ p.src = s /\ p.sid = x /\ CallOf(p) = n
  BY <1>4, <1>5, PackleIs, MainIs DEF Packle, CallOf
<1>7. mail' = [mail EXCEPT ![d] = Append(@, p)]
  BY <1>1, <1>2, <1>5 DEF Push
<1>8. UNCHANGED <<co, run, forkQ, pool, retp, timers>>
  BY <1>1 DEF corVars
<1>9. /\ within[s].at = "no" /\ within'[s].at = "suspend" /\ within'[s].op = "call"
      /\ within'[s].session = x /\ within'[s].val = n
      /\ \A r \in Services : r # s => within'[r] = within[r]
  BY <1>1, <1>2 DEF InCode, Types, Holding
<1>10. ASSUME NEW r \in Services PROVE BusyRuns(r)'
  BY <1>8, <1>9 DEF AInv, Handlers, BusyRuns, Busy
<1>11. Wants' /\ Handlers'
  BY <1>3, <1>8, <1>10, QuietStep DEF AInv
<1>12. \A t, y, m : Open(t, y, m)' <=> Open(t, y, m) \/ (t = s /\ y = x /\ m = n)
  BY <1>8, <1>9 DEF Open, Calling
<1>13. \A t, y : ~Open(t, y, n)
  BY <1>3, OpenIs
<1>14. ~Mailed(n) /\ ~Handled(n) /\ ~IsSet(n)
  BY <1>13, PlacesAreOpen
<1>15. /\ \A e \in Services, q \in Packles : In(mail', e, q) => In(mail, e, q) \/ (e = d /\ q = p)
       /\ OnceIn(mail')
       /\ \A m \in Nat \ {0} : MailedIn(mail', m) <=> MailedIn(mail, m) \/ m = n
  <2>1. mail \in Boxes /\ OnceIn(mail)
    BY DEF Types, Kept, Boxes, AInv, AnswersOk, Once
  <2>2. ~MailedIn(mail, n)
    BY <1>14 DEF Mailed
  <2> QED BY <1>6, <1>7, <2>1, <2>2, PushedIs
<1>16. \A m \in Nat \ {0} : Mailed(m)' <=> Mailed(m) \/ m = n
  BY <1>15, MailedThen DEF Mailed
<1>17. \A h \in Cors : Busy(h)' <=> Busy(h)
  BY <1>8 DEF Busy
<1>18. \A m : Handled(m)' <=> Handled(m)
  BY <1>8, <1>17 DEF Handled
<1>19. \A m : IsSet(m)' <=> IsSet(m)
  BY <1>8 DEF IsSet
<1>20. Opens'
  <2>1. CallsDiffer'
    BY <1>12, <1>13 DEF AInv, AnswersOk, Opens, CallsDiffer
  <2>2. MailOpen'
    <3> SUFFICES ASSUME NEW e \in Services, NEW q \in Packles, In(mail', e, q)
                 PROVE  /\ q.kind = "ret" => q.re # 0 /\ Open(e, q.sid, q.re)'
                        /\ q.kind = "msg" /\ q.re # 0 => Open(q.src, q.sid, q.re)'
                        /\ q.kind = "odd" => q.re = 0
      BY DEF MailOpen
    <3>1. CASE In(mail, e, q)
      BY <1>12, <3>1 DEF AInv, AnswersOk, Opens, MailOpen
    <3>2. CASE q = p
      BY <1>6, <1>12, <3>2
    <3> QED BY <1>15, <3>1, <3>2
  <2>3. BusyOpen'
    <3> SUFFICES ASSUME NEW h \in Cors, Busy(h)
                 PROVE  Open(co[h].rsrc, co[h].rsid, co[h].req)'
      BY <1>17 DEF BusyOpen
    <3>1. \A t, y, m : t = co[h].rsrc /\ y = co[h].rsid /\ m = co[h].req => Open(t, y, m)'
      BY <1>12 DEF AInv, AnswersOk, Opens, BusyOpen
    <3> QED BY <1>8, <3>1
  <2>4. SetOpen'
    <3> SUFFICES ASSUME NEW e \in Services, retp[e] # NoPackle
                 PROVE  /\ retp[e].re # 0
                        /\ run[e].cor # NoCor /\ run[e].by \in {"msg", "ret"} /\ ~Busy(run[e].cor)
                        /\ \A t, y, m : t = co[run[e].cor].rsrc /\ y = retp[e].sid
                                          /\ m = retp[e].re => Open(t, y, m)'
      BY <1>8 DEF SetOpen, Busy
    <3>1. /\ retp[e].re # 0
          /\ run[e].cor # NoCor /\ run[e].by \in {"msg", "ret"} /\ ~Busy(run[e].cor)
          /\ Open(co[run[e].cor].rsrc, retp[e].sid, retp[e].re)
      BY DEF AInv, AnswersOk, Opens, SetOpen
    <3> QED BY <1>12, <3>1
  <2> QED BY <2>1, <2>2, <2>3, <2>4 DEF Opens
<1>21. Once'
  <2>1. OnceIn(mail)'
    BY <1>15 DEF OnceIn
  <2>2. BusyOnce' /\ SetOnce'
    BY <1>8, <1>17 DEF AInv, AnswersOk, Once, BusyOnce, SetOnce
  <2>3. PlacesApart'
    BY <1>14, <1>16, <1>18, <1>19 DEF AInv, AnswersOk, Once, PlacesApart
  <2> QED BY <2>1, <2>2, <2>3 DEF Once
<1>22. Answered'
  BY <1>12, <1>16, <1>18, <1>19 DEF AInv, AnswersOk, Answered
<1> QED BY <1>11, <1>20, <1>21, <1>22 DEF AInv, AnswersOk

\* The caller is in pool, and waits for the response to its call.
LEMMA SuspendAnswers ==
    ASSUME Types, Places, Numbers, AInv, NEW s \in Services, NEW c \in Cors, Suspend(s, c)
    PROVE  AInv'
<1>1. Executes(s, c) /\ within[s].at = "suspend"
  BY DEF Suspend
<1>2. PICK n \in 1..used["call"] : n = within[s].val
  BY <1>1 DEF Numbers, CallsCount
<1>3. PICK x \in Sids : x = within[s].session /\ x \notin DOMAIN pool[s]
  BY <1>1 DEF Places, PlacesOk, AddOk
<1>4. co[c].job # "loop"
  BY <1>1 DEF Executes, Places, PlacesOk, AddOk
<1>5. /\ pool' = [pool EXCEPT ![s] = Put(@, x, c)]
      /\ co' = [co EXCEPT ![c].sid = x, ![c].state = "SUSPENDED", ![c].wants = Reply(n)]
      /\ UNCHANGED <<mail, run, forkQ, retp, timers, used>>
  BY <1>2, <1>3 DEF Suspend
<1>6. within'[s].at = "no" /\ \A r \in Services : r # s => within'[r] = within[r]
  BY NotWithinIs DEF Suspend, Types, Holding
<1>7. /\ run[s].cor = c /\ co[c].state = "RUNNING" /\ HeldIn(s, c) /\ c # NoCor
      /\ \A r \in Services : r # s => run[r].cor # c
      /\ \A r \in Services : ~ForkedIn(r, c)
      /\ \A r \in Services : \A y \in DOMAIN pool[r] : pool[r][y] # c
  BY <1>1, RunnerIs DEF Cors, NoCor
<1>8. /\ \A h \in Cors : h # c => co'[h] = co[h]
      /\ co'[c].sid = x /\ co'[c].state = "SUSPENDED" /\ co'[c].wants = Reply(n)
      /\ co'[c].req = co[c].req /\ co'[c].replied = co[c].replied /\ co'[c].job = co[c].job
      /\ co'[c].rsrc = co[c].rsrc /\ co'[c].rsid = co[c].rsid
  BY <1>5 DEF Types, Kept, Coroutines
<1>9. \A h \in Cors :
        /\ Busy(h)' <=> Busy(h)
        /\ co'[h].req = co[h].req /\ co'[h].rsrc = co[h].rsrc /\ co'[h].rsid = co[h].rsid
  BY <1>8 DEF Busy
<1>10. /\ \A r \in Services : r # s => pool'[r] = pool[r]
       /\ DOMAIN pool'[s] = DOMAIN pool[s] \cup {x} /\ pool'[s][x] = c
       /\ \A y \in DOMAIN pool[s] : y # x /\ pool'[s][y] = pool[s][y]
  <2>1. pool'[s] = Put(pool[s], x, c) /\ \A r \in Services : r # s => pool'[r] = pool[r]
    BY <1>5 DEF Types, Holding
  <2> QED BY <1>3, <2>1 DEF Put
<1>11. \A r \in Services : \A y \in DOMAIN pool[r] : co'[pool[r][y]] = co[pool[r][y]]
  BY <1>7, <1>8 DEF Types, Holding
<1>12. Wants'
  <2>1. WantsOk(s)
    BY DEF AInv, Wants
  <2>2. PoolWants(s)'
    <3> SUFFICES ASSUME NEW y \in DOMAIN pool'[s]
                 PROVE  /\ co'[pool'[s][y]].sid = y
                        /\ \E m \in 1..used["call"] : co'[pool'[s][y]].wants = Reply(m)
      BY <1>5 DEF PoolWants
    <3>1. CASE y = x
      BY <1>2, <1>8, <1>10, <3>1
    <3>2. CASE y \in DOMAIN pool[s]
      BY <1>10, <1>11, <2>1, <3>2 DEF WantsOk, PoolWants
    <3> QED BY <1>10, <3>1, <3>2
  <2>3. TimerWants(s)'
    <3>1. \A id \in DOMAIN timers[s] : timers[s][id].cor = c => Doomed(s, id)
      BY <1>1, <1>4, RunnerIs
    <3>2. \A id \in DOMAIN timers[s] : ~Doomed(s, id) =>
            co'[timers[s][id].cor] = co[timers[s][id].cor]
      BY <1>8, <3>1 DEF Types, Holding, Entries
    <3> QED BY <1>5, <2>1, <3>2 DEF WantsOk, TimerWants, Doomed
  <2>4. ForkWants(s)'
    <3>1. forkQ' = forkQ
      BY <1>5
    <3>2. \A d \in Cors : ForkedIn(s, d) => co'[d] = co[d]
      BY <1>7, <1>8
    <3> QED BY <2>1, <3>1, <3>2 DEF WantsOk, ForkWants, ForkedIn
  <2>5. WantsOk(s)'
    BY <2>2, <2>3, <2>4 DEF WantsOk
  <2>6. \A r \in Services : r # s =>
          /\ forkQ'[r] = forkQ[r] /\ pool'[r] = pool[r] /\ timers'[r] = timers[r]
          /\ run'[r] = run[r]
    BY <1>5, <1>10
  <2>7. used["call"] \in Nat /\ used'["call"] \in Nat /\ used["call"] <= used'["call"]
    BY <1>5, SameCalls
  <2>8. co'[c].state # "RUNNING"
    BY <1>8
  <2> QED BY <1>7, <1>8, <2>5, <2>6, <2>7, <2>8, WantsStep DEF AInv
<1>13. Handlers'
  <2>1. ASSUME NEW h \in Cors, h # c, BusyIn(s, h) PROVE BusyIn(s, h)'
    <3>1. PICK y \in DOMAIN pool[s] : pool[s][y] = h
      BY <1>7, <2>1 DEF BusyIn, Runs, PooledIn
    <3> QED BY <1>10, <3>1 DEF BusyIn, PooledIn
  <2>2. BusyIn(s, c)'
    BY <1>10 DEF BusyIn, PooledIn
  <2>3. Busy(c)' => co'[c].job = "handler"
    BY <1>8, <1>9 DEF AInv, Handlers, BusyHeld
  <2>4. BusyRuns(s)'
    <3>1. Busy(c)' <=> Busy(c)
      BY <1>9
    <3> QED BY <1>5, <1>6, <1>7, <1>8 DEF AInv, Handlers, BusyRuns, Busy
  <2>5. \A r \in Services : r # s =>
          pool'[r] = pool[r] /\ run'[r] = run[r] /\ within'[r] = within[r]
    BY <1>5, <1>6, <1>10
  <2> QED BY <1>7, <1>8, <2>1, <2>2, <2>3, <2>4, <2>5, HandlersStep DEF AInv
<1>14. \A t, y, m : Open(t, y, m)' <=> Open(t, y, m)
  <2> SUFFICES ASSUME NEW t \in Services, NEW y, NEW m
               PROVE  (y \in DOMAIN pool'[t] /\ co'[pool'[t][y]].wants = Reply(m)) \/ Calling(t, y, m)'
                        <=> \/ y \in DOMAIN pool[t] /\ co[pool[t][y]].wants = Reply(m)
                            \/ Calling(t, y, m)
    BY DEF Open
  <2>1. CASE t = s
    <3>1. Calling(s, y, m) <=> y = x /\ m = n
      BY <1>1, <1>2, <1>3 DEF Calling
    <3>2. ~Calling(s, y, m)'
      BY <1>6 DEF Calling
    <3>3. CASE y = x
      BY <1>3, <1>8, <1>10, <2>1, <3>1, <3>2, <3>3 DEF Reply
    <3>4. CASE y # x
      BY <1>10, <1>11, <2>1, <3>1, <3>2, <3>4
    <3> QED BY <3>3, <3>4
  <2>2. CASE t # s
    <3>1. Calling(t, y, m)' <=> Calling(t, y, m)
      BY <1>6, <2>2 DEF Calling
    <3> QED BY <1>10, <1>11, <2>2, <3>1
  <2> QED BY <2>1, <2>2
<1>15. AnswersOk'
  <2>1. MailCalm
    BY <1>5, SameMail DEF AInv
  <2>2. \A d \in Services : retp[d] # NoPackle =>
          /\ run'[d].cor = run[d].cor /\ run'[d].by = run[d].by
          /\ co'[run[d].cor].rsrc = co[run[d].cor].rsrc
    <3>1. \A d \in Services : retp[d] # NoPackle => run[d].cor \in Cors
      BY DEF AInv, AnswersOk, Opens, SetOpen, Types, Kept, Resumptions
    <3> QED BY <1>5, <1>9, <3>1
  <2> QED BY <1>5, <1>9, <1>14, <2>1, <2>2, AnswersStay DEF AInv
<1> QED BY <1>12, <1>13, <1>15 DEF AInv


\* The coroutine that ran is back; if its service set a return packle, that is sent.
LEMMA BackAnswers ==
    ASSUME Types, Places, Numbers, AInv, NEW s \in Services, Back(s)
    PROVE  AInv'
<1>1. PICK c \in Cors : Back(s)!(c)
  BY DEF Back
<1>2. /\ run[s].cor = c /\ co[c].state # "RUNNING"
      /\ run' = [run EXCEPT ![s] = NotRunning]
      /\ UNCHANGED <<co, forkQ, pool, within, used>>
  BY <1>1
<1>3. /\ run'[s].cor = NoCor /\ run'[s].by = "none" /\ \A id : ~Doomed(s, id)'
      /\ \A r \in Services : r # s => run'[r] = run[r] /\ timers'[r] = timers[r]
  BY <1>1, NotRunningIs DEF Types, Kept, Holding, Doomed
<1>4. /\ \A id \in DOMAIN timers'[s] : id \in DOMAIN timers[s] /\ ~Doomed(s, id)
      /\ \A id \in DOMAIN timers'[s] : timers'[s][id] = timers[s][id]
  <2>1. CASE OneShot(s)
    <3>1. timers'[s] = Drop(timers[s], run[s].tid)
      BY <1>1, <2>1 DEF Types, Holding
    <3> QED BY <2>1, <3>1 DEF Drop, OneShot, Doomed
  <2>2. CASE ~OneShot(s)
    BY <1>1, <2>2 DEF OneShot, Doomed
  <2> QED BY <2>1, <2>2
<1>5. HeldIn(s, c) /\ c # NoCor
  BY <1>2 DEF HeldIn, Runs, Cors, NoCor
<1>6. Wants'
  <2>1. WantsOk(s)
    BY DEF AInv, Wants
  <2>2. PoolWants(s)'
    BY <1>2, <2>1 DEF WantsOk, PoolWants
  <2>3. TimerWants(s)'
    BY <1>2, <1>4, <2>1 DEF WantsOk, TimerWants
  <2>4. ForkWants(s)'
    BY <1>2, <2>1 DEF WantsOk, ForkWants, ForkedIn
  <2>5. WantsOk(s)'
    BY <2>2, <2>3, <2>4 DEF WantsOk
  <2>6. used["call"] \in Nat /\ used'["call"] \in Nat /\ used["call"] <= used'["call"]
    BY <1>2, SameCalls
  <2>7. \A r \in Services : r # s =>
          /\ forkQ'[r] = forkQ[r] /\ pool'[r] = pool[r] /\ timers'[r] = timers[r]
          /\ run'[r] = run[r]
    BY <1>2, <1>3
  <2>8. co'[c].state # "RUNNING" /\ \A d \in Cors : co'[d] = co[d]
    BY <1>2
  <2> QED BY <1>5, <2>5, <2>6, <2>7, <2>8, WantsStep DEF AInv
<1>7. \A h \in Cors : Busy(h)' <=> Busy(h)
  BY <1>2 DEF Busy
<1>8. Handlers'
  <2>1. \A d \in Cors : BusyIn(s, d) => BusyIn(s, d)'
    BY <1>2 DEF BusyIn, Runs, PooledIn
  <2>2. ASSUME Busy(c) PROVE co[c].job = "handler" /\ BusyIn(s, c)
    <3>1. co[c].job = "handler" /\ \E r \in Services : BusyIn(r, c)
      BY <2>2 DEF AInv, Handlers, BusyHeld
    <3>2. PICK r \in Services : BusyIn(r, c)
      BY <3>1
    <3>3. r = s
      BY <1>5, <3>2 DEF BusyIn, HeldIn, Places, Belongs
    <3> QED BY <3>1, <3>2, <3>3
  <2>3. Busy(c)' => co'[c].job = "handler" /\ BusyIn(s, c)'
    BY <1>2, <1>7, <2>1, <2>2
  <2>4. BusyRuns(s)'
    BY <1>3 DEF BusyRuns
  <2>5. \A r \in Services : r # s =>
          pool'[r] = pool[r] /\ run'[r] = run[r] /\ within'[r] = within[r]
    BY <1>2, <1>3
  <2>6. \A d \in Cors : co'[d] = co[d]
    BY <1>2
  <2> QED BY <1>5, <2>1, <2>3, <2>4, <2>5, <2>6, HandlersStep DEF AInv
<1>9. CASE retp[s] = NoPackle
  <2>1. mail' = mail /\ retp' = retp
    BY <1>1, <1>9 DEF Ret, Types, Kept
  <2>2. MailCalm
    BY <2>1, SameMail DEF AInv
  <2>3. \A d \in Services : retp[d] # NoPackle =>
          /\ run'[d].cor = run[d].cor /\ run'[d].by = run[d].by
          /\ co'[run[d].cor].rsrc = co[run[d].cor].rsrc
    BY <1>2, <1>3, <1>9
  <2>4. \A r, y, n : Open(r, y, n)' <=> Open(r, y, n)
    BY <1>2 DEF Open, Calling
  <2>5. AnswersOk'
    BY <1>2, <1>7, <2>1, <2>2, <2>3, <2>4, AnswersStay DEF AInv
  <2> QED BY <1>6, <1>8, <2>5 DEF AInv
<1>10. CASE retp[s] # NoPackle
  <2>1. /\ retp[s].re # 0 /\ run[s].by \in {"msg", "ret"} /\ ~Busy(c)
        /\ Open(co[c].rsrc, retp[s].sid, retp[s].re)
    BY <1>2, <1>10 DEF AInv, AnswersOk, Opens, SetOpen
  <2>2. PICK t, x, n : t = co[c].rsrc /\ x = retp[s].sid /\ n = retp[s].re
    OBVIOUS
  <2>3. /\ Open(t, x, n)
        /\ t \in Services /\ x \in Sids /\ x \in Nat /\ x # 0 /\ n \in Nat \ {0}
    BY <2>1, <2>2, OpenIs
  <2>4. PICK p : p = Packle("ret", s, x, n)
    OBVIOUS
  <2>5. p \in Packles /\ p.kind = "ret" /\ p.re = n /\ p.sid = x /\ CallOf(p) = n
    BY <2>3, <2>4, PackleIs, MainIs DEF Packle, CallOf
  <2>6. /\ mail' = [mail EXCEPT ![t] = Append(@, p)]
        /\ retp' = [retp EXCEPT ![s] = NoPackle]
    BY <1>1, <1>10, <2>1, <2>2, <2>3, <2>4 DEF Answers, Ret
  <2>7. retp'[s] = NoPackle /\ \A d \in Services : d # s => retp'[d] = retp[d]
    BY <2>6 DEF Types, Kept
  <2>8. IsSet(n) /\ ~Mailed(n) /\ ~Handled(n)
    <3>1. IsSet(n)
      BY <1>10, <2>2 DEF IsSet
    <3> QED BY <2>3, <3>1 DEF AInv, AnswersOk, Once, PlacesApart
  <2>9. \A m : IsSet(m)' => IsSet(m) /\ m # n
    BY <1>10, <2>2, <2>7 DEF IsSet, AInv, AnswersOk, Once, SetOnce
  <2>10. \A m : IsSet(m) => IsSet(m)' \/ m = n
    BY <2>2, <2>7 DEF IsSet
  <2>11. \A m : Handled(m)' <=> Handled(m)
    BY <1>2 DEF Handled, Busy
  <2>12. \A u, y, m : Open(u, y, m)' <=> Open(u, y, m)
    BY <1>2 DEF Open, Calling
  <2>13. /\ \A e \in Services, q \in Packles :
              In(mail', e, q) => In(mail, e, q) \/ (e = t /\ q = p)
         /\ OnceIn(mail')
         /\ \A m \in Nat \ {0} : Mailed(m)' <=> Mailed(m) \/ m = n
    <3>1. mail \in Boxes /\ OnceIn(mail)
      BY DEF Types, Kept, Boxes, AInv, AnswersOk, Once
    <3>2. ~MailedIn(mail, CallOf(p))
      BY <2>5, <2>8 DEF Mailed
    <3>3. /\ \A e \in Services, q \in Packles :
               In(mail', e, q) => In(mail, e, q) \/ (e = t /\ q = p)
          /\ OnceIn(mail')
          /\ \A m \in Nat \ {0} : MailedIn(mail', m) <=> MailedIn(mail, m) \/ m = CallOf(p)
      BY <2>3, <2>5, <2>6, <3>1, <3>2, PushedIs
    <3> QED BY <2>5, <3>3, MailedThen DEF Mailed
  <2>14. Opens'
    <3>1. CallsDiffer'
      BY <2>12 DEF AInv, AnswersOk, Opens, CallsDiffer
    <3>2. MailOpen'
      <4> SUFFICES ASSUME NEW e \in Services, NEW q \in Packles, In(mail', e, q)
                   PROVE  /\ q.kind = "ret" => q.re # 0 /\ Open(e, q.sid, q.re)
                          /\ q.kind = "msg" /\ q.re # 0 => Open(q.src, q.sid, q.re)
                          /\ q.kind = "odd" => q.re = 0
        BY <2>12 DEF MailOpen
      <4>1. CASE In(mail, e, q)
        BY <4>1 DEF AInv, AnswersOk, Opens, MailOpen
      <4>2. CASE e = t /\ q = p
        BY <2>3, <2>5, <4>2
      <4> QED BY <2>13, <4>1, <4>2
    <3>3. BusyOpen'
      BY <1>2, <2>12 DEF AInv, AnswersOk, Opens, BusyOpen, Busy
    <3>4. SetOpen'
      <4> SUFFICES ASSUME NEW e \in Services, retp'[e] # NoPackle
                   PROVE  /\ retp'[e].re # 0
                          /\ run'[e].cor # NoCor /\ run'[e].by \in {"msg", "ret"}
                          /\ ~(co[run'[e].cor].req # 0 /\ ~co[run'[e].cor].replied)
                          /\ Open(co[run'[e].cor].rsrc, retp'[e].sid, retp'[e].re)
        BY <1>2, <2>12 DEF SetOpen, Busy
      <4>1. e # s /\ retp'[e] = retp[e] /\ run'[e] = run[e]
        BY <1>3, <2>7
      <4> QED BY <4>1 DEF AInv, AnswersOk, Opens, SetOpen, Busy
    <3> QED BY <3>1, <3>2, <3>3, <3>4 DEF Opens
  <2>15. Once'
    <3>1. OnceIn(mail)'
      BY <2>13 DEF OnceIn
    <3>2. BusyOnce'
      BY <1>2 DEF AInv, AnswersOk, Once, BusyOnce, Busy
    <3>3. SetOnce'
      BY <2>7 DEF AInv, AnswersOk, Once, SetOnce
    <3>4. PlacesApart'
      BY <2>8, <2>9, <2>11, <2>13 DEF AInv, AnswersOk, Once, PlacesApart
    <3> QED BY <3>1, <3>2, <3>3, <3>4 DEF Once
  <2>16. Answered'
    BY <2>10, <2>11, <2>12, <2>13 DEF AInv, AnswersOk, Answered
  <2> QED BY <1>6, <1>8, <2>14, <2>15, <2>16 DEF AInv, AnswersOk
<1> QED BY <1>9, <1>10

-----------------------------------------------------------------------------
(* The invariant.                                                          *)

LEMMA AnswersBegin == Init => AInv
<1> SUFFICES ASSUME Init PROVE AInv
  OBVIOUS
<1>1. \A s \in Services :
        /\ Len(forkQ[s]) = 0 /\ DOMAIN pool[s] = {} /\ DOMAIN timers[s] = {}
        /\ run[s].cor = NoCor /\ within[s].at = "no" /\ retp[s] = NoPackle
  BY NotRunningIs, NotWithinIs DEF Init
<1>2. \A c \in Cors :
        co[c].state = "INIT" /\ co[c].got = co[c].wants /\ co[c].req = 0
  BY DEF Init, NewCor
<1>3. \A d \in Services : mail[d] = <<Packle("msg", Main, 0, 0)>>
  BY DEF Init
<1>4. \A d \in Services : \A i \in 1..Len(mail[d]) :
        mail[d][i].kind = "msg" /\ mail[d][i].re = 0 /\ CallOf(mail[d][i]) = 0
  BY <1>3 DEF Packle, CallOf
<1>5. \A s, x, n : ~Open(s, x, n)
  BY <1>1 DEF Open, Calling
<1>6. \A h \in Cors : ~Busy(h)
  BY <1>2 DEF Busy
<1>7. Wants
  <2>1. WokenByWhatItWaitsFor
    BY <1>2 DEF WokenByWhatItWaitsFor
  <2>2. ASSUME NEW s \in Services PROVE WantsOk(s)
    BY <1>1, <1>2 DEF WantsOk, PoolWants, TimerWants, ForkWants, ForkedIn
  <2> QED BY <2>1, <2>2 DEF Wants
<1>8. Handlers
  BY <1>1, <1>6 DEF Handlers, BusyHeld, BusyRuns
<1>9. Opens
  BY <1>1, <1>4, <1>5, <1>6 DEF Opens, CallsDiffer, MailOpen, In, BusyOpen, SetOpen
<1>10. Once
  BY <1>1, <1>4, <1>6
     DEF Once, OnceIn, BusyOnce, SetOnce, PlacesApart, Mailed, MailedIn, Handled, IsSet
<1>11. Answered
  BY <1>5 DEF Answered
<1> QED BY <1>7, <1>8, <1>9, <1>10, <1>11 DEF AInv, AnswersOk

LEMMA NumbersBegin == Init => Numbers
<1> SUFFICES ASSUME Init PROVE Numbers
  OBVIOUS
<1>1. \A s \in Services : within[s].at = "no"
  BY NotWithinIs DEF Init
<1>2. \A d \in Services, p \in Packles : In(mail, d, p) => p.kind = "msg"
  BY DEF Init, In, Packle
<1>3. lastId = 0 /\ used["timer"] = 0 /\ wheel = {} /\ Limit["timer"] \in Nat
  BY DispatchAssumption DEF Init, Ops
<1> QED BY <1>1, <1>2, <1>3 DEF Numbers, CallsCount, Ticks

\* A step of no call and of no addTimer, that sends TIMER packles with their ids.
LEMMA NumbersStay ==
    ASSUME Types, Numbers, UNCHANGED <<lastId, within>>, wheel' \subseteq wheel,
           used["call"] \in Nat, used'["call"] \in Nat, used["call"] <= used'["call"],
           used'["timer"] = used["timer"],
           \A d \in Services, q \in Packles : In(mail', d, q) /\ q.kind = "timer" =>
             In(mail, d, q) \/ (NoWrap => q.re = q.sid)
    PROVE  Numbers'
<1>1. CallsCount'
  BY DEF Numbers, CallsCount, Types, Holding, Additions
<1>2. NoWrap => Ticks'
  BY DEF Numbers, Ticks, In
<1> QED BY <1>1, <1>2 DEF Numbers, NoWrap

LEMMA BoxesAre == ASSUME Types PROVE mail \in Boxes
  BY DEF Types, Kept, Boxes

LEMMA LoopNumbers ==
    ASSUME Types, Numbers, NEW s \in Services, Loop(s)
    PROVE  Numbers'
<1>1. UNCHANGED <<lastId, within, wheel, used>>
  BY DEF Loop, ResumeFork, DispatchTimer, DropTimer, DispatchRet, DispatchMsg, DispatchNobody,
         Back, timerVars
<1>2. \A box \in Boxes : \A dest : Ret(s, dest, box) =>
        \A d \in Services, q \in Packles : In(mail', d, q) /\ q.kind = "timer" => In(box, d, q)
  <2> SUFFICES ASSUME NEW box \in Boxes, NEW dest, Ret(s, dest, box)
               PROVE  \A d \in Services, q \in Packles :
                        In(mail', d, q) /\ q.kind = "timer" => In(box, d, q)
    OBVIOUS
  <2>1. PICK p : p = Packle("ret", s, retp[s].sid, retp[s].re)
    OBVIOUS
  <2>2. retp[s].sid \in Nat /\ retp[s].re \in Nat
    BY DEF Types, Kept, Answer
  <2>3. p \in Packles /\ p.kind = "ret"
    BY <2>1, <2>2, PackleIs, MainIs DEF Packle
  <2>4. mail' = box \/ mail' = [box EXCEPT ![dest] = Append(@, p)]
    BY <2>1 DEF Ret
  <2> QED BY <2>3, <2>4, AppendedIn
<1>3. \A d \in Services, q \in Packles :
        In(mail', d, q) /\ q.kind = "timer" => In(mail, d, q)
  <2>1. CASE mail' = mail
    BY <2>1
  <2>2. CASE mail[s] # <<>> /\ mail' = Popped(s)
    BY <2>2, BoxesAre, PoppedIn DEF Oldest
  <2>3. CASE DispatchNobody(s)
    <3>1. PICK p \in Oldest(s) : Ret(s, p.src, Popped(s))
      BY <2>3 DEF DispatchNobody
    <3>2. Popped(s) \in Boxes
      BY OldestIs DEF Types, Boxes
    <3> QED BY <1>2, <3>1, <3>2, BoxesAre, PoppedIn
  <2>4. CASE Back(s)
    BY <1>2, <2>4, BoxesAre DEF Back
  <2> QED BY <2>1, <2>2, <2>3, <2>4
          DEF Loop, ResumeFork, DispatchTimer, DropTimer, DispatchRet, DispatchMsg, Oldest
<1> QED BY <1>1, <1>3, SameCalls, NumbersStay

\* Service code that neither calls nor adds timers.
LEMMA OtherNumbers ==
    ASSUME Types, Numbers, NEW s \in Services, NEW c \in Cors,
           Send(s, c) \/ SetReturn(s, c) \/ Fork(s, c) \/ RemoveTimer(s, c) \/ Finish(s, c)
    PROVE  Numbers'
<1>1. UNCHANGED <<lastId, within, wheel>>
  BY DEF Send, SetReturn, Fork, RemoveTimer, Finish, timerVars
<1>2. \E op \in Ops \ {"timer"} : Use(op) \/ used' = used
  BY DEF Send, SetReturn, Fork, RemoveTimer, Finish, Ops
<1>3. /\ used["call"] \in Nat /\ used'["call"] \in Nat /\ used["call"] <= used'["call"]
      /\ used'["timer"] = used["timer"]
  BY <1>2, SameCalls, UsedCalls DEF Use, Types, Kept, Ops
<1>4. \A d \in Services, q \in Packles :
        In(mail', d, q) /\ q.kind = "timer" => In(mail, d, q)
  <2>1. CASE Send(s, c)
    <3>1. PICK d \in Services, kind \in {"msg", "odd"} : Push(d, Packle(kind, s, 0, 0))
      BY <2>1 DEF Send
    <3>2. PICK p : p = Packle(kind, s, 0, 0)
      OBVIOUS
    <3>3. p \in Packles /\ p.kind # "timer"
      BY <3>2, PackleIs, MainIs DEF Packle
    <3>4. mail' = [mail EXCEPT ![d] = Append(@, p)]
      BY <3>1, <3>2 DEF Push
    <3> QED BY <3>3, <3>4, BoxesAre, AppendedIn
  <2>2. CASE mail' = mail
    BY <2>2
  <2> QED BY <2>1, <2>2 DEF SetReturn, Fork, RemoveTimer, Finish
<1> QED BY <1>1, <1>3, <1>4, NumbersStay

LEMMA CallNumbers ==
    ASSUME Types, Numbers, NEW s \in Services, NEW c \in Cors, Call(s, c)
    PROVE  Numbers'
<1>1. PICK d \in Services, x \in GetSession(s) : Call(s, c)!(d, x)
  BY DEF Call
<1>2. PICK n \in Nat : n = used["call"]
  BY DEF Types, Kept, Ops
<1>3. used'["call"] = n + 1 /\ used'["timer"] = used["timer"] /\ UNCHANGED <<lastId, wheel>>
  BY <1>1, <1>2 DEF Use, Types, Kept, Ops
<1>4. /\ within'[s].at = "suspend" /\ within'[s].val = n + 1
      /\ \A r \in Services : r # s => within'[r] = within[r]
  BY <1>1, <1>2 DEF Types, Holding
<1>5. CallsCount'
  <2>1. \A m \in 1..n : m \in 1..(n + 1)
    OBVIOUS
  <2>2. n + 1 \in 1..(n + 1)
    OBVIOUS
  <2> QED BY <1>2, <1>3, <1>4, <2>1, <2>2 DEF Numbers, CallsCount
<1>6. \A e \in Services, q \in Packles :
        In(mail', e, q) /\ q.kind = "timer" => In(mail, e, q)
  <2>1. PICK p : p = Packle("msg", s, x, n + 1)
    OBVIOUS
  <2>2. x \in Nat
    BY DispatchAssumption DEF GetSession
  <2>3. p \in Packles /\ p.kind = "msg"
    BY <2>1, <2>2, PackleIs, MainIs DEF Packle
  <2>4. mail' = [mail EXCEPT ![d] = Append(@, p)]
    BY <1>1, <1>2, <2>1 DEF Push
  <2> QED BY <2>3, <2>4, BoxesAre, AppendedIn
<1>7. NoWrap => Ticks'
  BY <1>3, <1>4, <1>6 DEF Numbers, Ticks
<1> QED BY <1>5, <1>7 DEF Numbers, NoWrap

LEMMA SuspendNumbers ==
    ASSUME Types, Numbers, NEW s \in Services, NEW c \in Cors, Suspend(s, c)
    PROVE  Numbers'
<1>1. within'[s].at = "no" /\ \A r \in Services : r # s => within'[r] = within[r]
  BY NotWithinIs DEF Suspend, Types, Holding
<1>2. UNCHANGED <<mail, lastId, wheel, used>>
  BY DEF Suspend
<1> QED BY <1>1, <1>2 DEF Numbers, CallsCount, Ticks, NoWrap, In

\* The three steps of addTimer.
LEMMA LoadIdNumbers ==
    ASSUME Types, Numbers, NEW s \in Services, NEW c \in Cors, LoadId(s, c)
    PROVE  Numbers'
<1>1. PICK op \in {"sleep", "once", "loop"} : LoadId(s, c)!(op)
  BY DEF LoadId
<1>2. PICK n \in Nat : n = used["timer"] /\ n < Limit["timer"]
  BY <1>1 DEF May, Types, Kept, Ops
<1>3. /\ used'["call"] = used["call"] /\ used'["timer"] = n + 1
      /\ UNCHANGED <<mail, lastId, wheel>>
  BY <1>1, <1>2 DEF Use, Types, Kept, Ops
<1>4. /\ within'[s].at = "store" /\ within'[s].val = lastId
      /\ \A r \in Services : r # s => within'[r] = within[r]
  BY <1>1 DEF Types, Holding
<1>5. CallsCount'
  BY <1>3, <1>4 DEF Numbers, CallsCount
<1>6. ASSUME NoWrap PROVE Ticks'
  <2>1. n + 1 <= Limit["timer"] /\ lastId <= n + 1 /\ lastId < n + 1
    BY <1>2, <1>6, DispatchAssumption DEF Numbers, Ticks, Types, Holding, Ops
  <2>2. \A r \in Services : r # s /\ within[r].at = "store" => within[r].val < n + 1
    BY <1>2, <1>6 DEF Numbers, Ticks, Types, Holding, Additions
  <2> QED BY <1>3, <1>4, <1>6, <2>1, <2>2 DEF Numbers, Ticks, In
<1> QED BY <1>5, <1>6 DEF Numbers, NoWrap

LEMMA StoreIdNumbers ==
    ASSUME Types, OneTimerUser, Numbers, NEW s \in Services, NEW c \in Cors, StoreId(s, c)
    PROVE  Numbers'
<1>1. PICK v \in Nat : v = within[s].val
  BY DEF Types, Holding, Additions
<1>2. within[s].at = "store" /\ lastId' = v + 1 /\ UNCHANGED <<mail, wheel, used>>
  BY <1>1 DEF StoreId, Increment
<1>3. /\ within'[s].at = "key" /\ within'[s].session = (v + 1) % IdRange
      /\ \A r \in Services : r # s => within'[r] = within[r]
  BY <1>1 DEF StoreId, Session, Increment, Types, Holding, Additions
<1>4. CallsCount'
  BY <1>2, <1>3 DEF Numbers, CallsCount
<1>5. \A r \in Services : r # s => within[r].at # "key"
  BY <1>2 DEF OneTimerUser, Types, Adding
<1>6. ASSUME NoWrap PROVE Ticks'
  <2>1. v + 1 <= used["timer"] /\ v + 1 < IdRange
    <3>1. used["timer"] \in Nat /\ Limit["timer"] \in Nat /\ IdRange \in Nat
      BY DispatchAssumption DEF Types, Kept, Ops
    <3>2. v < used["timer"] /\ used["timer"] <= Limit["timer"]
      BY <1>1, <1>2, <1>6 DEF Numbers, Ticks
    <3> QED BY <1>6, <3>1, <3>2 DEF NoWrap
  <2>2. (v + 1) % IdRange = v + 1
    BY <2>1, DispatchAssumption
  <2> QED BY <1>2, <1>3, <1>5, <1>6, <2>1, <2>2 DEF Numbers, Ticks, In
<1> QED BY <1>4, <1>6 DEF Numbers, NoWrap

LEMMA RegisterNumbers ==
    ASSUME Types, Numbers, NEW s \in Services, NEW cor, NEW loop, Armed(s, cor, loop),
           within[s].at = "key", UNCHANGED <<mail, lastId, used>>
    PROVE  Numbers'
<1>1. within'[s].at = "no" /\ \A r \in Services : r # s => within'[r] = within[r]
  BY NotWithinIs DEF Armed, Types, Holding
<1>2. \A t \in wheel' : t \in wheel \/ (t.session = within[s].session /\ t.id = lastId)
  BY DEF Armed
<1>3. CallsCount'
  BY <1>1 DEF Numbers, CallsCount
<1>4. NoWrap => Ticks'
  BY <1>1, <1>2 DEF Numbers, Ticks, In
<1> QED BY <1>3, <1>4 DEF Numbers, NoWrap

LEMMA WheelNumbers ==
    ASSUME Types, Numbers, NEW t \in wheel, Expire(t) \/ Forget(t)
    PROVE  Numbers'
<1>1. UNCHANGED <<lastId, within>> /\ wheel' \subseteq wheel
  BY DEF Expire, Forget
<1>2. /\ used["call"] \in Nat /\ used'["call"] \in Nat /\ used["call"] <= used'["call"]
      /\ used'["timer"] = used["timer"]
  <2>1. Use("expire") \/ used' = used
    BY DEF Expire, Forget
  <2> QED BY <2>1, SameCalls, UsedCalls DEF Use, Types, Kept, Ops
<1>3. \A d \in Services, q \in Packles : In(mail', d, q) /\ q.kind = "timer" =>
        In(mail, d, q) \/ (NoWrap => q.re = q.sid)
  <2>1. CASE Expire(t)
    <3>1. t.session \in Nat /\ t.id \in Nat
      BY DEF Types, Holding, Expiries
    <3>2. PICK p : p = Packle("timer", Main, t.session, t.id)
      OBVIOUS
    <3>3. p \in Packles /\ p.re = t.id /\ p.sid = t.session
      BY <3>1, <3>2, PackleIs, MainIs DEF Packle
    <3>4. mail' = [mail EXCEPT ![t.serv] = Append(@, p)]
      BY <2>1, <3>2 DEF Expire, Push
    <3>5. NoWrap => p.re = p.sid
      BY <3>3 DEF Numbers, Ticks
    <3> QED BY <3>3, <3>4, <3>5, BoxesAre, AppendedIn
  <2>2. CASE Forget(t)
    BY <2>2 DEF Forget
  <2> QED BY <2>1, <2>2
<1> QED BY <1>1, <1>2, <1>3, NumbersStay

LEMMA NumbersContinue ==
    ASSUME Types, OneTimerUser, Numbers, [Next]_vars
    PROVE  Numbers'
<1>1. ASSUME NEW s \in Services, NEW c \in Cors, Code(s, c) PROVE Numbers'
  <2>1. CASE RegisterSleep(s, c)
    BY <2>1, RegisterNumbers DEF RegisterSleep
  <2>2. CASE RegisterCallback(s, c)
    <3>1. PICK x \in Cors : RegisterCallback(s, c)!(x)
      BY <2>2 DEF RegisterCallback
    <3> QED BY <3>1, RegisterNumbers
  <2> QED BY <1>1, <2>1, <2>2, OtherNumbers, CallNumbers, SuspendNumbers, LoadIdNumbers,
             StoreIdNumbers DEF Code
<1>2. CASE UNCHANGED vars
  BY <1>2 DEF vars, corVars, timerVars, Numbers, CallsCount, Ticks, NoWrap, In
<1> QED BY <1>1, <1>2, LoopNumbers, WheelNumbers DEF Next

LEMMA AnswersContinue ==
    ASSUME Types, Places, Numbers, AInv, RepliesFirst, [Next]_vars
    PROVE  AInv'
<1>1. ASSUME NEW s \in Services, Loop(s) PROVE AInv'
  BY <1>1, ResumeForkAnswers, DispatchTimerAnswers, DropTimerAnswers, DispatchRetAnswers,
     DispatchMsgAnswers, DispatchNobodyAnswers, BackAnswers DEF Loop
<1>2. ASSUME NEW s \in Services, NEW c \in Cors, Code(s, c) PROVE AInv'
  BY <1>2, SendAnswers, CallAnswers, SuspendAnswers, SetReturnAnswers, ForkAnswers,
     LoadIdAnswers, StoreIdAnswers, RegisterSleepAnswers, RegisterCallbackAnswers,
     RemoveTimerAnswers, FinishAnswers DEF Code
<1>3. ASSUME NEW t \in wheel, Expire(t) \/ Forget(t) PROVE AInv'
  BY <1>3, ExpireAnswers, ForgetAnswers
<1>4. CASE UNCHANGED vars
  <2>1. UNCHANGED <<mail, co, run, forkQ, pool, retp, timers, within, used>>
    BY <1>4 DEF vars, corVars, timerVars
  <2>2. MailCalm
    BY <2>1, SameMail DEF AInv
  <2>3. \A s \in Services : BusyRuns(s)'
    BY <2>1, SameRuns DEF AInv
  <2> QED BY <2>1, <2>2, <2>3, SameCalls, SameCalling, QuietAnswers
<1> QED BY <1>1, <1>2, <1>3, <1>4 DEF Next

LEMMA InvariantHolds ==
    ASSUME OneTimerUser, RepliesFirst
    PROVE  Spec => [](IInv /\ Numbers /\ AInv)
<1>1. Init => IInv /\ Numbers /\ AInv
  BY Begins, NumbersBegin, AnswersBegin
<1>2. IInv /\ Numbers /\ AInv /\ [Next]_vars => (IInv /\ Numbers /\ AInv)'
  <2> SUFFICES ASSUME IInv, Numbers, AInv, [Next]_vars PROVE IInv' /\ Numbers' /\ AInv'
    OBVIOUS
  <2>1. IInv'
    BY Continues DEF RepliesFirst
  <2>2. Numbers'
    BY NumbersContinue DEF IInv
  <2>3. AInv'
    BY AnswersContinue DEF IInv
  <2> QED BY <2>1, <2>2, <2>3
<1> QED BY <1>1, <1>2, PTL DEF Spec

-----------------------------------------------------------------------------
(* The answers to a call.                                                  *)

\* AnswersTo, place by place.
LEMMA AskedIs ==
    ASSUME NEW p
    PROVE  \A e : e \in AskedAt(p) <=> \E d \in Services : \E i \in 1..Len(mail[d]) :
             mail[d][i] = p /\ e = <<"asked", d, i>>
<1> DEFINE AskedOf(d) == {<<"asked", d, i>> : i \in {i \in 1..Len(mail[d]) : mail[d][i] = p}}
<1>1. AskedAt(p) = UNION {AskedOf(d) : d \in Services}
  BY Zenon DEF AskedAt
<1>2. \A d \in Services : \A e : e \in AskedOf(d) <=> \E i \in 1..Len(mail[d]) :
        mail[d][i] = p /\ e = <<"asked", d, i>>
  OBVIOUS
<1> HIDE DEF AskedOf
<1>3. \A e : e \in AskedAt(p) <=> \E d \in Services : e \in AskedOf(d)
  BY <1>1
<1> QED BY <1>2, <1>3

LEMMA AnswersAre ==
    ASSUME NEW s \in Services, NEW c \in Cors, NEW n
    PROVE  \A e : e \in AnswersTo(s, c, n) <=>
             \/ \E d \in Services : \E i \in 1..Len(mail[d]) :
                  mail[d][i] = Packle("msg", s, co[c].sid, n) /\ e = <<"asked", d, i>>
             \/ \E h \in Cors :
                  /\ co[h].job = "handler" /\ co[h].req = n /\ ~co[h].replied
                  /\ co[h].state \in {"RUNNING", "SUSPENDED"} /\ e = <<"handled", h>>
             \/ \E d \in Services :
                  /\ retp[d].re = n /\ retp[d].sid = co[c].sid
                  /\ run[d].cor # NoCor /\ co[run[d].cor].rsrc = s /\ e = <<"set", d>>
             \/ \E i \in 1..Len(mail[s]) :
                  /\ mail[s][i].kind = "ret" /\ mail[s][i].sid = co[c].sid
                  /\ mail[s][i].re = n /\ e = <<"sent", i>>
<1>1. \A e : e \in AskedAt(Packle("msg", s, co[c].sid, n)) <=>
        \E d \in Services : \E i \in 1..Len(mail[d]) :
          mail[d][i] = Packle("msg", s, co[c].sid, n) /\ e = <<"asked", d, i>>
  BY AskedIs
<1> QED BY <1>1 DEF AnswersTo

\* An answer of one place excludes those of the others.
LEMMA PlacesOf ==
    ASSUME Types, AInv, NEW s \in Services, NEW c \in Cors, NEW n \in Nat \ {0}
    PROVE  /\ \A d \in Services : \A i \in 1..Len(mail[d]) :
                mail[d][i] = Packle("msg", s, co[c].sid, n) =>
                  CallOf(mail[d][i]) = n /\ mail[d][i].kind = "msg" /\ Mailed(n)
           /\ \A i \in 1..Len(mail[s]) : mail[s][i].kind = "ret" /\ mail[s][i].re = n =>
                CallOf(mail[s][i]) = n /\ Mailed(n)
           /\ \A h \in Cors : co[h].req = n /\ ~co[h].replied => Busy(h) /\ Handled(n)
           /\ \A d \in Services : retp[d].re = n => retp[d] # NoPackle /\ IsSet(n)
           /\ ~(Mailed(n) /\ Handled(n)) /\ ~(Mailed(n) /\ IsSet(n))
           /\ ~(Handled(n) /\ IsSet(n))
<1>1. \A d \in Services : \A i \in 1..Len(mail[d]) : CallOf(mail[d][i]) = n => Mailed(n)
  BY DEF Mailed, MailedIn
<1>2. /\ CallOf(Packle("msg", s, co[c].sid, n)) = n
      /\ Packle("msg", s, co[c].sid, n).kind = "msg"
  BY DEF Packle, CallOf
<1>6. \A i \in 1..Len(mail[s]) : mail[s][i].kind = "ret" /\ mail[s][i].re = n =>
         CallOf(mail[s][i]) = n
  BY DEF CallOf
<1>3. \A h \in Cors : co[h].req = n /\ ~co[h].replied => Busy(h) /\ Handled(n)
  BY DEF Busy, Handled
<1>4. \A d \in Services : retp[d].re = n => retp[d] # NoPackle /\ IsSet(n)
  BY DEF NoPackle, Packle, IsSet
<1>5. ~(Mailed(n) /\ Handled(n)) /\ ~(Mailed(n) /\ IsSet(n)) /\ ~(Handled(n) /\ IsSet(n))
  BY DEF AInv, AnswersOk, Once, PlacesApart
<1> QED BY <1>1, <1>2, <1>3, <1>4, <1>5, <1>6

LEMMA OneInMail ==
    ASSUME Types, Places, Numbers, AInv, NEW s \in Services, NEW c \in Cors, NEW n \in Nat \ {0},
           Open(s, co[c].sid, n), Mailed(n)
    PROVE  \E e : AnswersTo(s, c, n) = {e}
<1>0. PICK d \in Services : \E i \in 1..Len(mail[d]) : CallOf(mail[d][i]) = n
  BY DEF Mailed, MailedIn
<1>1. PICK i \in 1..Len(mail[d]) : CallOf(mail[d][i]) = n
  BY <1>0
<1>2. PICK p \in Packles : p = mail[d][i]
  BY DEF Types, Kept
<1>3. /\ In(mail, d, p) /\ CallOf(p) = n /\ p.re = n
      /\ p.kind \in {"msg", "odd", "ret", "timer"} /\ p.kind # "timer"
  BY <1>1, <1>2 DEF In, Packles, CallOf
<1>4. /\ p.kind = "ret" => Open(d, p.sid, n)
      /\ p.kind = "msg" => Open(p.src, p.sid, n)
      /\ p.kind \in {"msg", "ret"}
  BY <1>3 DEF AInv, AnswersOk, Opens, MailOpen
<1>5. \A t, y : Open(t, y, n) => t = s /\ y = co[c].sid
  BY OpenIs DEF AInv, AnswersOk, Opens, CallsDiffer
<1>6. \A t \in Services : \A j \in 1..Len(mail[t]) : CallOf(mail[t][j]) = n => t = d /\ j = i
  BY <1>1 DEF AInv, AnswersOk, Once, OnceIn
<1>7. ~Handled(n) /\ ~IsSet(n)
  BY PlacesOf
<1>8. CASE p.kind = "msg"
  <2>1. p = Packle("msg", s, co[c].sid, n)
    BY <1>3, <1>4, <1>5, <1>8 DEF Packles, Packle
  <2>2. \A e : e \in AnswersTo(s, c, n) => e = <<"asked", d, i>>
    BY <1>2, <1>6, <1>7, <1>8, AnswersAre, PlacesOf
  <2>3. \E t \in Services : \E j \in 1..Len(mail[t]) :
          mail[t][j] = Packle("msg", s, co[c].sid, n) /\ <<"asked", d, i>> = <<"asked", t, j>>
    BY <1>2, <2>1
  <2>4. <<"asked", d, i>> \in AnswersTo(s, c, n)
    BY <2>3, AnswersAre
  <2> QED BY <2>2, <2>4
<1>9. CASE p.kind = "ret"
  <2>1. d = s /\ p.sid = co[c].sid
    BY <1>4, <1>5, <1>9
  <2>2. \A e : e \in AnswersTo(s, c, n) => e = <<"sent", i>>
    BY <1>2, <1>6, <1>7, <1>9, AnswersAre, PlacesOf
  <2>3. mail[s][i].kind = "ret" /\ mail[s][i].sid = co[c].sid /\ mail[s][i].re = n
    BY <1>2, <1>3, <1>9, <2>1
  <2>4. i \in 1..Len(mail[s])
    BY <1>1, <2>1
  <2>5. <<"sent", i>> \in AnswersTo(s, c, n)
    BY <2>3, <2>4, AnswersAre
  <2> QED BY <2>2, <2>5
<1> QED BY <1>4, <1>8, <1>9

LEMMA OneHandler ==
    ASSUME Types, Places, AInv, NEW s \in Services, NEW c \in Cors, NEW n \in Nat \ {0},
           Handled(n)
    PROVE  \E e : AnswersTo(s, c, n) = {e}
<1>1. PICK h \in Cors : Busy(h) /\ co[h].req = n
  BY DEF Handled
<1>2. co[h].job = "handler" /\ \E r \in Services : BusyIn(r, h)
  BY <1>1 DEF AInv, Handlers, BusyHeld
<1>3. PICK r \in Services : BusyIn(r, h)
  BY <1>2
<1>4. co[h].state \in {"RUNNING", "SUSPENDED"}
  BY <1>3 DEF BusyIn, Places, PlacesOk, PoolOk
<1>5. \A k \in Cors : Busy(k) /\ co[k].req = n => k = h
  BY <1>1 DEF AInv, AnswersOk, Once, BusyOnce
<1>6. \A e : e \in AnswersTo(s, c, n) => e = <<"handled", h>>
  BY <1>5, AnswersAre, PlacesOf
<1>7. <<"handled", h>> \in AnswersTo(s, c, n)
  BY <1>1, <1>2, <1>4, AnswersAre DEF Busy
<1> QED BY <1>6, <1>7

LEMMA OneSet ==
    ASSUME Types, Places, Numbers, AInv, NEW s \in Services, NEW c \in Cors, NEW n \in Nat \ {0},
           Open(s, co[c].sid, n), IsSet(n)
    PROVE  \E e : AnswersTo(s, c, n) = {e}
<1>1. PICK d \in Services : retp[d] # NoPackle /\ retp[d].re = n
  BY DEF IsSet
<1>2. run[d].cor # NoCor /\ Open(co[run[d].cor].rsrc, retp[d].sid, n)
  BY <1>1 DEF AInv, AnswersOk, Opens, SetOpen
<1>3. \A t, y : Open(t, y, n) => t = s /\ y = co[c].sid
  BY OpenIs DEF AInv, AnswersOk, Opens, CallsDiffer
<1>4. \A t \in Services : retp[t] # NoPackle /\ retp[t].re = n => t = d
  BY <1>1 DEF AInv, AnswersOk, Once, SetOnce
<1>5. \A e : e \in AnswersTo(s, c, n) => e = <<"set", d>>
  BY <1>4, AnswersAre, PlacesOf
<1>6. <<"set", d>> \in AnswersTo(s, c, n)
  BY <1>1, <1>2, <1>3, AnswersAre
<1> QED BY <1>5, <1>6

-----------------------------------------------------------------------------
(* Theorems.                                                               *)

\* Blocking functions block, for any services, calls and timers: after call the
\* code goes on with the response to that very call, after sleep its own timer has
\* expired, and a callback runs for its own timer only: got is what the packle
\* that resumed the coroutine carries, not what dispatch looked it up by.  If one
\* service uses timers, no two of them get one session, and service code keeps to
\* RepliesFirst; beyond IdRange the code does not keep it (MCDispatchWrap).
THEOREM WokenRight ==
    ASSUME OneTimerUser, RepliesFirst, NoWrap PROVE Spec => []WokenByWhatItWaitsFor
<1>1. IInv /\ Numbers /\ AInv => WokenByWhatItWaitsFor
  BY DEF AInv, Wants
<1> QED BY <1>1, InvariantHolds, PTL

\* The answer to a call that waits is in exactly one of the places where it can
\* be, under the session and for the service that wait for it: dispatch, ret and
\* setReturnPackle lose no response, and neither overwrite, duplicate nor misdirect
\* one.  If one service uses timers, service code keeps to RepliesFirst and handlers
\* do set a return packle; sessions of timers may wrap.
THEOREM AnsweredOnce ==
    ASSUME OneTimerUser, RepliesFirst, "answer" \in Rules
    PROVE  Spec => []OneAnswerPerCall
<1>1. IInv /\ Numbers /\ AInv => OneAnswerPerCall
  <2> SUFFICES ASSUME IInv, Numbers, AInv, NEW s \in Services, NEW c \in Cors,
                      NEW n \in 1..Limit["call"], Waits(s, c, n)
               PROVE  Cardinality(AnswersTo(s, c, n)) = 1
    BY DEF OneAnswerPerCall
  <2>1. Types /\ Places
    BY DEF IInv
  <2>2. n \in Nat \ {0}
    BY DispatchAssumption DEF Ops
  <2>3. Open(s, co[c].sid, n) /\ co[c].sid \in Sids
    BY <2>1, <2>2 DEF Waits, Open, Types, Holding
  <2>4. Mailed(n) \/ Handled(n) \/ IsSet(n)
    BY <2>2, <2>3 DEF AInv, AnswersOk, Answered
  <2>5. \E e : AnswersTo(s, c, n) = {e}
    <3>1. Mailed(n) => \E e : AnswersTo(s, c, n) = {e}
      BY <2>1, <2>2, <2>3, OneInMail
    <3>2. Handled(n) => \E e : AnswersTo(s, c, n) = {e}
      BY <2>1, <2>2, OneHandler
    <3>3. IsSet(n) => \E e : AnswersTo(s, c, n) = {e}
      BY <2>1, <2>2, <2>3, OneSet
    <3> QED BY <2>4, <3>1, <3>2, <3>3
  <2> QED BY <2>5, FS_Singleton
<1> QED BY <1>1, InvariantHolds, PTL
=============================================================================
