----------------------------- MODULE TimeWheel ------------------------------
(***************************************************************************)
(* TimeWheel (timeWheel.cc): when timers fire.  Dispatch lets them fire at *)
(* any time and says what becomes of the TIMER packles.                    *)
(*                                                                         *)
(* The time thread runs tick() once per Interval.  A tick takes over the   *)
(* timers added since the last one, advances m_cur, and goes through the   *)
(* list of that slot.  Each iteration of its two loops is a step: another  *)
(* thread may drop a timer (wt.lock(), unique()) between any two of them,  *)
(* and add one whenever m_lock is free.                                    *)
(*                                                                         *)
(* Time is counted in milliseconds, and tick() is taken to need none.      *)
(***************************************************************************)
EXTENDS Integers, Sequences

CONSTANTS
    Timers,     \* Timer objects
    NoTimer,
    WheelSize,  \* m_wheelSize
    Interval,   \* m_interval, in milliseconds
    Delays,     \* the delays timers are given
    Repeats     \* their intervals; 0 for a timer that does not repeat

ASSUME WheelAssumption ==
    /\ NoTimer \notin Timers
    /\ WheelSize \in Nat \ {0} /\ Interval \in Nat \ {0}
    /\ Delays \subseteq Nat /\ Repeats \subseteq Nat

VARIABLES
    cur,       \* m_cur
    wheel,     \* m_wheel
    fresh,     \* m_timers: added, and not yet taken over by a tick
    delay,     \* Timer::delay
    interval,  \* Timer::interval
    level,     \* Timer::level
    owned,     \* the timers some TimerContext keeps alive
    gone,      \* whether the service of the timers has been removed
    pc,        \* where the time thread is: hold, adopt (with m_lock) or visit
    pos,       \* the iterator of tick's second loop
    since,     \* ghost: milliseconds since the last tick began
    due,       \* ghost: in how many milliseconds a timer has to fire
    armed,     \* ghost: the owned timers that have yet to fire
    fired      \* ghost: the timer for which the last step pushed a packle

wheelVars == <<cur, wheel, fresh, level>>
timerVars == <<delay, interval, owned, gone>>
vars == <<wheelVars, timerVars, pc, pos, since, due, armed, fired>>

Slots == 0..(WheelSize - 1)
In(t, list) == \E i \in 1..Len(list) : list[i] = t
Known(t) == In(t, fresh) \/ \E s \in Slots : In(t, wheel[s])

Ticks(d) == IF d = 0 THEN 1 ELSE (d - 1) \div Interval + 1
\* A mutant: a timer due in exactly one turn is given another one.
TurnsOneMore(d) == Ticks(d) \div WheelSize
\* A mutant: add forgets to set the level.
TurnsNone(d) == 0
Turns(d) == (Ticks(d) - 1) \div WheelSize
SlotOf(d) == (cur + Ticks(d)) % WheelSize

TypeOK ==
    /\ cur \in Slots /\ wheel \in [Slots -> Seq(Timers)] /\ fresh \in Seq(Timers)
    /\ delay \in [Timers -> Nat] /\ interval \in [Timers -> Nat]
    /\ level \in [Timers -> Nat]
    /\ owned \subseteq Timers /\ gone \in BOOLEAN
    /\ pc \in {"hold", "adopt", "visit"} /\ pos \in Nat
    /\ pc = "visit" => pos \in 1..Len(wheel[cur])
    /\ since \in 0..Interval
    /\ due \in [Timers -> Int] /\ armed \subseteq owned
    /\ fired \in Timers \cup {NoTimer}

Init ==
    /\ cur = 0 /\ wheel = [s \in Slots |-> <<>>] /\ fresh = <<>>
    /\ delay = [t \in Timers |-> 0] /\ interval = delay /\ level = delay
    /\ owned = {} /\ gone = FALSE
    /\ pc = "hold" /\ pos = 0 /\ since = Interval
    /\ due = delay /\ armed = {} /\ fired = NoTimer

-----------------------------------------------------------------------------
(* Services.                                                               *)

AddTimer(t, d, i) ==
    /\ t \notin owned /\ ~Known(t) /\ ~gone
    /\ pc # "adopt"
    /\ fresh' = Append(fresh, t)
    /\ delay' = [delay EXCEPT ![t] = d] /\ interval' = [interval EXCEPT ![t] = i]
    /\ owned' = owned \cup {t} /\ armed' = armed \cup {t}
    /\ due' = [due EXCEPT ![t] = d]
    /\ fired' = NoTimer
    /\ UNCHANGED <<cur, wheel, level, gone, pc, pos, since>>

\* removeTimer, or dispatch when a timer that does not repeat has fired: the
\* Timer is destroyed, the weak pointers to it stay where they are.
DropTimer(t) ==
    /\ t \in owned
    /\ owned' = owned \ {t} /\ armed' = armed \ {t}
    /\ delay' = [delay EXCEPT ![t] = 0] /\ interval' = [interval EXCEPT ![t] = 0]
    /\ level' = [level EXCEPT ![t] = 0] /\ due' = [due EXCEPT ![t] = 0]
    /\ fired' = NoTimer
    /\ UNCHANGED <<cur, wheel, fresh, gone, pc, pos, since>>

RemoveService ==
    /\ ~gone
    /\ gone' = TRUE
    /\ fired' = NoTimer
    /\ UNCHANGED <<wheelVars, delay, interval, owned, pc, pos, since, due, armed>>

-----------------------------------------------------------------------------
(* The time thread.                                                        *)

Millisecond ==
    /\ pc = "hold" /\ since < Interval
    /\ since' = since + 1
    /\ due' = [t \in Timers |-> IF t \in armed /\ ~gone THEN due[t] - 1 ELSE due[t]]
    /\ fired' = NoTimer
    /\ UNCHANGED <<wheelVars, timerVars, pc, pos, armed>>

TickBegins ==
    /\ pc = "hold" /\ since = Interval
    /\ since' = 0 /\ pc' = "adopt"
    /\ fired' = NoTimer
    /\ UNCHANGED <<wheelVars, timerVars, pos, due, armed>>

\* add(): puts t into the wheel, in which the lists are lists.
Add(t, d, lists) ==
    /\ wheel' = [lists EXCEPT ![SlotOf(d)] = Append(@, t)]
    /\ level' = [level EXCEPT ![t] = Turns(d)]

Adopt ==
    /\ pc = "adopt" /\ fresh # <<>>
    /\ LET t == Head(fresh)
       IN  IF t \in owned THEN Add(t, delay[t], wheel) ELSE UNCHANGED <<wheel, level>>
    /\ fresh' = Tail(fresh)
    /\ fired' = NoTimer
    /\ UNCHANGED <<cur, timerVars, pc, pos, since, due, armed>>

Advance ==
    /\ pc = "adopt" /\ fresh = <<>>
    /\ cur' = (cur + 1) % WheelSize
    /\ IF wheel[cur'] = <<>> THEN pc' = "hold" /\ pos' = 0
                             ELSE pc' = "visit" /\ pos' = 1
    /\ fired' = NoTimer
    /\ UNCHANGED <<wheel, fresh, level, timerVars, since, due, armed>>

Here == wheel[cur][pos]

\* A mutant: the loop does not notice that it is at the end.
ProceedOn(n) == pos' = pos + n /\ UNCHANGED pc
\* The iterator moves on by n; an element added behind the last is not visited.
Proceed(n) ==
    IF pos = Len(wheel[cur]) THEN pc' = "hold" /\ pos' = 0
                             ELSE pos' = pos + n /\ UNCHANGED pc

\* The lists when the element at the iterator is erased.
Erased == [wheel EXCEPT ![cur] =
             [i \in 1..(Len(@) - 1) |-> IF i < pos THEN @[i] ELSE @[i + 1]]]

\* A mutant: the entry of a timer that is no more is skipped, not erased.
VisitDeadStays ==
    /\ Here \notin owned
    /\ Proceed(0)
    /\ fired' = NoTimer
    /\ UNCHANGED <<wheel, level, due, armed, delay>>

VisitDead ==
    /\ Here \notin owned
    /\ wheel' = Erased /\ Proceed(0)
    /\ fired' = NoTimer
    /\ UNCHANGED <<level, due, armed, delay>>

VisitLater ==
    /\ Here \in owned /\ level[Here] > 0
    /\ level' = [level EXCEPT ![Here] = @ - 1]
    /\ Proceed(1)
    /\ fired' = NoTimer
    /\ UNCHANGED <<wheel, due, armed, delay>>

\* The service is gone: nothing is sent, and the timer is forgotten.
VisitOrphan ==
    /\ Here \in owned /\ level[Here] = 0 /\ gone
    /\ wheel' = Erased /\ Proceed(0)
    /\ armed' = armed \ {Here}
    /\ fired' = NoTimer
    /\ UNCHANGED <<level, due, delay>>

VisitOnce ==
    /\ Here \in owned /\ level[Here] = 0 /\ ~gone /\ interval[Here] = 0
    /\ fired' = Here
    /\ wheel' = Erased /\ Proceed(0)
    /\ armed' = armed \ {Here}
    /\ due' = [due EXCEPT ![Here] = 0]
    /\ UNCHANGED <<level, delay>>

VisitRepeat ==
    /\ Here \in owned /\ level[Here] = 0 /\ ~gone /\ interval[Here] > 0
    /\ fired' = Here
    /\ delay' = [delay EXCEPT ![Here] = interval[Here]]
    /\ Add(Here, interval[Here], Erased) /\ Proceed(0)
    /\ due' = [due EXCEPT ![Here] = interval[Here]]
    /\ UNCHANGED armed

Visit ==
    /\ pc = "visit"
    /\ VisitDead \/ VisitLater \/ VisitOrphan \/ VisitOnce \/ VisitRepeat
    /\ UNCHANGED <<cur, fresh, interval, owned, gone, since>>

TimeThread == Millisecond \/ TickBegins \/ Adopt \/ Advance \/ Visit

Next ==
    \/ \E t \in Timers, d \in Delays, i \in Repeats : AddTimer(t, d, i)
    \/ \E t \in Timers : DropTimer(t)
    \/ RemoveService
    \/ TimeThread

Spec == Init /\ [][Next]_vars
FairSpec == Spec /\ WF_vars(TimeThread)

-----------------------------------------------------------------------------
(* A timer fires at the tick nearest to its time: less than one interval    *)
(* of the wheel from it, or exactly one when it is added at the very        *)
(* millisecond of a tick (timeWheel.cc:45-57, 68-91).                       *)
FiresOnTime ==
    [][fired' # NoTimer => due[fired'] \in -Interval..Interval]_vars

(* While its service lives, no timer that is still wanted is overdue by     *)
(* more than one interval: none is left in a slot, or in m_timers, or has a *)
(* turn too many to wait.                                                   *)
NeverLate == ~gone => \A t \in armed : due[t] >= -Interval

(* Every tick comes to its end; a tick that does not stops all timers of    *)
(* all services (timeWheel.cc:70-91).                                       *)
TickEnds == pc # "hold" ~> pc = "hold"
=============================================================================
