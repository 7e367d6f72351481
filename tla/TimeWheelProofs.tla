-------------------------- MODULE TimeWheelProofs --------------------------
(***************************************************************************)
(* Proofs about TimeWheel, for any timers, any wheel and any interval: no  *)
(* timer is in two places, and each fires within an interval of its time,  *)
(* if no timer repeats after a whole number of turns.                      *)
(*                                                                         *)
(* The invariant compares two clocks of each timer: due, and what slot and *)
(* level make of it (Wait).  Both go down alike, so their difference stays *)
(* what rounding in add made it, at most an interval.                      *)
(***************************************************************************)
EXTENDS TimeWheel, SequenceTheorems, TLAPS

\* The rule of the runs: no timer is added again to the slot it was in.
NoWholeTurn == \A r \in Repeats : r > 0 => Ticks(r) % WheelSize # 0

\* Turns and ticks in milliseconds.
Laps(k) == k * (WheelSize * Interval)
Beats(d) == d * Interval

\* How many ticks from now slot s is visited, and its i-th element; and how
\* much of the current tick is over.
Ahead(s) == IF s > cur THEN s - cur ELSE s - cur + WheelSize
Distance(s, i) == IF pc = "visit" /\ s = cur /\ i >= pos THEN 0 ELSE Ahead(s)
Past == IF pc = "hold" THEN since ELSE IF pc = "adopt" THEN Interval ELSE 0
Elapsed == IF pc = "adopt" THEN Interval ELSE since
Wait(s, i) == Laps(level[wheel[s][i]]) + Beats(Distance(s, i)) - Past

Clock ==
    /\ pc # "hold" => since = 0
    /\ interval \in [Timers -> Repeats \cup {0}]

\* No timer is in two places.
Held(t, lists) == \E s \in Slots : In(t, lists[s])
Apart(lists, list) ==
    /\ \A i, j \in 1..Len(list) : list[i] = list[j] => i = j
    /\ \A s \in Slots : \A i \in 1..Len(lists[s]) : ~In(lists[s][i], list)
    /\ \A r, s \in Slots : \A i \in 1..Len(lists[r]) : \A j \in 1..Len(lists[s]) :
         lists[r][i] = lists[s][j] => r = s /\ i = j
Once == Apart(wheel, fresh)

\* What is in a list and has an owner has yet to fire, and the other way round.
Wanted == \A t \in owned : t \in armed <=> Known(t)

\* A fresh timer has waited since it was added, at most for one interval.
Added ==
    ~gone => \A t \in owned :
               In(t, fresh) => due[t] \in (delay[t] - Elapsed)..delay[t]

\* Slot and level of a timer are right to an interval.
OnCourse ==
    ~gone => \A s \in Slots : \A i \in 1..Len(wheel[s]) : wheel[s][i] \in owned =>
               due[wheel[s][i]] - Wait(s, i) \in -Interval..Interval

IInv == TypeOK /\ Clock /\ Once /\ Wanted /\ Added /\ OnCourse

-----------------------------------------------------------------------------
(* Arithmetic.                                                             *)

LEMMA LapsIs ==
    ASSUME NEW k \in Nat
    PROVE  /\ Laps(k) \in Nat
           /\ Laps(k + 1) = Laps(k) + Beats(WheelSize)
           /\ Laps(0) = 0
  BY WheelAssumption DEF Laps, Beats

LEMMA BeatsIs ==
    ASSUME NEW k \in Nat
    PROVE  Beats(k) \in Nat /\ Beats(k + 1) = Beats(k) + Interval /\ Beats(0) = 0
  BY WheelAssumption DEF Beats

\* Rounding up to ticks.
LEMMA TicksIs ==
    ASSUME NEW d \in Nat
    PROVE  /\ Ticks(d) \in Nat \ {0}
           /\ d <= Beats(Ticks(d))
           /\ Beats(Ticks(d)) <= d + Interval
           /\ d > 0 => Beats(Ticks(d)) < d + Interval
<1>1. CASE d = 0
  BY <1>1, WheelAssumption DEF Ticks, Beats
<1>2. CASE d > 0
  <2>1. d - 1 \in Nat
    BY <1>2
  <2> DEFINE q == (d - 1) \div Interval
  <2>2. q \in Nat /\ q * Interval <= d - 1 /\ d - 1 < q * Interval + Interval
    BY <2>1, WheelAssumption
  <2>3. Ticks(d) = q + 1
    BY <1>2 DEF Ticks
  <2>4. (q + 1) * Interval = q * Interval + Interval
    BY <2>2, WheelAssumption
  <2> HIDE DEF q
  <2> QED BY <1>2, <2>2, <2>3, <2>4, WheelAssumption DEF Beats
<1> QED BY <1>1, <1>2

LEMMA ModIs ==
    ASSUME NEW a \in Nat, NEW k \in Nat, NEW m \in Nat,
           m < WheelSize, a = k * WheelSize + m
    PROVE  a % WheelSize = m
<1> DEFINE u == a % WheelSize
<1> DEFINE v == a \div WheelSize
<1>1. u \in Nat /\ u < WheelSize /\ v \in Nat /\ a = v * WheelSize + u
  BY WheelAssumption
<1> HIDE DEF u, v
<1>2. (v - k) * WheelSize = m - u
  BY <1>1, WheelAssumption
<1>3. v - k >= 1 => (v - k) * WheelSize >= WheelSize
  BY <1>1, WheelAssumption
<1>4. v - k <= -1 => (v - k) * WheelSize <= -WheelSize
  BY <1>1, WheelAssumption
<1>5. v = k
  BY <1>1, <1>2, <1>3, <1>4, WheelAssumption
<1>6. u = m
  BY <1>1, <1>5, WheelAssumption
<1> QED BY <1>6 DEF u

\* The slot of a timer, which is ahead by what the level leaves of the ticks.
LEMMA AddIs ==
    ASSUME NEW d \in Nat, cur \in Slots
    PROVE  /\ Turns(d) \in Nat /\ SlotOf(d) \in Slots
           /\ Laps(Turns(d)) + Beats(Ahead(SlotOf(d))) = Beats(Ticks(d))
           /\ Ticks(d) % WheelSize # 0 => SlotOf(d) # cur
<1> DEFINE T == Ticks(d)
<1> DEFINE q == (T - 1) \div WheelSize
<1> DEFINE r == T - q * WheelSize
<1>1. T \in Nat \ {0} /\ T - 1 \in Nat
  BY TicksIs
<1>2. q \in Nat /\ q * WheelSize <= T - 1 /\ T - 1 < q * WheelSize + WheelSize
  <2> HIDE DEF T
  <2> QED BY <1>1, WheelAssumption
<1>3. r \in 1..WheelSize /\ T = q * WheelSize + r
  <2> HIDE DEF T
  <2>1. q * WheelSize \in Nat
    BY <1>2, WheelAssumption
  <2> HIDE DEF q
  <2> QED BY <1>1, <1>2, <2>1, WheelAssumption
<1>4. cur \in Nat /\ cur < WheelSize
  BY WheelAssumption DEF Slots
<1>5. SlotOf(d) = IF cur + r < WheelSize THEN cur + r ELSE cur + r - WheelSize
  <2>1. SlotOf(d) = (cur + T) % WheelSize
    BY DEF SlotOf
  <2> HIDE DEF T, q, r
  <2>2. CASE cur + r < WheelSize
    <3>1. cur + T = q * WheelSize + (cur + r)
      BY <1>1, <1>2, <1>3, <1>4, WheelAssumption
    <3> QED BY <1>1, <1>2, <1>3, <1>4, <2>1, <2>2, <3>1, ModIs
  <2>3. CASE cur + r >= WheelSize
    <3>1. cur + T = (q + 1) * WheelSize + (cur + r - WheelSize)
      BY <1>1, <1>2, <1>3, <1>4, WheelAssumption
    <3>2. cur + r - WheelSize \in Nat /\ cur + r - WheelSize < WheelSize
      BY <1>3, <1>4, <2>3, WheelAssumption
    <3>3. SlotOf(d) = cur + r - WheelSize
      BY <1>1, <1>2, <1>4, <2>1, <3>1, <3>2, ModIs
    <3> QED BY <2>3, <3>3, <1>3, <1>4, WheelAssumption
  <2> QED BY <1>3, <1>4, <2>2, <2>3, WheelAssumption
<1>6. SlotOf(d) \in Slots /\ Ahead(SlotOf(d)) = r
  <2> HIDE DEF r
  <2> QED BY <1>3, <1>4, <1>5, WheelAssumption DEF Slots, Ahead
<1>7. Laps(q) + Beats(r) = Beats(T)
  <2> HIDE DEF q, r, T
  <2> QED BY <1>1, <1>2, <1>3, WheelAssumption DEF Laps, Beats
<1>8. T % WheelSize # 0 => SlotOf(d) # cur
  <2>1. ASSUME r = WheelSize PROVE T % WheelSize = 0
    <3> HIDE DEF q, r, T
    <3>1. T = (q + 1) * WheelSize + 0
      BY <1>1, <1>2, <1>3, <2>1, WheelAssumption
    <3> QED BY <3>1, <1>1, <1>2, ModIs, WheelAssumption
  <2> HIDE DEF q, r, T
  <2> QED BY <1>3, <1>4, <1>5, <2>1, WheelAssumption
<1> QED BY <1>2, <1>6, <1>7, <1>8 DEF Turns

-----------------------------------------------------------------------------
(* Lists.                                                                  *)

LEMMA ListIs ==
    ASSUME NEW l \in Seq(Timers)
    PROVE  /\ Len(l) \in Nat /\ \A i \in 1..Len(l) : l[i] \in Timers
           /\ l = <<>> <=> Len(l) = 0
  BY EmptySeq, ElementOfSeq, LenProperties

LEMMA AppendIs ==
    ASSUME NEW l \in Seq(Timers), NEW t \in Timers
    PROVE  /\ Append(l, t) \in Seq(Timers) /\ Len(Append(l, t)) = Len(l) + 1
           /\ \A i \in 1..Len(l) : Append(l, t)[i] = l[i]
           /\ Append(l, t)[Len(l) + 1] = t
  BY AppendProperties

LEMMA TailIs ==
    ASSUME NEW l \in Seq(Timers), l # <<>>
    PROVE  /\ Head(l) = l[1] /\ Tail(l) \in Seq(Timers) /\ Len(Tail(l)) = Len(l) - 1
           /\ \A i \in 1..(Len(l) - 1) : Tail(l)[i] = l[i + 1]
  BY HeadTailProperties

\* The list at cur without the element at the iterator.
LEMMA ErasedIs ==
    ASSUME TypeOK, pc = "visit"
    PROVE  /\ Erased \in [Slots -> Seq(Timers)]
           /\ \A s \in Slots \ {cur} : Erased[s] = wheel[s]
           /\ Len(Erased[cur]) = Len(wheel[cur]) - 1
           /\ \A i \in 1..(Len(wheel[cur]) - 1) :
                Erased[cur][i] = IF i < pos THEN wheel[cur][i] ELSE wheel[cur][i + 1]
<1> DEFINE l == wheel[cur]
<1> DEFINE e == [i \in 1..(Len(l) - 1) |-> IF i < pos THEN l[i] ELSE l[i + 1]]
<1>1. l \in Seq(Timers) /\ cur \in Slots /\ pos \in 1..Len(l)
  BY DEF TypeOK
<1>2. Len(l) \in Nat \ {0} /\ \A i \in 1..Len(l) : l[i] \in Timers
  BY <1>1, ListIs
<1>3. e \in Seq(Timers) /\ Len(e) = Len(l) - 1
  <2>1. Len(l) - 1 \in Nat
    BY <1>2
  <2>2. e \in [1..(Len(l) - 1) -> Timers]
    BY <1>2
  <2>3. e \in Seq(Timers)
    BY <2>1, <2>2, SeqDef
  <2> QED BY <2>1, <2>2, <2>3, LenProperties
<1>4. Erased = [wheel EXCEPT ![cur] = e]
  BY <1>1 DEF Erased
<1> HIDE DEF e
<1>5. Erased \in [Slots -> Seq(Timers)] /\ Erased[cur] = e
      /\ \A s \in Slots \ {cur} : Erased[s] = wheel[s]
  BY <1>1, <1>3, <1>4 DEF TypeOK
<1> QED BY <1>3, <1>5 DEF e

LEMMA InAppend ==
    ASSUME NEW l \in Seq(Timers), NEW u \in Timers, NEW t
    PROVE  In(t, Append(l, u)) <=> In(t, l) \/ t = u
<1>1. Len(l) \in Nat
  BY ListIs
<1>2. ASSUME In(t, l) PROVE In(t, Append(l, u))
  <2>1. PICK i \in 1..Len(l) : l[i] = t
    BY <1>2 DEF In
  <2> QED BY <1>1, <2>1, AppendIs DEF In
<1>3. In(u, Append(l, u))
  BY <1>1, AppendIs DEF In
<1>4. ASSUME In(t, Append(l, u)) PROVE In(t, l) \/ t = u
  <2>1. PICK i \in 1..(Len(l) + 1) : Append(l, u)[i] = t
    BY <1>4, AppendIs DEF In
  <2>2. i \in 1..Len(l) \/ i = Len(l) + 1
    BY <1>1
  <2> QED BY <2>1, <2>2, AppendIs DEF In
<1> QED BY <1>2, <1>3, <1>4

\* A timer that is nowhere joins a list of the wheel.
LEMMA Joins ==
    ASSUME NEW lists \in [Slots -> Seq(Timers)], NEW list, Apart(lists, list),
           NEW s \in Slots, NEW t \in Timers, ~In(t, list), ~Held(t, lists),
           NEW new, new[s] = Append(lists[s], t),
           \A r \in Slots \ {s} : new[r] = lists[r]
    PROVE  /\ Apart(new, list)
           /\ \A u : Held(u, new) <=> Held(u, lists) \/ u = t
<1>1. /\ lists[s] \in Seq(Timers) /\ Len(lists[s]) \in Nat
      /\ new[s] = Append(lists[s], t) /\ \A r \in Slots \ {s} : new[r] = lists[r]
  BY ListIs
<1>2. \A u : In(u, new[s]) <=> In(u, lists[s]) \/ u = t
  BY <1>1, InAppend
<1>3. \A u : Held(u, new) <=> Held(u, lists) \/ u = t
  BY <1>1, <1>2 DEF Held
<1>4. \A r \in Slots : \A i \in 1..Len(new[r]) :
        \/ i \in 1..Len(lists[r]) /\ new[r][i] = lists[r][i]
        \/ r = s /\ i = Len(lists[s]) + 1 /\ new[r][i] = t
  <2> TAKE r \in Slots
  <2> TAKE i \in 1..Len(new[r])
  <2>1. CASE r = s
    <3>1. i \in 1..Len(lists[s]) \/ i = Len(lists[s]) + 1
      BY <1>1, <2>1, AppendIs
    <3> QED BY <1>1, <2>1, <3>1, AppendIs
  <2>2. CASE r # s
    BY <1>1, <2>2
  <2> QED BY <2>1, <2>2
<1>5. \A r \in Slots : \A i \in 1..Len(lists[r]) : lists[r][i] # t
  BY DEF Held, In
<1>6. \A r \in Slots : \A i \in 1..Len(new[r]) : ~In(new[r][i], list)
  BY <1>4 DEF Apart
<1>7. \A q, r \in Slots : \A i \in 1..Len(new[q]) : \A j \in 1..Len(new[r]) :
        new[q][i] = new[r][j] => q = r /\ i = j
  BY <1>4, <1>5 DEF Apart
<1> QED BY <1>3, <1>6, <1>7 DEF Apart

\* It joins the fresh ones.
LEMMA Enters ==
    ASSUME NEW lists, NEW list \in Seq(Timers), Apart(lists, list),
           NEW t \in Timers, ~In(t, list), ~Held(t, lists)
    PROVE  Apart(lists, Append(list, t))
<1>1. Len(list) \in Nat
  BY ListIs
<1>2. \A i \in 1..Len(Append(list, t)) :
        \/ i \in 1..Len(list) /\ Append(list, t)[i] = list[i]
        \/ i = Len(list) + 1 /\ Append(list, t)[i] = t
  <2> TAKE i \in 1..Len(Append(list, t))
  <2>1. i \in 1..Len(list) \/ i = Len(list) + 1
    BY <1>1, AppendIs
  <2> QED BY <2>1, AppendIs
<1>3. \A i \in 1..Len(list) : list[i] # t
  BY DEF In
<1>4. \A s \in Slots : \A i \in 1..Len(lists[s]) : ~In(lists[s][i], Append(list, t))
  <2> TAKE s \in Slots
  <2> TAKE i \in 1..Len(lists[s])
  <2>1. ~In(lists[s][i], list) /\ lists[s][i] # t
    BY DEF Apart, Held, In
  <2> QED BY <2>1, InAppend
<1>5. \A i, j \in 1..Len(Append(list, t)) :
        Append(list, t)[i] = Append(list, t)[j] => i = j
  BY <1>2, <1>3 DEF Apart
<1> QED BY <1>4, <1>5 DEF Apart

\* The first of the fresh ones leaves them.
LEMMA Leaves ==
    ASSUME NEW lists, NEW list \in Seq(Timers), Apart(lists, list), list # <<>>
    PROVE  /\ Head(list) \in Timers /\ In(Head(list), list)
           /\ Apart(lists, Tail(list)) /\ ~Held(Head(list), lists)
           /\ \A u : In(u, Tail(list)) <=> In(u, list) /\ u # Head(list)
<1>1. Len(list) \in Nat \ {0} /\ list[1] \in Timers
  BY ListIs
<1>2. /\ Head(list) = list[1] /\ Len(Tail(list)) = Len(list) - 1
      /\ \A i \in 1..(Len(list) - 1) : Tail(list)[i] = list[i + 1]
  BY TailIs
<1>3. \A i \in 1..Len(Tail(list)) : i + 1 \in 1..Len(list) /\ Tail(list)[i] = list[i + 1]
  BY <1>1, <1>2
<1>4. ASSUME NEW u, In(u, Tail(list)) PROVE In(u, list) /\ u # Head(list)
  <2>1. PICK i \in 1..Len(Tail(list)) : Tail(list)[i] = u
    BY <1>4 DEF In
  <2>2. i + 1 \in 1..Len(list) /\ list[i + 1] = u /\ 1 \in 1..Len(list) /\ i + 1 # 1
    BY <1>1, <1>3, <2>1
  <2> QED BY <1>2, <2>2 DEF In, Apart
<1>5. ASSUME NEW u, In(u, list), u # Head(list) PROVE In(u, Tail(list))
  <2>1. PICK i \in 1..Len(list) : list[i] = u
    BY <1>5 DEF In
  <2>2. i - 1 \in 1..Len(Tail(list)) /\ (i - 1) + 1 = i
    BY <1>1, <1>2, <1>5, <2>1
  <2> QED BY <1>3, <2>1, <2>2 DEF In
<1>6. In(Head(list), list) /\ Head(list) \in Timers
  BY <1>1, <1>2 DEF In
<1>7. ~Held(Head(list), lists)
  BY <1>6 DEF Held, In, Apart
<1>8. \A i, j \in 1..Len(Tail(list)) : Tail(list)[i] = Tail(list)[j] => i = j
  <2> TAKE i, j \in 1..Len(Tail(list))
  <2>1. list[i + 1] = list[j + 1] => i + 1 = j + 1
    BY <1>3 DEF Apart
  <2> QED BY <1>1, <1>2, <1>3, <2>1
<1>9. \A s \in Slots : \A i \in 1..Len(lists[s]) : ~In(lists[s][i], Tail(list))
  BY <1>4 DEF Apart
<1> QED BY <1>4, <1>5, <1>6, <1>7, <1>8, <1>9 DEF Apart

\* Where the entries of Erased were, and what is left of the others.
From(s, i) == IF s = cur /\ i >= pos THEN i + 1 ELSE i

LEMMA ErasedFrom ==
    ASSUME TypeOK, Once, pc = "visit"
    PROVE  /\ \A s \in Slots : \A i \in 1..Len(Erased[s]) :
                /\ From(s, i) \in 1..Len(wheel[s])
                /\ Erased[s][i] = wheel[s][From(s, i)]
                /\ Erased[s][i] # Here
           /\ Apart(Erased, fresh)
           /\ ~In(Here, fresh) /\ Held(Here, wheel)
           /\ \A u : Held(u, Erased) <=> Held(u, wheel) /\ u # Here
<1>1. /\ cur \in Slots /\ wheel[cur] \in Seq(Timers) /\ Len(wheel[cur]) \in Nat
      /\ pos \in 1..Len(wheel[cur]) /\ Here = wheel[cur][pos]
  BY ListIs DEF TypeOK, Here
<1>2. /\ \A s \in Slots \ {cur} : Erased[s] = wheel[s]
      /\ Len(Erased[cur]) = Len(wheel[cur]) - 1
      /\ \A i \in 1..(Len(wheel[cur]) - 1) :
           Erased[cur][i] = IF i < pos THEN wheel[cur][i] ELSE wheel[cur][i + 1]
  BY ErasedIs
<1>3. ASSUME NEW s \in Slots, NEW i \in 1..Len(Erased[s])
      PROVE  /\ From(s, i) \in 1..Len(wheel[s])
             /\ Erased[s][i] = wheel[s][From(s, i)]
             /\ s = cur => From(s, i) # pos
  <2>1. CASE s = cur
    <3>1. i \in 1..(Len(wheel[cur]) - 1)
      BY <1>2, <2>1
    <3>2. Erased[s][i] = IF i < pos THEN wheel[cur][i] ELSE wheel[cur][i + 1]
      BY <1>2, <2>1, <3>1
    <3>3. CASE i < pos
      <4>1. From(s, i) = i
        BY <1>1, <3>1, <3>3 DEF From
      <4> QED BY <1>1, <2>1, <3>1, <3>2, <3>3, <4>1
    <3>4. CASE i >= pos
      <4>1. From(s, i) = i + 1
        BY <2>1, <3>4 DEF From
      <4> QED BY <1>1, <2>1, <3>1, <3>2, <3>4, <4>1
    <3> QED BY <1>1, <3>1, <3>3, <3>4
  <2>2. CASE s # cur
    BY <1>2, <1>3, <2>2 DEF From
  <2> QED BY <2>1, <2>2
<1>4. ASSUME NEW s \in Slots, NEW i \in 1..Len(Erased[s]) PROVE Erased[s][i] # Here
  <2>1. /\ From(s, i) \in 1..Len(wheel[s]) /\ Erased[s][i] = wheel[s][From(s, i)]
        /\ s = cur => From(s, i) # pos
    BY <1>3
  <2>2. wheel[s][From(s, i)] = wheel[cur][pos] => s = cur /\ From(s, i) = pos
    BY <1>1, <2>1 DEF Once, Apart
  <2> QED BY <1>1, <2>1, <2>2
<1>5. \A s \in Slots : \A i, j \in 1..Len(Erased[s]) : From(s, i) = From(s, j) => i = j
  BY <1>1 DEF From
<1>6. \A r, s \in Slots : \A i \in 1..Len(Erased[r]) : \A j \in 1..Len(Erased[s]) :
        Erased[r][i] = Erased[s][j] => r = s /\ i = j
  <2> TAKE r, s \in Slots
  <2> TAKE i \in 1..Len(Erased[r])
  <2> TAKE j \in 1..Len(Erased[s])
  <2>1. HAVE Erased[r][i] = Erased[s][j]
  <2>2. /\ From(r, i) \in 1..Len(wheel[r]) /\ From(s, j) \in 1..Len(wheel[s])
        /\ wheel[r][From(r, i)] = wheel[s][From(s, j)]
    BY <1>3, <2>1
  <2>3. r = s /\ From(r, i) = From(s, j)
    BY <2>2 DEF Once, Apart
  <2> QED BY <1>5, <2>3
<1>7. \A s \in Slots : \A i \in 1..Len(Erased[s]) : ~In(Erased[s][i], fresh)
  BY <1>3 DEF Once, Apart
<1>8. ~In(Here, fresh) /\ Held(Here, wheel)
  BY <1>1 DEF Once, Apart, Held, In
<1>9. ASSUME NEW u, Held(u, Erased) PROVE Held(u, wheel) /\ u # Here
  <2>1. PICK s \in Slots : \E i \in 1..Len(Erased[s]) : Erased[s][i] = u
    BY <1>9 DEF Held, In
  <2> QED BY <1>3, <1>4, <2>1 DEF Held, In
<1>10. ASSUME NEW u, Held(u, wheel), u # Here PROVE Held(u, Erased)
  <2>1. PICK s \in Slots : \E i \in 1..Len(wheel[s]) : wheel[s][i] = u
    BY <1>10 DEF Held, In
  <2>2. PICK i \in 1..Len(wheel[s]) : wheel[s][i] = u
    BY <2>1
  <2>3. CASE s = cur
    <3>1. CASE i < pos
      <4>1. i \in 1..(Len(wheel[cur]) - 1)
        BY <1>1, <2>3, <3>1
      <4>2. i \in 1..Len(Erased[s]) /\ Erased[s][i] = u
        BY <1>2, <2>2, <2>3, <3>1, <4>1
      <4> QED BY <4>2 DEF Held, In
    <3>2. CASE i > pos
      <4>1. i - 1 \in 1..(Len(wheel[cur]) - 1) /\ ~(i - 1 < pos) /\ (i - 1) + 1 = i
        BY <1>1, <2>3, <3>2
      <4>2. i - 1 \in 1..Len(Erased[s]) /\ Erased[s][i - 1] = u
        BY <1>2, <2>2, <2>3, <4>1
      <4> QED BY <4>2 DEF Held, In
    <3> QED BY <1>1, <1>10, <2>2, <2>3, <3>1, <3>2
  <2>4. CASE s # cur
    BY <1>2, <2>1, <2>4 DEF Held, In
  <2> QED BY <2>3, <2>4
<1>11. Apart(Erased, fresh)
  BY <1>6, <1>7 DEF Apart, Once
<1> HIDE DEF Erased, Here, From
<1> QED BY <1>3, <1>4, <1>8, <1>9, <1>10, <1>11

-----------------------------------------------------------------------------
(* Types.                                                                  *)

LEMMA Numbers ==
    ASSUME TypeOK
    PROVE  /\ cur \in Nat /\ WheelSize \in Nat /\ cur < WheelSize
           /\ Interval \in Nat \ {0} /\ since \in Nat /\ since <= Interval
           /\ \A s \in Slots : /\ Ahead(s) \in 1..WheelSize
                               /\ \A i : Distance(s, i) \in 0..WheelSize
           /\ Past \in 0..Interval /\ Elapsed \in 0..Interval
<1>1. /\ cur \in Nat /\ WheelSize \in Nat \ {0} /\ cur < WheelSize
      /\ Interval \in Nat \ {0} /\ since \in Nat /\ since <= Interval
  BY WheelAssumption DEF TypeOK, Slots
<1>2. \A s \in Slots : Ahead(s) \in 1..WheelSize
  BY <1>1 DEF Slots, Ahead
<1>3. \A s \in Slots : \A i : Distance(s, i) \in 0..WheelSize
  BY <1>1, <1>2 DEF Distance
<1>4. Past \in 0..Interval /\ Elapsed \in 0..Interval
  BY <1>1 DEF Past, Elapsed
<1> QED BY <1>1, <1>2, <1>3, <1>4

LEMMA HereIs ==
    ASSUME TypeOK, pc = "visit"
    PROVE  /\ cur \in Slots /\ wheel[cur] \in Seq(Timers) /\ Len(wheel[cur]) \in Nat
           /\ pos \in 1..Len(wheel[cur]) /\ Here \in Timers
  BY ListIs DEF TypeOK, Here

LEMMA VisitTyped ==
    ASSUME TypeOK, Clock, Visit PROVE TypeOK'
<1>1. pc = "visit"
  BY DEF Visit
<1>2. /\ cur \in Slots /\ wheel[cur] \in Seq(Timers) /\ Len(wheel[cur]) \in Nat
      /\ pos \in 1..Len(wheel[cur]) /\ Here \in Timers
  BY <1>1, HereIs
<1>3. /\ Erased \in [Slots -> Seq(Timers)] /\ Len(Erased[cur]) = Len(wheel[cur]) - 1
  BY <1>1, ErasedIs
<1>4. /\ UNCHANGED <<cur, fresh, interval, owned, gone, since>>
  BY DEF Visit
<1>5. CASE VisitDead \/ VisitOrphan \/ VisitOnce
  <2>1. wheel' = Erased /\ Proceed(0)
    BY <1>5 DEF VisitDead, VisitOrphan, VisitOnce
  <2>2. /\ pc' \in {"hold", "visit"} /\ pos' \in Nat
        /\ pc' = "visit" => pos' \in 1..Len(wheel'[cur])
    BY <1>1, <1>2, <1>3, <2>1 DEF Proceed
  <2>3. /\ level' = level /\ delay' = delay /\ armed' \subseteq armed
        /\ due' \in [Timers -> Int] /\ fired' \in Timers \cup {NoTimer}
    <3>1. due \in [Timers -> Int] /\ fired' \in Timers \cup {NoTimer}
      BY <1>2, <1>5 DEF TypeOK, VisitDead, VisitOrphan, VisitOnce
    <3>2. due' = due \/ due' = [due EXCEPT ![Here] = 0]
      BY <1>5 DEF VisitDead, VisitOrphan, VisitOnce
    <3>3. due' \in [Timers -> Int]
      BY <1>2, <3>1, <3>2
    <3>4. level' = level /\ delay' = delay /\ armed' \subseteq armed
      BY <1>5 DEF VisitDead, VisitOrphan, VisitOnce
    <3> QED BY <3>1, <3>3, <3>4
  <2> QED BY <1>3, <1>4, <2>1, <2>2, <2>3 DEF TypeOK
<1>6. CASE VisitLater
  <2>1. /\ pc' \in {"hold", "visit"} /\ pos' \in Nat
        /\ pc' = "visit" => pos' \in 1..Len(wheel[cur])
    BY <1>1, <1>2, <1>6 DEF VisitLater, Proceed
  <2>2. level' \in [Timers -> Nat]
    <3>1. level \in [Timers -> Nat] /\ level[Here] \in Nat \ {0}
      <4>1. level \in [Timers -> Nat] /\ level[Here] > 0
        BY <1>6 DEF TypeOK, VisitLater
      <4>2. level[Here] \in Nat
        BY <1>2, <4>1
      <4> QED BY <4>1, <4>2
    <3>2. level' = [level EXCEPT ![Here] = level[Here] - 1] /\ level[Here] - 1 \in Nat
      BY <1>6, <3>1 DEF VisitLater
    <3> QED BY <1>2, <3>1, <3>2
  <2> QED BY <1>4, <1>6, <2>1, <2>2 DEF TypeOK, VisitLater
<1>7. CASE VisitRepeat
  <2>1. interval[Here] \in Nat
    BY <1>2 DEF TypeOK
  <2>2. Turns(interval[Here]) \in Nat /\ SlotOf(interval[Here]) \in Slots
    BY <1>2, <2>1, AddIs
  <2>3. \A s \in Slots : Erased[s] \in Seq(Timers) /\ Len(Erased[s]) \in Nat
    BY <1>3, ListIs
  <2>4. \A s \in Slots : /\ Append(Erased[s], Here) \in Seq(Timers)
                         /\ Len(Append(Erased[s], Here)) = Len(Erased[s]) + 1
    BY <1>2, <2>3, AppendIs
  <2>5. /\ wheel' \in [Slots -> Seq(Timers)]
        /\ Len(wheel'[cur]) \in {Len(Erased[cur]), Len(Erased[cur]) + 1}
    BY <1>2, <1>3, <1>7, <2>2, <2>4 DEF VisitRepeat, Add
  <2>6. /\ level' \in [Timers -> Nat] /\ delay' \in [Timers -> Nat]
        /\ due' \in [Timers -> Int]
    <3>1. /\ level \in [Timers -> Nat] /\ delay \in [Timers -> Nat]
          /\ due \in [Timers -> Int]
      BY DEF TypeOK
    <3>2. /\ level' = [level EXCEPT ![Here] = Turns(interval[Here])]
          /\ due' = [due EXCEPT ![Here] = interval[Here]]
          /\ delay' = [delay EXCEPT ![Here] = interval[Here]]
      BY <1>7 DEF VisitRepeat, Add
    <3>3. level' \in [Timers -> Nat]
      BY <1>2, <2>2, <3>1, <3>2
    <3>4. due' \in [Timers -> Int]
      BY <1>2, <2>1, <3>1, <3>2
    <3>5. delay' \in [Timers -> Nat]
      BY <1>2, <2>1, <3>1, <3>2
    <3> QED BY <3>3, <3>4, <3>5
  <2>7. (pc' = "visit" => pos' \in 1..Len(wheel'[cur])) /\ pos' \in Nat
        /\ pc' \in {"hold", "visit"}
    <3>1. Proceed(0)
      BY <1>7 DEF VisitRepeat
    <3> QED BY <1>1, <1>2, <1>3, <2>5, <3>1 DEF Proceed
  <2> QED BY <1>2, <1>4, <1>7, <2>5, <2>6, <2>7 DEF TypeOK, VisitRepeat
<1> QED BY <1>5, <1>6, <1>7 DEF Visit

LEMMA TypeStep ==
    ASSUME TypeOK, Clock, [Next]_vars PROVE TypeOK'
<1>1. ASSUME NEW t \in Timers, NEW d \in Delays, NEW i \in Repeats, AddTimer(t, d, i)
      PROVE  TypeOK'
  <2>1. d \in Nat /\ i \in Nat /\ Append(fresh, t) \in Seq(Timers)
    BY WheelAssumption, AppendIs DEF TypeOK
  <2>2. /\ delay' = [delay EXCEPT ![t] = d] /\ interval' = [interval EXCEPT ![t] = i]
        /\ due' = [due EXCEPT ![t] = d]
    BY <1>1 DEF AddTimer
  <2>3. delay' \in [Timers -> Nat]
    BY <2>1, <2>2 DEF TypeOK
  <2>4. interval' \in [Timers -> Nat]
    BY <2>1, <2>2 DEF TypeOK
  <2>5. due' \in [Timers -> Int]
    BY <2>1, <2>2 DEF TypeOK
  <2>6. fresh' \in Seq(Timers) /\ UNCHANGED <<cur, wheel, level, gone, pc, pos, since>>
    BY <1>1, <2>1 DEF AddTimer
  <2>7. /\ owned' \subseteq Timers /\ armed' \subseteq owned'
        /\ fired' \in Timers \cup {NoTimer}
    BY <1>1 DEF TypeOK, AddTimer
  <2> QED BY <2>3, <2>4, <2>5, <2>6, <2>7 DEF TypeOK
<1>2. ASSUME NEW t \in Timers, DropTimer(t) PROVE TypeOK'
  BY <1>2 DEF TypeOK, DropTimer
<1>3. CASE RemoveService
  BY <1>3 DEF TypeOK, RemoveService, wheelVars
<1>4. CASE Millisecond
  BY <1>4, WheelAssumption DEF TypeOK, Millisecond, wheelVars, timerVars
<1>5. CASE TickBegins
  BY <1>5, WheelAssumption DEF TypeOK, TickBegins, wheelVars, timerVars
<1>6. CASE Adopt
  <2>1. fresh # <<>> /\ fresh \in Seq(Timers)
    BY <1>6 DEF Adopt, TypeOK
  <2>2. Tail(fresh) \in Seq(Timers) /\ Head(fresh) \in Timers
    BY <2>1, HeadTailProperties
  <2>3. delay[Head(fresh)] \in Nat
    BY <2>2 DEF TypeOK
  <2>4. /\ Turns(delay[Head(fresh)]) \in Nat
        /\ \A s \in Slots : Append(wheel[s], Head(fresh)) \in Seq(Timers)
    BY <2>2, <2>3, AddIs, AppendIs DEF TypeOK
  <2>5. wheel' \in [Slots -> Seq(Timers)] /\ level' \in [Timers -> Nat]
    <3>1. wheel \in [Slots -> Seq(Timers)] /\ level \in [Timers -> Nat]
      BY DEF TypeOK
    <3>2. \/ wheel' = wheel /\ level' = level
          \/ /\ wheel' = [wheel EXCEPT ![SlotOf(delay[Head(fresh)])] =
                              Append(wheel[SlotOf(delay[Head(fresh)])], Head(fresh))]
             /\ level' = [level EXCEPT ![Head(fresh)] = Turns(delay[Head(fresh)])]
      BY <1>6 DEF Adopt, Add
    <3>3. wheel' \in [Slots -> Seq(Timers)]
      <4>1. ASSUME NEW r, wheel' = [wheel EXCEPT ![r] = Append(wheel[r], Head(fresh))]
            PROVE  wheel' \in [Slots -> Seq(Timers)]
        BY <2>4, <3>1, <4>1
      <4> QED BY <3>1, <3>2, <4>1
    <3>4. level' \in [Timers -> Nat]
      <4>1. ASSUME NEW t \in Timers, NEW n \in Nat, level' = [level EXCEPT ![t] = n]
            PROVE  level' \in [Timers -> Nat]
        BY <3>1, <4>1
      <4> QED BY <2>2, <2>4, <3>1, <3>2, <4>1
    <3> QED BY <3>3, <3>4
  <2> QED BY <1>6, <2>2, <2>5 DEF TypeOK, Adopt, timerVars
<1>7. CASE Advance
  <2>1. cur' \in Slots
    BY <1>7, WheelAssumption DEF TypeOK, Advance, Slots
  <2>2. Len(wheel[cur']) \in Nat /\ (wheel[cur'] # <<>> => Len(wheel[cur']) # 0)
    BY <2>1, ListIs DEF TypeOK
  <2>3. /\ pc' \in {"hold", "visit"} /\ pos' \in Nat
        /\ pc' = "visit" => pos' \in 1..Len(wheel[cur'])
    BY <1>7, <2>2 DEF Advance
  <2> QED BY <1>7, <2>1, <2>3 DEF TypeOK, Advance, timerVars
<1>8. CASE Visit
  BY <1>8, VisitTyped
<1>9. CASE UNCHANGED vars
  BY <1>9 DEF TypeOK, vars, wheelVars, timerVars
<1> QED BY <1>1, <1>2, <1>3, <1>4, <1>5, <1>6, <1>7, <1>8, <1>9 DEF Next, TimeThread

-----------------------------------------------------------------------------
(* The parts of the invariant, one after the other.                        *)

LEMMA ClockStep ==
    ASSUME TypeOK, Clock, [Next]_vars PROVE Clock'
<1>1. ASSUME NEW t \in Timers, NEW d \in Delays, NEW i \in Repeats, AddTimer(t, d, i)
      PROVE  Clock'
  BY <1>1 DEF Clock, AddTimer
<1>2. ASSUME NEW t \in Timers, DropTimer(t) PROVE Clock'
  BY <1>2 DEF Clock, DropTimer
<1>3. CASE RemoveService
  BY <1>3 DEF Clock, RemoveService
<1>4. CASE Millisecond
  BY <1>4 DEF Clock, Millisecond, timerVars
<1>5. CASE TickBegins
  BY <1>5 DEF Clock, TickBegins, timerVars
<1>6. CASE Adopt
  BY <1>6 DEF Clock, Adopt, timerVars
<1>7. CASE Advance
  BY <1>7 DEF Clock, Advance, timerVars
<1>8. CASE Visit
  BY <1>8 DEF Clock, Visit
<1>9. CASE UNCHANGED vars
  BY <1>9 DEF Clock, vars, timerVars
<1> QED BY <1>1, <1>2, <1>3, <1>4, <1>5, <1>6, <1>7, <1>8, <1>9 DEF Next, TimeThread

\* What the steps do to the lists.
LEMMA AddTimerMoves ==
    ASSUME TypeOK, Once, NEW t \in Timers, NEW d, NEW i, AddTimer(t, d, i)
    PROVE  /\ Once'
           /\ \A u : In(u, fresh') <=> In(u, fresh) \/ u = t
           /\ wheel' = wheel /\ ~Held(t, wheel) /\ ~In(t, fresh)
<1>1. fresh' = Append(fresh, t) /\ wheel' = wheel /\ fresh \in Seq(Timers)
  BY DEF TypeOK, AddTimer
<1>2. ~Held(t, wheel) /\ ~In(t, fresh)
  BY DEF AddTimer, Known, Held
<1>3. Apart(wheel, Append(fresh, t))
  BY <1>1, <1>2, Enters DEF Once
<1>4. \A u : In(u, fresh') <=> In(u, fresh) \/ u = t
  BY <1>1, InAppend
<1> QED BY <1>1, <1>2, <1>3, <1>4 DEF Once

LEMMA AdoptMoves ==
    ASSUME TypeOK, Once, Adopt
    PROVE  /\ Once' /\ Head(fresh) \in Timers
           /\ In(Head(fresh), fresh) /\ ~Held(Head(fresh), wheel)
           /\ \A u : In(u, fresh') <=> In(u, fresh) /\ u # Head(fresh)
           /\ \A u : Held(u, wheel') <=> \/ Held(u, wheel)
                                         \/ u = Head(fresh) /\ u \in owned
<1> DEFINE t == Head(fresh)
<1>1. /\ fresh \in Seq(Timers) /\ fresh # <<>> /\ fresh' = Tail(fresh)
      /\ wheel \in [Slots -> Seq(Timers)]
  BY DEF TypeOK, Adopt
<1>2. /\ t \in Timers /\ In(t, fresh) /\ Apart(wheel, fresh') /\ ~Held(t, wheel)
      /\ \A u : In(u, fresh') <=> In(u, fresh) /\ u # t
  BY <1>1, Leaves DEF Once
<1>3. CASE t \in owned
  <2> DEFINE s == SlotOf(delay[t])
  <2>1. wheel' = [wheel EXCEPT ![s] = Append(wheel[s], t)]
    BY <1>3 DEF Adopt, Add
  <2>2. delay[t] \in Nat
    BY <1>2 DEF TypeOK
  <2>3. s \in Slots
    BY <2>2, AddIs DEF TypeOK
  <2>4. ~In(t, fresh')
    BY <1>2
  <2> HIDE DEF t, s
  <2>5. wheel'[s] = Append(wheel[s], t) /\ \A r \in Slots \ {s} : wheel'[r] = wheel[r]
    BY <1>1, <2>1, <2>3
  <2>6. Apart(wheel', fresh') /\ \A u : Held(u, wheel') <=> Held(u, wheel) \/ u = t
    BY <1>1, <1>2, <2>3, <2>4, <2>5, Joins, ZenonT(120)
  <2> QED BY <1>2, <1>3, <2>6 DEF t, Once
<1>4. CASE t \notin owned
  <2>1. wheel' = wheel
    BY <1>4 DEF Adopt
  <2> QED BY <1>2, <1>4, <2>1 DEF Once
<1> QED BY <1>3, <1>4

LEMMA VisitMoves ==
    ASSUME TypeOK, Once, Visit
    PROVE  /\ Once' /\ fresh' = fresh /\ ~In(Here, fresh) /\ Held(Here, wheel)
           /\ \A u : u # Here => (Held(u, wheel') <=> Held(u, wheel))
           /\ Held(Here, wheel') <=> VisitLater \/ VisitRepeat
<1>1. pc = "visit" /\ fresh' = fresh
  BY DEF Visit
<1>2. Here \in Timers /\ cur \in Slots
  BY <1>1, HereIs
<1>3. /\ Apart(Erased, fresh) /\ ~In(Here, fresh) /\ Held(Here, wheel)
      /\ \A u : Held(u, Erased) <=> Held(u, wheel) /\ u # Here
      /\ Erased \in [Slots -> Seq(Timers)]
  BY <1>1, ErasedFrom, ErasedIs
<1>4. CASE VisitDead \/ VisitOrphan \/ VisitOnce
  <2>1. wheel' = Erased /\ ~VisitLater /\ ~VisitRepeat
    BY <1>4 DEF VisitDead, VisitLater, VisitOrphan, VisitOnce, VisitRepeat
  <2> HIDE DEF Erased, Here
  <2> QED BY <1>1, <1>3, <2>1 DEF Once
<1>5. CASE VisitLater
  <2>1. wheel' = wheel
    BY <1>5 DEF VisitLater
  <2> HIDE DEF Here
  <2> QED BY <1>1, <1>3, <1>5, <2>1 DEF Once
<1>6. CASE VisitRepeat
  <2> DEFINE s == SlotOf(interval[Here])
  <2>1. wheel' = [Erased EXCEPT ![s] = Append(Erased[s], Here)]
    BY <1>6 DEF VisitRepeat, Add
  <2>2. interval[Here] \in Nat
    BY <1>2 DEF TypeOK
  <2>3. s \in Slots
    BY <1>2, <2>2, AddIs
  <2> HIDE DEF s, Erased, Here
  <2>4. /\ wheel'[s] = Append(Erased[s], Here)
        /\ \A r \in Slots \ {s} : wheel'[r] = Erased[r]
    BY <1>3, <2>1, <2>3
  <2>5. /\ Apart(wheel', fresh)
        /\ \A u : Held(u, wheel') <=> Held(u, Erased) \/ u = Here
    BY <1>2, <1>3, <2>3, <2>4, Joins, ZenonT(120)
  <2> QED BY <1>1, <1>3, <1>6, <2>5 DEF Once
<1> QED BY <1>4, <1>5, <1>6 DEF Visit

LEMMA OnceStep ==
    ASSUME TypeOK, Once, [Next]_vars PROVE Once'
<1>1. ASSUME wheel' = wheel, fresh' = fresh PROVE Once'
  BY <1>1 DEF Once
<1>2. CASE \E t \in Timers : DropTimer(t)
  BY <1>1, <1>2 DEF DropTimer
<1>3. CASE RemoveService \/ Millisecond \/ TickBegins \/ Advance \/ UNCHANGED vars
  BY <1>1, <1>3 DEF RemoveService, Millisecond, TickBegins, Advance, vars, wheelVars
<1> QED BY <1>2, <1>3, AddTimerMoves, AdoptMoves, VisitMoves DEF Next, TimeThread

LEMMA WantedStep ==
    ASSUME TypeOK, Once, Wanted, [Next]_vars PROVE Wanted'
<1>1. \A t : Known(t) <=> In(t, fresh) \/ Held(t, wheel)
  BY DEF Known, Held
<1>2. \A t : Known(t)' <=> In(t, fresh') \/ Held(t, wheel')
  BY DEF Known, Held
<1>3. ASSUME wheel' = wheel, fresh' = fresh, owned' = owned, armed' = armed
      PROVE  Wanted'
  BY <1>1, <1>2, <1>3 DEF Wanted
<1>4. ASSUME NEW t \in Timers, NEW d, NEW i, AddTimer(t, d, i) PROVE Wanted'
  <2>1. owned' = owned \cup {t} /\ armed' = armed \cup {t}
    BY <1>4 DEF AddTimer
  <2> QED BY <1>1, <1>2, <1>4, <2>1, AddTimerMoves DEF Wanted
<1>5. ASSUME NEW t \in Timers, DropTimer(t) PROVE Wanted'
  <2>1. /\ owned' = owned \ {t} /\ armed' = armed \ {t}
        /\ wheel' = wheel /\ fresh' = fresh
    BY <1>5 DEF DropTimer
  <2> QED BY <1>1, <1>2, <2>1 DEF Wanted
<1>6. CASE RemoveService \/ Millisecond \/ TickBegins \/ Advance \/ UNCHANGED vars
  BY <1>3, <1>6
     DEF RemoveService, Millisecond, TickBegins, Advance, vars, wheelVars, timerVars
<1>7. CASE Adopt
  <2>1. owned' = owned /\ armed' = armed
    BY <1>7 DEF Adopt, timerVars
  <2> QED BY <1>1, <1>2, <1>7, <2>1, AdoptMoves DEF Wanted
<1>8. CASE Visit
  <2>1. owned' = owned
    BY <1>8 DEF Visit
  <2>2. /\ VisitDead => Here \notin owned /\ armed' = armed
        /\ VisitLater \/ VisitRepeat => armed' = armed
        /\ VisitOrphan \/ VisitOnce =>
             armed' = armed \ {Here} /\ ~VisitLater /\ ~VisitRepeat
    BY DEF VisitDead, VisitLater, VisitOrphan, VisitOnce, VisitRepeat
  <2>3. VisitDead \/ VisitLater \/ VisitOrphan \/ VisitOnce \/ VisitRepeat
    BY <1>8 DEF Visit
  <2> HIDE DEF Here
  <2>4. /\ fresh' = fresh /\ ~In(Here, fresh) /\ Held(Here, wheel)
        /\ \A u : u # Here => (Held(u, wheel') <=> Held(u, wheel))
        /\ Held(Here, wheel') <=> VisitLater \/ VisitRepeat
    BY <1>8, VisitMoves
  <2> QED BY <1>1, <1>2, <2>1, <2>2, <2>3, <2>4 DEF Wanted
<1> QED BY <1>4, <1>5, <1>6, <1>7, <1>8 DEF Next, TimeThread

LEMMA AddedStep ==
    ASSUME TypeOK, Clock, Once, Wanted, Added, [Next]_vars PROVE Added'
<1>1. ASSUME NEW t \in Timers, NEW d \in Delays, NEW i, AddTimer(t, d, i) PROVE Added'
  <2>1. d \in Nat /\ Elapsed \in 0..Interval /\ Elapsed' = Elapsed
    BY <1>1, Numbers, WheelAssumption DEF AddTimer, Elapsed
  <2>2. /\ delay \in [Timers -> Nat] /\ due \in [Timers -> Int] /\ owned \subseteq Timers
        /\ delay' = [delay EXCEPT ![t] = d] /\ due' = [due EXCEPT ![t] = d]
        /\ owned' = owned \cup {t} /\ gone' = gone
    BY <1>1 DEF TypeOK, AddTimer
  <2>3. \A u : In(u, fresh') <=> In(u, fresh) \/ u = t
    BY <1>1, AddTimerMoves
  <2>4. due'[t] = d /\ delay'[t] = d /\ d \in (d - Elapsed)..d
    BY <2>1, <2>2, Numbers
  <2>5. \A u \in Timers \ {t} : due'[u] = due[u] /\ delay'[u] = delay[u]
    BY <2>2
  <2> QED BY <2>1, <2>2, <2>3, <2>4, <2>5 DEF Added
<1>2. ASSUME NEW t \in Timers, DropTimer(t) PROVE Added'
  <2>1. /\ owned' = owned \ {t} /\ owned \subseteq Timers /\ fresh' = fresh
        /\ gone' = gone /\ Elapsed' = Elapsed
    BY <1>2 DEF TypeOK, DropTimer, Elapsed
  <2>2. \A u \in Timers \ {t} : due'[u] = due[u] /\ delay'[u] = delay[u]
    BY <1>2 DEF TypeOK, DropTimer
  <2> QED BY <2>1, <2>2 DEF Added
<1>3. CASE RemoveService
  BY <1>3 DEF Added, RemoveService
<1>4. CASE Millisecond
  <2>1. /\ fresh' = fresh /\ owned' = owned /\ gone' = gone /\ delay' = delay
        /\ owned \subseteq Timers /\ Elapsed \in 0..Interval /\ Elapsed' = Elapsed + 1
    BY <1>4, Numbers DEF TypeOK, Millisecond, wheelVars, timerVars, Elapsed
  <2>2. \A u \in Timers : /\ due'[u] \in {due[u] - 1, due[u]} /\ due[u] \in Int
                          /\ delay[u] \in Nat
    BY <1>4 DEF TypeOK, Millisecond
  <2>3. ASSUME NEW u \in Timers, due[u] \in (delay[u] - Elapsed)..delay[u]
        PROVE  due'[u] \in (delay[u] - (Elapsed + 1))..delay[u]
    BY <2>1, <2>2, <2>3, WheelAssumption
  <2> QED BY <2>1, <2>3 DEF Added
<1>5. CASE TickBegins \/ UNCHANGED vars
  <2>1. Elapsed' = Elapsed
    BY <1>5 DEF TickBegins, vars, Elapsed
  <2> QED BY <1>5, <2>1 DEF Added, TickBegins, vars, wheelVars, timerVars
<1>6. CASE Adopt
  <2>1. /\ owned' = owned /\ gone' = gone /\ due' = due /\ delay' = delay
        /\ Elapsed' = Elapsed
    BY <1>6 DEF Adopt, timerVars, Elapsed
  <2> QED BY <1>6, <2>1, AdoptMoves DEF Added
<1>7. CASE Advance
  <2>1. fresh' = <<>> /\ Len(<<>>) = 0
    BY <1>7 DEF Advance
  <2>2. \A u : ~In(u, fresh')
    BY <2>1 DEF In
  <2> QED BY <2>2 DEF Added
<1>8. CASE Visit
  <2>1. fresh' = fresh /\ owned' = owned /\ gone' = gone /\ owned \subseteq Timers
    BY <1>8 DEF TypeOK, Visit
  <2>2. pc = "visit" /\ pc' \in {"visit", "hold"} /\ since' = since
    BY <1>8 DEF Visit, VisitDead, VisitLater, VisitOrphan, VisitOnce, VisitRepeat, Proceed
  <2>3. Elapsed' = Elapsed
    BY <2>2 DEF Elapsed
  <2>4. Here \in Timers /\ ~In(Here, fresh)
    BY <1>8, <2>2, HereIs, VisitMoves
  <2>5. \A u \in Timers \ {Here} : due'[u] = due[u] /\ delay'[u] = delay[u]
    BY <1>8, <2>4
       DEF TypeOK, Visit, VisitDead, VisitLater, VisitOrphan, VisitOnce, VisitRepeat
  <2> QED BY <2>1, <2>3, <2>4, <2>5 DEF Added
<1> QED BY <1>1, <1>2, <1>3, <1>4, <1>5, <1>6, <1>7, <1>8 DEF Next, TimeThread

-----------------------------------------------------------------------------
(* The two clocks.                                                         *)

LEMMA EntryIs ==
    ASSUME TypeOK, NEW s \in Slots, NEW i \in 1..Len(wheel[s])
    PROVE  /\ wheel[s][i] \in Timers /\ due[wheel[s][i]] \in Int
           /\ level[wheel[s][i]] \in Nat /\ Laps(level[wheel[s][i]]) \in Nat
           /\ Beats(Distance(s, i)) \in Nat /\ Wait(s, i) \in Int
           /\ Held(wheel[s][i], wheel) /\ Known(wheel[s][i])
<1>1. wheel[s] \in Seq(Timers)
  BY DEF TypeOK
<1>2. wheel[s][i] \in Timers
  BY <1>1, ListIs
<1>3. due[wheel[s][i]] \in Int /\ level[wheel[s][i]] \in Nat
  BY <1>2 DEF TypeOK
<1>4. Laps(level[wheel[s][i]]) \in Nat
  BY <1>3, LapsIs
<1>5. Distance(s, i) \in Nat /\ Past \in Int
  BY Numbers
<1>6. Beats(Distance(s, i)) \in Nat
  BY <1>5, BeatsIs
<1>7. Held(wheel[s][i], wheel) /\ Known(wheel[s][i])
  BY DEF Held, Known, In
<1> QED BY <1>2, <1>3, <1>4, <1>5, <1>6, <1>7 DEF Wait

\* A timer put into the wheel with delay d, when due differs from d by no more
\* than what is over of the tick.
LEMMA AddedOnCourse ==
    ASSUME NEW d \in Nat, NEW k \in Nat,
           NEW wait \in Int, NEW left \in Int, NEW past \in Int,
           k = Beats(Ticks(d)), wait = k - past, past \in 0..Interval,
           left \in (d - past)..d
    PROVE  left - wait \in -Interval..Interval
<1>1. d <= k /\ k <= d + Interval
  BY TicksIs
<1> QED BY <1>1, WheelAssumption

LEMMA AdoptOnCourse ==
    ASSUME TypeOK, Once, Added, OnCourse, Adopt PROVE OnCourse'
<1> DEFINE t == Head(fresh)
<1>1. /\ t \in Timers /\ In(t, fresh) /\ ~Held(t, wheel)
  BY AdoptMoves
<1>2. /\ pc = "adopt" /\ pc' = pc /\ cur' = cur /\ pos' = pos /\ since' = since
      /\ due' = due /\ owned' = owned /\ gone' = gone
  BY DEF Adopt, timerVars
<1>3. \A s, i : Distance(s, i)' = Distance(s, i) /\ Distance(s, i) = Ahead(s)
  BY <1>2 DEF Distance, Ahead
<1>4. Past' = Interval /\ Past = Interval /\ Elapsed = Interval
  BY <1>2 DEF Past, Elapsed
<1>5. CASE t \notin owned
  <2>1. wheel' = wheel /\ level' = level
    BY <1>5 DEF Adopt
  <2>2. \A s, i : Wait(s, i)' = Wait(s, i)
    BY <1>3, <1>4, <2>1 DEF Wait
  <2> QED BY <1>2, <2>1, <2>2 DEF OnCourse
<1>6. CASE t \in owned
  <2> DEFINE d == delay[t]
  <2> DEFINE r == SlotOf(d)
  <2>1. d \in Nat /\ due[t] \in Int /\ cur \in Slots
    BY <1>1 DEF TypeOK
  <2>2. /\ Turns(d) \in Nat /\ r \in Slots
        /\ Laps(Turns(d)) + Beats(Ahead(r)) = Beats(Ticks(d))
    BY <2>1, AddIs
  <2>3. /\ wheel \in [Slots -> Seq(Timers)] /\ level \in [Timers -> Nat]
        /\ wheel' = [wheel EXCEPT ![r] = Append(wheel[r], t)]
        /\ level' = [level EXCEPT ![t] = Turns(d)]
    BY <1>6 DEF TypeOK, Adopt, Add
  <2>4. /\ wheel'[r] = Append(wheel[r], t) /\ wheel[r] \in Seq(Timers)
        /\ \A s \in Slots \ {r} : wheel'[s] = wheel[s]
        /\ level'[t] = Turns(d) /\ \A u \in Timers \ {t} : level'[u] = level[u]
    BY <1>1, <2>2, <2>3
  <2> SUFFICES ASSUME ~gone, NEW s \in Slots, NEW i \in 1..Len(wheel'[s]),
                      wheel'[s][i] \in owned
               PROVE  due[wheel'[s][i]] - Wait(s, i)' \in -Interval..Interval
    BY <1>2 DEF OnCourse
  <2>5. \/ i \in 1..Len(wheel[s]) /\ wheel'[s][i] = wheel[s][i]
        \/ s = r /\ i = Len(wheel[r]) + 1 /\ wheel'[s][i] = t
    <3> HIDE DEF t, r
    <3>1. CASE s = r
      <4>1. Len(wheel[r]) \in Nat /\ Len(wheel'[s]) = Len(wheel[r]) + 1
        BY <1>1, <2>4, <3>1, ListIs, AppendIs
      <4>2. i \in 1..Len(wheel[r]) \/ i = Len(wheel[r]) + 1
        BY <4>1
      <4> QED BY <1>1, <2>4, <3>1, <4>2, AppendIs
    <3>2. CASE s # r
      BY <2>4, <3>2
    <3> QED BY <3>1, <3>2
  <2>6. CASE i \in 1..Len(wheel[s]) /\ wheel'[s][i] = wheel[s][i]
    <3>1. wheel[s][i] \in Timers \ {t}
      BY <1>1, <2>6, EntryIs
    <3>2. Wait(s, i)' = Wait(s, i)
      BY <1>3, <1>4, <2>4, <2>6, <3>1 DEF Wait
    <3> QED BY <2>6, <3>2 DEF OnCourse
  <2>7. CASE s = r /\ wheel'[s][i] = t
    <3> DEFINE k == Beats(Ticks(d))
    <3>1. k \in Nat
      BY <2>1, TicksIs, BeatsIs
    <3>2. Wait(s, i)' = Laps(Turns(d)) + Beats(Ahead(r)) - Interval
      BY <1>3, <1>4, <2>4, <2>7 DEF Wait
    <3>3. Laps(Turns(d)) \in Nat /\ Beats(Ahead(r)) \in Nat
      <4>1. Ahead(r) \in Nat
        BY <2>2, Numbers
      <4> QED BY <2>2, <4>1, LapsIs, BeatsIs
    <3>4. Wait(s, i)' = k - Interval
      <4> HIDE DEF d, r
      <4> QED BY <2>2, <3>2, <3>3, WheelAssumption
    <3>5. due[t] \in (d - Interval)..d
      BY <1>1, <1>4, <1>6 DEF Added
    <3> HIDE DEF k, d
    <3>6. Interval \in Int /\ Wait(s, i)' \in Int /\ Interval \in 0..Interval
      BY <3>1, <3>4, WheelAssumption
    <3> QED BY <2>1, <2>7, <3>1, <3>4, <3>5, <3>6, AddedOnCourse DEF k
  <2> QED BY <2>5, <2>6, <2>7
<1> QED BY <1>5, <1>6

LEMMA AdvanceOnCourse ==
    ASSUME TypeOK, Clock, OnCourse, Advance PROVE OnCourse'
<1>1. /\ wheel' = wheel /\ level' = level /\ due' = due /\ owned' = owned /\ gone' = gone
      /\ pc = "adopt" /\ since' = since /\ since = 0
  BY DEF Advance, Clock, timerVars
<1>2. cur \in Slots /\ cur' = (cur + 1) % WheelSize
  BY DEF Advance, TypeOK
<1>3. cur' = IF cur + 1 = WheelSize THEN 0 ELSE cur + 1
  BY <1>2, WheelAssumption DEF Slots
<1>4. Past = Interval /\ Past' = 0
  <2>1. pc' \in {"hold", "visit"}
    BY DEF Advance
  <2> QED BY <1>1, <2>1 DEF Past
<1>5. ASSUME NEW s \in Slots, NEW i \in 1..Len(wheel[s])
      PROVE  Distance(s, i) = Distance(s, i)' + 1 /\ Distance(s, i)' \in Nat
  <2>1. Distance(s, i) = Ahead(s)
    BY <1>1 DEF Distance
  <2>2. CASE s = cur'
    <3>1. Ahead(s) = 1
      BY <1>2, <1>3, <2>2, WheelAssumption DEF Ahead, Slots
    <3>2. wheel[s] # <<>>
      BY <1>5, ListIs DEF TypeOK
    <3>3. pc' = "visit" /\ pos' = 1
      BY <2>2, <3>2 DEF Advance
    <3> QED BY <2>1, <2>2, <3>1, <3>3 DEF Distance
  <2>3. CASE s # cur'
    <3>1. Ahead(s)' = Ahead(s) - 1 /\ Ahead(s) - 1 \in Nat /\ Ahead(s) \in Nat
      BY <1>2, <1>3, <2>3, WheelAssumption DEF Ahead, Slots
    <3>2. Distance(s, i)' = Ahead(s)'
      BY <2>3 DEF Distance
    <3> QED BY <2>1, <3>1, <3>2
  <2> QED BY <2>2, <2>3
<1>6. ASSUME NEW s \in Slots, NEW i \in 1..Len(wheel[s]) PROVE Wait(s, i)' = Wait(s, i)
  <2>1. Beats(Distance(s, i)) = Beats(Distance(s, i)') + Interval
        /\ Beats(Distance(s, i)') \in Nat
    BY <1>5, BeatsIs
  <2>2. Laps(level[wheel[s][i]]) \in Nat /\ Interval \in Nat
    BY EntryIs, WheelAssumption
  <2> QED BY <1>1, <1>4, <2>1, <2>2 DEF Wait
<1> QED BY <1>1, <1>6 DEF OnCourse

\* While a slot is visited: an entry that stays, and stays as it is.
LEMMA StaysOnCourse ==
    ASSUME TypeOK, OnCourse, ~gone, NEW s \in Slots, NEW i, NEW j \in 1..Len(wheel[s]),
           wheel'[s][i] = wheel[s][j], wheel[s][j] \in owned,
           level'[wheel[s][j]] = level[wheel[s][j]], due'[wheel[s][j]] = due[wheel[s][j]],
           Distance(s, i)' = Distance(s, j), Past' = Past
    PROVE  due'[wheel'[s][i]] - Wait(s, i)' \in -Interval..Interval
<1>1. Wait(s, i)' = Wait(s, j)
  BY DEF Wait
<1> QED BY <1>1 DEF OnCourse

LEMMA VisitIs ==
    ASSUME TypeOK, Clock, Visit
    PROVE  /\ pc = "visit" /\ cur' = cur /\ owned' = owned /\ gone' = gone
           /\ Past = 0 /\ Past' = 0
           /\ \A s \in Slots \ {cur} : \A i :
                Distance(s, i) = Ahead(s) /\ Distance(s, i)' = Ahead(s)
<1>1. /\ pc = "visit" /\ cur' = cur /\ owned' = owned /\ gone' = gone
      /\ since' = since /\ since = 0
  BY DEF Visit, Clock
<1>2. pc' \in {"visit", "hold"}
  BY <1>1 DEF Visit, VisitDead, VisitLater, VisitOrphan, VisitOnce, VisitRepeat, Proceed
<1>3. Past = 0 /\ Past' = 0
  BY <1>1, <1>2 DEF Past
<1>4. \A s \in Slots \ {cur} : \A i :
        Distance(s, i) = Ahead(s) /\ Distance(s, i)' = Ahead(s)
  BY <1>1 DEF Distance, Ahead
<1> QED BY <1>1, <1>3, <1>4

\* The distances when the element at the iterator is erased.
LEMMA ErasedDistance ==
    ASSUME TypeOK, Visit, Once, Proceed(0), NEW s \in Slots, NEW i \in 1..Len(Erased[s])
    PROVE  Distance(s, i)' = Distance(s, From(s, i))
<1>1. pc = "visit" /\ cur' = cur
  BY DEF Visit
<1>2. /\ cur \in Slots /\ Len(wheel[cur]) \in Nat /\ pos \in 1..Len(wheel[cur])
      /\ Len(Erased[cur]) = Len(wheel[cur]) - 1
  BY <1>1, HereIs, ErasedIs
<1>3. CASE s # cur
  BY <1>1, <1>3 DEF Distance, Ahead, From
<1>4. CASE s = cur
  <2>1. i \in Nat /\ i < Len(wheel[cur])
    BY <1>2, <1>4
  <2>2. CASE pos = Len(wheel[cur])
    BY <1>1, <1>2, <1>4, <2>1, <2>2 DEF Proceed, Distance, Ahead, From
  <2>3. CASE pos # Len(wheel[cur])
    BY <1>1, <1>2, <1>4, <2>1, <2>3 DEF Proceed, Distance, Ahead, From
  <2> QED BY <2>2, <2>3
<1> QED BY <1>3, <1>4

LEMMA VisitOnCourse ==
    ASSUME TypeOK, Clock, Once, OnCourse, NoWholeTurn, Visit PROVE OnCourse'
<1>1. /\ pc = "visit" /\ cur' = cur /\ owned' = owned /\ gone' = gone
      /\ Past = 0 /\ Past' = 0
      /\ \A s \in Slots \ {cur} : \A i :
           Distance(s, i) = Ahead(s) /\ Distance(s, i)' = Ahead(s)
  BY VisitIs
<1>2. /\ cur \in Slots /\ wheel[cur] \in Seq(Timers) /\ Len(wheel[cur]) \in Nat
      /\ pos \in 1..Len(wheel[cur]) /\ Here \in Timers
  BY <1>1, HereIs
<1>3. /\ \A s \in Slots : \A i \in 1..Len(Erased[s]) :
           /\ From(s, i) \in 1..Len(wheel[s])
           /\ Erased[s][i] = wheel[s][From(s, i)]
           /\ Erased[s][i] # Here
      /\ Erased \in [Slots -> Seq(Timers)]
  BY <1>1, ErasedFrom, ErasedIs
<1>4. level \in [Timers -> Nat] /\ due \in [Timers -> Int] /\ interval \in [Timers -> Nat]
      /\ owned \subseteq Timers
  BY DEF TypeOK
\* What was in Erased is on course afterwards.
<1>5. ASSUME ~gone, Proceed(0), NEW s \in Slots, NEW i \in 1..Len(Erased[s]),
             wheel'[s][i] = Erased[s][i], Erased[s][i] \in owned,
             \A u \in Timers \ {Here} : level'[u] = level[u] /\ due'[u] = due[u]
      PROVE  due'[wheel'[s][i]] - Wait(s, i)' \in -Interval..Interval
  <2>1. Distance(s, i)' = Distance(s, From(s, i))
    BY <1>5, ErasedDistance
  <2>2. /\ From(s, i) \in 1..Len(wheel[s]) /\ wheel'[s][i] = wheel[s][From(s, i)]
        /\ wheel[s][From(s, i)] \in owned /\ wheel[s][From(s, i)] \in Timers \ {Here}
    BY <1>3, <1>4, <1>5
  <2> DEFINE j == From(s, i)
  <2>3. /\ level'[wheel[s][j]] = level[wheel[s][j]]
        /\ due'[wheel[s][j]] = due[wheel[s][j]]
    BY <1>5, <2>2
  <2> HIDE DEF j
  <2>4. Past' = Past
    BY <1>1
  <2> QED BY <1>5, <2>1, <2>2, <2>3, <2>4, StaysOnCourse DEF j
<1>6. CASE VisitDead \/ VisitOrphan \/ VisitOnce
  <2>1. /\ wheel' = Erased /\ Proceed(0)
        /\ \A u \in Timers \ {Here} : level'[u] = level[u] /\ due'[u] = due[u]
    BY <1>2, <1>4, <1>6 DEF VisitDead, VisitOrphan, VisitOnce
  <2> QED BY <1>1, <1>5, <2>1 DEF OnCourse
<1>7. CASE VisitLater
  <2>1. wheel' = wheel /\ due' = due /\ level[Here] > 0 /\ Proceed(1)
        /\ level' = [level EXCEPT ![Here] = level[Here] - 1]
    BY <1>7 DEF VisitLater
  <2>2. level[Here] \in Nat
    BY <1>2, <1>4
  <2>3. /\ level'[Here] = level[Here] - 1 /\ level[Here] - 1 \in Nat
        /\ \A u \in Timers \ {Here} : level'[u] = level[u]
    <3> HIDE DEF Here
    <3>1. level[Here] - 1 \in Nat
      BY <2>1, <2>2
    <3> QED BY <1>2, <1>4, <2>1, <3>1
  <2> SUFFICES ASSUME ~gone, NEW s \in Slots, NEW i \in 1..Len(wheel[s]),
                      wheel[s][i] \in owned
               PROVE  due'[wheel'[s][i]] - Wait(s, i)' \in -Interval..Interval
    BY <1>1, <2>1 DEF OnCourse
  <2>4. CASE s = cur /\ i = pos
    <3>1. wheel[s][i] = Here
      BY <2>4 DEF Here
    <3>2. Distance(s, i) = 0 /\ Ahead(s) = WheelSize
      BY <1>1, <1>2, <2>4, Numbers DEF Distance, Ahead
    <3>3. Distance(s, i)' = WheelSize
      BY <1>1, <1>2, <2>1, <2>4, <3>2 DEF Distance, Proceed, Ahead
    <3>4. Laps(level[Here]) = Laps(level'[Here]) + Beats(WheelSize) /\ Beats(0) = 0
      <4> DEFINE k == level[Here] - 1
      <4>1. k \in Nat /\ k + 1 = level[Here] /\ level'[Here] = k
        BY <2>2, <2>3
      <4> HIDE DEF k
      <4> QED BY <4>1, LapsIs, BeatsIs
    <3>5. /\ Laps(level[Here]) \in Nat /\ Laps(level'[Here]) \in Nat
          /\ Beats(WheelSize) \in Nat
      BY <2>2, <2>3, LapsIs, BeatsIs, WheelAssumption
    <3>6. Wait(s, i)' = Wait(s, i)
      <4>1. /\ Wait(s, i) = Laps(level[Here]) + Beats(0) - 0
            /\ Wait(s, i)' = Laps(level'[Here]) + Beats(WheelSize) - 0
        BY <1>1, <2>1, <3>1, <3>2, <3>3 DEF Wait
      <4> HIDE DEF Here
      <4> QED BY <3>4, <3>5, <4>1
    <3> QED BY <2>1, <3>6 DEF OnCourse
  <2>5. CASE ~(s = cur /\ i = pos)
    <3>1. wheel[s][i] \in Timers \ {Here}
      BY <1>2, <2>5, EntryIs DEF Once, Apart, Here
    <3>2. Distance(s, i)' = Distance(s, i)
      <4>1. CASE s = cur
        BY <1>1, <1>2, <2>1, <2>5, <4>1 DEF Distance, Proceed, Ahead
      <4> QED BY <1>1, <4>1
    <3> QED BY <1>1, <2>1, <2>3, <3>1, <3>2, StaysOnCourse
  <2> QED BY <2>4, <2>5
<1>8. CASE VisitRepeat
  <2> DEFINE d == interval[Here]
  <2> DEFINE r == SlotOf(d)
  <2>1. d \in Nat \ {0} /\ d \in Repeats
    BY <1>2, <1>4, <1>8 DEF VisitRepeat, Clock
  <2>2. /\ Turns(d) \in Nat /\ r \in Slots /\ r # cur
        /\ Laps(Turns(d)) + Beats(Ahead(r)) = Beats(Ticks(d))
    <3>1. Ticks(d) % WheelSize # 0
      BY <2>1 DEF NoWholeTurn
    <3> HIDE DEF d
    <3> QED BY <1>2, <2>1, <3>1, AddIs
  <2>3. /\ wheel' = [Erased EXCEPT ![r] = Append(Erased[r], Here)] /\ Proceed(0)
        /\ level' = [level EXCEPT ![Here] = Turns(d)]
        /\ due' = [due EXCEPT ![Here] = d]
    BY <1>8 DEF VisitRepeat, Add
  <2> HIDE DEF d, r, Erased, Here
  <2>4. /\ wheel'[r] = Append(Erased[r], Here) /\ Erased[r] \in Seq(Timers)
        /\ \A s \in Slots \ {r} : wheel'[s] = Erased[s]
        /\ level'[Here] = Turns(d) /\ due'[Here] = d
        /\ \A u \in Timers \ {Here} : level'[u] = level[u] /\ due'[u] = due[u]
    BY <1>2, <1>3, <1>4, <2>1, <2>2, <2>3
  <2> SUFFICES ASSUME ~gone, NEW s \in Slots, NEW i \in 1..Len(wheel'[s]),
                      wheel'[s][i] \in owned
               PROVE  due'[wheel'[s][i]] - Wait(s, i)' \in -Interval..Interval
    BY <1>1 DEF OnCourse
  <2>5. \/ i \in 1..Len(Erased[s]) /\ wheel'[s][i] = Erased[s][i]
        \/ s = r /\ wheel'[s][i] = Here
    <3>1. CASE s = r
      <4>1. Len(Erased[r]) \in Nat /\ Len(wheel'[s]) = Len(Erased[r]) + 1
        BY <1>2, <2>4, <3>1, ListIs, AppendIs
      <4>2. i \in 1..Len(Erased[r]) \/ i = Len(Erased[r]) + 1
        BY <4>1
      <4>3. /\ \A j \in 1..Len(Erased[r]) : wheel'[r][j] = Erased[r][j]
            /\ wheel'[r][Len(Erased[r]) + 1] = Here
        BY <1>2, <2>4, AppendIs
      <4> QED BY <3>1, <4>2, <4>3
    <3> QED BY <2>4, <3>1
  <2>6. CASE i \in 1..Len(Erased[s]) /\ wheel'[s][i] = Erased[s][i]
    BY <1>5, <2>3, <2>4, <2>6
  <2>7. CASE s = r /\ wheel'[s][i] = Here
    <3>1. Beats(Ticks(d)) \in Nat /\ Laps(Turns(d)) \in Nat /\ Beats(Ahead(r)) \in Nat
      <4>1. Ahead(r) \in Nat
        BY <2>2, Numbers
      <4> QED BY <2>1, <2>2, <4>1, TicksIs, LapsIs, BeatsIs
    <3>2. Wait(s, i)' = Laps(Turns(d)) + Beats(Ahead(r)) - 0
      BY <1>1, <2>2, <2>4, <2>7 DEF Wait
    <3>3. Wait(s, i)' = Beats(Ticks(d)) - 0
      BY <2>2, <3>1, <3>2
    <3>4. 0 \in 0..Interval /\ d \in (d - 0)..d /\ d \in Int /\ Wait(s, i)' \in Int
      BY <2>1, <3>1, <3>3, WheelAssumption
    <3> DEFINE k == Beats(Ticks(d))
    <3>5. k \in Nat /\ Wait(s, i)' = k - 0
      BY <3>1, <3>3
    <3>6. d - Wait(s, i)' \in -Interval..Interval
      <4>1. 0 \in Int /\ d \in Nat
        BY <2>1
      <4>2. k = Beats(Ticks(d))
        OBVIOUS
      <4> HIDE DEF k
      <4> QED BY <3>4, <3>5, <4>1, <4>2, AddedOnCourse
    <3> QED BY <2>4, <2>7, <3>6
  <2> QED BY <2>5, <2>6, <2>7
<1> QED BY <1>6, <1>7, <1>8 DEF Visit

LEMMA OnCourseStep ==
    ASSUME TypeOK, Clock, Once, Wanted, Added, OnCourse, NoWholeTurn, [Next]_vars
    PROVE  OnCourse'
<1>1. ASSUME NEW t \in Timers, NEW d \in Delays, NEW i \in Repeats, AddTimer(t, d, i)
      PROVE  OnCourse'
  <2>1. /\ wheel' = wheel /\ level' = level /\ gone' = gone /\ owned' = owned \cup {t}
        /\ cur' = cur /\ pc' = pc /\ pos' = pos /\ since' = since
        /\ \A u \in Timers \ {t} : due'[u] = due[u]
    BY <1>1 DEF TypeOK, AddTimer
  <2>2. \A s, j : Wait(s, j)' = Wait(s, j)
    BY <2>1 DEF Wait, Distance, Ahead, Past
  <2>3. \A s \in Slots : \A j \in 1..Len(wheel[s]) : wheel[s][j] \in Timers \ {t}
    BY <1>1, AddTimerMoves, EntryIs
  <2> QED BY <2>1, <2>2, <2>3 DEF OnCourse
<1>2. ASSUME NEW t \in Timers, DropTimer(t) PROVE OnCourse'
  <2>1. /\ wheel' = wheel /\ gone' = gone /\ owned' = owned \ {t}
        /\ cur' = cur /\ pc' = pc /\ pos' = pos /\ since' = since
        /\ \A u \in Timers \ {t} : due'[u] = due[u] /\ level'[u] = level[u]
    BY <1>2 DEF TypeOK, DropTimer
  <2>2. ASSUME NEW s \in Slots, NEW j \in 1..Len(wheel[s]), wheel[s][j] # t
        PROVE  Wait(s, j)' = Wait(s, j) /\ due'[wheel[s][j]] = due[wheel[s][j]]
    <3>1. wheel[s][j] \in Timers \ {t}
      BY <2>2, EntryIs
    <3> QED BY <2>1, <3>1 DEF Wait, Distance, Ahead, Past
  <2> QED BY <2>1, <2>2 DEF OnCourse
<1>3. CASE RemoveService
  BY <1>3 DEF OnCourse, RemoveService
<1>4. CASE Millisecond
  <2>1. /\ wheel' = wheel /\ level' = level /\ gone' = gone /\ owned' = owned
        /\ cur' = cur /\ pc' = pc /\ pos' = pos /\ pc = "hold" /\ since' = since + 1
    BY <1>4 DEF Millisecond, wheelVars, timerVars
  <2>2. \A s, j : Distance(s, j)' = Distance(s, j)
    BY <2>1 DEF Distance, Ahead
  <2>3. Past' = Past + 1
    BY <2>1 DEF Past
  <2>4. ASSUME ~gone, NEW s \in Slots, NEW j \in 1..Len(wheel[s]), wheel[s][j] \in owned
        PROVE  due'[wheel[s][j]] - Wait(s, j)' = due[wheel[s][j]] - Wait(s, j)
    <3> DEFINE u == wheel[s][j]
    <3>1. /\ u \in Timers /\ due[u] \in Int /\ Laps(level[u]) \in Nat /\ Known(u)
          /\ Beats(Distance(s, j)) \in Nat /\ Past \in Int
      BY EntryIs, Numbers
    <3>2. u \in armed
      BY <2>4, <3>1 DEF Wanted
    <3>3. due'[u] = due[u] - 1
      BY <1>4, <2>4, <3>1, <3>2 DEF Millisecond
    <3>4. Wait(s, j) = Laps(level[u]) + Beats(Distance(s, j)) - Past
          /\ Wait(s, j)' = Laps(level[u]) + Beats(Distance(s, j)) - (Past + 1)
      BY <2>1, <2>2, <2>3 DEF Wait
    <3> HIDE DEF u
    <3>5. due'[u] - Wait(s, j)' = due[u] - Wait(s, j)
      BY <3>1, <3>3, <3>4
    <3> QED BY <3>5 DEF u
  <2> QED BY <2>1, <2>4 DEF OnCourse
<1>5. CASE TickBegins
  <2>1. /\ wheel' = wheel /\ level' = level /\ gone' = gone /\ owned' = owned
        /\ cur' = cur /\ due' = due /\ pc = "hold" /\ pc' = "adopt" /\ since = Interval
    BY <1>5 DEF TickBegins, wheelVars, timerVars
  <2>2. \A s, j : Wait(s, j)' = Wait(s, j)
    BY <2>1 DEF Wait, Distance, Ahead, Past
  <2> QED BY <2>1, <2>2 DEF OnCourse
<1>6. CASE Adopt
  BY <1>6, AdoptOnCourse
<1>7. CASE Advance
  BY <1>7, AdvanceOnCourse
<1>8. CASE Visit
  BY <1>8, VisitOnCourse
<1>9. CASE UNCHANGED vars
  BY <1>9 DEF OnCourse, Wait, Distance, Ahead, Past, vars, wheelVars, timerVars
<1> QED BY <1>1, <1>2, <1>3, <1>4, <1>5, <1>6, <1>7, <1>8, <1>9 DEF Next, TimeThread

LEMMA Begins == Init => IInv
<1> SUFFICES ASSUME Init PROVE IInv
  OBVIOUS
<1>1. <<>> \in Seq(Timers) /\ Len(<<>>) = 0
  BY EmptySeq, LenProperties
<1>2. TypeOK
  <2>1. /\ cur \in Slots /\ wheel \in [Slots -> Seq(Timers)] /\ fresh \in Seq(Timers)
        /\ since \in 0..Interval
    BY <1>1, WheelAssumption DEF Init, Slots
  <2>2. delay \in [Timers -> Nat] /\ interval = delay /\ level = delay /\ due = delay
    BY DEF Init
  <2>3. due \in [Timers -> Int]
    BY <2>2
  <2>4. /\ owned \subseteq Timers /\ gone \in BOOLEAN /\ pc = "hold" /\ pos = 0
        /\ armed \subseteq owned /\ fired \in Timers \cup {NoTimer}
    BY DEF Init
  <2> QED BY <2>1, <2>2, <2>3, <2>4 DEF TypeOK
<1>3. Clock
  BY DEF Init, Clock
<1>4. fresh = <<>> /\ \A s \in Slots : wheel[s] = <<>>
  BY DEF Init
<1>5. Once
  BY <1>1, <1>4 DEF Once, Apart, In
<1>6. Wanted /\ Added
  BY DEF Init, Wanted, Added
<1>7. OnCourse
  BY DEF Init, OnCourse
<1> QED BY <1>2, <1>3, <1>5, <1>6, <1>7 DEF IInv

LEMMA Continues ==
    ASSUME NoWholeTurn PROVE IInv /\ [Next]_vars => IInv'
  BY TypeStep, ClockStep, OnceStep, WantedStep, AddedStep, OnCourseStep DEF IInv

-----------------------------------------------------------------------------
(* The theorems.                                                           *)

\* The types of the model, and that the iterator of a tick points to an element
\* of the slot it goes through, whatever is added or dropped meanwhile.
THEOREM TypeCorrect == Spec => []TypeOK
<1>1. Init => TypeOK /\ Clock
  BY Begins DEF IInv
<1>2. TypeOK /\ Clock /\ [Next]_vars => (TypeOK /\ Clock)'
  BY TypeStep, ClockStep
<1> QED BY <1>1, <1>2, PTL DEF Spec

\* No timer that is wanted is ever overdue by more than an interval, however many
\* timers there are, however large the wheel is and whatever their delays, if
\* none repeats after a whole number of turns.
THEOREM InTime == ASSUME NoWholeTurn PROVE Spec => []NeverLate
<1>1. IInv => NeverLate
  <2> SUFFICES ASSUME IInv, ~gone, NEW t \in armed PROVE due[t] >= -Interval
    BY DEF NeverLate
  <2>1. /\ t \in Timers /\ t \in owned /\ due[t] \in Int /\ delay[t] \in Nat
        /\ Elapsed \in 0..Interval /\ Interval \in Nat \ {0}
    BY Numbers DEF IInv, TypeOK
  <2>2. In(t, fresh) \/ Held(t, wheel)
    BY <2>1 DEF IInv, Wanted, Known, Held
  <2>3. CASE In(t, fresh)
    <3>1. due[t] \in (delay[t] - Elapsed)..delay[t]
      BY <2>1, <2>3 DEF IInv, Added
    <3> QED BY <2>1, <3>1
  <2>4. CASE Held(t, wheel)
    <3>1. PICK s \in Slots : In(t, wheel[s])
      BY <2>4 DEF Held
    <3>2. PICK i \in 1..Len(wheel[s]) : wheel[s][i] = t
      BY <3>1 DEF In
    <3>3. Laps(level[t]) \in Nat /\ Beats(Distance(s, i)) \in Nat /\ Wait(s, i) \in Int
      BY <3>2, EntryIs DEF IInv
    <3>4. due[t] - Wait(s, i) \in -Interval..Interval
      BY <2>1, <3>2 DEF IInv, OnCourse
    <3>5. Past \in 0..Interval /\ Distance(s, i) \in 0..WheelSize
      BY Numbers DEF IInv
    <3>6. Beats(Distance(s, i)) >= Past
      <4>1. CASE pc = "visit"
        BY <3>3, <4>1 DEF IInv, Clock, Past
      <4>2. CASE pc # "visit"
        <5>1. Distance(s, i) \in 1..WheelSize
          BY <4>2, Numbers DEF IInv, Distance
        <5> DEFINE k == Distance(s, i) - 1
        <5>2. k \in Nat /\ Distance(s, i) = k + 1
          BY <5>1, WheelAssumption
        <5> HIDE DEF k
        <5>3. Beats(Distance(s, i)) = Beats(k) + Interval /\ Beats(k) \in Nat
          BY <5>2, BeatsIs
        <5> QED BY <2>1, <3>5, <5>3
      <4> QED BY <4>1, <4>2
    <3>7. Wait(s, i) >= 0
      BY <3>2, <3>3, <3>5, <3>6 DEF Wait
    <3> QED BY <2>1, <3>3, <3>4, <3>7
  <2> QED BY <2>2, <2>3, <2>4
<1>2. IInv /\ [Next]_vars => IInv'
  BY Continues
<1> QED BY <1>1, <1>2, Begins, PTL DEF Spec

\* Each timer that fires does so within an interval of its time, under the same
\* condition: no tick fires it a turn too early, and none passes it by.
THEOREM OnTime == ASSUME NoWholeTurn PROVE Spec => FiresOnTime
<1>1. IInv /\ [Next]_vars =>
        [fired' # NoTimer => due[fired'] \in -Interval..Interval]_vars
  <2> SUFFICES ASSUME IInv, Next, fired' # NoTimer
               PROVE  due[fired'] \in -Interval..Interval
    OBVIOUS
  <2>1. Visit
    BY DEF Next, TimeThread, AddTimer, DropTimer, RemoveService, Millisecond, TickBegins,
           Adopt, Advance
  <2>2. /\ fired' = Here /\ Here \in owned /\ level[Here] = 0 /\ ~gone
        /\ pc = "visit"
    BY <2>1 DEF Visit, VisitDead, VisitLater, VisitOrphan, VisitOnce, VisitRepeat
  <2>3. /\ cur \in Slots /\ pos \in 1..Len(wheel[cur]) /\ Here = wheel[cur][pos]
        /\ Here \in Timers
    BY <2>2, HereIs DEF IInv, Here
  <2>4. Wait(cur, pos) = 0
    <3>1. Distance(cur, pos) = 0
      BY <2>2, <2>3 DEF Distance
    <3>2. Past = 0
      BY <2>2 DEF IInv, Clock, Past
    <3>3. Laps(0) = 0 /\ Beats(0) = 0
      BY LapsIs, BeatsIs
    <3>4. level[wheel[cur][pos]] = 0
      BY <2>2, <2>3
    <3> QED BY <3>1, <3>2, <3>3, <3>4 DEF Wait
  <2>5. due[Here] - Wait(cur, pos) \in -Interval..Interval
    BY <2>2, <2>3 DEF IInv, OnCourse
  <2>6. due[Here] \in Int
    BY <2>3 DEF IInv, TypeOK
  <2> QED BY <2>2, <2>4, <2>5, <2>6
<1>2. IInv /\ [Next]_vars => IInv'
  BY Continues
<1> QED BY <1>1, <1>2, Begins, PTL DEF Spec, FiresOnTime
=============================================================================
