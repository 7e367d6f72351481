--------------------------- MODULE SchedulerProofs --------------------------
(***************************************************************************)
(* Proofs about Scheduler, for any services, workers, pushing threads and  *)
(* bounds.                                                                 *)
(*                                                                         *)
(* The argument: every service has at most one token.  The token is its    *)
(* entry in the global queue, or the worker that owns it, or a push that   *)
(* read both flags as false and is about to queue it.  The two flags tell  *)
(* where the token is, but only together with the lock and with the order  *)
(* of startProcess's stores: m_isInGlobal stays true until m_isProcessing  *)
(* is, so a push that reads m_isInGlobal first never sees both false while *)
(* a worker owns the service.  IInv says this in eight parts, and adds the *)
(* converse (a flag that is true means there is a token) for NoLostWakeup. *)
(*                                                                         *)
(* Each action has a lemma: first what the action does to each predicate   *)
(* of the invariant, then each part of it, with the action hidden for the  *)
(* parts that only need those facts.                                       *)
(***************************************************************************)
EXTENDS Scheduler, TLAPS

(* What Append and Tail do to the elements of a sequence.                  *)
LEMMA AppendFacts ==
    ASSUME NEW S, NEW q \in Seq(S), NEW e \in S
    PROVE  /\ Append(q, e) \in Seq(S)
           /\ Len(Append(q, e)) = Len(q) + 1
           /\ \A i \in 1..Len(q) : Append(q, e)[i] = q[i]
           /\ Append(q, e)[Len(q) + 1] = e
OBVIOUS

(* What Head and Tail return.                                              *)
LEMMA TailFacts ==
    ASSUME NEW S, NEW q \in Seq(S), q # <<>>
    PROVE  /\ Head(q) \in S /\ Head(q) = q[1]
           /\ Tail(q) \in Seq(S)
           /\ Len(q) > 0
           /\ Len(Tail(q)) = Len(q) - 1
           /\ \A i \in 1..(Len(q) - 1) : Tail(q)[i] = q[i + 1]
<1>1. Len(q) \in Nat /\ Len(q) > 0
  OBVIOUS
<1>2. Tail(q) \in Seq(S) /\ Head(q) = q[1] /\ Head(q) \in S
  BY <1>1
<1>3. Len(Tail(q)) = Len(q) - 1
  BY <1>1
<1>4. \A i \in 1..(Len(q) - 1) : Tail(q)[i] = q[i + 1]
  BY <1>1
<1> QED BY Zenon, <1>1, <1>2, <1>3, <1>4

\* A worker with a queue has one, a thread that pushes has a destination, and
\* a worker pushes only from service code.
PcOK ==
    /\ \A w \in Workers : pc[w] \notin {"idle", "exited"} => que[w] \in Services
    /\ \A t \in Threads : push[t] # "no" => dest[t] \in Services
    /\ \A w \in Workers : push[w] # "no" => InHandler(w)

\* t is between taking and releasing the m_lock of s.
HoldsLock(t, s) ==
    \/ push[t] # "no" /\ dest[t] = s
    \/ t \in Workers /\ pc[t] \in {"finish", "unlock"} /\ que[t] = s

\* The spin lock of a service has one holder at a time.
LockHeld == \A t \in Threads, s \in Services : HoldsLock(t, s) => lock[s] = t

\* The token of s is with one worker at most.
OneOwner ==
    \A s \in Services : \A v, w \in Workers : Owns(v, s) /\ Owns(w, s) => v = w

\* w has popped s and not yet cleared m_isInGlobal.
Starting(w, s) == que[w] = s /\ pc[w] \in {"claimed", "marked"}

\* Where the token is, the flags show it.
FlagsAgree ==
    /\ \A s \in Services : InGlobalQueue(s) => isInGlobal[s]
    /\ \A w \in Workers : pc[w] \in {"claimed", "marked"} => isInGlobal[que[w]]
    /\ \A w \in Workers :
          pc[w] \in {"marked", "forks", "inFork", "msgs", "inMsg"} => isProcessing[que[w]]
    /\ \A w \in Workers : pc[w] = "finish" => ~isProcessing[que[w]]

\* What a push has read under the lock is still true: nobody queues s
\* meanwhile, and having read both flags it knows that there is no token.
PushersRight ==
    \A t \in Threads :
        /\ push[t] = "readProcessing" => ~isInGlobal[dest[t]]
        /\ push[t] = "enqueue" =>
              ~InGlobalQueue(dest[t]) /\ \A w \in Workers : ~Owns(w, dest[t])

\* doFork finds every coroutine it counted.
ForksAreThere ==
    \A w \in Workers : pc[w] \in {"forks", "inFork"} => todo[w] <= forking[que[w]]

\* A flag is true only while there is a token.
FlagsMeanToken ==
    /\ \A s \in Services :
        isInGlobal[s] => InGlobalQueue(s) \/ \E w \in Workers : Starting(w, s)
    /\ \A s \in Services : isProcessing[s] => \E w \in Workers : Owns(w, s)

\* The inductive invariant.
IInv ==
    /\ TypeOK /\ PcOK /\ LockHeld
    /\ OneOwner /\ QueuedOnce /\ FlagsAgree /\ PushersRight
    /\ ForksAreThere /\ BatchIsThere
    /\ FlagsMeanToken /\ NoLostWakeup

\* IInv is preserved by PushLock.
LEMMA PushLockStep ==
    ASSUME NEW t \in Threads, NEW s \in Services, IInv, PushLock(t, s)
    PROVE  IInv'
<1> USE ThreadsAssumption, BoundsAssumption DEF IInv, PushLock, TypeOK, PcOK, PC,
     PushPC, Threads, InHandler, queueVars, workVars, pushVars, forkVars
<1>1. push[t] # "no" => dest[t] \in Services
  OBVIOUS
<1>2. \A v \in Workers, x \in Services : Owns(v, x)' <=> Owns(v, x)
  BY <1>1 DEF Owns
<1>3. \A v \in Workers, x \in Services : Starting(v, x)' <=> Starting(v, x)
  BY <1>1 DEF Starting
<1>4. global' = global
  OBVIOUS
<1>5. \A x \in Services : InGlobalQueue(x)' <=> InGlobalQueue(x)
  BY <1>4 DEF InGlobalQueue
<1>6. \A u \in Threads, x \in Services : Deciding(u, x)' <=> Deciding(u, x) \/ (u = t /\ x = s)
  BY <1>1 DEF Deciding
<1>7. \A x \in Services : isInGlobal'[x] <=> isInGlobal[x]
  OBVIOUS
<1>8. \A x \in Services : isProcessing'[x] <=> isProcessing[x]
  OBVIOUS
<1>9. \A x \in Services : HasWork(x)' => HasWork(x) \/ x = s
  BY <1>1 DEF HasWork
<1>10. TypeOK'
  <2>1. <<t, sent[t] + 1>> \in Packles
    BY DEF Packles
  <2>2. Append(queue[s], <<t, sent[t] + 1>>) \in Seq(Packles)
    BY <2>1, AppendFacts
  <2>3. queue' \in [Services -> Seq(Packles)]
    BY <2>2
  <2>4. sent' \in [Threads -> Nat] /\ lock' \in [Services -> Threads \cup {NoThread}]
    OBVIOUS
  <2>5. push' \in [Threads -> PushPC] /\ dest' \in [Threads -> Services \cup {NoService}]
    OBVIOUS
  <2> QED BY <2>3, <2>4, <2>5
<1>11. PcOK'
  BY <1>1 DEF MayPush
<1>12. LockHeld'
  BY <1>1 DEF LockHeld, HoldsLock, MayPush
<1>13. ForksAreThere'
  BY <1>1 DEF ForksAreThere
<1>14. BatchIsThere'
  BY <1>1, AppendFacts DEF BatchIsThere
<1>15. FlagsAgree'
  BY <1>1, <1>5 DEF FlagsAgree
<1>16. PushersRight'
  BY <1>1, <1>2, <1>5 DEF PushersRight
<1>17. \A v \in Workers, x \in Services : Starting(v, x) => Owns(v, x)
  BY DEF Starting, Owns
<1>18. s \in Services
  OBVIOUS
<1> HIDE DEF PushLock, TypeOK, PcOK, PC, PushPC, Threads, InHandler, queueVars,
     workVars, pushVars, forkVars
<1>19. OneOwner'
  BY <1>2 DEF OneOwner
<1>20. GlobalDistinct'
  BY <1>4 DEF GlobalDistinct, QueuedOnce
<1>21. OwnedNotQueued'
  BY <1>2, <1>5 DEF OwnedNotQueued, QueuedOnce
<1>22. FlagsMeanToken'
  BY <1>2, <1>3, <1>5, <1>7, <1>8, <1>17 DEF FlagsMeanToken
<1>23. NoLostWakeup'
  <2>1. Deciding(t, s)'
    BY <1>6, <1>18
  <2> QED BY <2>1, <1>2, <1>5, <1>6, <1>9 DEF NoLostWakeup
<1> QED BY <1>10, <1>11, <1>12, <1>19, <1>20, <1>21, <1>15, <1>16, <1>13, <1>14,
     <1>22, <1>23 DEF IInv, QueuedOnce

\* IInv is preserved by PushReadInGlobal.
LEMMA PushReadInGlobalStep ==
    ASSUME NEW t \in Threads, IInv, PushReadInGlobal(t)
    PROVE  IInv'
<1> USE ThreadsAssumption, BoundsAssumption DEF IInv, PushReadInGlobal, TypeOK,
     PcOK, PC, PushPC, Threads, InHandler, queueVars, workVars, pushVars, forkVars
<1>1. push[t] # "no" => dest[t] \in Services
  OBVIOUS
<1>2. \A v \in Workers, x \in Services : Owns(v, x)' <=> Owns(v, x)
  BY <1>1 DEF Owns
<1>3. \A v \in Workers, x \in Services : Starting(v, x)' <=> Starting(v, x)
  BY <1>1 DEF Starting
<1>4. global' = global
  OBVIOUS
<1>5. \A x \in Services : InGlobalQueue(x)' <=> InGlobalQueue(x)
  BY <1>4 DEF InGlobalQueue
<1>6. \A u \in Threads, x \in Services : Deciding(u, x)' <=> Deciding(u, x) /\ ~(u = t /\ isInGlobal[x])
  BY <1>1 DEF Deciding
<1>7. \A x \in Services : isInGlobal'[x] <=> isInGlobal[x]
  OBVIOUS
<1>8. \A x \in Services : isProcessing'[x] <=> isProcessing[x]
  OBVIOUS
<1>9. \A x \in Services : HasWork(x)' => HasWork(x)
  BY <1>1 DEF HasWork
<1>10. TypeOK'
  BY <1>1, <1>4
<1>11. PcOK'
  BY <1>1
<1>12. LockHeld'
  BY <1>1 DEF LockHeld, HoldsLock
<1>13. ForksAreThere'
  BY <1>1 DEF ForksAreThere
<1>14. BatchIsThere'
  BY <1>1 DEF BatchIsThere
<1>15. FlagsAgree'
  BY <1>1, <1>5 DEF FlagsAgree
<1>16. PushersRight'
  BY <1>1, <1>2, <1>5 DEF PushersRight
<1>17. \A v \in Workers, x \in Services : Starting(v, x) => Owns(v, x)
  BY DEF Starting, Owns
<1> HIDE DEF PushReadInGlobal, TypeOK, PcOK, PC, PushPC, Threads, InHandler,
     queueVars, workVars, pushVars, forkVars
<1>18. OneOwner'
  BY <1>2 DEF OneOwner
<1>19. GlobalDistinct'
  BY <1>4 DEF GlobalDistinct, QueuedOnce
<1>20. OwnedNotQueued'
  BY <1>2, <1>5 DEF OwnedNotQueued, QueuedOnce
<1>21. FlagsMeanToken'
  BY <1>2, <1>3, <1>5, <1>7, <1>8, <1>17 DEF FlagsMeanToken
<1>22. NoLostWakeup'
  BY <1>2, <1>5, <1>6, <1>9, <1>17 DEF NoLostWakeup, FlagsMeanToken
<1> QED BY <1>10, <1>11, <1>12, <1>18, <1>19, <1>20, <1>15, <1>16, <1>13, <1>14,
     <1>21, <1>22 DEF IInv, QueuedOnce

\* IInv is preserved by PushReadProcessing.
LEMMA PushReadProcessingStep ==
    ASSUME NEW t \in Threads, IInv, PushReadProcessing(t)
    PROVE  IInv'
<1> USE ThreadsAssumption, BoundsAssumption DEF IInv, PushReadProcessing, TypeOK,
     PcOK, PC, PushPC, Threads, InHandler, queueVars, workVars, pushVars, forkVars
<1>1. push[t] # "no" => dest[t] \in Services
  OBVIOUS
<1>2. \A v \in Workers, x \in Services : Owns(v, x)' <=> Owns(v, x)
  BY <1>1 DEF Owns
<1>3. \A v \in Workers, x \in Services : Starting(v, x)' <=> Starting(v, x)
  BY <1>1 DEF Starting
<1>4. global' = global
  OBVIOUS
<1>5. \A x \in Services : InGlobalQueue(x)' <=> InGlobalQueue(x)
  BY <1>4 DEF InGlobalQueue
<1>6. \A u \in Threads, x \in Services : Deciding(u, x)' <=> Deciding(u, x) /\ ~(u = t /\ isProcessing[x])
  BY <1>1 DEF Deciding
<1>7. \A x \in Services : isInGlobal'[x] <=> isInGlobal[x]
  OBVIOUS
<1>8. \A x \in Services : isProcessing'[x] <=> isProcessing[x]
  OBVIOUS
<1>9. \A x \in Services : HasWork(x)' => HasWork(x)
  BY <1>1 DEF HasWork
<1>10. TypeOK'
  BY <1>1, <1>4
<1>11. PcOK'
  BY <1>1
<1>12. LockHeld'
  BY <1>1 DEF LockHeld, HoldsLock
<1>13. ForksAreThere'
  BY <1>1 DEF ForksAreThere
<1>14. BatchIsThere'
  BY <1>1 DEF BatchIsThere
<1>15. FlagsAgree'
  BY <1>1, <1>5 DEF FlagsAgree
<1>16. PushersRight'
  BY <1>1, <1>2, <1>5 DEF PushersRight, FlagsAgree, Owns, LockHeld, HoldsLock
<1>17. \A v \in Workers, x \in Services : Starting(v, x) => Owns(v, x)
  BY DEF Starting, Owns
<1> HIDE DEF PushReadProcessing, TypeOK, PcOK, PC, PushPC, Threads, InHandler,
     queueVars, workVars, pushVars, forkVars
<1>18. OneOwner'
  BY <1>2 DEF OneOwner
<1>19. GlobalDistinct'
  BY <1>4 DEF GlobalDistinct, QueuedOnce
<1>20. OwnedNotQueued'
  BY <1>2, <1>5 DEF OwnedNotQueued, QueuedOnce
<1>21. FlagsMeanToken'
  BY <1>2, <1>3, <1>5, <1>7, <1>8, <1>17 DEF FlagsMeanToken
<1>22. NoLostWakeup'
  BY <1>2, <1>5, <1>6, <1>9 DEF NoLostWakeup, FlagsMeanToken
<1> QED BY <1>10, <1>11, <1>12, <1>18, <1>19, <1>20, <1>15, <1>16, <1>13, <1>14,
     <1>21, <1>22 DEF IInv, QueuedOnce

\* IInv is preserved by PushEnqueue.
LEMMA PushEnqueueStep ==
    ASSUME NEW t \in Threads, IInv, PushEnqueue(t)
    PROVE  IInv'
<1> USE ThreadsAssumption, BoundsAssumption DEF IInv, PushEnqueue, GlobalPush,
     TypeOK, PcOK, PC, PushPC, Threads, InHandler, queueVars, workVars, pushVars,
     forkVars
<1>1. push[t] # "no" => dest[t] \in Services
  OBVIOUS
<1>2. \A v \in Workers, x \in Services : Owns(v, x)' <=> Owns(v, x)
  BY <1>1 DEF Owns
<1>3. \A v \in Workers, x \in Services : Starting(v, x)' <=> Starting(v, x)
  BY <1>1 DEF Starting
<1>4. /\ global' \in Seq(Services) /\ Len(global') = Len(global) + 1 /\ Len(global) \in Nat
      /\ \A i \in 1..Len(global) : global'[i] = global[i]
      /\ global'[Len(global) + 1] = dest[t]
  BY <1>1, AppendFacts
<1>5. \A x \in Services : InGlobalQueue(x)' <=> InGlobalQueue(x) \/ x = dest[t]
  BY <1>1, <1>4 DEF InGlobalQueue
<1>6. \A u \in Threads, x \in Services : Deciding(u, x)' <=> Deciding(u, x) /\ u # t
  BY <1>1 DEF Deciding
<1>7. \A x \in Services : isInGlobal'[x] <=> isInGlobal[x] \/ x = dest[t]
  BY <1>1
<1>8. \A x \in Services : isProcessing'[x] <=> isProcessing[x]
  OBVIOUS
<1>9. \A x \in Services : HasWork(x)' => HasWork(x)
  BY <1>1 DEF HasWork
<1>10. TypeOK'
  BY <1>1, <1>4
<1>11. PcOK'
  BY <1>1 DEF MayPush, IInv
<1>12. LockHeld'
  BY <1>1 DEF LockHeld, HoldsLock
<1>13. ForksAreThere'
  BY <1>1 DEF ForksAreThere
<1>14. BatchIsThere'
  BY <1>1 DEF BatchIsThere
<1>15. FlagsAgree'
  BY <1>1, <1>5, <1>7 DEF FlagsAgree
<1>16. PushersRight'
  BY <1>1, <1>2, <1>5, <1>7 DEF PushersRight, LockHeld, HoldsLock
<1>17. \A v \in Workers, x \in Services : Starting(v, x) => Owns(v, x)
  BY DEF Starting, Owns
<1>18. dest[t] \in Services /\ ~InGlobalQueue(dest[t]) /\ \A v \in Workers : ~Owns(v, dest[t])
  BY <1>1 DEF PushersRight
<1> HIDE DEF PushEnqueue, GlobalPush, TypeOK, PcOK, PC, PushPC, Threads, InHandler,
     queueVars, workVars, pushVars, forkVars
<1>19. OneOwner'
  BY <1>2 DEF OneOwner
<1>20. GlobalDistinct'
  BY <1>18, <1>4 DEF GlobalDistinct, QueuedOnce, OwnedNotQueued, InGlobalQueue
<1>21. OwnedNotQueued'
  BY <1>2, <1>5, <1>18 DEF OwnedNotQueued, QueuedOnce
<1>22. FlagsMeanToken'
  BY <1>2, <1>3, <1>5, <1>7, <1>8, <1>17, <1>18 DEF FlagsMeanToken
<1>23. NoLostWakeup'
  <2>1. \A x \in Services : Deciding(t, x) => InGlobalQueue(x)'
    BY <1>5 DEF Deciding
  <2> QED BY <2>1, <1>2, <1>5, <1>6, <1>9 DEF NoLostWakeup
<1> QED BY <1>10, <1>11, <1>12, <1>19, <1>20, <1>21, <1>15, <1>16, <1>13, <1>14,
     <1>22, <1>23 DEF IInv, QueuedOnce

\* IInv is preserved by PushUnlock.
LEMMA PushUnlockStep ==
    ASSUME NEW t \in Threads, IInv, PushUnlock(t)
    PROVE  IInv'
<1> USE ThreadsAssumption, BoundsAssumption DEF IInv, PushUnlock, TypeOK, PcOK, PC,
     PushPC, Threads, InHandler, queueVars, workVars, pushVars, forkVars
<1>1. push[t] # "no" => dest[t] \in Services
  OBVIOUS
<1>2. \A v \in Workers, x \in Services : Owns(v, x)' <=> Owns(v, x)
  BY <1>1 DEF Owns
<1>3. \A v \in Workers, x \in Services : Starting(v, x)' <=> Starting(v, x)
  BY <1>1 DEF Starting
<1>4. global' = global
  OBVIOUS
<1>5. \A x \in Services : InGlobalQueue(x)' <=> InGlobalQueue(x)
  BY <1>4 DEF InGlobalQueue
<1>6. \A u \in Threads, x \in Services : Deciding(u, x)' <=> Deciding(u, x)
  BY <1>1 DEF Deciding
<1>7. \A x \in Services : isInGlobal'[x] <=> isInGlobal[x]
  OBVIOUS
<1>8. \A x \in Services : isProcessing'[x] <=> isProcessing[x]
  OBVIOUS
<1>9. \A x \in Services : HasWork(x)' => HasWork(x)
  BY <1>1 DEF HasWork
<1>10. TypeOK'
  BY <1>1, <1>4
<1>11. PcOK'
  BY <1>1
<1>12. LockHeld'
  <2>1. \A u \in Threads, x \in Services : HoldsLock(u, x)' => u # t /\ HoldsLock(u, x)
    BY DEF HoldsLock
  <2>2. \A u \in Threads : u # t => ~HoldsLock(u, dest[t])
    BY <1>1 DEF LockHeld, HoldsLock
  <2> QED BY <2>1, <2>2, <1>1 DEF LockHeld
<1>13. ForksAreThere'
  BY <1>1 DEF ForksAreThere
<1>14. BatchIsThere'
  BY <1>1 DEF BatchIsThere
<1>15. FlagsAgree'
  BY <1>1, <1>5 DEF FlagsAgree
<1>16. PushersRight'
  BY <1>1, <1>2, <1>5 DEF PushersRight
<1>17. \A v \in Workers, x \in Services : Starting(v, x) => Owns(v, x)
  BY DEF Starting, Owns
<1> HIDE DEF PushUnlock, TypeOK, PcOK, PC, PushPC, Threads, InHandler, queueVars,
     workVars, pushVars, forkVars
<1>18. OneOwner'
  BY <1>2 DEF OneOwner
<1>19. GlobalDistinct'
  BY <1>4 DEF GlobalDistinct, QueuedOnce
<1>20. OwnedNotQueued'
  BY <1>2, <1>5 DEF OwnedNotQueued, QueuedOnce
<1>21. FlagsMeanToken'
  BY <1>2, <1>3, <1>5, <1>7, <1>8, <1>17 DEF FlagsMeanToken
<1>22. NoLostWakeup'
  BY <1>2, <1>5, <1>6, <1>9 DEF NoLostWakeup
<1> QED BY <1>10, <1>11, <1>12, <1>18, <1>19, <1>20, <1>15, <1>16, <1>13, <1>14,
     <1>21, <1>22 DEF IInv, QueuedOnce

\* IInv is preserved by Claim.
LEMMA ClaimStep ==
    ASSUME NEW w \in Workers, IInv, Claim(w)
    PROVE  IInv'
<1> USE ThreadsAssumption, BoundsAssumption DEF IInv, Claim, GlobalPush, TypeOK,
     PcOK, PC, PushPC, Threads, InHandler, queueVars, workVars, pushVars, forkVars
<1>1. w \in Threads /\ (pc[w] \notin {"idle", "exited"} => que[w] \in Services)
  OBVIOUS
<1>2. \A v \in Workers, x \in Services : Owns(v, x)' <=> Owns(v, x) \/ (v = w /\ x = Head(global))
  <2>1. Head(global) \in Services
    BY TailFacts
  <2> QED BY <2>1 DEF Owns
<1>3. \A v \in Workers, x \in Services : Starting(v, x)' <=> Starting(v, x) \/ (v = w /\ x = Head(global))
  <2>1. Head(global) \in Services
    BY TailFacts
  <2> QED BY <2>1 DEF Starting
<1>4. /\ global' \in Seq(Services) /\ Len(global') = Len(global) - 1 /\ Len(global) \in Nat \ {0}
      /\ Head(global) = global[1] /\ global[1] \in Services
      /\ \A i \in 1..(Len(global) - 1) : global'[i] = global[i + 1]
  BY TailFacts
<1>5. \A x \in Services : InGlobalQueue(x)' <=> InGlobalQueue(x) /\ x # Head(global)
  <2>1. SUFFICES ASSUME NEW x \in Services
                 PROVE  InGlobalQueue(x)' <=> InGlobalQueue(x) /\ x # Head(global)
    OBVIOUS
  <2>2. ASSUME InGlobalQueue(x)'
        PROVE  InGlobalQueue(x) /\ x # Head(global)
    <3>1. PICK i \in 1..(Len(global) - 1) : global[i + 1] = x
      BY <2>2, <1>4 DEF InGlobalQueue
    <3>2. i + 1 \in 1..Len(global) /\ 1 \in 1..Len(global) /\ i + 1 # 1
      BY <1>4
    <3> QED BY <3>1, <3>2, <1>4 DEF InGlobalQueue, QueuedOnce, GlobalDistinct
  <2>3. ASSUME InGlobalQueue(x), x # Head(global)
        PROVE  InGlobalQueue(x)'
    <3>1. PICK i \in 1..Len(global) : global[i] = x
      BY <2>3 DEF InGlobalQueue
    <3>2. i - 1 \in 1..(Len(global) - 1) /\ (i - 1) + 1 = i
      BY <2>3, <3>1, <1>4
    <3>3. i - 1 \in 1..Len(global') /\ global'[i - 1] = x
      BY <3>1, <3>2, <1>4
    <3> QED BY <3>3 DEF InGlobalQueue
  <2> QED BY <2>2, <2>3
<1>6. \A u \in Threads, x \in Services : Deciding(u, x)' <=> Deciding(u, x)
  BY <1>1 DEF Deciding
<1>7. \A x \in Services : isInGlobal'[x] <=> isInGlobal[x]
  OBVIOUS
<1>8. \A x \in Services : isProcessing'[x] <=> isProcessing[x]
  OBVIOUS
<1>9. \A x \in Services : HasWork(x)' => HasWork(x)
  BY <1>1 DEF HasWork
<1>10. TypeOK'
  BY <1>1, <1>4
<1>11. PcOK'
  BY <1>1
<1>12. LockHeld'
  BY <1>1 DEF LockHeld, HoldsLock
<1>13. ForksAreThere'
  BY <1>1 DEF ForksAreThere
<1>14. BatchIsThere'
  BY <1>1 DEF BatchIsThere
<1>15. FlagsAgree'
  BY <1>1, <1>4, <1>5, <1>7, <1>8, SMTT(30) DEF FlagsAgree, InGlobalQueue
<1>16. PushersRight'
  <2>1. \A u \in Threads : push[u] = "enqueue" => dest[u] # Head(global)
    BY <1>4 DEF PushersRight, InGlobalQueue
  <2>2. push' = push /\ dest' = dest /\ isInGlobal' = isInGlobal
    OBVIOUS
  <2> QED BY <2>1, <2>2, <1>2, <1>5, SMTT(30) DEF PushersRight
<1>17. \A v \in Workers, x \in Services : Starting(v, x) => Owns(v, x)
  BY DEF Starting, Owns
<1>18. Head(global) \in Services /\ InGlobalQueue(Head(global))
  BY <1>4 DEF InGlobalQueue
<1> HIDE DEF Claim, GlobalPush, TypeOK, PcOK, PC, PushPC, Threads, InHandler,
     queueVars, workVars, pushVars, forkVars
<1>19. OneOwner'
  BY <1>2, <1>18 DEF OneOwner, QueuedOnce, OwnedNotQueued
<1>20. GlobalDistinct'
  BY <1>18, <1>4 DEF GlobalDistinct, QueuedOnce, OwnedNotQueued, InGlobalQueue
<1>21. OwnedNotQueued'
  BY <1>2, <1>5, <1>18 DEF OwnedNotQueued, QueuedOnce
<1>22. FlagsMeanToken'
  BY <1>2, <1>3, <1>5, <1>7, <1>8, <1>17, <1>18 DEF FlagsMeanToken
<1>23. NoLostWakeup'
  BY <1>2, <1>5, <1>6, <1>9, <1>18 DEF NoLostWakeup
<1> QED BY <1>10, <1>11, <1>12, <1>19, <1>20, <1>21, <1>15, <1>16, <1>13, <1>14,
     <1>22, <1>23 DEF IInv, QueuedOnce

\* IInv is preserved by MarkProcessing.
LEMMA MarkProcessingStep ==
    ASSUME NEW w \in Workers, IInv, MarkProcessing(w)
    PROVE  IInv'
<1> USE ThreadsAssumption, BoundsAssumption DEF IInv, MarkProcessing, TypeOK, PcOK,
     PC, PushPC, Threads, InHandler, queueVars, workVars, pushVars, forkVars
<1>1. w \in Threads /\ (pc[w] \notin {"idle", "exited"} => que[w] \in Services)
  OBVIOUS
<1>2. \A v \in Workers, x \in Services : Owns(v, x)' <=> Owns(v, x)
  BY <1>1 DEF Owns
<1>3. \A v \in Workers, x \in Services : Starting(v, x)' <=> Starting(v, x)
  BY <1>1 DEF Starting
<1>4. global' = global
  OBVIOUS
<1>5. \A x \in Services : InGlobalQueue(x)' <=> InGlobalQueue(x)
  BY <1>4 DEF InGlobalQueue
<1>6. \A u \in Threads, x \in Services : Deciding(u, x)' <=> Deciding(u, x)
  BY <1>1 DEF Deciding
<1>7. \A x \in Services : isInGlobal'[x] <=> isInGlobal[x]
  OBVIOUS
<1>8. \A x \in Services : isProcessing'[x] <=> isProcessing[x] \/ x = que[w]
  BY <1>1
<1>9. \A x \in Services : HasWork(x)' => HasWork(x)
  BY <1>1 DEF HasWork
<1>10. TypeOK'
  BY <1>1, <1>4
<1>11. PcOK'
  BY <1>1
<1>12. LockHeld'
  BY <1>1 DEF LockHeld, HoldsLock
<1>13. ForksAreThere'
  BY <1>1 DEF ForksAreThere
<1>14. BatchIsThere'
  BY <1>1 DEF BatchIsThere
<1>15. FlagsAgree'
  BY <1>1, <1>5 DEF FlagsAgree, OneOwner, Owns
<1>16. PushersRight'
  BY <1>1, <1>2, <1>5 DEF PushersRight
<1>17. \A v \in Workers, x \in Services : Starting(v, x) => Owns(v, x)
  BY DEF Starting, Owns
<1>18. /\ que[w] \in Services /\ Owns(w, que[w])
      /\ \A x \in Services : Owns(w, x) => x = que[w]
  BY <1>1 DEF Owns, FlagsAgree
<1> HIDE DEF MarkProcessing, TypeOK, PcOK, PC, PushPC, Threads, InHandler,
     queueVars, workVars, pushVars, forkVars
<1>19. OneOwner'
  BY <1>2 DEF OneOwner
<1>20. GlobalDistinct'
  BY <1>4 DEF GlobalDistinct, QueuedOnce
<1>21. OwnedNotQueued'
  BY <1>2, <1>5 DEF OwnedNotQueued, QueuedOnce
<1>22. FlagsMeanToken'
  BY <1>2, <1>3, <1>5, <1>7, <1>8, <1>17, <1>18 DEF FlagsMeanToken
<1>23. NoLostWakeup'
  BY <1>2, <1>5, <1>6, <1>9 DEF NoLostWakeup
<1> QED BY <1>10, <1>11, <1>12, <1>19, <1>20, <1>21, <1>15, <1>16, <1>13, <1>14,
     <1>22, <1>23 DEF IInv, QueuedOnce

\* IInv is preserved by ClearInGlobal.
LEMMA ClearInGlobalStep ==
    ASSUME NEW w \in Workers, IInv, ClearInGlobal(w)
    PROVE  IInv'
<1> USE ThreadsAssumption, BoundsAssumption DEF IInv, ClearInGlobal, TypeOK, PcOK,
     PC, PushPC, Threads, InHandler, queueVars, workVars, pushVars, forkVars
<1>1. w \in Threads /\ (pc[w] \notin {"idle", "exited"} => que[w] \in Services)
  OBVIOUS
<1>2. \A v \in Workers, x \in Services : Owns(v, x)' <=> Owns(v, x)
  BY <1>1 DEF Owns
<1>3. \A v \in Workers, x \in Services : Starting(v, x)' <=> Starting(v, x) /\ v # w
  BY <1>1 DEF Starting
<1>4. global' = global
  OBVIOUS
<1>5. \A x \in Services : InGlobalQueue(x)' <=> InGlobalQueue(x)
  BY <1>4 DEF InGlobalQueue
<1>6. \A u \in Threads, x \in Services : Deciding(u, x)' <=> Deciding(u, x)
  BY <1>1 DEF Deciding
<1>7. \A x \in Services : isInGlobal'[x] <=> isInGlobal[x] /\ x # que[w]
  BY <1>1
<1>8. \A x \in Services : isProcessing'[x] <=> isProcessing[x]
  OBVIOUS
<1>9. \A x \in Services : HasWork(x)' => HasWork(x)
  BY <1>1 DEF HasWork
<1>10. TypeOK'
  BY <1>1, <1>4
<1>11. PcOK'
  BY <1>1
<1>12. LockHeld'
  BY <1>1 DEF LockHeld, HoldsLock
<1>13. ForksAreThere'
  BY <1>1 DEF ForksAreThere
<1>14. BatchIsThere'
  BY <1>1 DEF BatchIsThere
<1>15. FlagsAgree'
  <2>1. \A v \in Workers : v # w /\ pc[v] \in {"claimed", "marked"} => que[v] # que[w]
    BY <1>1 DEF OneOwner, Owns
  <2>2. ~InGlobalQueue(que[w])
    BY <1>1 DEF QueuedOnce, OwnedNotQueued, Owns
  <2> QED BY <2>1, <2>2, <1>1, <1>5 DEF FlagsAgree
<1>16. PushersRight'
  BY <1>1, <1>2, <1>5, <1>7 DEF PushersRight
<1>17. \A v \in Workers, x \in Services : Starting(v, x) => Owns(v, x)
  BY DEF Starting, Owns
<1>18. /\ que[w] \in Services /\ Owns(w, que[w])
      /\ \A x \in Services : Owns(w, x) => x = que[w]
  BY <1>1 DEF Owns, FlagsAgree
<1> HIDE DEF ClearInGlobal, TypeOK, PcOK, PC, PushPC, Threads, InHandler, queueVars,
     workVars, pushVars, forkVars
<1>19. OneOwner'
  BY <1>2 DEF OneOwner
<1>20. GlobalDistinct'
  BY <1>4 DEF GlobalDistinct, QueuedOnce
<1>21. OwnedNotQueued'
  BY <1>2, <1>5 DEF OwnedNotQueued, QueuedOnce
<1>22. FlagsMeanToken'
  BY <1>2, <1>3, <1>5, <1>7, <1>8, <1>17, <1>18 DEF FlagsMeanToken, Starting
<1>23. NoLostWakeup'
  BY <1>2, <1>5, <1>6, <1>9 DEF NoLostWakeup
<1> QED BY <1>10, <1>11, <1>12, <1>19, <1>20, <1>21, <1>15, <1>16, <1>13, <1>14,
     <1>22, <1>23 DEF IInv, QueuedOnce

\* IInv is preserved by ResumeFork.
LEMMA ResumeForkStep ==
    ASSUME NEW w \in Workers, IInv, ResumeFork(w)
    PROVE  IInv'
<1> USE ThreadsAssumption, BoundsAssumption DEF IInv, ResumeFork, TypeOK, PcOK, PC,
     PushPC, Threads, InHandler, queueVars, workVars, pushVars, forkVars
<1>1. w \in Threads /\ (pc[w] \notin {"idle", "exited"} => que[w] \in Services)
  OBVIOUS
<1>2. \A v \in Workers, x \in Services : Owns(v, x)' <=> Owns(v, x)
  BY <1>1 DEF Owns
<1>3. \A v \in Workers, x \in Services : Starting(v, x)' <=> Starting(v, x)
  BY <1>1 DEF Starting
<1>4. global' = global
  OBVIOUS
<1>5. \A x \in Services : InGlobalQueue(x)' <=> InGlobalQueue(x)
  BY <1>4 DEF InGlobalQueue
<1>6. \A u \in Threads, x \in Services : Deciding(u, x)' <=> Deciding(u, x)
  BY <1>1 DEF Deciding
<1>7. \A x \in Services : isInGlobal'[x] <=> isInGlobal[x]
  OBVIOUS
<1>8. \A x \in Services : isProcessing'[x] <=> isProcessing[x]
  OBVIOUS
<1>9. \A x \in Services : HasWork(x)' => HasWork(x)
  BY <1>1 DEF HasWork, ForksAreThere
<1>10. TypeOK'
  <2>1. forking[que[w]] - 1 \in Nat /\ todo[w] - 1 \in Nat
    BY <1>1 DEF ForksAreThere
  <2> QED BY <2>1, <1>1
<1>11. PcOK'
  BY <1>1
<1>12. LockHeld'
  BY <1>1 DEF LockHeld, HoldsLock
<1>13. ForksAreThere'
  BY <1>1 DEF ForksAreThere, OneOwner, Owns
<1>14. BatchIsThere'
  BY <1>1 DEF BatchIsThere
<1>15. FlagsAgree'
  BY <1>1, <1>5 DEF FlagsAgree
<1>16. PushersRight'
  BY <1>1, <1>2, <1>5 DEF PushersRight
<1>17. \A v \in Workers, x \in Services : Starting(v, x) => Owns(v, x)
  BY DEF Starting, Owns
<1>18. /\ que[w] \in Services /\ Owns(w, que[w])
      /\ \A x \in Services : Owns(w, x) => x = que[w]
  BY <1>1 DEF Owns, FlagsAgree
<1> HIDE DEF ResumeFork, TypeOK, PcOK, PC, PushPC, Threads, InHandler, queueVars,
     workVars, pushVars, forkVars
<1>19. OneOwner'
  BY <1>2 DEF OneOwner
<1>20. GlobalDistinct'
  BY <1>4 DEF GlobalDistinct, QueuedOnce
<1>21. OwnedNotQueued'
  BY <1>2, <1>5 DEF OwnedNotQueued, QueuedOnce
<1>22. FlagsMeanToken'
  BY <1>2, <1>3, <1>5, <1>7, <1>8, <1>17 DEF FlagsMeanToken
<1>23. NoLostWakeup'
  BY <1>2, <1>5, <1>6, <1>9 DEF NoLostWakeup
<1> QED BY <1>10, <1>11, <1>12, <1>19, <1>20, <1>21, <1>15, <1>16, <1>13, <1>14,
     <1>22, <1>23 DEF IInv, QueuedOnce

\* IInv is preserved by ReadSize.
LEMMA ReadSizeStep ==
    ASSUME NEW w \in Workers, IInv, ReadSize(w)
    PROVE  IInv'
<1> USE ThreadsAssumption, BoundsAssumption DEF IInv, ReadSize, TypeOK, PcOK, PC,
     PushPC, Threads, InHandler, queueVars, workVars, pushVars, forkVars
<1>1. w \in Threads /\ (pc[w] \notin {"idle", "exited"} => que[w] \in Services)
  OBVIOUS
<1>2. \A v \in Workers, x \in Services : Owns(v, x)' <=> Owns(v, x)
  BY <1>1 DEF Owns
<1>3. \A v \in Workers, x \in Services : Starting(v, x)' <=> Starting(v, x)
  BY <1>1 DEF Starting
<1>4. global' = global
  OBVIOUS
<1>5. \A x \in Services : InGlobalQueue(x)' <=> InGlobalQueue(x)
  BY <1>4 DEF InGlobalQueue
<1>6. \A u \in Threads, x \in Services : Deciding(u, x)' <=> Deciding(u, x)
  BY <1>1 DEF Deciding
<1>7. \A x \in Services : isInGlobal'[x] <=> isInGlobal[x]
  OBVIOUS
<1>8. \A x \in Services : isProcessing'[x] <=> isProcessing[x]
  OBVIOUS
<1>9. \A x \in Services : HasWork(x)' => HasWork(x)
  BY <1>1 DEF HasWork
<1>10. TypeOK'
  BY <1>1, <1>4
<1>11. PcOK'
  BY <1>1
<1>12. LockHeld'
  BY <1>1 DEF LockHeld, HoldsLock
<1>13. ForksAreThere'
  BY <1>1 DEF ForksAreThere
<1>14. BatchIsThere'
  BY <1>1 DEF BatchIsThere
<1>15. FlagsAgree'
  BY <1>1, <1>5 DEF FlagsAgree
<1>16. PushersRight'
  BY <1>1, <1>2, <1>5 DEF PushersRight
<1>17. \A v \in Workers, x \in Services : Starting(v, x) => Owns(v, x)
  BY DEF Starting, Owns
<1>18. /\ que[w] \in Services /\ Owns(w, que[w])
      /\ \A x \in Services : Owns(w, x) => x = que[w]
  BY <1>1 DEF Owns, FlagsAgree
<1> HIDE DEF ReadSize, TypeOK, PcOK, PC, PushPC, Threads, InHandler, queueVars,
     workVars, pushVars, forkVars
<1>19. OneOwner'
  BY <1>2 DEF OneOwner
<1>20. GlobalDistinct'
  BY <1>4 DEF GlobalDistinct, QueuedOnce
<1>21. OwnedNotQueued'
  BY <1>2, <1>5 DEF OwnedNotQueued, QueuedOnce
<1>22. FlagsMeanToken'
  BY <1>2, <1>3, <1>5, <1>7, <1>8, <1>17 DEF FlagsMeanToken
<1>23. NoLostWakeup'
  BY <1>2, <1>5, <1>6, <1>9 DEF NoLostWakeup
<1> QED BY <1>10, <1>11, <1>12, <1>19, <1>20, <1>21, <1>15, <1>16, <1>13, <1>14,
     <1>22, <1>23 DEF IInv, QueuedOnce

\* IInv is preserved by TakePackle.
LEMMA TakePackleStep ==
    ASSUME NEW w \in Workers, IInv, TakePackle(w)
    PROVE  IInv'
<1> USE ThreadsAssumption, BoundsAssumption DEF IInv, TakePackle, TypeOK, PcOK, PC,
     PushPC, Threads, InHandler, queueVars, workVars, pushVars, forkVars
<1>1. w \in Threads /\ (pc[w] \notin {"idle", "exited"} => que[w] \in Services)
  OBVIOUS
<1>2. \A v \in Workers, x \in Services : Owns(v, x)' <=> Owns(v, x)
  BY <1>1 DEF Owns
<1>3. \A v \in Workers, x \in Services : Starting(v, x)' <=> Starting(v, x)
  BY <1>1 DEF Starting
<1>4. global' = global
  OBVIOUS
<1>5. \A x \in Services : InGlobalQueue(x)' <=> InGlobalQueue(x)
  BY <1>4 DEF InGlobalQueue
<1>6. \A u \in Threads, x \in Services : Deciding(u, x)' <=> Deciding(u, x)
  BY <1>1 DEF Deciding
<1>7. \A x \in Services : isInGlobal'[x] <=> isInGlobal[x]
  OBVIOUS
<1>8. \A x \in Services : isProcessing'[x] <=> isProcessing[x]
  OBVIOUS
<1>9. \A x \in Services : HasWork(x)' => HasWork(x)
  BY <1>1, TailFacts DEF HasWork
<1>10. TypeOK'
  <2>1. todo[w] - 1 \in Nat /\ Tail(queue[que[w]]) \in Seq(Packles)
    BY <1>1, TailFacts
  <2> QED BY <2>1, <1>1
<1>11. PcOK'
  BY <1>1
<1>12. LockHeld'
  BY <1>1 DEF LockHeld, HoldsLock
<1>13. ForksAreThere'
  BY <1>1 DEF ForksAreThere
<1>14. BatchIsThere'
  BY <1>1, TailFacts DEF BatchIsThere, OneOwner, Owns
<1>15. FlagsAgree'
  BY <1>1, <1>5 DEF FlagsAgree
<1>16. PushersRight'
  BY <1>1, <1>2, <1>5 DEF PushersRight
<1>17. \A v \in Workers, x \in Services : Starting(v, x) => Owns(v, x)
  BY DEF Starting, Owns
<1>18. /\ que[w] \in Services /\ Owns(w, que[w])
      /\ \A x \in Services : Owns(w, x) => x = que[w]
  BY <1>1 DEF Owns, FlagsAgree
<1> HIDE DEF TakePackle, TypeOK, PcOK, PC, PushPC, Threads, InHandler, queueVars,
     workVars, pushVars, forkVars
<1>19. OneOwner'
  BY <1>2 DEF OneOwner
<1>20. GlobalDistinct'
  BY <1>4 DEF GlobalDistinct, QueuedOnce
<1>21. OwnedNotQueued'
  BY <1>2, <1>5 DEF OwnedNotQueued, QueuedOnce
<1>22. FlagsMeanToken'
  BY <1>2, <1>3, <1>5, <1>7, <1>8, <1>17 DEF FlagsMeanToken
<1>23. NoLostWakeup'
  BY <1>2, <1>5, <1>6, <1>9 DEF NoLostWakeup
<1> QED BY <1>10, <1>11, <1>12, <1>19, <1>20, <1>21, <1>15, <1>16, <1>13, <1>14,
     <1>22, <1>23 DEF IInv, QueuedOnce

\* IInv is preserved by Fork.
LEMMA ForkStep ==
    ASSUME NEW w \in Workers, IInv, Fork(w)
    PROVE  IInv'
<1> USE ThreadsAssumption, BoundsAssumption DEF IInv, Fork, TypeOK, PcOK, PC,
     PushPC, Threads, InHandler, queueVars, workVars, pushVars, forkVars
<1>1. w \in Threads /\ (pc[w] \notin {"idle", "exited"} => que[w] \in Services)
  OBVIOUS
<1>2. \A v \in Workers, x \in Services : Owns(v, x)' <=> Owns(v, x)
  BY <1>1 DEF Owns
<1>3. \A v \in Workers, x \in Services : Starting(v, x)' <=> Starting(v, x)
  BY <1>1 DEF Starting
<1>4. global' = global
  OBVIOUS
<1>5. \A x \in Services : InGlobalQueue(x)' <=> InGlobalQueue(x)
  BY <1>4 DEF InGlobalQueue
<1>6. \A u \in Threads, x \in Services : Deciding(u, x)' <=> Deciding(u, x)
  BY <1>1 DEF Deciding
<1>7. \A x \in Services : isInGlobal'[x] <=> isInGlobal[x]
  OBVIOUS
<1>8. \A x \in Services : isProcessing'[x] <=> isProcessing[x]
  OBVIOUS
<1>9. \A x \in Services : HasWork(x)' => HasWork(x) \/ x = que[w]
  BY <1>1 DEF HasWork
<1>10. TypeOK'
  BY <1>1, <1>4, SMTT(30)
<1>11. PcOK'
  BY <1>1
<1>12. LockHeld'
  BY <1>1 DEF LockHeld, HoldsLock
<1>13. ForksAreThere'
  BY <1>1 DEF ForksAreThere
<1>14. BatchIsThere'
  BY <1>1 DEF BatchIsThere
<1>15. FlagsAgree'
  BY <1>1, <1>5 DEF FlagsAgree
<1>16. PushersRight'
  BY <1>1, <1>2, <1>5 DEF PushersRight
<1>17. \A v \in Workers, x \in Services : Starting(v, x) => Owns(v, x)
  BY DEF Starting, Owns
<1>18. /\ que[w] \in Services /\ Owns(w, que[w])
      /\ \A x \in Services : Owns(w, x) => x = que[w]
  BY <1>1 DEF Owns, FlagsAgree
<1> HIDE DEF Fork, TypeOK, PcOK, PC, PushPC, Threads, InHandler, queueVars,
     workVars, pushVars, forkVars
<1>19. OneOwner'
  BY <1>2 DEF OneOwner
<1>20. GlobalDistinct'
  BY <1>4 DEF GlobalDistinct, QueuedOnce
<1>21. OwnedNotQueued'
  BY <1>2, <1>5 DEF OwnedNotQueued, QueuedOnce
<1>22. FlagsMeanToken'
  BY <1>2, <1>3, <1>5, <1>7, <1>8, <1>17 DEF FlagsMeanToken
<1>23. NoLostWakeup'
  BY <1>2, <1>5, <1>6, <1>9, <1>18 DEF NoLostWakeup
<1> QED BY <1>10, <1>11, <1>12, <1>19, <1>20, <1>21, <1>15, <1>16, <1>13, <1>14,
     <1>22, <1>23 DEF IInv, QueuedOnce

\* IInv is preserved by HandlerReturns.
LEMMA HandlerReturnsStep ==
    ASSUME NEW w \in Workers, IInv, HandlerReturns(w)
    PROVE  IInv'
<1> USE ThreadsAssumption, BoundsAssumption DEF IInv, HandlerReturns, TypeOK, PcOK,
     PC, PushPC, Threads, InHandler, queueVars, workVars, pushVars, forkVars
<1>1. w \in Threads /\ (pc[w] \notin {"idle", "exited"} => que[w] \in Services)
  OBVIOUS
<1>2. \A v \in Workers, x \in Services : Owns(v, x)' <=> Owns(v, x)
  BY <1>1 DEF Owns
<1>3. \A v \in Workers, x \in Services : Starting(v, x)' <=> Starting(v, x)
  BY <1>1 DEF Starting
<1>4. global' = global
  OBVIOUS
<1>5. \A x \in Services : InGlobalQueue(x)' <=> InGlobalQueue(x)
  BY <1>4 DEF InGlobalQueue
<1>6. \A u \in Threads, x \in Services : Deciding(u, x)' <=> Deciding(u, x)
  BY <1>1 DEF Deciding
<1>7. \A x \in Services : isInGlobal'[x] <=> isInGlobal[x]
  OBVIOUS
<1>8. \A x \in Services : isProcessing'[x] <=> isProcessing[x]
  OBVIOUS
<1>9. \A x \in Services : HasWork(x)' => HasWork(x)
  BY <1>1 DEF HasWork
<1>10. TypeOK'
  BY <1>1, <1>4
<1>11. PcOK'
  BY <1>1
<1>12. LockHeld'
  BY <1>1 DEF LockHeld, HoldsLock
<1>13. ForksAreThere'
  BY <1>1 DEF ForksAreThere
<1>14. BatchIsThere'
  BY <1>1 DEF BatchIsThere
<1>15. FlagsAgree'
  BY <1>1, <1>5 DEF FlagsAgree
<1>16. PushersRight'
  BY <1>1, <1>2, <1>5 DEF PushersRight
<1>17. \A v \in Workers, x \in Services : Starting(v, x) => Owns(v, x)
  BY DEF Starting, Owns
<1>18. /\ que[w] \in Services /\ Owns(w, que[w])
      /\ \A x \in Services : Owns(w, x) => x = que[w]
  BY <1>1 DEF Owns, FlagsAgree
<1> HIDE DEF HandlerReturns, TypeOK, PcOK, PC, PushPC, Threads, InHandler,
     queueVars, workVars, pushVars, forkVars
<1>19. OneOwner'
  BY <1>2 DEF OneOwner
<1>20. GlobalDistinct'
  BY <1>4 DEF GlobalDistinct, QueuedOnce
<1>21. OwnedNotQueued'
  BY <1>2, <1>5 DEF OwnedNotQueued, QueuedOnce
<1>22. FlagsMeanToken'
  BY <1>2, <1>3, <1>5, <1>7, <1>8, <1>17 DEF FlagsMeanToken
<1>23. NoLostWakeup'
  BY <1>2, <1>5, <1>6, <1>9 DEF NoLostWakeup
<1> QED BY <1>10, <1>11, <1>12, <1>19, <1>20, <1>21, <1>15, <1>16, <1>13, <1>14,
     <1>22, <1>23 DEF IInv, QueuedOnce

\* IInv is preserved by FinishLock.
LEMMA FinishLockStep ==
    ASSUME NEW w \in Workers, IInv, FinishLock(w)
    PROVE  IInv'
<1> USE ThreadsAssumption, BoundsAssumption DEF IInv, FinishLock, TypeOK, PcOK, PC,
     PushPC, Threads, InHandler, queueVars, workVars, pushVars, forkVars
<1>1. w \in Threads /\ (pc[w] \notin {"idle", "exited"} => que[w] \in Services)
  OBVIOUS
<1>2. \A v \in Workers, x \in Services : Owns(v, x)' <=> Owns(v, x)
  BY <1>1 DEF Owns
<1>3. \A v \in Workers, x \in Services : Starting(v, x)' <=> Starting(v, x)
  BY <1>1 DEF Starting
<1>4. global' = global
  OBVIOUS
<1>5. \A x \in Services : InGlobalQueue(x)' <=> InGlobalQueue(x)
  BY <1>4 DEF InGlobalQueue
<1>6. \A u \in Threads, x \in Services : Deciding(u, x)' <=> Deciding(u, x)
  BY <1>1 DEF Deciding
<1>7. \A x \in Services : isInGlobal'[x] <=> isInGlobal[x]
  OBVIOUS
<1>8. \A x \in Services : isProcessing'[x] <=> isProcessing[x] /\ x # que[w]
  BY <1>1
<1>9. \A x \in Services : HasWork(x)' => HasWork(x)
  BY <1>1 DEF HasWork
<1>10. TypeOK'
  BY <1>1, <1>4
<1>11. PcOK'
  BY <1>1
<1>12. LockHeld'
  BY <1>1 DEF LockHeld, HoldsLock
<1>13. ForksAreThere'
  BY <1>1 DEF ForksAreThere
<1>14. BatchIsThere'
  BY <1>1 DEF BatchIsThere
<1>15. FlagsAgree'
  BY <1>1, <1>5 DEF FlagsAgree, OneOwner, Owns
<1>16. PushersRight'
  BY <1>1, <1>2, <1>5 DEF PushersRight
<1>17. \A v \in Workers, x \in Services : Starting(v, x) => Owns(v, x)
  BY DEF Starting, Owns
<1>18. /\ que[w] \in Services /\ Owns(w, que[w])
      /\ \A x \in Services : Owns(w, x) => x = que[w]
  BY <1>1 DEF Owns, FlagsAgree
<1> HIDE DEF FinishLock, TypeOK, PcOK, PC, PushPC, Threads, InHandler, queueVars,
     workVars, pushVars, forkVars
<1>19. OneOwner'
  BY <1>2 DEF OneOwner
<1>20. GlobalDistinct'
  BY <1>4 DEF GlobalDistinct, QueuedOnce
<1>21. OwnedNotQueued'
  BY <1>2, <1>5 DEF OwnedNotQueued, QueuedOnce
<1>22. FlagsMeanToken'
  BY <1>2, <1>3, <1>5, <1>7, <1>8, <1>17, <1>18 DEF FlagsMeanToken
<1>23. NoLostWakeup'
  BY <1>2, <1>5, <1>6, <1>9 DEF NoLostWakeup
<1> QED BY <1>10, <1>11, <1>12, <1>19, <1>20, <1>21, <1>15, <1>16, <1>13, <1>14,
     <1>22, <1>23 DEF IInv, QueuedOnce

\* IInv is preserved by FinishRequeue.
LEMMA FinishRequeueStep ==
    ASSUME NEW w \in Workers, IInv, FinishRequeue(w)
    PROVE  IInv'
<1> USE ThreadsAssumption, BoundsAssumption DEF IInv, FinishRequeue, GlobalPush,
     TypeOK, PcOK, PC, PushPC, Threads, InHandler, queueVars, workVars, pushVars,
     forkVars
<1>1. w \in Threads /\ (pc[w] \notin {"idle", "exited"} => que[w] \in Services)
  OBVIOUS
<1>2. \A v \in Workers, x \in Services : Owns(v, x)' <=> Owns(v, x) /\ v # w
  BY <1>1 DEF Owns
<1>3. \A v \in Workers, x \in Services : Starting(v, x)' <=> Starting(v, x)
  BY <1>1 DEF Starting
<1>4. /\ global' \in Seq(Services) /\ Len(global') = Len(global) + 1 /\ Len(global) \in Nat
      /\ \A i \in 1..Len(global) : global'[i] = global[i]
      /\ global'[Len(global) + 1] = que[w]
  BY <1>1, AppendFacts
<1>5. \A x \in Services : InGlobalQueue(x)' <=> InGlobalQueue(x) \/ x = que[w]
  BY <1>1, <1>4 DEF InGlobalQueue
<1>6. \A u \in Threads, x \in Services : Deciding(u, x)' <=> Deciding(u, x)
  BY <1>1 DEF Deciding
<1>7. \A x \in Services : isInGlobal'[x] <=> isInGlobal[x] \/ x = que[w]
  BY <1>1
<1>8. \A x \in Services : isProcessing'[x] <=> isProcessing[x]
  OBVIOUS
<1>9. \A x \in Services : HasWork(x)' => HasWork(x)
  BY <1>1 DEF HasWork
<1>10. TypeOK'
  BY <1>1, <1>4
<1>11. PcOK'
  BY <1>1
<1>12. LockHeld'
  BY <1>1 DEF LockHeld, HoldsLock
<1>13. ForksAreThere'
  BY <1>1 DEF ForksAreThere
<1>14. BatchIsThere'
  BY <1>1 DEF BatchIsThere
<1>15. FlagsAgree'
  BY <1>1, <1>5, <1>7 DEF FlagsAgree
<1>16. PushersRight'
  <2>1. \A u \in Threads : push[u] # "no" => u # w /\ dest[u] # que[w]
    <3>1. lock[que[w]] = w /\ push[w] = "no"
      BY <1>1 DEF LockHeld, HoldsLock
    <3>2. \A u \in Threads : push[u] # "no" => lock[dest[u]] = u
      BY DEF LockHeld, HoldsLock
    <3> QED BY <3>1, <3>2
  <2>2. \A x \in Services : x # que[w] => isInGlobal'[x] = isInGlobal[x]
    BY <1>1
  <2>3. push' = push /\ dest' = dest
    OBVIOUS
  <2> QED BY <2>1, <2>2, <2>3, <1>2, <1>5 DEF PushersRight
<1>17. \A v \in Workers, x \in Services : Starting(v, x) => Owns(v, x)
  BY DEF Starting, Owns
<1>18. /\ que[w] \in Services /\ Owns(w, que[w])
      /\ \A x \in Services : Owns(w, x) => x = que[w]
      /\ ~isProcessing[que[w]]
  BY <1>1 DEF Owns, FlagsAgree
<1> HIDE DEF FinishRequeue, GlobalPush, TypeOK, PcOK, PC, PushPC, Threads,
     InHandler, queueVars, workVars, pushVars, forkVars
<1>19. OneOwner'
  BY <1>2 DEF OneOwner
<1>20. GlobalDistinct'
  BY <1>18, <1>4 DEF GlobalDistinct, QueuedOnce, OwnedNotQueued, InGlobalQueue
<1>21. OwnedNotQueued'
  BY <1>2, <1>5, <1>18 DEF OwnedNotQueued, QueuedOnce, OneOwner
<1>22. FlagsMeanToken'
  BY <1>2, <1>3, <1>5, <1>7, <1>8, <1>17, <1>18 DEF FlagsMeanToken
<1>23. NoLostWakeup'
  BY <1>2, <1>5, <1>6, <1>9, <1>18 DEF NoLostWakeup
<1> QED BY <1>10, <1>11, <1>12, <1>19, <1>20, <1>21, <1>15, <1>16, <1>13, <1>14,
     <1>22, <1>23 DEF IInv, QueuedOnce

\* IInv is preserved by FinishDrained.
LEMMA FinishDrainedStep ==
    ASSUME NEW w \in Workers, IInv, FinishDrained(w)
    PROVE  IInv'
<1> USE ThreadsAssumption, BoundsAssumption DEF IInv, FinishDrained, TypeOK, PcOK,
     PC, PushPC, Threads, InHandler, queueVars, workVars, pushVars, forkVars
<1>1. w \in Threads /\ (pc[w] \notin {"idle", "exited"} => que[w] \in Services)
  OBVIOUS
<1>2. \A v \in Workers, x \in Services : Owns(v, x)' <=> Owns(v, x) /\ v # w
  BY <1>1 DEF Owns
<1>3. \A v \in Workers, x \in Services : Starting(v, x)' <=> Starting(v, x)
  BY <1>1 DEF Starting
<1>4. global' = global
  OBVIOUS
<1>5. \A x \in Services : InGlobalQueue(x)' <=> InGlobalQueue(x)
  BY <1>4 DEF InGlobalQueue
<1>6. \A u \in Threads, x \in Services : Deciding(u, x)' <=> Deciding(u, x)
  BY <1>1 DEF Deciding
<1>7. \A x \in Services : isInGlobal'[x] <=> isInGlobal[x]
  OBVIOUS
<1>8. \A x \in Services : isProcessing'[x] <=> isProcessing[x]
  OBVIOUS
<1>9. \A x \in Services : HasWork(x)' => HasWork(x) /\ x # que[w]
  BY <1>1 DEF HasWork
<1>10. TypeOK'
  BY <1>1, <1>4
<1>11. PcOK'
  BY <1>1
<1>12. LockHeld'
  BY <1>1 DEF LockHeld, HoldsLock
<1>13. ForksAreThere'
  BY <1>1 DEF ForksAreThere
<1>14. BatchIsThere'
  BY <1>1 DEF BatchIsThere
<1>15. FlagsAgree'
  BY <1>1, <1>5 DEF FlagsAgree
<1>16. PushersRight'
  BY <1>1, <1>2, <1>5 DEF PushersRight
<1>17. \A v \in Workers, x \in Services : Starting(v, x) => Owns(v, x)
  BY DEF Starting, Owns
<1>18. /\ que[w] \in Services /\ Owns(w, que[w])
      /\ \A x \in Services : Owns(w, x) => x = que[w]
      /\ ~isProcessing[que[w]]
  BY <1>1 DEF Owns, FlagsAgree
<1> HIDE DEF FinishDrained, TypeOK, PcOK, PC, PushPC, Threads, InHandler, queueVars,
     workVars, pushVars, forkVars
<1>19. OneOwner'
  BY <1>2 DEF OneOwner
<1>20. GlobalDistinct'
  BY <1>4 DEF GlobalDistinct, QueuedOnce
<1>21. OwnedNotQueued'
  BY <1>2, <1>5 DEF OwnedNotQueued, QueuedOnce
<1>22. FlagsMeanToken'
  BY <1>2, <1>3, <1>5, <1>7, <1>8, <1>17, <1>18 DEF FlagsMeanToken
<1>23. NoLostWakeup'
  BY <1>2, <1>5, <1>6, <1>9, <1>18 DEF NoLostWakeup
<1> QED BY <1>10, <1>11, <1>12, <1>19, <1>20, <1>21, <1>15, <1>16, <1>13, <1>14,
     <1>22, <1>23 DEF IInv, QueuedOnce

\* IInv is preserved by FinishUnlock.
LEMMA FinishUnlockStep ==
    ASSUME NEW w \in Workers, IInv, FinishUnlock(w)
    PROVE  IInv'
<1> USE ThreadsAssumption, BoundsAssumption DEF IInv, FinishUnlock, TypeOK, PcOK,
     PC, PushPC, Threads, InHandler, queueVars, workVars, pushVars, forkVars
<1>1. w \in Threads /\ (pc[w] \notin {"idle", "exited"} => que[w] \in Services)
  OBVIOUS
<1>2. \A v \in Workers, x \in Services : Owns(v, x)' <=> Owns(v, x)
  BY <1>1 DEF Owns
<1>3. \A v \in Workers, x \in Services : Starting(v, x)' <=> Starting(v, x)
  BY <1>1 DEF Starting
<1>4. global' = global
  OBVIOUS
<1>5. \A x \in Services : InGlobalQueue(x)' <=> InGlobalQueue(x)
  BY <1>4 DEF InGlobalQueue
<1>6. \A u \in Threads, x \in Services : Deciding(u, x)' <=> Deciding(u, x)
  BY <1>1 DEF Deciding
<1>7. \A x \in Services : isInGlobal'[x] <=> isInGlobal[x]
  OBVIOUS
<1>8. \A x \in Services : isProcessing'[x] <=> isProcessing[x]
  OBVIOUS
<1>9. \A x \in Services : HasWork(x)' => HasWork(x)
  BY <1>1 DEF HasWork
<1>10. TypeOK'
  BY <1>1, <1>4
<1>11. PcOK'
  BY <1>1
<1>12. LockHeld'
  <2>1. \A u \in Threads, x \in Services : HoldsLock(u, x)' => u # w /\ HoldsLock(u, x)
    BY <1>1 DEF HoldsLock
  <2>2. \A u \in Threads : u # w => ~HoldsLock(u, que[w])
    BY <1>1 DEF LockHeld, HoldsLock
  <2> QED BY <2>1, <2>2, <1>1 DEF LockHeld
<1>13. ForksAreThere'
  BY <1>1 DEF ForksAreThere
<1>14. BatchIsThere'
  BY <1>1 DEF BatchIsThere
<1>15. FlagsAgree'
  BY <1>1, <1>5 DEF FlagsAgree
<1>16. PushersRight'
  BY <1>1, <1>2, <1>5 DEF PushersRight
<1>17. \A v \in Workers, x \in Services : Starting(v, x) => Owns(v, x)
  BY DEF Starting, Owns
<1> HIDE DEF FinishUnlock, TypeOK, PcOK, PC, PushPC, Threads, InHandler, queueVars,
     workVars, pushVars, forkVars
<1>18. OneOwner'
  BY <1>2 DEF OneOwner
<1>19. GlobalDistinct'
  BY <1>4 DEF GlobalDistinct, QueuedOnce
<1>20. OwnedNotQueued'
  BY <1>2, <1>5 DEF OwnedNotQueued, QueuedOnce
<1>21. FlagsMeanToken'
  BY <1>2, <1>3, <1>5, <1>7, <1>8, <1>17 DEF FlagsMeanToken
<1>22. NoLostWakeup'
  BY <1>2, <1>5, <1>6, <1>9 DEF NoLostWakeup
<1> QED BY <1>10, <1>11, <1>12, <1>18, <1>19, <1>20, <1>15, <1>16, <1>13, <1>14,
     <1>21, <1>22 DEF IInv, QueuedOnce

\* IInv is preserved by Exit.
LEMMA ExitStep ==
    ASSUME NEW w \in Workers, IInv, Exit(w)
    PROVE  IInv'
<1> USE ThreadsAssumption, BoundsAssumption DEF IInv, Exit, TypeOK, PcOK, PC,
     PushPC, Threads, InHandler, queueVars, workVars, pushVars, forkVars
<1>1. w \in Threads /\ (pc[w] \notin {"idle", "exited"} => que[w] \in Services)
  OBVIOUS
<1>2. \A v \in Workers, x \in Services : Owns(v, x)' <=> Owns(v, x)
  BY <1>1 DEF Owns
<1>3. \A v \in Workers, x \in Services : Starting(v, x)' <=> Starting(v, x)
  BY <1>1 DEF Starting
<1>4. global' = global
  OBVIOUS
<1>5. \A x \in Services : InGlobalQueue(x)' <=> InGlobalQueue(x)
  BY <1>4 DEF InGlobalQueue
<1>6. \A u \in Threads, x \in Services : Deciding(u, x)' <=> Deciding(u, x)
  BY <1>1 DEF Deciding
<1>7. \A x \in Services : isInGlobal'[x] <=> isInGlobal[x]
  OBVIOUS
<1>8. \A x \in Services : isProcessing'[x] <=> isProcessing[x]
  OBVIOUS
<1>9. \A x \in Services : HasWork(x)' => HasWork(x)
  BY <1>1 DEF HasWork
<1>10. TypeOK'
  BY <1>1, <1>4
<1>11. PcOK'
  BY <1>1
<1>12. LockHeld'
  BY <1>1 DEF LockHeld, HoldsLock
<1>13. ForksAreThere'
  BY <1>1 DEF ForksAreThere
<1>14. BatchIsThere'
  BY <1>1 DEF BatchIsThere
<1>15. FlagsAgree'
  BY <1>1, <1>5 DEF FlagsAgree
<1>16. PushersRight'
  BY <1>1, <1>2, <1>5 DEF PushersRight
<1>17. \A v \in Workers, x \in Services : Starting(v, x) => Owns(v, x)
  BY DEF Starting, Owns
<1> HIDE DEF Exit, TypeOK, PcOK, PC, PushPC, Threads, InHandler, queueVars,
     workVars, pushVars, forkVars
<1>18. OneOwner'
  BY <1>2 DEF OneOwner
<1>19. GlobalDistinct'
  BY <1>4 DEF GlobalDistinct, QueuedOnce
<1>20. OwnedNotQueued'
  BY <1>2, <1>5 DEF OwnedNotQueued, QueuedOnce
<1>21. FlagsMeanToken'
  BY <1>2, <1>3, <1>5, <1>7, <1>8, <1>17 DEF FlagsMeanToken
<1>22. NoLostWakeup'
  BY <1>2, <1>5, <1>6, <1>9 DEF NoLostWakeup
<1> QED BY <1>10, <1>11, <1>12, <1>18, <1>19, <1>20, <1>15, <1>16, <1>13, <1>14,
     <1>21, <1>22 DEF IInv, QueuedOnce

-----------------------------------------------------------------------------

\* The initial states satisfy it.
LEMMA InitIInv == Init => IInv
<1> SUFFICES ASSUME Init PROVE IInv
  OBVIOUS
<1> USE ThreadsAssumption DEF Init, Threads
<1>1. TypeOK
  BY DEF TypeOK, PC, PushPC
<1>2. PcOK /\ LockHeld
  BY DEF PcOK, LockHeld, HoldsLock
<1>3. \A s \in Services : ~InGlobalQueue(s) /\ ~HasWork(s) /\ \A w \in Workers : ~Owns(w, s)
  <2>1. 1..Len(global) = {}
    <3>1. Len(global) = 0
      OBVIOUS
    <3> QED BY <3>1
  <2>2. \A s \in Services : queue[s] = <<>> /\ forking[s] = 0
    OBVIOUS
  <2>3. \A s \in Services, w \in Workers : ~Owns(w, s)
    BY DEF Owns
  <2>4. ~(0 > 0)
    OBVIOUS
  <2> HIDE DEF Init
  <2>5. \A s \in Services : ~HasWork(s)
    BY <2>2, <2>4 DEF HasWork
  <2>6. \A s \in Services : ~InGlobalQueue(s)
    BY <2>1 DEF InGlobalQueue
  <2> QED BY <2>3, <2>5, <2>6
<1>4. OneOwner /\ QueuedOnce /\ FlagsMeanToken /\ NoLostWakeup
  BY <1>3 DEF OneOwner, QueuedOnce, GlobalDistinct, OwnedNotQueued, FlagsMeanToken,
       NoLostWakeup
<1>5. FlagsAgree /\ PushersRight /\ ForksAreThere /\ BatchIsThere
  BY <1>3 DEF FlagsAgree, PushersRight, ForksAreThere, BatchIsThere
<1> QED BY <1>1, <1>2, <1>4, <1>5 DEF IInv

\* stop() and stuttering change nothing the invariant speaks of, except
\* running, which only TypeOK mentions.
LEMMA IdleStep == ASSUME IInv, Stop \/ UNCHANGED vars PROVE IInv'
<1> USE DEF Stop, vars, queueVars, workVars, pushVars, forkVars
<1>1. TypeOK' /\ PcOK' /\ LockHeld'
  BY DEF IInv, TypeOK, PcOK, InHandler, LockHeld, HoldsLock
<1>2. OneOwner' /\ QueuedOnce' /\ FlagsAgree' /\ PushersRight'
  BY DEF IInv, OneOwner, QueuedOnce, GlobalDistinct, OwnedNotQueued, FlagsAgree,
         PushersRight, Owns, InGlobalQueue
<1>3. ForksAreThere' /\ BatchIsThere'
  BY DEF IInv, ForksAreThere, BatchIsThere
<1>4. FlagsMeanToken' /\ NoLostWakeup'
  BY DEF IInv, FlagsMeanToken, NoLostWakeup, Starting, Owns, InGlobalQueue,
         HasWork, Deciding
<1> QED BY <1>1, <1>2, <1>3, <1>4 DEF IInv

\* Every step preserves it.
LEMMA NextIInv == ASSUME IInv, [Next]_vars PROVE IInv'
<1>1. ASSUME NEW t \in Threads, Push(t) PROVE IInv'
  BY <1>1, PushLockStep, PushReadInGlobalStep, PushReadProcessingStep,
     PushEnqueueStep, PushUnlockStep DEF Push
<1>2. ASSUME NEW w \in Workers, Work(w) PROVE IInv'
  BY <1>2, ClaimStep, MarkProcessingStep, ClearInGlobalStep, ResumeForkStep,
     ReadSizeStep, TakePackleStep, ForkStep, HandlerReturnsStep, FinishLockStep,
     FinishRequeueStep, FinishDrainedStep, FinishUnlockStep, ExitStep DEF Work
<1>3. ASSUME Stop \/ UNCHANGED vars PROVE IInv'
  BY <1>3, IdleStep
<1> QED BY <1>1, <1>2, <1>3 DEF Next

\* Every reachable state satisfies the inductive invariant.
THEOREM Invariance == Spec => []IInv
<1>1. Init => IInv
  BY InitIInv
<1>2. IInv /\ [Next]_vars => IInv'
  BY NextIInv
<1> QED BY <1>1, <1>2, PTL DEF Spec

\* The variables keep their types; in particular no count of coroutines or
\* packles left to run goes below zero.
THEOREM TypeCorrect == Spec => []TypeOK
<1>1. IInv => TypeOK
  BY DEF IInv
<1> QED BY <1>1, Invariance, PTL

\* README.md:35, for any number of services, workers and pushing threads: at
\* most one worker executes code of a service.
THEOREM OneThread == Spec => []OneThreadPerService
<1>1. IInv => OneThreadPerService
  BY DEF IInv, OneOwner, OneThreadPerService, Inside, Owns
<1> QED BY <1>1, Invariance, PTL

\* A service is never twice in the global queue, nor there while owned.
THEOREM NeverQueuedTwice == Spec => []QueuedOnce
<1>1. IInv => QueuedOnce
  BY DEF IInv
<1> QED BY <1>1, Invariance, PTL

\* assert(packle) at workThread.cc:63 cannot fail.
THEOREM AssertPackleHolds == Spec => []BatchIsThere
<1>1. IInv => BatchIsThere
  BY DEF IInv
<1> QED BY <1>1, Invariance, PTL

\* Whoever has work is known to a worker, to the global queue or to a push
\* that is about to decide: no wake-up is lost to the unlocked flags.
THEOREM WakeupsKept == Spec => []NoLostWakeup
<1>1. IInv => NoLostWakeup
  BY DEF IInv
<1> QED BY <1>1, Invariance, PTL
-----------------------------------------------------------------------------
(* Refinement of ServiceMailbox.                                           *)

\* What ServiceMailbox calls inside.
InsideOf == [s \in Services |-> {w \in Workers : Inside(w, s)}]

\* Initially every mailbox is empty and nobody is inside.
LEMMA InitMaps == Init => Mailbox!Init
  BY DEF Init, Mailbox!Init, Inside

\* Nobody enters or leaves a service: the mapped inside does not change.
LEMMA InsideKept ==
    ASSUME \A v \in Workers, x \in Services : Inside(v, x)' <=> Inside(v, x)
    PROVE  InsideOf' = InsideOf
  BY DEF InsideOf

\* The first step of push sends the packle.
LEMMA SendMaps ==
    ASSUME IInv, NEW t \in Threads, NEW s \in Services, PushLock(t, s)
    PROVE  Mailbox!Next
<1>1. <<t, sent[t] + 1>> \in Packles
  BY BoundsAssumption DEF PushLock, Packles, IInv, TypeOK
<1>2. InsideOf' = InsideOf
  BY InsideKept DEF PushLock, workVars, Inside
<1>3. Mailbox!Send(s, <<t, sent[t] + 1>>)
  BY <1>2 DEF PushLock, Mailbox!Send, InsideOf
<1> QED BY <1>1, <1>3 DEF Mailbox!Next

\* PackleQueue::pop takes it.
LEMMA TakeMaps ==
    ASSUME IInv, NEW w \in Workers, TakePackle(w)
    PROVE  Mailbox!Next
<1>1. que[w] \in Services
  BY DEF TakePackle, IInv, PcOK
<1>2. InsideOf' = InsideOf
  BY InsideKept DEF TakePackle, Inside, IInv, TypeOK
<1>3. w \in InsideOf[que[w]]
  BY <1>1 DEF TakePackle, Inside, InsideOf
<1>4. Mailbox!Take(w, que[w])
  BY <1>2, <1>3 DEF TakePackle, Mailbox!Take, InsideOf
<1> QED BY <1>1, <1>4 DEF Mailbox!Next

\* A worker is admitted when startProcess is done.
LEMMA EnterMaps ==
    ASSUME IInv, NEW w \in Workers, ClearInGlobal(w)
    PROVE  Mailbox!Next
<1>1. que[w] \in Services
  BY DEF ClearInGlobal, IInv, PcOK
<1>2. InsideOf[que[w]] = {}
  <2>1. \A v \in Workers : Owns(v, que[w]) => v = w
    BY <1>1 DEF ClearInGlobal, IInv, OneOwner, Owns
  <2>2. \A v \in Workers : ~Inside(v, que[w])
    BY <2>1 DEF ClearInGlobal, Inside, Owns
  <2> QED BY <1>1, <2>2 DEF InsideOf
<1>3. \A v \in Workers, x \in Services :
        Inside(v, x)' <=> Inside(v, x) \/ (v = w /\ x = que[w])
  BY <1>1 DEF ClearInGlobal, Inside, IInv, TypeOK
<1>4. InsideOf' = [InsideOf EXCEPT ![que[w]] = {w}]
  <2>1. \A v \in Workers : ~Inside(v, que[w])
    BY <1>1, <1>2 DEF InsideOf
  <2>2. \A x \in Services :
          {v \in Workers : Inside(v, x)'} =
            IF x = que[w] THEN {w} ELSE {v \in Workers : Inside(v, x)}
    BY <1>3, <2>1
  <2> QED BY <1>1, <2>2 DEF InsideOf
<1>5. Mailbox!Enter(w, que[w])
  BY <1>2, <1>4 DEF ClearInGlobal, Mailbox!Enter, InsideOf
<1> QED BY <1>1, <1>5 DEF Mailbox!Next

\* It leaves in finishProcess.
LEMMA LeaveMaps ==
    ASSUME IInv, NEW w \in Workers, FinishLock(w)
    PROVE  Mailbox!Next
<1>1. que[w] \in Services
  BY DEF FinishLock, IInv, PcOK
<1>2. w \in InsideOf[que[w]]
  BY <1>1 DEF FinishLock, InsideOf, Inside
<1>3. \A v \in Workers, x \in Services :
        Inside(v, x)' <=> Inside(v, x) /\ ~(v = w /\ x = que[w])
  BY <1>1 DEF FinishLock, Inside, IInv, TypeOK
<1>4. InsideOf' = [InsideOf EXCEPT ![que[w]] = @ \ {w}]
  BY <1>1, <1>3 DEF InsideOf
<1>5. Mailbox!Leave(w, que[w])
  BY <1>2, <1>4 DEF FinishLock, Mailbox!Leave, InsideOf
<1> QED BY <1>1, <1>5 DEF Mailbox!Next

\* Every other action leaves the mailboxes and who is inside alone.
OtherStep ==
    \/ \E t \in Threads : PushReadInGlobal(t) \/ PushReadProcessing(t)
                          \/ PushEnqueue(t) \/ PushUnlock(t)
    \/ \E w \in Workers :
          \/ Claim(w) \/ MarkProcessing(w) \/ ResumeFork(w) \/ ReadSize(w)
          \/ Fork(w) \/ HandlerReturns(w) \/ FinishRequeue(w)
          \/ FinishDrained(w) \/ FinishUnlock(w) \/ Exit(w)
    \/ Stop \/ UNCHANGED vars

\* They are stuttering steps of the mailboxes.
LEMMA OthersMap == ASSUME IInv, OtherStep PROVE UNCHANGED Mailbox!vars
<1> USE DEF queueVars, workVars, pushVars, forkVars
<1>1. queue' = queue
  BY DEF OtherStep, PushReadInGlobal, PushReadProcessing, PushEnqueue, PushUnlock,
         Claim, MarkProcessing, ResumeFork, ReadSize, Fork, HandlerReturns,
         FinishRequeue, FinishDrained, FinishUnlock, Exit, Stop, vars
<1>2. SUFFICES ASSUME NEW v \in Workers, NEW x \in Services
               PROVE  Inside(v, x)' <=> Inside(v, x)
  BY <1>1, InsideKept DEF Mailbox!vars, InsideOf
<1>3. CASE \E t \in Threads : PushReadInGlobal(t) \/ PushReadProcessing(t)
                              \/ PushEnqueue(t) \/ PushUnlock(t)
  BY <1>3 DEF PushReadInGlobal, PushReadProcessing, PushEnqueue, PushUnlock, Inside
<1>4. CASE \E w \in Workers : Claim(w) \/ MarkProcessing(w) \/ ResumeFork(w)
                              \/ ReadSize(w) \/ Fork(w)
  BY <1>4, SMTT(30)
     DEF Claim, MarkProcessing, ResumeFork, ReadSize, Fork, Inside, IInv, TypeOK
<1>5. CASE \E w \in Workers : HandlerReturns(w) \/ FinishRequeue(w)
                              \/ FinishDrained(w) \/ FinishUnlock(w) \/ Exit(w)
  BY <1>5 DEF HandlerReturns, FinishRequeue, FinishDrained, FinishUnlock, Exit,
              InHandler, Inside, IInv, TypeOK
<1>6. CASE Stop \/ UNCHANGED vars
  BY <1>6 DEF Stop, vars, Inside
<1> QED BY <1>2, <1>3, <1>4, <1>5, <1>6 DEF OtherStep

\* The scheduler with its flags, locks and global queue implements the plain
\* mailboxes of ServiceMailbox.
THEOREM ImplementsMailbox == Spec => MailboxSpec
<1>1. Init => Mailbox!Init
  BY InitMaps
<1>2. ASSUME IInv, [Next]_vars PROVE [Mailbox!Next]_(Mailbox!vars)
  <2>1. \/ OtherStep
        \/ \E t \in Threads, s \in Services : PushLock(t, s)
        \/ \E w \in Workers : TakePackle(w) \/ ClearInGlobal(w) \/ FinishLock(w)
    BY <1>2 DEF Next, Push, Work, OtherStep
  <2> QED BY <2>1, <1>2, SendMaps, TakeMaps, EnterMaps, LeaveMaps, OthersMap
<1> QED BY <1>1, <1>2, Invariance, PTL DEF Spec, MailboxSpec, Mailbox!Spec
=============================================================================
