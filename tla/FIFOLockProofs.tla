--------------------------- MODULE FIFOLockProofs ---------------------------
(***************************************************************************)
(* The state lock for any set of threads and any depth of nesting: types,  *)
(* mutual exclusion, no lost wake-up, and FIFO service as a refinement of  *)
(* FairLock.                                                               *)
(***************************************************************************)
EXTENDS FIFOLock, SequenceTheorems, TLAPS

\* What is left of a sequence when its i-th element leaves.
LEMMA LeaveProperties ==
    ASSUME NEW S, NEW q \in Seq(S), NEW i \in 1..Len(q)
    PROVE  /\ Fair!Leave(q, i) \in Seq(S)
           /\ Len(Fair!Leave(q, i)) = Len(q) - 1
           /\ \A j \in 1..(Len(q) - 1) :
                 Fair!Leave(q, i)[j] = IF j < i THEN q[j] ELSE q[j + 1]
<1> DEFINE r == Fair!Leave(q, i)
<1>1. Len(q) - 1 \in Nat
  BY LenProperties
<1>2. \A j \in 1..(Len(q) - 1) : j \in 1..Len(q) /\ j + 1 \in 1..Len(q)
  BY LenProperties
<1>3. r \in [1..(Len(q) - 1) -> S]
  BY <1>2, ElementOfSeq DEF Fair!Leave
<1>4. r \in Seq(S)
  BY <1>1, <1>3, SeqDef
<1>5. Len(r) = Len(q) - 1
  <2>1. DOMAIN r = 1..Len(r) /\ Len(r) \in Nat
    BY <1>4, LenProperties
  <2>2. DOMAIN r = 1..(Len(q) - 1)
    BY DEF Fair!Leave
  <2> QED
    BY <1>1, <2>1, <2>2
<1> QED
  BY <1>4, <1>5 DEF Fair!Leave

\* An element other than the first leaves: the head stays.
LEMMA LeaveFromTail ==
    ASSUME NEW S, NEW q \in Seq(S), NEW i \in 2..Len(q)
    PROVE  /\ q # <<>> /\ Fair!Leave(q, i) # <<>>
           /\ Head(Fair!Leave(q, i)) = Head(q)
           /\ i - 1 \in 1..Len(Tail(q))
           /\ Tail(Fair!Leave(q, i)) = Fair!Leave(Tail(q), i - 1)
<1> DEFINE r == Fair!Leave(q, i)
<1>1. Len(q) \in Nat /\ i \in 1..Len(q) /\ q # <<>>
  BY LenProperties, EmptySeq
<1>2. /\ r \in Seq(S) /\ Len(r) = Len(q) - 1
      /\ \A j \in 1..(Len(q) - 1) : r[j] = IF j < i THEN q[j] ELSE q[j + 1]
  BY <1>1, LeaveProperties
<1>3. r # <<>> /\ r[1] = q[1]
  BY <1>1, <1>2, EmptySeq
<1>4. Head(r) = Head(q)
  BY <1>1, <1>2, <1>3
<1>5. /\ Tail(q) \in Seq(S) /\ Len(Tail(q)) = Len(q) - 1
      /\ \A j \in 1..(Len(q) - 1) : Tail(q)[j] = q[j + 1]
  BY <1>1, HeadTailProperties
<1>6. /\ Tail(r) \in Seq(S) /\ Len(Tail(r)) = Len(q) - 2
      /\ \A j \in 1..(Len(q) - 2) : Tail(r)[j] = r[j + 1]
  BY <1>1, <1>2, <1>3, HeadTailProperties
<1>7. i - 1 \in 1..Len(Tail(q))
  BY <1>1, <1>5
<1> DEFINE s == Fair!Leave(Tail(q), i - 1)
<1>8. /\ s \in Seq(S) /\ Len(s) = Len(q) - 2
      /\ \A j \in 1..(Len(q) - 2) : s[j] = IF j < i - 1 THEN Tail(q)[j] ELSE Tail(q)[j + 1]
  <2>1. /\ s \in Seq(S) /\ Len(s) = Len(Tail(q)) - 1
        /\ \A j \in 1..(Len(Tail(q)) - 1) :
              s[j] = IF j < i - 1 THEN Tail(q)[j] ELSE Tail(q)[j + 1]
    BY <1>5, <1>7, LeaveProperties
  <2>2. Len(Tail(q)) - 1 = Len(q) - 2
    BY <1>1, <1>5
  <2> QED
    BY <2>1, <2>2
<1>9. \A j \in 1..(Len(q) - 2) : Tail(r)[j] = s[j]
  <2> SUFFICES ASSUME NEW j \in 1..(Len(q) - 2) PROVE Tail(r)[j] = s[j]
    OBVIOUS
  <2>1. j + 1 \in 1..(Len(q) - 1) /\ j \in 1..(Len(q) - 1)
    BY <1>1
  <2> HIDE DEF r, s
  <2>2. Tail(r)[j] = IF j + 1 < i THEN q[j + 1] ELSE q[(j + 1) + 1]
    BY <1>2, <1>6, <2>1
  <2>3. s[j] = IF j < i - 1 THEN q[j + 1] ELSE q[(j + 1) + 1]
    <3>1. Tail(q)[j] = q[j + 1] /\ Tail(q)[j + 1] = q[(j + 1) + 1]
      BY <1>5, <2>1
    <3>2. s[j] = IF j < i - 1 THEN Tail(q)[j] ELSE Tail(q)[j + 1]
      BY <1>8
    <3> QED
      BY <3>1, <3>2
  <2> QED
    <3>1. j + 1 < i <=> j < i - 1
      BY <1>1
    <3>2. CASE j + 1 < i
      BY <2>2, <2>3, <3>1, <3>2, Zenon
    <3>3. CASE ~(j + 1 < i)
      BY <2>2, <2>3, <3>1, <3>3, Zenon
    <3> QED
      BY <3>2, <3>3
<1>10. Tail(r) = s
  <2> HIDE DEF r, s
  <2> QED
    BY <1>1, <1>6, <1>8, <1>9, SeqEqual
<1> QED
  BY <1>1, <1>3, <1>4, <1>7, <1>10

-----------------------------------------------------------------------------

\* Who is in the queue: each waiting thread once, and no other.
QueueInv ==
    /\ \A i, j \in 1..Len(waiters) : waiters[i] = waiters[j] => i = j
    /\ \A i \in 1..Len(waiters) : pc[waiters[i]] \in Waiting
    /\ \A t \in timed : pc[t] = "wait"

\* What the owner's levels are, and that nobody else has any.
OwnerInv ==
    /\ owner = None <=> count = 0
    /\ owner # None => pc[owner] \in {"run", "restore"}
    /\ \A t \in Threads : owner # t => held[t] = 0
    /\ \A t \in Threads : owner = t /\ pc[t] = "run" => held[t] = count
    /\ \A t \in Threads : pc[t] = "restore" => owner = t /\ held[t] = 0
    /\ \A t \in Threads : pc[t] \in {"rewait", "restore"} => saved[t] > 0

\* A thread has been notified exactly when the lock has been handed to it.
WokenInv ==
    /\ NoLostWakeup
    /\ \A t \in woken : Handed /\ Head(waiters) = t

LInv == TypeOK /\ QueueInv /\ OwnerInv /\ WokenInv

USE LockAssumption

LEMMA InitInv == Init => LInv
  BY DEF Init, LInv, TypeOK, QueueInv, OwnerInv, WokenInv, NoLostWakeup, Handed, Waiting

\* The thread at the head, and the sequence behind it.
LEMMA HeadFacts ==
    ASSUME TypeOK, waiters # <<>>
    PROVE  /\ Len(waiters) \in Nat \ {0}
           /\ Head(waiters) = waiters[1] /\ Head(waiters) \in Threads
           /\ Tail(waiters) \in Seq(Threads) /\ Len(Tail(waiters)) = Len(waiters) - 1
           /\ \A i \in 1..Len(Tail(waiters)) : Tail(waiters)[i] = waiters[i + 1]
  BY EmptySeq, HeadTailProperties DEF TypeOK

\* A thread that is running is in no queue.
LEMMA NotQueued ==
    ASSUME LInv, NEW t \in Threads, pc[t] \notin Waiting
    PROVE  \A i \in 1..Len(waiters) : waiters[i] # t
  BY DEF LInv, QueueInv

-----------------------------------------------------------------------------

\* The free lock is taken.
LEMMA NowInv ==
    ASSUME LInv, NEW t \in Threads, NEW back \in BOOLEAN,
           pc[t] = "run", back => saved[t] > 0, AcquireNow(t, back)
    PROVE  LInv'
<1> USE DEF LInv, AcquireNow, Own, Free
<1>1. TypeOK'
  BY DEF TypeOK
<1>2. QueueInv'
  BY DEF TypeOK, QueueInv, Waiting
<1>3. OwnerInv'
  BY DEF TypeOK, OwnerInv
<1>4. WokenInv'
  BY DEF TypeOK, WokenInv, NoLostWakeup, Handed
<1> QED
  BY <1>1, <1>2, <1>3, <1>4

\* A thread queues up behind an owner or behind other threads.
LEMMA WaitInv ==
    ASSUME LInv, NEW t \in Threads, NEW back \in BOOLEAN, NEW timeout \in BOOLEAN,
           pc[t] = "run", back => saved[t] > 0 /\ ~timeout, AcquireWait(t, back, timeout)
    PROVE  LInv'
<1> USE DEF LInv, AcquireWait, Free
<1>0. /\ waiters \in Seq(Threads) /\ Len(waiters) \in Nat
      /\ waiters' \in Seq(Threads) /\ waiters' # <<>>
      /\ Len(waiters') = Len(waiters) + 1
      /\ \A i \in 1..Len(waiters) : waiters'[i] = waiters[i]
      /\ waiters'[Len(waiters) + 1] = t
      /\ waiters # <<>> => Head(waiters') = Head(waiters)
  <2>1. waiters \in Seq(Threads) /\ waiters' = Append(waiters, t)
    BY DEF TypeOK
  <2>2. /\ Append(waiters, t) \in Seq(Threads) /\ Append(waiters, t) # <<>>
        /\ Len(Append(waiters, t)) = Len(waiters) + 1
        /\ \A i \in 1..Len(waiters) : Append(waiters, t)[i] = waiters[i]
        /\ Append(waiters, t)[Len(waiters) + 1] = t
    BY <2>1, AppendProperties
  <2>3. waiters # <<>> => Head(Append(waiters, t)) = Head(waiters)
    BY <2>1, HeadTailAppend, Zenon
  <2>4. Len(waiters) \in Nat
    BY <2>1, LenProperties, Zenon
  <2> QED
    BY <2>1, <2>2, <2>3, <2>4, Zenon
<1>1. TypeOK'
  BY <1>0 DEF TypeOK, Waiting
<1>2. QueueInv'
  <2>1. \A i \in 1..Len(waiters) : waiters[i] # t
    BY NotQueued DEF Waiting
  <2>2. \A i \in 1..Len(waiters') : i \in 1..Len(waiters) \/ i = Len(waiters) + 1
    BY <1>0
  <2>3. \A i, j \in 1..Len(waiters') : waiters'[i] = waiters'[j] => i = j
    BY <1>0, <2>1, <2>2 DEF QueueInv
  <2>4. \A i \in 1..Len(waiters) : waiters[i] \in Threads
    BY <1>0, ElementOfSeq
  <2>5. \A i \in 1..Len(waiters') : pc'[waiters'[i]] \in Waiting
    BY <1>0, <2>1, <2>2, <2>4 DEF QueueInv, TypeOK, Waiting
  <2>6. \A u \in timed' : pc'[u] = "wait"
    BY DEF QueueInv, TypeOK
  <2> QED
    BY <2>3, <2>5, <2>6 DEF QueueInv
<1>3. OwnerInv'
  BY DEF TypeOK, OwnerInv
<1>4. WokenInv'
  BY <1>0 DEF TypeOK, WokenInv, NoLostWakeup, Handed
<1> QED
  BY <1>1, <1>2, <1>3, <1>4

\* The head of the queue takes the lock that was handed to it.
LEMMA TurnInv ==
    ASSUME LInv, NEW t \in Threads, NEW back \in BOOLEAN,
           MyTurn(t), back => pc[t] = "rewait", Own(t, back),
           waiters' = Tail(waiters), woken' = woken \ {t}, timed' = timed \ {t},
           UNCHANGED saved
    PROVE  LInv'
<1> USE DEF LInv, MyTurn, Handed, Own
<1>0. /\ Len(waiters) \in Nat \ {0} /\ waiters[1] = t
      /\ waiters' \in Seq(Threads) /\ Len(waiters') = Len(waiters) - 1
      /\ \A i \in 1..Len(waiters') : waiters'[i] = waiters[i + 1]
  BY HeadFacts
<1>1. TypeOK'
  BY <1>0 DEF TypeOK
<1>2. QueueInv'
  <2>1. \A i \in 1..Len(waiters') : i + 1 \in 1..Len(waiters) /\ i + 1 # 1
    BY <1>0
  <2>2. \A i \in 1..Len(waiters') : waiters'[i] # t
    BY <1>0, <2>1 DEF QueueInv
  <2>3. \A i, j \in 1..Len(waiters') : waiters'[i] = waiters'[j] => i = j
    BY <1>0, <2>1 DEF QueueInv
  <2>4. \A i \in 1..Len(waiters) : waiters[i] \in Threads
    BY ElementOfSeq DEF TypeOK
  <2>5. \A i \in 1..Len(waiters') : pc'[waiters'[i]] \in Waiting
    BY <1>0, <2>1, <2>2, <2>4 DEF QueueInv, TypeOK
  <2>6. \A u \in timed' : pc'[u] = "wait"
    BY DEF QueueInv, TypeOK
  <2> QED
    BY <2>3, <2>5, <2>6 DEF QueueInv
<1>3. OwnerInv'
  BY DEF TypeOK, OwnerInv
<1>4. WokenInv'
  BY DEF TypeOK, WokenInv, NoLostWakeup
<1> QED
  BY <1>1, <1>2, <1>3, <1>4

\* A thread gives up, and it is not its turn.
LEMMA GiveUpInv ==
    ASSUME LInv, NEW t \in Threads, t \in timed, ~MyTurn(t),
           NEW i \in 1..Len(waiters), waiters[i] = t,
           waiters' = Fair!Leave(waiters, i), pc' = [pc EXCEPT ![t] = "run"],
           woken' = woken \ {t}, timed' = timed \ {t},
           UNCHANGED <<owner, count, held, saved>>
    PROVE  LInv'
<1> USE DEF LInv
<1>0. /\ waiters \in Seq(Threads) /\ Len(waiters) \in Nat
      /\ waiters' \in Seq(Threads) /\ Len(waiters') = Len(waiters) - 1
      /\ \A j \in 1..Len(waiters') : waiters'[j] = IF j < i THEN waiters[j] ELSE waiters[j + 1]
  BY LeaveProperties, LenProperties DEF TypeOK
<1>1. TypeOK'
  BY <1>0 DEF TypeOK
<1>2. QueueInv'
  <2>1. \A j \in 1..Len(waiters') : j \in 1..Len(waiters) /\ j + 1 \in 1..Len(waiters)
    BY <1>0
  <2> DEFINE old(j) == IF j < i THEN j ELSE j + 1
  <2>2. ASSUME NEW j \in 1..Len(waiters')
        PROVE  old(j) \in 1..Len(waiters) /\ old(j) # i /\ waiters'[j] = waiters[old(j)]
    <3>1. CASE j < i
      BY <1>0, <2>1, <3>1
    <3>2. CASE ~(j < i)
      <4>1. j + 1 \in 1..Len(waiters) /\ j + 1 # i
        BY <1>0, <2>1, <3>2
      <4> QED
        BY <1>0, <3>2, <4>1
    <3> QED
      BY <3>1, <3>2
  <2>3. ASSUME NEW j \in 1..Len(waiters'), NEW k \in 1..Len(waiters'), waiters'[j] = waiters'[k]
        PROVE  j = k
    <3>1. waiters[old(j)] = waiters[old(k)]
      BY <2>2, <2>3
    <3>2. old(j) \in 1..Len(waiters) /\ old(k) \in 1..Len(waiters)
      BY <2>2
    <3>3. old(j) = old(k)
      <4> HIDE DEF old
      <4> QED
        BY <3>1, <3>2 DEF QueueInv
    <3> QED
      BY <1>0, <3>3
  <2>4. \A j \in 1..Len(waiters) : waiters[j] \in Threads
    BY <1>0, ElementOfSeq
  <2>5. ASSUME NEW j \in 1..Len(waiters') PROVE pc'[waiters'[j]] \in Waiting
    <3>1. PICK k \in 1..Len(waiters) : k # i /\ waiters'[j] = waiters[k]
      <4> HIDE DEF old
      <4> QED
        BY <2>2
    <3>2. waiters[k] # t /\ waiters[k] \in Threads /\ pc[waiters[k]] \in Waiting
      BY <2>4, <3>1 DEF QueueInv
    <3> QED
      BY <3>1, <3>2 DEF TypeOK
  <2>6. \A u \in timed' : pc'[u] = "wait"
    BY DEF QueueInv, TypeOK
  <2> QED
    BY <2>3, <2>5, <2>6 DEF QueueInv
<1>3. OwnerInv'
  <2>1. pc[t] = "wait"
    BY DEF QueueInv
  <2>2. owner # t
    BY <2>1 DEF OwnerInv
  <2> QED
    BY <2>1, <2>2 DEF TypeOK, OwnerInv
<1>4. WokenInv'
  <2>1. CASE Handed
    <3>1. i # 1
      BY <2>1, HeadFacts DEF MyTurn, Handed
    <3>2. waiters # <<>> /\ waiters' # <<>> /\ Head(waiters') = Head(waiters)
      BY <1>0, <3>1, LeaveFromTail
    <3>3. Head(waiters) # t
      BY <2>1 DEF MyTurn
    <3> QED
      BY <2>1, <3>2, <3>3 DEF WokenInv, NoLostWakeup, Handed
  <2>2. CASE ~Handed
    <3>1. woken = {}
      BY <2>2 DEF WokenInv
    <3>2. ~Handed'
      BY <1>0, <2>2, EmptySeq DEF Handed
    <3> QED
      BY <3>1, <3>2 DEF WokenInv, NoLostWakeup
  <2> QED
    BY <2>1, <2>2
<1> QED
  BY <1>1, <1>2, <1>3, <1>4

\* The owner leaves its last level, or all of them, and notifies the head.
LEMMA LetGoInv ==
    ASSUME LInv, NEW t \in Threads, pc[t] = "run", owner = t, LetGo,
           held' = [held EXCEPT ![t] = 0],
           saved' = saved \/ saved' = [saved EXCEPT ![t] = count],
           UNCHANGED <<waiters, pc, timed>>
    PROVE  LInv'
<1> USE DEF LInv, LetGo
<1>1. TypeOK'
  BY HeadFacts DEF TypeOK
<1>2. QueueInv'
  BY DEF QueueInv
<1>3. OwnerInv'
  BY DEF TypeOK, OwnerInv
<1>4. WokenInv'
  <2>1. woken = {}
    BY DEF WokenInv, Handed
  <2> QED
    BY <2>1 DEF WokenInv, NoLostWakeup, Handed
<1> QED
  BY <1>1, <1>2, <1>3, <1>4

\* Every step keeps the invariant.
LEMMA StepInv == LInv /\ [Next]_vars => LInv'
<1> SUFFICES ASSUME LInv, [Next]_vars PROVE LInv'
  OBVIOUS
<1>1. ASSUME NEW t \in Threads, Acquire(t) PROVE LInv'
  BY <1>1, NowInv, WaitInv DEF Acquire
<1>2. ASSUME NEW t \in Threads, AcquireAgain(t) PROVE LInv'
  <2> USE <1>2 DEF LInv, AcquireAgain
  <2>1. TypeOK'
    BY DEF TypeOK, OwnerInv
  <2>2. QueueInv' /\ WokenInv'
    BY DEF QueueInv, WokenInv, NoLostWakeup, Handed
  <2>3. OwnerInv'
    BY DEF TypeOK, OwnerInv
  <2> QED
    BY <2>1, <2>2, <2>3
<1>3. ASSUME NEW t \in Threads, Wake(t) PROVE LInv'
  <2>1. MyTurn(t)
    BY <1>3 DEF Wake, MyTurn, LInv, WokenInv
  <2> QED
    BY <1>3, <2>1, TurnInv DEF Wake
<1>4. ASSUME NEW t \in Threads, Expire(t) PROVE LInv'
  BY <1>4, TurnInv, GiveUpInv DEF Expire
<1>5. ASSUME NEW t \in Threads, Release(t) PROVE LInv'
  <2>1. held[t] = count
    BY <1>5 DEF Release, LInv, OwnerInv
  <2>2. CASE count = 1
    <3>1. held' = [held EXCEPT ![t] = 0]
      BY <1>5, <2>1, <2>2 DEF Release, LInv, TypeOK
    <3>2. LetGo
      BY <1>5, <2>2 DEF Release
    <3> QED
      BY <1>5, <3>1, <3>2, LetGoInv DEF Release
  <2>3. CASE count # 1
    <3> USE <1>5, <2>1, <2>3 DEF LInv, Release
    <3>1. TypeOK'
      BY DEF TypeOK
    <3>2. QueueInv' /\ WokenInv'
      BY DEF QueueInv, WokenInv, NoLostWakeup, Handed
    <3>3. OwnerInv'
      BY DEF TypeOK, OwnerInv
    <3> QED
      BY <3>1, <3>2, <3>3
  <2> QED
    BY <2>2, <2>3
<1>6. ASSUME NEW t \in Threads, ReleaseAll(t) PROVE LInv'
  BY <1>6, LetGoInv DEF ReleaseAll
<1>7. ASSUME NEW t \in Threads, Reacquire(t) PROVE LInv'
  BY <1>7, NowInv, WaitInv DEF Reacquire
<1>8. ASSUME NEW t \in Threads, Restore(t) PROVE LInv'
  <2> USE <1>8 DEF LInv, Restore
  <2>1. TypeOK'
    BY DEF TypeOK
  <2>2. QueueInv' /\ WokenInv'
    <3>1. \A i \in 1..Len(waiters) : waiters[i] # t /\ waiters[i] \in Threads
      BY NotQueued, ElementOfSeq DEF Waiting, TypeOK
    <3> QED
      BY <3>1 DEF QueueInv, WokenInv, NoLostWakeup, Handed, TypeOK
  <2>3. OwnerInv'
    BY DEF TypeOK, OwnerInv
  <2> QED
    BY <2>1, <2>2, <2>3
<1>9. CASE UNCHANGED vars
  BY <1>9 DEF vars, LInv, TypeOK, QueueInv, OwnerInv, WokenInv, NoLostWakeup, Handed
<1> QED
  BY <1>1, <1>2, <1>3, <1>4, <1>5, <1>6, <1>7, <1>8, <1>9 DEF Next

LEMMA Invariance == Spec => []LInv
  BY InitInv, StepInv, PTL DEF Spec

\* Type correctness, for any number of threads.
THEOREM TypeCorrect == Spec => []TypeOK
  BY Invariance, PTL DEF LInv

\* Mutual exclusion with the right depth, through release_all and reacquire.
THEOREM MutualExclusion == Spec => []CountMatches
<1>1. LInv => CountMatches
  BY DEF LInv, CountMatches, OwnerInv, TypeOK
<1> QED
  BY <1>1, Invariance, PTL

\* A lock that is free while somebody waits is on its way to the first waiter:
\* no timeout, however it races the release, takes the notification along.
THEOREM WakeupKept == Spec => []NoLostWakeup
<1>1. LInv => NoLostWakeup
  BY DEF LInv, WokenInv
<1> QED
  BY <1>1, Invariance, PTL
-----------------------------------------------------------------------------

\* The abstract lock's variables, and a step of it or none.
Abstract == Fair!Next \/ UNCHANGED <<IF Handed THEN Head(waiters) ELSE owner,
                                     IF Handed THEN Tail(waiters) ELSE waiters>>

LEMMA NowRefines ==
    ASSUME NEW t \in Threads, NEW back \in BOOLEAN, AcquireNow(t, back)
    PROVE  Abstract
<1>1. Fair!Take(t)
  BY DEF AcquireNow, Own, Free, Handed, Fair!Take
<1> QED
  BY <1>1 DEF Abstract, Fair!Next

LEMMA WaitRefines ==
    ASSUME LInv, NEW t \in Threads, NEW back \in BOOLEAN, NEW timeout \in BOOLEAN,
           pc[t] = "run", AcquireWait(t, back, timeout)
    PROVE  Abstract
<1>1. waiters' # <<>>
  BY AppendProperties DEF AcquireWait, LInv, TypeOK
<1>2. Fair!Line(t)
  <2>1. CASE owner # None
    BY <2>1 DEF AcquireWait, Handed, Fair!Line
  <2>2. CASE owner = None
    <3>1. Handed /\ Handed'
      BY <1>1, <2>2 DEF AcquireWait, Free, Handed
    <3>2. Head(waiters) # t /\ Head(waiters) # None
      BY <3>1, HeadFacts, NotQueued DEF Handed, LInv, Waiting
    <3>3. Head(waiters') = Head(waiters) /\ Tail(waiters') = Append(Tail(waiters), t)
      BY <3>1, HeadTailAppend DEF AcquireWait, Handed, LInv, TypeOK
    <3> QED
      BY <3>1, <3>2, <3>3 DEF Fair!Line
  <2> QED
    BY <2>1, <2>2
<1> QED
  BY <1>2 DEF Abstract, Fair!Next

LEMMA TurnRefines ==
    ASSUME NEW t \in Threads, NEW back \in BOOLEAN,
           MyTurn(t), Own(t, back), waiters' = Tail(waiters)
    PROVE  Abstract
  BY DEF MyTurn, Own, Handed, Abstract

LEMMA GiveUpRefines ==
    ASSUME LInv, NEW t \in Threads, ~MyTurn(t),
           NEW i \in 1..Len(waiters), waiters[i] = t,
           waiters' = Fair!Leave(waiters, i), UNCHANGED owner
    PROVE  Abstract
<1>0. waiters \in Seq(Threads) /\ Len(waiters) \in Nat
  BY LenProperties DEF LInv, TypeOK
<1>1. Fair!GiveUp
  <2>1. CASE Handed
    <3>1. i \in 2..Len(waiters)
      BY <1>0, <2>1, HeadFacts DEF MyTurn, Handed, LInv
    <3>2. /\ waiters' # <<>> /\ Head(waiters') = Head(waiters)
          /\ i - 1 \in 1..Len(Tail(waiters))
          /\ Tail(waiters') = Fair!Leave(Tail(waiters), i - 1)
      BY <1>0, <3>1, LeaveFromTail
    <3>3. Handed'
      BY <2>1, <3>2 DEF Handed
    <3> QED
      BY <2>1, <3>2, <3>3 DEF Fair!GiveUp
  <2>2. CASE ~Handed
    <3>1. waiters # <<>>
      BY <1>0, EmptySeq
    <3>2. ~Handed'
      BY <2>2, <3>1 DEF Handed
    <3> QED
      BY <2>2, <3>2 DEF Fair!GiveUp
  <2> QED
    BY <2>1, <2>2
<1> QED
  BY <1>1 DEF Abstract, Fair!Next

LEMMA LetGoRefines ==
    ASSUME NEW t \in Threads, owner = t, LetGo, UNCHANGED waiters
    PROVE  Abstract
<1>1. Fair!PassOn
  BY DEF LetGo, Handed, Fair!PassOn
<1> QED
  BY <1>1 DEF Abstract, Fair!Next

\* FIFO service: the lock implements the abstract fair lock.  A release hands
\* the lock to the head of the queue at once; taking it later is no step.
THEOREM Refinement == Spec => ServedInOrder
<1>1. Init => Fair!Init
  BY DEF Init, Fair!Init, Handed
<1>2. LInv /\ [Next]_vars => Abstract
  <2> SUFFICES ASSUME LInv, [Next]_vars PROVE Abstract
    OBVIOUS
  <2>1. ASSUME NEW t \in Threads, Acquire(t) PROVE Abstract
    BY <2>1, NowRefines, WaitRefines DEF Acquire
  <2>2. ASSUME NEW t \in Threads, AcquireAgain(t) PROVE Abstract
    BY <2>2 DEF AcquireAgain, Abstract, Handed
  <2>3. ASSUME NEW t \in Threads, Wake(t) PROVE Abstract
    <3>1. MyTurn(t)
      BY <2>3 DEF Wake, MyTurn, LInv, WokenInv
    <3> QED
      BY <2>3, <3>1, TurnRefines DEF Wake
  <2>4. ASSUME NEW t \in Threads, Expire(t) PROVE Abstract
    BY <2>4, TurnRefines, GiveUpRefines DEF Expire
  <2>5. ASSUME NEW t \in Threads, Release(t) PROVE Abstract
    <3>1. CASE LetGo
      BY <2>5, <3>1, LetGoRefines DEF Release
    <3>2. CASE ~LetGo
      BY <2>5, <3>2 DEF Release, Abstract, Handed
    <3> QED
      BY <3>1, <3>2
  <2>6. ASSUME NEW t \in Threads, ReleaseAll(t) PROVE Abstract
    BY <2>6, LetGoRefines DEF ReleaseAll
  <2>7. ASSUME NEW t \in Threads, Reacquire(t) PROVE Abstract
    BY <2>7, NowRefines, WaitRefines DEF Reacquire
  <2>8. ASSUME NEW t \in Threads, Restore(t) PROVE Abstract
    BY <2>8 DEF Restore, Abstract, Handed
  <2>9. CASE UNCHANGED vars
    BY <2>9 DEF vars, Abstract, Handed
  <2> QED
    BY <2>1, <2>2, <2>3, <2>4, <2>5, <2>6, <2>7, <2>8, <2>9 DEF Next
<1> QED
  BY <1>1, <1>2, Invariance, PTL DEF Spec, ServedInOrder, Fair!Spec, Abstract
=============================================================================
