------------------------------ MODULE FIFOLock ------------------------------
(***************************************************************************)
(* The reentrant lock of a conversation's state (fifo_lock.py), with the   *)
(* release of every level around an LLM call (release_all and reacquire,   *)
(* used by LocalConversation._released_state_lock_during_io).              *)
(*                                                                         *)
(* Every method body runs under _mutex and is one step; me.wait() gives    *)
(* the mutex back, so that what follows it is another step.  A method that *)
(* changes nothing is no step: a non-blocking acquire that finds the lock  *)
(* taken, a release by a thread that does not own it.                      *)
(***************************************************************************)
EXTENDS Naturals, Sequences

CONSTANTS
    Threads,
    None,      \* nobody
    MaxDepth   \* bound: levels of nesting

ASSUME LockAssumption == None \notin Threads /\ MaxDepth \in Nat \ {0}

VARIABLES
    owner,    \* _owner
    count,    \* _count
    waiters,  \* _waiters: whose condition each is
    woken,    \* threads whose condition was notified
    pc,       \* "run"; in me.wait() of acquire ("wait") or of reacquire's
              \* acquire ("rewait"); between the two halves of reacquire
    timed,    \* threads that wait with a timeout
    saved,    \* what release_all returned, until reacquire has restored it
    held      \* history: levels a thread has entered and not left

vars == <<owner, count, waiters, woken, pc, timed, saved, held>>

Waiting == {"wait", "rewait"}

TypeOK ==
    /\ owner \in Threads \cup {None}
    /\ count \in 0..MaxDepth
    /\ waiters \in Seq(Threads)
    /\ woken \subseteq Threads
    /\ pc \in [Threads -> Waiting \cup {"run", "restore"}]
    /\ timed \subseteq Threads
    /\ saved \in [Threads -> 0..MaxDepth]
    /\ held \in [Threads -> 0..MaxDepth]

Init ==
    /\ owner = None /\ count = 0
    /\ waiters = <<>> /\ woken = {} /\ timed = {}
    /\ pc = [t \in Threads |-> "run"]
    /\ saved = [t \in Threads |-> 0]
    /\ held = [t \in Threads |-> 0]

-----------------------------------------------------------------------------

\* The lock has been handed to the head of the queue, which has not run yet.
Handed == owner = None /\ waiters # <<>>

Fair == INSTANCE FairLock WITH
            holder <- IF Handed THEN Head(waiters) ELSE owner,
            queue  <- IF Handed THEN Tail(waiters) ELSE waiters

\* acquire() sets the owner; the caller is inside, or has to restore a depth.
Own(t, back) ==
    /\ owner' = t /\ count' = 1
    /\ pc' = [pc EXCEPT ![t] = IF back THEN "restore" ELSE "run"]
    /\ held' = IF back THEN held ELSE [held EXCEPT ![t] = 1]

\* Mutant: a lock without an owner is taken, whoever waits for it.
FreeForAll == owner = None
Free == owner = None /\ waiters = <<>>

AcquireNow(t, back) ==
    /\ Free
    /\ Own(t, back)
    /\ UNCHANGED <<waiters, woken, timed, saved>>

AcquireWait(t, back, timeout) ==
    /\ owner # t /\ ~Free
    /\ waiters' = Append(waiters, t)
    /\ pc' = [pc EXCEPT ![t] = IF back THEN "rewait" ELSE "wait"]
    /\ timed' = IF timeout THEN timed \cup {t} ELSE timed
    /\ UNCHANGED <<owner, count, woken, saved, held>>

\* acquire() by a thread that does not own the lock.
Acquire(t) ==
    /\ pc[t] = "run"
    /\ AcquireNow(t, FALSE) \/ \E b \in BOOLEAN : AcquireWait(t, FALSE, b)

\* acquire() by the owner.
AcquireAgain(t) ==
    /\ pc[t] = "run" /\ owner = t /\ count < MaxDepth
    /\ count' = count + 1
    /\ held' = [held EXCEPT ![t] = @ + 1]
    /\ UNCHANGED <<owner, waiters, woken, pc, timed, saved>>

\* The test at the top of acquire()'s loop.
MyTurn(t) == Handed /\ Head(waiters) = t

\* me.wait() has returned because of a notification: take the lock, or wait on.
Wake(t) ==
    /\ t \in woken
    /\ woken' = woken \ {t}
    /\ IF MyTurn(t)
       THEN /\ waiters' = Tail(waiters) /\ timed' = timed \ {t}
            /\ Own(t, pc[t] = "rewait")
       ELSE UNCHANGED <<owner, count, waiters, pc, timed, held>>
    /\ UNCHANGED saved

\* Mutant: a thread whose time is up leaves, even if it is its turn.
ExpireAnyway(t) ==
    /\ t \in timed
    /\ \E i \in 1..Len(waiters) : waiters[i] = t /\ waiters' = Fair!Leave(waiters, i)
    /\ pc' = [pc EXCEPT ![t] = "run"]
    /\ woken' = woken \ {t} /\ timed' = timed \ {t}
    /\ UNCHANGED <<owner, count, saved, held>>

\* me.wait(remaining) has returned with no time left: the turn is looked at
\* first, then the thread leaves the queue.
Expire(t) ==
    /\ t \in timed
    /\ woken' = woken \ {t} /\ timed' = timed \ {t}
    /\ \/ /\ MyTurn(t)
          /\ waiters' = Tail(waiters)
          /\ Own(t, FALSE)
       \/ /\ ~MyTurn(t)
          /\ \E i \in 1..Len(waiters) : waiters[i] = t /\ waiters' = Fair!Leave(waiters, i)
          /\ pc' = [pc EXCEPT ![t] = "run"]
          /\ UNCHANGED <<owner, count, held>>
    /\ UNCHANGED saved

\* The last level is left: the head of the queue is notified.
LetGo ==
    /\ owner' = None /\ count' = 0
    /\ woken' = IF waiters = <<>> THEN woken ELSE woken \cup {Head(waiters)}

Release(t) ==
    /\ pc[t] = "run" /\ owner = t
    /\ held' = [held EXCEPT ![t] = @ - 1]
    /\ \/ count = 1 /\ LetGo
       \/ count > 1 /\ count' = count - 1 /\ UNCHANGED <<owner, woken>>
    /\ UNCHANGED <<waiters, pc, timed, saved>>

\* Before the LLM call: every level at once.
ReleaseAll(t) ==
    /\ pc[t] = "run" /\ owner = t /\ saved[t] = 0
    /\ saved' = [saved EXCEPT ![t] = count]
    /\ held' = [held EXCEPT ![t] = 0]
    /\ LetGo
    /\ UNCHANGED <<waiters, pc, timed>>

\* After it.  Other coroutines of the thread may have used the lock meanwhile,
\* without an await while they had it.
Reacquire(t) ==
    /\ pc[t] = "run" /\ saved[t] > 0 /\ held[t] = 0
    /\ AcquireNow(t, TRUE) \/ AcquireWait(t, TRUE, FALSE)

\* Mutant: the depth is not restored.
RestoreForgets(t) ==
    /\ pc[t] = "restore"
    /\ pc' = [pc EXCEPT ![t] = "run"]
    /\ count' = count /\ held' = [held EXCEPT ![t] = saved[t]]
    /\ saved' = [saved EXCEPT ![t] = 0]
    /\ UNCHANGED <<owner, waiters, woken, timed>>

\* The second half of reacquire(), under _mutex again.
Restore(t) ==
    /\ pc[t] = "restore"
    /\ pc' = [pc EXCEPT ![t] = "run"]
    /\ count' = saved[t] /\ held' = [held EXCEPT ![t] = saved[t]]
    /\ saved' = [saved EXCEPT ![t] = 0]
    /\ UNCHANGED <<owner, waiters, woken, timed>>

Next ==
    \E t \in Threads :
        \/ Acquire(t) \/ AcquireAgain(t) \/ Wake(t) \/ Expire(t)
        \/ Release(t) \/ ReleaseAll(t) \/ Reacquire(t) \/ Restore(t)

Spec == Init /\ [][Next]_vars

\* A notified thread runs, reacquire() goes on, and a thread that has the lock
\* leaves its blocks in the end, however often it enters nested ones.
Fairness ==
    \A t \in Threads :
        /\ WF_vars(Wake(t)) /\ WF_vars(Restore(t)) /\ WF_vars(Release(t))
        /\ SF_vars(count = 1 /\ Release(t))

FairSpec == Spec /\ Fairness

-----------------------------------------------------------------------------

\* Mutual exclusion with the right depth: a thread that is inside by its own
\* account owns the lock and holds as many levels as it entered, also after
\* release_all and reacquire.  So no other thread is inside.
CountMatches ==
    \A t \in Threads : held[t] > 0 => owner = t /\ count = held[t]

\* A lock that nobody owns and somebody waits for is on its way to the first
\* in the queue: release() notified it, and no expiry took the notification
\* along.
NoLostWakeup == Handed => Head(waiters) \in woken

\* FIFO: the lock is handed from thread to thread in the order of arrival, and
\* nobody overtakes a thread that waits, not even between the release and the
\* moment the head of the queue runs.
ServedInOrder == Fair!Spec

\* acquire() returns.
WaitEnds == \A t \in Threads : pc[t] \in Waiting ~> pc[t] \notin Waiting
=============================================================================
