------------------------------ MODULE FairLock ------------------------------
(***************************************************************************)
(* What FIFOLock promises: one holder, and a queue that is served in the   *)
(* order of arrival.  The lock passes straight from the thread that lets   *)
(* go of it to the head of the queue; nobody gets in between.              *)
(***************************************************************************)
EXTENDS Naturals, Sequences

CONSTANTS Threads, None

VARIABLES
    holder,  \* the thread that has the lock, or None
    queue    \* the threads that wait for it

Init == holder = None /\ queue = <<>>

\* The lock is free.
Take(t) ==
    /\ holder = None
    /\ holder' = t
    /\ UNCHANGED queue

\* Somebody else has it.
Line(t) ==
    /\ holder \notin {None, t}
    /\ queue' = Append(queue, t)
    /\ UNCHANGED holder

\* The holder lets go.
PassOn ==
    /\ holder # None
    /\ \/ queue = <<>> /\ holder' = None /\ UNCHANGED queue
       \/ queue # <<>> /\ holder' = Head(queue) /\ queue' = Tail(queue)

\* The i-th element leaves the sequence.
Leave(q, i) == [j \in 1..(Len(q) - 1) |-> IF j < i THEN q[j] ELSE q[j + 1]]

\* A thread that waits runs out of time.
GiveUp ==
    /\ \E i \in 1..Len(queue) : queue' = Leave(queue, i)
    /\ UNCHANGED holder

Next == (\E t \in Threads : Take(t) \/ Line(t)) \/ PassOn \/ GiveUp

Spec == Init /\ [][Next]_<<holder, queue>>
=============================================================================
