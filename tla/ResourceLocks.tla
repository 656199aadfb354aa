---------------------------- MODULE ResourceLocks ---------------------------
(***************************************************************************)
(* Tool calls in parallel threads (parallel_executor.py) and the locks on  *)
(* the resources they declare (resource_lock_manager.py).                  *)
(*                                                                         *)
(* The calls of a batch run in a pool of threads.  An interrupt ends the   *)
(* batch for the agent; its running threads go on, with their locks, and   *)
(* the next batch meets them.  The lock of a key is created on demand and  *)
(* removed with its last reference, so a key may have many locks, one      *)
(* after the other.  The locks themselves are FIFOLocks, here as what they *)
(* were shown to implement (FairLock): a release passes the lock to the    *)
(* first in the queue, who sees it when its thread runs.  Each section     *)
(* under _meta_lock is one step.                                           *)
(***************************************************************************)
EXTENDS Naturals, Sequences, FiniteSets

CONSTANTS
    Calls,       \* tool calls, numbered in the order the model asked for them
    Keys,        \* resource keys, numbered in their sorted order
    Locks,       \* FIFOLock objects
    None,
    BatchOf,     \* the batch of a call: 1, 2, ...
    MaxWorkers   \* max_workers

ASSUME ResourceAssumption ==
    /\ Calls \subseteq Nat /\ IsFiniteSet(Calls)
    /\ Keys \subseteq Nat /\ IsFiniteSet(Keys)
    /\ None \notin Calls /\ None \notin Locks
    /\ BatchOf \in [Calls -> Nat \ {0}]
    /\ MaxWorkers \in Nat \ {0}

VARIABLES
    batch,     \* number of batches submitted so far
    over,      \* the last of them has returned, or was cancelled
    token,     \* batches whose cancellation token is set
    pc,        \* where a call is
    keys,      \* lock keys of a call
    acquired,  \* the keys it has locked
    key,       \* the key its loop is at
    lock,      \* the lock _get_lock returned for that key
    locks, refcounts,  \* _locks and _refcounts
    holder, queue      \* of each lock object

vars == <<batch, over, token, pc, keys, acquired, key, lock, locks, refcounts, holder, queue>>
tableVars == <<locks, refcounts, holder, queue>>
batchVars == <<batch, over, token>>

\* Between _get_lock and the end of acquire(), or of the undoing of both.
Asking == {"acquire", "wait", "undo"}
Ended == {"new", "queued", "skipped", "done"}

TypeOK ==
    /\ batch \in Nat /\ over \in BOOLEAN /\ token \subseteq Nat
    /\ pc \in [Calls -> Asking \cup Ended \cup {"check", "get", "run", "unwind"}]
    /\ keys \in [Calls -> SUBSET Keys]
    /\ acquired \in [Calls -> SUBSET Keys]
    /\ key \in [Calls -> Keys \cup {None}]
    /\ lock \in [Calls -> Locks \cup {None}]
    /\ locks \in [Keys -> Locks \cup {None}]
    /\ refcounts \in [Keys -> Nat]
    /\ holder \in [Locks -> Calls \cup {None}]
    /\ queue \in [Locks -> Seq(Calls)]

Init ==
    /\ batch = 0 /\ over = TRUE /\ token = {}
    /\ pc = [c \in Calls |-> "new"]
    /\ keys = [c \in Calls |-> {}]
    /\ acquired = [c \in Calls |-> {}]
    /\ key = [c \in Calls |-> None]
    /\ lock = [c \in Calls |-> None]
    /\ locks = [k \in Keys |-> None]
    /\ refcounts = [k \in Keys |-> 0]
    /\ holder = [l \in Locks |-> None]
    /\ queue = [l \in Locks |-> <<>>]

Goto(c, to) == pc' = [pc EXCEPT ![c] = to]

-----------------------------------------------------------------------------
(* ParallelToolExecutor.                                                   *)

Batch(n) == {c \in Calls : BatchOf[c] = n}
Working(n) == {c \in Batch(n) : pc[c] \notin Ended}

\* A batch is submitted; the keys are what the tools declare for the arguments,
\* none at all, or the mutex of a tool that declares nothing.
Submit ==
    /\ over /\ Batch(batch + 1) # {}
    /\ batch' = batch + 1 /\ over' = FALSE
    /\ pc' = [c \in Calls |-> IF c \in Batch(batch + 1) THEN "queued" ELSE pc[c]]
    /\ \E f \in [Batch(batch + 1) -> SUBSET Keys] :
          keys' = [c \in Calls |-> IF c \in Batch(batch + 1) THEN f[c] ELSE keys[c]]
    /\ UNCHANGED <<token, acquired, key, lock, tableVars>>

\* A thread of the pool takes the next call.
StartCall(c) ==
    /\ pc[c] = "queued"
    /\ \A d \in Batch(BatchOf[c]) : pc[d] = "queued" => c <= d
    /\ Cardinality(Working(BatchOf[c])) < MaxWorkers
    /\ Goto(c, "check")
    /\ UNCHANGED <<batchVars, keys, acquired, key, lock, tableVars>>

\* Mutant: a batch of one call needs no locks.
CheckAlone(c) ==
    /\ pc[c] = "check"
    /\ Goto(c, IF BatchOf[c] \in token THEN "done"
               ELSE IF keys[c] = {} \/ Cardinality(Batch(BatchOf[c])) = 1 THEN "run" ELSE "get")
    /\ UNCHANGED <<batchVars, keys, acquired, key, lock, tableVars>>

\* _run_safe: skipped if cancelled, run at once if there is nothing to lock.
Check(c) ==
    /\ pc[c] = "check"
    /\ Goto(c, IF BatchOf[c] \in token THEN "done" ELSE IF keys[c] = {} THEN "run" ELSE "get")
    /\ UNCHANGED <<batchVars, keys, acquired, key, lock, tableVars>>

\* The tool returns or raises.
ToolEnds(c) ==
    /\ pc[c] = "run"
    /\ Goto(c, IF acquired[c] = {} THEN "done" ELSE "unwind")
    /\ UNCHANGED <<batchVars, keys, acquired, key, lock, tableVars>>

\* All results are there.
Return ==
    /\ ~over /\ \A c \in Batch(batch) : pc[c] = "done"
    /\ over' = TRUE
    /\ UNCHANGED <<batch, token, pc, keys, acquired, key, lock, tableVars>>

\* interrupt() sets the token; the cancellation of the task comes later.
Cancel ==
    /\ ~over /\ batch \notin token
    /\ token' = token \cup {batch}
    /\ UNCHANGED <<batch, over, pc, keys, acquired, key, lock, tableVars>>

\* pool.shutdown(wait=False, cancel_futures=True)
Abort ==
    /\ ~over /\ batch \in token
    /\ over' = TRUE
    /\ pc' = [c \in Calls |-> IF c \in Batch(batch) /\ pc[c] = "queued" THEN "skipped" ELSE pc[c]]
    /\ UNCHANGED <<batch, token, keys, acquired, key, lock, tableVars>>

-----------------------------------------------------------------------------
(* ResourceLockManager.lock.                                               *)

\* Nobody can reach the object.
Fresh(l) ==
    /\ holder[l] = None /\ queue[l] = <<>>
    /\ \A k \in Keys : locks[k] # l
    /\ \A c \in Calls : lock[c] # l

\* Mutant: the keys are locked in the order of the declaration, any order.
GetLockUnsorted(c) ==
    /\ pc[c] = "get"
    /\ \E k \in keys[c] \ acquired[c] :
          /\ \E l \in Locks :
                /\ IF locks[k] = None THEN Fresh(l) ELSE l = locks[k]
                /\ locks' = [locks EXCEPT ![k] = l]
                /\ lock' = [lock EXCEPT ![c] = l]
          /\ refcounts' = [refcounts EXCEPT ![k] = @ + 1]
          /\ key' = [key EXCEPT ![c] = k]
    /\ Goto(c, "acquire")
    /\ UNCHANGED <<batchVars, keys, acquired, holder, queue>>

\* _get_lock for the next key in sorted order.
GetLock(c) ==
    /\ pc[c] = "get"
    /\ \E k \in keys[c] \ acquired[c] :
          /\ \A j \in keys[c] \ acquired[c] : k <= j
          /\ \E l \in Locks :
                /\ IF locks[k] = None THEN Fresh(l) ELSE l = locks[k]
                /\ locks' = [locks EXCEPT ![k] = l]
                /\ lock' = [lock EXCEPT ![c] = l]
          /\ refcounts' = [refcounts EXCEPT ![k] = @ + 1]
          /\ key' = [key EXCEPT ![c] = k]
    /\ Goto(c, "acquire")
    /\ UNCHANGED <<batchVars, keys, acquired, holder, queue>>

\* acquire() has returned True: on to the next key, or to the tool.
Got(c) ==
    /\ acquired' = [acquired EXCEPT ![c] = @ \cup {key[c]}]
    /\ lock' = [lock EXCEPT ![c] = None]
    /\ Goto(c, IF keys[c] = acquired[c] \cup {key[c]} THEN "run" ELSE "get")

\* acquire(timeout): the lock is free, or the thread queues up.
Acquire(c) ==
    /\ pc[c] = "acquire"
    /\ LET l == lock[c]
       IN \/ /\ holder[l] = None
             /\ holder' = [holder EXCEPT ![l] = c]
             /\ Got(c) /\ UNCHANGED queue
          \/ /\ holder[l] # None
             /\ queue' = [queue EXCEPT ![l] = Append(@, c)]
             /\ Goto(c, "wait") /\ UNCHANGED <<acquired, lock, holder>>
    /\ UNCHANGED <<batchVars, keys, key, locks, refcounts>>

\* A thread in the queue finds that it has been handed the lock.
WakeUp(c) ==
    /\ pc[c] = "wait" /\ holder[lock[c]] = c
    /\ Got(c)
    /\ UNCHANGED <<batchVars, keys, key, tableVars>>

\* A queue without its i-th element: _waiters.remove(me).
Leave(q, i) == [j \in 1..(Len(q) - 1) |-> IF j < i THEN q[j] ELSE q[j + 1]]

\* Its time is up and it is not its turn.
TimeOut(c) ==
    /\ pc[c] = "wait" /\ holder[lock[c]] # c
    /\ \E i \in 1..Len(queue[lock[c]]) :
          /\ queue[lock[c]][i] = c
          /\ queue' = [queue EXCEPT ![lock[c]] = Leave(@, i)]
    /\ Goto(c, "undo")
    /\ UNCHANGED <<batchVars, keys, acquired, key, lock, locks, refcounts, holder>>

\* locked() of a lock: its owner's thread has run.
Locked(h) == h # None /\ pc[h] # "wait"

\* A reference is given back; the last one removes a lock that is not locked.
Unref(k, locked) ==
    /\ refcounts' = [refcounts EXCEPT ![k] = @ - 1]
    /\ locks' = IF refcounts[k] = 1 /\ ~locked THEN [locks EXCEPT ![k] = None] ELSE locks

\* After the loop was left by an exception or the tool has ended.
Unwind(c, rest) == Goto(c, IF rest = {} THEN "done" ELSE "unwind")

\* Mutant: the reference is kept.
UndoForgets(c) ==
    /\ pc[c] = "undo"
    /\ lock' = [lock EXCEPT ![c] = None]
    /\ Unwind(c, acquired[c])
    /\ UNCHANGED <<batchVars, keys, acquired, key, tableVars>>

\* The reference of the acquire that failed is taken back.
Undo(c) ==
    /\ pc[c] = "undo"
    /\ Unref(key[c], Locked(holder[locks[key[c]]]))
    /\ lock' = [lock EXCEPT ![c] = None]
    /\ Unwind(c, acquired[c])
    /\ UNCHANGED <<batchVars, keys, acquired, key, holder, queue>>

\* _release_lock, in the reverse order: the lock in the table is released.
ReleaseLock(c) ==
    /\ pc[c] = "unwind"
    /\ \E k \in acquired[c] :
          /\ \A j \in acquired[c] : j <= k
          /\ LET l == locks[k]
             IN IF l # None /\ holder[l] = c
                THEN /\ holder' = [holder EXCEPT ![l] = IF queue[l] = <<>> THEN None ELSE Head(queue[l])]
                     /\ queue' = [queue EXCEPT ![l] = IF @ = <<>> THEN @ ELSE Tail(@)]
                     /\ Unref(k, FALSE)
                ELSE UNCHANGED tableVars
          /\ acquired' = [acquired EXCEPT ![c] = @ \ {k}]
          /\ Unwind(c, acquired[c] \ {k})
    /\ UNCHANGED <<batchVars, keys, key, lock>>

CallStep(c) ==
    \/ StartCall(c) \/ Check(c) \/ ToolEnds(c) \/ GetLock(c) \/ Acquire(c)
    \/ WakeUp(c) \/ Undo(c) \/ ReleaseLock(c)

Next ==
    \/ Submit \/ Return \/ Cancel \/ Abort
    \/ \E c \in Calls : CallStep(c) \/ TimeOut(c)

Spec == Init /\ [][Next]_vars

\* Threads run and tools return; no timeout is needed for progress.
FairSpec == Spec /\ \A c \in Calls : WF_vars(CallStep(c))

-----------------------------------------------------------------------------

\* The calls that hold a lock on the key, or are on their way to one.
Users(k) == {c \in Calls : k \in acquired[c] \/ (pc[c] \in Asking /\ key[c] = k)}

\* Two tools that are running never share a resource: not when the lock of the
\* key was removed and created again, and not when one of them belongs to a batch
\* that was cancelled.
ExclusiveUse ==
    \A c, d \in Calls : c # d /\ pc[c] = "run" /\ pc[d] = "run" => keys[c] \cap keys[d] = {}

\* The table is exact: a key is in it as long as somebody uses it and no longer,
\* timeouts included, so it is empty when no call runs.
TableExact ==
    \A k \in Keys : /\ refcounts[k] = Cardinality(Users(k))
                    /\ locks[k] = None <=> Users(k) = {}

\* The lock that _release_lock finds in the table is the one the call acquired:
\* release() never raises and nobody's lock is released by another call.
ReleasesItsOwn ==
    \A c \in Calls : \A k \in acquired[c] : locks[k] # None /\ holder[locks[k]] = c

\* What the lock manager relies on: an exact table, whose locks are held by the
\* calls that acquired them.
TableSound == TypeOK /\ TableExact /\ ReleasesItsOwn

\* No deadlock: every call that was submitted ends, though no timeout may ever
\* fire, because the keys are taken in sorted order.
CallEnds == \A c \in Calls : pc[c] = "queued" ~> pc[c] \in {"done", "skipped"}
=============================================================================
