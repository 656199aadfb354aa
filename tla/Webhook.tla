------------------------------ MODULE Webhook -------------------------------
(***************************************************************************)
(* Delivery of a conversation's events to a webhook (WebhookSubscriber in  *)
(* conversation_service.py).                                               *)
(*                                                                         *)
(* Each published event runs __call__ in a task of its own, all on one     *)
(* event loop; a flush timer and close() are the other tasks.  A task that *)
(* posts holds _post_lock, an asyncio.Lock (first come, first served), and *)
(* takes batches from the front of the queue while events go on arriving.  *)
(* A step reaches from one await to the next.  The network may lose a      *)
(* request or its answer, and the webhook may process a request after its  *)
(* sender has given up on it.                                              *)
(***************************************************************************)
EXTENDS Integers, Sequences, FiniteSets, FiniteSetsExt, Folds, Functions

CONSTANTS
    MaxEvents,      \* bound on the events published, numbered in their order
    Size,           \* _event_size of each
    Timer, Closer,  \* the tasks beside the ones of the events
    None,
    EventBufferSize, MaxBatchBytes, MaxQueueSize, MaxQueueBytes, NumRetries,
    MaxFails        \* bound on the posts that fail

Events == 1..MaxEvents
Tasks == Events \cup {Timer, Closer}

ASSUME WebhookAssumption ==
    /\ MaxEvents \in Nat /\ Size \in [Events -> Nat \ {0}]
    /\ Timer \notin Events /\ Closer \notin Events /\ Timer # Closer
    /\ None \notin Tasks
    /\ EventBufferSize \in Nat \ {0} /\ MaxQueueSize \in Nat \ {0}
    /\ MaxBatchBytes \in Nat \ {0} /\ MaxQueueBytes \in Nat \ {0}
    /\ NumRetries \in Nat /\ MaxFails \in Nat

VARIABLES
    published,      \* events published so far
    queue,
    timer,          \* the task in _flush_timer: none, sleeping, or flushing
    closed,
    holder,         \* the task that holds _post_lock
    waiters,        \* the tasks that wait for it
    batch,          \* what the holder is posting
    remaining,      \* its events_remaining
    attempt, req,   \* its attempt, and how far the request has come
    late,           \* batches of requests that failed before they were processed
    received,       \* events the webhook has processed
    dropped,        \* events that _trim_queue removed
    cut,            \* events of a post that close() cancelled
    fails

vars == <<published, queue, timer, closed, holder, waiters, batch, remaining,
          attempt, req, late, received, dropped, cut, fails>>
netVars == <<late, received, cut, fails>>
postVars == <<batch, remaining, attempt, req>>

TypeOK ==
    /\ published \in 0..MaxEvents
    /\ queue \in Seq(Events) /\ batch \in Seq(Events)
    /\ timer \in {"none", "sleep", "flush"} /\ closed \in BOOLEAN
    /\ holder \in Tasks \cup {None} /\ waiters \in Seq(Tasks)
    /\ remaining \in 0..MaxQueueSize
    /\ attempt \in 0..NumRetries /\ req \in {"none", "sent", "served", "wait"}
    /\ late \subseteq Seq(Events)
    /\ received \subseteq Events /\ dropped \subseteq Events /\ cut \subseteq Events
    /\ fails \in 0..MaxFails

Init ==
    /\ published = 0 /\ queue = <<>> /\ timer = "none" /\ closed = FALSE
    /\ holder = None /\ waiters = <<>>
    /\ batch = <<>> /\ remaining = 0 /\ attempt = 0 /\ req = "none"
    /\ late = {} /\ received = {} /\ dropped = {} /\ cut = {} /\ fails = 0

-----------------------------------------------------------------------------
(* The queue.                                                              *)

\* _queue_bytes, the sum of _queue_sizes.
Bytes(q) == MapThenFoldSet(+, 0, LAMBDA i : Size[q[i]], LAMBDA s : CHOOSE i \in s : TRUE, DOMAIN q)

\* What is left when the oldest events over the limits are gone.
Trim(q) ==
    LET d == Min({n \in 0..Len(q) :
                    \/ n = Len(q)
                    \/ /\ Len(q) - n <= MaxQueueSize
                       /\ Bytes(SubSeq(q, n + 1, Len(q))) <= MaxQueueBytes})
    IN SubSeq(q, d + 1, Len(q))

\* The queue becomes q, trimmed.
SetQueue(q) ==
    /\ queue' = Trim(q)
    /\ dropped' = dropped \cup (Range(q) \ Range(Trim(q)))

\* Mutant: an event over the limit is not sent by itself.
BatchLenStrict(q, n) ==
    Max({k \in 0..Min({Len(q), n, EventBufferSize}) :
           2 + Bytes(SubSeq(q, 1, k)) + (IF k = 0 THEN 0 ELSE k - 1) <= MaxBatchBytes \/ k = 0})

\* _take_batch: the events that fit into a request, brackets and commas included,
\* and at least one.
BatchLen(q, n) ==
    Max({k \in 0..Min({Len(q), n, EventBufferSize}) :
           k <= 1 \/ 2 + Bytes(SubSeq(q, 1, k)) + k - 1 <= MaxBatchBytes})

\* The next batch of a post is taken from q and its request goes out.
SendBatch(q, n) ==
    LET k == BatchLen(q, n)
    IN /\ batch' = SubSeq(q, 1, k)
       /\ queue' = SubSeq(q, k + 1, Len(q))
       /\ remaining' = n
       /\ attempt' = 0 /\ req' = "sent"

-----------------------------------------------------------------------------
(* _post_lock and the tasks.                                               *)

\* A task is in the line once at most.
Without(s, p) ==
    IF \A i \in DOMAIN s : s[i] # p THEN s
    ELSE LET pos == CHOOSE i \in DOMAIN s : s[i] = p
         IN  [i \in 1..(Len(s) - 1) |-> IF i < pos THEN s[i] ELSE s[i + 1]]

\* _flush_after_delay is over: the timer is started again if something is left.
\* Nothing else is left to do in the other tasks.
EndTask(p, q) ==
    timer' = IF p # Timer THEN timer ELSE IF q = <<>> \/ closed THEN "none" ELSE "sleep"

\* _post_lock is released.
EndPost ==
    /\ holder' = None /\ batch' = <<>> /\ remaining' = 0 /\ attempt' = 0 /\ req' = "none"

\* _post_events of p from the moment it has the lock.
Enter(p, q, ws) ==
    /\ waiters' = ws
    /\ IF q = <<>> THEN /\ UNCHANGED <<queue, holder, postVars>>
                        /\ EndTask(p, q)
       ELSE /\ holder' = p
            /\ SendBatch(q, Len(q))
            /\ timer' = IF p = Timer THEN "flush" ELSE timer

\* _post_events up to its first await: with the lock, or in the line for it.
PostEvents(p, q, ws, t) ==
    IF holder = None /\ ws = <<>>
    THEN /\ holder' = p /\ SendBatch(q, Len(q)) /\ waiters' = ws /\ timer' = t
    ELSE /\ queue' = q /\ waiters' = Append(ws, p) /\ timer' = t
         /\ UNCHANGED <<holder, postVars>>

\* _start_flush_timer
Started == IF timer = "none" /\ ~closed THEN "sleep" ELSE timer

Full(q) == Len(q) >= EventBufferSize \/ Bytes(q) >= MaxBatchBytes

\* Mutant: a full queue is left to the post that is going on.
PublishSkips ==
    /\ published < MaxEvents /\ published' = published + 1
    /\ LET all == Append(queue, published')
           q == Trim(all)
       IN /\ dropped' = dropped \cup (Range(all) \ Range(q))
          /\ IF Full(q) /\ holder = None
             THEN PostEvents(published', q, Without(waiters, Timer), "none")
             ELSE /\ queue' = q
                  /\ timer' = IF q = <<>> \/ Full(q) THEN timer ELSE Started
                  /\ UNCHANGED <<holder, waiters, postVars>>
    /\ UNCHANGED <<closed, netVars>>

\* __call__ with the next event.  A full queue is posted at once and the timer
\* cancelled, unless a post is going on.
Publish ==
    /\ published < MaxEvents /\ published' = published + 1
    /\ LET all == Append(queue, published')
           q == Trim(all)
       IN /\ dropped' = dropped \cup (Range(all) \ Range(q))
          /\ IF Full(q) /\ holder = None
             THEN PostEvents(published', q, Without(waiters, Timer), "none")
             ELSE /\ queue' = q
                  /\ timer' = IF q = <<>> THEN timer ELSE Started
                  /\ UNCHANGED <<holder, waiters, postVars>>
    /\ UNCHANGED <<closed, netVars>>

\* The flush delay is over.
TimerFires ==
    /\ timer = "sleep"
    /\ IF queue = <<>> THEN /\ timer' = "none"
                            /\ UNCHANGED <<queue, holder, waiters, postVars>>
       ELSE PostEvents(Timer, queue, waiters, "flush")
    /\ UNCHANGED <<published, closed, dropped, netVars>>

\* The first task in the line gets the lock.
WakeUp ==
    /\ holder = None /\ waiters # <<>>
    /\ Enter(Head(waiters), queue, Tail(waiters))
    /\ UNCHANGED <<published, closed, dropped, netVars>>

\* close(): the timer is cancelled wherever it is.
Close ==
    /\ ~closed /\ closed' = TRUE
    /\ IF queue = <<>> THEN /\ timer' = "none" /\ waiters' = Without(waiters, Timer)
                            /\ UNCHANGED <<queue, holder, postVars>>
       ELSE PostEvents(Closer, queue, Without(waiters, Timer), "none")
    /\ UNCHANGED <<published, dropped, netVars>>

\* The timer that close() cancelled was posting: it leaves with its batch.
Cancelled ==
    /\ holder = Timer /\ timer = "none"
    /\ cut' = cut \cup Range(batch)
    /\ late' = IF req = "sent" THEN late \cup {batch} ELSE late
    /\ EndPost
    /\ UNCHANGED <<published, queue, timer, closed, waiters, received, dropped, fails>>

-----------------------------------------------------------------------------
(* _post_batch and the network.                                            *)

\* The task that posts, unless its cancellation is on the way.
Posting == holder # None /\ ~(holder = Timer /\ timer = "none")

\* The webhook processes the request.
Serve ==
    /\ holder # None /\ req = "sent"
    /\ req' = "served"
    /\ received' = received \cup Range(batch)
    /\ UNCHANGED <<published, queue, timer, closed, holder, waiters, batch, remaining,
                   attempt, late, dropped, cut, fails>>

\* It processes one that its sender has given up on.
ServeLate ==
    /\ \E b \in late : received' = received \cup Range(b) /\ late' = late \ {b}
    /\ UNCHANGED <<published, queue, timer, closed, holder, waiters, postVars, dropped, cut, fails>>

\* The answer arrives: on to the next batch of what was there at the beginning.
PostOk ==
    /\ Posting /\ req = "served"
    /\ IF remaining > Len(batch)
       THEN /\ SendBatch(queue, remaining - Len(batch))
            /\ UNCHANGED <<timer, holder>>
       ELSE EndPost /\ EndTask(holder, queue) /\ UNCHANGED queue
    /\ UNCHANGED <<published, closed, waiters, dropped, netVars>>

\* The request has failed, or its answer did not come in time.
Failed ==
    /\ Posting /\ req \in {"sent", "served"}
    /\ fails < MaxFails /\ fails' = fails + 1
    /\ late' = IF req = "sent" THEN late \cup {batch} ELSE late

\* Another attempt is left.
PostFails ==
    /\ Failed /\ attempt < NumRetries
    /\ req' = "wait"
    /\ UNCHANGED <<published, queue, timer, closed, holder, waiters, batch, remaining, attempt,
                   received, dropped, cut>>

Retry ==
    /\ Posting /\ req = "wait"
    /\ attempt' = attempt + 1 /\ req' = "sent"
    /\ UNCHANGED <<published, queue, timer, closed, holder, waiters, batch, remaining, dropped, netVars>>

\* Mutant: the batch that failed is forgotten.
GiveUpForgets ==
    /\ Failed /\ attempt = NumRetries
    /\ EndPost /\ EndTask(holder, queue)
    /\ UNCHANGED <<published, queue, closed, waiters, received, dropped, cut>>

\* Mutant: it is put at the end of the queue.
GiveUpBehind ==
    /\ Failed /\ attempt = NumRetries
    /\ SetQueue(queue \o batch)
    /\ EndPost /\ EndTask(holder, Trim(queue \o batch))
    /\ UNCHANGED <<published, closed, waiters, received, cut>>

\* The last attempt has failed: the batch is put back in front.
GiveUp ==
    /\ Failed /\ attempt = NumRetries
    /\ SetQueue(batch \o queue)
    /\ EndPost /\ EndTask(holder, Trim(batch \o queue))
    /\ UNCHANGED <<published, closed, waiters, received, cut>>

Next ==
    \/ Publish \/ TimerFires \/ WakeUp \/ Close \/ Cancelled
    \/ Serve \/ ServeLate \/ PostOk \/ PostFails \/ Retry \/ GiveUp

Spec == Init /\ [][Next]_vars

\* The loop runs every task, timers fire, and the webhook answers in the end:
\* at most MaxFails posts fail.
FairSpec ==
    /\ Spec
    /\ WF_vars(TimerFires) /\ WF_vars(WakeUp) /\ WF_vars(Cancelled)
    /\ WF_vars(Serve) /\ WF_vars(PostOk) /\ WF_vars(Retry)

-----------------------------------------------------------------------------

Settled == received \cup dropped \cup cut

\* Every event is accounted for: processed by the webhook, dropped by a limit,
\* cut off by close(), or still on its way, whatever fails and whoever posts.
NothingLost == TypeOK /\ 1..published = Settled \cup Range(batch) \cup Range(queue)

\* The webhook sees the events in their order: when it has one, every earlier one
\* has reached it too, or never will because a limit or close() removed it.
\* Retries, requeued batches and requests processed late do not change that.
GapsExplained == \A e \in received : \A f \in 1..e : f \in Settled

Unattended == queue # <<>> /\ ~closed /\ timer = "none" /\ holder = None /\ waiters = <<>>

\* Queued events are left without a timer or a task that will post them only when
\* the post of a __call__ fails for good.
AttendedUnlessFailed ==
    [][Unattended' => Unattended \/ (holder \in Events /\ attempt = NumRetries /\ fails' > fails)]_vars

\* An event is delivered or dropped in the end, unless the conversation is closed
\* or a failed __call__ has left the queue unattended.
Delivered ==
    \A e \in Events : published >= e ~> e \in Settled \/ closed \/ Unattended
=============================================================================
