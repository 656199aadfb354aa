----------------------------- MODULE SessionRun -----------------------------
(***************************************************************************)
(* One loaded conversation: the EventService that accepts messages, starts *)
(* and stops runs (event_service.py), and the run loop it drives           *)
(* (LocalConversation.arun, local_conversation.py).  Client requests, the  *)
(* run task, its wrap-up, the start-deadline watchdog, the admission       *)
(* scheduler and close() interleave at every await.                        *)
(*                                                                         *)
(* Two things serialise them, and both are in the guards: the event-loop   *)
(* thread (EventLoop: no coroutine runs between two iterations of arun,    *)
(* which does not await there) and the conversation state lock (StateLock: *)
(* held while pending actions execute; released during the LLM call).      *)
(*                                                                         *)
(* The agent is a native asynchronous one (not ACP).  User messages are    *)
(* numbered in the order they are appended.                                *)
(***************************************************************************)
EXTENDS Naturals

CONSTANTS
    Clients,     \* concurrent API requests
    Tasks,       \* bound: run tasks that have not unwound yet
    Sched,       \* the admission scheduler (ConversationService._admission_loop)
    None,        \* "no task", "nobody holds the run lock"
    MaxMsgs,     \* bound: no message is sent once there are this many
    MaxAsks,     \* bound: requests to run (send with run=True, resume, accept)
    MaxIter,     \* max_iteration_per_run
    MaxDenials,  \* MAX_CONSECUTIVE_STOP_HOOK_DENIALS
    MaxCondense, \* condensation-only steps in a row that count as stuck
    Scheduler,   \* the scheduler recovers pending run intents
    Others,      \* other conversations may keep its passes from this one
    StopHook,    \* a stop hook is configured
    Confirm,     \* a confirmation policy is configured
    Watchdog,    \* the start deadline is enabled
    Closes       \* the service may be closed (eviction, shutdown)

ASSUME ConstantsAssumption ==
    /\ Clients \cap Tasks = {}
    /\ Sched \notin Clients \cup Tasks
    /\ None \notin Clients \cup Tasks \cup {Sched}
    /\ {MaxMsgs, MaxAsks} \subseteq Nat
    /\ {MaxIter, MaxDenials, MaxCondense} \subseteq Nat \ {0}
    /\ {Scheduler, Others, StopHook, Confirm, Watchdog, Closes} \subseteq BOOLEAN

Actors == Clients \cup Tasks \cup {Sched}

VARIABLES
    status,    \* ConversationState.execution_status
    last,      \* last_user_message_id: number of the newest user message
    consumed,  \* consumed_user_message_id
    pending,   \* the history has actions without an observation
    runTask,   \* EventService._run_task
    runLock,   \* holder of EventService._run_lock
    rerun,     \* EventService._rerun_requested
    intent,    \* EventService._run_intent_pending
    closing,   \* how far EventService.close() has come
    drain,     \* the run task close() waits for
    turn,      \* a pass of the scheduler gets as far as starting this one: see Turn
    pc,        \* where each request, run task and the scheduler is
    kind,      \* what each request does
    moved,     \* the _explicit_interrupt_generation an actor captured is out of date
    loc,       \* locals of arun: iteration and the two streaks
    wd,        \* the start-deadline watchdog of each run task
    owed,      \* history: newest message whose sender is owed a run: 0 when a
               \* run began since, or a stop, a rejection or the reopening of
               \* a stuck conversation without a run came after it
    taken,     \* history: since a run began, the wrap-up of an older run took a
               \* re-run request that was left for a newer one
    asks,      \* history: number of requests to run
    runs       \* history: number of run tasks created

conv  == <<status, last, consumed, pending>>
svc   == <<runTask, runLock, rerun, intent>>
clos  == <<closing, drain, turn>>
task  == <<loc, wd>>
ghost == <<owed, taken, asks, runs>>
vars  == <<conv, svc, clos, pc, kind, moved, task, ghost>>

Statuses == {"idle", "running", "paused", "waiting", "finished", "error", "stuck"}
Kinds    == {"none", "note", "send", "resume", "reject", "rejectNone"}

\* Where a run task can be: up to "tail" it is EventService._run_task.
InArun   == {"init", "loop", "llm", "tools", "cancelled"}
Active   == InArun \cup {"created", "tail"}
Wrapping == {"publish", "recheck", "run", "locked"}

ClientPcs == {"idle", "append", "sent", "run", "locked", "pause", "stopping", "reject"}
TaskPcs   == Active \cup Wrapping \cup {"idle"}

NoLocals == [iter |-> 0, denials |-> 0, streak |-> 0]

FlagsOK ==
    /\ pending \in BOOLEAN /\ rerun \in BOOLEAN /\ intent \in BOOLEAN
    /\ taken \in BOOLEAN /\ turn \in BOOLEAN
    /\ moved \in [Actors -> BOOLEAN]

ValuesOK ==
    /\ status \in Statuses
    /\ last \in Nat /\ consumed \in 0..last
    /\ runTask \in Tasks \cup {None}
    /\ runLock \in Actors \cup {None}
    /\ closing \in {"open", "closing", "paused", "draining", "closed"}
    /\ drain \in Tasks \cup {None}
    /\ pc \in [Actors -> ClientPcs \cup TaskPcs]
    /\ \A c \in Clients : pc[c] \in ClientPcs
    /\ \A t \in Tasks : pc[t] \in TaskPcs
    /\ pc[Sched] \in {"idle", "run", "locked"}
    /\ kind \in [Actors -> Kinds]
    /\ loc \in [Tasks -> [iter : Nat, denials : Nat, streak : Nat]]
    /\ wd \in [Tasks -> {"off", "armed", "fired"}]
    /\ owed \in 0..last
    /\ asks \in 0..MaxAsks /\ runs \in Nat

\* Types, and the counters within their bounds.
TypeOK == FlagsOK /\ ValuesOK

Init ==
    /\ status = "idle" /\ last = 0 /\ consumed = 0 /\ pending = FALSE
    /\ runTask = None /\ runLock = None /\ rerun = FALSE /\ intent = FALSE
    /\ closing = "open" /\ drain = None /\ turn = TRUE
    /\ pc = [x \in Actors |-> "idle"]
    /\ kind = [x \in Actors |-> "none"]
    /\ moved = [x \in Actors |-> FALSE]
    /\ loc = [t \in Tasks |-> NoLocals]
    /\ wd = [t \in Tasks |-> "off"]
    /\ owed = 0 /\ taken = FALSE /\ asks = 0 /\ runs = 0

(***************************************************************************)
(* The two things that serialise steps, and the pieces several steps share.*)
(***************************************************************************)
\* A coroutine other than arun may run: arun is at an await, or not running.
EventLoop == \A t \in Tasks : pc[t] # "loop"

\* A worker thread can have the conversation's state lock.
StateLock == \A t \in Tasks : pc[t] # "tools"

Go(x, p) == pc' = [pc EXCEPT ![x] = p]

\* A request is answered, a wrap-up or a scheduler pass is over.
Rest(x) ==
    /\ Go(x, "idle")
    /\ kind' = [kind EXCEPT ![x] = "none"]
    /\ moved' = [moved EXCEPT ![x] = FALSE]

\* self._explicit_interrupt_generation += 1
Bump == moved' = [x \in Actors |-> pc[x] # "idle"]

\* LocalConversation.pause(): only a running or idle conversation is paused.
Paused(s) == IF s \in {"idle", "running"} THEN "paused" ELSE s

\* arun()'s first block: which statuses a new run moves to RUNNING.
Started(s) == IF s \in {"idle", "paused", "error", "stuck"} THEN "running" ELSE s

(***************************************************************************)
(* send_message: capture the generation, append on the emit thread, then   *)
(* ask for a run unless a stop came in between.                            *)
(***************************************************************************)
Send(c, k) ==
    /\ EventLoop /\ closing = "open" /\ pc[c] = "idle"
    /\ last < MaxMsgs
    /\ k = "send" => asks < MaxAsks
    /\ asks' = IF k = "send" THEN asks + 1 ELSE asks
    /\ kind' = [kind EXCEPT ![c] = k]
    /\ Go(c, "append")
    /\ UNCHANGED <<conv, svc, clos, moved, task, owed, taken, runs>>

\* LocalConversation.send_message: a new message leaves FINISHED and STUCK.
AppendMessage(c) ==
    /\ StateLock /\ pc[c] = "append"
    /\ status' = IF status \in {"finished", "stuck"} THEN "idle" ELSE status
    /\ last' = last + 1
    /\ owed' = IF kind[c] = "send" /\ ~moved[c] THEN last + 1
               ELSE IF status = "stuck" THEN 0 ELSE owed
    /\ Go(c, "sent")
    /\ UNCHANGED <<consumed, pending, svc, clos, kind, moved, task,
                   taken, asks, runs>>

\* Back on the event loop: run=False returns, a stopped request is recorded
\* for the scheduler, any other goes on to run().
AfterAppend(c) ==
    /\ EventLoop /\ pc[c] = "sent"
    /\ \/ /\ kind[c] = "send" /\ ~moved[c]
          /\ Go(c, "run")
          /\ UNCHANGED <<intent, kind, moved>>
       \/ /\ kind[c] = "note" \/ moved[c]
          /\ intent' = (intent \/ kind[c] = "send")
          /\ Rest(c)
    /\ UNCHANGED <<conv, runTask, runLock, rerun, clos, task, ghost>>

\* The resume endpoint, and accepting a confirmation: run() and nothing else.
Resume(c) ==
    /\ EventLoop /\ closing = "open" /\ pc[c] = "idle"
    /\ asks < MaxAsks /\ asks' = asks + 1
    /\ kind' = [kind EXCEPT ![c] = "resume"]
    /\ Go(c, "run")
    /\ UNCHANGED <<conv, svc, clos, moved, task, owed, taken, runs>>

\* What the rest of the daemon decides about a recorded intent.  A pass of
\* _admit_queued ends before it looks for intents when the head of the queue
\* does not load or is refused, and it skips a conversation that is queued or
\* for which _has_free_slot is false.
Turn ==
    /\ Scheduler /\ Others /\ intent /\ closing = "open"
    /\ turn' = ~turn
    /\ UNCHANGED <<conv, svc, closing, drain, pc, kind, moved, task, ghost>>

\* Mutant: only an IDLE conversation is started.
RecoverIdle ==
    /\ EventLoop /\ Scheduler /\ intent /\ closing = "open" /\ pc[Sched] = "idle"
    /\ turn /\ status = "idle"
    /\ Go(Sched, "run")
    /\ UNCHANGED <<conv, svc, clos, kind, moved, task, ghost>>

\* The scheduler retries a recorded intent (_recover_pending_run_intents).
Recover ==
    /\ EventLoop /\ Scheduler /\ intent /\ closing = "open" /\ pc[Sched] = "idle"
    /\ turn
    /\ Go(Sched, "run")
    /\ UNCHANGED <<conv, svc, clos, kind, moved, task, ghost>>

(***************************************************************************)
(* run(): under the run lock, refuse while a run task exists, read the     *)
(* status (an await), look at the close flag and the generation again, and *)
(* create the task.  The caller is a client, the wrap-up of a run, or the  *)
(* scheduler.                                                              *)
(***************************************************************************)
\* self._run_task is not None and not self._run_task.done()
\* Mutant: rely on the status, which FINISHED and IDLE leave while a run wraps up.
RunTaskLiveByStatus == status = "running"
RunTaskLive == runTask # None

\* Mutant: a refused request is forgotten.
RefusalForgotten(x) == FALSE

\* send_message and the wrap-up remember a refusal in _rerun_requested; the
\* resume endpoint and the scheduler report or ignore it.
RefusalSticks(x) == x \in Tasks \/ kind[x] = "send"

Refuse(x) ==
    /\ rerun' = (rerun \/ RefusalSticks(x))
    /\ runLock' = None
    /\ Rest(x)
    /\ UNCHANGED <<conv, runTask, intent, clos, task, ghost>>

\* The request ends without a run and without a trace.
Leave(x) ==
    /\ runLock' = IF runLock = x THEN None ELSE runLock
    /\ Rest(x)
    /\ UNCHANGED <<conv, runTask, rerun, intent, clos, task, ghost>>

FreeTasks == {t \in Tasks : pc[t] = "idle" /\ wd[t] = "off"}

\* The wrap-up of a run ends when it has created the next task, so that the
\* new task can take its name.
NewTasks(x) == FreeTasks \cup (Tasks \cap {x})

EnterRun(x) ==
    /\ EventLoop /\ pc[x] = "run"
    /\ \/ closing # "open" /\ Leave(x)
       \/ runLock = None /\ RunTaskLive /\ Refuse(x)
       \/ /\ runLock = None /\ ~RunTaskLive
          /\ NewTasks(x) # {}
          /\ runLock' = x
          /\ Go(x, "locked")
          /\ UNCHANGED <<conv, runTask, rerun, intent, clos, kind, moved, task, ghost>>

Create(x, t) ==
    /\ runTask' = t
    /\ runLock' = None
    /\ intent' = FALSE
    /\ pc' = [pc EXCEPT ![x] = "idle", ![t] = "created"]
    /\ kind' = [kind EXCEPT ![x] = "none"]
    /\ moved' = [moved EXCEPT ![x] = FALSE]
    /\ runs' = runs + 1
    /\ UNCHANGED <<conv, rerun, clos, task, owed, taken, asks>>

\* Only send_message passes a generation: the others pass None.
Superseded(x) == kind[x] = "send" /\ moved[x]

\* Mutant: close() is only looked for before the run lock is taken.
FinishRunWhileClosing(x) ==
    /\ EventLoop /\ StateLock /\ pc[x] = "locked"
    /\ \/ (status = "running" \/ RunTaskLive) /\ Refuse(x)
       \/ status # "running" /\ ~RunTaskLive /\ \E t \in NewTasks(x) : Create(x, t)

FinishRun(x) ==
    /\ EventLoop /\ StateLock /\ pc[x] = "locked"
    /\ \/ (status = "running" \/ RunTaskLive) /\ Refuse(x)
       \/ status # "running" /\ ~RunTaskLive
          /\ (closing # "open" \/ Superseded(x)) /\ Leave(x)
       \/ /\ status # "running" /\ ~RunTaskLive
          /\ closing = "open" /\ ~Superseded(x)
          /\ \E t \in NewTasks(x) : Create(x, t)

(***************************************************************************)
(* Stopping: pause waits for the state lock on a worker thread, interrupt  *)
(* cancels arun at once (or pauses when no arun is registered yet, or any  *)
(* more), and both withdraw a requested re-run.                            *)
(***************************************************************************)
Pause(c) ==
    /\ EventLoop /\ closing # "closed" /\ pc[c] = "idle"
    /\ Bump /\ rerun' = FALSE
    /\ owed' = 0
    /\ Go(c, "pause")
    /\ UNCHANGED <<conv, runTask, runLock, intent, clos, kind, task, taken, asks, runs>>

PauseState(c) ==
    /\ StateLock /\ pc[c] = "pause"
    /\ status' = Paused(status)
    /\ Rest(c)
    /\ UNCHANGED <<last, consumed, pending, svc, clos, task, owed, taken, asks, runs>>

\* LocalConversation.interrupt(): cancel the registered arun task, else pause.
CancelArun(s) ==
    LET hit == {t \in Tasks : pc[t] \in InArun}
    IN  /\ status' = IF hit = {} THEN Paused(status) ELSE status
        /\ pc' = [x \in Actors |-> IF x \in hit THEN "cancelled"
                                   ELSE IF x \in DOMAIN s THEN s[x] ELSE pc[x]]

Interrupt(c) ==
    /\ EventLoop /\ closing # "closed" /\ pc[c] = "idle"
    /\ Bump /\ rerun' = FALSE
    /\ CancelArun([x \in {c} |-> "stopping"])
    /\ owed' = 0
    /\ UNCHANGED <<last, consumed, pending, runTask, runLock, intent, clos, kind, task,
                   taken, asks, runs>>

\* The run task has ended, or five seconds have passed.
InterruptDone(c) ==
    /\ EventLoop /\ pc[c] = "stopping"
    /\ Rest(c)
    /\ UNCHANGED <<conv, svc, clos, task, owed, taken, asks, runs>>

\* reject_pending_actions: the list of pending actions is read before the
\* state lock is taken, and can be out of date when it is used.
Reject(c) ==
    /\ closing # "closed" /\ pc[c] = "idle" /\ Confirm
    /\ kind' = [kind EXCEPT ![c] = IF pending THEN "reject" ELSE "rejectNone"]
    /\ Go(c, "reject")
    /\ UNCHANGED <<conv, svc, clos, moved, task, ghost>>

\* The pending actions have got a result: a list of them that a rejection read
\* before matches nothing any more.
Resolved(ks) == [x \in Actors |-> IF ks[x] = "reject" THEN "rejectNone" ELSE ks[x]]

\* The conversation is left IDLE on purpose: nothing is owed to its sender.
RejectState(c) ==
    /\ StateLock /\ pc[c] = "reject"
    /\ status' = IF status = "waiting" THEN "idle" ELSE status
    /\ pending' = (pending /\ kind[c] # "reject")
    /\ owed' = IF status = "waiting" THEN 0 ELSE owed
    /\ Go(c, "idle")
    /\ LET answered == [kind EXCEPT ![c] = "none"]
       IN  kind' = IF kind[c] = "reject" THEN Resolved(answered)
                   ELSE answered
    /\ moved' = [moved EXCEPT ![c] = FALSE]
    /\ UNCHANGED <<last, consumed, svc, clos, task, taken, asks, runs>>

(***************************************************************************)
(* The run task: arun's loop.                                              *)
(***************************************************************************)
\* The task's first step: the watchdog is armed, arun registers itself and
\* moves the status to RUNNING.
Begin(t) ==
    /\ EventLoop /\ StateLock /\ pc[t] = "created"
    /\ status' = Started(status)
    /\ loc' = [loc EXCEPT ![t] = NoLocals]
    /\ wd' = [wd EXCEPT ![t] = IF Watchdog THEN "armed" ELSE "off"]
    /\ Go(t, "init")
    /\ owed' = 0 /\ taken' = FALSE
    /\ UNCHANGED <<last, consumed, pending, svc, clos, kind, moved,
                   asks, runs>>

\* _ensure_agent_ready() has returned.
Ready(t) ==
    /\ EventLoop /\ pc[t] = "init"
    /\ Go(t, "loop")
    /\ UNCHANGED <<conv, svc, clos, kind, moved, task, ghost>>

EndLoop(t, s, l) ==
    /\ status' = s
    /\ loc' = [loc EXCEPT ![t] = l]
    /\ Go(t, "tail")
    /\ UNCHANGED <<svc, clos, moved, wd, ghost>>

\* Top of the loop, PAUSED or STUCK: stop.
LoopStop(t) ==
    /\ pc[t] = "loop" /\ status \in {"paused", "stuck"}
    /\ EndLoop(t, status, loc[t])
    /\ UNCHANGED <<last, consumed, pending, kind>>

\* Top of the loop, FINISHED: stop unless the stop hook denies it.
LoopFinished(t) ==
    /\ pc[t] = "loop" /\ status = "finished"
    /\ UNCHANGED <<last, consumed, pending, kind>>
    /\ \/ EndLoop(t, "finished", loc[t])
       \/ LET n == loc[t].denials + 1
          IN  /\ StopHook
              /\ \/ /\ n >= MaxDenials \/ loc[t].iter >= MaxIter
                    /\ EndLoop(t, "error", loc[t])
                 \/ /\ n < MaxDenials /\ loc[t].iter < MaxIter
                    /\ status' = "running"
                    /\ loc' = [loc EXCEPT ![t].denials = n]
                    /\ UNCHANGED <<svc, clos, pc, moved, wd, ghost>>

\* Top of the loop, any other status: stuck, or the next step starts and
\* answers the newest message there is.  Actions left pending are executed,
\* with the state lock held; otherwise the LLM is called without it.
LoopStep(t) ==
    /\ pc[t] = "loop" /\ status \notin {"paused", "stuck", "finished"}
    /\ \/ EndLoop(t, "stuck", loc[t]) /\ UNCHANGED <<last, consumed, pending, kind>>
       \/ /\ status' = IF status = "waiting" THEN "running" ELSE status
          /\ consumed' = last
          /\ Go(t, IF pending THEN "tools" ELSE "llm")
          /\ UNCHANGED <<last, pending, svc, clos, kind, moved, task, ghost>>

\* What the agent's step did: it finished with a message or with the finish
\* tool, asked for confirmation, called tools, added a message of its own to
\* have the LLM try again, or condensed the history.
Outcomes(p) ==
    IF p = "tools" THEN {"finishTool", "tools"}
    ELSE {"finish", "finishTool", "tools", "retry", "condense"}
            \cup (IF Confirm THEN {"confirm"} ELSE {})

StatusAfter(o) ==
    IF o \in {"finish", "finishTool"} THEN "finished"
    ELSE IF o = "confirm" THEN "waiting" ELSE status

\* arun's locals after a step: condensation is not an iteration, completed
\* tool calls end a streak of stop-hook denials.
LocalsAfter(t, o) ==
    [iter    |-> IF o = "condense" THEN loc[t].iter ELSE loc[t].iter + 1,
     denials |-> IF o \in {"tools", "finishTool"} THEN 0 ELSE loc[t].denials,
     streak  |-> IF o = "condense" THEN loc[t].streak + 1 ELSE 0]

\* Mutant: no rescan after the step.
NeverSuperseding(o) == FALSE

\* astep releases the state lock for the LLM call, so that a message can have
\* arrived during the step: it supersedes an answer or a confirmation.
Superseding(o) == last # consumed /\ o \in {"finish", "finishTool", "confirm"}

StepEnd(t, o, overBudget) ==
    LET l    == LocalsAfter(t, o)
        over == l.iter >= MaxIter
        st   == IF Superseding(o) THEN "running" ELSE StatusAfter(o)
        fin  == StatusAfter(o) = "finished"
        keep == UNCHANGED <<svc, clos, moved, wd, ghost>>
        loop == /\ status' = st /\ Go(t, "loop") /\ keep
                /\ loc' = [loc EXCEPT ![t] = l]
    IN  /\ pc[t] \in {"llm", "tools"} /\ o \in Outcomes(pc[t])
        /\ o = "retry" => last < MaxMsgs
        /\ last' = IF o = "retry" THEN last + 1 ELSE last
        /\ consumed' = consumed
        /\ pending' = (o = "confirm" /\ ~Superseding(o))
        /\ kind' = IF pc[t] = "tools" THEN Resolved(kind) ELSE kind
        /\ \/ l.streak >= MaxCondense /\ EndLoop(t, "stuck", l)
           \/ /\ l.streak < MaxCondense
              /\ \/ Superseding(o) /\ over /\ EndLoop(t, "idle", l)
                 \/ /\ ~(Superseding(o) /\ over)
                    /\ \/ st = "waiting" /\ EndLoop(t, "waiting", l)
                       \/ /\ st # "waiting"
                          /\ IF overBudget /\ ~fin THEN EndLoop(t, "error", l)
                             ELSE IF over /\ st # "finished" THEN EndLoop(t, "error", l)
                             ELSE loop

\* An exception in _ensure_agent_ready(), in a step or in a hook.
Fail(t) ==
    /\ pc[t] \in {"init", "loop", "llm", "tools"}
    /\ EndLoop(t, "error", loc[t])
    /\ UNCHANGED <<last, consumed, pending, kind>>

\* CancelledError: PAUSED, and actions in flight get an error observation.
Cancelled(t) ==
    /\ EventLoop /\ pc[t] = "cancelled"
    /\ EndLoop(t, "paused", loc[t])
    /\ pending' = FALSE
    /\ kind' = Resolved(kind)
    /\ UNCHANGED <<last, consumed>>

(***************************************************************************)
(* The run task's finally: wait for pending events, give up _run_task,     *)
(* publish, then restart for a message that was refused meanwhile.         *)
(***************************************************************************)
FreeRunTask(t) ==
    /\ EventLoop /\ pc[t] = "tail"
    /\ runTask' = None
    /\ wd' = [wd EXCEPT ![t] = IF @ = "fired" THEN @ ELSE "off"]
    /\ loc' = [loc EXCEPT ![t] = NoLocals]
    /\ Go(t, "publish")
    /\ UNCHANGED <<conv, runLock, rerun, intent, clos, kind, moved, ghost>>

\* Mutant: the flag is read and not cleared.
ReadFlagsOnly(t) ==
    /\ EventLoop /\ StateLock /\ pc[t] = "publish"
    /\ moved' = [moved EXCEPT ![t] = FALSE]
    /\ Go(t, IF rerun THEN "recheck" ELSE "idle")
    /\ UNCHANGED <<conv, svc, clos, kind, task, ghost>>

ReadFlags(t) ==
    /\ EventLoop /\ StateLock /\ pc[t] = "publish"
    /\ rerun' = FALSE
    /\ moved' = [moved EXCEPT ![t] = FALSE]
    /\ Go(t, IF rerun THEN "recheck" ELSE "idle")
    /\ taken' = (taken \/ (rerun /\ runTask # None))
    /\ UNCHANGED <<conv, runTask, runLock, intent, clos, kind, task,
                   owed, asks, runs>>

\* A wrap-up that an explicit stop overtook, or that finds the conversation in
\* any state but IDLE, drops the request.
Recheck(t) ==
    /\ EventLoop /\ StateLock /\ pc[t] = "recheck"
    /\ IF ~moved[t] /\ status = "idle" THEN Go(t, "run") /\ UNCHANGED <<kind, moved>>
       ELSE Rest(t)
    /\ UNCHANGED <<conv, svc, clos, task, ghost>>

(***************************************************************************)
(* The start deadline: interrupt a run that has completed no step, then    *)
(* record why.                                                             *)
(***************************************************************************)
Deadline(t) ==
    /\ EventLoop /\ closing = "open" /\ wd[t] = "armed" /\ loc[t].iter = 0
    /\ wd' = [wd EXCEPT ![t] = "fired"]
    /\ Bump /\ rerun' = FALSE
    /\ CancelArun([x \in {} |-> "idle"])
    /\ UNCHANGED <<last, consumed, pending, runTask, runLock, intent, clos, kind,
                   loc, ghost>>

RecordDeadline(t) ==
    /\ StateLock /\ wd[t] = "fired"
    /\ wd' = [wd EXCEPT ![t] = "off"]
    /\ status' = IF closing = "closed" THEN status ELSE "error"
    /\ UNCHANGED <<last, consumed, pending, svc, clos, pc, kind, moved, loc, ghost>>

(***************************************************************************)
(* close(): no new run, then pause and cancel the run there is and wait.   *)
(***************************************************************************)
Close ==
    /\ EventLoop /\ Closes /\ closing = "open"
    /\ closing' = "closing"
    /\ Bump /\ rerun' = FALSE
    /\ owed' = 0
    /\ UNCHANGED <<conv, runTask, runLock, intent, drain, turn, pc, kind, task,
                   taken, asks, runs>>

ClosePause ==
    /\ StateLock /\ closing = "closing"
    /\ drain' = runTask
    /\ status' = IF runTask = None THEN status ELSE Paused(status)
    /\ closing' = IF runTask = None THEN "draining" ELSE "paused"
    /\ UNCHANGED <<last, consumed, pending, svc, turn, pc, kind, moved, task, ghost>>

\* run_task.cancel(), and again when the task has not ended ten seconds later:
\* arun handles it, a task that has not started or is past arun just ends.
CloseCancel ==
    /\ EventLoop /\ closing \in {"paused", "draining"} /\ drain # None
    /\ pc[drain] # "idle"
    /\ closing' = "draining"
    /\ Go(drain, IF pc[drain] \in InArun THEN "cancelled" ELSE "idle")
    /\ runTask' = IF runTask = drain /\ pc[drain] \notin InArun THEN None ELSE runTask
    /\ runLock' = IF runLock = drain THEN None ELSE runLock
    /\ moved' = [moved EXCEPT ![drain] = FALSE]
    /\ UNCHANGED <<conv, rerun, intent, drain, turn, kind, task, ghost>>

CloseEnd ==
    /\ EventLoop /\ closing \in {"paused", "draining"}
    /\ drain # None => pc[drain] = "idle"
    /\ closing' = "closed" /\ drain' = None
    /\ UNCHANGED <<conv, svc, turn, pc, kind, moved, task, ghost>>

(***************************************************************************)
(* The specification.                                                      *)
(***************************************************************************)
ClientStep(c) ==
    \/ AppendMessage(c) \/ AfterAppend(c)
    \/ PauseState(c) \/ InterruptDone(c) \/ RejectState(c)

TaskStep(t) ==
    \/ Begin(t) \/ Ready(t)
    \/ LoopStop(t) \/ LoopFinished(t) \/ LoopStep(t)
    \/ \E o \in Outcomes(pc[t]), b \in BOOLEAN : StepEnd(t, o, b)
    \/ Fail(t) \/ Cancelled(t)
    \/ FreeRunTask(t) \/ ReadFlags(t) \/ Recheck(t) \/ RecordDeadline(t)

CloseStep == ClosePause \/ CloseCancel \/ CloseEnd

Next ==
    \/ \E c \in Clients : \/ \E k \in {"note", "send"} : Send(c, k)
                          \/ Resume(c) \/ Pause(c) \/ Interrupt(c) \/ Reject(c)
                          \/ ClientStep(c)
    \/ Turn \/ Recover
    \/ \E x \in Actors : EnterRun(x) \/ FinishRun(x)
    \/ \E t \in Tasks : TaskStep(t) \/ Deadline(t)
    \/ Close \/ CloseStep

Spec == Init /\ [][Next]_vars

\* Everything the service has begun goes on: worker threads and coroutines
\* are scheduled, the LLM call returns or raises (it has a timeout and a
\* bounded number of retries), and the scheduler polls: a conversation that
\* stays reachable for its passes is reached.  Nothing is assumed of clients,
\* the deadline, close() or Turn.
ActorStep(x) ==
    \/ EnterRun(x) \/ FinishRun(x)
    \/ x \in Clients /\ ClientStep(x)
    \/ x \in Tasks /\ TaskStep(x)
    \/ x = Sched /\ Recover

Fairness == (\A x \in Actors : WF_vars(ActorStep(x))) /\ WF_vars(CloseStep)

FairSpec == Spec /\ Fairness

(***************************************************************************)
(* Safety.                                                                 *)
(***************************************************************************)
\* At most one run of the conversation exists, and it is the one _run_task
\* names, from its creation until its wrap-up gives the field up: run()
\* refuses as long as that is so ("preventing race conditions", run()).
SingleRun == \A t \in Tasks : pc[t] \in Active <=> runTask = t

\* FINISHED is never shown for a conversation whose newest user message no
\* step has read, however the message's append raced the step that finished
\* (the rescan in arun, and send_message's reset of FINISHED).
FinishedAnswersNewest == status = "finished" => consumed = last

\* A conversation waits for confirmation only while there is an action to
\* confirm: neither a message that supersedes it, a rejection, an interrupt
\* nor a run that executed it leaves the status behind.
WaitingHasPending == status = "waiting" => pending

\* Nothing is in progress: no request, no run, no wrap-up, no deadline.
Quiet == /\ \A x \in Actors : pc[x] = "idle"
         /\ \A t \in Tasks : wd[t] = "off"

\* When everything has come to rest with the conversation IDLE, no message
\* sent with run=True is left unread: the scheduler has been told to start it,
\* or the one thing happened that can lose the request, an older wrap-up
\* taking the flag (_rerun_requested and the wrap-up's restart).
NoStrandedIdle ==
    (Quiet /\ closing = "open" /\ status = "idle" /\ owed > consumed) => intent \/ taken

\* Once close() has torn the conversation down no run of it is left, and
\* none starts any more, whatever was waiting for the run lock.
ClosedHasNoRun ==
    closing = "closed" => runTask = None /\ \A t \in Tasks : pc[t] \notin Active

\* Every run was asked for: a message appended with run=False, and the
\* wrap-up of a run, never start one on their own account
\* (_rerun_requested is read once and cleared).
NoUnaskedRun == runs <= asks

(***************************************************************************)
(* Liveness.                                                               *)
(***************************************************************************)
\* A message sent with run=True is read by a step or gets a run, unless the
\* run it joined ends in a state that needs the user, or its request is taken.
RequestServed ==
    (owed > consumed)
        ~> (owed <= consumed \/ taken \/ status \in {"error", "paused", "stuck", "waiting"})

\* A request to run that was recorded for the scheduler is started in the end,
\* by the scheduler or by somebody else, unless the service closes or the
\* scheduler's passes never come to stay able to reach the conversation.
IntentServed == <>[]turn => (intent ~> (~intent \/ closing # "open"))
=============================================================================
