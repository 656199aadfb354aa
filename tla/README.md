# AgentRT in TLA+

AgentRT is a daemon that runs coding agents for its clients. A client dispatches
a task; the daemon creates a *conversation* in a directory of its own, admits it
when a slot is free, and drives an agent through steps (an LLM call, then the tool
calls it asked for) until the agent finishes, needs its user, or is stopped. This
directory holds TLA+ specifications of the parts of it where order, concurrency
and crashes decide whether the program is right, the TLC models that check
them, and TLAPS proofs.

Paths below are relative to `src/packages/`. Short names:

| short | file |
|---|---|
| LEASE | `agentrt-server/agentrt/agent_server/conversation_lease.py` |
| ES | `agentrt-server/agentrt/agent_server/event_service.py` |
| CS | `agentrt-server/agentrt/agent_server/conversation_service.py` |
| LC | `agentrt-sdk/agentrt/sdk/conversation/impl/local_conversation.py` |
| LOCK | `agentrt-sdk/agentrt/sdk/conversation/fifo_lock.py` |
| LOG | `agentrt-sdk/agentrt/sdk/conversation/event_store.py` |
| STATE | `agentrt-sdk/agentrt/sdk/conversation/state.py` |
| RLM | `agentrt-sdk/agentrt/sdk/conversation/resource_lock_manager.py` |
| PAR | `agentrt-sdk/agentrt/sdk/agent/parallel_executor.py` |
| SPEND | `agentrt-server/agentrt/agent_server/spend_archive.py` |
| DAEMON | `agentrt-runtime/agentrt/runtime/daemon.py` |

## Inventory

### The parts that are modelled

| component | state it keeps | operations | what makes it correct |
|---|---|---|---|
| **Conversation lease** (LEASE, and its use in ES and CS) | `owner_lease.json` (owner, generation, expiry) beside a file lock; a generation in each loaded service; the list of conversations to recover | claim, renew, guarded write, release, deferred recovery | only the last claimant writes; it is never robbed of its lease by a superseded one; the directory says what the last claimant says; a conversation whose process died is settled |
| **Session run control** (`EventService` in ES, the run-control routes) | `_run_task`, `_run_lock`, `_rerun_requested`, `_run_intent_pending`, `_explicit_interrupt_generation`, `_closing` | send, run/resume, pause, interrupt, accept, reject, the wrap-up of a run, the start-deadline watchdog, close | one run at a time; no request to run lost without a trace; no run after close |
| **Run loop** (`LocalConversation.arun` in LC) | `execution_status`, last and consumed user message, pending actions; iteration, hook-denial and condensation counters | begin, iterate, finish, fail, be cancelled | FINISHED only when the newest message was read; WAITING only with something to confirm |
| **Admission** (`ConversationService` in CS) | the catalog, the loaded services, `admission_state` on disk and in memory, the queue and its lock | dispatch, replay of a dispatch, scheduler pass, recovery of intents, stop, delete, evict, restart | every accepted dispatch runs or waits; the queue mirrors the records, in submission order; caps hold; what waits starts |
| **State lock** (`FIFOLock` in LOCK) | owner, depth, queue of waiters, one condition variable each | acquire (with and without timeout), release, release_all, reacquire | mutual exclusion with the right depth, service in order of arrival, no lost wake-up |
| **Event log** (`EventLog` in LOG) | one file per event, a length marker, a file lock; in each process the length, index and ids | open, append (lock, compare marker, synchronise, check, write, move the marker), crash | an index is used once and an event appended once; memory is a prefix of the disk; parents come before children |
| **State store and history tree** (STATE, the steps in LC and `agent.py`, the settling of a crash in ES) | the tree of events, its head, status and last message in memory and in `base_state.json`; the depth of `with state` blocks and the dirty flag | send, pause, reject, the blocks of a step, tool batches, interrupt, crash, start | what is not marked dirty is on disk; no result without its call and no call without its result in front of the model; a saved head only moves forward; a tool runs once |
| **Resource locks and parallel tools** (RLM, PAR) | the table of locks and references by key; the threads of a batch, and of batches that were cancelled | submit, lock in sorted order, run, release, time out, interrupt | no two tools on one resource; the table is exact; every call ends |
| **Webhook delivery** (`WebhookSubscriber`, CS 3893-4103) | the bounded queue, the flush timer, the post lock | publish, post, retry, give up and requeue, flush, close | every event is delivered, dropped by a limit or cut off by close; in order; and in the end |
| **Daemon start-up** (DAEMON) | `daemon.lock`, `daemon.json`, the processes | `ensure_running`, `stop` | one daemon per state directory; a start lock is taken away only from a process that has left it behind |
| **Spend archive** (SPEND, and `delete_conversation` in CS) | the ledger file and its lock | fold, record a gap, purge, delete | a deleted conversation is counted once or recorded as missing; what is missing from its count is known |

How they interact. A client's HTTP request reaches `EventService` directly, or
`ConversationService` when it creates, stops or deletes a conversation.
`ConversationService` loads services (each claims the lease of its directory) and
starts runs by calling `EventService.run()`. `run()` creates an asyncio task that
runs `arun`; the task shares the event loop with all requests and the
scheduler, so they interleave at every `await`, and hands the blocking parts to
worker threads, so the *state lock* is what serialises `pause()`, `send_message()`
and the agent's own steps. Every save to the directory, the append of an event included,
goes through the lease's write guard, but for the saves of `start()` before it is installed and of threads that outlive
`close()`. The scheduler polls: it reads the number of live run tasks, never a
counter. A step appends events to the log under the state lock, hands its tool calls to
threads that take the resource locks, and leaves its head and status in the state store;
each event is published to the webhooks. Deleting a conversation folds its tokens into the
ledger that all worker processes share. Clients find the daemon through `ensure_running`.

### Which behaviours are hard

* *Await points.* A value read before an `await` and used after it: the head of
  the admission queue (CS 1173-1190), the free slot found by the recovery of
  intents (CS 1222), the decision to restart in a wrap-up (ES 1738-1755), the list
  of pending actions (LC 2901).
* *The released lock.* `arun` releases the state lock during the LLM call
  (LC 2047-2070): messages and stops arrive inside a step.
* *Several processes.* Leases expire while a process is suspended; the generation
  counter is deleted with the file (LEASE 212).
* *Crashes* between the save of an admission state and what it stands for
  (CS 1146-1155), between a claim and the recovery it is for (CS 3275), between an event
  file and the marker that counts it (LOG 232-271).
* *Retries*: a dispatch that is repeated because its answer was lost (CS 2292); a
  run request refused while a run wraps up (ES 1735).
* *Blocks that stay open*: a step is one `with state` block around the LLM call, so what
  other threads do meanwhile is saved only when the step ends (STATE 656).
* *Threads that outlive their batch* (PAR 209), and locks that are created and removed while
  others wait for them or give up on them (RLM 67-113).
* *Lost answers and late requests* to a webhook, with a queue that is trimmed meanwhile.
* *Check, then unlink*: `daemon.lock` is judged stale by three looks (DAEMON 459, 463, 466) and removed
  by its name afterwards (DAEMON 557-560).
* *Counts in memory*: tokens reach the disk with the next save of the base state (STATE 607), and a fold
  reads them from memory.
* *Liveness by polling*: nobody wakes a queued conversation but the scheduler.

`PROJECT.json` lists these as hazards, each at its line, with the properties that catch it
going wrong. Hazards that the code does meet, so that no property can exclude them, are in
"Where comments and code part ways".

### The parts that are not modelled

| component | why |
|---|---|
| the client's wait (`runtime/client.py`, `runtime/mcp_server.py`) | see the plan |
| front and workers (`runtime/front.py`), publish-subscribe, usage projection | routing of requests to worker processes, a dictionary of callbacks, pure reshaping of data |
| goal loop, finalize, run scope (ES 1773-2022, 2446-2503; `run_scope.py`) | a loop over `run()`, or one call and pure reads |
| ACP agent | an external subprocess protocol |
| LLM, condenser, prompts, tools, hooks, critic, stuck detector | what they decide is data; `SessionRun` and `Transcript` take the outcome of a step as a choice among the effects a step can have |
| LLM slots, bash service, sockets, routers, settings, profiles, skills, plugins, OpenAI and MCP front ends, CLI, permissions, guarded tools, workspaces, TypeScript and remote clients | input and output, validation, configuration; no state shared between steps that the core depends on |

## Modules

| module | what it is |
|---|---|
| `ConversationLease` | several processes, one conversation directory |
| `SessionRun` | one loaded conversation: requests, run tasks, watchdog, scheduler, close |
| `SessionRunProofs` | its safety for any number of clients and tasks |
| `Admission` | all conversations of one daemon |
| `AdmissionProofs` | its invariants for any number of conversations, caps and restarts |
| `FairLock` | what a fair lock promises: a holder and a line |
| `FIFOLock` | the lock as the code builds it, a refinement of `FairLock` |
| `FIFOLockProofs` | its invariants and the refinement |
| `EventLog` | several processes, one event directory |
| `ConversationFilesProofs` | the invariants of the two files of a conversation's directory, `EventLog` and `ConversationLease`, for any number of processes and events |
| `Transcript` | the history tree of one conversation, its saves, and crashes |
| `TranscriptProofs` | its invariants for logs of any length |
| `ResourceLocks` | batches of tool calls and the locks of their resources |
| `ResourceLocksProofs` | their invariants for any number of calls, keys and batches |
| `Webhook` | one webhook, its queue and an unreliable network |
| `WebhookProofs` | its invariants for any limits, sizes and numbers of failures |
| `DaemonStart` | processes that start and stop the daemon of one state directory |
| `SpendArchive` | deletions by several workers and the ledger they share |
| `StateFilesProofs` | the invariants of the files of a state directory, `SpendArchive` and `DaemonStart`, for any number of conversations, processes, faults and deaths |
| `MC*` | constants, symmetry and views for TLC |

### ConversationLease

One action per critical section of the lease's file lock. `lease` is the file
(time is reduced to whether its expiry has passed), `gen` the generation each
`EventService` remembers, `flock` the process inside a guarded write. `Load`,
`Recover`, `Build`, `StartSave`, `FinishStart`, `SettleStart` are `EventService.start()` on behalf of a client
or of the deferred recovery. `StartSave` is a save before `set_write_guard` (ES 1490): the assignments of
`ConversationState.create` (STATE 592-605) and of `start()` (ES 1470-1471) save with nobody checking the lease.
`SettleStart` is the guarded write that turns a stale RUNNING into ERROR, and its refusal. `BeginWrite`/`EndWrite` are the two ends of
`guarded_write`, so that a takeover may be tried between them; `WriteRefused` and
`CloseFails` are the error paths. `LateWrite` is the save of a worker thread that
outlived `close()`: the guard is looked up through a lease that `close()` has set
to `None`, so it writes unguarded. The history variables number the claims; `unfenced` has the processes
that saved without a guard: a late thread, or a `start()` that was superseded.

### SessionRun

`status`, `last`, `consumed`, `pending` are the conversation; `runTask`,
`runLock`, `rerun`, `intent` the fields of `EventService`. Every request, run task
and the scheduler has a `pc`, whose values are the places where the code awaits.
A captured `_explicit_interrupt_generation` is modelled by the flag `moved`, set in
every actor by `Bump`: the code only ever compares it for equality. Two guards
stand for what serialises the actors: `EventLoop` (no coroutine runs while `arun`
is between two iterations without an await) and `StateLock` (held while pending
actions execute, free during the LLM call). What an iteration does is one of
`Outcomes`: finish, go on, ask for confirmation, condense, get stuck. The history
variables record which message is owed a run, whether an older wrap-up took a
request (`taken`), and how many runs were asked for and created. `turn` says that a pass of the
scheduler would get as far as starting this conversation: the head of the queue neither raises
(CS 1177) nor ends the pass (CS 1189), this conversation is not queued itself (CS 1214), and a slot is free
(CS 1222). All of that is up to the other conversations, so `Turn` changes it at will (if there are `Others`) and `Recover` needs it.

### Admission

`meta`, `at` and `status` are on disk; everything else is lost by `Crash`, which
is the death of the daemon and the start of the next one, catalog, recovery and
queue rebuild included, in the order of the stamps (`InOrder`). `disp[c]` is where the request that dispatches `c` is;
`lock` is `_admission_lock`; the scheduler is a record of where it is and which
conversation it handles. What happens inside a conversation is cut down to
created, begun, ended. Loading the head of the queue has four outcomes (`SchedLoad`): unknown, its lease held by another
owner (`Held`), an exception (`Broken`), loaded. The first two take it out of the queue; `skipped` remembers
the ones that a held lease took out. `clock` stands for `utc_now()`.

### FairLock and FIFOLock

One step per critical section of the lock's internal mutex. `FIFOLock` has an
owner, a depth, a queue of waiters and, per waiter, whether its condition was
notified; a timeout may expire before or after the notification. `Reacquire` and
`Restore` are the two halves of `reacquire()` after a released I/O section.
`FairLock` has only the holder and the line; the lock of the code refines it when a
free lock whose head has been notified counts as handed to that head.

### EventLog

`files` and `markers` are the directory; `log[p]` is what the `EventLog` object of
process `p` has in memory. `append()` is `Begin` (take the file lock, compare the
marker, synchronise if need be, check id and parent), `Write` (the guarded file and
then the index), `Unmark` and `Mark` (`_advance_length_marker`), so that a crash can
fall between any two file operations. `Open` scans without the lock, as the
constructor does. `guarded` chooses between a daemon, whose log takes the lease over
when it is opened (`ConversationLease` has the detail), and the SDK on its own. A
listing of two files with one index keeps either. The history variable `torn` says
that an event reached the disk and the marker of the length before it was left
there: by a crash in between, or by a delete that failed, which
`LocalFileStore.delete` only logs. The properties are about directories for which
this has not happened, or whose writers are fenced (`Regular`).

### Transcript

`log` is the tree of events, each with its parent: on disk as soon as it is appended. `mem`
holds the fields that are saved as a whole (head, status, last user message), `disk` what
`base_state.json` has of them. `depth` and `dirty` are `_save_depth` and `_dirty`; `Deferred`,
`Immediate` and `Exit` are the three ways an assignment reaches the disk. A step is
`StepBegin`, the model's answer (`Reply`, `Nudge`, `ToolCall`), `Confirm` or `Execute`,
`RunTool`, `EmitResult`, `StepEnd`, with the lock released in `"llm"` and the block open. `Execute` may take
only some of the calls: a call of FinishTool cuts its batch off (`_truncate_at_finish`), and what follows it stays
unanswered on the branch. Every exit of the run's blocks may fail to save (`Leave`). `AppendRaises` is an append
that raises in the loop; the run then records its failure in three steps (`RecordFailure`,
`MarkFailed`, `FailureEnd`) and ends. `lost` has the calls whose tool was started and whose result was never
recorded, because an append raised or a failed save took the place of a cancellation.
`SendMessage`, `Pause` and `RejectPending` come from other threads. `Crash` keeps `log` and
`disk`; `Start`, `Answer`, `Note` and `SaveHead` are the settling of a run that was cut off,
with a crash possible between any two. State-update events are not nodes and are left out.

### ResourceLocks

`locks` and `refcounts` are the table; `holder` and `queue` belong to lock objects, which are
used again only when nobody can reach them (`Fresh`). The locks are `FairLock`s, which
`FIFOLock` was proved to implement: a release hands the lock to the head of the queue, who
sees it when its thread runs. Each section under `_meta_lock` is one step, so a time-out
(`TimeOut`, then `Undo`) interleaves with the creation and the removal of the lock of the
same key. `Cancel` and `Abort` end a batch for the agent while its threads go on; the next
batch meets them.

### Webhook

A step reaches from one await to the next. `holder` and `waiters` are `_post_lock`, `batch`,
`remaining`, `attempt` the local variables of the task that posts, `late` the requests whose
sender has given up and that the webhook may still process (`ServeLate`). `cut` is what
`close()` loses by cancelling the timer in the middle of a post. Events have sizes, so that
the limits in bytes and in number both bind.

### DaemonStart

A step is one access to `daemon.lock`, `daemon.json` or a process. `lockFile` remembers who created
the file, whom it names and whether it is old. `_lock_is_stale` is three steps: `StatLock` (the age, DAEMON 459),
`ReadOwner` (the pid, 463) and `Judge` (the process, 466); `judged` is what a waiter has seen in them, and
`Reclaim` is the unlink. Whoever has returned from `ensure_running` may have exited (`MayBeGone`).
`Die` kills a process anywhere in `ensure_running`; `Exit` ends a daemon. A
health check may fail though the daemon is up. `robbed` records that a process lost
the lock while it was inside.

### SpendArchive

`Delete`, `Lock`, `Fold`, `Record`, `CloseService`, `Remove` are the awaits of
`delete_conversation`. The run of the conversation goes on spending meanwhile, and after `close()` too if its thread
outlives it or `close()` raised before it came to the run, which is logged and passed over (CS 2920-2924).
`stats` is what the process counts and a fold adds, `saved` what `base_state.json` has of it: counting saves
nothing (STATE 607), the end of a step or of a run and a client's change do (`Save`, `RunEnds`), unless the save
fails or is refused. A death (`Crash`) or an eviction (`Evict`) goes back to `saved`; the difference is `lost`.
`LockUnreadable`, `FoldFails`, `WriteFails`, `SaveFails` and the disjuncts with `Fault` are the failures.
Tokens are kept per conversation, which the code adds
up; that is what makes "counted twice" visible. `erased`, `late` and `lost` record the three ways in which
the code itself lets the total fall short.

## Runs

| run | configuration | checks |
|---|---|---|
| `lease` | 3 processes on 2 machines, 2 claims for clients, 1 process may leave a late thread | `GuardHolderClaimedLast`, `LastClaimantKeepsLease`, `DiskFollowsLastClaimant`, `OrphanRecovered` |
| `session_run` | 2 clients, 2 tasks, 2 messages, 2 requests to run, 2 iterations, stop hook, confirmation, watchdog, scheduler, close | `SingleRun`, `ClosedHasNoRun`, `FinishedAnswersNewest`, `NoStrandedIdle`, `NoUnaskedRun` |
| `session_live` | 2 clients, scheduler, fairness | `RequestServed`, `IntentServed` |
| `admission` | 3 dispatches that write in one directory, 2 slots, shared cap 1, 1 crash, one of them cannot be loaded afterwards, the lease of another is held, fairness | `QueueSound`, `AcceptedKept`, `DispatchCap`, `StartsUnlessBlocked` |
| `admission_stops` | 2 dispatches, 1 slot; stops, deletes, messages, run requests, eviction | `SubmissionOrder`, `RunsAreLoaded` |
| `state_lock` | 3 threads, depth 2, fairness | `CountMatches`, `ServedInOrder` (refinement), `WaitEnds` |
| `event_log` | 3 processes, 4 events, 4 files, with and without a lease | `AppendOnly`, `IndexAgrees`, `ParentsPrecede` |
| `transcript` | 5 events, 2 calls in an answer, 2 crashes, 1 save or append that fails | `SavedWhenQuiet`, `ResultsFollowActions`, `AnsweredDuringCall`, `RunOnce`, `HeadMovesForward` |
| `resource_locks` | 3 calls in 2 batches, 2 keys, 2 threads, fairness | `ExclusiveUse`, `TableSound`, `CallEnds` |
| `webhook` | 6 events, batches of 2, a queue of 3, limits in bytes, 1 retry, 4 failures, fairness | `NothingLost`, `GapsExplained`, `AttendedUnlessFailed`, `Delivered` |
| `daemon_start` | 3 callers, 2 of them killed, 2 stops, Linux | `OneDaemon`, `OnlyLeftBehind` |
| `spend_archive` | 2 conversations in 2 workers, 2 faults, 2 deaths, 1 purge | `CountExact`, `DeletionTraced`, `LoweredOnlyIfErased` |

`TypeOK` is proved for the modules with proofs. In `Transcript` and `DaemonStart` it is the first
conjunct of an invariant (`SavedWhenQuiet`, `OneDaemon`), as it is in `QueueSound`, `TableSound`,
`NothingLost` and `CountExact`.

What the runs of the last five modules show, in words:

* `transcript`: nested blocks of other threads never make the dirty flag lie, also after a
  save that raised; whoever loads the disk at any moment, also in the middle of the
  settling of a crash and after a second one, finds a branch whose results follow their calls;
  the model is never called over an unanswered call; a saved head is never moved to another branch;
  without a crash no tool is started twice unless its result could not be recorded, whatever is interrupted,
  rejected or superseded and wherever a FinishTool cuts a batch off.
* `resource_locks`: keys, references and locks agree through every time-out; two running tools
  never share a key, though one may belong to a batch cancelled long ago; sorted acquisition
  alone, without time-outs, lets every call end.
* `webhook`: no event vanishes without a limit or `close()` being the reason, the webhook never
  sees an event before an earlier one that is still to come, and queued events are left without a
  timer only by a post of `__call__` that failed for good.
* `daemon_start`: exits, stops, failed starts, kills and adoptions never lead to two daemons as long as nobody
  loses `daemon.lock` inside. The three looks never condemn a lock whose creator is inside, though its creator writes
  its pid, releases, exits or is followed by another between them: what a waiter can take away by mistake is only a
  lock that was created after the one it looked at.
* `spend_archive`: repeated deletions count once; what is missing from a count was spent after the fold or
  had not been saved when its state went from memory; two workers that fold at once lose nothing; a
  conversation that is gone has a trace.

### Bounds, and why they are enough

* `lease`: a superseded owner, its successor and a process that recovers after both
  are three; two machines because a dead owner is only recognised on its own one;
  two client claims so that an owner can be superseded and come back in the same
  generation.
* `SessionRun`: two tasks not yet unwound, because the races are between a run and
  the wrap-up of the one before; two clients, because one stops what the other asks
  for; two iterations, so that a message can arrive in the last but one. `MaxMsgs` and
  `MaxAsks` bound what clients do and nothing the service does. `MaxDenials` is 1 or 2
  where the code has a larger limit: the streak is reset, reached and exceeded. `session_run` has no `Others`:
  without fairness a scheduler that is kept away does nothing that one that is slow would not do.
* `Admission`: three conversations, because popping the wrong head takes a second
  and the order of the rest a third; two slots of which a dispatch may take one, so that the
  caps differ and two conversations queue; one crash.
  `admission_stops` has two conversations: stops, deletes, evictions and explicit
  runs together have about 1.6 million states with two, the history variables left out by a `VIEW`.
* `state_lock`: three threads are a holder, a head and one that could overtake;
  depth 2 tells `release` from `release_all`.
* `event_log`: a process that dies, one that goes on with a stale length and one that
  appends in between are three; four events, so that the stale one can be two behind.
* `transcript`: five events are a message, two calls and two more (a result, the note of a
  crash, a message in between); two crashes, because the second falls into the settling of the
  first. The `VIEW` leaves out the history of tools after a crash, which no property reads.
* `resource_locks`: two calls can close a cycle over two keys, the third is the next batch that
  meets them; two lock objects per two keys suffice, since an object is used again.
* `webhook`: sizes are such that a batch is cut by its bytes once, by its number once, one
  event is larger than a batch, and both limits of the queue drop events; four failures are
  two posts that fail for good.
* `daemon_start`: one process leaves the lock, two race for it. `SlowStarts` is off: with
  it a lock gets old while its creator is inside, which both properties allow for.
* `spend_archive`: two workers race for the ledger; two faults are a fold that fails and a
  record that fails; deaths and the purge fall between any two steps. One conversation spends, two
  tokens, so that one can be saved or folded and the other lost or late; the deletions of the second
  come in between. With a token for the second and one death there are 8.5 million states
  and the same result.

Deadlock is checked in `event_log` and in no other run: a closed service, a daemon with nothing queued, processes
that are all dead and threads that are done may rest. That nothing gets stuck
before is what the liveness properties say.

### Fairness

* `ConversationLease`: weak fairness of `Expire` (time passes), of `Recover` (a loop
  that polls), and of finishing a start and a write. None for renewals: a process
  may be suspended.
* `SessionRun`: weak fairness of what each actor has begun and of `close()` once it
  has begun. Coroutines and worker threads are scheduled, the LLM call returns or
  raises since it has a timeout and bounded retries. Nothing is assumed of clients,
  of the deadline or of `Turn`: `IntentServed` has its own hypothesis, that the scheduler's passes come to stay
  able to reach the conversation (`<>[]turn`), since a head of the queue that cannot be loaded keeps them from it for ever.
* `Admission`: weak fairness of a dispatch, a run, a stop that has begun, and of the
  scheduler. Nothing is assumed of clients, evictions or crashes.
* `FIFOLock`: weak fairness of waking, of restoring the depth and of releasing,
  and strong fairness of the release of the last level, that is, a holder leaves its block
  in the end instead of nesting and unnesting for ever. Timeouts are not assumed to expire.
* `ResourceLocks`: weak fairness of the steps of a call: threads run and tools return. Time-outs
  are not assumed to fire, so `CallEnds` does not lean on them.
* `Webhook`: weak fairness of the tasks of the event loop, of its timer and of the webhook's
  answers, which fail at most `MaxFails` times. Nothing is assumed of publishers or `close()`.
* `DaemonStart` has none: every wait ends by its deadline, so nothing is claimed beyond safety.

## What is proved

The proofs are for every value of the constants that satisfies the named assumption of the
module (`ConstantsAssumption`, `LockAssumption`, `LogAssumption`, `TranscriptAssumption`,
`ResourceAssumption`, `WebhookAssumption`, `SpendAssumption`, `DaemonAssumption`); nothing else is assumed. Where a
theorem has a hypothesis of its own, it is named below with its reason. Each inductive invariant
was first checked by TLC on the instance of the component's run.

Two proof modules are about two components each, whose files lie in one directory; the names in `ConversationLease`
and `DaemonStart` (`LeaseSpec`, `StartSpec`) are chosen so that both can be extended at once.

**`ConversationFilesProofs`, the lease**: `LeaseTypeCorrect`, `Fencing` (`GuardHolderClaimedLast`),
`LeaseKept` (`LastClaimantKeepsLease`), `DiskCoherence`
(`DiskFollowsLastClaimant`). The generation alone does not identify an owner, since
`release()` resets it; the inductive invariant therefore says that the file, if
it exists, was written by the last claim, that claims are numbered without
repetition and that whoever is in a guarded write is the recorded owner. The
disk is added on top: outside a write it agrees with the last claimant's memory
unless somebody saved without the guard and was not the last claimant (`unfenced`).

**`SessionRunProofs`**: `TypeCorrect`, `OneRun` (`SingleRun`), `FinishedAnswers`
(`FinishedAnswersNewest`), `WaitingPending` (`WaitingHasPending`: a conversation that waits for
confirmation has an action to confirm), `ClosedNoRun` (`ClosedHasNoRun`). `Safe` conjoins these
with what they need of each other: which statuses a step can be in (`StepStatus`), and that a
service which drains a run drains the only one (`OnlyDrained`).

On top of `Safe` come two invariants of their own. `NobodyStranded` (`NoStrandedIdle`) rests on
`Served`: while the service is open, RUNNING has a run behind it, a raised re-run flag has a task
that will read it, and a message that is owed a run is cared for by somebody who can be named
(`Cared`): its sender, a run that has been created, the flag, a wrap-up, the scheduler's intent, or a
status in which the user has to act. `RunsWereAsked` (`NoUnaskedRun`) counts: the requests
that have not led to a run yet are the elements of `Open`, one per actor and one for the flag,
and together with the runs created they never outnumber what was asked for (`Counted`). That one step moves
one element is `OneForOne`.

**`AdmissionProofs`**: `InSubmissionOrder` (`SubmissionOrder`), `NoRunOutsideTheCount`
(`RunsAreLoaded`), `CapHolds` (`DispatchCap`), `QueueIsSound` (`QueueSound`), `NothingForgotten`
(`AcceptedKept`). `Inv` holds in every instance: who has the admission lock (`LockRight`); stamps do not
repeat, and the one of a dispatch that is about to start or enqueue is the newest (`Stamps`),
which is why appending keeps the order; what a conversation can be at each stage of its dispatch
(`Phases`) and of the scheduler's pass (`SchedRight`). Three invariants build on it. `SlotKept`: whoever has
found a slot under the lock and not yet used it finds it free. `HeadKept`: without stops
the scheduler's conversation stays at the head of the queue, so that the pop after its awaits removes the
right one. `QueuedUntouched`: what is queued has not run, and its record on disk says so, which is
what a restart needs; that includes what was skipped because its lease was held. `QueueIsSound` has the hypothesis `~Stops`: a delete that is refused leaves a
conversation marked as queued outside the queue. `AcceptedKept` is about
dispatches that clients neither stop nor message: a stop that overtakes a message (`SendOvertaken`)
leaves a status that the next start of the daemon does not queue again. The proof attempt showed that the
second half of that condition was missing; TLC's runs had it by their constants.

**`FIFOLockProofs`**: `TypeCorrect`, `MutualExclusion` (`CountMatches`), `WakeupKept`
(a lock that is free while somebody waits has been handed to the head),
`Refinement` (`ServedInOrder`: the lock implements `FairLock`). The invariant says
the queue holds each waiter once, that the owner is whom the depth counts, and
that only the head is ever notified; the refinement needs it for the case in which
a timed-out waiter leaves the queue.

**`ConversationFilesProofs`, the events**: `TypeCorrect`, `OnlyGrows` (`AppendOnly`), `IndexSound`
(`IndexAgrees`), `ParentsSound` (`ParentsPrecede`). The inductive invariant `Inv` says,
for a regular directory: files are numbered without a gap (`Disk`); each index in memory
holds exactly the files below its length (`Memory`); whoever is about to write, and may,
has seen the whole directory (`Fresh`); and, without a lease, no marker but the true one is
there outside an append (`Markers`). `Markers` is what makes `Fresh` hold for unfenced
writers and is the part a crash breaks; with a lease `Fresh` holds because opening the log
both fences the others and scans.

**`ResourceLocksProofs`**: `TableIsSound` (`TableSound`), `ToolsExclude` (`ExclusiveUse`),
`WaitersKnown` (a waiting call has been handed its lock or is in that lock's queue, exactly once).
A key may get a new lock object while an old one is still in use, so the heart of `Inv` is
`AsksTable`: the object a call is asking for is the one in the table, because its own reference keeps
it there. `HeldFor` ties a held object to a key that its holder has acquired or was just
handed, `OneKey` makes objects and keys one to one, `QueueExact` and `WaiterKnown` say that queues
and waiting calls agree. Exclusion follows: two running tools with one key would hold one object.

**`WebhookProofs`**: `EveryEventAccounted` (`NothingLost`), `InOrderAtTheWebhook` (`GapsExplained`),
`UnattendedOnlyByFailure` (`AttendedUnlessFailed`, an action property). The account is inductive
with the order: batch and queue are increasing, one before the other (`Ordered`), so nothing
unsettled comes before what is sent, and what was sent stays explained while it is late
(`LateExplained`). `Tended` is for the action property: a post of `__call__` with no timer beside it has counted
everything that is queued. The lemmas say what `_trim_queue`, `_take_batch` and `_requeue` do to
a queue (`TrimKeepsEnd`, `BatchFits`, `TakeApart`, `ConcatKeepsOrder`); they hold whatever the sizes of
the events are.

**`StateFilesProofs`, the ledger**: `CountedOnce` (`CountExact`), `NothingGoneUntraced` (`DeletionTraced`),
`TotalsKept` (`LoweredOnlyIfErased`, an action property). `Inv` says that the file lock is held exactly inside
the section (`LockHeld`), that the ledger and every copy of it a worker has read are right about every
conversation (`Right`, `ReadsRight`), that the copy of whoever holds the lock has everything that was not
erased (`HolderReadAll`), that the disk never counts more than the process (`SavedBehind`), and that no deletion
passes the fold without a trace (`TracedBeforeGone`). Right means: not more than was spent, and less than what the process
still counts by no more than was spent late. Forgetting a state moves tokens from the count to `lost` and keeps both
halves (`Forgotten`, `StillRight`).

**`StateFilesProofs`, the start of the daemon**: `StartIsSafe` (`OneDaemon`) and `JudgementIsRight`
(`OnlyLeftBehind`), from `StartInvariant`. The model lets a process lose `daemon.lock` while it is inside
(`robbed`), since the code does, so one half of the invariant is about the time before: whoever is inside created the lock that
is there (`HolderInside`), hence only one process is; one daemon runs, and none while a process has
decided to spawn (`OneRunning`). The other half holds at any time. A process creates one lock in its life, so a
file that a waiter has looked at does not come back (`LockOfPast`); as long as it is in place, the pid that was read
is nobody's or its creator's, and a judgement that condemned it was right about that process (`JudgedOK`).
`StartIsSafe` has the hypothesis `Linux`: elsewhere `_proc_daemons` finds
nothing, and a second daemon is started after a `stop()` has removed the file of a newer one. `JudgementIsRight` does without it.

**`TranscriptProofs`**: `SavedIsSafe` (`SavedWhenQuiet`), `ResultsAreSafe` (`ResultsFollowActions`),
`CallsAreAnswered` (`AnsweredDuringCall`), `ToolsRunOnce` (`RunOnce`), `HeadIsSafe` (`HeadMovesForward`, an action
property), from `TranscriptInvariant`. A branch of the history is the path from its head to the root, a
recursive function over the log. The prover has no induction over data, so the four facts about paths are proved by
looking at the least event for which one would fail (`LeastNat`), whose parent is older: the function exists
(`PathExists`, `PathRec`), a path has nothing younger than its leaf (`PathRange`), the path of an event on a path is part of
it (`PathClosed`), and appending an event changes no path (`PathGrows`). `BranchGrows` turns them into what the actions
need: the branch grows by the event, and its unanswered calls by an action and less a result.

The invariant has one part for each thing that can go wrong. `TreeOK`: parents are older, and a result is below its action.
`Blocks`: the lock and the depth of the nested blocks are those of whoever is in one, although the block of a
step stays open while the lock is given up for the call of the model. `FlagOK`: a base state that is not
dirty is the saved one, inside a block too; with `depth = 0` alone, as `SavedWhenQuiet` has it, this is not
inductive, since a nested block ends without a save. `Todo`: the calls in hand are on the branch, and unanswered while they are still to be
started. `Once`: until a crash, a call that is unanswered and not in hand has not been started, or its result is
lost (`Fresh`); this is what makes the pending actions that the next step picks up safe to run. `Answered`: during the call of the model no call is unanswered. `HeadOK`: the saved
head is an ancestor of the one in memory.

### What is only model-checked

* All liveness (`OrphanRecovered`, `RequestServed`, `IntentServed`,
  `StartsUnlessBlocked`, `WaitEnds`, `CallEnds` of `ResourceLocks`, `Delivered`): fairness and `ENABLED` are beyond the
  prover. Every other property of the runs is stated by a theorem.
* What the sizes in `Webhook` add up to is a fold; the theorems do not depend on it, and `Trim` says
  by itself that an empty queue is within the limits.

## Where comments and code part ways

Unless it says otherwise, the models have these as the code has them, and the properties are stated so as
to allow for them; where a property was too strong, TLC's counterexample is what is described.

* *The flag of a refused run* (ES 259 against 1735): `_rerun_requested` is one flag for all run
  tasks. An older wrap-up reads and clears the request meant for the run in progress, and the
  message stays unread in an IDLE conversation. `NoStrandedIdle` and `RequestServed` except
  this (`taken`).
* *The two caps* (CS 1057 against 1171): the scheduler looks for a slot without the workspace,
  so queued writers of one directory are started over the cap of shared writers.
* *The head of the queue* (CS 1001 against 1190): a stop between the read and the pop of the head
  makes the scheduler pop somebody else, who stays marked as queued and in no queue. `QueueSound` is
  therefore checked without stops.
* *A head that cannot be loaded* (`docs/results/h5.md:22` against CS 1177) ends every pass of the
  scheduler; everybody behind it waits. `StartsUnlessBlocked` excepts it. The recovery of recorded intents comes after
  it in the pass (CS 1194) and waits too, which is the hypothesis of `IntentServed`.
* *A head whose lease is held* (CS 1001 against 1178-1180): `_get_or_load_event_service` answers None for a known
  conversation whose lease another owner holds (CS 1981-1988), and `_admit_queued` pops it as if it did not exist. It
  stays marked as queued, is in no queue, and nobody starts it before the next start of the daemon. `QueueSound`,
  `AcceptedKept` and `StartsUnlessBlocked` except it (`skipped`).
* *Lease.* LEASE 104 speaks of a fence for every write; a worker thread that outlives
  `close()` writes without it (ES 544, 2149, 2205), and so does `start()` until ES 1490: a process that is superseded
  while it starts saves a base state that it read before (STATE 592-605, ES 1470-1471) over the last claimant's.
  `DiskFollowsLastClaimant` excepts both (`unfenced`). LEASE 103 calls the generation
  monotone; a release deletes the file, and it restarts at 1 (LEASE 212).
* *The length marker.* LOG 264 says that "an interrupted update leaves no marker rather than a
  stale one"; a crash between the event's file (LOG 232) and the removal of the old marker
  (LOG 268), or a removal that fails, leaves a stale one. A second, unfenced writer of that
  length then trusts it and writes at an index that is taken (`torn`); under the lease it
  cannot.
* *Refused runs* (ES 1084 against 1746): a request refused during a wrap-up is dropped
  when the run ended in ERROR, PAUSED or WAITING. `RequestServed` excepts these.
* *A stop inside `run()`* (ES 262 against 1613) makes it return without a word; the
  caller that recorded an intent is served by the scheduler.
* *A stop overtaken*: by the restart of a wrap-up (ES 1725 against 1755), and by a
  recorded intent (CS 2791 against ES 2051).
* *A pause during the LLM call* is overwritten when the step ends FINISHED while a
  newer message has arrived (LC 3104 against 2621).
* *Stepping as IDLE*: `state.py:51` calls RUNNING a conversation that is actively processing; a
  message that arrives when a step has set FINISHED resets the status to IDLE (LC 2003), and
  the loop may go on stepping with it.
* *The iteration limit* (`state.py:111` against LC 2637) is checked after the step that
  exceeds it.
* *Rejection* (LC 2896-2898 against 2901-2907): the list is read before the lock, so
  actions may have been executed, or be gone, when they are recorded as rejected.
* *Dispatch overtakes the queue* (`docs/results/h5.md:105` against CS 1142): a new dispatch
  that finds a slot does not look whether anybody is queued.
* *A stop while the scheduler is inside `run()`* (CS 2791 against 1191) is answered, and
  the run begins.
* *The run cap* (`runtime/config.py:453`, CS 1217): the recovery of intents finds its slot
  several awaits before it uses it (CS 1222), and runs asked for by clients ignore it.
* *`admitted` is saved before the first step* (CS 1146 against 1155): after a crash in
  between nobody starts the conversation. `AcceptedKept` excepts this moment (`cut`).
* *Replay* (`runtime/mcp_server.py:729` against CS 2295 and 3595): a repeated dispatch is answered
  with the conversation of the first one, which a crash may have left with nobody to
  run it.
* *Automatic resume* (ES 1565 against 1573) is remembered in memory only: a second restart
  or an eviction before it happens loses it.
* *A refused delete* (CS 2909 against CS 1001) has already taken the conversation out of the
  queue (CS 2854); it stays marked as queued until the next restart.
* *A queued conversation that a client runs* (CS 1268 against 1182) is started again when
  its turn comes.
* *The watchdog* (ES 948) records ERROR after an await: the user may have resumed by then, and the loop
  does not stop on ERROR.
* *`meta.json`* (ES 325) is rewritten in place; a crash in the middle leaves a file that the catalog
  drops at the next start (CS 1456). Not modelled: files are atomic in `Admission`.
* *"History is intact"* (ES 1563, `runtime/mcp_server.py:66`): a message that was accepted while
  a step was in the LLM call is in the log, and the head that names it is saved only at the end of the
  step. After a crash in between it is on no branch. For the same reason "there are no abandoned
  branches" (ES 1520) does not hold after a crash.
* *Tools and crashes*: the status stays WAITING on disk while a confirmed step runs, so
  a second confirmation after a crash runs its tools again; and a crash while the results of a batch are
  emitted leaves a call of it without a result, which the next step executes. `RunOnce` is about
  the time before the first crash. No crash is needed when an append raises while results are emitted (a lost lease,
  a full disk): the run ends in ERROR (LC 2836), the call has no result, and the next run executes it again. The same
  follows when the save at the end of a block fails in place of a cancellation. `RunOnce` excepts these (`lost`).
* *Calls after a FinishTool*: `_truncate_at_finish` "discards" them (agent.py 204-207); their actions are on
  the branch by then and without a result, and the next run executes them.
* *Rejection twice*: since `reject_pending_actions` reads the actions before it has the lock
  (LC 2901), an action can get a second result.
* *Empty posts*: `_post_events` goes on "until the queue is empty or a post fails" (CS 3939); the
  number of events is taken before the awaits (CS 3943), and when a limit drops events in
  between there are fewer than that. An empty batch subtracts nothing, so with an empty queue the task posts one
  empty batch after the other until another event arrives or a post fails for good.
* *Flush delay* (`agent_server/config.py`): the timer is said to be reset on each new event, and is not;
  a post of `__call__` that fails leaves its queue without a timer until the next event
  (`AttendedUnlessFailed`, `Delivered`). `close()` cancels a timer in the middle of a post and loses its
  batch (`cut`). With a batch in flight, the events a limit drops need not be the oldest.
* *Stale start locks* (DAEMON 450 against 559): the unlink names a path, not the file that was judged. Two
  waiters can judge the lock of a killed starter stale; the second unlinks the lock the first has created since, and two
  daemons start. Nobody need be killed: a starter that fails, releases and exits between the read of its pid (463)
  and the look at its process (466) is as dead to the waiter, which then unlinks the lock of the next starter.
  A lock that names nobody is stale only after 300 s (DAEMON 444, 468), and a waiter gives up after 30 s
  (DAEMON 535, 550): after a kill between the creation and the write of the pid, every start raises until then.
* *`stop()` and a newer daemon* (DAEMON 722): the file removed may be that of a newer daemon. On
  Linux the next start finds it in `/proc`; elsewhere it starts a second one. A daemon that is being
  stopped may be adopted.
* *The lifetime total* "cannot silently fall" (SPEND, and `conversation_router.py` on purge): an
  unreadable ledger is read as an empty one and overwritten; tokens spent between the fold and
  `close()`, by a thread that outlives it, or after a deletion that failed, are counted nowhere; so are those that a
  process had counted and not saved when it died (STATE 607); `purge()` takes no lock, so a fold
  that read before it writes the old totals back (SPEND 151).

## Limits of the models

* `SessionRun`: no ACP branch, no goal loop, no finalize; a `send` that fails while the
  agent is being made ready is left out; the budget is not assumed to be monotone (a step
  may end over budget or not); a cancellation takes effect at the next await, without
  the one tick of the event loop in between.
* `ConversationLease`: a lease file that cannot be parsed and the reuse of a pid are left
  out.
* `Admission`: sessions are coarse (`SessionRun` has the detail); a recovery that waits for
  another process's lease is in `ConversationLease`; repeated dispatches with one
  idempotency key are serialised by its lock and are one request here. Restart is one
  step: the daemon answers no request before it has rebuilt its queue, and it finds no lease held on a run that was cut
  off. The clock does not step back; `_mark_admission` clears the stamp of what it admits, the model
  keeps it, and nothing reads it then.
* `EventLog`: a listing that fails (the count is then 0, the index empty) and ids that the
  file name pattern does not match are left out; a process appends one event at a time
  (its threads are serialised by the state lock); reads change nothing but a cache.
* `Transcript`: one request of another thread at a time; forks and navigation in the tree, condensations
  and state-update events are left out, as is the message of an iterative refinement; an append that raises has
  written nothing, and one of a client's message or pause that raises changes nothing and is left out; the end of a run is in `SessionRun`.
* `ResourceLocks`: a key is locked once per call, as the set of declared keys is; the emission
  of results is in `Transcript`.
* `Webhook`: sizes are constants of events; the conversation-level webhook (a single post
  without queue) is left out.
* `DaemonStart`: one stopper; a process calls `ensure_running` once; a pid in use again is a choice in `Judge`; a lock
  gets old only after its creator has left (`SlowStarts` lifts this); the worker pool behind the front is not modelled.
* `SpendArchive`: the tokens of a conversation are one number, without the kinds and models they
  are split into; a directory that a late thread creates again has no `meta.json` and counts as gone.
* Files are written atomically, except where `ConversationLease` splits a write.

## Plan

The components of the core are modelled, and their safety properties are proved. What is left is to go wider:
the client's wait against the statuses in which `SessionRun` rests; the ACP branches of
`arun`, the goal loop and finalize; fork and update of conversations.

Runs of one module that ask related questions are kept together, so that the whole
project is checked in well under an hour.
