------------------------------ MODULE Admission ------------------------------
(***************************************************************************)
(* The conversations of one daemon (ConversationService): dispatching, the *)
(* run cap and the admission queue, the scheduler that empties it, stops,  *)
(* deletes, idle eviction, and the restart of the daemon.                  *)
(*                                                                         *)
(* meta, at and status are on disk and survive a crash; the rest is       *)
(* memory.  A step is what a coroutine does between two awaits that        *)
(* suspend it: save_meta() and get_state() do not.  What happens inside    *)
(* one conversation is SessionRun's subject; here a run is                 *)
(* created, begins and ends.                                               *)
(***************************************************************************)
EXTENDS Naturals, Sequences, FiniteSets

CONSTANTS
    Convs,       \* conversations the clients dispatch, each with an initial message
    Sched,       \* the scheduler, as holder of the admission lock
    None,        \* nobody
    Shared,      \* those that write in one shared workspace directory
    Broken,      \* those a restarted daemon cannot load (missing credentials)
    Held,        \* those whose lease another process may hold
    MaxRuns,     \* max_concurrent_runs, 0: no limit
    SharedCap,   \* AGENTRT_MAX_SHARED_WRITERS, 0: no limit
    MaxCrashes,  \* bound: crashes of the daemon
    Explicit,    \* clients send messages to existing conversations, and run them
    Stops,       \* clients pause, interrupt and delete (a message may come with
                 \* a stop of its own)
    Evicts       \* idle eviction is on

ASSUME ConstantsAssumption ==
    /\ IsFiniteSet(Convs)
    /\ {Sched, None} \cap Convs = {} /\ Sched # None
    /\ Shared \subseteq Convs /\ Broken \subseteq Convs /\ Held \subseteq Convs
    /\ {MaxRuns, SharedCap, MaxCrashes} \subseteq Nat
    /\ {Explicit, Stops, Evicts} \subseteq BOOLEAN
    /\ Evicts => Broken = {}    \* eviction keeps the credentials

VARIABLES
    disp,     \* where the request that dispatches a conversation is
    known,    \* _conversation_records
    loaded,   \* _event_services: the open ones
    adm,      \* stored.admission_state
    at,       \* stored.admission_enqueued_at, as a number (saved with meta)
    meta,     \* admission_state in meta.json; "none": no such directory
    status,   \* execution_status, saved with every change
    run,      \* EventService._run_task: created, and then in arun
    intent,   \* EventService._run_intent_pending
    resume,   \* EventService.restart_resume_pending
    moved,    \* a stop has come since the dispatch captured the generation
    queue,    \* _admission_queue
    lock,     \* holder of _admission_lock
    sched,    \* the scheduler: where it is, which conversation, which are left
    stopping, \* where a request to stop a conversation is
    deleting, \* the conversations being deleted
    clock,    \* the wall clock, as the number of stamps it gave
    crashes,  \* bound
    accepted, \* history: dispatches that were answered
    began,    \* history: conversations whose run has begun
    cut,      \* history: the daemon died between a run's creation and its start
    skipped   \* history: popped since the last start, the lease being held

disk  == <<meta, status, at>>
mem   == <<known, loaded, adm>>
flags == <<intent, resume, moved>>
hist  == <<accepted, began, cut, skipped>>
vars  == <<disp, disk, mem, run, flags, queue, lock, sched, stopping, deleting,
           clock, crashes, hist>>

Statuses  == {"idle", "running", "paused", "error", "finished"}
DispPcs   == {"new", "created", "sendRun", "sendNote", "start", "enqueue",
              "done", "lost", "gone"}
SchedPcs  == {"idle", "head", "load", "run", "recover", "start"}

TypeOK ==
    /\ disp \in [Convs -> DispPcs]
    /\ known \subseteq Convs /\ loaded \subseteq Convs
    /\ adm \in [Convs -> {"queued", "admitted"}]
    /\ clock \in Nat /\ at \in [Convs -> 0..clock]
    /\ meta \in [Convs -> {"none", "queued", "admitted"}]
    /\ status \in [Convs -> Statuses]
    /\ run \in [Convs -> {"none", "created", "live"}]
    /\ intent \subseteq Convs /\ resume \subseteq Convs /\ moved \subseteq Convs
    /\ queue \in Seq(Convs)
    /\ lock \in Convs \cup {Sched, None}
    /\ sched \in [pc : SchedPcs, cur : Convs \cup {None}, todo : SUBSET Convs]
    /\ stopping \in [Convs -> {"none", "save", "stop"}]
    /\ deleting \subseteq Convs
    /\ crashes \in 0..MaxCrashes
    /\ {accepted, began, cut, skipped} \subseteq SUBSET Convs

Resting == [pc |-> "idle", cur |-> None, todo |-> {}]

Init ==
    /\ disp = [c \in Convs |-> "new"]
    /\ known = {} /\ loaded = {}
    /\ adm = [c \in Convs |-> "admitted"] /\ at = [c \in Convs |-> 0]
    /\ meta = [c \in Convs |-> "none"] /\ status = [c \in Convs |-> "idle"]
    /\ run = [c \in Convs |-> "none"]
    /\ intent = {} /\ resume = {} /\ moved = {}
    /\ queue = <<>> /\ lock = None /\ sched = Resting
    /\ stopping = [c \in Convs |-> "none"] /\ deleting = {}
    /\ clock = 0 /\ crashes = 0
    /\ accepted = {} /\ began = {} /\ cut = {} /\ skipped = {}

(***************************************************************************)
(* Capacity: measured from the live run tasks, never counted.              *)
(***************************************************************************)
Running == {c \in Convs : run[c] # "none"}

\* Mutant: the cap is off by one.
PoolHasSlotOffByOne == MaxRuns > 0 => Cardinality(Running) <= MaxRuns
PoolHasSlot == MaxRuns > 0 => Cardinality(Running) < MaxRuns

HasFreeSlot(c) ==
    /\ PoolHasSlot
    /\ SharedCap > 0 /\ c \in Shared => Cardinality(Running \cap Shared) < SharedCap

Queued == {queue[i] : i \in DOMAIN queue}

\* The queue without a conversation, which is in it once at most.
Without(q, c) ==
    IF \A i \in DOMAIN q : q[i] # c THEN q
    ELSE LET pos == CHOOSE i \in DOMAIN q : q[i] = c
         IN  [i \in 1..(Len(q) - 1) |-> IF i < pos THEN q[i] ELSE q[i + 1]]

Enqueue(c) == IF c \in Queued THEN queue ELSE Append(queue, c)

\* The conversation's lifecycle lock, held while it is deleted, and while the
\* scheduler restarts it.
LifecycleFree(c) == c \notin deleting /\ ~(sched.pc = "start" /\ sched.cur = c)

CannotLoad(c) == c \in Broken \ loaded

\* A load may find that another process holds the lease; it returns None then,
\* as it does for a conversation that is not known.
MayBeHeld(c) == c \in Held \ (loaded \cup Broken)

\* _get_or_load_event_service: a conversation that is not loaded is started,
\* and its metadata saved.
GetOrLoad(c) ==
    /\ loaded' = loaded \cup {c}
    /\ meta' = IF c \in loaded THEN meta ELSE [meta EXCEPT ![c] = adm[c]]

\* EventService.run(): a recorded intent is satisfied.
CreateRun(c) ==
    /\ run' = [run EXCEPT ![c] = "created"]
    /\ intent' = intent \ {c}

\* _start_event_service of a new conversation: its directory, record and service.
StartEventService(c) ==
    /\ known' = known \cup {c} /\ loaded' = loaded \cup {c}
    /\ meta' = [meta EXCEPT ![c] = "admitted"]

(***************************************************************************)
(* Dispatching: start_conversation, with the decision and the start under  *)
(* the admission lock.                                                     *)
(***************************************************************************)
\* The request is turned into a record and the conversation started.
Create(c) ==
    /\ disp[c] = "new"
    /\ disp' = [disp EXCEPT ![c] = "created"]
    /\ StartEventService(c)
    /\ UNCHANGED <<status, at, adm, run, flags, queue, lock, sched, stopping, deleting,
                   clock, crashes, hist>>

\* Mutant: a clock that does not advance between two stamps.
MarkUnsynchronised(c) ==
    /\ adm' = [adm EXCEPT ![c] = "queued"]
    /\ meta' = [meta EXCEPT ![c] = "queued"]
    /\ clock' = clock
    /\ at' = [at EXCEPT ![c] = clock + 1]

\* _mark_admission(stored, "queued") and save_meta().  The wall clock does not
\* step back.  Marking as admitted clears the stamp, which nobody reads then.
Mark(c) ==
    /\ adm' = [adm EXCEPT ![c] = "queued"]
    /\ meta' = [meta EXCEPT ![c] = "queued"]
    /\ clock' = clock + 1
    /\ at' = [at EXCEPT ![c] = clock + 1]

\* _admit_or_queue up to send_message: with a slot the conversation is marked
\* as queued first, so that a restart finds it.
Decide(c) ==
    /\ disp[c] = "created" /\ c \in known /\ lock = None
    /\ lock' = c
    /\ moved' = moved \ {c}
    /\ \/ HasFreeSlot(c) /\ disp' = [disp EXCEPT ![c] = "sendRun"] /\ Mark(c)
       \/ /\ ~HasFreeSlot(c) /\ disp' = [disp EXCEPT ![c] = "sendNote"]
          /\ UNCHANGED <<adm, meta, clock, at>>
    /\ UNCHANGED <<status, known, loaded, run, intent, resume, queue, sched, stopping,
                   deleting, crashes, hist>>

\* send_message has appended the input.
Appended(c) ==
    /\ disp[c] \in {"sendRun", "sendNote"} /\ c \in known
    /\ disp' = [disp EXCEPT ![c] = IF @ = "sendRun" THEN "start" ELSE "enqueue"]
    /\ UNCHANGED <<disk, mem, run, flags, queue, lock, sched, stopping, deleting,
                   clock, crashes, hist>>

\* send_message raised: a create that answers with an error leaves nothing
\* behind (_discard_failed_create).
DispatchFails(c) ==
    /\ disp[c] \in {"sendRun", "sendNote"} /\ c \in known
    /\ disp' = [disp EXCEPT ![c] = "gone"]
    /\ lock' = None
    /\ known' = known \ {c} /\ loaded' = loaded \ {c}
    /\ meta' = [meta EXCEPT ![c] = "none"]
    /\ UNCHANGED <<status, at, adm, run, flags, queue, sched, stopping, deleting,
                   clock, crashes, hist>>

Answer(c) ==
    /\ disp' = [disp EXCEPT ![c] = "done"]
    /\ lock' = None
    /\ accepted' = accepted \cup {c}
    /\ UNCHANGED <<status, known, loaded, resume, moved, sched, stopping, deleting,
                   crashes, began, cut, skipped>>

\* _admit_or_queue after send_message(run=True): the run is started, or a stop
\* came first and the conversation is left to the scheduler.
StartDispatched(c) ==
    /\ disp[c] = "start" /\ c \in known
    /\ \/ /\ c \notin moved
          /\ CreateRun(c)
          /\ adm' = [adm EXCEPT ![c] = "admitted"]
          /\ meta' = [meta EXCEPT ![c] = "admitted"]
          /\ UNCHANGED queue
       \/ /\ c \in moved
          /\ intent' = intent \cup {c}
          /\ queue' = Enqueue(c)
          /\ UNCHANGED <<adm, meta, run>>
    /\ UNCHANGED <<clock, at>>
    /\ Answer(c)

\* Mutant: the mark is not saved.
EnqueueUnsaved(c) ==
    /\ disp[c] = "enqueue" /\ c \in known
    /\ adm' = [adm EXCEPT ![c] = "queued"]
    /\ clock' = clock + 1
    /\ at' = [at EXCEPT ![c] = clock + 1]
    /\ queue' = Enqueue(c)
    /\ UNCHANGED <<run, intent, meta>>
    /\ Answer(c)

\* No slot: the input is there, the scheduler is to start it.
EnqueueDispatched(c) ==
    /\ disp[c] = "enqueue" /\ c \in known
    /\ Mark(c)
    /\ queue' = Enqueue(c)
    /\ UNCHANGED <<run, intent>>
    /\ Answer(c)

\* The conversation was deleted meanwhile: the next use of it raises, late
\* enough in two cases for its id to be left in the queue.
DispatchOrphaned(c) ==
    /\ disp[c] \in {"created", "sendRun", "sendNote", "start", "enqueue"} /\ c \notin known
    /\ disp[c] = "created" => lock = None
    /\ disp' = [disp EXCEPT ![c] = "gone"]
    /\ lock' = None
    /\ queue' = IF disp[c] \in {"start", "enqueue"} THEN Enqueue(c) ELSE queue
    /\ IF disp[c] = "enqueue" THEN clock' = clock + 1 /\ at' = [at EXCEPT ![c] = clock + 1]
       ELSE UNCHANGED <<clock, at>>
    /\ UNCHANGED <<meta, status, mem, run, flags, sched, stopping, deleting, crashes, hist>>

\* A retry with the same idempotency key finds the record and returns it.
Replay(c) ==
    /\ disp[c] = "lost" /\ c \in known
    /\ disp' = [disp EXCEPT ![c] = "done"]
    /\ UNCHANGED <<disk, mem, run, flags, queue, lock, sched, stopping, deleting,
                   clock, crashes, hist>>

(***************************************************************************)
(* The scheduler: _admit_queued, then _recover_pending_run_intents.        *)
(***************************************************************************)
SchedAt(p, c) == sched' = [sched EXCEPT !.pc = p, !.cur = c]

\* The pass ends early: an exception, or a run that was refused.
Abandon == sched' = Resting /\ lock' = None

\* A tick of _admission_loop.
SchedWake ==
    /\ sched.pc = "idle" /\ lock = None
    /\ lock' = Sched /\ SchedAt("head", None)
    /\ UNCHANGED <<disp, disk, mem, run, flags, queue, stopping, deleting, clock,
                   crashes, hist>>

\* The head of _admit_queued's loop.
SchedHead ==
    /\ sched.pc = "head"
    /\ \/ /\ queue = <<>> \/ ~PoolHasSlot
          /\ sched' = [pc |-> "recover", cur |-> None, todo |-> loaded]
          /\ lock' = None /\ UNCHANGED queue
       \/ /\ queue # <<>> /\ PoolHasSlot
          /\ LET c == Head(queue)
             IN  \/ /\ c \notin known \/ adm[c] # "queued"
                    /\ queue' = Tail(queue) /\ UNCHANGED <<lock, sched>>
                 \/ /\ c \in known /\ adm[c] = "queued"
                    /\ SchedAt(IF c \in loaded /\ LifecycleFree(c) THEN "run" ELSE "load", c)
                    /\ UNCHANGED <<queue, lock>>
    /\ UNCHANGED <<disp, disk, mem, run, flags, stopping, deleting, clock, crashes, hist>>

\* self._admission_queue.pop(0), whatever is at the head by now; popping an
\* empty list raises.
PopHead ==
    \/ queue = <<>> /\ Abandon /\ UNCHANGED queue
    \/ queue # <<>> /\ queue' = Tail(queue) /\ SchedAt("head", None) /\ UNCHANGED lock

\* Mutant: a conversation that cannot be loaded is skipped for good.
SchedLoadSkips ==
    LET c == sched.cur
    IN  /\ sched.pc = "load" /\ LifecycleFree(c)
        /\ \/ /\ c \notin known \/ CannotLoad(c)
              /\ PopHead /\ UNCHANGED <<loaded, meta>>
           \/ /\ c \in known /\ ~CannotLoad(c)
              /\ GetOrLoad(c) /\ SchedAt("run", c) /\ UNCHANGED <<queue, lock>>
        /\ UNCHANGED <<disp, status, at, known, adm, run, flags, stopping, deleting,
                       clock, crashes, hist>>

\* The scheduler had to wait: for the conversation's lock, or for its load.  A
\* load that raises ends the pass; one that returns None pops the conversation,
\* which a held lease leaves marked as queued.
SchedLoad ==
    LET c == sched.cur
    IN  /\ sched.pc = "load" /\ LifecycleFree(c)
        /\ \/ c \notin known /\ PopHead /\ UNCHANGED <<loaded, meta, skipped>>
           \/ /\ c \in known /\ MayBeHeld(c)
              /\ PopHead /\ skipped' = skipped \cup {c} /\ UNCHANGED <<loaded, meta>>
           \/ /\ c \in known /\ CannotLoad(c)
              /\ Abandon /\ UNCHANGED <<loaded, meta, queue, skipped>>
           \/ /\ c \in known /\ ~CannotLoad(c)
              /\ GetOrLoad(c) /\ SchedAt("run", c) /\ UNCHANGED <<queue, lock, skipped>>
        /\ UNCHANGED <<disp, status, at, known, adm, run, flags, stopping, deleting,
                       clock, crashes, accepted, began, cut>>

\* run(), and with it, without an await, the pop and the mark.
SchedRun ==
    LET c == sched.cur
    IN  /\ sched.pc = "run"
        /\ \/ /\ c \notin loaded \/ c \in deleting \/ run[c] # "none"
              /\ Abandon
              /\ UNCHANGED <<run, intent, adm, meta, queue>>
           \/ /\ c \in loaded /\ run[c] = "none"
              /\ CreateRun(c)
              /\ PopHead
              /\ IF queue = <<>> THEN UNCHANGED <<adm, meta>>
                 ELSE /\ adm' = [adm EXCEPT ![c] = "admitted"]
                      /\ meta' = [meta EXCEPT ![c] = "admitted"]
        /\ UNCHANGED <<disp, status, at, known, loaded, resume, moved, stopping, deleting,
                       clock, crashes, hist>>

\* One of the conversations that were loaded when the pass began.  The slot
\* is looked for without the admission lock.
RecoverPick(c) ==
    /\ sched.pc = "recover" /\ c \in sched.todo /\ LifecycleFree(c)
    /\ LET left     == [sched EXCEPT !.todo = @ \ {c}]
           eligible == /\ c \in loaded /\ adm[c] # "queued"
                       /\ c \in resume \cup intent /\ HasFreeSlot(c)
           settled  == c \in resume /\ status[c] # "error"
       IN  \/ ~eligible /\ sched' = left /\ UNCHANGED resume
           \/ eligible /\ settled /\ sched' = left /\ resume' = resume \ {c}
           \/ /\ eligible /\ ~settled
              /\ sched' = [left EXCEPT !.pc = "start", !.cur = c] /\ UNCHANGED resume
    /\ UNCHANGED <<disp, disk, mem, run, intent, moved, queue, lock, stopping, deleting,
                   clock, crashes, hist>>

\* run(), within the conversation's lifecycle.
RecoverStart ==
    LET c == sched.cur
    IN  /\ sched.pc = "start"
        /\ SchedAt("recover", None)
        /\ \/ run[c] # "none" /\ UNCHANGED <<run, intent, resume>>
           \/ run[c] = "none" /\ CreateRun(c) /\ resume' = resume \ {c}
        /\ UNCHANGED <<disp, disk, mem, moved, queue, lock, stopping, deleting, clock,
                       crashes, hist>>

\* Mutant: the loop ends with its first pass.
RecoverDoneForGood ==
    /\ sched.pc = "recover" /\ sched.todo = {}
    /\ UNCHANGED vars

RecoverDone ==
    /\ sched.pc = "recover" /\ sched.todo = {}
    /\ sched' = Resting
    /\ UNCHANGED <<disp, disk, mem, run, flags, queue, lock, stopping, deleting, clock,
                   crashes, hist>>

(***************************************************************************)
(* Runs, and messages to conversations that exist.                         *)
(***************************************************************************)
\* arun's first step: FINISHED stays, everything else becomes RUNNING.
Begin(c) ==
    /\ run[c] = "created"
    /\ run' = [run EXCEPT ![c] = "live"]
    /\ status' = [status EXCEPT ![c] = IF @ = "finished" THEN @ ELSE "running"]
    /\ began' = began \cup {c}
    /\ UNCHANGED <<disp, meta, at, mem, flags, queue, lock, sched, stopping, deleting,
                   clock, crashes, accepted, cut, skipped>>

End(c) ==
    /\ run[c] = "live"
    /\ run' = [run EXCEPT ![c] = "none"]
    /\ \E s \in (IF status[c] = "running" THEN {"finished", "error"} ELSE {status[c]}) :
          status' = [status EXCEPT ![c] = s]
    /\ UNCHANGED <<disp, meta, at, mem, flags, queue, lock, sched, stopping, deleting,
                   clock, crashes, hist>>

\* A request reaches a conversation that was dispatched earlier.
Reach(c) ==
    /\ Explicit /\ c \in known /\ disp[c] \in {"done", "lost"}
    /\ LifecycleFree(c) /\ ~CannotLoad(c)
    /\ GetOrLoad(c)
    /\ UNCHANGED <<disp, at, known, adm, moved, queue, lock, sched, stopping, deleting,
                   clock, crashes, hist>>

\* POST /run: the run starts, whatever the capacity.
RunRequest(c) ==
    /\ Reach(c) /\ run[c] = "none"
    /\ CreateRun(c)
    /\ UNCHANGED <<status, resume>>

\* send_message: a message takes the place of the automatic resume.
Message(c) == Reach(c) /\ resume' = resume \ {c}

Reopened(s) == IF s = "finished" THEN "idle" ELSE s

\* run=True: the same, after the message.
SendRun(c) ==
    /\ Message(c) /\ run[c] = "none"
    /\ status' = [status EXCEPT ![c] = Reopened(@)]
    /\ CreateRun(c)

\* run=False.
SendNote(c) ==
    /\ Message(c)
    /\ status' = [status EXCEPT ![c] = Reopened(@)]
    /\ UNCHANGED <<run, intent>>

\* run=True, overtaken by a stop that came at the same time.
SendOvertaken(c) ==
    /\ Message(c) /\ run[c] = "none"
    /\ status' = [status EXCEPT ![c] = IF Reopened(@) = "idle" THEN "paused" ELSE @]
    /\ intent' = intent \cup {c}
    /\ UNCHANGED run

(***************************************************************************)
(* Pause and interrupt: out of the queue first, without the admission      *)
(* lock; then the metadata; then the session.                              *)
(***************************************************************************)
\* _cancel_queued_admission up to its first await.
StopDequeue(c) ==
    /\ Stops /\ c \in known /\ stopping[c] = "none"
    /\ queue' = Without(queue, c)
    /\ \/ /\ c \in Queued /\ adm[c] = "queued"
          /\ adm' = [adm EXCEPT ![c] = "admitted"]
          /\ stopping' = [stopping EXCEPT ![c] = "save"]
       \/ /\ ~(c \in Queued /\ adm[c] = "queued")
          /\ stopping' = [stopping EXCEPT ![c] = "stop"]
          /\ UNCHANGED adm
    /\ UNCHANGED <<disp, disk, known, loaded, run, flags, lock, sched, deleting, clock,
                   crashes, hist>>

\* The rest of it: load and save_meta(), unless the load returns None.
StopSave(c) ==
    /\ stopping[c] = "save" /\ LifecycleFree(c) /\ ~CannotLoad(c)
    /\ stopping' = [stopping EXCEPT ![c] = "stop"]
    /\ \/ /\ c \in known
          /\ loaded' = loaded \cup {c}
          /\ meta' = [meta EXCEPT ![c] = adm[c]]
       \/ /\ c \notin known \/ MayBeHeld(c)
          /\ UNCHANGED <<loaded, meta>>
    /\ UNCHANGED <<disp, status, at, known, adm, run, flags, queue, lock, sched, deleting,
                   clock, crashes, hist>>

\* EventService.pause() or interrupt(), to the end of the run.  A run that has
\* been created and has not begun is not cancelled.
StopSession(c) ==
    /\ stopping[c] = "stop" /\ LifecycleFree(c) /\ ~CannotLoad(c)
    /\ stopping' = [stopping EXCEPT ![c] = "none"]
    /\ \/ /\ c \in known
          /\ GetOrLoad(c)
          /\ status' = [status EXCEPT ![c] = IF @ \in {"idle", "running"} THEN "paused" ELSE @]
          /\ run' = [run EXCEPT ![c] = IF @ = "live" THEN "none" ELSE @]
          /\ resume' = resume \ {c}
          /\ moved' = moved \cup {c}
       \/ /\ c \notin known \/ MayBeHeld(c)
          /\ UNCHANGED <<loaded, meta, status, run, resume, moved>>
    /\ UNCHANGED <<disp, at, known, adm, intent, queue, lock, sched, deleting, clock,
                   crashes, hist>>

\* delete_conversation, from the queue to the directory.  A held lease ends it
\* where it has only left the queue.
DeleteBegin(c) ==
    /\ Stops /\ c \in known /\ LifecycleFree(c)
    /\ queue' = Without(queue, c)
    /\ \/ deleting' = deleting \cup {c} /\ GetOrLoad(c)
       \/ MayBeHeld(c) /\ UNCHANGED <<deleting, loaded, meta>>
    /\ UNCHANGED <<disp, status, at, known, adm, run, flags, lock, sched, stopping, clock,
                   crashes, hist>>

\* Mutant: the service is dropped, its run goes on.
DeleteEndKeepsRun(c) ==
    /\ c \in deleting
    /\ deleting' = deleting \ {c}
    /\ disp' = [disp EXCEPT ![c] = IF @ \in {"done", "lost"} THEN "gone" ELSE @]
    /\ known' = known \ {c} /\ loaded' = loaded \ {c}
    /\ meta' = [meta EXCEPT ![c] = "none"]
    /\ run' = run
    /\ intent' = intent \ {c} /\ resume' = resume \ {c}
    /\ accepted' = accepted \ {c}
    /\ UNCHANGED <<status, at, adm, moved, queue, lock, sched, stopping, clock, crashes,
                   began, cut, skipped>>

\* The service is closed, which ends its run, and the record and the directory
\* are removed.
DeleteEnd(c) ==
    /\ c \in deleting
    /\ deleting' = deleting \ {c}
    /\ disp' = [disp EXCEPT ![c] = IF @ \in {"done", "lost"} THEN "gone" ELSE @]
    /\ known' = known \ {c} /\ loaded' = loaded \ {c}
    /\ meta' = [meta EXCEPT ![c] = "none"]
    /\ run' = [run EXCEPT ![c] = "none"]
    /\ intent' = intent \ {c} /\ resume' = resume \ {c}
    /\ accepted' = accepted \ {c}
    /\ UNCHANGED <<status, at, adm, moved, queue, lock, sched, stopping, clock, crashes,
                   began, cut, skipped>>

\* The totals of the conversation can neither be archived nor recorded as
\* missing: the delete is refused, and what was queued has left the queue.
DeleteRefused(c) ==
    /\ c \in deleting
    /\ deleting' = deleting \ {c}
    /\ UNCHANGED <<disk, disp, known, loaded, adm, run, flags, queue, lock, sched, stopping,
                   clock, crashes, hist>>

\* is_idle_evictable(), and no activity for the idle time: a conversation that a
\* request or the scheduler has just looked up is not idle.
IdleEvictable(c) ==
    /\ run[c] = "none" /\ sched.cur # c
    /\ disp[c] \in {"done", "lost"} /\ stopping[c] = "none"

\* An idle conversation is unloaded, with the whole service to itself.
Evict(c) ==
    /\ Evicts /\ c \in loaded /\ IdleEvictable(c)
    /\ deleting = {} /\ sched.pc # "start"
    /\ loaded' = loaded \ {c}
    /\ meta' = [meta EXCEPT ![c] = adm[c]]
    /\ intent' = intent \ {c} /\ resume' = resume \ {c}
    /\ UNCHANGED <<disp, status, at, known, adm, run, moved, queue, lock, sched, stopping,
                   deleting, clock, crashes, hist>>

(***************************************************************************)
(* The daemon dies and starts again.                                       *)
(***************************************************************************)
\* sorted(..., key=admission_enqueued_at)
InOrder(S) ==
    {q \in [1..Cardinality(S) -> S] :
        /\ \A i, j \in 1..Cardinality(S) : i < j => at[q[i]] <= at[q[j]]
        /\ \A c \in S : \E i \in 1..Cardinality(S) : q[i] = c}

\* _load_catalog_sync: the conversations that have a record on disk.
Catalog == {c \in Convs : meta[c] # "none"}

\* Those whose run the crash cut off and that can be loaded (_try_recover_running).
CutOff == {c \in Catalog : status[c] = "running"} \ Broken

\* Runs that were cut off are loaded, marked ERROR and put down for an
\* automatic resume; then the queue is rebuilt from the catalog, without
\* those that have run already (_rebuild_admission_queue, in memory).
Crash ==
    LET now == [c \in Convs |-> IF c \in CutOff THEN "error" ELSE status[c]]
        again == {c \in Convs : meta[c] = "queued" /\ now[c] = "idle"}
    IN  /\ crashes < MaxCrashes /\ crashes' = crashes + 1
        /\ known' = Catalog
        /\ loaded' = CutOff /\ status' = now
        /\ resume' = CutOff
        /\ adm' = [c \in Convs |-> IF c \in again THEN "queued" ELSE "admitted"]
        /\ queue' \in InOrder(again)
        /\ cut' = cut \cup {c \in Convs : run[c] = "created"}
        /\ run' = [c \in Convs |-> "none"]
        /\ intent' = {} /\ moved' = {}
        /\ lock' = None /\ sched' = Resting
        /\ stopping' = [c \in Convs |-> "none"] /\ deleting' = {}
        /\ disp' = [c \in Convs |-> IF disp[c] \in {"new", "done", "gone"} THEN disp[c]
                                    ELSE "lost"]
        /\ skipped' = {}
        /\ UNCHANGED <<meta, at, clock, accepted, began>>

(***************************************************************************)
(* The specification.                                                      *)
(***************************************************************************)
DispatchStep(c) ==
    \/ Decide(c) \/ Appended(c) \/ DispatchFails(c)
    \/ StartDispatched(c) \/ EnqueueDispatched(c) \/ DispatchOrphaned(c)

RunStep(c) == Begin(c) \/ End(c)

StopStep(c) == StopSave(c) \/ StopSession(c) \/ DeleteEnd(c) \/ DeleteRefused(c)

SchedStep ==
    \/ SchedWake \/ SchedHead \/ SchedLoad \/ SchedRun
    \/ (\E c \in Convs : RecoverPick(c)) \/ RecoverStart \/ RecoverDone

Request(c) ==
    \/ Create(c) \/ Replay(c)
    \/ RunRequest(c) \/ SendRun(c) \/ SendNote(c) \/ SendOvertaken(c)
    \/ StopDequeue(c) \/ DeleteBegin(c)

Next ==
    \/ \E c \in Convs : Request(c) \/ DispatchStep(c) \/ RunStep(c) \/ StopStep(c) \/ Evict(c)
    \/ SchedStep
    \/ Crash

Spec == Init /\ [][Next]_vars

\* The event loop runs what is ready, a run ends (its iterations are capped
\* and its LLM calls time out), and the scheduler polls.
Fairness ==
    /\ \A c \in Convs : WF_vars(DispatchStep(c)) /\ WF_vars(RunStep(c)) /\ WF_vars(StopStep(c))
    /\ WF_vars(SchedStep)

FairSpec == Spec /\ Fairness

(***************************************************************************)
(* Properties.                                                             *)
(***************************************************************************)
\* The queue holds each conversation once, in the order in which the
\* submissions were stamped, through concurrent dispatches, stops, deletes
\* and a rebuild from the catalog.
SubmissionOrder ==
    \A i, j \in DOMAIN queue : i < j => at[queue[i]] < at[queue[j]]

\* A conversation that is marked as queued is in the queue, unless its lease was
\* held when its turn came: the scheduler looks nowhere else.
QueueMirrors ==
    \A c \in known \ (deleting \cup skipped) :
        adm[c] = "queued" /\ disp[c] \in {"done", "lost"} => c \in Queued

\* The queue is what the records say: it has every conversation that is marked
\* as queued, once, in the order of submission, though the daemon dies between
\* the save of a record and the change of the queue.  Only a lease that another
\* process holds takes one out of it, and the next start puts that one back.
QueueSound == TypeOK /\ SubmissionOrder /\ QueueMirrors

\* A dispatch that was accepted runs or waits in the queue until its run has
\* begun, and survives a restart, except in the moment between the creation
\* of the run task and its first step: as long as nobody stops it, not even with
\* a stop that overtakes a message.  One that was popped because its lease was
\* held waits for the next start.
AcceptedKept ==
    ~Stops /\ ~Explicit =>
        \A c \in accepted \ (began \cup cut \cup skipped) : run[c] # "none" \/ c \in Queued

\* Concurrent dispatches and the scheduler's queue never take the same last
\* slot.  Run requests ignore the cap, and the recovery of intents and of
\* runs that a restart cut off looks for its slot without the lock.
DispatchCap ==
    crashes = 0 /\ ~Explicit /\ ~Stops /\ MaxRuns > 0 => Cardinality(Running) <= MaxRuns

\* A run task exists only for a conversation that is known and loaded: the
\* caps are measured over the loaded ones, and a run that a delete or an
\* eviction had left behind would hold no slot.
RunsAreLoaded == Running \subseteq loaded /\ loaded \subseteq known

\* The head of the queue is a conversation that cannot be loaded.
HeadBlocked == queue # <<>> /\ CannotLoad(Head(queue))

\* What is queued is started in the end, although later dispatches may take
\* slots first and the daemon may die: the scheduler polls (_admission_loop),
\* only a head that cannot be loaded stops it, and only a held lease makes it
\* give a conversation up.
StartsUnlessBlocked ==
    \A c \in Convs : c \in Queued ~> run[c] # "none" \/ HeadBlocked \/ c \in skipped
=============================================================================
