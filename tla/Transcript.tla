----------------------------- MODULE Transcript -----------------------------
(***************************************************************************)
(* What a conversation remembers, and what of it survives the process.     *)
(*                                                                         *)
(* The history is a tree of events, one file per event, on disk as soon as *)
(* append_event returns; its head (leaf_event_id), the status and the last *)
(* user message are fields of the base state, which is saved as a whole,   *)
(* and inside a `with state` block only when the outermost block is left   *)
(* (state.py).  A step of the run loop is one block that stays open while  *)
(* the lock is given away around the LLM call (local_conversation.py,      *)
(* agent.py), so that blocks of other threads are nested in it.  A crash   *)
(* loses the memory and keeps the disk; on the next start EventService     *)
(* settles a run that was cut off (event_service.py).                      *)
(*                                                                         *)
(* State-update events are no nodes of the tree and are left out, as are   *)
(* the waits for the lock (FIFOLock) and the end of runs (SessionRun).     *)
(***************************************************************************)
EXTENDS Naturals, Sequences, FiniteSets, FiniteSetsExt

CONSTANTS
    MaxLog,      \* bound: events in the log
    MaxCalls,    \* bound: tool calls in one answer of the model
    MaxCrashes,  \* bound: crashes of the daemon
    MaxFaults    \* bound: saves and appends that raise

ASSUME TranscriptAssumption ==
    MaxLog \in Nat /\ MaxCalls \in Nat \ {0} /\ MaxCrashes \in Nat /\ MaxFaults \in Nat

VARIABLES
    log,      \* the event files: kind, parent (0: a root), action answered
    mem,      \* fields of the base state in memory
    disk,     \* base_state.json
    depth,    \* _save_depth
    dirty,    \* _dirty
    owner,    \* who has the state lock
    run,      \* run loop, or start of the service: where it is, the tool calls
              \* in hand and those of them still to be started, the last user
              \* message when the step began
    client,   \* a request in another thread: where it is, the calls to reject
    crashes, faults,
    ran,      \* history: how often the tool of an action was started
    lost      \* history: calls whose tool was started and whose result a save
              \* or an append that raised kept from being recorded

vars == <<log, mem, disk, depth, dirty, owner, run, client, crashes, faults, ran, lost>>

Kinds == {"msg", "act", "res", "node", "err"}
Statuses == {"idle", "running", "waiting", "paused", "finished", "error"}
Fields == [leaf : 0..MaxLog, status : Statuses, lastMsg : 0..MaxLog]
Starting == {"answer", "answered", "note", "noted"}
RunPcs == {"down", "off", "top", "llm", "calls", "tools", "emit", "reject", "end",
           "failed", "ending", "cancelled", "orphans"} \cup Starting

TypeOK ==
    /\ log \in Seq([kind : Kinds, parent : 0..MaxLog, of : 0..MaxLog]) /\ Len(log) <= MaxLog
    /\ mem \in Fields /\ disk \in Fields
    /\ depth \in 0..2 /\ dirty \in BOOLEAN
    /\ owner \in {"none", "run", "client"}
    /\ run \in [pc : RunPcs, todo : SUBSET (1..MaxLog), left : SUBSET (1..MaxLog), seen : 0..MaxLog]
    /\ client \in [pc : {"off", "send", "pause", "pending", "reject"}, todo : SUBSET (1..MaxLog)]
    /\ crashes \in 0..MaxCrashes /\ faults \in 0..MaxFaults
    /\ ran \in [1..MaxLog -> Nat] /\ lost \subseteq 1..MaxLog

Init ==
    /\ log = <<>>
    /\ mem = [leaf |-> 0, status |-> "idle", lastMsg |-> 0] /\ disk = mem
    /\ depth = 0 /\ dirty = FALSE /\ owner = "none"
    /\ run = [pc |-> "off", todo |-> {}, left |-> {}, seen |-> 0]
    /\ client = [pc |-> "off", todo |-> {}]
    /\ crashes = 0 /\ faults = 0
    /\ ran = [i \in 1..MaxLog |-> 0] /\ lost = {}

-----------------------------------------------------------------------------
(* The tree.                                                               *)

\* A head that was never saved is the last event that is a node for certain.
ActiveLeaf(m) ==
    IF m.leaf # 0 THEN m.leaf
    ELSE LET real == {i \in DOMAIN log : log[i].kind # "err"}
         IN IF real = {} THEN 0 ELSE Max(real)

\* path_to_root, as the set of its events; a parent is older than its child.
PathToRoot(leaf) ==
    LET Path[i \in 0..Len(log)] == IF i = 0 THEN {} ELSE {i} \cup Path[log[i].parent]
    IN Path[leaf]

ActiveBranch == PathToRoot(ActiveLeaf(mem))

UnmatchedActions(events) ==
    {a \in events : log[a].kind = "act" /\ ~\E r \in events : log[r].kind = "res" /\ log[r].of = a}

\* append_event: the file is written, then the head moves.
AppendChild(parent, kind, of, fields) ==
    /\ Len(log) < MaxLog
    /\ log' = Append(log, [kind |-> kind, parent |-> parent, of |-> of])
    /\ mem' = [fields EXCEPT !.leaf = Len(log) + 1,
                             !.lastMsg = IF kind = "msg" THEN Len(log) + 1 ELSE @]

AppendEvent(kind, of, fields) == AppendChild(ActiveLeaf(mem), kind, of, fields)

-----------------------------------------------------------------------------
(* `with state`: __enter__, assignments inside the block, __exit__.        *)

Enter(who) == owner = "none" /\ owner' = who /\ depth' = depth + 1

\* An assignment inside a block.
Deferred == dirty' = (dirty \/ mem' # mem) /\ UNCHANGED disk

\* An assignment outside a block.
Immediate == disk' = mem' /\ UNCHANGED dirty

\* What a block that nothing encloses does at its end, after what the same step
\* assigns: it saves what is dirty, or the save raises and the flag stays set.
Flush ==
    /\ disk' = IF dirty \/ mem' # mem THEN mem' ELSE disk
    /\ dirty' = FALSE

Fault == faults < MaxFaults /\ faults' = faults + 1

FlushFails == Fault /\ (dirty \/ mem' # mem) /\ dirty' = TRUE /\ UNCHANGED disk

\* Mutant: the flag is cleared by a nested block, too.
ExitForgets ==
    /\ owner' = "none" /\ depth' = depth - 1 /\ dirty' = FALSE
    /\ disk' = IF depth = 1 /\ (dirty \/ mem' # mem) THEN mem' ELSE disk

\* The end of a block.
Exit ==
    /\ owner' = "none" /\ depth' = depth - 1
    /\ IF depth = 1 THEN Flush ELSE Deferred

\* The save raises: the lock is released.
ExitFails == depth = 1 /\ owner' = "none" /\ depth' = 0 /\ FlushFails

-----------------------------------------------------------------------------
(* Requests in other threads.                                              *)

Served == run.pc \notin Starting \cup {"down"}

SendMessage ==
    /\ Served /\ client.pc = "off" /\ Enter("client")
    /\ AppendEvent("msg", 0, IF mem.status = "finished" THEN [mem EXCEPT !.status = "idle"] ELSE mem)
    /\ Deferred
    /\ client' = [client EXCEPT !.pc = "send"]
    /\ UNCHANGED <<run, crashes, faults, ran, lost>>

Pause ==
    /\ Served /\ client.pc = "off" /\ mem.status \in {"idle", "running"} /\ Enter("client")
    /\ AppendEvent("node", 0, [mem EXCEPT !.status = "paused"])
    /\ Deferred
    /\ client' = [client EXCEPT !.pc = "pause"]
    /\ UNCHANGED <<run, crashes, faults, ran, lost>>

\* reject_pending_actions reads the pending actions before it has the lock.
RejectPending ==
    /\ Served /\ client.pc = "off"
    /\ client' = [pc |-> "pending", todo |-> UnmatchedActions(ActiveBranch)]
    /\ UNCHANGED <<log, mem, disk, depth, dirty, owner, run, crashes, faults, ran, lost>>

RejectEnter ==
    /\ client.pc = "pending" /\ Enter("client")
    /\ mem' = [mem EXCEPT !.status = IF @ = "waiting" THEN "idle" ELSE @]
    /\ Deferred
    /\ client' = [client EXCEPT !.pc = "reject"]
    /\ UNCHANGED <<log, run, crashes, faults, ran, lost>>

RejectOne ==
    /\ client.pc = "reject" /\ client.todo # {}
    /\ AppendEvent("res", Min(client.todo), mem) /\ Deferred
    /\ client' = [client EXCEPT !.todo = @ \ {Min(@)}]
    /\ UNCHANGED <<depth, owner, run, crashes, faults, ran, lost>>

\* A rejection that cannot be appended leaves the others undone.
ClientExit ==
    /\ owner = "client"
    /\ client' = [pc |-> "off", todo |-> {}]
    /\ UNCHANGED mem
    /\ \/ client.todo = {} /\ Exit /\ UNCHANGED faults
       \/ client.todo # {} /\ Exit /\ Fault
       \/ ExitFails
    /\ UNCHANGED <<log, run, crashes, ran, lost>>

-----------------------------------------------------------------------------
(* The run loop.                                                           *)

Goto(pc) == run' = [run EXCEPT !.pc = pc]

\* The end of a block of the loop: a save that raises ends the run.
Leave(next) ==
    \/ Exit /\ run' = next /\ UNCHANGED faults
    \/ ExitFails /\ run' = [next EXCEPT !.pc = "failed"]

\* arun() up to the loop: one block, with nothing in it that could be torn.
RunStart ==
    /\ run.pc = "off" /\ mem.status # "running" /\ owner = "none"
    /\ mem' = [mem EXCEPT !.status = IF @ \in {"idle", "paused", "error"} THEN "running" ELSE @]
    /\ (Flush /\ Goto("top") /\ UNCHANGED faults) \/ (FlushFails /\ Goto("failed"))
    /\ UNCHANGED <<log, depth, owner, client, crashes, ran, lost>>

\* The top of the loop: nothing to do any more.
LoopBreak ==
    /\ run.pc = "top" /\ owner = "none" /\ mem.status \in {"paused", "finished"}
    /\ UNCHANGED mem
    /\ (Flush /\ Goto("off") /\ UNCHANGED faults) \/ (FlushFails /\ Goto("failed"))
    /\ UNCHANGED <<log, depth, owner, client, crashes, ran, lost>>

\* _truncate_at_finish: the calls up to FinishTool, which may be any of them.
\* Those behind it are dropped and stay without a result.
Batches(calls) == {{a \in calls : a <= last} : last \in calls}

InHand(pc, calls) == [pc |-> pc, todo |-> calls, left |-> calls, seen |-> mem.lastMsg]

\* Mutant: a batch of several pending actions is not run before the call.
StepKeepsWaiting ==
    /\ run.pc = "top" /\ mem.status \notin {"paused", "finished"} /\ owner = "none"
    /\ depth' = depth + 1
    /\ mem' = [mem EXCEPT !.status = "running"] /\ Deferred
    /\ LET pending == UnmatchedActions(ActiveBranch)
       IN \/ Cardinality(pending) = 1 /\ owner' = "run" /\ run' = InHand("tools", pending)
          \/ Cardinality(pending) # 1 /\ owner' = "none" /\ run' = InHand("llm", {})
    /\ UNCHANGED <<log, client, crashes, faults, ran, lost>>

\* A step: pending actions are confirmed by running at all; without one the
\* model is called, with the lock released and the block open.
StepBegin ==
    /\ run.pc = "top" /\ mem.status \notin {"paused", "finished"} /\ owner = "none"
    /\ depth' = depth + 1
    /\ mem' = [mem EXCEPT !.status = IF @ = "waiting" THEN "running" ELSE @] /\ Deferred
    /\ LET pending == UnmatchedActions(ActiveBranch)
       IN \/ /\ pending # {} /\ owner' = "run"
             /\ \E batch \in Batches(pending) : run' = InHand("tools", batch)
          \/ pending = {} /\ owner' = "none" /\ run' = InHand("llm", {})
    /\ UNCHANGED <<log, client, crashes, faults, ran, lost>>

\* The model answers with text: the agent is done.
Reply ==
    /\ run.pc = "llm" /\ owner = "none" /\ owner' = "run"
    /\ AppendEvent("node", 0, [mem EXCEPT !.status = "finished"]) /\ Deferred
    /\ Goto("end")
    /\ UNCHANGED <<depth, client, crashes, faults, ran, lost>>

\* It answers with something the agent has to be told about: a malformed call,
\* no content, a full context.
Nudge ==
    /\ run.pc = "llm" /\ owner = "none" /\ owner' = "run"
    /\ AppendEvent("node", 0, mem) /\ Deferred
    /\ Goto("end")
    /\ UNCHANGED <<depth, client, crashes, faults, ran, lost>>

\* Mutant: the first action goes where the head was when the call began.
ToolCallStale ==
    /\ \/ run.pc = "llm" /\ owner = "none" /\ owner' = "run"
       \/ run.pc = "calls" /\ Cardinality(run.todo) < MaxCalls /\ UNCHANGED owner
    /\ AppendChild(IF run.pc = "llm" THEN run.seen ELSE ActiveLeaf(mem), "act", 0, mem) /\ Deferred
    /\ run' = [run EXCEPT !.pc = "calls", !.todo = @ \cup {Len(log) + 1}]
    /\ UNCHANGED <<depth, client, crashes, faults, ran, lost>>

\* It answers with tool calls, each of which becomes an action.
ToolCall ==
    /\ \/ run.pc = "llm" /\ owner = "none" /\ owner' = "run"
       \/ run.pc = "calls" /\ Cardinality(run.todo) < MaxCalls /\ UNCHANGED owner
    /\ AppendEvent("act", 0, mem) /\ Deferred
    /\ run' = [run EXCEPT !.pc = "calls", !.todo = @ \cup {Len(log) + 1}]
    /\ UNCHANGED <<depth, client, crashes, faults, ran, lost>>

\* _requires_user_confirmation.
Confirm ==
    /\ run.pc = "calls"
    /\ mem' = [mem EXCEPT !.status = "waiting"] /\ Deferred
    /\ run' = [run EXCEPT !.pc = "end", !.todo = {}]
    /\ UNCHANGED <<log, depth, owner, client, crashes, faults, ran, lost>>

Execute ==
    /\ run.pc = "calls"
    /\ \E batch \in Batches(run.todo) :
          run' = [run EXCEPT !.pc = "tools", !.todo = batch, !.left = batch]
    /\ UNCHANGED <<log, mem, disk, depth, dirty, owner, client, crashes, faults, ran, lost>>

\* The tools of a batch run in threads, in any order; nothing is emitted yet.
RunTool ==
    /\ run.pc = "tools"
    /\ \E a \in run.left :
          /\ ran' = [ran EXCEPT ![a] = @ + 1]
          /\ run' = [run EXCEPT !.left = @ \ {a}, !.pc = IF run.left = {a} THEN "emit" ELSE @]
    /\ UNCHANGED <<log, mem, disk, depth, dirty, owner, client, crashes, faults, lost>>

\* _ActionBatch.emit: the results, in the order of the actions; finalize(), which
\* finishes unless there was no FinishTool or its answer is to be refined.
EmitResult ==
    /\ run.pc = "emit"
    /\ LET a == Min(run.todo)
       IN \E s \in (IF run.todo = {a} THEN {mem.status, "finished"} ELSE {mem.status}) :
             /\ AppendEvent("res", a, [mem EXCEPT !.status = s])
             /\ run' = [run EXCEPT !.todo = @ \ {a}, !.pc = IF run.todo = {a} THEN "end" ELSE @]
    /\ Deferred
    /\ UNCHANGED <<depth, owner, client, crashes, faults, ran, lost>>

Superseded == mem.lastMsg # run.seen /\ mem.status \in {"finished", "waiting"}

\* A message came during the step: what waits for a confirmation is rejected.
RejectSuperseded ==
    /\ run.pc = "end" /\ Superseded /\ mem.status = "waiting"
    /\ mem' = [mem EXCEPT !.status = "running"] /\ Deferred
    /\ LET pending == UnmatchedActions(ActiveBranch)
       IN run' = [run EXCEPT !.pc = IF pending = {} THEN @ ELSE "reject", !.todo = pending]
    /\ UNCHANGED <<log, depth, owner, client, crashes, faults, ran, lost>>

RejectEmit ==
    /\ run.pc = "reject"
    /\ LET a == Min(run.todo)
       IN /\ AppendEvent("res", a, mem)
          /\ run' = [run EXCEPT !.todo = @ \ {a}, !.pc = IF run.todo = {a} THEN "end" ELSE @]
    /\ Deferred
    /\ UNCHANGED <<depth, owner, client, crashes, faults, ran, lost>>

\* The end of the block; the last iteration leaves the conversation idle.
StepEnd ==
    /\ run.pc = "end" /\ ~(Superseded /\ mem.status = "waiting")
    /\ \E s \in (IF Superseded THEN {"running", "idle"} ELSE {mem.status}) :
          /\ mem' = [mem EXCEPT !.status = s]
          /\ Leave([run EXCEPT !.todo = {}, !.pc = IF s \in {"waiting", "idle"} THEN "off" ELSE "top"])
    /\ UNCHANGED <<log, client, crashes, ran, lost>>

\* The call fails, or is cancelled: the block is left first.
LLMFails ==
    /\ run.pc = "llm" /\ owner = "none"
    /\ UNCHANGED mem /\ Leave([run EXCEPT !.pc = "failed"])
    /\ UNCHANGED <<log, client, crashes, ran, lost>>

\* The calls in hand whose tool has been started.
Begun == {a \in run.todo : ran[a] > 0}

\* An append of the loop raises (no space, the lease is lost): the block is left,
\* and what is still in hand has no result.
AppendRaises ==
    /\ run.pc \in {"calls", "emit", "reject", "orphans"}
    /\ run' = [run EXCEPT !.pc = "failed", !.todo = {}]
    /\ lost' = lost \cup Begun
    /\ UNCHANGED mem /\ ((Exit /\ Fault) \/ ExitFails)
    /\ UNCHANGED <<log, client, crashes, ran>>

\* The handler of an exception: ERROR, and an event that names it ...
RecordFailure ==
    /\ run.pc = "failed" /\ Enter("run")
    /\ AppendEvent("err", 0, [mem EXCEPT !.status = "error"]) /\ Deferred
    /\ Goto("ending")
    /\ UNCHANGED <<client, crashes, faults, ran, lost>>

\* ... unless the agent has emitted one, or it cannot be appended.
MarkFailed ==
    /\ run.pc = "failed" /\ Enter("run")
    /\ mem' = [mem EXCEPT !.status = "error"] /\ Deferred
    /\ Goto("ending")
    /\ UNCHANGED <<log, client, crashes, faults, ran, lost>>

\* The run is over; one whose failure could not be saved is marked once more,
\* by EventService.
FailureEnd ==
    /\ run.pc = "ending"
    /\ UNCHANGED mem /\ Leave([run EXCEPT !.pc = "off"])
    /\ UNCHANGED <<log, client, crashes, ran, lost>>

\* A save that raises takes the place of the cancellation.
Interrupt ==
    /\ \/ run.pc = "llm" /\ owner = "none"
       \/ run.pc = "tools"
    /\ UNCHANGED mem
    /\ Leave([run EXCEPT !.pc = "cancelled", !.todo = {}, !.left = {}])
    /\ lost' = IF faults' = faults THEN lost ELSE lost \cup Begun
    /\ UNCHANGED <<log, client, crashes, ran>>

\* Mutant: the actions that were cut off are left pending.
HandleCancelledLeaves ==
    /\ run.pc = "cancelled" /\ Enter("run")
    /\ run' = [run EXCEPT !.pc = "orphans", !.todo = {}]
    /\ UNCHANGED <<log, mem, disk, dirty, client, crashes, faults, ran, lost>>

\* _handle_run_cancelled: a second block answers the actions that were cut off.
HandleCancelled ==
    /\ run.pc = "cancelled" /\ Enter("run")
    /\ run' = [run EXCEPT !.pc = "orphans", !.todo = UnmatchedActions(ActiveBranch)]
    /\ UNCHANGED <<log, mem, disk, dirty, client, crashes, faults, ran, lost>>

OrphanError ==
    /\ run.pc = "orphans" /\ run.todo # {}
    /\ AppendEvent("res", Min(run.todo), mem) /\ Deferred
    /\ run' = [run EXCEPT !.todo = @ \ {Min(@)}]
    /\ UNCHANGED <<depth, owner, client, crashes, faults, ran, lost>>

CancelledPaused ==
    /\ run.pc = "orphans" /\ run.todo = {}
    /\ AppendEvent("node", 0, [mem EXCEPT !.status = "paused"])
    /\ Leave([run EXCEPT !.pc = "off"])
    /\ UNCHANGED <<client, crashes, ran, lost>>

-----------------------------------------------------------------------------
(* The process ends, and starts again.                                     *)

Crash ==
    /\ crashes < MaxCrashes /\ run.pc # "down"
    /\ crashes' = crashes + 1
    /\ run' = [pc |-> "down", todo |-> {}, left |-> {}, seen |-> 0]
    /\ client' = [pc |-> "off", todo |-> {}]
    /\ mem' = disk /\ depth' = 0 /\ dirty' = FALSE /\ owner' = "none"
    /\ UNCHANGED <<log, disk, faults, ran, lost>>

\* EventService.start: a run that was cut off is an error ...
Start ==
    /\ run.pc = "down"
    /\ IF disk.status = "running"
       THEN /\ mem' = [disk EXCEPT !.status = "error"] /\ Immediate
            /\ Goto("answer")
       ELSE /\ Goto("off") /\ UNCHANGED <<mem, disk, dirty>>
    /\ UNCHANGED <<log, depth, owner, client, crashes, faults, ran, lost>>

\* Mutant: the result goes where the head is.
AnswerAtHead ==
    /\ run.pc = "answer"
    /\ LET unmatched == UnmatchedActions(DOMAIN log)
       IN \/ /\ unmatched # {}
             /\ AppendEvent("res", Min(unmatched), mem) /\ Deferred /\ Goto("answered")
          \/ /\ unmatched = {} /\ Goto("note") /\ UNCHANGED <<log, mem, disk, dirty>>
    /\ UNCHANGED <<depth, owner, client, crashes, faults, ran, lost>>

\* ... the first action of the whole log without a result gets one, as its
\* child (the head is saved by a later write) ...
Answer ==
    /\ run.pc = "answer"
    /\ LET unmatched == UnmatchedActions(DOMAIN log)
       IN \/ /\ unmatched # {}
             /\ AppendChild(Min(unmatched), "res", Min(unmatched), mem)
             /\ UNCHANGED <<disk, dirty>> /\ Goto("answered")
          \/ /\ unmatched = {} /\ Goto("note") /\ UNCHANGED <<log, mem, disk, dirty>>
    /\ UNCHANGED <<depth, owner, client, crashes, faults, ran, lost>>

\* ... and the conversation is told.
Note ==
    /\ run.pc = "note"
    /\ AppendEvent("err", 0, mem) /\ UNCHANGED <<disk, dirty>>
    /\ Goto("noted")
    /\ UNCHANGED <<depth, owner, client, crashes, faults, ran, lost>>

SaveHead ==
    /\ run.pc \in {"answered", "noted"}
    /\ UNCHANGED mem /\ Immediate
    /\ Goto(IF run.pc = "answered" THEN "note" ELSE "off")
    /\ UNCHANGED <<log, depth, owner, client, crashes, faults, ran, lost>>

Next ==
    \/ SendMessage \/ Pause \/ RejectPending \/ RejectEnter \/ RejectOne \/ ClientExit
    \/ RunStart \/ LoopBreak \/ StepBegin \/ Reply \/ Nudge \/ ToolCall \/ Confirm \/ Execute
    \/ RunTool \/ EmitResult \/ RejectSuperseded \/ RejectEmit \/ StepEnd
    \/ LLMFails \/ AppendRaises \/ RecordFailure \/ MarkFailed \/ FailureEnd \/ Interrupt \/ HandleCancelled \/ OrphanError \/ CancelledPaused
    \/ Crash \/ Start \/ Answer \/ Note \/ SaveHead

Spec == Init /\ [][Next]_vars

-----------------------------------------------------------------------------

\* The flag never lies: outside every block, a base state that is not marked
\* dirty is the one on disk, whichever threads' blocks were nested in the step
\* that was open meanwhile, and whichever save failed.
SavedWhenQuiet == TypeOK /\ (depth = 0 /\ ~dirty /\ run.pc \notin Starting => disk = mem)

\* A result is on a branch only after its action, in memory and for whoever
\* loads the disk at this moment: no tool result without its call.
ResultsFollowActions ==
    \A m \in {mem, disk} : LET branch == PathToRoot(ActiveLeaf(m))
                           IN \A r \in branch : log[r].kind = "res" => log[r].of \in branch

\* While the model is called, whatever other threads append meanwhile, the branch
\* has no tool call without a result: no provider would take the history.
AnsweredDuringCall == run.pc = "llm" => UnmatchedActions(ActiveBranch) = {}

\* A head on disk moves only forward, to a descendant: what was once saved as
\* part of the conversation stays part of it, until a start settles a crash.
HeadMovesForward ==
    [][run.pc \notin Starting => PathToRoot(disk.leaf) \subseteq PathToRoot(disk.leaf)']_vars

\* A tool is started a second time only if a crash has come between, or its
\* result could not be recorded: pending actions are executed by whichever run
\* finds them, those that a FinishTool in their batch cut off included.
RunOnce == crashes = 0 => \A a \in DOMAIN ran : a \in lost \/ ran[a] <= 1
=============================================================================
