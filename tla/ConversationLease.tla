------------------------- MODULE ConversationLease -------------------------
(***************************************************************************)
(* Ownership of one conversation directory by several service processes:   *)
(* the lease file (conversation_lease.py), the way EventService claims,    *)
(* renews, guards its writes with and releases it (event_service.py), and  *)
(* the recovery of a conversation that was persisted as RUNNING by a       *)
(* process that is gone (conversation_service.py).                         *)
(*                                                                         *)
(* A process is one owner_instance_id: a restarted daemon is a new owner.  *)
(* Time is abstracted to whether the recorded expiry has passed.           *)
(***************************************************************************)
EXTENDS Naturals

CONSTANTS
    Owners,       \* owner_instance_id of every process that may ever run
    Hosts,        \* machines
    HostOf,       \* the machine each process runs on
    LateWriters,  \* processes whose close() may leave a worker thread behind
    MaxLoads,     \* bound: claims made on behalf of a client
    NoOwner       \* "the lease file does not exist"

ASSUME ConstantsAssumption ==
    /\ HostOf \in [Owners -> Hosts]
    /\ LateWriters \subseteq Owners
    /\ MaxLoads \in Nat
    /\ NoOwner \notin Owners

VARIABLES
    lease,    \* owner_lease.json: its owner, generation, and expiry not passed
    flock,    \* the process inside a guarded write (holds .owner_lease.lock)
    proc,     \* each process: not started yet, up, or dead
    svc,      \* its EventService for this conversation
    gen,      \* EventService._lease_generation, 0 for None
    mem,      \* execution_status of its in-memory ConversationState, "idle"
              \* while it has none
    disk,     \* execution_status in base_state.json
    pending,  \* the conversation is in ConversationService._pending_recovery
    late,     \* the status a surviving thread of a closed service will save
    unfenced, \* history: processes that wrote with no guard, when closed or
              \* superseded
    epoch,    \* history: number of successful claims so far
    epochOf   \* history: the number of each process's latest claim

history == <<unfenced, epoch, epochOf>>
leaseVars == <<lease, flock, proc, svc, gen, mem, disk, pending, late, history>>

Statuses == {"idle", "running", "error"}
Phases   == {"none", "claimed", "built", "open"}

NoLease == [owner |-> NoOwner, generation |-> 0, fresh |-> FALSE]
Leases  == [owner : Owners \cup {NoOwner}, generation : Nat, fresh : BOOLEAN]

LeaseTypeOK ==
    /\ lease \in Leases
    /\ flock \in Owners \cup {NoOwner}
    /\ proc \in [Owners -> {"new", "up", "dead"}]
    /\ svc \in [Owners -> Phases]
    /\ gen \in [Owners -> Nat]
    /\ mem \in [Owners -> Statuses]
    /\ disk \in Statuses
    /\ pending \in [Owners -> BOOLEAN]
    /\ late \in [Owners -> Statuses \cup {"gone"}]
    /\ unfenced \subseteq Owners
    /\ epoch \in Nat
    /\ epochOf \in [Owners -> Nat]

(***************************************************************************)
(* ConversationLease                                                       *)
(***************************************************************************)

\* _owner_is_dead: only a process of the same host can be found dead by pid.
OwnerIsDead(o) ==
    /\ lease.owner # NoOwner
    /\ HostOf[lease.owner] = HostOf[o]
    /\ proc[lease.owner] = "dead"

\* The condition under which claim() does not raise ConversationLeaseHeldError.
Claimable(o) ==
    \/ lease.owner \in {o, NoOwner}
    \/ ~lease.fresh
    \/ OwnerIsDead(o)

\* The generation claim() writes: kept for the same owner, next for a takeover,
\* 1 when there is no lease file.
NextGeneration(o) ==
    IF lease.owner = o THEN lease.generation ELSE lease.generation + 1

\* Mutant: the owner is not compared.
OwnsByGeneration(o) == lease.generation = gen[o]

\* _assert_owner_locked
Owns(o) == lease.owner = o /\ lease.generation = gen[o]

\* Mutant: the file is unlinked whoever it names.
ReleasedAlways(o) == NoLease

\* release: unlink the file if this service's generation is still recorded.
Released(o) == IF Owns(o) THEN NoLease ELSE lease

\* claim() by a process that has no service object for the conversation.
Claim(o) ==
    /\ proc[o] = "up" /\ svc[o] = "none"
    /\ flock = NoOwner
    /\ Claimable(o)
    /\ lease' = [owner |-> o, generation |-> NextGeneration(o), fresh |-> TRUE]
    /\ gen' = [gen EXCEPT ![o] = NextGeneration(o)]
    /\ svc' = [svc EXCEPT ![o] = "claimed"]
    /\ epoch' = epoch + 1
    /\ epochOf' = [epochOf EXCEPT ![o] = epoch + 1]
    /\ UNCHANGED <<flock, proc, mem, disk, late, unfenced>>

(***************************************************************************)
(* ConversationService                                                     *)
(***************************************************************************)

\* __aenter__: the catalog is read; a conversation persisted as RUNNING is to
\* be recovered, now or, while its lease is held, by _deferred_recovery_loop.
Boot(o) ==
    /\ proc[o] = "new"
    /\ proc' = [proc EXCEPT ![o] = "up"]
    /\ pending' = [pending EXCEPT ![o] = (disk = "running")]
    /\ UNCHANGED <<lease, flock, svc, gen, mem, disk, late, history>>

\* _get_or_load_event_service for a client of a conversation not loaded.
Load(o) ==
    /\ epoch < MaxLoads
    /\ Claim(o)
    /\ UNCHANGED pending

\* Mutant: a held lease ends the recovery instead of deferring it.
RecoverOnce(o) ==
    /\ pending[o]
    /\ Claim(o) \/ (~Claimable(o) /\ UNCHANGED <<lease, flock, proc, svc, gen, mem, disk, late, history>>)
    /\ pending' = [pending EXCEPT ![o] = FALSE]

\* _try_recover_running. A held lease leaves the conversation pending.
Recover(o) ==
    /\ pending[o]
    /\ Claim(o)
    /\ pending' = [pending EXCEPT ![o] = FALSE]

\* _try_recover_running finds the conversation already open in this process.
RecoverOpen(o) ==
    /\ proc[o] = "up" /\ pending[o] /\ svc[o] = "open"
    /\ pending' = [pending EXCEPT ![o] = FALSE]
    /\ UNCHANGED <<lease, flock, proc, svc, gen, mem, disk, late, history>>

(***************************************************************************)
(* EventService                                                            *)
(***************************************************************************)

\* start() builds the LocalConversation from base_state.json, unlocked.
\* What it assigns on the way there is StartSave.
Build(o) ==
    /\ svc[o] = "claimed"
    /\ mem' = [mem EXCEPT ![o] = disk]
    /\ svc' = [svc EXCEPT ![o] = "built"]
    /\ UNCHANGED <<lease, flock, proc, gen, disk, pending, late, history>>

\* start() assigns workspace, max_iterations, confirmation_policy and
\* security_analyzer with autosave on and set_write_guard still to come: one
\* that differs from the file saves the whole base state, whoever owns the lease.
StartSave(o) ==
    /\ svc[o] = "built"
    /\ disk' = mem[o]
    /\ unfenced' = IF epochOf[o] = epoch THEN unfenced ELSE unfenced \cup {o}
    /\ UNCHANGED <<lease, flock, proc, svc, gen, mem, pending, late, epoch, epochOf>>

\* The rest of start(), with the guard set. A status that is not RUNNING is not
\* written, so a start that was superseded is not found out.
FinishStart(o) ==
    /\ svc[o] = "built"
    /\ mem[o] # "running"
    /\ svc' = [svc EXCEPT ![o] = "open"]
    /\ UNCHANGED <<lease, flock, proc, gen, mem, disk, pending, late, history>>

\* A status that reads RUNNING is stale and becomes ERROR, in a guarded write; if
\* that is refused the start fails, and there is nothing for close() to release.
SettleStart(o) ==
    /\ svc[o] = "built"
    /\ mem[o] = "running"
    /\ flock = NoOwner
    /\ \/ /\ Owns(o)
          /\ mem' = [mem EXCEPT ![o] = "error"]
          /\ disk' = "error"
          /\ svc' = [svc EXCEPT ![o] = "open"]
          /\ UNCHANGED gen
       \/ /\ ~Owns(o)
          /\ svc' = [svc EXCEPT ![o] = "none"]
          /\ gen' = [gen EXCEPT ![o] = 0]
          /\ mem' = [mem EXCEPT ![o] = "idle"]
          /\ UNCHANGED disk
    /\ UNCHANGED <<lease, flock, proc, pending, late, history>>

\* A run starts (RUNNING) or ends: the status is set, then base_state.json is
\* written under the guard, which holds the lease's file lock.
BeginWrite(o, s) ==
    /\ svc[o] = "open"
    /\ flock = NoOwner
    /\ (s = "running") # (mem[o] = "running")
    /\ Owns(o)
    /\ mem' = [mem EXCEPT ![o] = s]
    /\ flock' = o
    /\ UNCHANGED <<lease, proc, svc, gen, disk, pending, late, history>>

EndWrite(o) ==
    /\ flock = o
    /\ disk' = mem[o]
    /\ flock' = NoOwner
    /\ UNCHANGED <<lease, proc, svc, gen, mem, pending, late, history>>

\* ConversationOwnershipLostError out of a run's write, its first or a later one:
\* the run ends in ERROR, in memory only, the write of that being refused as well.
WriteRefused(o) ==
    /\ svc[o] = "open"
    /\ flock = NoOwner
    /\ ~Owns(o)
    /\ mem' = [mem EXCEPT ![o] = "error"]
    /\ UNCHANGED <<lease, flock, proc, svc, gen, disk, pending, late, history>>

\* renew_lease of an open service, from _renew_all_leases_loop; a lost lease is
\* logged and nothing changes.
Renew(o) ==
    /\ svc[o] = "open"
    /\ flock = NoOwner
    /\ Owns(o)
    /\ lease' = [lease EXCEPT !.fresh = TRUE]
    /\ UNCHANGED <<flock, proc, svc, gen, mem, disk, pending, late, history>>

\* Mutant: the status close() drains the run to is saved without the guard.
CloseUnguarded(o, survivor) ==
    /\ svc[o] = "open"
    /\ flock = NoOwner
    /\ survivor => o \in LateWriters
    /\ LET drained == IF mem[o] = "running" THEN "idle" ELSE mem[o] IN
       /\ disk' = drained
       /\ late' = IF survivor THEN [late EXCEPT ![o] = drained] ELSE late
    /\ lease' = Released(o)
    /\ svc' = [svc EXCEPT ![o] = "none"]
    /\ gen' = [gen EXCEPT ![o] = 0]
    /\ mem' = [mem EXCEPT ![o] = "idle"]
    /\ UNCHANGED <<flock, proc, pending, history>>

\* close(): a run is paused and that status written under the guard, then the
\* lease is released and the service forgets it.  A worker thread may outlive
\* close() (an emit queued before its executor was shut down without waiting)
\* and still hold the closed conversation's state.
CloseService(o, survivor) ==
    /\ svc[o] = "open"
    /\ flock = NoOwner
    /\ survivor => o \in LateWriters
    /\ LET drained == IF mem[o] = "running" THEN "idle" ELSE mem[o] IN
       /\ disk' = IF Owns(o) THEN drained ELSE disk
       /\ late' = IF survivor THEN [late EXCEPT ![o] = drained] ELSE late
    /\ lease' = Released(o)
    /\ svc' = [svc EXCEPT ![o] = "none"]
    /\ gen' = [gen EXCEPT ![o] = 0]
    /\ mem' = [mem EXCEPT ![o] = "idle"]
    /\ UNCHANGED <<flock, proc, pending, history>>

\* The conversation's own close() raises: the service is dropped, the lease
\* file stays and nobody renews it.
CloseFails(o) ==
    /\ svc[o] = "open"
    /\ flock = NoOwner
    /\ mem[o] # "running"
    /\ svc' = [svc EXCEPT ![o] = "none"]
    /\ gen' = [gen EXCEPT ![o] = 0]
    /\ mem' = [mem EXCEPT ![o] = "idle"]
    /\ UNCHANGED <<lease, flock, proc, disk, pending, late, history>>

\* The surviving thread saves its state. _write_guard finds no lease in the
\* closed service and returns a null context: nothing is checked or locked.
LateWrite(o) ==
    /\ late[o] # "gone"
    /\ disk' = late[o]
    /\ late' = [late EXCEPT ![o] = "gone"]
    /\ unfenced' = unfenced \cup {o}
    /\ UNCHANGED <<lease, flock, proc, svc, gen, mem, pending, epoch, epochOf>>

(***************************************************************************)
(* Environment                                                             *)
(***************************************************************************)

\* expires_at passes.
Expire ==
    /\ lease.fresh
    /\ lease' = [lease EXCEPT !.fresh = FALSE]
    /\ UNCHANGED <<flock, proc, svc, gen, mem, disk, pending, late, history>>

\* The process dies; the operating system releases its file lock.
ProcessDies(o) ==
    /\ proc[o] = "up"
    /\ proc' = [proc EXCEPT ![o] = "dead"]
    /\ svc' = [svc EXCEPT ![o] = "none"]
    /\ late' = [late EXCEPT ![o] = "gone"]
    /\ pending' = [pending EXCEPT ![o] = FALSE]
    /\ flock' = IF flock = o THEN NoOwner ELSE flock
    /\ gen' = [gen EXCEPT ![o] = 0]
    /\ mem' = [mem EXCEPT ![o] = "idle"]
    /\ UNCHANGED <<lease, disk, history>>

LeaseInit ==
    /\ lease = NoLease
    /\ flock = NoOwner
    /\ proc = [o \in Owners |-> "new"]
    /\ svc = [o \in Owners |-> "none"]
    /\ gen = [o \in Owners |-> 0]
    /\ mem = [o \in Owners |-> "idle"]
    /\ disk = "idle"
    /\ pending = [o \in Owners |-> FALSE]
    /\ late = [o \in Owners |-> "gone"]
    /\ unfenced = {}
    /\ epoch = 0
    /\ epochOf = [o \in Owners |-> 0]

Start(o) ==
    \/ Load(o) \/ Recover(o) \/ RecoverOpen(o)
    \/ Build(o) \/ StartSave(o) \/ FinishStart(o) \/ SettleStart(o)

ProcessStep(o) ==
    \/ Boot(o)
    \/ Start(o)
    \/ \E s \in {"running", "idle"} : BeginWrite(o, s)
    \/ EndWrite(o)
    \/ WriteRefused(o)
    \/ Renew(o)
    \/ \E survivor \in BOOLEAN : CloseService(o, survivor)
    \/ CloseFails(o)
    \/ LateWrite(o)
    \/ ProcessDies(o)

LeaseNext == Expire \/ \E o \in Owners : ProcessStep(o)

\* An up process keeps trying to recover, finishes a start and a write it
\* began, and an expiry that nothing postpones is reached.
Fairness ==
    /\ WF_leaseVars(Expire)
    /\ \A o \in Owners :
         /\ WF_leaseVars(Recover(o))
         /\ WF_leaseVars(Build(o))
         /\ WF_leaseVars(FinishStart(o) \/ SettleStart(o))
         /\ WF_leaseVars(EndWrite(o))

LeaseSpec == LeaseInit /\ [][LeaseNext]_leaseVars
FairSpec == LeaseSpec /\ Fairness

-----------------------------------------------------------------------------

(***************************************************************************)
(* Properties                                                              *)
(***************************************************************************)

\* The fence: whoever is inside a guarded write (_write_guard, guarded_write)
\* is the process that claimed last.  No takeover, expiry, release or crash
\* lets a superseded owner's guarded write through, although release() deletes
\* the file and with it the generation counter.
GuardHolderClaimedLast == \A o \in Owners : flock = o => epochOf[o] = epoch

\* The fence refuses nobody it should not: a service that claimed last and has
\* not been closed is the recorded owner in the recorded generation, so that a
\* superseded owner's close() can never take the lease from its successor.
LastClaimantKeepsLease ==
    \A o \in Owners :
        svc[o] # "none" /\ epochOf[o] = epoch =>
            lease.owner = o /\ lease.generation = gen[o]

\* base_state.json says what the last claimant's conversation says: once it is
\* open and not in the middle of a write, no other process's write shows, as
\* long as neither a thread that outlived close() nor a start() superseded
\* before set_write_guard has saved with no guard.
DiskFollowsLastClaimant ==
    unfenced = {} =>
        \A o \in Owners :
            svc[o] = "open" /\ epochOf[o] = epoch /\ flock # o => disk = mem[o]

\* RUNNING is persisted and no process has the conversation loaded.
Orphaned == disk = "running" /\ \A o \in Owners : svc[o] = "none"

\* _deferred_recovery_loop: a conversation left RUNNING by a process that is
\* gone does not read RUNNING for ever while a process that found it so is up.
OrphanRecovered ==
    \A o \in Owners :
        (Orphaned /\ pending[o]) ~> (~Orphaned \/ proc[o] # "up")

=============================================================================
