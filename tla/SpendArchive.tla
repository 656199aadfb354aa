---------------------------- MODULE SpendArchive -----------------------------
(***************************************************************************)
(* The lifetime ledger of tokens (spend_archive.py) and the deletions that *)
(* fold conversations into it (delete_conversation).                       *)
(*                                                                         *)
(* Several worker processes share one ledger file.  A deletion goes        *)
(* through many awaits while the run of its conversation goes on spending; *)
(* the fold itself reads, adds and replaces the file under a file lock.    *)
(* What a conversation has spent is counted in memory and reaches the disk *)
(* only with the next save of its base state.  A process may die anywhere, *)
(* reading state or writing the ledger may fail, and so may the removal of *)
(* the directory, which the next process then finds again.  The ledger can *)
(* be erased at any time.                                                  *)
(***************************************************************************)
EXTENDS Naturals, FiniteSets

CONSTANTS
    Convs, None,
    Worker,      \* the process that serves each conversation
    MaxSpend,    \* bound on the tokens of each conversation
    MaxFaults,   \* bound on failed reads and writes
    MaxCrashes, MaxPurges

ASSUME SpendAssumption ==
    /\ None \notin Convs
    /\ DOMAIN Worker = Convs
    /\ MaxSpend \in [Convs -> Nat]
    /\ {MaxFaults, MaxCrashes, MaxPurges} \subseteq Nat

VARIABLES
    pc,       \* where the deletion of a conversation is
    stored,   \* the conversation has a directory
    listed,   \* it is in the catalog of its process
    running,  \* a run of it is in progress
    stats,    \* its tokens as its process counts them
    saved,    \* its tokens in base_state.json
    lost,     \* tokens it has spent that are in no state any more
    ledger,   \* tokens folded in for each conversation, and the two lists
    lock,     \* the deletion that holds the file lock
    seen,     \* the ledger as a deletion has read it
    erased,   \* conversations that were in the ledger when it was purged or unreadable
    late,     \* tokens that a conversation has spent after a fold
    faults, crashes, purges

usage == <<stats, saved, lost>>
vars == <<pc, stored, listed, running, usage, ledger, lock, seen, erased, late, faults, crashes, purges>>
convVars == <<stored, listed, running, usage>>
bounds == <<faults, crashes, purges>>

\* read_archive of no file
Empty == [tokens |-> [c \in Convs |-> 0], folded |-> {}, unarchived |-> {}]

Ledgers ==
    [tokens : [Convs -> Nat], folded : SUBSET Convs, unarchived : SUBSET Convs]

TypeOK ==
    /\ pc \in [Convs -> {"none", "begun", "fold", "failed", "record", "close", "remove"}]
    /\ stored \in [Convs -> BOOLEAN] /\ listed \in [Convs -> BOOLEAN]
    /\ running \in [Convs -> BOOLEAN]
    /\ \A c \in Convs : listed[c] => stored[c]
    /\ stats \in [Convs -> Nat] /\ saved \in [Convs -> Nat]
    /\ lost \in [Convs -> Nat] /\ late \in [Convs -> Nat]
    /\ ledger \in Ledgers /\ seen \in [Convs -> Ledgers]
    /\ lock \in Convs \cup {None}
    /\ erased \subseteq Convs
    /\ faults \in 0..MaxFaults /\ crashes \in 0..MaxCrashes /\ purges \in 0..MaxPurges

Init ==
    /\ pc = [c \in Convs |-> "none"]
    /\ stored = [c \in Convs |-> TRUE] /\ listed = [c \in Convs |-> TRUE]
    /\ running = [c \in Convs |-> FALSE]
    /\ stats = [c \in Convs |-> 0] /\ saved = stats /\ lost = stats /\ late = stats
    /\ ledger = Empty /\ lock = None /\ seen = [c \in Convs |-> Empty]
    /\ erased = {}
    /\ faults = 0 /\ crashes = 0 /\ purges = 0

Goto(c, to) == pc' = [pc EXCEPT ![c] = to]
Fault == faults < MaxFaults /\ faults' = faults + 1 /\ UNCHANGED <<crashes, purges>>

-----------------------------------------------------------------------------
(* Runs of the conversations, which a deletion does not stop until close().*)

\* What it has really spent.
Spent(c) == stats[c] + lost[c]

Run(c) ==
    /\ listed[c] /\ ~running[c] /\ pc[c] # "remove" /\ Spent(c) < MaxSpend[c]
    /\ running' = [running EXCEPT ![c] = TRUE]
    /\ UNCHANGED <<pc, stored, listed, usage, ledger, lock, seen, erased, late, bounds>>

\* An answer of the LLM is counted; that saves nothing.
Spend(c) ==
    /\ running[c] /\ Spent(c) < MaxSpend[c]
    /\ stats' = [stats EXCEPT ![c] = @ + 1]
    /\ late' = IF c \in ledger.folded \cup erased THEN [late EXCEPT ![c] = @ + 1] ELSE late
    /\ UNCHANGED <<pc, stored, listed, running, saved, lost, ledger, lock, seen, erased, bounds>>

\* _save_base_state, when a block that has changed the state ends.
SaveBaseState(c) == saved' = [saved EXCEPT ![c] = stats[c]]

\* The save fails, or the lease went with close() and the write guard refuses it.
SaveFails(c) ==
    /\ \/ Fault
       \/ (pc[c] = "remove" \/ ~listed[c]) /\ UNCHANGED bounds
    /\ UNCHANGED saved

\* A step ends, or a client changes the state.
Save(c) ==
    /\ stored[c] /\ (listed[c] \/ running[c])
    /\ SaveBaseState(c)
    /\ UNCHANGED <<pc, stored, listed, running, stats, lost, ledger, lock, seen, erased, late, bounds>>

RunEnds(c) ==
    /\ running[c]
    /\ running' = [running EXCEPT ![c] = FALSE]
    /\ \/ stored[c] /\ SaveBaseState(c) /\ UNCHANGED bounds
       \/ SaveFails(c)
    /\ UNCHANGED <<pc, stored, listed, stats, lost, ledger, lock, seen, erased, late>>

\* The conversations of C are read from their directories the next time.
Forget(C) ==
    /\ stats' = [c \in Convs |-> IF c \in C THEN saved[c] ELSE stats[c]]
    /\ lost' = [c \in Convs |-> IF c \in C THEN Spent(c) - saved[c] ELSE lost[c]]
    /\ UNCHANGED saved

\* An idle conversation leaves the memory of its process.
Evict(c) ==
    /\ listed[c] /\ ~running[c] /\ pc[c] = "none"
    /\ Forget({c})
    /\ UNCHANGED <<pc, stored, listed, running, ledger, lock, seen, erased, late, bounds>>

-----------------------------------------------------------------------------
(* delete_conversation.                                                    *)

\* The conversation is loaded and the webhooks are told.
Delete(c) ==
    /\ listed[c] /\ pc[c] = "none"
    /\ Goto(c, "begun")
    /\ UNCHANGED <<convVars, ledger, lock, seen, erased, late, bounds>>

\* Mutant: the lock is one of the process.
LockLedgerInProcess(c, to) ==
    /\ \A d \in Convs : Worker[d] = Worker[c] => pc[d] \notin {"fold", "record"}
    /\ lock' = c /\ seen' = [seen EXCEPT ![c] = ledger]
    /\ Goto(c, to)

\* The file lock is taken and the ledger read.
LockLedger(c, to) ==
    /\ lock = None /\ lock' = c
    /\ seen' = [seen EXCEPT ![c] = ledger]
    /\ Goto(c, to)

Lock(c) ==
    /\ \/ pc[c] = "begun" /\ LockLedger(c, "fold")
       \/ pc[c] = "failed" /\ LockLedger(c, "record")
    /\ UNCHANGED <<convVars, ledger, erased, late, bounds>>

\* read_archive reads an unreadable ledger as an empty one.
LockUnreadable(c) ==
    /\ pc[c] \in {"begun", "failed"} /\ Fault
    /\ lock = None /\ lock' = c
    /\ seen' = [seen EXCEPT ![c] = Empty]
    /\ erased' = erased \cup ledger.folded \cup ledger.unarchived
    /\ Goto(c, IF pc[c] = "begun" THEN "fold" ELSE "record")
    /\ UNCHANGED <<convVars, ledger, late>>

\* The state could not be read, or the file lock not be created.
FoldFails(c) ==
    /\ pc[c] = "begun" /\ Fault
    /\ Goto(c, "failed")
    /\ UNCHANGED <<convVars, ledger, lock, seen, erased, late>>

\* What was read is forgotten with the lock.
Unlock(c) == lock' = None /\ seen' = [seen EXCEPT ![c] = Empty]

\* fold_conversation on the ledger that was read.
Folded(l, c) == [l EXCEPT !.tokens[c] = @ + stats[c], !.folded = @ \cup {c}]

\* Mutant: a conversation is folded in whenever it is deleted.
FoldAlways(c) ==
    /\ pc[c] = "fold"
    /\ ledger' = Folded(seen[c], c)
    /\ Unlock(c)
    /\ Goto(c, "close")
    /\ UNCHANGED <<convVars, erased, late, bounds>>

\* The sum is written; a conversation that is there already leaves the file alone.
Fold(c) ==
    /\ pc[c] = "fold"
    /\ ledger' = IF c \in seen[c].folded THEN ledger ELSE Folded(seen[c], c)
    /\ Unlock(c)
    /\ Goto(c, "close")
    /\ UNCHANGED <<convVars, erased, late, bounds>>

\* record_unarchived
Record(c) ==
    /\ pc[c] = "record"
    /\ ledger' = [seen[c] EXCEPT !.unarchived = @ \cup {c}]
    /\ Unlock(c)
    /\ Goto(c, "close")
    /\ UNCHANGED <<convVars, erased, late, bounds>>

\* Mutant: the deletion goes on.
WriteFailsSilently(c) ==
    /\ pc[c] \in {"fold", "record"} /\ Fault
    /\ Unlock(c)
    /\ Goto(c, IF pc[c] = "fold" THEN "failed" ELSE "close")
    /\ UNCHANGED <<convVars, ledger, erased, late>>

\* The write fails: the gap is to be recorded, and if that fails too the deletion
\* is refused.
WriteFails(c) ==
    /\ pc[c] \in {"fold", "record"} /\ Fault
    /\ Unlock(c)
    /\ Goto(c, IF pc[c] = "fold" THEN "failed" ELSE "none")
    /\ UNCHANGED <<convVars, ledger, erased, late>>

\* close() ends the run, unless its thread goes on or close() fails before: that is
\* logged and the deletion goes on.  Only a CredentialBindingError refuses it.
CloseService(c) ==
    /\ pc[c] = "close"
    /\ \/ UNCHANGED <<running, saved, bounds>>
       \/ /\ running[c] /\ running' = [running EXCEPT ![c] = FALSE]
          /\ \/ SaveBaseState(c) /\ UNCHANGED bounds
             \/ Fault /\ UNCHANGED saved
    /\ Goto(c, "remove") \/ Goto(c, "none")
    /\ UNCHANGED <<stored, listed, stats, lost, ledger, lock, seen, erased, late>>

\* The conversation leaves the catalog; removing its directory may fail.
Remove(c) ==
    /\ pc[c] = "remove"
    /\ listed' = [listed EXCEPT ![c] = FALSE]
    /\ \/ stored' = [stored EXCEPT ![c] = FALSE] /\ UNCHANGED bounds
       \/ Fault /\ UNCHANGED stored
    /\ Goto(c, "none")
    /\ UNCHANGED <<running, usage, ledger, lock, seen, erased, late>>

-----------------------------------------------------------------------------

\* purge() takes no lock.
Purge ==
    /\ purges < MaxPurges /\ purges' = purges + 1
    /\ erased' = erased \cup ledger.folded \cup ledger.unarchived
    /\ ledger' = Empty
    /\ UNCHANGED <<pc, convVars, lock, seen, late, faults, crashes>>

\* The process dies and its successor reads the catalog from the directories.
Crash(w) ==
    /\ crashes < MaxCrashes /\ crashes' = crashes + 1
    /\ LET own(c) == Worker[c] = w
       IN /\ pc' = [c \in Convs |-> IF own(c) THEN "none" ELSE pc[c]]
          /\ running' = [c \in Convs |-> ~own(c) /\ running[c]]
          /\ listed' = [c \in Convs |-> IF own(c) THEN stored[c] ELSE listed[c]]
          /\ lock' = IF lock # None /\ own(lock) THEN None ELSE lock
          /\ seen' = [c \in Convs |-> IF own(c) THEN Empty ELSE seen[c]]
          /\ Forget({c \in Convs : own(c)})
    /\ UNCHANGED <<stored, ledger, erased, late, faults, purges>>

Next ==
    \/ \E c \in Convs : \/ Run(c) \/ Spend(c) \/ Save(c) \/ RunEnds(c) \/ Evict(c)
                        \/ Delete(c) \/ Lock(c) \/ LockUnreadable(c) \/ FoldFails(c) \/ Fold(c) \/ Record(c)
                        \/ WriteFails(c) \/ CloseService(c) \/ Remove(c)
    \/ \E w \in {Worker[c] : c \in Convs} : Crash(w)
    \/ Purge

Spec == Init /\ [][Next]_vars

-----------------------------------------------------------------------------

\* The ledger counts what a folded conversation has spent, no more, though
\* deletions are repeated after a failure or a crash at any point, and no less but
\* for what it spent after a fold or what had not been saved when its state went
\* from memory.
CountExact ==
    /\ TypeOK
    /\ \A c \in ledger.folded : /\ ledger.tokens[c] <= Spent(c)
                                /\ Spent(c) <= ledger.tokens[c] + late[c] + lost[c]

\* A conversation that is gone has left a trace in the ledger, as tokens or as a
\* gap, unless a purge or a failed read took it away.
DeletionTraced ==
    \A c \in Convs : ~stored[c] => c \in ledger.folded \cup ledger.unarchived \cup erased

\* Nothing else lowers the lifetime total: two workers that fold at once do not
\* overwrite each other.
LoweredOnlyIfErased ==
    [][\A c \in Convs : ledger'.tokens[c] < ledger.tokens[c] => c \in erased']_vars
=============================================================================
