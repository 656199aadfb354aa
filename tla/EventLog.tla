------------------------------ MODULE EventLog ------------------------------
(***************************************************************************)
(* The events of one conversation (event_store.py): a directory with one   *)
(* file per event, named by index and id, appended to by several processes *)
(* that each keep an index of it in memory.  A marker file names the       *)
(* length, so that a writer need not list the directory at every append.   *)
(*                                                                         *)
(* A process of the server writes under the guard of the conversation's    *)
(* lease (set_write_guard; ConversationLease has the detail: here opening  *)
(* the log takes the lease over).  The SDK on its own has no guard.        *)
(***************************************************************************)
EXTENDS Naturals, FiniteSets

CONSTANTS
    Procs,     \* processes, each with at most one EventLog for the directory
    Events,    \* event ids
    Root,      \* ROOT_PARENT_ID, or no parent: then the event before is meant
    None,      \* nobody
    MaxFiles   \* bound: no append once there are so many files

ASSUME LogAssumption ==
    /\ Root \notin Events /\ None \notin Procs
    /\ MaxFiles \in Nat

VARIABLES
    files,    \* the event files
    markers,  \* the length markers, as the lengths they name
    lock,     \* holder of .eventlog.lock
    guarded,  \* whether the writers are guarded by a lease
    owner,    \* the process whose lease it is
    open,     \* the processes that have the log open
    log,      \* _length, _idx_to_id and the ids of _id_to_idx of each
    pc,       \* where the append of each process is
    cur,      \* the event it is about to write
    torn      \* history: an append ended with its event on disk and the marker
              \* of the length before it still there

vars == <<files, markers, lock, guarded, owner, open, log, pc, cur, torn>>

Files   == [idx : Nat, id : Events, parent : Events \cup {Root}]
Entries == [idx : Nat, id : Events]
Inputs  == [id : Events, parent : Events \cup {Root}]
Logs    == [len : Nat, index : SUBSET Entries, ids : SUBSET Events]

TypeOK ==
    /\ files \in SUBSET Files /\ IsFiniteSet(files)
    /\ markers \subseteq Nat
    /\ lock \in Procs \cup {None} /\ owner \in Procs \cup {None}
    /\ guarded \in BOOLEAN /\ torn \in BOOLEAN
    /\ open \subseteq Procs
    /\ log \in [Procs -> Logs]
    /\ pc \in [Procs -> {"idle", "write", "unmark", "mark"}]
    /\ cur \in [Procs -> Inputs \cup {None}]

Empty == [len |-> 0, index |-> {}, ids |-> {}]

Init ==
    /\ files = {} /\ markers = {} /\ lock = None
    /\ guarded \in BOOLEAN /\ owner = None /\ open = {}
    /\ log = [p \in Procs |-> Empty]
    /\ pc = [p \in Procs |-> "idle"]
    /\ cur = [p \in Procs |-> None]
    /\ torn = FALSE

(***************************************************************************)
(* Reading the directory.                                                  *)
(***************************************************************************)
Count == Cardinality(files)    \* _count_events_on_disk

Idxs == {f.idx : f \in files}

\* What a listing keeps: of two files with one index, the one listed last.
Listings ==
    {k \in SUBSET files : /\ \A f \in files : \E g \in k : g.idx = f.idx
                          /\ \A f, g \in k : f.idx = g.idx => f = g}

\* _scan_and_build_index stops at the first index that is missing.
Contiguous == Cardinality({i \in 0..Count : \A j \in 0..i : j \in Idxs})

Scan(k) ==
    LET seen == {[idx |-> f.idx, id |-> f.id] : f \in {g \in k : g.idx < Contiguous}}
    IN  [len |-> Contiguous, index |-> seen, ids |-> {x.id : x \in seen}]

\* Mutant: the new length is taken over, the index is not rebuilt.
SyncedLengthOnly(l, s) == [l EXCEPT !.len = Count]

\* _sync_from_disk(Count): mappings the scan has lost are kept.
Synced(l, s) ==
    [len   |-> IF s.len > Count THEN s.len ELSE Count,
     index |-> s.index \cup {x \in l.index : \A y \in s.index : y.idx # x.idx},
     ids   |-> s.ids \cup {x.id : x \in l.index}]

\* Mutant: any marker will do.
UpToDateAnyMarker(l) == markers # {} \/ Count <= l.len

\* The marker names this length, or the directory has no more events.
UpToDate(l) == l.len \in markers \/ Count <= l.len

\* What append() knows of the log once it has the lock.
Refreshed(p) ==
    IF UpToDate(log[p]) THEN {log[p]} ELSE {Synced(log[p], Scan(k)) : k \in Listings}

(***************************************************************************)
(* Appending.                                                              *)
(***************************************************************************)
\* Mutant: the parent is not looked for.
AcceptsAnyParent(l, e) == e.id \notin l.ids

Accepts(l, e) == e.id \notin l.ids /\ e.parent \in l.ids \cup {Root}

Begin(p, e) ==
    /\ p \in open /\ pc[p] = "idle" /\ lock = None /\ Count < MaxFiles
    /\ \E l \in Refreshed(p) :
         /\ log' = [log EXCEPT ![p] = l]
         /\ \/ ~Accepts(l, e) /\ UNCHANGED <<lock, pc, cur>>
            \/ /\ Accepts(l, e)
               /\ lock' = p
               /\ pc' = [pc EXCEPT ![p] = "write"]
               /\ cur' = [cur EXCEPT ![p] = e]
    /\ UNCHANGED <<files, markers, guarded, owner, open, torn>>

\* The index of the next event.
NextIdx(p) == log[p].len

\* The event's file, under the guard, and then the index in memory.
Write(p) ==
    /\ pc[p] = "write" /\ (guarded => owner = p)
    /\ LET i == NextIdx(p)
           e == cur[p]
       IN  /\ files' = {f \in files : f.idx # i \/ f.id # e.id}
                           \cup {[idx |-> i, id |-> e.id, parent |-> e.parent]}
           /\ log' = [log EXCEPT ![p] =
                        [len   |-> i + 1,
                         index |-> {x \in @.index : x.idx # i} \cup {[idx |-> i, id |-> e.id]},
                         ids   |-> @.ids \cup {e.id}]]
    /\ pc' = [pc EXCEPT ![p] = "unmark"]
    /\ cur' = [cur EXCEPT ![p] = None]
    /\ UNCHANGED <<markers, lock, guarded, owner, open, torn>>

\* The guard refuses, or the file cannot be written.
WriteFails(p) ==
    /\ pc[p] = "write"
    /\ lock' = None /\ pc' = [pc EXCEPT ![p] = "idle"]
    /\ cur' = [cur EXCEPT ![p] = None]
    /\ UNCHANGED <<files, markers, guarded, owner, open, log, torn>>

\* _advance_length_marker first removes the old marker; a failure to do so is
\* only logged (LocalFileStore.delete).
Unmark(p) ==
    /\ pc[p] = "unmark"
    /\ LET m == log[p].len - 1
       IN  \/ markers' = markers \ {m} /\ UNCHANGED torn
           \/ m \in markers /\ torn' = TRUE /\ UNCHANGED markers
    /\ pc' = [pc EXCEPT ![p] = "mark"]
    /\ UNCHANGED <<files, lock, guarded, owner, open, log, cur>>

\* Then it writes the new one, or fails to, which is only logged.
Mark(p) ==
    /\ pc[p] = "mark"
    /\ markers' \in {markers, markers \cup {log[p].len}}
    /\ lock' = None /\ pc' = [pc EXCEPT ![p] = "idle"]
    /\ UNCHANGED <<files, guarded, owner, open, log, cur, torn>>

(***************************************************************************)
(* Opening, closing, dying.                                                *)
(***************************************************************************)
\* The scan of the constructor takes no lock; the lease was claimed before.
Open(p) ==
    /\ p \notin open
    /\ open' = open \cup {p}
    /\ owner' = IF guarded THEN p ELSE owner
    /\ \E k \in Listings : log' = [log EXCEPT ![p] = Scan(k)]
    /\ UNCHANGED <<files, markers, lock, guarded, pc, cur, torn>>

Gone(p) == open' = open \ {p} /\ log' = [log EXCEPT ![p] = Empty]

Close(p) ==
    /\ p \in open /\ pc[p] = "idle"
    /\ Gone(p)
    /\ owner' = IF owner = p THEN None ELSE owner
    /\ UNCHANGED <<files, markers, lock, guarded, pc, cur, torn>>

\* The process dies: the operating system drops the file lock.
Crash(p) ==
    /\ p \in open
    /\ Gone(p)
    /\ lock' = IF lock = p THEN None ELSE lock
    /\ pc' = [pc EXCEPT ![p] = "idle"] /\ cur' = [cur EXCEPT ![p] = None]
    /\ torn' = (torn \/ (pc[p] = "unmark" /\ log[p].len - 1 \in markers))
    /\ UNCHANGED <<files, markers, guarded, owner>>

Step(p) ==
    \/ \E e \in Events, q \in Events \cup {Root} : Begin(p, [id |-> e, parent |-> q])
    \/ Write(p) \/ WriteFails(p) \/ Unmark(p) \/ Mark(p)
    \/ Open(p) \/ Close(p) \/ Crash(p)

Next == \E p \in Procs : Step(p)

Spec == Init /\ [][Next]_vars

-----------------------------------------------------------------------------

\* The directory can be relied on: the writers are fenced, or the marker has
\* never been left behind.
Regular == guarded \/ ~torn

\* The log only grows, by one event at a time, at the next index, and an event
\* enters it once: whoever appends, dies in the middle of an append or takes
\* over, and whatever the index in memory missed.
AppendOnly ==
    [][Regular => \/ files' = files
                  \/ \E f \in files' : /\ files' = files \cup {f} /\ f.idx = Count
                                       /\ \A g \in files : g.id # f.id]_vars

\* Index and id in memory are those of the directory, without a gap, in every
\* process that has the log open: an index that append() returned or that
\* get_index() finds leads to that event.
IndexAgrees ==
    Regular =>
        \A p \in open :
            /\ log[p].len <= Count
            /\ \A i \in 0..Count : i < log[p].len <=> \E x \in log[p].index : x.idx = i
            /\ \A x \in log[p].index : \E f \in files : f.idx = x.idx /\ f.id = x.id

\* The parent of an event was appended before it, so that path_to_root ends at
\* a root and never meets an event that is not there.
ParentsPrecede ==
    Regular =>
        \A f \in files :
            f.parent # Root => \E g \in files : g.id = f.parent /\ g.idx < f.idx
=============================================================================
