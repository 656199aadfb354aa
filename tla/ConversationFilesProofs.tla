---------------------- MODULE ConversationFilesProofs ----------------------
(***************************************************************************)
(* The files of a conversation's directory, for any number of processes:   *)
(* the events (EventLog), with any number of events and any bound on the   *)
(* number of files, and the lease (ConversationLease).  Each theorem is    *)
(* about one of the two specifications, Spec and LeaseSpec.                *)
(***************************************************************************)
EXTENDS EventLog, ConversationLease, FiniteSetTheorems, TLAPS

(***************************************************************************)
(* The types.                                                              *)
(***************************************************************************)
\* The length a scan finds is a number: the run of indices from 0 is finite.
LEMMA ContiguousType ==
    ASSUME TypeOK
    PROVE  Contiguous \in Nat /\ Count \in Nat
<1> DEFINE S == {i \in 0..Count : \A j \in 0..i : j \in Idxs}
<1>1. Count \in Nat
  BY FS_CardinalityType DEF TypeOK, Count
<1>2. IsFiniteSet(0..Count)
  BY <1>1, FS_Interval, 0 \in Int, Nat \subseteq Int
<1>3. S \in SUBSET (0..Count)
  OBVIOUS
<1>4. IsFiniteSet(S)
  BY <1>2, <1>3, FS_Subset
<1>5. Cardinality(S) \in Nat
  BY <1>4, FS_CardinalityType
<1> QED
  BY <1>1, <1>5 DEF Contiguous

\* What a scan of any listing returns is a log.
LEMMA ScanType ==
    ASSUME TypeOK, NEW k \in Listings
    PROVE  Scan(k) \in Logs
<1> DEFINE seen == {[idx |-> f.idx, id |-> f.id] : f \in {g \in k : g.idx < Contiguous}}
<1>1. k \subseteq Files
  BY DEF TypeOK, Listings
<1>2. seen \subseteq Entries
  BY <1>1 DEF Files, Entries
<1>3. {x.id : x \in seen} \subseteq Events
  BY <1>2 DEF Entries
<1> HIDE DEF seen
<1>4. [len |-> Contiguous, index |-> seen, ids |-> {x.id : x \in seen}] \in Logs
  BY <1>2, <1>3, ContiguousType DEF Logs
<1> QED
  BY <1>4 DEF Scan, seen

\* What append() knows of the log after its synchronisation is a log.
LEMMA RefreshedType ==
    ASSUME TypeOK, NEW p \in Procs, NEW l \in Refreshed(p)
    PROVE  l \in Logs
<1>1. log[p] \in Logs
  BY DEF TypeOK
<1>2. ASSUME NEW k \in Listings
      PROVE  Synced(log[p], Scan(k)) \in Logs
  <2> DEFINE s == Scan(k)
  <2>1. s \in Logs
    BY ScanType
  <2> HIDE DEF s
  <2>2. {x.id : x \in log[p].index} \subseteq Events
    BY <1>1 DEF Logs, Entries
  <2>3. Synced(log[p], s) \in Logs
    BY <1>1, <2>1, <2>2, ContiguousType DEF Synced, Logs
  <2> QED
    BY <2>3 DEF s
<1> QED
  BY <1>1, <1>2 DEF Refreshed

\* An append that is under way holds the file lock, belongs to an open log and
\* knows its event.
Control ==
    \A p \in Procs :
        /\ pc[p] # "idle" => lock = p /\ p \in open
        /\ pc[p] = "write" => cur[p] \in Inputs

LEMMA ControlInit == Init => TypeOK /\ Control
<1> SUFFICES ASSUME Init PROVE TypeOK /\ Control
  OBVIOUS
<1>1. Empty \in Logs
  BY DEF Empty, Logs
<1>2. files \in SUBSET Files /\ IsFiniteSet(files)
  BY FS_EmptySet DEF Init
<1>3. guarded \in BOOLEAN /\ torn \in BOOLEAN
  BY DEF Init
<1>4. markers \subseteq Nat /\ lock \in Procs \cup {None} /\ owner \in Procs \cup {None} /\ open \subseteq Procs
  BY DEF Init
<1>5. log \in [Procs -> Logs]
  BY <1>1 DEF Init
<1>6. pc \in [Procs -> {"idle", "write", "unmark", "mark"}] /\ cur \in [Procs -> Inputs \cup {None}]
  BY DEF Init
<1>7. Control
  BY DEF Init, Control
<1> QED
  BY <1>2, <1>3, <1>4, <1>5, <1>6, <1>7 DEF TypeOK

LEMMA ControlStep ==
    ASSUME TypeOK, Control, [Next]_vars
    PROVE  TypeOK' /\ Control'
<1>1. CASE UNCHANGED vars
  BY <1>1 DEF vars, TypeOK, Control
<1>2. ASSUME NEW p \in Procs, Step(p)
      PROVE  TypeOK' /\ Control'
  <2>0. log[p] \in Logs /\ log[p].len \in Nat
    BY DEF TypeOK, Logs
  <2>1. ASSUME NEW e \in Events, NEW q \in Events \cup {Root}, Begin(p, [id |-> e, parent |-> q])
        PROVE  TypeOK' /\ Control'
    <3> DEFINE i == [id |-> e, parent |-> q]
    <3>1. i \in Inputs
      BY DEF Inputs
    <3> HIDE DEF i
    <3>2. PICK l \in Refreshed(p) :
             /\ log' = [log EXCEPT ![p] = l]
             /\ \/ UNCHANGED <<lock, pc, cur>>
                \/ /\ lock' = p
                   /\ pc' = [pc EXCEPT ![p] = "write"]
                   /\ cur' = [cur EXCEPT ![p] = i]
      BY <2>1 DEF Begin, i
    <3>3. l \in Logs
      BY RefreshedType
    <3>4. p \in open /\ lock = None /\ UNCHANGED <<files, markers, guarded, owner, open, torn>>
      BY <2>1 DEF Begin
    <3>5. TypeOK'
      BY <3>1, <3>2, <3>3, <3>4 DEF TypeOK
    <3>6. Control'
      BY <3>1, <3>2, <3>4, LogAssumption DEF TypeOK, Control
    <3> QED
      BY <3>5, <3>6
  <2>2. CASE Write(p)
    <3> DEFINE i == log[p].len
               r == {f \in files : f.idx # i \/ f.id # cur[p].id}
               n == [idx |-> i, id |-> cur[p].id, parent |-> cur[p].parent]
               x == [idx |-> i, id |-> cur[p].id]
               l == [len   |-> i + 1,
                     index |-> {y \in log[p].index : y.idx # i} \cup {x},
                     ids   |-> log[p].ids \cup {cur[p].id}]
    <3>1. pc[p] = "write" /\ cur[p] \in Inputs
      BY <2>2 DEF Write, Control
    <3>2. n \in Files /\ x \in Entries /\ cur[p].id \in Events
      BY <2>0, <3>1 DEF Inputs, Files, Entries
    <3>3. IsFiniteSet(r \cup {n})
      <4>1. IsFiniteSet(r)
        <5>1. r \in SUBSET files
          OBVIOUS
        <5> HIDE DEF r
        <5> QED
          BY <5>1, FS_Subset DEF TypeOK
      <4> HIDE DEF r, n
      <4> QED
        BY <4>1, FS_AddElement
    <3>4. l \in Logs
      <4> HIDE DEF x
      <4> QED
        BY <2>0, <3>2 DEF Logs
    <3>5. files' = r \cup {n} /\ log' = [log EXCEPT ![p] = l]
      BY <2>2 DEF Write, NextIdx
    <3>6. files' \in SUBSET Files /\ IsFiniteSet(files')
      <4>1. r \subseteq Files
        BY DEF TypeOK
      <4> HIDE DEF r, n
      <4> QED
        BY <3>2, <3>3, <3>5, <4>1
    <3>7. log' \in [Procs -> Logs]
      <4> HIDE DEF l
      <4> QED
        BY <3>4, <3>5 DEF TypeOK
    <3> HIDE DEF r, n, x, l
    <3>8. TypeOK'
      BY <2>2, <3>6, <3>7 DEF Write, TypeOK
    <3>9. Control'
      BY <2>2 DEF Write, TypeOK, Control
    <3> QED
      BY <3>8, <3>9
  <2>3. CASE WriteFails(p)
    BY <2>3, LogAssumption DEF WriteFails, TypeOK, Control
  <2>4. CASE Unmark(p)
    BY <2>4 DEF Unmark, TypeOK, Control
  <2>5. CASE Mark(p)
    BY <2>0, <2>5, LogAssumption DEF Mark, TypeOK, Control
  <2>6. CASE Open(p)
    <3>1. PICK k \in Listings : log' = [log EXCEPT ![p] = Scan(k)]
      BY <2>6 DEF Open
    <3>2. Scan(k) \in Logs
      BY ScanType
    <3> QED
      BY <2>6, <3>1, <3>2 DEF Open, TypeOK, Control
  <2>7. Empty \in Logs
    BY DEF Empty, Logs
  <2>8. CASE Close(p)
    BY <2>7, <2>8 DEF Close, Gone, TypeOK, Control
  <2>9. CASE Crash(p)
    BY <2>7, <2>9 DEF Crash, Gone, TypeOK, Control
  <2> QED
    BY <1>2, <2>1, <2>2, <2>3, <2>4, <2>5, <2>6, <2>8, <2>9 DEF Step
<1> QED
  BY <1>1, <1>2 DEF Next

\* Every variable keeps its type: in particular the lengths in memory stay
\* natural numbers, whatever the directory holds, and the directory is finite.
THEOREM TypeCorrect == Spec => []TypeOK
<1>1. Init => TypeOK /\ Control
  BY ControlInit
<1>2. TypeOK /\ Control /\ [Next]_vars => (TypeOK /\ Control)'
  BY ControlStep
<1> QED
  BY <1>1, <1>2, PTL DEF Spec

(***************************************************************************)
(* The inductive invariant.                                                *)
(***************************************************************************)
\* The files are numbered from 0 without a gap, and no event is in two of them.
Disk ==
    /\ \A f \in files : f.idx < Count
    /\ \A i \in Nat : i < Count => \E f \in files : f.idx = i
    /\ \A f, g \in files : f.idx = g.idx => f = g
    /\ \A f, g \in files : f.id = g.id => f = g

\* The index l holds exactly the files below its length.
Exact(l) ==
    /\ l.len <= Count
    /\ \A x \in Entries : x \in l.index <=> \E f \in files : f.idx < l.len /\ f.idx = x.idx /\ f.id = x.id
    /\ \A e \in Events : e \in l.ids <=> \E f \in files : f.idx < l.len /\ f.id = e

Memory == \A p \in open : Exact(log[p])

\* Who is about to write has seen the whole directory, as has who has written,
\* and the owner of the lease always has.
Fresh ==
    \A p \in Procs :
        /\ pc[p] = "write" /\ (guarded => owner = p) =>
               /\ log[p].len = Count
               /\ \A f \in files : f.id # cur[p].id
               /\ cur[p].parent # Root => \E f \in files : f.id = cur[p].parent
        /\ pc[p] \in {"unmark", "mark"} => log[p].len = Count
        /\ guarded /\ owner = p /\ p \in open => log[p].len = Count

\* Without a lease the markers are what keeps a writer from going on with a
\* length that is out of date: none but the true one outside an append.
Markers ==
    ~guarded =>
        /\ \A p \in Procs : pc[p] = "unmark" => \A m \in markers : m + 1 = Count
        /\ \A p \in Procs : pc[p] = "mark" => markers = {}
        /\ (\A p \in Procs : pc[p] \notin {"unmark", "mark"}) => \A m \in markers : m = Count

Parents ==
    \A f \in files : f.parent # Root => \E g \in files : g.id = f.parent /\ g.idx < f.idx

Good == Disk /\ Memory /\ Fresh /\ Markers /\ Parents

Inv == TypeOK /\ Control /\ (Regular => Good)

(***************************************************************************)
(* What reading a directory in order returns.                              *)
(***************************************************************************)
\* A listing then drops no file, and the scan ends at the number of files.
LEMMA ListingWhole ==
    ASSUME TypeOK, Disk, NEW k \in Listings
    PROVE  k = files /\ Contiguous = Count
<1>1. k = files
  BY DEF Listings, Disk
<1>2. Count \in Nat
  BY ContiguousType
<1>3. {i \in 0..Count : \A j \in 0..i : j \in Idxs} = 0..(Count - 1)
  <2>1. ASSUME NEW i \in Nat
        PROVE  i \in Idxs <=> i < Count
    BY <1>2 DEF Idxs, Disk, TypeOK, Files
  <2> QED
    BY <1>2, <2>1
<1>4. Cardinality(0..(Count - 1)) = Count
  <2>1. 0 \in Int /\ Count - 1 \in Int
    BY <1>2
  <2> QED
    BY <1>2, <2>1, FS_Interval
<1> QED
  BY <1>1, <1>3, <1>4 DEF Contiguous

\* A scan of the whole directory gives the exact index.
LEMMA ScanExact ==
    ASSUME TypeOK, Disk, NEW k \in Listings
    PROVE  Exact(Scan(k)) /\ Scan(k).len = Count
<1> DEFINE seen == {[idx |-> f.idx, id |-> f.id] : f \in {g \in k : g.idx < Contiguous}}
<1>1. k = files /\ Contiguous = Count /\ Count \in Nat
  BY ListingWhole, ContiguousType
<1>2. \A f \in files : f \in Files /\ f.idx \in Nat /\ f.id \in Events
  BY DEF TypeOK, Files
<1>3. ASSUME NEW x \in Entries
      PROVE  x \in seen <=> \E f \in files : f.idx < Count /\ f.idx = x.idx /\ f.id = x.id
  BY <1>1, <1>2 DEF Entries
<1>4. ASSUME NEW e \in Events
      PROVE  e \in {x.id : x \in seen} <=> \E f \in files : f.idx < Count /\ f.id = e
  <2>1. ASSUME NEW x \in seen
        PROVE  \E f \in files : f.idx < Count /\ f.id = x.id
    BY <1>1
  <2>2. ASSUME NEW f \in files, f.idx < Count
        PROVE  \E x \in seen : x.id = f.id
    <3>1. [idx |-> f.idx, id |-> f.id] \in seen
      BY <1>1, <2>2
    <3> QED
      BY <3>1
  <2> HIDE DEF seen
  <2> QED
    BY <2>1, <2>2
<1> HIDE DEF seen
<1>5. Scan(k) = [len |-> Count, index |-> seen, ids |-> {x.id : x \in seen}]
  BY <1>1 DEF Scan, seen
<1> QED
  BY <1>1, <1>3, <1>4, <1>5 DEF Exact

\* So does a synchronisation: what the index held before is on disk.
LEMMA SyncedExact ==
    ASSUME TypeOK, Disk, NEW l \in Logs, Exact(l), NEW k \in Listings
    PROVE  Exact(Synced(l, Scan(k))) /\ Synced(l, Scan(k)).len = Count
<1> DEFINE s == Scan(k)
<1>1. Exact(s) /\ s.len = Count /\ s \in Logs /\ Count \in Nat
  BY ScanExact, ScanType, ContiguousType
<1> HIDE DEF s
<1>2. \A f \in files : f \in Files /\ f.idx \in Nat /\ f.id \in Events
  BY DEF TypeOK, Files
<1>3. ASSUME NEW x \in l.index
      PROVE  x \in s.index
  <2>1. x \in Entries
    BY DEF Logs
  <2>2. PICK f \in files : f.idx < l.len /\ f.idx = x.idx /\ f.id = x.id
    BY <2>1 DEF Exact
  <2> QED
    BY <1>1, <2>1, <2>2 DEF Exact, Disk
<1>4. s.index \cup {x \in l.index : \A y \in s.index : y.idx # x.idx} = s.index
  BY <1>3
<1>5. s.ids \cup {x.id : x \in l.index} = s.ids
  <2>1. ASSUME NEW x \in s.index
        PROVE  x.id \in s.ids
    BY <1>1, <2>1 DEF Exact, Logs, Entries
  <2> QED
    BY <1>3, <2>1
<1>6. Synced(l, s) = [len |-> Count, index |-> s.index, ids |-> s.ids]
  BY <1>1, <1>4, <1>5 DEF Synced
<1>7. Exact(Synced(l, s)) /\ Synced(l, s).len = Count
  BY <1>1, <1>6 DEF Exact
<1> QED
  BY <1>7 DEF s

\* After append() has looked at the marker and the directory, its index is
\* exact, and complete unless a lease keeps it from writing.
LEMMA RefreshedExact ==
    ASSUME TypeOK, Control, Good, NEW p \in open, lock = None, NEW l \in Refreshed(p)
    PROVE  Exact(l) /\ ((guarded => owner = p) => l.len = Count)
<1>1. p \in Procs /\ log[p] \in Logs /\ log[p].len \in Nat /\ Count \in Nat
  BY ContiguousType DEF TypeOK, Logs
<1>2. Exact(log[p])
  BY DEF Good, Memory
<1>3. CASE UpToDate(log[p])
  <2>1. l = log[p]
    BY <1>3 DEF Refreshed
  <2>2. ASSUME guarded => owner = p
        PROVE  l.len = Count
    <3>1. CASE guarded
      BY <1>1, <2>1, <2>2, <3>1 DEF Good, Fresh
    <3>2. CASE ~guarded
      <4>1. \A m \in markers : m = Count
        BY <3>2, LogAssumption DEF Good, Markers, Control
      <4> QED
        BY <1>1, <1>2, <1>3, <2>1, <4>1 DEF UpToDate, Exact
    <3> QED
      BY <3>1, <3>2
  <2> QED
    BY <1>2, <2>1, <2>2
<1>4. CASE ~UpToDate(log[p])
  <2>1. PICK k \in Listings : l = Synced(log[p], Scan(k))
    BY <1>4 DEF Refreshed
  <2> QED
    BY <1>1, <1>2, <2>1, SyncedExact DEF Good
<1> QED
  BY <1>3, <1>4

(***************************************************************************)
(* The invariant is inductive.                                             *)
(***************************************************************************)
\* An append in order adds one file, at the index that is the length, with an
\* event that was not there.
LEMMA WriteAdds ==
    ASSUME TypeOK, Control, Good, NEW p \in Procs, Write(p)
    PROVE  /\ cur[p] \in Inputs /\ log[p].len = Count /\ Count \in Nat
           /\ files' = files \cup {[idx |-> Count, id |-> cur[p].id, parent |-> cur[p].parent]}
           /\ Count' = Count + 1
           /\ \A f \in files : f.id # cur[p].id
           /\ cur[p].parent # Root => \E f \in files : f.id = cur[p].parent
<1> DEFINE n == [idx |-> Count, id |-> cur[p].id, parent |-> cur[p].parent]
<1>1. cur[p] \in Inputs /\ pc[p] = "write" /\ (guarded => owner = p)
  BY DEF Write, Control
<1>2. /\ log[p].len = Count
      /\ \A f \in files : f.id # cur[p].id
      /\ cur[p].parent # Root => \E f \in files : f.id = cur[p].parent
  BY <1>1 DEF Good, Fresh
<1>3. files' = files \cup {n}
  BY <1>2 DEF Write, NextIdx
<1>4. n \notin files
  BY <1>2
<1>5. IsFiniteSet(files)
  BY DEF TypeOK
<1> HIDE DEF n
<1>6. Cardinality(files \cup {n}) = Cardinality(files) + 1
  BY <1>4, <1>5, FS_AddElement
<1>7. Count' = Count + 1
  BY <1>3, <1>6 DEF Count
<1> QED
  BY <1>1, <1>2, <1>3, <1>7, ContiguousType DEF n

LEMMA WriteGood ==
    ASSUME TypeOK, Control, Good, NEW p \in Procs, Write(p)
    PROVE  Good'
<1> DEFINE n == [idx |-> Count, id |-> cur[p].id, parent |-> cur[p].parent]
<1>1. /\ cur[p] \in Inputs /\ log[p].len = Count /\ Count \in Nat
      /\ files' = files \cup {n}
      /\ Count' = Count + 1
      /\ \A f \in files : f.id # cur[p].id
      /\ cur[p].parent # Root => \E f \in files : f.id = cur[p].parent
  BY WriteAdds
<1>2. n.idx = Count /\ n.id = cur[p].id /\ n.parent = cur[p].parent /\ n.id \in Events
  BY <1>1 DEF Inputs
<1> HIDE DEF n
<1>3. \A f \in files : f.idx \in Nat /\ f.idx < Count /\ f.id \in Events
  BY DEF TypeOK, Files, Good, Disk
<1>4. Disk'
  <2>1. \A f \in files' : f.idx < Count'
    BY <1>1, <1>2, <1>3
  <2>2. \A i \in Nat : i < Count' => \E f \in files' : f.idx = i
    BY <1>1, <1>2 DEF Good, Disk
  <2>3. \A f, g \in files' : f.idx = g.idx => f = g
    BY <1>1, <1>2, <1>3 DEF Good, Disk
  <2>4. \A f, g \in files' : f.id = g.id => f = g
    BY <1>1, <1>2 DEF Good, Disk
  <2> QED
    BY <2>1, <2>2, <2>3, <2>4 DEF Disk
<1>5. ASSUME NEW q \in open, q # p
      PROVE  Exact(log[q])'
  <2>1. log'[q] = log[q] /\ q \in Procs /\ log[q] \in Logs
    BY <1>5 DEF Write, TypeOK
  <2>2. Exact(log[q]) /\ log[q].len \in Nat
    BY <2>1 DEF Good, Memory, Logs
  <2>3. log[q].len <= Count'
    BY <1>1, <2>2 DEF Exact
  <2>4. \A x : (\E f \in files' : f.idx < log[q].len /\ f.idx = x.idx /\ f.id = x.id)
                   <=> (\E f \in files : f.idx < log[q].len /\ f.idx = x.idx /\ f.id = x.id)
    BY <1>1, <1>2, <2>2 DEF Exact
  <2>5. \A e : (\E f \in files' : f.idx < log[q].len /\ f.id = e)
                   <=> (\E f \in files : f.idx < log[q].len /\ f.id = e)
    BY <1>1, <1>2, <2>2 DEF Exact
  <2> QED
    BY <2>1, <2>2, <2>3, <2>4, <2>5 DEF Exact
<1>6. p \in open /\ log[p] \in Logs /\ Exact(log[p])
  BY DEF Write, Control, TypeOK, Good, Memory
<1>7. log'[p] = [len   |-> Count + 1,
                 index |-> {x \in log[p].index : x.idx # Count} \cup {[idx |-> Count, id |-> cur[p].id]},
                 ids   |-> log[p].ids \cup {cur[p].id}]
  BY <1>1 DEF Write, NextIdx, TypeOK
<1>8. Exact(log[p])'
  <2>1. ASSUME NEW x \in Entries
        PROVE  x \in log'[p].index <=> \E f \in files' : f.idx < Count + 1 /\ f.idx = x.idx /\ f.id = x.id
    <3>1. x = [idx |-> Count, id |-> cur[p].id] <=> x.idx = Count /\ x.id = cur[p].id
      BY DEF Entries
    <3>2. x \in log[p].index <=> \E f \in files : f.idx = x.idx /\ f.id = x.id
      BY <1>1, <1>3, <1>6 DEF Exact
    <3>3. (\E f \in files : f.idx = x.idx /\ f.id = x.id) => x.idx # Count
      BY <1>1, <1>3
    <3>4. x \in log'[p].index <=> x \in log[p].index \/ x = [idx |-> Count, id |-> cur[p].id]
      BY <1>7, <3>2, <3>3
    <3>5. (\E f \in files' : f.idx < Count + 1 /\ f.idx = x.idx /\ f.id = x.id)
              <=> \/ \E f \in files : f.idx = x.idx /\ f.id = x.id
                  \/ x.idx = Count /\ x.id = cur[p].id
      BY <1>1, <1>2, <1>3
    <3> QED
      BY <3>1, <3>2, <3>4, <3>5
  <2>2. ASSUME NEW e \in Events
        PROVE  e \in log'[p].ids <=> \E f \in files' : f.idx < Count + 1 /\ f.id = e
    <3>1. e \in log[p].ids <=> \E f \in files : f.id = e
      BY <1>1, <1>3, <1>6 DEF Exact
    <3>2. (\E f \in files' : f.idx < Count + 1 /\ f.id = e)
              <=> (\E f \in files : f.id = e) \/ e = cur[p].id
      BY <1>1, <1>2, <1>3
    <3> QED
      BY <1>7, <3>1, <3>2
  <2>3. log'[p].len = Count + 1 /\ Count' = Count + 1 /\ Count + 1 <= Count + 1
    BY <1>1, <1>7
  <2> QED
    BY <2>1, <2>2, <2>3 DEF Exact
<1>9. Memory'
  <2>1. open' = open
    BY DEF Write
  <2> QED
    BY <1>5, <1>8, <2>1 DEF Memory
<1>10. /\ UNCHANGED <<guarded, owner, open, markers>> /\ pc' = [pc EXCEPT ![p] = "unmark"]
       /\ pc[p] = "write" /\ (guarded => owner = p) /\ pc \in [Procs -> {"idle", "write", "unmark", "mark"}]
       /\ \A q \in Procs : q # p => pc[q] = "idle"
  BY DEF Write, TypeOK, Control
<1>11. Fresh'
  BY <1>1, <1>7, <1>10 DEF Fresh
<1>12. Markers'
  <2>1. ASSUME ~guarded
        PROVE  \A m \in markers : m = Count
    BY <1>10, <2>1 DEF Good, Markers
  <2> QED
    BY <1>1, <1>10, <2>1 DEF Markers, TypeOK
<1>13. Parents'
  <2>1. ASSUME NEW f \in files, f.parent # Root
        PROVE  \E g \in files' : g.id = f.parent /\ g.idx < f.idx
    BY <1>1, <2>1 DEF Good, Parents
  <2>2. ASSUME n.parent # Root
        PROVE  \E g \in files' : g.id = n.parent /\ g.idx < n.idx
    BY <1>1, <1>2, <1>3, <2>2
  <2> QED
    BY <1>1, <2>1, <2>2 DEF Parents
<1> QED
  BY <1>4, <1>9, <1>11, <1>12, <1>13 DEF Good

\* A step that leaves the directory alone keeps what is said of it alone, and
\* what is said of an index that the step leaves alone.
LEMMA SameFiles ==
    ASSUME Good, files' = files
    PROVE  /\ Count' = Count /\ Disk' /\ Parents'
           /\ \A l \in Logs : Exact(l) => Exact(l)'
<1>1. Count' = Count
  BY DEF Count
<1> QED
  BY <1>1 DEF Good, Disk, Parents, Exact

LEMMA BeginGood ==
    ASSUME TypeOK, Control, Good, NEW p \in Procs, NEW e \in Inputs, Begin(p, e)
    PROVE  Good'
<1>1. /\ p \in open /\ pc[p] = "idle" /\ lock = None
      /\ UNCHANGED <<files, markers, guarded, owner, open, torn>>
  BY DEF Begin
<1>2. PICK l \in Refreshed(p) :
         /\ log' = [log EXCEPT ![p] = l]
         /\ \/ UNCHANGED <<lock, pc, cur>>
            \/ /\ Accepts(l, e)
               /\ pc' = [pc EXCEPT ![p] = "write"]
               /\ cur' = [cur EXCEPT ![p] = e]
  BY DEF Begin
<1>3. Exact(l) /\ ((guarded => owner = p) => l.len = Count) /\ l \in Logs
  BY <1>1, RefreshedExact, RefreshedType
<1>4. /\ Count' = Count /\ Disk' /\ Parents' /\ Count \in Nat
      /\ \A m \in Logs : Exact(m) => Exact(m)'
  BY <1>1, SameFiles, ContiguousType
<1>5. \A q \in Procs : log'[q] = IF q = p THEN l ELSE log[q]
  BY <1>2 DEF TypeOK
<1>6. \A q \in Procs : pc[q] = "idle"
  BY <1>1, LogAssumption DEF Control
<1>7. Memory'
  <2>1. ASSUME NEW q \in open
        PROVE  Exact(log[q])'
    <3>1. q \in Procs /\ log[q] \in Logs /\ Exact(log[q])
      BY DEF TypeOK, Good, Memory
    <3>2. CASE q = p
      BY <1>1, <1>3, <1>4, <1>5, <3>1, <3>2 DEF Exact
    <3>3. CASE q # p
      BY <1>1, <1>4, <1>5, <3>1, <3>3 DEF Exact
    <3> QED
      BY <3>2, <3>3
  <2> QED
    BY <1>1, <2>1 DEF Memory
<1>8. Fresh'
  <2>1. ASSUME Accepts(l, e), guarded => owner = p
        PROVE  /\ \A f \in files : f.id # e.id
               /\ e.parent # Root => \E f \in files : f.id = e.parent
    <3>1. \A f \in files : f.idx < l.len /\ f.id \in Events
      BY <1>3, <2>1 DEF TypeOK, Files, Good, Disk
    <3>2. e.id \in Events /\ e.parent \in Events \cup {Root}
      BY DEF Inputs
    <3> QED
      BY <1>3, <2>1, <3>1, <3>2 DEF Accepts, Exact
  <2> QED
    BY <1>1, <1>2, <1>3, <1>4, <1>5, <1>6, <2>1 DEF Good, Fresh, TypeOK
<1>9. Markers'
  BY <1>1, <1>2, <1>4, <1>6 DEF Good, Markers, TypeOK
<1> QED
  BY <1>4, <1>7, <1>8, <1>9 DEF Good

LEMMA OpenGood ==
    ASSUME TypeOK, Control, Good, NEW p \in Procs, Open(p)
    PROVE  Good'
<1>1. /\ p \notin open /\ open' = open \cup {p} /\ (guarded => owner' = p)
      /\ UNCHANGED <<files, markers, lock, guarded, pc, cur, torn>>
  BY DEF Open
<1>2. PICK k \in Listings : log' = [log EXCEPT ![p] = Scan(k)]
  BY DEF Open
<1>3. Exact(Scan(k)) /\ Scan(k).len = Count /\ Scan(k) \in Logs
  BY ScanExact, ScanType DEF Good
<1>4. PICK l \in Logs : l = Scan(k)
  BY <1>3
<1>5. /\ Count' = Count /\ Disk' /\ Parents' /\ Count \in Nat
      /\ \A m \in Logs : Exact(m) => Exact(m)'
  BY <1>1, SameFiles, ContiguousType
<1>6. \A q \in Procs : log'[q] = IF q = p THEN l ELSE log[q]
  BY <1>2, <1>4 DEF TypeOK
<1>7. Exact(l) /\ l.len = Count
  BY <1>3, <1>4
<1>8. Memory'
  <2>1. ASSUME NEW q \in open'
        PROVE  Exact(log[q])'
    <3>1. q \in Procs
      BY <1>1 DEF TypeOK
    <3>2. CASE q = p
      BY <1>1, <1>5, <1>6, <1>7, <3>1, <3>2 DEF Exact
    <3>3. CASE q # p
      BY <1>1, <1>5, <1>6, <3>1, <3>3 DEF Exact, Good, Memory
    <3> QED
      BY <3>2, <3>3
  <2> QED
    BY <2>1 DEF Memory
<1>9. pc[p] = "idle"
  BY <1>1 DEF Control
<1>10. Fresh'
  BY <1>1, <1>5, <1>6, <1>7, <1>9 DEF Good, Fresh
<1>11. Markers'
  BY <1>1, <1>5 DEF Good, Markers
<1> QED
  BY <1>5, <1>8, <1>10, <1>11 DEF Good

\* An append that ends, one way or the other, and a log that is given up.
LEMMA EndGood ==
    ASSUME TypeOK, Control, Good, Regular', NEW p \in Procs,
           WriteFails(p) \/ Unmark(p) \/ Mark(p) \/ Close(p) \/ Crash(p)
    PROVE  Good'
<1>1. /\ files' = files /\ guarded' = guarded
      /\ \A q \in open' : q \in open /\ q \in Procs /\ log'[q] = log[q]
  BY DEF WriteFails, Unmark, Mark, Close, Crash, Gone, TypeOK
<1>2. /\ Count' = Count /\ Disk' /\ Parents' /\ Count \in Nat
  BY <1>1, SameFiles, ContiguousType
<1>3. Memory'
  BY <1>1, <1>2 DEF Good, Memory, Exact
<1>4. log[p].len \in Nat /\ (pc[p] # "idle" => \A q \in Procs : q # p => pc[q] = "idle")
  BY DEF TypeOK, Logs, Control
<1>5. CASE WriteFails(p)
  <2>1. Fresh'
    BY <1>2, <1>5 DEF WriteFails, Good, Fresh, TypeOK
  <2>2. Markers'
    BY <1>2, <1>4, <1>5 DEF WriteFails, Good, Markers, TypeOK
  <2> QED
    BY <1>2, <1>3, <2>1, <2>2 DEF Good
<1>6. CASE Unmark(p)
  <2>1. Fresh'
    BY <1>2, <1>6 DEF Unmark, Good, Fresh, TypeOK
  <2>2. Markers'
    <3>1. ASSUME ~guarded
          PROVE  markers' = {}
      <4>1. log[p].len = Count /\ \A m \in markers : m + 1 = Count
        BY <1>6, <3>1 DEF Unmark, Good, Fresh, Markers
      <4>2. markers' = markers \ {log[p].len - 1}
        BY <1>1, <1>6, <3>1 DEF Unmark, Regular
      <4> QED
        <5>1. \A m \in markers : m \in Nat /\ m = Count - 1
          BY <1>2, <4>1 DEF TypeOK
        <5> QED
          BY <4>1, <4>2, <5>1
    <3> QED
      BY <1>1, <1>4, <1>6, <3>1 DEF Unmark, Markers, TypeOK
  <2> QED
    BY <1>2, <1>3, <2>1, <2>2 DEF Good
<1>7. CASE Mark(p)
  <2>1. Fresh'
    BY <1>2, <1>7 DEF Mark, Good, Fresh, TypeOK
  <2>2. Markers'
    <3>1. ASSUME ~guarded
          PROVE  \A m \in markers' : m = Count
      BY <1>7, <3>1 DEF Mark, Good, Fresh, Markers
    <3> QED
      BY <1>1, <1>2, <1>4, <1>7, <3>1 DEF Mark, Markers, TypeOK
  <2> QED
    BY <1>2, <1>3, <2>1, <2>2 DEF Good
<1>8. CASE Close(p)
  <2>1. pc' = pc /\ cur' = cur /\ markers' = markers /\ pc[p] = "idle"
    BY <1>8 DEF Close
  <2>2. Fresh'
    BY <1>1, <1>2, <1>8, <2>1, LogAssumption DEF Close, Gone, Good, Fresh, TypeOK
  <2>3. Markers'
    BY <1>1, <1>2, <2>1 DEF Good, Markers
  <2> QED
    BY <1>2, <1>3, <2>2, <2>3 DEF Good
<1>9. CASE Crash(p)
  <2>1. Fresh'
    BY <1>1, <1>2, <1>9 DEF Crash, Gone, Good, Fresh, TypeOK
  <2>2. Markers'
    <3>1. ASSUME ~guarded, pc[p] # "idle"
          PROVE  \A m \in markers : m = Count
      <4>1. CASE pc[p] = "unmark"
        <5>1. log[p].len = Count /\ \A m \in markers : m + 1 = Count
          BY <3>1, <4>1 DEF Good, Fresh, Markers
        <5>2. log[p].len - 1 \notin markers
          <6>1. ~torn'
            BY <1>1, <3>1 DEF Regular
          <6>2. torn' = (torn \/ (pc[p] = "unmark" /\ log[p].len - 1 \in markers))
            BY <1>9 DEF Crash
          <6> QED
            BY <4>1, <6>1, <6>2, Zenon
        <5>3. \A m \in markers : m \in Nat /\ m = Count - 1
          BY <1>2, <5>1 DEF TypeOK
        <5> QED
          BY <5>1, <5>2, <5>3
      <4>2. CASE pc[p] = "mark"
        BY <3>1, <4>2 DEF Good, Markers
      <4>3. CASE pc[p] = "write"
        BY <1>4, <3>1, <4>3 DEF Good, Markers
      <4> QED
        BY <3>1, <4>1, <4>2, <4>3 DEF TypeOK
    <3> QED
      BY <1>1, <1>2, <1>4, <1>9, <3>1 DEF Crash, Good, Markers, TypeOK
  <2> QED
    BY <1>2, <1>3, <2>1, <2>2 DEF Good
<1> QED
  BY <1>5, <1>6, <1>7, <1>8, <1>9

LEMMA RegularBefore ==
    ASSUME TypeOK, [Next]_vars, Regular'
    PROVE  Regular
<1>1. guarded' = guarded
  BY DEF Next, Step, Begin, Write, WriteFails, Unmark, Mark, Open, Close, Crash, vars
<1>2. torn => torn'
  BY DEF Next, Step, Begin, Write, WriteFails, Unmark, Mark, Open, Close, Crash, vars
<1> QED
  BY <1>1, <1>2 DEF Regular

LEMMA InvInit == Init => Inv
<1> SUFFICES ASSUME Init PROVE Inv
  OBVIOUS
<1>1. Count = 0
  BY FS_EmptySet DEF Init, Count
<1>2. Disk /\ Memory /\ Markers /\ Parents
  BY <1>1 DEF Init, Disk, Memory, Markers, Parents
<1>3. Fresh
  BY <1>1 DEF Init, Fresh
<1> QED
  BY <1>2, <1>3, ControlInit DEF Inv, Good

LEMMA InvStep ==
    ASSUME Inv, [Next]_vars
    PROVE  Inv'
<1>1. TypeOK /\ Control /\ TypeOK' /\ Control'
  BY ControlStep DEF Inv
<1>2. ASSUME Regular' PROVE Good'
  <2>1. Good
    BY <1>1, <1>2, RegularBefore DEF Inv
  <2>2. CASE UNCHANGED vars
    BY <2>1, <2>2 DEF vars, Good, Disk, Memory, Exact, Fresh, Markers, Parents, Count
  <2>3. ASSUME NEW p \in Procs, Step(p)
        PROVE  Good'
    <3>1. ASSUME NEW e \in Events, NEW q \in Events \cup {Root}, Begin(p, [id |-> e, parent |-> q])
          PROVE  Good'
      <4>1. PICK i \in Inputs : Begin(p, i)
        BY <3>1 DEF Inputs
      <4> QED
        BY <1>1, <2>1, <4>1, BeginGood
    <3> QED
      BY <1>1, <1>2, <2>1, <2>3, <3>1, WriteGood, OpenGood, EndGood DEF Step
  <2> QED
    BY <2>2, <2>3 DEF Next
<1> QED
  BY <1>1, <1>2 DEF Inv

LEMMA Invariance == Spec => []Inv
<1>1. Init => Inv
  BY InvInit
<1>2. Inv /\ [Next]_vars => Inv'
  BY InvStep
<1> QED
  BY <1>1, <1>2, PTL DEF Spec

(***************************************************************************)
(* The theorems.                                                           *)
(***************************************************************************)
\* The log only grows, by one event at the next index, however many processes
\* append to the directory, die in the middle of it or take it over.
THEOREM OnlyGrows == Spec => AppendOnly
<1> DEFINE Grow == Regular => \/ files' = files
                              \/ \E f \in files' : /\ files' = files \cup {f} /\ f.idx = Count
                                                   /\ \A g \in files : g.id # f.id
<1>1. Inv /\ [Next]_vars => [Grow]_vars
  <2> SUFFICES ASSUME Inv, Next, Regular, files' # files
               PROVE  \E f \in files' : /\ files' = files \cup {f} /\ f.idx = Count
                                        /\ \A g \in files : g.id # f.id
    OBVIOUS
  <2>1. PICK p \in Procs : Write(p)
    BY DEF Next, Step, Begin, Write, WriteFails, Unmark, Mark, Open, Close, Crash
  <2>2. /\ files' = files \cup {[idx |-> Count, id |-> cur[p].id, parent |-> cur[p].parent]}
        /\ \A f \in files : f.id # cur[p].id
    BY <2>1, WriteAdds DEF Inv
  <2> QED
    BY <2>2
<1> QED
  BY <1>1, Invariance, PTL DEF Spec, AppendOnly

\* What a process has in memory is a prefix of what is on disk.
THEOREM IndexSound == Spec => []IndexAgrees
<1>1. Inv => IndexAgrees
  <2> SUFFICES ASSUME Inv, Regular, NEW p \in open
               PROVE  /\ log[p].len <= Count
                      /\ \A i \in 0..Count : i < log[p].len <=> \E x \in log[p].index : x.idx = i
                      /\ \A x \in log[p].index : \E f \in files : f.idx = x.idx /\ f.id = x.id
    BY DEF IndexAgrees
  <2>1. Exact(log[p]) /\ Disk /\ TypeOK
    BY DEF Inv, Good, Memory
  <2>2. Count \in Nat /\ log[p] \in Logs /\ log[p].len \in Nat
    BY <2>1, ContiguousType DEF TypeOK, Logs
  <2>3. \A x \in log[p].index : x \in Entries
    BY <2>2 DEF Logs
  <2>4. ASSUME NEW i \in 0..Count, i < log[p].len
        PROVE  \E x \in log[p].index : x.idx = i
    <3>1. PICK f \in files : f.idx = i
      BY <2>1, <2>2, <2>4 DEF Disk, Exact
    <3>2. [idx |-> f.idx, id |-> f.id] \in Entries
      BY <2>1 DEF TypeOK, Files, Entries
    <3>3. [idx |-> f.idx, id |-> f.id] \in log[p].index
      BY <2>1, <2>4, <3>1, <3>2 DEF Exact
    <3> QED
      BY <3>1, <3>3
  <2> QED
    BY <2>1, <2>2, <2>3, <2>4 DEF Exact
<1> QED
  BY <1>1, Invariance, PTL

\* A parent is on disk before any of its children.
THEOREM ParentsSound == Spec => []ParentsPrecede
<1>1. Inv => ParentsPrecede
  BY DEF Inv, Good, Parents, ParentsPrecede
<1> QED
  BY <1>1, Invariance, PTL

(***************************************************************************)
(* The lease of the directory: the fence holds for any number of processes *)
(* on any number of machines.                                              *)
(***************************************************************************)
\* The lease file, when there is one, is the last claimant's.
LeaseIsLastClaim == lease.owner # NoOwner => epochOf[lease.owner] = epoch

\* Claims are numbered: no two processes made the same one.
ClaimsNumbered ==
    /\ \A o \in Owners : epochOf[o] <= epoch
    /\ \A o \in Owners : svc[o] # "none" => epochOf[o] > 0
    /\ \A o, p \in Owners : o # p /\ epochOf[o] = epochOf[p] => epochOf[o] = 0

\* Inside a guarded write the process is open and owns the lease.
GuardHeldByOwner == flock # NoOwner => svc[flock] = "open" /\ Owns(flock)

LeaseInv ==
    /\ LeaseTypeOK
    /\ LeaseIsLastClaim
    /\ ClaimsNumbered
    /\ GuardHeldByOwner
    /\ LastClaimantKeepsLease

USE ConstantsAssumption

\* Every variable keeps its type: no lease operation of conversation_lease.py
\* leaves a lease record or a service phase outside the declared sets.
THEOREM LeaseTypeCorrect == LeaseSpec => []LeaseTypeOK
<1>1. LeaseInit => LeaseTypeOK
  BY DEF LeaseInit, LeaseTypeOK, NoLease, Leases, Statuses, Phases
<1>2. LeaseTypeOK /\ [LeaseNext]_leaseVars => LeaseTypeOK'
  <2> SUFFICES ASSUME LeaseTypeOK, [LeaseNext]_leaseVars PROVE LeaseTypeOK'
    OBVIOUS
  <2> USE DEF LeaseTypeOK, Leases, Statuses, Phases, history
  <2>1. CASE Expire
    BY <2>1 DEF Expire
  <2>2. ASSUME NEW o \in Owners, ProcessStep(o) PROVE LeaseTypeOK'
    <3>1. CASE Boot(o)
      BY <3>1 DEF Boot
    <3>2. ASSUME Claim(o), pending' \in [Owners -> BOOLEAN] PROVE LeaseTypeOK'
      BY <3>2 DEF Claim, NextGeneration
    <3>3. CASE Load(o)
      BY <3>2, <3>3 DEF Load
    <3>4. CASE Recover(o)
      BY <3>2, <3>4 DEF Recover
    <3>5. CASE RecoverOpen(o)
      BY <3>5 DEF RecoverOpen
    <3>6. CASE Build(o)
      BY <3>6 DEF Build
    <3>7. CASE FinishStart(o)
      BY <3>7 DEF FinishStart
    <3>16. CASE StartSave(o)
      BY <3>16 DEF StartSave
    <3>17. CASE SettleStart(o)
      BY <3>17 DEF SettleStart
    <3>8. ASSUME NEW s \in {"running", "idle"}, BeginWrite(o, s) PROVE LeaseTypeOK'
      BY <3>8 DEF BeginWrite
    <3>9. CASE EndWrite(o)
      BY <3>9 DEF EndWrite
    <3>10. CASE WriteRefused(o)
      BY <3>10 DEF WriteRefused
    <3>11. CASE Renew(o)
      BY <3>11 DEF Renew
    <3>12. ASSUME NEW survivor \in BOOLEAN, CloseService(o, survivor) PROVE LeaseTypeOK'
      BY <3>12 DEF CloseService, Released, NoLease
    <3>13. CASE CloseFails(o)
      BY <3>13 DEF CloseFails
    <3>14. CASE LateWrite(o)
      BY <3>14 DEF LateWrite
    <3>15. CASE ProcessDies(o)
      BY <3>15 DEF ProcessDies
    <3> QED
      BY <2>2, <3>1, <3>3, <3>4, <3>5, <3>6, <3>7, <3>8, <3>9, <3>10, <3>11,
         <3>12, <3>13, <3>14, <3>15, <3>16, <3>17 DEF ProcessStep, Start
  <2>3. CASE UNCHANGED leaseVars
    BY <2>3 DEF leaseVars
  <2> QED
    BY <2>1, <2>2, <2>3 DEF LeaseNext
<1> QED
  BY <1>1, <1>2, PTL DEF LeaseSpec

\* The inductive invariant.  The steps below split on the action; Claim and
\* Close are the ones that change who owns the lease.
LEMMA LeaseInvariant == LeaseSpec => []LeaseInv
<1>1. LeaseInit => LeaseInv
  BY DEF LeaseInit, LeaseInv, LeaseTypeOK, NoLease, Leases, Statuses, Phases,
         LeaseIsLastClaim, ClaimsNumbered, GuardHeldByOwner,
         LastClaimantKeepsLease
<1>2. LeaseTypeOK /\ LeaseTypeOK' /\ LeaseInv /\ [LeaseNext]_leaseVars => LeaseInv'
  <2> SUFFICES ASSUME LeaseTypeOK, LeaseTypeOK', LeaseInv, [LeaseNext]_leaseVars PROVE LeaseInv'
    OBVIOUS
  <2> USE DEF LeaseInv, LeaseIsLastClaim, ClaimsNumbered, GuardHeldByOwner,
              LastClaimantKeepsLease, Owns, history
  <2>1. CASE Expire
    BY <2>1 DEF Expire, LeaseTypeOK, Leases
  <2>2. ASSUME NEW o \in Owners, ProcessStep(o) PROVE LeaseInv'
    <3>1. CASE Boot(o)
      BY <3>1 DEF Boot
    <3>2. ASSUME Claim(o) PROVE LeaseInv'
      <4> USE <3>2 DEF Claim
      <4>1. lease'.owner = o /\ lease'.generation = gen'[o] /\ epochOf'[o] = epoch'
        BY DEF LeaseTypeOK, Leases
      <4>2. \A p \in Owners : p # o => /\ epochOf'[p] = epochOf[p]
                                       /\ epochOf'[p] < epoch'
                                       /\ svc'[p] = svc[p]
        BY DEF LeaseTypeOK
      <4>3. LeaseIsLastClaim'
        BY <4>1
      <4>4. ClaimsNumbered'
        BY <4>1, <4>2 DEF LeaseTypeOK
      <4>5. LastClaimantKeepsLease'
        BY <4>1, <4>2
      <4>6. GuardHeldByOwner'
        OBVIOUS
      <4> QED
        BY <4>3, <4>4, <4>5, <4>6
    <3>3. CASE Load(o)
      BY <3>2, <3>3 DEF Load
    <3>4. CASE Recover(o)
      BY <3>2, <3>4 DEF Recover
    <3>5. CASE RecoverOpen(o)
      BY <3>5 DEF RecoverOpen
    <3>6. CASE Build(o)
      BY <3>6 DEF Build, LeaseTypeOK
    <3>7. CASE FinishStart(o)
      BY <3>7 DEF FinishStart, LeaseTypeOK
    <3>16. CASE StartSave(o)
      BY <3>16 DEF StartSave
    <3>17. CASE SettleStart(o)
      BY <3>17 DEF SettleStart, LeaseTypeOK
    <3>8. ASSUME NEW s \in {"running", "idle"}, BeginWrite(o, s) PROVE LeaseInv'
      BY <3>8 DEF BeginWrite, LeaseTypeOK
    <3>9. CASE EndWrite(o)
      BY <3>9 DEF EndWrite, LeaseTypeOK
    <3>10. CASE WriteRefused(o)
      BY <3>10 DEF WriteRefused, LeaseTypeOK
    <3>11. CASE Renew(o)
      BY <3>11 DEF Renew, LeaseTypeOK, Leases
    <3>12. ASSUME NEW survivor \in BOOLEAN, CloseService(o, survivor) PROVE LeaseInv'
      <4> USE <3>12 DEF CloseService, Released
      <4>1. LeaseIsLastClaim'
        BY DEF NoLease, LeaseTypeOK, Leases
      <4>2. ClaimsNumbered'
        BY DEF LeaseTypeOK
      <4>3. GuardHeldByOwner'
        OBVIOUS
      <4>4. ASSUME NEW p \in Owners, svc'[p] # "none", epochOf'[p] = epoch'
            PROVE  lease'.owner = p /\ lease'.generation = gen'[p]
        <5>1. p # o /\ svc[p] # "none" /\ gen'[p] = gen[p] /\ epochOf[p] = epoch
          BY <4>4 DEF LeaseTypeOK
        <5>2. lease.owner = p /\ lease.generation = gen[p]
          BY <5>1
        <5> QED
          BY <5>1, <5>2
      <4> QED
        BY <4>1, <4>2, <4>3, <4>4
    <3>13. CASE CloseFails(o)
      BY <3>13 DEF CloseFails, LeaseTypeOK
    <3>14. CASE LateWrite(o)
      BY <3>14 DEF LateWrite
    <3>15. CASE ProcessDies(o)
      BY <3>15 DEF ProcessDies, LeaseTypeOK
    <3> QED
      BY <2>2, <3>1, <3>3, <3>4, <3>5, <3>6, <3>7, <3>8, <3>9, <3>10, <3>11,
         <3>12, <3>13, <3>14, <3>15, <3>16, <3>17 DEF ProcessStep, Start
  <2>3. CASE UNCHANGED leaseVars
    BY <2>3 DEF leaseVars
  <2> QED
    BY <2>1, <2>2, <2>3 DEF LeaseNext
<1> QED
  BY <1>1, <1>2, LeaseTypeCorrect, PTL DEF LeaseSpec

\* guarded_write and _assert_owner_locked fence: the process inside a guarded
\* write is always the one that claimed last.
THEOREM Fencing == LeaseSpec => []GuardHolderClaimedLast
<1>1. LeaseInv => GuardHolderClaimedLast
  BY DEF LeaseInv, GuardHolderClaimedLast, GuardHeldByOwner, LeaseIsLastClaim, Owns
<1> QED
  BY <1>1, LeaseInvariant, PTL

\* release and claim never take the lease from a service that claimed last and
\* is still loaded.
THEOREM LeaseKept == LeaseSpec => []LastClaimantKeepsLease
<1>1. LeaseInv => LastClaimantKeepsLease
  BY DEF LeaseInv
<1> QED
  BY <1>1, LeaseInvariant, PTL

\* What is loaded and open agrees with the disk; a service being started read
\* what is still on disk.
DiskInv ==
    /\ DiskFollowsLastClaimant
    /\ unfenced = {} =>
         \A o \in Owners : svc[o] = "built" /\ epochOf[o] = epoch => disk = mem[o]

\* The persisted status is the last claimant's, whatever superseded services
\* do, until a thread that outlived close(), or a start() superseded before
\* set_write_guard, saves with no guard.
THEOREM DiskCoherence == LeaseSpec => []DiskFollowsLastClaimant
<1>1. LeaseInit => DiskInv
  BY DEF LeaseInit, DiskInv, DiskFollowsLastClaimant
<1>2. LeaseInv /\ DiskInv /\ [LeaseNext]_leaseVars => DiskInv'
  <2> SUFFICES ASSUME LeaseInv, DiskInv, [LeaseNext]_leaseVars PROVE DiskInv'
    OBVIOUS
  <2> USE DEF DiskInv, DiskFollowsLastClaimant, history
  <2>0. LeaseTypeOK
    BY DEF LeaseInv
  <2>a. \A p \in Owners : Owns(p) => epochOf[p] = epoch
    BY DEF LeaseInv, LeaseIsLastClaim, Owns
  <2>b. \A p \in Owners : svc[p] # "none" => epochOf[p] > 0
    BY DEF LeaseInv, ClaimsNumbered
  <2>c. \A p, q \in Owners : /\ svc[p] # "none" /\ epochOf[p] = epoch
                             /\ svc[q] # "none" /\ epochOf[q] = epoch
                             => p = q
    BY <2>0, <2>b DEF LeaseInv, ClaimsNumbered, LeaseTypeOK
  <2>1. CASE Expire
    BY <2>1 DEF Expire
  <2>2. ASSUME NEW o \in Owners, ProcessStep(o) PROVE DiskInv'
    <3>1. CASE Boot(o)
      BY <3>1 DEF Boot
    <3>2. ASSUME Claim(o) PROVE DiskInv'
      <4>1. \A p \in Owners : p # o => epochOf'[p] < epoch'
        BY <2>0, <3>2 DEF Claim, LeaseTypeOK, LeaseInv, ClaimsNumbered
      <4> QED
        BY <2>0, <3>2, <4>1 DEF Claim, LeaseTypeOK
    <3>3. CASE Load(o)
      BY <3>2, <3>3 DEF Load
    <3>4. CASE Recover(o)
      BY <3>2, <3>4 DEF Recover
    <3>5. CASE RecoverOpen(o)
      BY <3>5 DEF RecoverOpen
    <3>6. CASE Build(o)
      BY <2>0, <3>6 DEF Build, LeaseTypeOK
    <3>7. CASE FinishStart(o)
      BY <2>0, <3>7 DEF FinishStart, LeaseTypeOK
    <3>16. CASE StartSave(o)
      <4>1. CASE epochOf[o] = epoch
        BY <2>0, <2>c, <3>16, <4>1 DEF StartSave, LeaseTypeOK
      <4>2. CASE epochOf[o] # epoch
        BY <3>16, <4>2 DEF StartSave
      <4> QED
        BY <4>1, <4>2
    <3>17. CASE SettleStart(o)
      BY <2>0, <2>a, <2>c, <3>17 DEF SettleStart, LeaseTypeOK
    <3>8. ASSUME NEW s \in {"running", "idle"}, BeginWrite(o, s) PROVE DiskInv'
      BY <2>0, <2>a, <2>c, <3>8 DEF BeginWrite, LeaseTypeOK
    <3>9. CASE EndWrite(o)
      <4>1. svc[o] = "open" /\ epochOf[o] = epoch
        BY <2>a, <3>9 DEF EndWrite, LeaseInv, GuardHeldByOwner
      <4> QED
        BY <2>0, <2>c, <3>9, <4>1 DEF EndWrite, LeaseTypeOK
    <3>10. CASE WriteRefused(o)
      <4>1. epochOf[o] # epoch
        BY <3>10 DEF WriteRefused, LeaseInv, LastClaimantKeepsLease, Owns
      <4> QED
        BY <2>0, <3>10, <4>1 DEF WriteRefused, LeaseTypeOK
    <3>11. CASE Renew(o)
      BY <3>11 DEF Renew
    <3>12. ASSUME NEW survivor \in BOOLEAN, CloseService(o, survivor) PROVE DiskInv'
      BY <2>0, <2>a, <2>c, <3>12 DEF CloseService, LeaseTypeOK
    <3>13. CASE CloseFails(o)
      BY <2>0, <3>13 DEF CloseFails, LeaseTypeOK
    <3>14. CASE LateWrite(o)
      BY <3>14 DEF LateWrite
    <3>15. CASE ProcessDies(o)
      BY <2>0, <3>15 DEF ProcessDies, LeaseTypeOK
    <3> QED
      BY <2>2, <3>1, <3>3, <3>4, <3>5, <3>6, <3>7, <3>8, <3>9, <3>10, <3>11,
         <3>12, <3>13, <3>14, <3>15, <3>16, <3>17 DEF ProcessStep, Start
  <2>3. CASE UNCHANGED leaseVars
    BY <2>3 DEF leaseVars
  <2> QED
    BY <2>1, <2>2, <2>3 DEF LeaseNext
<1>3. DiskInv => DiskFollowsLastClaimant
  BY DEF DiskInv
<1> QED
  BY <1>1, <1>2, <1>3, LeaseInvariant, PTL DEF LeaseSpec
=============================================================================
