------------------------ MODULE ResourceLocksProofs -------------------------
(***************************************************************************)
(* The lock manager for any number of calls, keys, batches and workers:    *)
(* two tools never run on one resource, and the table of locks is exact.   *)
(***************************************************************************)
EXTENDS ResourceLocks, FiniteSetTheorems, SequenceTheorems, TLAPS

\* No lock object stands for two keys.
OneKey == \A j, k \in Keys : locks[j] = locks[k] /\ locks[j] # None => j = k

\* How far a call is with its keys.  A call whose batch was not submitted is new.
Progress ==
    \A c \in Calls :
        /\ BatchOf[c] > batch => pc[c] = "new"
        /\ acquired[c] \subseteq keys[c]
        /\ pc[c] \in Ended \cup {"check"} => acquired[c] = {}
        /\ pc[c] = "run" => acquired[c] = keys[c]

\* The lock a call is asking for is the one in the table, and stays it.
AsksTable ==
    \A c \in Calls :
        IF pc[c] \in Asking
        THEN /\ key[c] \in keys[c] \ acquired[c]
             /\ lock[c] = locks[key[c]] /\ lock[c] # None
        ELSE lock[c] = None

\* A lock is held by a call that has acquired its key, or that was handed the
\* lock and has not run since.
HeldFor ==
    \A l \in Locks :
        holder[l] # None =>
            \E k \in Keys : /\ locks[k] = l
                            /\ \/ k \in acquired[holder[l]]
                               \/ pc[holder[l]] = "wait" /\ key[holder[l]] = k

\* The queue of a lock: calls that wait for it and do not hold it, once each.
QueueExact ==
    \A l \in Locks : \A i \in 1..Len(queue[l]) :
        /\ pc[queue[l][i]] = "wait" /\ lock[queue[l][i]] = l /\ holder[l] # queue[l][i]
        /\ \A j \in 1..Len(queue[l]) : queue[l][i] = queue[l][j] => i = j

\* The lock of a waiting call knows it: remove(me) finds what it removes.
WaiterKnown ==
    \A c \in Calls : pc[c] = "wait" =>
        \/ holder[lock[c]] = c
        \/ \E i \in 1..Len(queue[lock[c]]) : queue[lock[c]][i] = c

Inv ==
    /\ TypeOK /\ OneKey /\ Progress /\ AsksTable /\ HeldFor /\ QueueExact /\ WaiterKnown
    /\ TableExact /\ ReleasesItsOwn

-----------------------------------------------------------------------------
(* What the model's operators do.                                          *)

\* What is left of a queue when its i-th element leaves.
LEMMA LeaveProperties ==
    ASSUME NEW S, NEW q \in Seq(S), NEW i \in 1..Len(q)
    PROVE  /\ Leave(q, i) \in Seq(S)
           /\ Len(Leave(q, i)) = Len(q) - 1
           /\ \A j \in 1..(Len(q) - 1) : Leave(q, i)[j] = IF j < i THEN q[j] ELSE q[j + 1]
<1> DEFINE r == Leave(q, i)
<1>1. Len(q) - 1 \in Nat
  BY LenProperties
<1>2. \A j \in 1..(Len(q) - 1) : j \in 1..Len(q) /\ j + 1 \in 1..Len(q)
  BY LenProperties
<1>3. r \in [1..(Len(q) - 1) -> S]
  BY <1>2, ElementOfSeq DEF Leave
<1>4. r \in Seq(S)
  BY <1>1, <1>3, SeqDef
<1>5. Len(r) = Len(q) - 1
  <2>1. DOMAIN r = 1..Len(r) /\ Len(r) \in Nat
    BY <1>4, LenProperties
  <2>2. DOMAIN r = 1..(Len(q) - 1)
    BY DEF Leave
  <2> QED
    BY <1>1, <2>1, <2>2
<1> QED
  BY <1>4, <1>5 DEF Leave

\* The users of a key are finitely many; with one more or one less, the reference
\* count that goes up or down by one stays exact.
LEMMA UsersCount ==
    ASSUME NEW k, NEW c
    PROVE  /\ IsFiniteSet(Users(k))
           /\ Cardinality(Users(k)) \in Nat
           /\ Cardinality(Users(k)) = 0 <=> Users(k) = {}
           /\ c \notin Users(k) => Cardinality(Users(k) \cup {c}) = Cardinality(Users(k)) + 1
           /\ c \in Users(k) => /\ Cardinality(Users(k) \ {c}) = Cardinality(Users(k)) - 1
                                /\ Cardinality(Users(k)) >= 1
                                /\ Cardinality(Users(k)) = 1 <=> Users(k) = {c}
<1>1. Users(k) \in SUBSET Calls /\ IsFiniteSet(Calls)
  BY ResourceAssumption DEF Users
<1>2. IsFiniteSet(Users(k))
  BY <1>1, FS_Subset
<1>3. Cardinality(Users(k)) \in Nat
  BY <1>2, FS_CardinalityType
<1>4. Cardinality(Users(k)) = 0 <=> Users(k) = {}
  BY <1>2, FS_EmptySet
<1>5. c \notin Users(k) => Cardinality(Users(k) \cup {c}) = Cardinality(Users(k)) + 1
  BY <1>2, FS_AddElement
<1>6. c \in Users(k) => Cardinality(Users(k) \ {c}) = Cardinality(Users(k)) - 1
  BY <1>2, FS_RemoveElement
<1>7. c \in Users(k) => Cardinality(Users(k)) >= 1
  BY <1>3, <1>4
<1>8. c \in Users(k) => (Cardinality(Users(k)) = 1 <=> Users(k) = {c})
  <2> SUFFICES ASSUME c \in Users(k) PROVE Cardinality(Users(k)) = 1 <=> Users(k) = {c}
    OBVIOUS
  <2>1. Cardinality(Users(k)) = 1 <=> \E x : Users(k) = {x}
    BY <1>2, FS_Singleton
  <2> QED
    BY <2>1
<1> QED
  BY <1>2, <1>3, <1>4, <1>5, <1>6, <1>7, <1>8

-----------------------------------------------------------------------------
(* The invariant is inductive.                                             *)

LEMMA InitInv == Init => Inv
<1> SUFFICES ASSUME Init PROVE Inv
  OBVIOUS
<1> USE ResourceAssumption DEF Init
<1>1. TypeOK
  <2>1. queue \in [Locks -> Seq(Calls)]
    BY EmptySeq
  <2> QED
    BY <2>1 DEF TypeOK, Ended, Asking
<1>2. OneKey /\ Progress /\ AsksTable /\ HeldFor /\ ReleasesItsOwn /\ WaiterKnown
  BY DEF OneKey, Progress, AsksTable, HeldFor, ReleasesItsOwn, WaiterKnown, Ended, Asking
<1>3. QueueExact
  <2>1. \A l \in Locks : Len(queue[l]) = 0
    BY EmptySeq
  <2> QED
    BY <2>1 DEF QueueExact
<1>4. TableExact
  <2>1. \A k \in Keys : Users(k) = {}
    BY DEF Users, Asking
  <2> QED
    BY <2>1, FS_EmptySet DEF TableExact
<1> QED
  BY <1>1, <1>2, <1>3, <1>4 DEF Inv

\* A step that leaves the table, and the calls that use it, where they are.
LEMMA QuietStep ==
    ASSUME Inv, TypeOK', Progress', UNCHANGED <<acquired, key, lock, tableVars>>,
           \A c \in Calls : /\ pc'[c] \in Asking <=> pc[c] \in Asking
                            /\ pc[c] \in Asking => pc'[c] = pc[c] /\ keys'[c] = keys[c]
    PROVE  Inv'
<1> USE DEF Inv
<1>1. \A k \in Keys : Users(k)' = Users(k)
  BY DEF Users
<1>2. \A c \in Calls : pc'[c] = "wait" <=> pc[c] = "wait"
  BY DEF Asking
<1>3. OneKey' /\ ReleasesItsOwn'
  BY DEF OneKey, ReleasesItsOwn, tableVars
<1>4. TableExact'
  BY <1>1 DEF TableExact, tableVars
<1>5. AsksTable'
  BY DEF AsksTable, tableVars
<1>6. HeldFor'
  BY <1>2 DEF HeldFor, TypeOK, tableVars
<1>7. QueueExact'
  <2>1. \A l \in Locks : \A i \in 1..Len(queue[l]) : queue[l][i] \in Calls
    BY ElementOfSeq DEF TypeOK
  <2> QED
    BY <1>2, <2>1 DEF QueueExact, tableVars
<1>8. WaiterKnown'
  BY <1>2 DEF WaiterKnown, tableVars
<1> QED
  BY <1>3, <1>4, <1>5, <1>6, <1>7, <1>8

\* The steps of the executor.
LEMMA ExecutorStep ==
    ASSUME Inv,
           \/ Submit \/ Return \/ Cancel \/ Abort
           \/ \E c \in Calls : StartCall(c) \/ Check(c) \/ ToolEnds(c)
    PROVE  Inv'
<1> USE ResourceAssumption DEF Inv
<1>1. CASE Submit
  <2>1. PICK f \in [Batch(batch + 1) -> SUBSET Keys] :
            keys' = [c \in Calls |-> IF c \in Batch(batch + 1) THEN f[c] ELSE keys[c]]
    BY <1>1 DEF Submit
  <2>2. \A c \in Batch(batch + 1) : pc[c] = "new" /\ acquired[c] = {}
    BY DEF Batch, Progress, TypeOK, Ended
  <2>3. TypeOK'
    <3>1. keys' \in [Calls -> SUBSET Keys]
      BY <2>1 DEF TypeOK
    <3>2. pc' \in [Calls -> Asking \cup Ended \cup {"check", "get", "run", "unwind"}]
      <4>1. pc' = [c \in Calls |-> IF c \in Batch(batch + 1) THEN "queued" ELSE pc[c]]
        BY <1>1 DEF Submit
      <4>2. "queued" \in Ended
        BY DEF Ended
      <4> QED
        BY <4>1, <4>2 DEF TypeOK
    <3>3. batch' \in Nat
      BY <1>1 DEF Submit, TypeOK
    <3>4. over' \in BOOLEAN
      BY <1>1, Zenon DEF Submit
    <3> QED
      BY <1>1, <3>1, <3>2, <3>3, <3>4 DEF Submit, TypeOK, tableVars
  <2>4. Progress'
    BY <1>1, <2>1, <2>2 DEF Submit, Progress, TypeOK, Batch, Ended
  <2>5. \A c \in Calls : /\ pc'[c] \in Asking <=> pc[c] \in Asking
                         /\ pc[c] \in Asking => pc'[c] = pc[c] /\ keys'[c] = keys[c]
    BY <1>1, <2>1, <2>2 DEF Submit, Asking
  <2> QED
    BY <1>1, <2>3, <2>4, <2>5, QuietStep DEF Submit
<1>2. CASE Return
  BY <1>2, QuietStep DEF Return, TypeOK, Progress, tableVars
<1>3. CASE Cancel
  BY <1>3, QuietStep DEF Cancel, TypeOK, Progress, tableVars
<1>4. CASE Abort
  <2>1. TypeOK' /\ Progress'
    BY <1>4 DEF Abort, TypeOK, Progress, Ended, tableVars
  <2> QED
    BY <1>4, <2>1, QuietStep DEF Abort, Asking
<1>5. ASSUME NEW c \in Calls, StartCall(c) PROVE Inv'
  <2>1. TypeOK' /\ Progress'
    BY <1>5 DEF StartCall, TypeOK, Progress, Ended, Goto, batchVars, tableVars
  <2> QED
    BY <1>5, <2>1, QuietStep DEF StartCall, Goto, TypeOK, Asking
<1>6. ASSUME NEW c \in Calls, Check(c) PROVE Inv'
  <2>1. TypeOK' /\ Progress'
    BY <1>6 DEF Check, TypeOK, Progress, Ended, Goto, batchVars, tableVars
  <2> QED
    BY <1>6, <2>1, QuietStep DEF Check, Goto, TypeOK, Asking
<1>7. ASSUME NEW c \in Calls, ToolEnds(c) PROVE Inv'
  <2>1. TypeOK' /\ Progress'
    BY <1>7 DEF ToolEnds, TypeOK, Progress, Ended, Goto, batchVars, tableVars
  <2> QED
    BY <1>7, <2>1, QuietStep DEF ToolEnds, Goto, TypeOK, Asking
<1> QED
  BY <1>1, <1>2, <1>3, <1>4, <1>5, <1>6, <1>7

\* _get_lock: a key that nobody uses gets a lock of its own.
LEMMA GetLockStep ==
    ASSUME Inv, NEW c \in Calls, GetLock(c)
    PROVE  Inv'
<1> USE DEF Inv
<1>1. PICK k \in keys[c] \ acquired[c], l \in Locks :
          /\ IF locks[k] = None THEN Fresh(l) ELSE l = locks[k]
          /\ locks' = [locks EXCEPT ![k] = l] /\ lock' = [lock EXCEPT ![c] = l]
          /\ refcounts' = [refcounts EXCEPT ![k] = @ + 1] /\ key' = [key EXCEPT ![c] = k]
  BY DEF GetLock
<1>2. /\ pc[c] = "get" /\ pc' = [pc EXCEPT ![c] = "acquire"]
      /\ UNCHANGED <<batch, over, token, keys, acquired, holder, queue>>
  BY DEF GetLock, Goto, batchVars
<1>3. k \in Keys /\ k \notin acquired[c] /\ l # None /\ c \notin Users(k)
  BY <1>1, <1>2, ResourceAssumption DEF TypeOK, Users, Asking
<1>4. TypeOK'
  BY <1>1, <1>2, <1>3 DEF TypeOK, Asking
<1>5. \A j \in Keys \ {k} : locks'[j] = locks[j] /\ locks[j] # l
  BY <1>1, <1>3 DEF TypeOK, Fresh, OneKey
<1>6. locks'[k] = l /\ (locks[k] = l \/ (Users(k) = {} /\ locks[k] = None /\ Fresh(l)))
  BY <1>1, <1>3 DEF TypeOK, TableExact
<1>7. \A d \in Calls \ {c} : pc'[d] = pc[d] /\ lock'[d] = lock[d] /\ key'[d] = key[d]
  BY <1>1, <1>2 DEF TypeOK
<1>8. pc'[c] = "acquire" /\ lock'[c] = l /\ key'[c] = k
  BY <1>1, <1>2 DEF TypeOK
<1>9. OneKey'
  BY <1>3, <1>5, <1>6 DEF OneKey
<1>10. Progress'
  BY <1>2, <1>7, <1>8 DEF Progress, Ended
<1>11. AsksTable'
  <2> SUFFICES ASSUME NEW d \in Calls
               PROVE  IF pc'[d] \in Asking
                      THEN /\ key'[d] \in keys'[d] \ acquired'[d]
                           /\ lock'[d] = locks'[key'[d]] /\ lock'[d] # None
                      ELSE lock'[d] = None
    BY DEF AsksTable
  <2>1. CASE d = c
    BY <1>1, <1>2, <1>3, <1>6, <1>8, <2>1 DEF Asking
  <2>2. CASE d # c /\ pc[d] \in Asking
    <3>1. key[d] \in Keys /\ key[d] \in keys[d] \ acquired[d] /\ lock[d] = locks[key[d]] /\ lock[d] # None
      BY <2>2 DEF AsksTable, TypeOK
    <3>2. key[d] = k => locks[k] = l
      BY <1>6, <2>2 DEF Users
    <3> QED
      BY <1>2, <1>5, <1>6, <1>7, <2>2, <3>1, <3>2
  <2>3. CASE d # c /\ pc[d] \notin Asking
    BY <1>7, <2>3 DEF AsksTable
  <2> QED
    BY <2>1, <2>2, <2>3
<1>12. HeldFor'
  <2> SUFFICES ASSUME NEW m \in Locks, holder[m] # None
               PROVE  \E j \in Keys : /\ locks'[j] = m
                                      /\ \/ j \in acquired[holder[m]]
                                         \/ pc'[holder[m]] = "wait" /\ key'[holder[m]] = j
    BY <1>2 DEF HeldFor
  <2>1. PICK j \in Keys : /\ locks[j] = m
                          /\ \/ j \in acquired[holder[m]]
                             \/ pc[holder[m]] = "wait" /\ key[holder[m]] = j
    BY DEF HeldFor
  <2>2. locks'[j] = m
    BY <1>5, <1>6, <2>1, ResourceAssumption
  <2>3. pc[holder[m]] = "wait" => pc'[holder[m]] = "wait" /\ key'[holder[m]] = key[holder[m]]
    BY <1>2, <1>7 DEF TypeOK
  <2> QED
    BY <2>1, <2>2, <2>3
<1>13. QueueExact'
  <2>1. \A m \in Locks : \A i \in 1..Len(queue[m]) : queue[m][i] \in Calls /\ queue[m][i] # c
    BY <1>2, ElementOfSeq DEF TypeOK, QueueExact
  <2> QED
    BY <1>2, <1>7, <2>1 DEF QueueExact
<1>14. WaiterKnown'
  BY <1>2, <1>7, <1>8 DEF WaiterKnown
<1>15. ReleasesItsOwn'
  <2> SUFFICES ASSUME NEW d \in Calls, NEW j \in acquired[d]
               PROVE  locks'[j] # None /\ holder[locks'[j]] = d
    BY <1>2 DEF ReleasesItsOwn
  <2>1. j \in Keys /\ locks[j] # None /\ holder[locks[j]] = d
    BY DEF ReleasesItsOwn, TypeOK
  <2> QED
    BY <1>5, <1>6, <2>1
<1>16. TableExact'
  <2>1. Users(k)' = Users(k) \cup {c}
    BY <1>2, <1>7, <1>8 DEF Users, Asking
  <2>2. \A j \in Keys \ {k} : Users(j)' = Users(j)
    BY <1>2, <1>7, <1>8 DEF Users, Asking
  <2>3. refcounts'[k] = Cardinality(Users(k)') /\ locks'[k] # None /\ Users(k)' # {}
    <3>1. refcounts'[k] = refcounts[k] + 1
      BY <1>1, <1>3 DEF TypeOK
    <3>2. Cardinality(Users(k) \cup {c}) = Cardinality(Users(k)) + 1
      BY <1>3, UsersCount
    <3>3. refcounts[k] = Cardinality(Users(k))
      BY <1>3 DEF TableExact
    <3> QED
      BY <1>3, <1>6, <2>1, <3>1, <3>2, <3>3
  <2>4. \A j \in Keys \ {k} : refcounts'[j] = refcounts[j]
    BY <1>1, <1>3 DEF TypeOK
  <2> QED
    BY <1>5, <2>2, <2>3, <2>4 DEF TableExact
<1> QED
  BY <1>4, <1>9, <1>10, <1>11, <1>12, <1>13, <1>14, <1>15, <1>16

\* acquire() has returned True: the call was given the lock it asked for.
LEMMA GotStep ==
    ASSUME Inv, NEW c \in Calls, pc[c] \in {"acquire", "wait"}, Got(c), holder'[lock[c]] = c,
           \A l \in Locks \ {lock[c]} : holder'[l] = holder[l],
           holder[lock[c]] \in {None, c}, holder' \in [Locks -> Calls \cup {None}],
           pc[c] = "wait" => holder[lock[c]] = c,
           UNCHANGED <<batch, over, token, keys, key, locks, refcounts, queue>>
    PROVE  Inv'
<1> USE DEF Inv
<1> DEFINE k == key[c]
           l == lock[c]
<1>1. /\ k \in keys[c] /\ k \notin acquired[c] /\ k \in Keys
      /\ l = locks[k] /\ l # None /\ l \in Locks
  BY DEF AsksTable, TypeOK, Asking
<1>2. /\ acquired'[c] = acquired[c] \cup {k} /\ lock'[c] = None
      /\ pc'[c] \in {"run", "get"} /\ (pc'[c] = "run" => keys[c] = acquired'[c])
      /\ \A d \in Calls \ {c} : pc'[d] = pc[d] /\ lock'[d] = lock[d] /\ acquired'[d] = acquired[d]
  BY DEF Got, Goto, TypeOK
<1>3. TypeOK'
  <2>1. /\ pc' \in [Calls -> Asking \cup Ended \cup {"check", "get", "run", "unwind"}]
        /\ lock' \in [Calls -> Locks \cup {None}]
    BY DEF Got, Goto, TypeOK
  <2>2. acquired' \in [Calls -> SUBSET Keys]
    BY <1>1 DEF Got, TypeOK
  <2> QED
    BY <2>1, <2>2 DEF TypeOK
<1>4. OneKey'
  BY DEF OneKey
<1>5. Progress'
  <2> SUFFICES ASSUME NEW d \in Calls
               PROVE  /\ BatchOf[d] > batch => pc'[d] = "new"
                      /\ acquired'[d] \subseteq keys[d]
                      /\ pc'[d] \in Ended \cup {"check"} => acquired'[d] = {}
                      /\ pc'[d] = "run" => acquired'[d] = keys[d]
    BY DEF Progress
  <2>1. CASE d = c
    BY <1>1, <1>2, <2>1 DEF Progress, Ended
  <2>2. CASE d # c
    BY <1>2, <2>2 DEF Progress
  <2> QED
    BY <2>1, <2>2
<1>6. AsksTable'
  BY <1>2 DEF AsksTable, Asking
<1>7. HeldFor'
  <2> SUFFICES ASSUME NEW m \in Locks, holder'[m] # None
               PROVE  \E j \in Keys : /\ locks[j] = m
                                      /\ \/ j \in acquired'[holder'[m]]
                                         \/ pc'[holder'[m]] = "wait" /\ key[holder'[m]] = j
    BY DEF HeldFor
  <2>1. CASE m = l
    BY <1>1, <1>2, <2>1
  <2>2. CASE m # l
    <3>1. holder'[m] = holder[m]
      BY <2>2
    <3>2. PICK j \in Keys : /\ locks[j] = m
                            /\ \/ j \in acquired[holder[m]]
                               \/ pc[holder[m]] = "wait" /\ key[holder[m]] = j
      BY <3>1 DEF HeldFor
    <3>3. CASE holder[m] = c
      BY <1>1, <1>2, <2>2, <3>1, <3>2, <3>3
    <3>4. CASE holder[m] # c
      <4>1. holder[m] \in Calls \ {c}
        BY <3>1, <3>4 DEF TypeOK
      <4>2. pc'[holder[m]] = pc[holder[m]] /\ acquired'[holder[m]] = acquired[holder[m]]
        BY <4>1, <1>2
      <4> QED
        BY <4>2, <3>1, <3>2
    <3> QED
      BY <3>3, <3>4
  <2> QED
    BY <2>1, <2>2
<1>8. QueueExact'
  <2> SUFFICES ASSUME NEW m \in Locks, NEW i \in 1..Len(queue[m])
               PROVE  /\ pc'[queue[m][i]] = "wait" /\ lock'[queue[m][i]] = m /\ holder'[m] # queue[m][i]
                      /\ \A j \in 1..Len(queue[m]) : queue[m][i] = queue[m][j] => i = j
    BY DEF QueueExact
  <2>1. queue[m][i] \in Calls
    BY ElementOfSeq DEF TypeOK
  <2>2. /\ pc[queue[m][i]] = "wait" /\ lock[queue[m][i]] = m /\ holder[m] # queue[m][i]
        /\ \A j \in 1..Len(queue[m]) : queue[m][i] = queue[m][j] => i = j
    BY DEF QueueExact
  <2>3. queue[m][i] # c
    BY <2>2
  <2> QED
    BY <1>2, <2>1, <2>2, <2>3
<1>9. WaiterKnown'
  <2> SUFFICES ASSUME NEW d \in Calls, pc'[d] = "wait"
               PROVE  \/ holder'[lock'[d]] = d
                      \/ \E i \in 1..Len(queue[lock'[d]]) : queue[lock'[d]][i] = d
    BY DEF WaiterKnown
  <2>1. d # c /\ pc[d] = "wait" /\ lock'[d] = lock[d]
    BY <1>2
  <2>2. lock[d] \in Locks
    BY <2>1 DEF AsksTable, TypeOK, Asking
  <2>3. holder[lock[d]] = d => lock[d] # l
    BY <2>1, ResourceAssumption
  <2> QED
    BY <2>1, <2>2, <2>3 DEF WaiterKnown
<1>10. ReleasesItsOwn'
  <2> SUFFICES ASSUME NEW d \in Calls, NEW j \in acquired'[d]
               PROVE  locks[j] # None /\ holder'[locks[j]] = d
    BY DEF ReleasesItsOwn
  <2>1. CASE d = c /\ j = k
    BY <1>1, <2>1
  <2>2. CASE ~(d = c /\ j = k)
    <3>1. j \in acquired[d] /\ j \in Keys
      BY <1>2, <2>2 DEF TypeOK
    <3>2. locks[j] # None /\ holder[locks[j]] = d /\ locks[j] \in Locks
      BY <3>1 DEF ReleasesItsOwn, TypeOK
    <3>3. locks[j] = l => d = c
      BY <3>2, ResourceAssumption
    <3> QED
      BY <3>2, <3>3
  <2> QED
    BY <2>1, <2>2
<1>11. TableExact'
  <2>1. \A j \in Keys : Users(j)' = Users(j)
    <3> SUFFICES ASSUME NEW j \in Keys, NEW d \in Calls
                 PROVE  (j \in acquired'[d] \/ (pc'[d] \in Asking /\ key[d] = j))
                        <=> (j \in acquired[d] \/ (pc[d] \in Asking /\ key[d] = j))
      BY DEF Users
    <3> QED
      BY <1>2 DEF Asking
  <2> QED
    BY <2>1 DEF TableExact
<1> QED
  BY <1>3, <1>4, <1>5, <1>6, <1>7, <1>8, <1>9, <1>10, <1>11

\* acquire(): the lock is free, or the call queues up behind its holder.
LEMMA AcquireStep ==
    ASSUME Inv, NEW c \in Calls, Acquire(c)
    PROVE  Inv'
<1> USE DEF Inv
<1> DEFINE l == lock[c]
<1>1. /\ pc[c] = "acquire" /\ l \in Locks /\ l # None
      /\ key[c] \in Keys /\ key[c] \notin acquired[c] /\ l = locks[key[c]]
      /\ UNCHANGED <<batch, over, token, keys, key, locks, refcounts>>
  BY DEF Acquire, AsksTable, TypeOK, Asking, batchVars
<1>2. CASE /\ holder[l] = None /\ holder' = [holder EXCEPT ![l] = c]
           /\ Got(c) /\ UNCHANGED queue
  <2>1. holder'[l] = c /\ (\A m \in Locks \ {l} : holder'[m] = holder[m])
        /\ holder' \in [Locks -> Calls \cup {None}]
    BY <1>1, <1>2 DEF TypeOK
  <2> QED
    BY <1>1, <1>2, <2>1, GotStep
<1>3. CASE /\ holder[l] # None /\ queue' = [queue EXCEPT ![l] = Append(@, c)]
           /\ Goto(c, "wait") /\ UNCHANGED <<acquired, lock, holder>>
  <2>1. /\ pc'[c] = "wait" /\ \A d \in Calls \ {c} : pc'[d] = pc[d]
    BY <1>3 DEF Goto, TypeOK
  <2>2. \A m \in Locks \ {l} : queue'[m] = queue[m]
    BY <1>3 DEF TypeOK
  <2>3. /\ queue[l] \in Seq(Calls) /\ queue'[l] = Append(queue[l], c)
        /\ queue'[l] \in Seq(Calls) /\ Len(queue[l]) \in Nat /\ Len(queue'[l]) = Len(queue[l]) + 1
        /\ queue'[l][Len(queue[l]) + 1] = c
        /\ \A i \in 1..Len(queue[l]) : queue'[l][i] = queue[l][i]
    <3>1. queue[l] \in Seq(Calls) /\ queue'[l] = Append(queue[l], c)
      BY <1>1, <1>3 DEF TypeOK
    <3> QED
      BY <3>1, AppendProperties, LenProperties
  <2>4. TypeOK'
    <3>1. \A m \in Locks : queue'[m] \in Seq(Calls)
      BY <2>2, <2>3 DEF TypeOK
    <3>2. queue' \in [Locks -> Seq(Calls)]
      BY <1>3, <3>1 DEF TypeOK
    <3> QED
      BY <1>1, <1>3, <3>2 DEF TypeOK, Goto, Asking
  <2>5. OneKey' /\ ReleasesItsOwn'
    BY <1>1, <1>3 DEF OneKey, ReleasesItsOwn
  <2>6. Progress' /\ AsksTable'
    BY <1>1, <1>3, <2>1 DEF Progress, AsksTable, Asking, Ended
  <2>7. holder[l] # c
    <3> SUFFICES ASSUME holder[l] = c PROVE FALSE
      OBVIOUS
    <3>1. PICK k \in Keys : locks[k] = l /\ (k \in acquired[c] \/ pc[c] = "wait")
      BY <1>1, <1>3 DEF HeldFor
    <3> QED
      BY <1>1, <3>1 DEF OneKey
  <2>8. HeldFor'
    <3>1. \A m \in Locks : holder[m] # None /\ pc[holder[m]] = "wait" => pc'[holder[m]] = "wait"
      BY <2>1 DEF TypeOK
    <3> QED
      BY <1>1, <1>3, <3>1 DEF HeldFor
  <2>9. \A m \in Locks : \A i \in 1..Len(queue[m]) : queue[m][i] \in Calls /\ queue[m][i] # c
    BY <1>1, ElementOfSeq DEF TypeOK, QueueExact
  <2>10. QueueExact'
    <3> SUFFICES ASSUME NEW m \in Locks, NEW i \in 1..Len(queue'[m])
                 PROVE  /\ pc'[queue'[m][i]] = "wait" /\ lock[queue'[m][i]] = m /\ holder[m] # queue'[m][i]
                        /\ \A j \in 1..Len(queue'[m]) : queue'[m][i] = queue'[m][j] => i = j
      BY <1>3 DEF QueueExact
    <3>1. CASE m # l
      BY <2>1, <2>2, <2>9, <3>1 DEF QueueExact
    <3>2. CASE m = l /\ i = Len(queue[l]) + 1
      <4>1. queue'[l][i] = c
        BY <2>3, <3>2
      <4>2. \A j \in 1..Len(queue'[l]) : j \in 1..Len(queue[l]) \/ j = i
        BY <2>3, <3>2
      <4>3. \A j \in 1..Len(queue[l]) : queue'[l][j] # c
        BY <1>1, <2>3, <2>9
      <4> QED
        BY <2>1, <2>7, <3>2, <4>1, <4>2, <4>3
    <3>3. CASE m = l /\ i # Len(queue[l]) + 1
      <4>1. i \in 1..Len(queue[l]) /\ queue'[l][i] = queue[l][i]
        BY <2>3, <3>3
      <4>2. /\ pc[queue[l][i]] = "wait" /\ lock[queue[l][i]] = l /\ holder[l] # queue[l][i]
            /\ \A j \in 1..Len(queue[l]) : queue[l][i] = queue[l][j] => i = j
        BY <1>1, <4>1 DEF QueueExact
      <4>3. \A j \in 1..Len(queue'[l]) : j \in 1..Len(queue[l]) \/ j = Len(queue[l]) + 1
        BY <2>3
      <4> QED
        BY <1>1, <2>1, <2>3, <2>9, <3>3, <4>1, <4>2, <4>3
    <3> QED
      BY <3>1, <3>2, <3>3
  <2>11. WaiterKnown'
    <3> SUFFICES ASSUME NEW d \in Calls, pc'[d] = "wait"
                 PROVE  \/ holder[lock[d]] = d
                        \/ \E i \in 1..Len(queue'[lock[d]]) : queue'[lock[d]][i] = d
      BY <1>3 DEF WaiterKnown
    <3>1. CASE d = c
      BY <2>3, <3>1
    <3>2. CASE d # c
      <4>1. pc[d] = "wait" /\ lock[d] \in Locks
        BY <2>1, <3>2 DEF AsksTable, TypeOK, Asking
      <4>2. \/ holder[lock[d]] = d
            \/ \E i \in 1..Len(queue[lock[d]]) : queue[lock[d]][i] = d
        BY <4>1 DEF WaiterKnown
      <4>3. \A i \in 1..Len(queue[lock[d]]) : /\ i \in 1..Len(queue'[lock[d]])
                                              /\ queue'[lock[d]][i] = queue[lock[d]][i]
        BY <2>2, <2>3, <4>1
      <4> QED
        BY <4>2, <4>3
    <3> QED
      BY <3>1, <3>2
  <2>12. TableExact'
    <3>1. \A k \in Keys : Users(k)' = Users(k)
      BY <1>1, <1>3, <2>1 DEF Users, Asking
    <3> QED
      BY <1>1, <3>1 DEF TableExact
  <2> QED
    BY <2>4, <2>5, <2>6, <2>8, <2>10, <2>11, <2>12
<1> QED
  BY <1>2, <1>3 DEF Acquire

\* A waiting call that was handed the lock runs.
LEMMA WakeUpStep ==
    ASSUME Inv, NEW c \in Calls, WakeUp(c)
    PROVE  Inv'
<1>1. /\ pc[c] = "wait" /\ holder[lock[c]] = c /\ Got(c)
      /\ UNCHANGED <<batch, over, token, keys, key, locks, refcounts, holder, queue>>
  BY DEF WakeUp, batchVars, tableVars
<1>2. holder' \in [Locks -> Calls \cup {None}]
  BY <1>1 DEF Inv, TypeOK
<1> QED
  BY <1>1, <1>2, GotStep

\* acquire() gives up: the call leaves the queue.
LEMMA TimeOutStep ==
    ASSUME Inv, NEW c \in Calls, TimeOut(c)
    PROVE  Inv'
<1> USE DEF Inv
<1> DEFINE l == lock[c]
<1>1. /\ pc[c] = "wait" /\ l \in Locks /\ l # None /\ holder[l] # c
      /\ UNCHANGED <<batch, over, token, keys, acquired, key, lock, locks, refcounts, holder>>
  BY DEF TimeOut, AsksTable, TypeOK, Asking, batchVars
<1>2. PICK i \in 1..Len(queue[l]) : queue[l][i] = c /\ queue' = [queue EXCEPT ![l] = Leave(@, i)]
  BY DEF TimeOut
<1>3. pc'[c] = "undo" /\ \A d \in Calls \ {c} : pc'[d] = pc[d]
  BY DEF TimeOut, Goto, TypeOK
<1>4. \A m \in Locks \ {l} : queue'[m] = queue[m]
  BY <1>2 DEF TypeOK
<1>5. /\ queue[l] \in Seq(Calls) /\ Len(queue[l]) \in Nat
      /\ queue'[l] \in Seq(Calls) /\ Len(queue'[l]) = Len(queue[l]) - 1
      /\ \A j \in 1..(Len(queue[l]) - 1) :
            queue'[l][j] = IF j < i THEN queue[l][j] ELSE queue[l][j + 1]
  <2>1. queue[l] \in Seq(Calls) /\ queue'[l] = Leave(queue[l], i)
    BY <1>1, <1>2 DEF TypeOK
  <2> QED
    BY <2>1, LeaveProperties, LenProperties
<1>6. TypeOK'
  <2>1. queue' \in [Locks -> Seq(Calls)]
    BY <1>2, <1>4, <1>5 DEF TypeOK
  <2>2. pc' \in [Calls -> Asking \cup Ended \cup {"check", "get", "run", "unwind"}]
    BY DEF TimeOut, Goto, TypeOK, Asking
  <2> QED
    BY <1>1, <2>1, <2>2 DEF TypeOK
<1>7. OneKey' /\ ReleasesItsOwn'
  BY <1>1 DEF OneKey, ReleasesItsOwn
<1>8. Progress' /\ AsksTable'
  BY <1>1, <1>3 DEF Progress, AsksTable, Asking, Ended
<1>9. HeldFor'
  <2> SUFFICES ASSUME NEW m \in Locks, holder[m] # None
               PROVE  \E j \in Keys : /\ locks[j] = m
                                      /\ \/ j \in acquired[holder[m]]
                                         \/ pc'[holder[m]] = "wait" /\ key[holder[m]] = j
    BY <1>1 DEF HeldFor
  <2>1. PICK j \in Keys : /\ locks[j] = m
                          /\ \/ j \in acquired[holder[m]]
                             \/ pc[holder[m]] = "wait" /\ key[holder[m]] = j
    BY DEF HeldFor
  <2>2. holder[m] = c => j \in acquired[c]
    <3> SUFFICES ASSUME holder[m] = c, key[c] = j PROVE FALSE
      BY <2>1
    <3> QED
      BY <1>1, <2>1 DEF AsksTable, Asking
  <2> QED
    BY <1>3, <2>1, <2>2 DEF TypeOK
<1>10. QueueExact'
  <2> SUFFICES ASSUME NEW m \in Locks, NEW n \in 1..Len(queue'[m])
               PROVE  /\ pc'[queue'[m][n]] = "wait" /\ lock[queue'[m][n]] = m /\ holder[m] # queue'[m][n]
                      /\ \A j \in 1..Len(queue'[m]) : queue'[m][n] = queue'[m][j] => n = j
    BY <1>1 DEF QueueExact
  <2>1. CASE m # l
    <3>1. /\ queue[m][n] \in Calls /\ lock[queue[m][n]] = m
      BY <1>4, <2>1, ElementOfSeq DEF TypeOK, QueueExact
    <3> QED
      BY <1>3, <1>4, <2>1, <3>1 DEF QueueExact
  <2>2. CASE m = l
    <3> DEFINE from(j) == IF j < i THEN j ELSE j + 1
    <3>1. \A j \in 1..Len(queue'[l]) : /\ from(j) \in 1..Len(queue[l]) /\ from(j) # i
                                       /\ queue'[l][j] = queue[l][from(j)]
      BY <1>2, <1>5
    <3>2. \A j \in 1..Len(queue'[l]) : from(j) = from(n) => j = n
      BY <1>2, <1>5, <2>2
    <3>3. \A j \in 1..Len(queue[l]) :
             /\ queue[l][j] \in Calls
             /\ pc[queue[l][j]] = "wait" /\ lock[queue[l][j]] = l /\ holder[l] # queue[l][j]
             /\ \A p \in 1..Len(queue[l]) : queue[l][j] = queue[l][p] => j = p
      BY <1>1, ElementOfSeq DEF TypeOK, QueueExact
    <3> HIDE DEF from
    <3>4. queue'[l][n] # c
      BY <1>2, <2>2, <3>1, <3>3
    <3>5. pc'[queue'[l][n]] = "wait" /\ lock[queue'[l][n]] = l /\ holder[l] # queue'[l][n]
      <4>1. PICK x \in 1..Len(queue[l]) : queue'[l][n] = queue[l][x]
        BY <2>2, <3>1
      <4>2. /\ queue[l][x] \in Calls /\ pc[queue[l][x]] = "wait"
            /\ lock[queue[l][x]] = l /\ holder[l] # queue[l][x]
        BY <3>3
      <4> QED
        BY <1>3, <3>4, <4>1, <4>2
    <3>6. ASSUME NEW j \in 1..Len(queue'[l]), queue'[l][n] = queue'[l][j] PROVE n = j
      <4>1. /\ from(n) \in 1..Len(queue[l]) /\ queue'[l][n] = queue[l][from(n)]
            /\ from(j) \in 1..Len(queue[l]) /\ queue'[l][j] = queue[l][from(j)]
        BY <2>2, <3>1
      <4>2. from(n) = from(j)
        BY <3>3, <3>6, <4>1
      <4> QED
        BY <3>2, <4>2
    <3> QED
      BY <2>2, <3>5, <3>6
  <2> QED
    BY <2>1, <2>2
<1>11. WaiterKnown'
  <2> SUFFICES ASSUME NEW d \in Calls, pc'[d] = "wait", holder[lock[d]] # d
               PROVE  \E j \in 1..Len(queue'[lock[d]]) : queue'[lock[d]][j] = d
    BY <1>1 DEF WaiterKnown
  <2>1. d # c /\ pc[d] = "wait" /\ lock[d] \in Locks
    BY <1>3 DEF AsksTable, TypeOK, Asking
  <2>2. PICK j \in 1..Len(queue[lock[d]]) : queue[lock[d]][j] = d
    BY <2>1 DEF WaiterKnown
  <2>3. CASE lock[d] # l
    BY <1>4, <2>1, <2>2, <2>3
  <2>4. CASE lock[d] = l /\ j < i
    BY <1>5, <2>2, <2>4
  <2>5. CASE lock[d] = l /\ j > i
    <3>1. j - 1 \in 1..Len(queue'[l]) /\ ~(j - 1 < i) /\ (j - 1) + 1 = j
      BY <1>5, <2>2, <2>5
    <3>2. queue'[l][j - 1] = d
      BY <1>5, <2>2, <2>5, <3>1
    <3> QED
      BY <2>5, <3>1, <3>2
  <2>6. j # i \/ lock[d] # l
    BY <1>2, <2>1, <2>2
  <2>7. i \in Nat /\ (lock[d] = l => j \in Nat)
    BY <1>5, <2>2
  <2> QED
    BY <2>3, <2>4, <2>5, <2>6, <2>7
<1>12. TableExact'
  <2>1. \A k \in Keys : Users(k)' = Users(k)
    BY <1>1, <1>3 DEF Users, Asking
  <2> QED
    BY <1>1, <2>1 DEF TableExact
<1> QED
  BY <1>6, <1>7, <1>8, <1>9, <1>10, <1>11, <1>12

\* A reference to the key is given back: the count stays exact, and the key leaves
\* the table exactly with its last user.
LEMMA UnrefExact ==
    ASSUME Inv, NEW c \in Calls, NEW k \in Keys, NEW b \in BOOLEAN, Unref(k, b),
           c \in Users(k), Users(k) = {c} => ~b,
           Users(k)' = Users(k) \ {c}, \A j \in Keys \ {k} : Users(j)' = Users(j)
    PROVE  /\ TableExact' /\ OneKey'
           /\ locks' \in [Keys -> Locks \cup {None}] /\ refcounts' \in [Keys -> Nat]
           /\ \A j \in Keys : locks'[j] = locks[j] \/ (j = k /\ Users(k) = {c} /\ locks'[k] = None)
<1> USE DEF Inv
<1>1. refcounts[k] = Cardinality(Users(k)) /\ refcounts[k] \in Nat /\ locks[k] # None
  BY DEF TableExact, TypeOK
<1>2. refcounts[k] >= 1 /\ (refcounts[k] = 1 <=> Users(k) = {c})
  BY <1>1, UsersCount
<1>3. /\ refcounts'[k] = refcounts[k] - 1 /\ refcounts'[k] = Cardinality(Users(k)')
      /\ \A j \in Keys \ {k} : refcounts'[j] = refcounts[j]
  <2>1. /\ refcounts'[k] = refcounts[k] - 1
        /\ \A j \in Keys \ {k} : refcounts'[j] = refcounts[j]
    BY DEF Unref, TypeOK
  <2>2. Cardinality(Users(k) \ {c}) = Cardinality(Users(k)) - 1
    BY UsersCount
  <2> QED
    BY <1>1, <2>1, <2>2
<1>4. /\ \A j \in Keys \ {k} : locks'[j] = locks[j]
      /\ locks'[k] = IF Users(k) = {c} THEN None ELSE locks[k]
      /\ locks' \in [Keys -> Locks \cup {None}]
  BY <1>2 DEF Unref, TypeOK
<1>5. refcounts' \in [Keys -> Nat]
  BY <1>1, <1>2 DEF Unref, TypeOK
<1>6. locks'[k] = None <=> Users(k)' = {}
  BY <1>1, <1>4
<1>7. TableExact'
  BY <1>3, <1>4, <1>6 DEF TableExact
<1>8. OneKey'
  BY <1>4 DEF OneKey
<1> QED
  BY <1>4, <1>5, <1>7, <1>8

\* The except clause of lock(): the reference of the failed acquire goes back.
LEMMA UndoStep ==
    ASSUME Inv, NEW c \in Calls, Undo(c)
    PROVE  Inv'
<1> USE DEF Inv
<1> DEFINE k == key[c]
           b == Locked(holder[locks[key[c]]])
<1>1. /\ pc[c] = "undo" /\ k \in Keys /\ k \in keys[c] /\ k \notin acquired[c]
      /\ lock[c] = locks[k] /\ locks[k] \in Locks /\ c \in Users(k)
  BY DEF Undo, AsksTable, TypeOK, Asking, Users
<1>2. /\ Unref(k, b) /\ lock' = [lock EXCEPT ![c] = None]
      /\ UNCHANGED <<batch, over, token, keys, acquired, key, holder, queue>>
  BY DEF Undo, batchVars
<1>3. /\ pc' \in [Calls -> Asking \cup Ended \cup {"check", "get", "run", "unwind"}]
      /\ pc'[c] \in {"done", "unwind"} /\ (pc'[c] = "done" => acquired[c] = {})
      /\ lock' \in [Calls -> Locks \cup {None}] /\ lock'[c] = None
      /\ \A d \in Calls \ {c} : pc'[d] = pc[d] /\ lock'[d] = lock[d]
  BY DEF Undo, Unwind, Goto, TypeOK, Ended
<1>4. Users(k) = {c} => holder[locks[k]] = None
  <2> SUFFICES ASSUME Users(k) = {c}, holder[locks[k]] # None PROVE FALSE
    OBVIOUS
  <2> DEFINE h == holder[locks[k]]
  <2>1. h \in Calls
    BY <1>1 DEF TypeOK
  <2>2. PICK j \in Keys : locks[j] = locks[k] /\ (j \in acquired[h] \/ (pc[h] = "wait" /\ key[h] = j))
    BY <1>1 DEF HeldFor
  <2>3. j = k
    BY <1>1, <2>2, ResourceAssumption DEF OneKey
  <2>4. h \in Users(k)
    BY <2>1, <2>2, <2>3 DEF Users, Asking
  <2> QED
    BY <1>1, <2>2, <2>3, <2>4
<1>5. Users(k)' = Users(k) \ {c} /\ \A j \in Keys \ {k} : Users(j)' = Users(j)
  BY <1>1, <1>2, <1>3 DEF Users, Asking
<1>6. b \in BOOLEAN /\ (Users(k) = {c} => ~b)
  BY <1>4 DEF Locked
<1> HIDE DEF b
<1>7. /\ TableExact' /\ OneKey'
      /\ locks' \in [Keys -> Locks \cup {None}] /\ refcounts' \in [Keys -> Nat]
      /\ \A j \in Keys : locks'[j] = locks[j] \/ (j = k /\ Users(k) = {c} /\ locks'[k] = None)
  BY <1>1, <1>2, <1>5, <1>6, UnrefExact
<1>8. TypeOK'
  BY <1>2, <1>3, <1>7 DEF TypeOK
<1>9. Progress'
  BY <1>1, <1>2, <1>3 DEF Progress, Ended
<1>10. AsksTable'
  <2> SUFFICES ASSUME NEW d \in Calls
               PROVE  IF pc'[d] \in Asking
                      THEN /\ key[d] \in keys[d] \ acquired[d]
                           /\ lock'[d] = locks'[key[d]] /\ lock'[d] # None
                      ELSE lock'[d] = None
    BY <1>2 DEF AsksTable
  <2>1. CASE d = c
    BY <1>3, <2>1 DEF Asking
  <2>2. CASE d # c /\ pc[d] \in Asking
    <3>1. key[d] \in Keys /\ key[d] \in keys[d] \ acquired[d] /\ lock[d] = locks[key[d]] /\ lock[d] # None
      BY <2>2 DEF AsksTable, TypeOK
    <3>2. key[d] = k => d \in Users(k)
      BY <2>2 DEF Users
    <3> QED
      BY <1>3, <1>7, <2>2, <3>1, <3>2
  <2>3. CASE d # c /\ pc[d] \notin Asking
    BY <1>3, <2>3 DEF AsksTable
  <2> QED
    BY <2>1, <2>2, <2>3
<1>11. HeldFor'
  <2> SUFFICES ASSUME NEW m \in Locks, holder[m] # None
               PROVE  \E j \in Keys : /\ locks'[j] = m
                                      /\ \/ j \in acquired[holder[m]]
                                         \/ pc'[holder[m]] = "wait" /\ key[holder[m]] = j
    BY <1>2 DEF HeldFor
  <2>1. PICK j \in Keys : /\ locks[j] = m
                          /\ \/ j \in acquired[holder[m]]
                             \/ pc[holder[m]] = "wait" /\ key[holder[m]] = j
    BY DEF HeldFor
  <2>2. locks'[j] = m
    BY <1>4, <1>7, <2>1
  <2>3. pc[holder[m]] = "wait" => pc'[holder[m]] = "wait"
    BY <1>1, <1>3 DEF TypeOK
  <2> QED
    BY <2>1, <2>2, <2>3
<1>12. QueueExact'
  <2>1. \A m \in Locks : \A i \in 1..Len(queue[m]) : queue[m][i] \in Calls /\ queue[m][i] # c
    BY <1>1, ElementOfSeq DEF TypeOK, QueueExact
  <2> QED
    BY <1>2, <1>3, <2>1 DEF QueueExact
<1>13. WaiterKnown'
  BY <1>2, <1>3 DEF WaiterKnown
<1>14. ReleasesItsOwn'
  <2> SUFFICES ASSUME NEW d \in Calls, NEW j \in acquired[d]
               PROVE  locks'[j] # None /\ holder[locks'[j]] = d
    BY <1>2 DEF ReleasesItsOwn
  <2>1. j \in Keys /\ locks[j] # None /\ holder[locks[j]] = d
    BY DEF ReleasesItsOwn, TypeOK
  <2>2. j = k => d \in Users(k) /\ d # c
    BY <1>1 DEF Users
  <2> QED
    BY <1>7, <2>1, <2>2
<1> QED
  BY <1>7, <1>8, <1>9, <1>10, <1>11, <1>12, <1>13, <1>14

\* _release_lock: the lock is the call's own and passes to the first in its queue.
LEMMA ReleaseStep ==
    ASSUME Inv, NEW c \in Calls, ReleaseLock(c)
    PROVE  Inv'
<1> USE DEF Inv
<1>1. PICK k \in acquired[c] :
          /\ LET l == locks[k]
             IN IF l # None /\ holder[l] = c
                THEN /\ holder' = [holder EXCEPT ![l] = IF queue[l] = <<>> THEN None ELSE Head(queue[l])]
                     /\ queue' = [queue EXCEPT ![l] = IF @ = <<>> THEN @ ELSE Tail(@)]
                     /\ Unref(k, FALSE)
                ELSE UNCHANGED tableVars
          /\ acquired' = [acquired EXCEPT ![c] = @ \ {k}]
          /\ Unwind(c, acquired[c] \ {k})
  BY DEF ReleaseLock
<1> DEFINE l == locks[k]
<1>2. k \in Keys /\ l # None /\ l \in Locks /\ holder[l] = c /\ c \in Users(k)
  BY DEF ReleasesItsOwn, TypeOK, Users
<1>3. /\ holder' = [holder EXCEPT ![l] = IF queue[l] = <<>> THEN None ELSE Head(queue[l])]
      /\ queue' = [queue EXCEPT ![l] = IF @ = <<>> THEN @ ELSE Tail(@)]
      /\ Unref(k, FALSE)
      /\ UNCHANGED <<batch, over, token, keys, key, lock>> /\ pc[c] = "unwind"
  BY <1>1, <1>2 DEF ReleaseLock, batchVars
<1>4. /\ pc' \in [Calls -> Asking \cup Ended \cup {"check", "get", "run", "unwind"}]
      /\ pc'[c] \in {"done", "unwind"} /\ (pc'[c] = "done" => acquired'[c] = {})
      /\ acquired' \in [Calls -> SUBSET Keys] /\ acquired'[c] = acquired[c] \ {k}
      /\ \A d \in Calls \ {c} : pc'[d] = pc[d] /\ acquired'[d] = acquired[d]
  BY <1>1 DEF Unwind, Goto, TypeOK, Ended
<1>5. /\ queue[l] \in Seq(Calls) /\ Len(queue[l]) \in Nat
      /\ \A i \in 1..Len(queue[l]) :
            /\ queue[l][i] \in Calls /\ pc[queue[l][i]] = "wait"
            /\ lock[queue[l][i]] = l /\ queue[l][i] # c /\ key[queue[l][i]] = k
  <2>1. queue[l] \in Seq(Calls) /\ Len(queue[l]) \in Nat
    BY <1>2, LenProperties DEF TypeOK
  <2>2. ASSUME NEW i \in 1..Len(queue[l])
        PROVE  /\ queue[l][i] \in Calls /\ pc[queue[l][i]] = "wait"
               /\ lock[queue[l][i]] = l /\ queue[l][i] # c /\ key[queue[l][i]] = k
    <3>1. queue[l][i] \in Calls /\ pc[queue[l][i]] = "wait" /\ lock[queue[l][i]] = l
      BY <1>2, <2>1, ElementOfSeq DEF QueueExact
    <3>2. key[queue[l][i]] \in Keys /\ locks[key[queue[l][i]]] = l
      BY <3>1 DEF AsksTable, Asking, TypeOK
    <3> QED
      BY <1>2, <1>3, <3>1, <3>2 DEF OneKey
  <2> QED
    BY <2>1, <2>2
<1>6. /\ \A m \in Locks \ {l} : holder'[m] = holder[m] /\ queue'[m] = queue[m]
      /\ holder'[l] = IF queue[l] = <<>> THEN None ELSE queue[l][1]
      /\ queue'[l] \in Seq(Calls)
      /\ Len(queue'[l]) = IF queue[l] = <<>> THEN 0 ELSE Len(queue[l]) - 1
      /\ \A i \in 1..Len(queue'[l]) : i + 1 \in 1..Len(queue[l]) /\ queue'[l][i] = queue[l][i + 1]
  <2>1. /\ \A m \in Locks \ {l} : holder'[m] = holder[m] /\ queue'[m] = queue[m]
        /\ holder'[l] = IF queue[l] = <<>> THEN None ELSE Head(queue[l])
        /\ queue'[l] = IF queue[l] = <<>> THEN queue[l] ELSE Tail(queue[l])
    BY <1>2, <1>3 DEF TypeOK
  <2>2. CASE queue[l] = <<>>
    BY <1>5, <2>1, <2>2, EmptySeq
  <2>3. CASE queue[l] # <<>>
    <3>1. /\ Head(queue[l]) = queue[l][1] /\ Tail(queue[l]) \in Seq(Calls)
          /\ Len(Tail(queue[l])) = Len(queue[l]) - 1
          /\ \A i \in 1..Len(Tail(queue[l])) : Tail(queue[l])[i] = queue[l][i + 1]
      BY <1>5, <2>3, HeadTailProperties
    <3>2. \A i \in 1..(Len(queue[l]) - 1) : i + 1 \in 1..Len(queue[l])
      BY <1>5
    <3> QED
      BY <2>1, <2>3, <3>1, <3>2
  <2> QED
    BY <2>2, <2>3
<1>7. queue[l] # <<>> => /\ 1 \in 1..Len(queue[l]) /\ holder'[l] = queue[l][1] /\ queue[l][1] \in Users(k)
                         /\ queue[l][1] # c
  BY <1>5, <1>6, EmptySeq DEF Users, Asking
<1>8. Users(k)' = Users(k) \ {c} /\ \A j \in Keys \ {k} : Users(j)' = Users(j)
  BY <1>3, <1>4 DEF Users, Asking
<1>9. /\ TableExact' /\ OneKey'
      /\ locks' \in [Keys -> Locks \cup {None}] /\ refcounts' \in [Keys -> Nat]
      /\ \A j \in Keys : locks'[j] = locks[j] \/ (j = k /\ Users(k) = {c} /\ locks'[k] = None)
  BY <1>2, <1>3, <1>8, UnrefExact
<1>10. TypeOK'
  <2>1. holder' \in [Locks -> Calls \cup {None}]
    <3>1. holder'[l] \in Calls \cup {None}
      BY <1>5, <1>6, <1>7
    <3> QED
      BY <1>2, <1>3, <1>6, <3>1 DEF TypeOK
  <2>2. queue' \in [Locks -> Seq(Calls)]
    BY <1>2, <1>3, <1>6 DEF TypeOK
  <2> QED
    BY <1>3, <1>4, <1>9, <2>1, <2>2 DEF TypeOK
<1>11. Progress'
  BY <1>3, <1>4 DEF Progress, Ended
<1>12. AsksTable'
  <2> SUFFICES ASSUME NEW d \in Calls
               PROVE  IF pc'[d] \in Asking
                      THEN /\ key[d] \in keys[d] \ acquired'[d]
                           /\ lock[d] = locks'[key[d]] /\ lock[d] # None
                      ELSE lock[d] = None
    BY <1>3 DEF AsksTable
  <2>1. CASE d = c
    BY <1>3, <1>4, <2>1 DEF AsksTable, Asking
  <2>2. CASE d # c /\ pc[d] \in Asking
    <3>1. key[d] \in Keys /\ key[d] \in keys[d] \ acquired[d] /\ lock[d] = locks[key[d]] /\ lock[d] # None
      BY <2>2 DEF AsksTable, TypeOK
    <3>2. key[d] = k => d \in Users(k)
      BY <2>2 DEF Users
    <3> QED
      BY <1>4, <1>9, <2>2, <3>1, <3>2
  <2>3. CASE d # c /\ pc[d] \notin Asking
    BY <1>4, <2>3 DEF AsksTable
  <2> QED
    BY <2>1, <2>2, <2>3
<1>13. HeldFor'
  <2> SUFFICES ASSUME NEW m \in Locks, holder'[m] # None
               PROVE  \E j \in Keys : /\ locks'[j] = m
                                      /\ \/ j \in acquired'[holder'[m]]
                                         \/ pc'[holder'[m]] = "wait" /\ key[holder'[m]] = j
    BY <1>3 DEF HeldFor
  <2>1. CASE m = l
    <3>1. queue[l] # <<>>
      BY <1>6, <2>1
    <3>2. locks'[k] = l
      BY <1>2, <1>7, <1>9, <3>1
    <3>3. pc'[holder'[l]] = "wait" /\ key[holder'[l]] = k
      BY <1>4, <1>5, <1>7, <3>1
    <3> QED
      BY <1>2, <2>1, <3>2, <3>3
  <2>2. CASE m # l
    <3>1. holder'[m] = holder[m] /\ holder[m] \in Calls
      BY <1>6, <2>2 DEF TypeOK
    <3>2. PICK j \in Keys : /\ locks[j] = m
                            /\ \/ j \in acquired[holder[m]]
                               \/ pc[holder[m]] = "wait" /\ key[holder[m]] = j
      BY <3>1 DEF HeldFor
    <3>3. j # k /\ locks'[j] = m
      BY <1>9, <2>2, <3>2
    <3>4. j \in acquired[holder[m]] => j \in acquired'[holder[m]]
      BY <1>4, <3>1, <3>3
    <3>5. pc[holder[m]] = "wait" => pc'[holder[m]] = "wait"
      BY <1>3, <1>4, <3>1
    <3> QED
      BY <3>1, <3>2, <3>3, <3>4, <3>5
  <2> QED
    BY <2>1, <2>2
<1>14. QueueExact'
  <2> SUFFICES ASSUME NEW m \in Locks, NEW n \in 1..Len(queue'[m])
               PROVE  /\ pc'[queue'[m][n]] = "wait" /\ lock[queue'[m][n]] = m /\ holder'[m] # queue'[m][n]
                      /\ \A j \in 1..Len(queue'[m]) : queue'[m][n] = queue'[m][j] => n = j
    BY <1>3 DEF QueueExact
  <2>1. CASE m # l
    <3>1. queue[m][n] \in Calls /\ queue[m][n] # c
      BY <1>3, <1>6, <2>1, ElementOfSeq DEF TypeOK, QueueExact
    <3> QED
      BY <1>4, <1>6, <2>1, <3>1 DEF QueueExact
  <2>2. CASE m = l
    <3>1. n \in Nat /\ n >= 1 /\ n + 1 \in 1..Len(queue[l]) /\ queue'[l][n] = queue[l][n + 1] /\ queue[l] # <<>>
      BY <1>6, <2>2
    <3>2. \A i, j \in 1..Len(queue[l]) : queue[l][i] = queue[l][j] => i = j
      BY <1>2 DEF QueueExact
    <3>3. pc'[queue'[l][n]] = "wait" /\ lock[queue'[l][n]] = l
      BY <1>4, <1>5, <3>1
    <3>4. holder'[l] # queue'[l][n]
      BY <1>7, <3>1, <3>2
    <3>5. ASSUME NEW j \in 1..Len(queue'[l]), queue'[l][n] = queue'[l][j] PROVE n = j
      <4>1. j + 1 \in 1..Len(queue[l]) /\ queue'[l][j] = queue[l][j + 1] /\ j \in Nat
        BY <1>6
      <4>2. n + 1 = j + 1
        BY <3>1, <3>2, <3>5, <4>1
      <4> QED
        BY <3>1, <4>1, <4>2
    <3> QED
      BY <2>2, <3>3, <3>4, <3>5
  <2> QED
    BY <2>1, <2>2
<1>15. WaiterKnown'
  <2> SUFFICES ASSUME NEW d \in Calls, pc'[d] = "wait", holder'[lock[d]] # d
               PROVE  \E j \in 1..Len(queue'[lock[d]]) : queue'[lock[d]][j] = d
    BY <1>3 DEF WaiterKnown
  <2>1. d # c /\ pc[d] = "wait" /\ lock[d] \in Locks
    BY <1>4 DEF AsksTable, TypeOK, Asking
  <2>2. holder[lock[d]] # d
    BY <1>2, <1>6, <2>1
  <2>3. PICK j \in 1..Len(queue[lock[d]]) : queue[lock[d]][j] = d
    BY <2>1, <2>2 DEF WaiterKnown
  <2>4. CASE lock[d] # l
    BY <1>6, <2>1, <2>3, <2>4
  <2>5. CASE lock[d] = l
    <3>1. j \in 1..Len(queue[l]) /\ queue[l][j] = d /\ Len(queue[l]) \in Nat
      BY <1>5, <2>3, <2>5
    <3>2. queue[l] # <<>>
      BY <3>1, EmptySeq
    <3>3. j # 1
      BY <1>7, <2>5, <3>1, <3>2
    <3>4. Len(queue'[l]) = Len(queue[l]) - 1
      BY <1>6, <3>2
    <3>5. j - 1 \in 1..Len(queue'[l]) /\ (j - 1) + 1 = j
      BY <3>1, <3>3, <3>4
    <3>6. queue'[l][j - 1] = d
      BY <1>6, <3>1, <3>5
    <3> QED
      BY <2>5, <3>5, <3>6
  <2> QED
    BY <2>4, <2>5
<1>16. ReleasesItsOwn'
  <2> SUFFICES ASSUME NEW d \in Calls, NEW j \in acquired'[d]
               PROVE  locks'[j] # None /\ holder'[locks'[j]] = d
    BY DEF ReleasesItsOwn
  <2>1. j \in acquired[d] /\ j \in Keys /\ ~(d = c /\ j = k)
    BY <1>4 DEF TypeOK
  <2>2. locks[j] # None /\ holder[locks[j]] = d /\ locks[j] \in Locks
    BY <2>1 DEF ReleasesItsOwn, TypeOK
  <2>3. locks[j] # l
    BY <1>2, <2>1, <2>2 DEF OneKey
  <2> QED
    BY <1>6, <1>9, <2>1, <2>2, <2>3
<1> QED
  BY <1>9, <1>10, <1>11, <1>12, <1>13, <1>14, <1>15, <1>16

LEMMA InvStep == Inv /\ [Next]_vars => Inv'
<1> SUFFICES ASSUME Inv, [Next]_vars PROVE Inv'
  OBVIOUS
<1>1. CASE UNCHANGED vars
  <2>1. TypeOK' /\ Progress'
    BY <1>1 DEF vars, Inv, TypeOK, Progress
  <2> QED
    BY <1>1, <2>1, QuietStep DEF vars, tableVars
<1>2. CASE Submit \/ Return \/ Cancel \/ Abort
  BY <1>2, ExecutorStep
<1>3. ASSUME NEW c \in Calls, CallStep(c) \/ TimeOut(c) PROVE Inv'
  BY <1>3, ExecutorStep, GetLockStep, AcquireStep, WakeUpStep, TimeOutStep, UndoStep, ReleaseStep
     DEF CallStep
<1> QED
  BY <1>1, <1>2, <1>3 DEF Next

-----------------------------------------------------------------------------

\* The lock manager keeps its invariant.
THEOREM Invariance == Spec => []Inv
  BY InitInv, InvStep, PTL DEF Spec

\* The table of locks is exact and a call releases only what it holds, for any
\* number of calls and keys: ResourceLockManager.lock with its timeouts, and
\* cancelled batches whose threads go on.
THEOREM TableIsSound == Spec => []TableSound
<1>1. Inv => TableSound
  BY DEF Inv, TableSound
<1> QED
  BY <1>1, Invariance, PTL

\* No two running tools share a resource, though the lock of a key may be removed
\* and created again: what parallel_executor.py promises of declared resources.
THEOREM ToolsExclude == Spec => []ExclusiveUse
<1>1. Inv => ExclusiveUse
  <2> SUFFICES ASSUME Inv, NEW c \in Calls, NEW d \in Calls, c # d, pc[c] = "run", pc[d] = "run",
                      NEW k \in keys[c] \cap keys[d]
               PROVE  FALSE
    BY DEF ExclusiveUse
  <2>1. k \in acquired[c] /\ k \in acquired[d]
    BY DEF Inv, Progress
  <2> QED
    BY <2>1 DEF Inv, ReleasesItsOwn
<1> QED
  BY <1>1, Invariance, PTL

\* A call that waits holds the lock it waits for or is in that lock's queue, once
\* and in no other: a timeout always finds what remove(me) is to remove, and a
\* release never passes the lock to a call that has gone.
THEOREM WaitersKnown == Spec => [](WaiterKnown /\ QueueExact)
<1>1. Inv => WaiterKnown /\ QueueExact
  BY DEF Inv
<1> QED
  BY <1>1, Invariance, PTL
=============================================================================
