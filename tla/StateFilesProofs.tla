------------------------- MODULE StateFilesProofs -------------------------
(***************************************************************************)
(* The files a daemon keeps in its state directory, for any number of      *)
(* processes: the ledger of what deleted conversations have spent          *)
(* (SpendArchive), and daemon.lock and daemon.json (DaemonStart).  Each    *)
(* theorem is about one of the two specifications, Spec and StartSpec.     *)
(***************************************************************************)
EXTENDS SpendArchive, DaemonStart, TLAPS

(***************************************************************************)
(* The ledger, with any number of conversations, workers, faults, crashes  *)
(* and purges.                                                             *)
(***************************************************************************)
\* The file lock is held exactly while a deletion is inside its section.
LockHeld == \A c \in Convs : pc[c] \in {"fold", "record"} <=> lock = c

\* A ledger that is right about every conversation: what it has folded in is at
\* most what was spent and falls short of what its process still counts only by
\* what was spent later; the rest is not counted at all.
RightAbout(l, s, o, t) ==
    \A c \in Convs : IF c \in l.folded
                     THEN /\ l.tokens[c] <= s[c] + o[c]
                          /\ s[c] <= l.tokens[c] + t[c]
                     ELSE l.tokens[c] = 0

Right(l) == RightAbout(l, stats, lost, late)

\* The disk never counts more than the process.
SavedBehind == \A c \in Convs : saved[c] <= stats[c]

\* Whatever a deletion has read is right too, and it knows of every fold that
\* has not been erased.
ReadsRight ==
    \A c \in Convs : Right(seen[c]) /\ seen[c].folded \subseteq ledger.folded \cup erased

\* What the holder of the lock writes back loses only what was erased.
Kept(l, m) ==
    /\ \A d \in l.folded \ erased : d \in m.folded /\ m.tokens[d] = l.tokens[d]
    /\ l.unarchived \subseteq m.unarchived \cup erased

HolderReadAll == \A c \in Convs : lock = c => Kept(ledger, seen[c])

Traced(c) == c \in ledger.folded \cup ledger.unarchived \cup erased

\* A deletion comes past the fold only with a trace in the ledger.
TracedBeforeGone == \A c \in Convs : pc[c] \in {"close", "remove"} => Traced(c)

\* The inductive invariant, together with TypeOK.
Inv ==
    /\ LockHeld /\ Right(ledger) /\ ReadsRight /\ HolderReadAll
    /\ SavedBehind /\ TracedBeforeGone /\ DeletionTraced

USE SpendAssumption

LEMMA InitInv == Init => TypeOK /\ Inv
BY DEF Init, TypeOK, Inv, Empty, Ledgers, LockHeld, Right, RightAbout, ReadsRight, HolderReadAll, Kept,
       TracedBeforeGone, SavedBehind, DeletionTraced

\* Forgetting a state takes what was not saved from the count and books it as lost.
LEMMA Forgotten ==
    ASSUME TypeOK, SavedBehind, NEW C, Forget(C)
    PROVE  /\ stats' \in [Convs -> Nat] /\ saved' \in [Convs -> Nat] /\ lost' \in [Convs -> Nat]
           /\ SavedBehind'
           /\ \A c \in Convs : /\ stats'[c] <= stats[c]
                               /\ stats'[c] + lost'[c] = stats[c] + lost[c]
<1>1. \A c \in Convs : /\ stats[c] \in Nat /\ saved[c] \in Nat /\ lost[c] \in Nat
                      /\ saved[c] <= stats[c]
  BY DEF TypeOK, SavedBehind
<1>2. /\ stats' = [c \in Convs |-> IF c \in C THEN saved[c] ELSE stats[c]]
      /\ lost' = [c \in Convs |-> IF c \in C THEN Spent(c) - saved[c] ELSE lost[c]]
      /\ saved' = saved
  BY DEF Forget
<1>3. \A c \in Convs : /\ stats'[c] \in Nat /\ lost'[c] \in Nat /\ saved[c] <= stats'[c]
                      /\ stats'[c] <= stats[c] /\ stats'[c] + lost'[c] = stats[c] + lost[c]
  BY <1>1, <1>2 DEF Spent
<1> QED
  BY <1>2, <1>3 DEF SavedBehind, TypeOK

\* A ledger stays right when nothing more is spent.
LEMMA StillRight ==
    ASSUME TypeOK, SavedBehind, NEW C, Forget(C),
           NEW l \in Ledgers, RightAbout(l, stats, lost, late)
    PROVE  RightAbout(l, stats', lost', late)
<1>1. /\ stats' \in [Convs -> Nat] /\ lost' \in [Convs -> Nat]
      /\ \A c \in Convs : stats'[c] <= stats[c] /\ stats'[c] + lost'[c] = stats[c] + lost[c]
  BY Forgotten
<1>2. l.tokens \in [Convs -> Nat]
  BY DEF Ledgers
<1> QED
  BY <1>1, <1>2 DEF RightAbout, TypeOK

\* Every variable keeps its type; in particular a conversation that is in the
\* catalog has a directory.
LEMMA TypeStep == TypeOK /\ SavedBehind /\ [Next]_vars => TypeOK'
<1> SUFFICES ASSUME TypeOK, SavedBehind, [Next]_vars PROVE TypeOK'
  OBVIOUS
<1> USE DEF TypeOK, Ledgers, Goto, bounds, convVars, usage
<1>1. ASSUME NEW c \in Convs, Run(c) PROVE TypeOK'
  BY <1>1 DEF Run
<1>2. ASSUME NEW c \in Convs, Spend(c) PROVE TypeOK'
  BY <1>2 DEF Spend
<1>3. ASSUME NEW c \in Convs, RunEnds(c) PROVE TypeOK'
  <2>1. /\ running' = [running EXCEPT ![c] = FALSE]
        /\ saved' = [saved EXCEPT ![c] = stats[c]] \/ saved' = saved
        /\ UNCHANGED <<pc, stored, listed, stats, lost, ledger, lock, seen, erased, late>>
    BY <1>3, Zenon DEF RunEnds, SaveBaseState, SaveFails
  <2>2. faults' \in 0..MaxFaults /\ crashes' \in 0..MaxCrashes /\ purges' \in 0..MaxPurges
    BY <1>3 DEF RunEnds, SaveFails, Fault
  <2> QED
    BY <2>1, <2>2
<1>4. ASSUME NEW c \in Convs, Delete(c) PROVE TypeOK'
  BY <1>4 DEF Delete
<1>5. ASSUME NEW c \in Convs, Lock(c) PROVE TypeOK'
  <2>1. CASE pc[c] = "begun" /\ LockLedger(c, "fold")
    BY <1>5, <2>1 DEF Lock, LockLedger
  <2>2. CASE pc[c] = "failed" /\ LockLedger(c, "record")
    BY <1>5, <2>2 DEF Lock, LockLedger
  <2> QED
    BY <1>5, <2>1, <2>2 DEF Lock
<1>6. ASSUME NEW c \in Convs, LockUnreadable(c) PROVE TypeOK'
  BY <1>6 DEF LockUnreadable, Fault, Empty
<1>7. ASSUME NEW c \in Convs, FoldFails(c) PROVE TypeOK'
  BY <1>7 DEF FoldFails, Fault
<1>8. ASSUME NEW c \in Convs, Fold(c) PROVE TypeOK'
  <2>1. Folded(seen[c], c) \in Ledgers
    <3>1. seen[c] \in Ledgers /\ stats[c] \in Nat
      OBVIOUS
    <3>2. seen[c].tokens[c] + stats[c] \in Nat
      BY <3>1
    <3> QED
      BY <3>1, <3>2 DEF Folded
  <2>2. ledger' \in Ledgers
    BY <1>8, <2>1 DEF Fold
  <2> QED
    BY <1>8, <2>2 DEF Fold, Unlock, Empty
<1>9. ASSUME NEW c \in Convs, Record(c) PROVE TypeOK'
  BY <1>9 DEF Record, Unlock, Empty
<1>10. ASSUME NEW c \in Convs, WriteFails(c) PROVE TypeOK'
  BY <1>10 DEF WriteFails, Fault, Unlock, Empty
<1>11. ASSUME NEW c \in Convs, CloseService(c) PROVE TypeOK'
  <2>1. running' \in [Convs -> BOOLEAN]
    BY <1>11, Zenon DEF CloseService
  <2>2. pc' = [pc EXCEPT ![c] = "remove"] \/ pc' = [pc EXCEPT ![c] = "none"]
    BY <1>11, Zenon DEF CloseService
  <2>3. faults' \in 0..MaxFaults /\ crashes' \in 0..MaxCrashes /\ purges' \in 0..MaxPurges
    BY <1>11 DEF CloseService, Fault, SaveBaseState
  <2>4. /\ stored' = stored /\ listed' = listed /\ stats' = stats /\ lost' = lost /\ ledger' = ledger
        /\ lock' = lock /\ seen' = seen /\ erased' = erased /\ late' = late
    BY <1>11, Zenon DEF CloseService
  <2>5. saved' \in [Convs -> Nat]
    <3>1. saved' = saved \/ saved' = [saved EXCEPT ![c] = stats[c]]
      BY <1>11, Zenon DEF CloseService, SaveBaseState
    <3> QED
      BY <3>1
  <2>6. pc' \in [Convs -> {"none", "begun", "fold", "failed", "record", "close", "remove"}]
    BY <2>2
  <2> QED
    BY <2>1, <2>3, <2>4, <2>5, <2>6
<1>12. ASSUME NEW c \in Convs, Remove(c) PROVE TypeOK'
  <2>1. listed' \in [Convs -> BOOLEAN] /\ stored' \in [Convs -> BOOLEAN]
    BY <1>12, Zenon DEF Remove
  <2>2. \A d \in Convs : listed'[d] => stored'[d]
    BY <1>12 DEF Remove
  <2> QED
    BY <1>12, <2>1, <2>2 DEF Remove, Fault
<1>13. ASSUME NEW w \in {Worker[c] : c \in Convs}, Crash(w) PROVE TypeOK'
  <2>1. stats' \in [Convs -> Nat] /\ saved' \in [Convs -> Nat] /\ lost' \in [Convs -> Nat]
    BY <1>13, Forgotten DEF Crash
  <2> QED
    BY <1>13, <2>1 DEF Crash, Empty
<1>14. CASE Purge
  BY <1>14 DEF Purge, Empty
<1>15. ASSUME NEW c \in Convs, Save(c) PROVE TypeOK'
  BY <1>15 DEF Save, SaveBaseState
<1>16. ASSUME NEW c \in Convs, Evict(c) PROVE TypeOK'
  <2>1. stats' \in [Convs -> Nat] /\ saved' \in [Convs -> Nat] /\ lost' \in [Convs -> Nat]
    BY <1>16, Forgotten DEF Evict
  <2> QED
    BY <1>16, <2>1 DEF Evict
<1>17. CASE UNCHANGED vars
  BY <1>17 DEF vars, usage
<1> QED
  BY <1>1, <1>2, <1>3, <1>4, <1>5, <1>6, <1>7, <1>8, <1>9, <1>10, <1>11, <1>12, <1>13,
     <1>14, <1>15, <1>16, <1>17 DEF Next

\* A step that leaves the ledger, what was read and what was spent alone leaves
\* them right.
LEMMA LedgerKept ==
    ASSUME UNCHANGED <<ledger, seen, stats, lost, late, erased>>
    PROVE  /\ Right(ledger) => Right(ledger)'
           /\ ReadsRight => ReadsRight'
           /\ \A c \in Convs : Traced(c)' <=> Traced(c)
BY DEF Right, RightAbout, ReadsRight, Traced

LEMMA InvStep == TypeOK /\ TypeOK' /\ Inv /\ [Next]_vars => Inv'
<1> SUFFICES ASSUME TypeOK, TypeOK', Inv, [Next]_vars PROVE Inv'
  OBVIOUS
<1> USE DEF Goto, bounds, convVars, usage
<1>1. ASSUME NEW c \in Convs, Run(c) PROVE Inv'
  BY <1>1, LedgerKept DEF Run, Inv, LockHeld, HolderReadAll, Kept, TracedBeforeGone,
                          SavedBehind, DeletionTraced, TypeOK, Traced
<1>2. ASSUME NEW c \in Convs, Spend(c) PROVE Inv'
  <2>1. Right(ledger)'
    BY <1>2 DEF Spend, Inv, Right, RightAbout, TypeOK, Ledgers
  <2>2. ReadsRight'
    BY <1>2 DEF Spend, Inv, Right, RightAbout, ReadsRight, TypeOK, Ledgers
  <2> QED
    BY <1>2, <2>1, <2>2 DEF Spend, Inv, LockHeld, HolderReadAll, Kept, TracedBeforeGone,
                            SavedBehind, DeletionTraced, TypeOK, Traced
<1>3. ASSUME NEW c \in Convs, RunEnds(c) PROVE Inv'
  <2>1. /\ saved' = [saved EXCEPT ![c] = stats[c]] \/ saved' = saved
        /\ UNCHANGED <<pc, stored, stats, lost, ledger, lock, seen, erased, late>>
    BY <1>3, Zenon DEF RunEnds, SaveBaseState, SaveFails
  <2>2. SavedBehind'
    BY <2>1 DEF Inv, SavedBehind, TypeOK
  <2> QED
    BY <2>1, <2>2, LedgerKept DEF Inv, LockHeld, HolderReadAll, Kept, TracedBeforeGone,
                                  DeletionTraced, TypeOK, Traced
<1>4. ASSUME NEW c \in Convs, Delete(c) PROVE Inv'
  BY <1>4, LedgerKept DEF Delete, Inv, LockHeld, HolderReadAll, Kept, TracedBeforeGone,
                          SavedBehind, DeletionTraced, TypeOK, Traced
<1>5. ASSUME NEW c \in Convs, Lock(c) PROVE Inv'
  <2>1. lock = None /\ lock' = c /\ seen' = [seen EXCEPT ![c] = ledger] /\ pc[c] \in {"begun", "failed"}
        /\ (pc' = [pc EXCEPT ![c] = "fold"] \/ pc' = [pc EXCEPT ![c] = "record"])
        /\ UNCHANGED <<ledger, stats, saved, lost, late, erased, running, stored>>
    BY <1>5 DEF Lock, LockLedger
  <2>2. Right(ledger)' /\ ReadsRight'
    BY <2>1 DEF Inv, Right, RightAbout, ReadsRight, TypeOK
  <2>3. LockHeld'
    BY <2>1 DEF Inv, LockHeld, TypeOK
  <2>4. HolderReadAll'
    BY <2>1 DEF HolderReadAll, Kept, TypeOK
  <2> QED
    BY <2>1, <2>2, <2>3, <2>4 DEF Inv, TracedBeforeGone, SavedBehind, DeletionTraced,
                                  TypeOK, Traced
<1>6. ASSUME NEW c \in Convs, LockUnreadable(c) PROVE Inv'
  <2>1. lock = None /\ lock' = c /\ seen' = [seen EXCEPT ![c] = Empty] /\ pc[c] \in {"begun", "failed"}
        /\ (pc' = [pc EXCEPT ![c] = "fold"] \/ pc' = [pc EXCEPT ![c] = "record"])
        /\ erased' = erased \cup ledger.folded \cup ledger.unarchived
        /\ UNCHANGED <<ledger, stats, saved, lost, late, running, stored>>
    BY <1>6 DEF LockUnreadable
  <2>2. Right(ledger)' /\ ReadsRight'
    BY <2>1 DEF Inv, Right, RightAbout, ReadsRight, TypeOK, Empty
  <2>3. LockHeld'
    BY <2>1 DEF Inv, LockHeld, TypeOK
  <2>4. HolderReadAll'
    BY <2>1 DEF HolderReadAll, Kept, TypeOK
  <2> QED
    BY <2>1, <2>2, <2>3, <2>4 DEF Inv, TracedBeforeGone, SavedBehind, DeletionTraced,
                                  TypeOK, Traced
<1>7. ASSUME NEW c \in Convs, FoldFails(c) PROVE Inv'
  BY <1>7, LedgerKept DEF FoldFails, Inv, LockHeld, HolderReadAll, Kept, TracedBeforeGone,
                          SavedBehind, DeletionTraced, TypeOK, Traced
<1>8. ASSUME NEW c \in Convs, Fold(c) PROVE Inv'
  <2>1. lock = c
    BY <1>8 DEF Fold, Inv, LockHeld
  <2>2. seen[c] \in Ledgers /\ Right(seen[c]) /\ Kept(ledger, seen[c])
        /\ seen[c].folded \subseteq ledger.folded \cup erased
    BY <2>1 DEF Inv, ReadsRight, HolderReadAll, TypeOK
  <2>3. lock' = None /\ seen' = [seen EXCEPT ![c] = Empty] /\ pc' = [pc EXCEPT ![c] = "close"]
        /\ UNCHANGED <<stats, saved, lost, late, erased, running, stored>>
    BY <1>8 DEF Fold, Unlock
  <2>4. /\ Right(ledger)' /\ Traced(c)'
        /\ \A d \in Convs : Traced(d) => Traced(d)'
        /\ ledger.folded \subseteq ledger'.folded \cup erased
    <3>1. CASE c \in seen[c].folded
      BY <1>8, <2>2, <2>3, <3>1 DEF Fold, Inv, Right, RightAbout, Traced
    <3>2. CASE c \notin seen[c].folded
      <4>1. ledger' = Folded(seen[c], c)
        BY <1>8, <3>2 DEF Fold
      <4>2. /\ ledger'.folded = seen[c].folded \cup {c}
            /\ ledger'.unarchived = seen[c].unarchived
            /\ ledger'.tokens = [seen[c].tokens EXCEPT ![c] = @ + stats[c]]
        BY <4>1, <2>2 DEF Folded, Ledgers
      <4>3. stats[c] \in Nat /\ seen[c].tokens[c] = 0 /\ seen[c].tokens \in [Convs -> Nat]
        BY <2>2, <3>2 DEF TypeOK, Right, RightAbout, Ledgers
      <4>4. ledger'.tokens[c] = stats[c] /\ \A d \in Convs \ {c} : ledger'.tokens[d] = seen[c].tokens[d]
        BY <4>2, <4>3
      <4>5. Right(ledger)'
        BY <2>2, <2>3, <4>2, <4>3, <4>4 DEF Right, RightAbout, TypeOK
      <4> QED
        BY <2>2, <2>3, <4>2, <4>5 DEF Kept, Traced
    <3> QED
      BY <3>1, <3>2
  <2>5. ReadsRight'
    <3> SUFFICES ASSUME NEW d \in Convs
                 PROVE  Right(seen[d])' /\ seen'[d].folded \subseteq ledger'.folded \cup erased'
      BY DEF ReadsRight
    <3>1. CASE d = c
      BY <2>3, <3>1 DEF Right, RightAbout, TypeOK, Empty
    <3>2. CASE d # c
      <4>1. seen'[d] = seen[d]
        BY <2>3, <3>2 DEF TypeOK
      <4>2. Right(seen[d]) /\ seen[d].folded \subseteq ledger.folded \cup erased
        BY DEF Inv, ReadsRight
      <4>3. Right(seen[d])'
        BY <2>3, <4>1, <4>2 DEF Right, RightAbout
      <4>4. ledger.folded \subseteq ledger'.folded \cup erased /\ erased' = erased
        BY <2>3, <2>4
      <4>5. seen'[d].folded \subseteq ledger'.folded \cup erased'
        BY <4>1, <4>2, <4>4
      <4> QED
        BY <4>3, <4>5
    <3> QED
      BY <3>1, <3>2
  <2>6. LockHeld'
    BY <2>1, <2>3 DEF Inv, LockHeld, TypeOK
  <2>7. HolderReadAll'
    BY <2>3 DEF HolderReadAll
  <2> QED
    BY <2>3, <2>4, <2>5, <2>6, <2>7 DEF Inv, TracedBeforeGone, SavedBehind,
                                        DeletionTraced, TypeOK, Traced
<1>9. ASSUME NEW c \in Convs, Record(c) PROVE Inv'
  <2>1. lock = c
    BY <1>9 DEF Record, Inv, LockHeld
  <2>2. seen[c] \in Ledgers /\ Right(seen[c]) /\ Kept(ledger, seen[c])
        /\ seen[c].folded \subseteq ledger.folded \cup erased
    BY <2>1 DEF Inv, ReadsRight, HolderReadAll, TypeOK
  <2>3. lock' = None /\ seen' = [seen EXCEPT ![c] = Empty] /\ pc' = [pc EXCEPT ![c] = "close"]
        /\ UNCHANGED <<stats, saved, lost, late, erased, running, stored>>
    BY <1>9 DEF Record, Unlock
  <2>4. /\ ledger'.folded = seen[c].folded
        /\ ledger'.unarchived = seen[c].unarchived \cup {c}
        /\ ledger'.tokens = seen[c].tokens
    BY <1>9, <2>2 DEF Record, Ledgers
  <2>5. /\ Right(ledger)' /\ Traced(c)'
        /\ \A d \in Convs : Traced(d) => Traced(d)'
        /\ ledger.folded \subseteq ledger'.folded \cup erased
    BY <2>2, <2>3, <2>4 DEF Right, RightAbout, Kept, Traced
  <2>6. ReadsRight'
    <3> SUFFICES ASSUME NEW d \in Convs
                 PROVE  Right(seen[d])' /\ seen'[d].folded \subseteq ledger'.folded \cup erased'
      BY DEF ReadsRight
    <3>1. CASE d = c
      BY <2>3, <3>1 DEF Right, RightAbout, TypeOK, Empty
    <3>2. CASE d # c
      <4>1. seen'[d] = seen[d]
        BY <2>3, <3>2 DEF TypeOK
      <4>2. Right(seen[d]) /\ seen[d].folded \subseteq ledger.folded \cup erased
        BY DEF Inv, ReadsRight
      <4>3. Right(seen[d])'
        BY <2>3, <4>1, <4>2 DEF Right, RightAbout
      <4>4. ledger.folded \subseteq ledger'.folded \cup erased /\ erased' = erased
        BY <2>3, <2>5
      <4>5. seen'[d].folded \subseteq ledger'.folded \cup erased'
        BY <4>1, <4>2, <4>4
      <4> QED
        BY <4>3, <4>5
    <3> QED
      BY <3>1, <3>2
  <2>7. LockHeld'
    BY <2>1, <2>3 DEF Inv, LockHeld, TypeOK
  <2>8. HolderReadAll'
    BY <2>3 DEF HolderReadAll
  <2> QED
    BY <2>3, <2>5, <2>6, <2>7, <2>8 DEF Inv, TracedBeforeGone, SavedBehind,
                                        DeletionTraced, TypeOK, Traced
<1>10. ASSUME NEW c \in Convs, WriteFails(c) PROVE Inv'
  <2>1. lock = c
    BY <1>10 DEF WriteFails, Inv, LockHeld
  <2>2. lock' = None /\ seen' = [seen EXCEPT ![c] = Empty] /\ pc[c] \in {"fold", "record"}
        /\ (pc' = [pc EXCEPT ![c] = "failed"] \/ pc' = [pc EXCEPT ![c] = "none"])
        /\ UNCHANGED <<ledger, stats, saved, lost, late, erased, running, stored>>
    BY <1>10 DEF WriteFails, Unlock
  <2>3. Right(ledger)' /\ ReadsRight'
    BY <2>2 DEF Inv, Right, RightAbout, ReadsRight, TypeOK, Empty
  <2>4. LockHeld'
    BY <2>1, <2>2 DEF Inv, LockHeld, TypeOK
  <2>5. HolderReadAll'
    BY <2>2 DEF HolderReadAll
  <2> QED
    BY <2>2, <2>3, <2>4, <2>5 DEF Inv, TracedBeforeGone, SavedBehind, DeletionTraced,
                                  TypeOK, Traced
<1>11. ASSUME NEW c \in Convs, CloseService(c) PROVE Inv'
  <2>1. pc[c] = "close" /\ UNCHANGED <<ledger, seen, stats, lost, late, erased, stored, lock>>
    BY <1>11 DEF CloseService
  <2>2. saved' = saved \/ saved' = [saved EXCEPT ![c] = stats[c]]
    BY <1>11, Zenon DEF CloseService, SaveBaseState
  <2>3. SavedBehind'
    BY <2>1, <2>2 DEF Inv, SavedBehind, TypeOK
  <2>4. pc' \in {[pc EXCEPT ![c] = "remove"], [pc EXCEPT ![c] = "none"]}
    BY <1>11, Zenon DEF CloseService
  <2> QED
    BY <2>1, <2>3, <2>4, LedgerKept DEF Inv, LockHeld, HolderReadAll, Kept, TracedBeforeGone,
                                        DeletionTraced, TypeOK, Traced
<1>12. ASSUME NEW c \in Convs, Remove(c) PROVE Inv'
  <2>1. pc[c] = "remove" /\ pc' = [pc EXCEPT ![c] = "none"]
        /\ UNCHANGED <<ledger, seen, stats, saved, lost, late, erased, lock, running>>
    BY <1>12 DEF Remove
  <2>2. stored' = [stored EXCEPT ![c] = FALSE] \/ stored' = stored
    BY <1>12, Zenon DEF Remove
  <2>3. DeletionTraced'
    <3>1. \A d \in Convs \ {c} : stored'[d] = stored[d]
      BY <2>2, Zenon DEF TypeOK
    <3>2. Traced(c)
      BY <2>1 DEF Inv, TracedBeforeGone
    <3> QED
      BY <2>1, <3>1, <3>2 DEF Inv, DeletionTraced, Traced
  <2> QED
    BY <2>1, <2>3, LedgerKept DEF Inv, LockHeld, HolderReadAll, Kept, TracedBeforeGone,
                                  SavedBehind, TypeOK, Traced
<1>13. ASSUME NEW w \in {Worker[c] : c \in Convs}, Crash(w) PROVE Inv'
  <2>1. UNCHANGED <<ledger, late, erased, stored>>
    BY <1>13 DEF Crash
  <2>2. \A c \in Convs : IF Worker[c] = w
                        THEN pc'[c] = "none" /\ seen'[c] = Empty
                        ELSE pc'[c] = pc[c] /\ seen'[c] = seen[c]
    BY <1>13 DEF Crash
  <2>3. \A c \in Convs : lock' = c <=> lock = c /\ Worker[c] # w
    BY <1>13 DEF Crash, TypeOK
  <2>4. PICK C : Forget(C)
    BY <1>13 DEF Crash
  <2>5. Right(ledger)' /\ ReadsRight' /\ SavedBehind'
    <3>1. /\ stats' \in [Convs -> Nat] /\ lost' \in [Convs -> Nat] /\ SavedBehind'
          /\ \A c \in Convs : stats'[c] <= stats[c] /\ stats'[c] + lost'[c] = stats[c] + lost[c]
      BY <2>4, Forgotten DEF Inv
    <3>2. /\ ledger \in Ledgers /\ seen \in [Convs -> Ledgers]
          /\ stats \in [Convs -> Nat] /\ lost \in [Convs -> Nat] /\ late \in [Convs -> Nat]
      BY DEF TypeOK
    <3>3. RightAbout(ledger, stats', lost', late)
      <4>1. RightAbout(ledger, stats, lost, late) /\ SavedBehind
        BY DEF Inv, Right
      <4> QED
        BY <2>4, <3>2, <4>1, StillRight
    <3>4. \A c \in Convs : RightAbout(seen[c], stats', lost', late)
      <4>1. SavedBehind /\ \A c \in Convs : RightAbout(seen[c], stats, lost, late)
        BY DEF Inv, ReadsRight, Right
      <4> QED
        BY <2>4, <3>2, <4>1, StillRight
    <3>5. \A c \in Convs : RightAbout(Empty, stats', lost', late)
      BY DEF RightAbout, Empty
    <3>6. \A c \in Convs : RightAbout(seen'[c], stats', lost', late)
      BY <2>2, <3>4, <3>5
    <3> QED
      BY <2>1, <2>2, <3>1, <3>3, <3>6 DEF Inv, Right, RightAbout, ReadsRight, Empty
  <2>6. LockHeld' /\ HolderReadAll'
    BY <2>1, <2>2, <2>3 DEF Inv, LockHeld, HolderReadAll, Kept, TypeOK
  <2> QED
    BY <2>1, <2>2, <2>5, <2>6 DEF Inv, TracedBeforeGone, DeletionTraced, Traced
<1>14. CASE Purge
  <2>1. ledger' = Empty /\ erased' = erased \cup ledger.folded \cup ledger.unarchived
        /\ UNCHANGED <<pc, stored, running, stats, saved, lost, lock, seen, late>>
    BY <1>14 DEF Purge
  <2>2. Right(ledger)' /\ ReadsRight'
    BY <2>1 DEF Inv, Right, RightAbout, ReadsRight, TypeOK, Empty
  <2>3. LockHeld' /\ HolderReadAll'
    BY <2>1 DEF Inv, LockHeld, HolderReadAll, Kept, TypeOK, Empty
  <2> QED
    BY <2>1, <2>2, <2>3 DEF Inv, TracedBeforeGone, SavedBehind, DeletionTraced, Traced
<1>15. ASSUME NEW c \in Convs, Save(c) PROVE Inv'
  <2>1. /\ saved' = [saved EXCEPT ![c] = stats[c]]
        /\ UNCHANGED <<pc, stored, stats, lost, ledger, lock, seen, erased, late>>
    BY <1>15 DEF Save, SaveBaseState
  <2>2. SavedBehind'
    BY <2>1 DEF Inv, SavedBehind, TypeOK
  <2> QED
    BY <2>1, <2>2, LedgerKept DEF Inv, LockHeld, HolderReadAll, Kept, TracedBeforeGone,
                                  DeletionTraced, TypeOK, Traced
<1>16. ASSUME NEW c \in Convs, Evict(c) PROVE Inv'
  <2>1. UNCHANGED <<pc, stored, ledger, lock, seen, erased, late>> /\ Forget({c})
    BY <1>16 DEF Evict
  <2>2. /\ stats' \in [Convs -> Nat] /\ lost' \in [Convs -> Nat] /\ SavedBehind'
        /\ \A d \in Convs : stats'[d] <= stats[d] /\ stats'[d] + lost'[d] = stats[d] + lost[d]
    BY <2>1, Forgotten DEF Inv
  <2>3. /\ ledger \in Ledgers /\ seen \in [Convs -> Ledgers]
        /\ stats \in [Convs -> Nat] /\ lost \in [Convs -> Nat] /\ late \in [Convs -> Nat]
    BY DEF TypeOK
  <2>4. RightAbout(ledger, stats', lost', late)
    <3>1. RightAbout(ledger, stats, lost, late) /\ SavedBehind
      BY DEF Inv, Right
    <3> QED
      BY <2>1, <2>3, <3>1, StillRight
  <2>5. \A d \in Convs : RightAbout(seen[d], stats', lost', late)
    <3>1. SavedBehind /\ \A d \in Convs : RightAbout(seen[d], stats, lost, late)
      BY DEF Inv, ReadsRight, Right
    <3> QED
      BY <2>1, <2>3, <3>1, StillRight
  <2>6. Right(ledger)' /\ ReadsRight'
    BY <2>1, <2>4, <2>5 DEF Inv, Right, RightAbout, ReadsRight
  <2> QED
    BY <2>1, <2>2, <2>6 DEF Inv, LockHeld, HolderReadAll, Kept, TracedBeforeGone,
                            DeletionTraced, TypeOK, Traced
<1>17. CASE UNCHANGED vars
  BY <1>17, LedgerKept DEF vars, Inv, LockHeld, HolderReadAll, Kept, TracedBeforeGone,
                           SavedBehind, DeletionTraced, TypeOK, Traced
<1> QED
  BY <1>1, <1>2, <1>3, <1>4, <1>5, <1>6, <1>7, <1>8, <1>9, <1>10, <1>11, <1>12, <1>13,
     <1>14, <1>15, <1>16, <1>17 DEF Next

\* What deletions and the ledger keep true, through awaits, faults, crashes and
\* purges in any order.
THEOREM Invariance == Spec => [](TypeOK /\ Inv)
<1>1. TypeOK /\ Inv /\ [Next]_vars => TypeOK' /\ Inv'
  BY TypeStep, InvStep DEF Inv
<1> QED
  BY InitInv, <1>1, PTL DEF Spec

\* The ledger counts what a folded conversation has spent, though deletions are
\* repeated after failures of delete_conversation at any point.
THEOREM CountedOnce == Spec => []CountExact
<1>1. TypeOK /\ Inv => CountExact
  BY DEF Inv, Right, RightAbout, CountExact, Spent, TypeOK, Ledgers
<1> QED
  BY Invariance, <1>1, PTL

\* delete_conversation leaves a trace of every conversation that is gone.
THEOREM NothingGoneUntraced == Spec => []DeletionTraced
<1>1. Inv => DeletionTraced
  BY DEF Inv
<1> QED
  BY Invariance, <1>1, PTL

\* Two workers that fold at once do not overwrite each other: fold_conversation
\* and record_unarchived lower no total.
THEOREM TotalsKept == Spec => LoweredOnlyIfErased
<1>1. TypeOK /\ Inv /\ [Next]_vars
        => [\A c \in Convs : ledger'.tokens[c] < ledger.tokens[c] => c \in erased']_vars
  <2> SUFFICES ASSUME TypeOK, Inv, Next,
                      NEW d \in Convs, ledger'.tokens[d] < ledger.tokens[d], d \notin erased'
               PROVE  FALSE
    OBVIOUS
  <2>1. erased \subseteq erased'
    BY DEF Next, Run, Spend, Save, RunEnds, Evict, Delete, Lock, LockUnreadable, FoldFails, Fold, Record,
           WriteFails, CloseService, Remove, Crash, Purge
  <2>2. d \in ledger.folded /\ ledger.tokens \in [Convs -> Nat]
    <3>1. ledger \in Ledgers /\ ledger' \in Ledgers
      BY TypeStep DEF TypeOK, Inv
    <3>2. ledger.tokens[d] \in Nat /\ ledger'.tokens[d] \in Nat /\ ledger.tokens \in [Convs -> Nat]
      BY <3>1 DEF Ledgers
    <3> QED
      BY <3>2 DEF Inv, Right, RightAbout
  <2>3. ASSUME NEW c \in Convs, Fold(c) PROVE FALSE
    <3>1. lock = c
      BY <2>3 DEF Fold, Inv, LockHeld
    <3>2. seen[c] \in Ledgers /\ d \in seen[c].folded /\ seen[c].tokens[d] = ledger.tokens[d]
      BY <3>1, <2>1, <2>2 DEF Inv, HolderReadAll, Kept, TypeOK
    <3>3. c \notin seen[c].folded /\ ledger' = Folded(seen[c], c)
      BY <2>2, <2>3 DEF Fold
    <3>4. ledger'.tokens = [seen[c].tokens EXCEPT ![c] = @ + stats[c]]
      BY <3>2, <3>3 DEF Folded, Ledgers
    <3> QED
      BY <2>2, <3>2, <3>3, <3>4 DEF Ledgers
  <2>4. ASSUME NEW c \in Convs, Record(c) PROVE FALSE
    <3>1. lock = c
      BY <2>4 DEF Record, Inv, LockHeld
    <3>2. seen[c] \in Ledgers /\ d \in seen[c].folded /\ seen[c].tokens[d] = ledger.tokens[d]
      BY <3>1, <2>1, <2>2 DEF Inv, HolderReadAll, Kept, TypeOK
    <3>3. ledger'.tokens = seen[c].tokens
      BY <2>4, <3>2 DEF Record, Ledgers
    <3> QED
      BY <2>2, <3>2, <3>3
  <2>5. CASE Purge
    BY <2>2, <2>5 DEF Purge
  <2>6. CASE ledger' = ledger
    BY <2>2, <2>6
  <2> QED
    BY <2>3, <2>4, <2>5, <2>6 DEF Next, Run, Spend, Save, RunEnds, Evict, Delete, Lock, LockUnreadable, FoldFails,
       WriteFails, CloseService, Remove, Crash, convVars, usage
<1> QED
  BY Invariance, <1>1, PTL DEF Spec, LoweredOnlyIfErased


(***************************************************************************)
(* Starting the daemon of the state directory, by any number of processes  *)
(* and with any number of them killed on the way.                          *)
(***************************************************************************)
\* A process that is past the creation of daemon.lock created the one that is
\* there, until somebody is robbed of it.
HolderInside == ~robbed => \A p \in Callers : starter[p] \in Inside => lockFile.by = p

\* What the lock is for, where daemons can be found through /proc: one daemon
\* runs, and none when a process has decided to spawn one.
OneRunning ==
    Linux /\ ~robbed =>
        /\ \A d, e \in Callers : Running(d) /\ Running(e) => d = e
        /\ \A p, d \in Callers : starter[p] = "spawn" => ~Running(d)

\* daemon.lock names somebody only when somebody created it.
LockTaken == lockFile.by = Nobody => lockFile = NoLock

\* A process that has created daemon.lock once will not again: it is inside, has
\* left or is dead.
Past(q) == starter[q] \in Inside \cup {"done", "dead"}

\* The creator of the lock that is there is such a process, the pid in the lock is
\* its own, and the lock gets old only after it has gone.
LockOfPast ==
    /\ lockFile.owner \in {Nobody, lockFile.by}
    /\ lockFile.by # Nobody => Past(lockFile.by)
    /\ lockFile.old => starter[lockFile.by] \notin Inside \/ SlowStarts

\* A waiter between its looks at the lock: the file it began with cannot come
\* back, so the pid it has read is that of the file's creator if the file is
\* still there.
JudgedBy(p) ==
    /\ judged[p].by # Nobody /\ Past(judged[p].by)
    /\ judged[p].old => starter[judged[p].by] \notin Inside \/ SlowStarts
    /\ lockFile.by = judged[p].by => judged[p].owner \in {Nobody, judged[p].by}
    /\ starter[p] = "unlink" /\ lockFile.by = judged[p].by =>
          starter[judged[p].by] \notin Inside \/ SlowStarts

Judging == {"owner", "alive", "unlink"}

JudgedOK == \A p \in Callers : starter[p] \in Judging => JudgedBy(p)

StartInv == StartTypeOK /\ HolderInside /\ OneRunning /\ LockTaken /\ LockOfPast /\ JudgedOK

USE DaemonAssumption

\* Nobody has called ensure_running() yet.
LEMMA StartsSafe == StartInit => StartInv
<1> SUFFICES ASSUME StartInit PROVE StartInv
  OBVIOUS
<1>1. StartTypeOK
  <2>1. stopper.at = "wait" <=> stopper.target # Nobody
    BY DEF StartInit
  <2>2. deaths \in 0..MaxDeaths /\ stops \in 0..MaxStops
    BY DEF StartInit
  <2>3. lockFile \in Locks /\ judged \in [Callers -> Locks]
    BY DEF StartInit, NoLock, Locks
  <2> QED BY <2>1, <2>2, <2>3 DEF StartInit, StartTypeOK
<1>2. HolderInside /\ LockTaken /\ LockOfPast /\ JudgedOK
  BY DEF StartInit, HolderInside, LockTaken, LockOfPast, JudgedOK, Judging, NoLock, Inside
<1>3. OneRunning
  BY DEF StartInit, OneRunning, Running
<1> QED BY <1>1, <1>2, <1>3 DEF StartInv

\* Every step keeps the types.
LEMMA StartTypeStep == StartTypeOK /\ [StartNext]_startVars => StartTypeOK'
<1> SUFFICES ASSUME StartTypeOK, [StartNext]_startVars PROVE StartTypeOK'
  OBVIOUS
<1> USE DEF StartTypeOK, Locks, Inside, NoLock, MoveTo, Return
<1>1. ASSUME NEW p \in Callers, FastPath(p) PROVE StartTypeOK'
  BY <1>1 DEF FastPath, Answers
<1>2. ASSUME NEW p \in Callers, Open(p) PROVE StartTypeOK'
  BY <1>2 DEF Open
<1>3. ASSUME NEW p \in Callers, Write(p) PROVE StartTypeOK'
  BY <1>3 DEF Write
<1>4. ASSUME NEW p \in Callers, Held(p) PROVE StartTypeOK'
  BY <1>4 DEF Held, Answers
<1>5. ASSUME NEW p \in Callers, StatLock(p) \/ ReadOwner(p) \/ Judge(p) PROVE StartTypeOK'
  <2>1. judged' \in [Callers -> Locks]
    <3>1. judged \in [Callers -> Locks] /\ lockFile \in Locks
      OBVIOUS
    <3>2. \E l \in Locks : judged' = [judged EXCEPT ![p] = l] \/ judged' = judged
      <4>1. CASE StatLock(p)
        <5>1. [lockFile EXCEPT !.owner = Nobody] \in Locks
          OBVIOUS
        <5> QED BY <5>1, <4>1 DEF StatLock
      <4>2. CASE ReadOwner(p)
        <5>1. [judged[p] EXCEPT !.owner = lockFile.owner] \in Locks
          OBVIOUS
        <5> QED BY <5>1, <4>2 DEF ReadOwner
      <4>3. CASE Judge(p)
        <5>1. NoLock \in Locks
          OBVIOUS
        <5> QED BY <5>1, <4>3 DEF Judge
      <4> QED BY <1>5, <4>1, <4>2, <4>3
    <3> QED BY <3>1, <3>2
  <2> QED BY <1>5, <2>1 DEF StatLock, ReadOwner, Judge
<1>6. ASSUME NEW p \in Callers, Reclaim(p) PROVE StartTypeOK'
  BY <1>6 DEF Reclaim, UnlinkLock
<1>7. ASSUME NEW p \in Callers, Check(p) PROVE StartTypeOK'
  BY <1>7 DEF Check, Answers
<1>8. ASSUME NEW p \in Callers, Scan(p) PROVE StartTypeOK'
  BY <1>8 DEF Scan, Candidates
<1>9. ASSUME NEW p \in Callers, Spawn(p) PROVE StartTypeOK'
  BY <1>9 DEF Spawn
<1>10. ASSUME NEW p \in Callers, Publish(p) PROVE StartTypeOK'
  BY <1>10 DEF Publish, Terminated
<1>11. ASSUME NEW p \in Callers, Await(p) PROVE StartTypeOK'
  BY <1>11 DEF Await, Terminated
<1>12. ASSUME NEW p \in Callers, Release(p) PROVE StartTypeOK'
  BY <1>12 DEF Release, UnlinkLock
<1>13. ASSUME NEW p \in Callers, TimeOut(p) PROVE StartTypeOK'
  BY <1>13 DEF TimeOut
<1>14. ASSUME NEW p \in Callers, Die(p) PROVE StartTypeOK'
  BY <1>14 DEF Die
<1>15. ASSUME NEW p \in Callers, Ready(p) PROVE StartTypeOK'
  BY <1>15 DEF Ready
<1>16. ASSUME NEW p \in Callers, Exit(p) PROVE StartTypeOK'
  BY <1>16 DEF Exit
<1>17. CASE Stop
  BY <1>17 DEF Stop, Terminated, Running
<1>18. CASE Stopped
  BY <1>18 DEF Stopped
<1>19. CASE RemoveFile
  BY <1>19 DEF RemoveFile
<1>20. CASE LockAges
  BY <1>20 DEF LockAges
<1>21. CASE UNCHANGED startVars
  BY <1>21 DEF startVars
<1> QED
  BY <1>1, <1>2, <1>3, <1>4, <1>5, <1>6, <1>7, <1>8, <1>9, <1>10, <1>11, <1>12, <1>13, <1>14,
     <1>15, <1>16, <1>17, <1>18, <1>19, <1>20, <1>21 DEF StartNext, Step

\* Who holds daemon.lock: creating it, reclaiming it, releasing it and dying with
\* it are the steps that matter.
LEMMA HolderStep == StartInv /\ [StartNext]_startVars => (HolderInside /\ LockTaken)'
<1> SUFFICES ASSUME StartInv, [StartNext]_startVars
             PROVE  (HolderInside /\ LockTaken)'
  OBVIOUS
<1> DEFINE Goal == (HolderInside /\ LockTaken)'
<1> USE DEF StartInv, StartTypeOK, HolderInside, LockTaken, Inside, NoLock, MoveTo
<1>1. ASSUME NEW p \in Callers, FastPath(p) PROVE Goal
  BY <1>1 DEF FastPath
<1>2. ASSUME NEW p \in Callers, Open(p) PROVE Goal
  <2>1. CASE lockFile = NoLock
    <3>1. lockFile' = [by |-> p, owner |-> Nobody, old |-> FALSE]
      BY <1>2, <2>1 DEF Open
    <3>2. \A q \in Callers : starter'[q] = IF q = p THEN "write" ELSE starter[q]
      BY <1>2, <2>1 DEF Open
    <3>3. robbed' = robbed /\ deaths' = deaths
      BY <1>2 DEF Open
    <3> QED BY <3>1, <3>2, <3>3, <2>1
  <2>2. CASE lockFile # NoLock
    <3>1. lockFile' = lockFile /\ robbed' = robbed /\ deaths' = deaths
      BY <1>2, <2>2 DEF Open
    <3>2. \A q \in Callers : starter'[q] = IF q = p THEN "held" ELSE starter[q]
      BY <1>2, <2>2 DEF Open
    <3> QED BY <3>1, <3>2, <1>2 DEF Open
  <2> QED BY <2>1, <2>2
<1>3. ASSUME NEW p \in Callers, Write(p) PROVE Goal
  <2>1. /\ lockFile'.by = lockFile.by /\ lockFile'.old = lockFile.old
        /\ lockFile.by = Nobody => lockFile' = lockFile
    BY <1>3 DEF Write
  <2>2. \A q \in Callers : starter'[q] = IF q = p THEN "check" ELSE starter[q]
    BY <1>3 DEF Write
  <2> QED BY <2>1, <2>2, <1>3 DEF Write
<1>4. ASSUME NEW p \in Callers, Held(p) PROVE Goal
  BY <1>4 DEF Held
<1>5. ASSUME NEW p \in Callers, StatLock(p) \/ ReadOwner(p) \/ Judge(p) PROVE Goal
  BY <1>5 DEF StatLock, ReadOwner, Judge
<1>6. ASSUME NEW p \in Callers, Reclaim(p) PROVE Goal
  BY <1>6 DEF Reclaim, UnlinkLock
<1>7. ASSUME NEW p \in Callers, Check(p) PROVE Goal
  BY <1>7 DEF Check
<1>8. ASSUME NEW p \in Callers, Scan(p) PROVE Goal
  BY <1>8 DEF Scan
<1>9. ASSUME NEW p \in Callers, Spawn(p) PROVE Goal
  BY <1>9 DEF Spawn
<1>10. ASSUME NEW p \in Callers, Publish(p) PROVE Goal
  BY <1>10 DEF Publish
<1>11. ASSUME NEW p \in Callers, Await(p) PROVE Goal
  BY <1>11 DEF Await
<1>12. ASSUME NEW p \in Callers, Release(p) PROVE Goal
  BY <1>12 DEF Release, UnlinkLock
<1>13. ASSUME NEW p \in Callers, TimeOut(p) PROVE Goal
  BY <1>13 DEF TimeOut
<1>14. ASSUME NEW p \in Callers, Die(p) PROVE Goal
  BY <1>14 DEF Die
<1>15. ASSUME NEW p \in Callers, Ready(p) PROVE Goal
  BY <1>15 DEF Ready
<1>16. ASSUME NEW p \in Callers, Exit(p) PROVE Goal
  BY <1>16 DEF Exit
<1>17. CASE Stop
  BY <1>17 DEF Stop
<1>18. CASE Stopped
  BY <1>18 DEF Stopped
<1>19. CASE RemoveFile
  BY <1>19 DEF RemoveFile
<1>20. CASE LockAges
  BY <1>20 DEF LockAges
<1>21. CASE UNCHANGED startVars
  BY <1>21 DEF startVars
<1> QED
  BY <1>1, <1>2, <1>3, <1>4, <1>5, <1>6, <1>7, <1>8, <1>9, <1>10, <1>11, <1>12, <1>13, <1>14,
     <1>15, <1>16, <1>17, <1>18, <1>19, <1>20, <1>21 DEF StartNext, Step

\* There is no way back from where a process is in ensure_running().
LEMMA NoWayBack ==
    ASSUME StartTypeOK, [StartNext]_startVars, NEW q \in Callers, Past(q)
    PROVE  /\ Past(q)' /\ starter[q] # "open"
           /\ starter[q] \notin Inside => starter'[q] \notin Inside
<1> USE DEF StartTypeOK, Past, Inside, MoveTo
<1>1. ASSUME NEW p \in Callers, FastPath(p) \/ Open(p) \/ Write(p) \/ Held(p) \/ StatLock(p) \/ ReadOwner(p)
                                  \/ Judge(p) \/ Reclaim(p)
      PROVE  Past(q)' /\ (starter[q] \notin Inside => starter'[q] \notin Inside)
  BY <1>1 DEF FastPath, Open, Write, Held, StatLock, ReadOwner, Judge, Reclaim
<1>2. ASSUME NEW p \in Callers, Check(p) \/ Scan(p) \/ Spawn(p) \/ Publish(p) \/ Await(p) \/ Release(p)
                                  \/ TimeOut(p) \/ Die(p) \/ Ready(p) \/ Exit(p)
      PROVE  Past(q)' /\ (starter[q] \notin Inside => starter'[q] \notin Inside)
  BY <1>2 DEF Check, Scan, Spawn, Publish, Await, Release, TimeOut, Die, Ready, Exit
<1>3. CASE Stop \/ Stopped \/ RemoveFile \/ LockAges \/ UNCHANGED startVars
  BY <1>3 DEF Stop, Stopped, RemoveFile, LockAges, startVars
<1> QED BY <1>1, <1>2, <1>3 DEF StartNext, Step

\* What happens to daemon.lock: nothing, it is unlinked, created, written or ages.
LEMMA LockMoves ==
    ASSUME StartTypeOK, [StartNext]_startVars
    PROVE  \/ lockFile' = lockFile
           \/ lockFile' = NoLock
           \/ \E q \in Callers : starter[q] = "open" /\ starter'[q] = "write" /\ lockFile' = [NoLock EXCEPT !.by = q]
           \/ /\ lockFile'.by = lockFile.by /\ lockFile'.old = lockFile.old
              /\ lockFile'.owner \in {lockFile.owner, lockFile.by}
           \/ /\ lockFile'.by = lockFile.by /\ lockFile'.owner = lockFile.owner
              /\ lockFile # NoLock /\ (starter'[lockFile.by] \in Inside => SlowStarts)
<1> USE DEF StartTypeOK, Locks, MoveTo
<1>1. ASSUME NEW p \in Callers, Open(p) \/ Write(p)
      PROVE  \/ lockFile' = lockFile
             \/ \E q \in Callers : starter[q] = "open" /\ starter'[q] = "write" /\ lockFile' = [NoLock EXCEPT !.by = q]
             \/ /\ lockFile'.by = lockFile.by /\ lockFile'.old = lockFile.old
                /\ lockFile'.owner \in {lockFile.owner, lockFile.by}
  BY <1>1 DEF Open, Write
<1>2. ASSUME NEW p \in Callers, FastPath(p) \/ Held(p) \/ StatLock(p) \/ ReadOwner(p) \/ Judge(p) \/ Reclaim(p)
                                  \/ Check(p) \/ Scan(p) \/ Spawn(p) \/ Publish(p) \/ Await(p) \/ Release(p)
                                  \/ TimeOut(p) \/ Die(p) \/ Ready(p) \/ Exit(p)
      PROVE  lockFile' = lockFile \/ lockFile' = NoLock
  BY <1>2 DEF FastPath, Held, StatLock, ReadOwner, Judge, Reclaim, Check, Scan, Spawn, Publish, Await,
              Release, TimeOut, Die, Ready, Exit, UnlinkLock
<1>3. CASE Stop \/ Stopped \/ RemoveFile \/ UNCHANGED startVars
  BY <1>3 DEF Stop, Stopped, RemoveFile, startVars
<1>4. CASE LockAges
  BY <1>4 DEF LockAges
<1> QED BY <1>1, <1>2, <1>3, <1>4 DEF StartNext, Step

\* So its creator is past creating it, and it names nobody else.
LEMMA LockStep == StartInv /\ [StartNext]_startVars => LockOfPast'
<1> SUFFICES ASSUME StartInv, [StartNext]_startVars PROVE LockOfPast'
  OBVIOUS
<1>0. StartTypeOK /\ LockTaken /\ LockOfPast
  BY DEF StartInv
<1>1. \A q \in Callers : Past(q) =>
         Past(q)' /\ (starter[q] \notin Inside => starter'[q] \notin Inside)
  BY <1>0, NoWayBack
<1>2. lockFile.by \in Callers \cup {Nobody} /\ (lockFile.by = Nobody => lockFile = NoLock)
  BY <1>0 DEF StartTypeOK, Locks, LockTaken
<1>3. CASE lockFile' = lockFile
  <2>1. CASE lockFile.by = Nobody
    BY <2>1, <1>2, <1>3 DEF LockOfPast, NoLock
  <2>2. CASE lockFile.by # Nobody
    BY <2>2, <1>0, <1>1, <1>2, <1>3 DEF LockOfPast
  <2> QED BY <2>1, <2>2
<1>4. CASE lockFile' = NoLock
  BY <1>4 DEF LockOfPast, NoLock
<1>5. CASE \E q \in Callers : starter[q] = "open" /\ starter'[q] = "write" /\ lockFile' = [NoLock EXCEPT !.by = q]
  BY <1>5 DEF LockOfPast, NoLock, Past, Inside
<1>6. CASE /\ lockFile'.by = lockFile.by /\ lockFile'.old = lockFile.old
           /\ lockFile'.owner \in {lockFile.owner, lockFile.by}
  <2>1. CASE lockFile.by = Nobody
    BY <2>1, <1>0, <1>2, <1>6 DEF LockOfPast, NoLock
  <2>2. CASE lockFile.by # Nobody
    BY <2>2, <1>0, <1>1, <1>2, <1>6 DEF LockOfPast
  <2> QED BY <2>1, <2>2
<1>7. CASE /\ lockFile'.by = lockFile.by /\ lockFile'.owner = lockFile.owner
           /\ lockFile # NoLock /\ (starter'[lockFile.by] \in Inside => SlowStarts)
  BY <1>0, <1>1, <1>2, <1>7 DEF LockOfPast
<1> QED BY <1>0, <1>3, <1>4, <1>5, <1>6, <1>7, LockMoves

\* What a waiter has seen: the three looks and the unlinking, and everything else.
LEMMA JudgedStep == StartInv /\ [StartNext]_startVars => JudgedOK'
<1> SUFFICES ASSUME StartInv, [StartNext]_startVars, NEW p \in Callers, starter'[p] \in Judging
             PROVE  JudgedBy(p)'
  BY DEF JudgedOK
<1>0. StartTypeOK /\ LockTaken /\ LockOfPast /\ JudgedOK
  BY DEF StartInv
<1>1. \A q \in Callers : Past(q) =>
         /\ Past(q)' /\ starter[q] # "open"
         /\ starter[q] \notin Inside => starter'[q] \notin Inside
  BY <1>0, NoWayBack
<1>2. /\ judged[p].by \in Callers \cup {Nobody} /\ lockFile.by \in Callers \cup {Nobody}
      /\ lockFile.by = Nobody => lockFile = NoLock
      /\ lockFile \in Locks /\ judged \in [Callers -> Locks]
  BY <1>0 DEF StartTypeOK, Locks, LockTaken
\* The file a waiter has looked at does not come back.
<1>3. ASSUME judged[p].by \in Callers, Past(judged[p].by), lockFile'.by = judged[p].by
      PROVE  lockFile.by = judged[p].by
  <2>1. starter[judged[p].by] # "open" /\ judged[p].by # Nobody
    BY <1>1, <1>3, DaemonAssumption
  <2> QED BY <2>1, <1>3, <1>0, LockMoves DEF NoLock
\* A step of somebody else, or of another kind.
<1>a. ASSUME judged'[p] = judged[p], starter'[p] = starter[p] PROVE JudgedBy(p)'
  <2>1. JudgedBy(p)
    BY <1>a, <1>0 DEF JudgedOK
  <2>2. judged[p].by \in Callers
    BY <2>1, <1>2 DEF JudgedBy
  <2> QED BY <2>1, <2>2, <1>a, <1>1, <1>3 DEF JudgedBy
<1>4. CASE StatLock(p)
  <2>1. lockFile # NoLock /\ starter'[p] = "owner" /\ lockFile' = lockFile
        /\ judged' = [judged EXCEPT ![p] = [lockFile EXCEPT !.owner = Nobody]]
    BY <1>4, <1>0 DEF StatLock, MoveTo, StartTypeOK, Judging
  <2>2. judged'[p].by = lockFile.by /\ judged'[p].owner = Nobody /\ judged'[p].old = lockFile.old
    BY <2>1, <1>2 DEF Locks
  <2>3. lockFile.by \in Callers
    BY <2>1, <1>2
  <2> QED BY <2>1, <2>2, <2>3, <1>0, <1>1, DaemonAssumption DEF JudgedBy, LockOfPast
<1>5. CASE ReadOwner(p)
  <2>1. starter[p] = "owner" /\ starter'[p] = "alive" /\ lockFile' = lockFile
        /\ judged' = [judged EXCEPT ![p].owner = lockFile.owner]
    BY <1>5, <1>0 DEF ReadOwner, MoveTo, StartTypeOK
  <2>2. judged'[p].by = judged[p].by /\ judged'[p].owner = lockFile.owner /\ judged'[p].old = judged[p].old
    BY <2>1, <1>2 DEF Locks
  <2>3. JudgedBy(p)
    BY <2>1, <1>0 DEF JudgedOK, Judging
  <2>4. judged[p].by \in Callers
    BY <2>3, <1>2 DEF JudgedBy
  <2> QED BY <2>1, <2>2, <2>3, <2>4, <1>0, <1>1 DEF JudgedBy, LockOfPast
<1>6. CASE Judge(p)
  <2>1. /\ starter[p] = "alive" /\ lockFile' = lockFile /\ judged' = judged
        /\ starter'[p] = "unlink"
        /\ (judged[p].owner # Nobody /\ MayBeGone(judged[p].owner)) \/ judged[p].old
    BY <1>6, <1>0 DEF Judge, MoveTo, StartTypeOK, Judging
  <2>2. JudgedBy(p)
    BY <2>1, <1>0 DEF JudgedOK, Judging
  <2>3. judged[p].by \in Callers
    BY <2>2, <1>2 DEF JudgedBy
  <2>4. lockFile.by = judged[p].by => starter[judged[p].by] \notin Inside \/ SlowStarts
    BY <2>1, <2>2 DEF JudgedBy, MayBeGone, Inside
  <2> QED BY <2>1, <2>2, <2>3, <2>4, <1>1 DEF JudgedBy
<1>7. CASE Reclaim(p)
  BY <1>7, <1>0 DEF Reclaim, MoveTo, StartTypeOK, Judging
<1>8. ASSUME NEW q \in Callers, q # p, StatLock(q) \/ ReadOwner(q) \/ Judge(q) \/ Reclaim(q) PROVE JudgedBy(p)'
  <2>1. judged'[p] = judged[p] /\ starter'[p] = starter[p]
    BY <1>8, <1>0 DEF StatLock, ReadOwner, Judge, Reclaim, MoveTo, StartTypeOK
  <2> QED BY <2>1, <1>a
<1>9. ASSUME NEW q \in Callers, \/ FastPath(q) \/ Open(q) \/ Write(q) \/ Held(q) \/ Check(q) \/ Scan(q)
                                 \/ Spawn(q) \/ Publish(q) \/ Await(q) \/ Release(q) \/ TimeOut(q)
                                 \/ Die(q) \/ Ready(q) \/ Exit(q)
      PROVE  JudgedBy(p)'
  <2>1. judged' = judged
    BY <1>9 DEF FastPath, Open, Write, Held, Check, Scan, Spawn, Publish, Await, Release, TimeOut, Die,
                Ready, Exit
  <2>2. starter'[p] = starter[p]
    BY <1>9, <1>0 DEF FastPath, Open, Write, Held, Check, Scan, Spawn, Publish, Await, Release, TimeOut,
                      Die, Ready, Exit, MoveTo, StartTypeOK, Judging
  <2> QED BY <2>1, <2>2, <1>a
<1>10. CASE Stop \/ Stopped \/ RemoveFile \/ LockAges \/ UNCHANGED startVars
  <2>1. judged' = judged /\ starter' = starter
    BY <1>10 DEF Stop, Stopped, RemoveFile, LockAges, startVars
  <2> QED BY <2>1, <1>a
<1> QED BY <1>4, <1>5, <1>6, <1>7, <1>8, <1>9, <1>10 DEF StartNext, Step

\* How many daemons run: the scan of /proc and the spawn are the steps that matter.
LEMMA RunningStep == StartInv /\ [StartNext]_startVars => OneRunning'
<1> SUFFICES ASSUME StartInv, [StartNext]_startVars, Linux, ~robbed'
             PROVE  /\ \A d, e \in Callers : Running(d)' /\ Running(e)' => d = e
                    /\ \A p, d \in Callers : starter'[p] = "spawn" => ~Running(d)'
  BY DEF OneRunning
<1> DEFINE Goal == /\ \A d, e \in Callers : Running(d)' /\ Running(e)' => d = e
                   /\ \A p, d \in Callers : starter'[p] = "spawn" => ~Running(d)'
\* Nobody was robbed before, either.
<1>0. ~robbed
  BY DEF StartInv, StartTypeOK, StartNext, Step, startVars, FastPath, Open, Write, Held, StatLock,
         ReadOwner, Judge, Reclaim, Check, Scan, Spawn, Publish, Await, Release, TimeOut, Die, Ready,
         Exit, Stop, Stopped, RemoveFile, LockAges, UnlinkLock
<1> USE DEF StartInv, StartTypeOK, OneRunning, Running, MoveTo
\* A step that starts no daemon and leads nobody to the spawn.
<1>a. ASSUME \A d \in Callers : Running(d)' => Running(d),
             \A p \in Callers : starter'[p] = "spawn" => starter[p] = "spawn"
      PROVE  Goal
  BY <1>a, <1>0
<1>1. ASSUME NEW p \in Callers, Step(p), ~Scan(p), ~Spawn(p) PROVE Goal
  <2>1. \A d \in Callers : Running(d)' => Running(d)
    BY <1>1 DEF Step, FastPath, Open, Write, Held, StatLock, ReadOwner, Judge, Reclaim, Check, Publish, Await,
                Release, Terminated
  <2>2. \A q \in Callers : starter'[q] = "spawn" => starter[q] = "spawn"
    BY <1>1 DEF Step, FastPath, Open, Write, Held, StatLock, ReadOwner, Judge, Reclaim, Check, Publish, Await,
                Release
  <2> QED BY <2>1, <2>2, <1>a
<1>2. ASSUME NEW p \in Callers, Scan(p) PROVE Goal
  <2>1. CASE Candidates = {}
    <3>1. \A d \in Callers : ~Running(d)
      BY <2>1 DEF Candidates
    <3> QED BY <3>1, <1>2 DEF Scan
  <2>2. CASE Candidates # {}
    <3>1. \A q \in Callers : starter'[q] = "spawn" => starter[q] = "spawn"
      BY <1>2, <2>2 DEF Scan
    <3> QED BY <3>1, <1>2, <1>a DEF Scan
  <2> QED BY <2>1, <2>2
\* A daemon is spawned when none runs, by the only process inside.
<1>3. ASSUME NEW p \in Callers, Spawn(p) PROVE Goal
  <2>1. \A d \in Callers : ~Running(d)
    BY <1>3, <1>0 DEF Spawn
  <2>2. \A d \in Callers : Running(d)' => d = p
    BY <1>3, <2>1 DEF Spawn
  <2>3. \A q \in Callers : starter'[q] # "spawn"
    BY <1>3, <1>0 DEF Spawn, HolderInside, Inside
  <2> QED BY <2>2, <2>3
<1>4. ASSUME NEW p \in Callers, TimeOut(p) \/ Die(p) \/ Ready(p) \/ Exit(p)
      PROVE  Goal
  <2>1. \A d \in Callers : Running(d)' => Running(d)
    BY <1>4 DEF TimeOut, Die, Ready, Exit
  <2>2. \A q \in Callers : starter'[q] = "spawn" => starter[q] = "spawn"
    BY <1>4 DEF TimeOut, Die, Ready, Exit
  <2> QED BY <2>1, <2>2, <1>a
<1>5. CASE Stop \/ Stopped \/ RemoveFile \/ LockAges \/ UNCHANGED startVars
  <2>1. \A d \in Callers : Running(d)' => Running(d)
    BY <1>5 DEF Stop, Stopped, RemoveFile, LockAges, startVars, Terminated
  <2>2. \A q \in Callers : starter'[q] = "spawn" => starter[q] = "spawn"
    BY <1>5 DEF Stop, Stopped, RemoveFile, LockAges, startVars
  <2> QED BY <2>1, <2>2, <1>a
<1> QED BY <1>1, <1>2, <1>3, <1>4, <1>5 DEF StartNext

\* The inductive invariant of ensure_running() and stop(): daemon.lock belongs to
\* the process that is inside, only one process is, and what a waiter has seen of
\* the lock is true of the file it has looked at.
THEOREM StartInvariant == StartSpec => []StartInv
<1>1. StartInv /\ [StartNext]_startVars => StartInv'
  BY StartTypeStep, HolderStep, RunningStep, LockStep, JudgedStep DEF StartInv
<1> QED BY StartsSafe, <1>1, PTL DEF StartSpec

\* Where daemons can be found through /proc, ensure_running() never has two of them
\* on one state directory, unless a process was robbed of daemon.lock while it was
\* inside.
THEOREM StartIsSafe ==
    ASSUME Linux
    PROVE  StartSpec => []OneDaemon
<1>1. StartInv => OneDaemonUnlessRobbed
  BY DEF StartInv, OneRunning, OneDaemonUnlessRobbed
<1>2. StartInv => OneDaemon
  BY <1>1 DEF StartInv, OneDaemon
<1> QED BY <1>2, StartInvariant, PTL

\* On every platform, _lock_is_stale never condemns a lock that its creator still
\* holds, though it looks three times and processes come and go in between: what
\* ensure_running() unlinks wrongly is a lock that was created since.
THEOREM JudgementIsRight == StartSpec => []OnlyLeftBehind
<1>1. StartInv => OnlyLeftBehind
  BY DEF StartInv, JudgedOK, JudgedBy, Judging, OnlyLeftBehind
<1> QED BY <1>1, StartInvariant, PTL
=============================================================================
