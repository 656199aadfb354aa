-------------------------- MODULE TranscriptProofs --------------------------
(***************************************************************************)
(* The invariants of Transcript, for a log, a number of crashes and a      *)
(* number of failed saves of any size.                                     *)
(*                                                                         *)
(* The history tree is a recursive function over the log, whose values are *)
(* found here by looking at the least event that would be a counterexample:*)
(* its parent is older, so it is none.  After that the branch is a set that*)
(* grows by one event at a time, and the proofs are about the actions.     *)
(***************************************************************************)
EXTENDS Transcript, SequenceTheorems, WellFoundedInduction, NaturalsInduction, TLAPS

(***************************************************************************)
(* The paths of the history tree.                                          *)
(***************************************************************************)
\* _path_to_root, of a log that is a parameter here: the event and its ancestors.
PathIn(s, leaf) ==
    LET Path[i \in 0..Len(s)] == IF i = 0 THEN {} ELSE {i} \cup Path[s[i].parent]
    IN Path[leaf]

\* append_event gives an event a parent that is in the log already, or the root.
Older(s) == \A i \in 1..Len(s) : s[i].parent \in 0..(i - 1)

\* f is the function that Path is chosen to be, up to n.
IsPath(s, f, n) == f = [i \in 0..n |-> IF i = 0 THEN {} ELSE {i} \cup f[s[i].parent]]

\* The least number of a set, which the inductions below are made with.
LEMMA LeastNat ==
    ASSUME NEW S, S \subseteq Nat, S # {}
    PROVE  \E x \in S : \A y \in S : x <= y
<1>1. PICK x \in S : \A y \in S : ~(<<y, x>> \in OpToRel(<, Nat))
  BY WFMin, NatLessThanWellFounded, Zenon
<1>2. x \in S /\ \A y \in S : ~(y < x)
  BY <1>1 DEF OpToRel
<1>3. \A y \in S : x <= y
  BY <1>2
<1> QED BY <1>2, <1>3

\* There is such a function, for any log whose parents are older.
LEMMA PathExists ==
    ASSUME NEW s, Len(s) \in Nat, Older(s)
    PROVE  \E f : IsPath(s, f, Len(s))
<1> DEFINE Bad == {n \in 0..Len(s) : ~\E f : IsPath(s, f, n)}
<1>1. SUFFICES ASSUME Bad # {} PROVE FALSE
  OBVIOUS
<1>a. Bad \subseteq Nat
  OBVIOUS
<1>b. \E n \in Bad : \A m \in Bad : n <= m
  <2> HIDE DEF Bad
  <2> QED BY <1>1, <1>a, LeastNat
<1>2. PICK n \in Bad : \A m \in Bad : n <= m
  BY <1>b
<1>3. n \in 0..Len(s) /\ ~\E f : IsPath(s, f, n)
  BY <1>2
<1>4. n # 0
  <2> SUFFICES ASSUME n = 0 PROVE FALSE
    OBVIOUS
  <2>1. IsPath(s, [i \in 0..0 |-> {}], 0)
    BY DEF IsPath
  <2> QED BY <2>1, <1>3
<1>5. n - 1 \in 0..Len(s) /\ n - 1 \notin Bad
  BY <1>3, <1>4, <1>2
<1>6. PICK f : IsPath(s, f, n - 1)
  BY <1>5
<1> DEFINE g == [i \in 0..n |-> IF i = n THEN {n} \cup f[s[n].parent] ELSE f[i]]
<1>7. \A i \in 0..(n - 1) : f[i] = IF i = 0 THEN {} ELSE {i} \cup f[s[i].parent]
  BY <1>6 DEF IsPath
<1>8. \A i \in 0..n : g[i] = IF i = 0 THEN {} ELSE {i} \cup g[s[i].parent]
  <2> TAKE i \in 0..n
  <2>1. CASE i = n
    <3>1. s[n].parent \in 0..(n - 1)
      BY <1>3, <1>4 DEF Older
    <3>2. s[n].parent \in 0..n /\ s[n].parent # n
      BY <3>1, <1>3
    <3> QED BY <3>2, <2>1, <1>4
  <2>2. CASE i # n
    <3>1. i \in 0..(n - 1) /\ g[i] = f[i]
      BY <2>2, <1>3
    <3>2. CASE i = 0
      BY <3>1, <3>2, <1>7
    <3>3. CASE i # 0
      <4>1. s[i].parent \in 0..(i - 1)
        BY <3>3, <3>1, <1>3 DEF Older
      <4>2. s[i].parent \in 0..n /\ s[i].parent # n
        BY <4>1, <3>1, <1>3
      <4>3. g[s[i].parent] = f[s[i].parent]
        BY <4>2
      <4>4. f[i] = {i} \cup f[s[i].parent]
        BY <3>3, <3>1, <1>7
      <4> QED BY <4>3, <4>4, <3>1, <3>3
    <3> QED BY <3>2, <3>3
  <2> QED BY <2>1, <2>2
<1>9. IsPath(s, g, n)
  BY <1>8 DEF IsPath
<1> QED BY <1>9, <1>3

\* So a path is the event and the path of its parent.
LEMMA PathRec ==
    ASSUME NEW s, Len(s) \in Nat, Older(s)
    PROVE  /\ PathIn(s, 0) = {}
           /\ \A i \in 1..Len(s) : PathIn(s, i) = {i} \cup PathIn(s, s[i].parent)
<1> DEFINE Path == CHOOSE f : f = [i \in 0..Len(s) |-> IF i = 0 THEN {} ELSE {i} \cup f[s[i].parent]]
<1>1. Path = [i \in 0..Len(s) |-> IF i = 0 THEN {} ELSE {i} \cup Path[s[i].parent]]
  BY PathExists DEF IsPath
<1>2. \A i \in 0..Len(s) : PathIn(s, i) = Path[i]
  BY DEF PathIn
<1> HIDE DEF Path
<1>3. \A i \in 0..Len(s) : Path[i] = IF i = 0 THEN {} ELSE {i} \cup Path[s[i].parent]
  BY <1>1
<1>4. \A i \in 1..Len(s) : s[i].parent \in 0..Len(s)
  BY DEF Older
<1>5. PathIn(s, 0) = {}
  <2>1. 0 \in 0..Len(s)
    OBVIOUS
  <2> QED BY <2>1, <1>2, <1>3
<1>6. ASSUME NEW i \in 1..Len(s) PROVE PathIn(s, i) = {i} \cup PathIn(s, s[i].parent)
  <2>1. i \in 0..Len(s) /\ i # 0
    OBVIOUS
  <2>2. PathIn(s, i) = {i} \cup Path[s[i].parent]
    BY <2>1, <1>2, <1>3
  <2> QED BY <2>2, <1>2, <1>4
<1> QED BY <1>5, <1>6

\* A path holds nothing younger than its leaf.
LEMMA PathRange ==
    ASSUME NEW s, Len(s) \in Nat, Older(s)
    PROVE  \A i \in 0..Len(s) : PathIn(s, i) \subseteq 1..i
<1> DEFINE Bad == {n \in 0..Len(s) : ~(PathIn(s, n) \subseteq 1..n)}
<1>1. SUFFICES ASSUME Bad # {} PROVE FALSE
  OBVIOUS
<1>2. Bad \subseteq Nat
  OBVIOUS
<1>3. \E n \in Bad : \A m \in Bad : n <= m
  <2> HIDE DEF Bad
  <2> QED BY <1>1, <1>2, LeastNat
<1>4. PICK n \in Bad : \A m \in Bad : n <= m
  BY <1>3
<1>5. n # 0
  BY <1>4, PathRec
<1>6. n \in 1..Len(s)
  BY <1>4, <1>5
<1>7. s[n].parent \in 0..(n - 1) /\ s[n].parent \in 0..Len(s)
  BY <1>6 DEF Older
<1>8. s[n].parent \notin Bad
  BY <1>4, <1>6, <1>7
<1>9. PathIn(s, s[n].parent) \subseteq 1..n
  BY <1>8, <1>7, <1>6
<1>10. PathIn(s, n) = {n} \cup PathIn(s, s[n].parent)
  BY <1>6, PathRec
<1>11. PathIn(s, n) \subseteq 1..n
  BY <1>9, <1>10, <1>6
<1> QED BY <1>11, <1>4

\* The path of an event on a path is part of it.
LEMMA PathClosed ==
    ASSUME NEW s, Len(s) \in Nat, Older(s)
    PROVE  \A i \in 0..Len(s) : \A r \in PathIn(s, i) : PathIn(s, r) \subseteq PathIn(s, i)
<1> DEFINE Bad == {n \in 0..Len(s) : ~\A r \in PathIn(s, n) : PathIn(s, r) \subseteq PathIn(s, n)}
<1>1. SUFFICES ASSUME Bad # {} PROVE FALSE
  OBVIOUS
<1>2. Bad \subseteq Nat
  OBVIOUS
<1>3. \E n \in Bad : \A m \in Bad : n <= m
  <2> HIDE DEF Bad
  <2> QED BY <1>1, <1>2, LeastNat
<1>4. PICK n \in Bad : \A m \in Bad : n <= m
  BY <1>3
<1>5. n # 0
  BY <1>4, PathRec
<1>6. n \in 1..Len(s)
  BY <1>4, <1>5
<1>7. s[n].parent \in 0..(n - 1) /\ s[n].parent \in 0..Len(s)
  BY <1>6 DEF Older
<1>8. s[n].parent \notin Bad
  BY <1>4, <1>6, <1>7
<1>9. \A r \in PathIn(s, s[n].parent) : PathIn(s, r) \subseteq PathIn(s, s[n].parent)
  BY <1>8, <1>7
<1>10. PathIn(s, n) = {n} \cup PathIn(s, s[n].parent)
  BY <1>6, PathRec
<1>11. \A r \in PathIn(s, n) : PathIn(s, r) \subseteq PathIn(s, n)
  BY <1>9, <1>10
<1> QED BY <1>11, <1>4

\* Appending an event changes no path.
LEMMA PathGrows ==
    ASSUME NEW s, NEW t, Len(s) \in Nat, Len(t) \in Nat, Len(s) <= Len(t), Older(s), Older(t),
           \A i \in 1..Len(s) : t[i].parent = s[i].parent
    PROVE  \A i \in 0..Len(s) : PathIn(t, i) = PathIn(s, i)
<1> DEFINE Bad == {n \in 0..Len(s) : PathIn(t, n) # PathIn(s, n)}
<1>1. SUFFICES ASSUME Bad # {} PROVE FALSE
  OBVIOUS
<1>2. Bad \subseteq Nat
  OBVIOUS
<1>3. \E n \in Bad : \A m \in Bad : n <= m
  <2> HIDE DEF Bad
  <2> QED BY <1>1, <1>2, LeastNat
<1>4. PICK n \in Bad : \A m \in Bad : n <= m
  BY <1>3
<1>5. n # 0
  BY <1>4, PathRec
<1>6. n \in 1..Len(s) /\ n \in 1..Len(t)
  BY <1>4, <1>5
<1>7. s[n].parent \in 0..(n - 1) /\ s[n].parent \in 0..Len(s)
  BY <1>6 DEF Older
<1>8. s[n].parent \notin Bad
  BY <1>4, <1>6, <1>7
<1>9. PathIn(t, s[n].parent) = PathIn(s, s[n].parent)
  BY <1>8, <1>7
<1>10. PathIn(s, n) = {n} \cup PathIn(s, s[n].parent) /\ PathIn(t, n) = {n} \cup PathIn(t, t[n].parent)
  BY <1>6, PathRec
<1>11. PathIn(t, n) = PathIn(s, n)
  BY <1>9, <1>10, <1>6
<1> QED BY <1>11, <1>4

\* Min and Max of a set of numbers are members of it.
LEMMA MinMember ==
    ASSUME NEW S, S \subseteq Nat, S # {}
    PROVE  Min(S) \in S
<1>1. \E x \in S : \A y \in S : x <= y
  BY LeastNat
<1> QED BY <1>1 DEF Min

\* The largest of a bounded set is the smallest distance from the bound.
LEMMA MaxMember ==
    ASSUME NEW m \in Nat, NEW S, S \subseteq 0..m, S # {}
    PROVE  Max(S) \in S
<1> DEFINE D == {m - x : x \in S}
<1>1. D \subseteq Nat /\ D # {}
  OBVIOUS
<1>2. PICK d \in D : \A y \in D : d <= y
  BY <1>1, LeastNat
<1>3. PICK x \in S : d = m - x
  BY <1>2
<1>4. \A y \in S : x >= y
  <2> TAKE y \in S
  <2>1. m - y \in D
    OBVIOUS
  <2>2. d <= m - y
    BY <2>1, <1>2
  <2>3. x \in 0..m /\ y \in 0..m
    BY <1>3
  <2> QED BY <2>2, <2>3, <1>3
<1>5. \E z \in S : \A y \in S : z >= y
  BY <1>3, <1>4
<1> QED BY <1>5 DEF Max

(***************************************************************************)
(* The invariant.                                                          *)
(***************************************************************************)
\* ActiveLeaf, UnmatchedActions and the active branch, of any log.
Real(s) == {i \in DOMAIN s : s[i].kind # "err"}
LeafIn(s, leaf) == IF leaf # 0 THEN leaf ELSE IF Real(s) = {} THEN 0 ELSE Max(Real(s))
UnmatchedIn(s, events) ==
    {a \in events : s[a].kind = "act" /\ ~\E r \in events : s[r].kind = "res" /\ s[r].of = a}

Branch == PathIn(log, LeafIn(log, mem.leaf))
Pending == UnmatchedIn(log, Branch)

Event == [kind : Kinds, parent : 0..MaxLog, of : 0..MaxLog]

\* The log is a tree with the heads in it, and a result is below its action.
TreeOK ==
    /\ log \in Seq(Event) /\ Len(log) <= MaxLog
    /\ mem \in Fields /\ disk \in Fields
    /\ mem.leaf <= Len(log) /\ disk.leaf <= Len(log)
    /\ Older(log)
    /\ \A r \in 1..Len(log) : log[r].kind = "res" => log[r].of \in PathIn(log, r)

\* The definitions of the model, with the log as a parameter.
LEMMA SameNames ==
    /\ \A x : PathToRoot(x) = PathIn(log, x)
    /\ ActiveLeaf(mem) = LeafIn(log, mem.leaf)
    /\ ActiveLeaf(disk) = LeafIn(log, disk.leaf)
    /\ ActiveBranch = Branch
    /\ \A E : UnmatchedActions(E) = UnmatchedIn(log, E)
    /\ UnmatchedActions(ActiveBranch) = Pending
<1>1. \A x : PathToRoot(x) = PathIn(log, x)
  BY DEF PathToRoot, PathIn
<1>2. ActiveLeaf(mem) = LeafIn(log, mem.leaf) /\ ActiveLeaf(disk) = LeafIn(log, disk.leaf)
  BY DEF ActiveLeaf, LeafIn, Real
<1>3. ActiveBranch = Branch
  BY <1>1, <1>2 DEF ActiveBranch, Branch
<1>4. \A E : UnmatchedActions(E) = UnmatchedIn(log, E)
  BY DEF UnmatchedActions, UnmatchedIn
<1> QED BY <1>1, <1>2, <1>3, <1>4 DEF Pending

\* The head is an event of the log, or nothing.
LEMMA LeafInLog ==
    ASSUME TreeOK
    PROVE  /\ Len(log) \in Nat
           /\ LeafIn(log, mem.leaf) \in 0..Len(log)
           /\ LeafIn(log, disk.leaf) \in 0..Len(log)
           /\ mem.leaf \in 0..Len(log) /\ disk.leaf \in 0..Len(log)
<1>1. Len(log) \in Nat /\ DOMAIN log = 1..Len(log)
  BY DEF TreeOK
<1>2. mem.leaf \in 0..Len(log) /\ disk.leaf \in 0..Len(log)
  BY <1>1, TranscriptAssumption DEF TreeOK, Fields
<1>3. Real(log) \subseteq 0..Len(log)
  BY <1>1 DEF Real
<1>4. Real(log) # {} => Max(Real(log)) \in Real(log)
  BY <1>1, <1>3, MaxMember
<1>5. \A x \in 0..Len(log) : LeafIn(log, x) \in 0..Len(log)
  BY <1>1, <1>3, <1>4 DEF LeafIn
<1> QED BY <1>1, <1>2, <1>5

\* The active branch consists of events of the log.
LEMMA BranchInLog ==
    ASSUME TreeOK
    PROVE  Branch \subseteq 1..Len(log) /\ Pending \subseteq Branch
<1>1. Len(log) \in Nat /\ LeafIn(log, mem.leaf) \in 0..Len(log)
  BY LeafInLog
<1>2. PathIn(log, LeafIn(log, mem.leaf)) \subseteq 1..LeafIn(log, mem.leaf)
  BY <1>1, PathRange DEF TreeOK
<1> QED BY <1>1, <1>2 DEF Branch, Pending, UnmatchedIn

\* What append_event does to the tree: the paths of the old events stay, the new
\* one's is its parent's and itself.
LEMMA TreeGrows ==
    ASSUME TreeOK, NEW parent \in 0..Len(log), NEW kind \in Kinds, NEW of \in 0..MaxLog,
           NEW fields \in Fields, AppendChild(parent, kind, of, fields),
           kind = "res" => of \in PathIn(log, parent)
    PROVE  /\ log' \in Seq(Event) /\ Len(log') = Len(log) + 1 /\ Len(log') <= MaxLog
           /\ mem' \in Fields /\ mem'.leaf = Len(log) + 1 /\ mem'.status = fields.status
           /\ \A i \in 1..Len(log) : log'[i] = log[i]
           /\ log'[Len(log) + 1].kind = kind /\ log'[Len(log) + 1].of = of
           /\ Older(log')
           /\ \A i \in 0..Len(log) : PathIn(log', i) = PathIn(log, i)
           /\ PathIn(log', Len(log) + 1) = {Len(log) + 1} \cup PathIn(log, parent)
           /\ \A r \in 1..Len(log') : log'[r].kind = "res" => log'[r].of \in PathIn(log', r)
<1> DEFINE e == [kind |-> kind, parent |-> parent, of |-> of]
           n == Len(log) + 1
<1>1. Len(log) \in Nat /\ n <= MaxLog /\ log \in Seq(Event)
  BY TranscriptAssumption DEF TreeOK, AppendChild
<1>2. parent \in 0..MaxLog
  BY <1>1, TranscriptAssumption
<1>3. e \in Event
  BY <1>2 DEF Event
<1>4. log' = Append(log, e)
  BY DEF AppendChild
<1> HIDE DEF e
<1>5. /\ log' \in Seq(Event) /\ Len(log') = n
      /\ \A i \in 1..Len(log) : log'[i] = log[i]
      /\ log'[n] = e
  BY <1>1, <1>3, <1>4
<1>6. e.kind = kind /\ e.parent = parent /\ e.of = of
  BY DEF e
<1>7. mem' \in Fields /\ mem'.leaf = n /\ mem'.status = fields.status
  <2>1. n \in 0..MaxLog
    BY <1>1, TranscriptAssumption
  <2>2. mem' = [fields EXCEPT !.leaf = n, !.lastMsg = IF kind = "msg" THEN n ELSE @]
    BY DEF AppendChild
  <2> HIDE DEF n
  <2> QED BY <2>1, <2>2 DEF Fields
<1>8. Older(log')
  <2> SUFFICES ASSUME NEW i \in 1..n PROVE log'[i].parent \in 0..(i - 1)
    BY <1>5 DEF Older
  <2>1. CASE i = n
    BY <2>1, <1>1, <1>5, <1>6
  <2>2. CASE i # n
    <3>1. i \in 1..Len(log)
      BY <2>2, <1>1
    <3> QED BY <3>1, <1>5 DEF TreeOK, Older
  <2> QED BY <2>1, <2>2
<1>9. \A i \in 0..Len(log) : PathIn(log', i) = PathIn(log, i)
  <2>1. \A i \in 1..Len(log) : log'[i].parent = log[i].parent
    BY <1>5
  <2>2. Len(log') \in Nat /\ Len(log) <= Len(log')
    BY <1>1, <1>5
  <2>3. Older(log)
    BY DEF TreeOK
  <2> QED BY <2>1, <2>2, <2>3, <1>1, <1>8, PathGrows
<1>10. PathIn(log', n) = {n} \cup PathIn(log, parent)
  <2>1. n \in 1..Len(log') /\ Len(log') \in Nat
    BY <1>1, <1>5
  <2>2. PathIn(log', n) = {n} \cup PathIn(log', log'[n].parent)
    BY <2>1, <1>8, PathRec
  <2> QED BY <2>2, <1>5, <1>6, <1>9
<1>11. ASSUME NEW r \in 1..Len(log'), log'[r].kind = "res" PROVE log'[r].of \in PathIn(log', r)
  <2>1. CASE r = n
    BY <2>1, <1>5, <1>6, <1>10, <1>11
  <2>2. CASE r # n
    <3>1. r \in 1..Len(log) /\ r \in 0..Len(log)
      BY <2>2, <1>1, <1>5, <1>11
    <3> QED BY <3>1, <1>5, <1>9, <1>11 DEF TreeOK
  <2> QED BY <2>1, <2>2
<1> QED BY <1>1, <1>5, <1>6, <1>7, <1>8, <1>9, <1>10, <1>11

\* What it does to the active branch and to its actions without a result.
Grown(kind, of) ==
    /\ Len(log') = Len(log) + 1
    /\ Branch' = Branch \cup {Len(log) + 1}
    /\ kind = "act" => Pending' = Pending \cup {Len(log) + 1}
    /\ kind # "act" => Pending' \subseteq Pending
    /\ kind = "res" => of \notin Pending'

\* append_event at the head, of anything but a result without its action.
LEMMA BranchGrows ==
    ASSUME TreeOK, NEW kind \in Kinds, NEW of \in 0..MaxLog, NEW fields \in Fields,
           AppendEvent(kind, of, fields), kind = "res" => of \in Branch
    PROVE  Grown(kind, of)
<1> DEFINE n == Len(log) + 1
           parent == LeafIn(log, mem.leaf)
<1>1. parent \in 0..Len(log) /\ Len(log) \in Nat
  BY LeafInLog
<1>2. AppendChild(parent, kind, of, fields)
  BY SameNames DEF AppendEvent
<1>3. kind = "res" => of \in PathIn(log, parent)
  BY DEF Branch
<1> HIDE DEF parent
<1>4. /\ Len(log') = n /\ mem'.leaf = n
      /\ \A i \in 1..Len(log) : log'[i] = log[i]
      /\ log'[n].kind = kind /\ log'[n].of = of
      /\ PathIn(log', n) = {n} \cup PathIn(log, parent)
  BY <1>1, <1>2, <1>3, TreeGrows
<1>5. Branch' = Branch \cup {n}
  <2>1. LeafIn(log', mem'.leaf) = n
    BY <1>1, <1>4 DEF LeafIn
  <2> QED BY <2>1, <1>4 DEF Branch, parent
<1>6. Branch \subseteq 1..Len(log)
  BY BranchInLog
<1>7. \A i \in Branch : i # n /\ log'[i] = log[i]
  BY <1>1, <1>4, <1>6
<1>8. Pending' = {a \in Branch' : log'[a].kind = "act"
                     /\ ~\E r \in Branch' : log'[r].kind = "res" /\ log'[r].of = a}
  BY DEF Pending, UnmatchedIn
<1>9. Pending = {a \in Branch : log[a].kind = "act"
                     /\ ~\E r \in Branch : log[r].kind = "res" /\ log[r].of = a}
  BY DEF Pending, UnmatchedIn
<1>10. \A r \in Branch : log[r].kind = "res" => log[r].of # n
  <2> SUFFICES ASSUME NEW r \in Branch, log[r].kind = "res" PROVE log[r].of # n
    OBVIOUS
  <2>1. r \in 1..Len(log) /\ r \in 0..Len(log)
    BY <1>1, <1>6
  <2>2. log[r].of \in PathIn(log, r)
    BY <2>1 DEF TreeOK
  <2>3. PathIn(log, r) \subseteq 1..r
    BY <1>1, <2>1, PathRange DEF TreeOK
  <2>4. log[r].of \in 1..r
    BY <2>2, <2>3
  <2> QED BY <2>1, <2>4, <1>1
<1> HIDE DEF n
<1>11. kind = "act" => Pending' = Pending \cup {n}
  BY <1>4, <1>5, <1>7, <1>8, <1>9, <1>10
<1>12. kind # "act" => Pending' \subseteq Pending
  BY <1>4, <1>5, <1>7, <1>8, <1>9
<1>13. kind = "res" => of \notin Pending'
  BY <1>4, <1>5, <1>8
<1> QED BY <1>4, <1>5, <1>11, <1>12, <1>13 DEF Grown, n

\* Where the block of a step is open, and where the run loop has the lock.
InBlock == {"llm", "calls", "tools", "emit", "reject", "end", "ending", "orphans"}
Owning == InBlock \ {"llm"}
Writing == {"send", "pause", "reject"}
Unserved == Starting \cup {"down"}

\* The types of everything but the log and the base state.
StateOK ==
    /\ dirty \in BOOLEAN
    /\ owner \in {"none", "run", "client"}
    /\ run.pc \in RunPcs /\ run.seen \in 0..MaxLog
    /\ run = [pc |-> run.pc, todo |-> run.todo, left |-> run.left, seen |-> run.seen]
    /\ client.pc \in {"off", "send", "pause", "pending", "reject"}
    /\ client = [pc |-> client.pc, todo |-> client.todo]
    /\ crashes \in 0..MaxCrashes /\ faults \in 0..MaxFaults
    /\ ran \in [1..MaxLog -> Nat] /\ lost \subseteq 1..MaxLog

\* Who is in a block, and how deep the blocks are nested.
Blocks ==
    /\ run.pc \in Owning <=> owner = "run"
    /\ client.pc \in Writing <=> owner = "client"
    /\ depth = (IF run.pc \in InBlock THEN 1 ELSE 0) + (IF client.pc \in Writing THEN 1 ELSE 0)
    /\ run.pc \in Unserved => client.pc = "off"

\* A base state that is not marked dirty is the one on disk, inside a block, too.
FlagOK ==
    /\ ~dirty /\ run.pc \notin Starting => disk = mem
    /\ run.pc = "down" => disk = mem

\* The calls in hand are on the active branch, without a result while they are
\* still to be started, and there are none while the model is called.
Todo ==
    /\ run.todo \subseteq Branch /\ client.todo \subseteq Branch
    /\ run.pc \in {"calls", "tools"} => run.todo \subseteq Pending
    /\ run.pc \in {"calls", "tools", "emit", "reject"} => run.todo # {}
    /\ run.pc = "llm" => run.todo = {}
    /\ IF run.pc = "tools" THEN run.left # {} /\ run.left \subseteq run.todo ELSE run.left = {}
    /\ run.pc \in Unserved => run.todo = {} /\ client.todo = {}

\* A tool that may be started: it never was, or its result is lost.
Fresh(a) == ran[a] = 0 \/ a \in lost

\* With no crash so far: a tool was started once at most, unless its result is
\* lost, and never that of an action that is not in the log.
OnceBound == \A a \in 1..MaxLog : (a \in lost \/ ran[a] <= 1) /\ (a > Len(log) => ran[a] = 0)

\* Where the loop stands, it knows of every tool it has started: an action without
\* a result is fresh, or in hand.
OnceTodo ==
    /\ run.pc \notin Unserved
    /\ run.pc = "tools" => \A a \in run.left : Fresh(a)
    /\ run.pc \notin {"tools", "emit", "cancelled", "orphans"} => \A a \in Pending : Fresh(a)
    /\ run.pc \in {"tools", "emit", "orphans"} => \A a \in Pending : a \in run.todo \/ Fresh(a)

Once == crashes = 0 => OnceBound /\ OnceTodo

\* The head on disk is an ancestor of the one in memory, or the same.
HeadOK == run.pc \notin Starting => PathIn(log, disk.leaf) \subseteq PathIn(log, mem.leaf)

\* The model is called with every call of the branch answered.
Answered == run.pc = "llm" => Pending = {}

\* The inductive invariant.
TranscriptInv ==
    TreeOK /\ StateOK /\ Blocks /\ FlagOK /\ Todo /\ Once /\ HeadOK /\ Answered

\* It holds of a conversation that was just created.
LEMMA InitInv == Init => TranscriptInv
<1> SUFFICES ASSUME Init PROVE TranscriptInv
  OBVIOUS
<1>1. Len(log) = 0 /\ mem.leaf = 0 /\ mem = disk
  BY DEF Init
<1>2. TreeOK
  BY <1>1, TranscriptAssumption DEF Init, TreeOK, Fields, Statuses, Older, Event
<1>3. Branch = {} /\ Pending = {}
  BY <1>1, <1>2, BranchInLog
<1>4. StateOK
  <2>1. run = [pc |-> "off", todo |-> {}, left |-> {}, seen |-> 0] /\ client = [pc |-> "off", todo |-> {}]
    BY DEF Init
  <2>2. ran \in [1..MaxLog -> Nat] /\ lost \subseteq 1..MaxLog
    BY DEF Init
  <2>3. 0 \in 0..MaxLog /\ 0 \in 0..MaxCrashes /\ 0 \in 0..MaxFaults
    BY TranscriptAssumption
  <2>4. run.pc \in RunPcs /\ run.seen \in 0..MaxLog
        /\ run = [pc |-> run.pc, todo |-> run.todo, left |-> run.left, seen |-> run.seen]
    BY <2>1, <2>3 DEF RunPcs
  <2>5. client.pc = "off" /\ client = [pc |-> client.pc, todo |-> client.todo]
    BY <2>1
  <2> QED BY <2>2, <2>3, <2>4, <2>5 DEF Init, StateOK
<1>5. Blocks /\ FlagOK /\ Todo /\ HeadOK /\ Answered
  BY <1>1, <1>3 DEF Init, Blocks, FlagOK, Todo, HeadOK, Answered, InBlock, Owning, Writing,
                    Unserved, Starting
<1>6. Once
  BY <1>3 DEF Init, Once, OnceBound, OnceTodo, Unserved, Starting
<1> QED BY <1>2, <1>4, <1>5, <1>6 DEF TranscriptInv

\* The members of the sets of calls still to do are events of the branch.
LEMMA TodoMembers ==
    ASSUME TranscriptInv
    PROVE  /\ run.todo \subseteq 1..Len(log) /\ client.todo \subseteq 1..Len(log)
           /\ run.todo # {} => Min(run.todo) \in run.todo /\ Min(run.todo) \in 0..MaxLog
           /\ client.todo # {} => Min(client.todo) \in client.todo /\ Min(client.todo) \in 0..MaxLog
<1>1. Branch \subseteq 1..Len(log) /\ Len(log) \in Nat /\ Len(log) <= MaxLog
  BY BranchInLog, LeafInLog DEF TranscriptInv, TreeOK
<1>2. run.todo \subseteq 1..Len(log) /\ client.todo \subseteq 1..Len(log)
  BY <1>1 DEF TranscriptInv, Todo
<1>3. run.todo \subseteq Nat /\ client.todo \subseteq Nat /\ 1..Len(log) \subseteq 0..MaxLog
  BY <1>1, <1>2, TranscriptAssumption
<1>4. run.todo # {} => Min(run.todo) \in run.todo
  BY <1>3, MinMember
<1>5. client.todo # {} => Min(client.todo) \in client.todo
  BY <1>3, MinMember
<1> QED BY <1>2, <1>3, <1>4, <1>5

\* What appends an event at the head, and which.
LEMMA Appends ==
    ASSUME TranscriptInv, [Next]_vars
    PROVE  /\ SendMessage => \E f \in Fields : AppendEvent("msg", 0, f)
           /\ Pause \/ Reply \/ Nudge \/ CancelledPaused => \E f \in Fields : AppendEvent("node", 0, f)
           /\ RecordFailure \/ Note => \E f \in Fields : AppendEvent("err", 0, f)
           /\ ToolCall => \E f \in Fields : AppendEvent("act", 0, f)
           /\ RejectOne => /\ Min(client.todo) \in client.todo /\ Min(client.todo) \in 0..MaxLog
                           /\ \E f \in Fields : AppendEvent("res", Min(client.todo), f)
           /\ EmitResult \/ RejectEmit \/ OrphanError =>
                           /\ Min(run.todo) \in run.todo /\ Min(run.todo) \in 0..MaxLog
                           /\ \E f \in Fields : AppendEvent("res", Min(run.todo), f)
<1>1. mem \in Fields
  BY DEF TranscriptInv, TreeOK
<1>2. \A s \in Statuses : [mem EXCEPT !.status = s] \in Fields
  BY <1>1 DEF Fields
<1>3. mem.status \in Statuses
  BY <1>1 DEF Fields
<1>4. SendMessage => \E f \in Fields : AppendEvent("msg", 0, f)
  BY <1>1, <1>2 DEF SendMessage, Statuses
<1>5. Pause \/ Reply \/ Nudge \/ CancelledPaused => \E f \in Fields : AppendEvent("node", 0, f)
  BY <1>1, <1>2 DEF Pause, Reply, Nudge, CancelledPaused, Statuses
<1>6. RecordFailure \/ Note => \E f \in Fields : AppendEvent("err", 0, f)
  BY <1>1, <1>2 DEF RecordFailure, Note, Statuses
<1>7. ToolCall => \E f \in Fields : AppendEvent("act", 0, f)
  BY <1>1 DEF ToolCall
<1>8. ASSUME RejectOne
      PROVE  /\ Min(client.todo) \in client.todo /\ Min(client.todo) \in 0..MaxLog
             /\ \E f \in Fields : AppendEvent("res", Min(client.todo), f)
  BY <1>8, <1>1, TodoMembers DEF RejectOne
<1>9. ASSUME EmitResult \/ RejectEmit \/ OrphanError
      PROVE  /\ Min(run.todo) \in run.todo /\ Min(run.todo) \in 0..MaxLog
             /\ \E f \in Fields : AppendEvent("res", Min(run.todo), f)
  <2>1. run.todo # {}
    BY <1>9 DEF EmitResult, RejectEmit, OrphanError, TranscriptInv, Todo
  <2>2. EmitResult => \E f \in Fields : AppendEvent("res", Min(run.todo), f)
    <3> SUFFICES ASSUME EmitResult PROVE \E f \in Fields : AppendEvent("res", Min(run.todo), f)
      OBVIOUS
    <3>1. PICK s \in (IF run.todo = {Min(run.todo)} THEN {mem.status, "finished"} ELSE {mem.status}) :
             AppendEvent("res", Min(run.todo), [mem EXCEPT !.status = s])
      BY DEF EmitResult
    <3>2. s \in Statuses
      BY <3>1, <1>3 DEF Statuses
    <3> QED BY <3>1, <3>2, <1>2
  <2>3. RejectEmit \/ OrphanError => \E f \in Fields : AppendEvent("res", Min(run.todo), f)
    BY <1>1 DEF RejectEmit, OrphanError
  <2> QED BY <2>1, <2>2, <2>3, <1>9, TodoMembers
<1> QED BY <1>4, <1>5, <1>6, <1>7, <1>8, <1>9

\* What that does to the branch.
LEMMA Grows ==
    ASSUME TranscriptInv, [Next]_vars
    PROVE  /\ SendMessage => Grown("msg", 0)
           /\ Pause \/ Reply \/ Nudge \/ CancelledPaused => Grown("node", 0)
           /\ RecordFailure => Grown("err", 0)
           /\ ToolCall => Grown("act", 0)
           /\ RejectOne => Grown("res", Min(client.todo))
           /\ EmitResult \/ RejectEmit \/ OrphanError => Grown("res", Min(run.todo))
<1>1. 0 \in 0..MaxLog /\ {"msg", "act", "res", "node", "err"} = Kinds /\ TreeOK
  BY TranscriptAssumption DEF Kinds, TranscriptInv
<1>2. \A k \in {"msg", "act", "node", "err"} :
         (\E f \in Fields : AppendEvent(k, 0, f)) => Grown(k, 0)
  BY <1>1, BranchGrows
<1>3. \A a \in Branch \cap (0..MaxLog) :
         (\E f \in Fields : AppendEvent("res", a, f)) => Grown("res", a)
  BY <1>1, BranchGrows
<1>4. run.todo \subseteq Branch /\ client.todo \subseteq Branch
  BY DEF TranscriptInv, Todo
<1> QED BY <1>2, <1>3, <1>4, Appends

\* What leaves the tree and the head alone.
Kept ==
    /\ log' = log /\ mem' \in Fields /\ mem'.leaf = mem.leaf
    /\ Branch' = Branch /\ Pending' = Pending

\* The steps that do.
LEMMA Keeps ==
    ASSUME TranscriptInv,
           \/ RejectPending \/ RejectEnter \/ ClientExit \/ RunStart \/ LoopBreak \/ StepBegin
           \/ Confirm \/ Execute \/ RunTool \/ RejectSuperseded \/ StepEnd \/ LLMFails \/ Interrupt
           \/ AppendRaises \/ MarkFailed \/ FailureEnd \/ HandleCancelled \/ Start \/ SaveHead \/ UNCHANGED vars
    PROVE  Kept
<1>1. mem \in Fields /\ disk \in Fields /\ (run.pc = "down" => mem = disk)
  BY DEF TranscriptInv, TreeOK, FlagOK
<1>2. log' = log
  BY DEF RejectPending, RejectEnter, ClientExit, RunStart, LoopBreak, StepBegin, Confirm, Execute,
         RunTool, RejectSuperseded, StepEnd, LLMFails, Interrupt, AppendRaises, MarkFailed, FailureEnd,
         HandleCancelled, Start, SaveHead, vars
<1>3. mem' = mem \/ \E s \in Statuses : mem' = [mem EXCEPT !.status = s]
  <2>1. mem.status \in Statuses
    BY <1>1 DEF Fields
  <2>2. CASE RejectPending \/ ClientExit \/ LoopBreak \/ Execute \/ RunTool \/ LLMFails \/ Interrupt
             \/ AppendRaises \/ FailureEnd \/ HandleCancelled \/ SaveHead \/ UNCHANGED vars
    BY <2>2 DEF RejectPending, ClientExit, LoopBreak, Execute, RunTool, LLMFails, Interrupt,
                AppendRaises, FailureEnd, HandleCancelled, SaveHead, vars
  <2>3. CASE RejectEnter \/ RunStart \/ StepBegin \/ Confirm \/ RejectSuperseded \/ MarkFailed
    BY <2>1, <2>3 DEF RejectEnter, RunStart, StepBegin, Confirm, RejectSuperseded, MarkFailed, Statuses
  <2>4. CASE StepEnd
    <3>1. PICK s \in (IF Superseded THEN {"running", "idle"} ELSE {mem.status}) :
             mem' = [mem EXCEPT !.status = s]
      BY <2>4 DEF StepEnd
    <3>2. s \in Statuses
      BY <3>1, <2>1 DEF Statuses
    <3> QED BY <3>1, <3>2
  <2>5. CASE Start
    BY <2>1, <2>5, <1>1 DEF Start, Statuses
  <2> QED BY <2>2, <2>3, <2>4, <2>5
<1>4. mem' \in Fields /\ mem'.leaf = mem.leaf
  BY <1>1, <1>3 DEF Fields
<1>5. Branch' = Branch
  BY <1>2, <1>4 DEF Branch
<1>6. Pending' = Pending
  BY <1>2, <1>5 DEF Pending
<1> QED BY <1>2, <1>4, <1>5, <1>6 DEF Kept

\* The disk gets what memory is, or stays; a start is not over before it is saved.
LEMMA DiskStep ==
    ASSUME TranscriptInv, [Next]_vars
    PROVE  /\ disk' = disk \/ disk' = mem'
           /\ run.pc \in Starting /\ run'.pc \notin Starting => disk' = mem'
<1> USE DEF Exit, ExitFails, Flush, FlushFails, Leave, Deferred, Immediate
<1>1. CASE SendMessage \/ Pause \/ RejectPending \/ RejectEnter \/ RejectOne \/ ClientExit
  BY <1>1 DEF SendMessage, Pause, RejectPending, RejectEnter, RejectOne, ClientExit, Served
<1>2. CASE RunStart \/ LoopBreak \/ StepBegin \/ Reply \/ Nudge \/ ToolCall \/ Confirm \/ Execute
  BY <1>2 DEF RunStart, LoopBreak, StepBegin, Reply, Nudge, ToolCall, Confirm, Execute, Starting
<1>3. CASE RunTool \/ EmitResult \/ RejectSuperseded \/ RejectEmit \/ StepEnd
  BY <1>3 DEF RunTool, EmitResult, RejectSuperseded, RejectEmit, StepEnd, Starting
<1>4. CASE \/ LLMFails \/ AppendRaises \/ RecordFailure \/ MarkFailed \/ FailureEnd \/ Interrupt
           \/ HandleCancelled \/ OrphanError \/ CancelledPaused
  BY <1>4 DEF LLMFails, AppendRaises, RecordFailure, MarkFailed, FailureEnd, Interrupt, HandleCancelled,
              OrphanError, CancelledPaused, Starting
<1>5. CASE Crash
  BY <1>5 DEF Crash
<1>6. CASE Start \/ Answer \/ Note \/ SaveHead
  BY <1>6 DEF Start, Answer, Note, SaveHead, Starting, Goto, TranscriptInv, StateOK
<1>7. CASE UNCHANGED vars
  BY <1>7 DEF vars
<1> QED BY <1>1, <1>2, <1>3, <1>4, <1>5, <1>6, <1>7 DEF Next

\* The four things a step can do to the tree and its head.
LEMMA TreeMoves ==
    ASSUME TranscriptInv, [Next]_vars
    PROVE  \/ Kept
           \/ Crash
           \/ \E kind \in Kinds, of \in 0..MaxLog, f \in Fields :
                 AppendEvent(kind, of, f) /\ (kind = "res" => of \in Branch)
           \/ run.pc = "answer" /\ run'.pc = "answered" /\ \E a \in 1..Len(log) : AppendChild(a, "res", a, mem)
<1>1. run.todo \subseteq Branch /\ client.todo \subseteq Branch
  BY DEF TranscriptInv, Todo
<1>2. CASE SendMessage \/ Pause \/ Reply \/ Nudge \/ ToolCall \/ RecordFailure \/ CancelledPaused \/ Note
  <2>1. 0 \in 0..MaxLog
    BY TranscriptAssumption
  <2>2. \E kind \in {"msg", "node", "act", "err"}, f \in Fields : AppendEvent(kind, 0, f)
    BY <1>2, Appends
  <2> QED BY <2>1, <2>2 DEF Kinds
<1>3. CASE RejectOne \/ EmitResult \/ RejectEmit \/ OrphanError
  <2>1. \E of \in 0..MaxLog, f \in Fields : AppendEvent("res", of, f) /\ of \in Branch
    BY <1>1, <1>3, Appends
  <2> QED BY <2>1 DEF Kinds
<1>4. CASE Answer
  <2> DEFINE un == UnmatchedActions(DOMAIN log)
  <2>1. un \subseteq 1..Len(log) /\ un \subseteq Nat
    BY DEF UnmatchedActions, TranscriptInv, TreeOK
  <2>2. un # {} => Min(un) \in un
    <3> HIDE DEF un
    <3> QED BY <2>1, MinMember
  <2>3. CASE un # {} /\ AppendChild(Min(un), "res", Min(un), mem) /\ Goto("answered")
    <3>1. run.pc = "answer" /\ run'.pc = "answered"
      BY <1>4, <2>3 DEF Answer, Goto, TranscriptInv, StateOK
    <3>2. Min(un) \in 1..Len(log)
      BY <2>1, <2>2, <2>3
    <3> QED BY <3>1, <3>2, <2>3
  <2>4. CASE UNCHANGED <<log, mem, disk, dirty>>
    <3>1. Kept
      BY <2>4 DEF Kept, Branch, Pending, TranscriptInv, TreeOK
    <3> QED BY <3>1
  <2> QED BY <1>4, <2>3, <2>4 DEF Answer
<1>5. CASE \/ RejectPending \/ RejectEnter \/ ClientExit \/ RunStart \/ LoopBreak \/ StepBegin
           \/ Confirm \/ Execute \/ RunTool \/ RejectSuperseded \/ StepEnd \/ LLMFails \/ Interrupt
           \/ AppendRaises \/ MarkFailed \/ FailureEnd \/ HandleCancelled \/ Start \/ SaveHead \/ UNCHANGED vars
  BY <1>5, Keeps
<1> QED BY <1>2, <1>3, <1>4, <1>5 DEF Next

\* An event that is appended at the head, or to an action, is a child of an event
\* of the log, and the branch of the head goes on from what it was.
LEMMA TreeStep ==
    ASSUME TranscriptInv, [Next]_vars
    PROVE  /\ TreeOK' /\ HeadOK'
           /\ \A i \in 0..Len(log) : PathIn(log', i) = PathIn(log, i)
           /\ run.pc \notin Starting => PathIn(log, disk.leaf) \subseteq PathIn(log', disk'.leaf)
<1> DEFINE Old == \A i \in 0..Len(log) : PathIn(log', i) = PathIn(log, i)
           Fwd == run.pc \notin Starting => PathIn(log, mem.leaf) \subseteq PathIn(log', mem'.leaf)
<1>0. /\ TreeOK /\ HeadOK
      /\ mem.leaf \in 0..Len(log) /\ disk.leaf \in 0..Len(log) /\ Len(log) \in Nat
  BY LeafInLog DEF TranscriptInv
<1>1. ASSUME NEW parent \in 0..Len(log), NEW kind \in Kinds, NEW of \in 0..MaxLog, NEW f \in Fields,
             AppendChild(parent, kind, of, f), kind = "res" => of \in PathIn(log, parent)
      PROVE  TreeOK' /\ Old /\ PathIn(log', mem'.leaf) = {Len(log) + 1} \cup PathIn(log, parent)
  <2>1. /\ log' \in Seq(Event) /\ Len(log') = Len(log) + 1 /\ Len(log') <= MaxLog
        /\ mem' \in Fields /\ mem'.leaf = Len(log) + 1
        /\ Older(log')
        /\ Old
        /\ PathIn(log', Len(log) + 1) = {Len(log) + 1} \cup PathIn(log, parent)
        /\ \A r \in 1..Len(log') : log'[r].kind = "res" => log'[r].of \in PathIn(log', r)
    BY <1>0, <1>1, TreeGrows
  <2>2. disk' \in Fields /\ disk'.leaf <= Len(log')
    <3>1. disk \in Fields /\ disk.leaf <= Len(log')
      BY <1>0, <2>1 DEF TreeOK
    <3>2. mem' \in Fields /\ mem'.leaf <= Len(log')
      BY <1>0, <2>1
    <3> QED BY <3>1, <3>2, DiskStep
  <2>3. mem'.leaf <= Len(log')
    BY <1>0, <2>1
  <2> QED BY <2>1, <2>2, <2>3 DEF TreeOK
<1>2. CASE Kept
  <2>1. TreeOK'
    <3>1. disk' \in Fields /\ disk'.leaf <= Len(log')
      BY <1>0, <1>2, DiskStep DEF Kept, TreeOK
    <3> QED BY <3>1, <1>0, <1>2 DEF Kept, TreeOK
  <2>2. Old /\ Fwd
    BY <1>2 DEF Kept
  <2> QED BY <2>1, <2>2, <1>0, DiskStep DEF HeadOK
<1>3. CASE Crash
  <2>1. log' = log /\ mem' = disk /\ disk' = disk
    BY <1>3 DEF Crash
  <2> QED BY <2>1, <1>0 DEF TreeOK, HeadOK
<1>4. CASE \E kind \in Kinds, of \in 0..MaxLog, f \in Fields :
                 AppendEvent(kind, of, f) /\ (kind = "res" => of \in Branch)
  <2> DEFINE parent == LeafIn(log, mem.leaf)
  <2>1. parent \in 0..Len(log)
    BY <1>0, LeafInLog
  <2>2. PICK kind \in Kinds, of \in 0..MaxLog, f \in Fields :
                 AppendEvent(kind, of, f) /\ (kind = "res" => of \in Branch)
    BY <1>4
  <2>3. AppendChild(parent, kind, of, f) /\ (kind = "res" => of \in PathIn(log, parent))
    BY <2>2, SameNames DEF AppendEvent, Branch
  <2>4. TreeOK' /\ Old /\ PathIn(log', mem'.leaf) = {Len(log) + 1} \cup PathIn(log, parent)
    BY <2>1, <2>2, <2>3, <1>1
  <2>5. PathIn(log, mem.leaf) \subseteq PathIn(log, parent)
    <3>1. CASE mem.leaf = 0
      BY <3>1, <1>0, PathRec DEF TreeOK
    <3>2. CASE mem.leaf # 0
      BY <3>2 DEF LeafIn
    <3> QED BY <3>1, <3>2
  <2>6. Fwd
    BY <2>4, <2>5
  <2> QED BY <2>4, <2>6, <1>0, DiskStep DEF HeadOK
<1>5. CASE run.pc = "answer" /\ run'.pc = "answered" /\ \E a \in 1..Len(log) : AppendChild(a, "res", a, mem)
  <2>1. PICK a \in 1..Len(log) : AppendChild(a, "res", a, mem)
    BY <1>5
  <2>2. a \in 0..Len(log) /\ a \in 0..MaxLog /\ "res" \in Kinds /\ mem \in Fields
    BY <2>1, <1>0, TranscriptAssumption DEF TreeOK, Kinds
  <2>3. a \in PathIn(log, a)
    BY <2>1, <1>0, PathRec DEF TreeOK
  <2>4. TreeOK' /\ Old
    BY <2>1, <2>2, <2>3, <1>1
  <2> QED BY <2>4, <1>5 DEF HeadOK, Starting
<1> QED BY <1>2, <1>3, <1>4, <1>5, TreeMoves

\* What the end of a block does, whether an append or its save fails or not.
LEMMA Exits ==
    ASSUME dirty \in BOOLEAN, faults \in 0..MaxFaults,
           (Exit /\ UNCHANGED faults) \/ (Exit /\ Fault) \/ ExitFails
    PROVE  /\ owner' = "none" /\ depth' = depth - 1
           /\ dirty' \in BOOLEAN /\ faults' \in 0..MaxFaults
<1>0. Fault => faults' \in 0..MaxFaults
  BY TranscriptAssumption DEF Fault
<1>1. CASE Exit
  <2>1. dirty' \in BOOLEAN
    BY <1>1, Zenon DEF Exit, Flush, Deferred
  <2>2. faults' \in 0..MaxFaults
    BY <1>0 DEF ExitFails, FlushFails
  <2> QED BY <1>1, <2>1, <2>2 DEF Exit
<1>2. CASE ExitFails
  <2>1. faults' \in 0..MaxFaults
    BY <1>2, <1>0 DEF ExitFails, FlushFails
  <2>2. owner' = "none" /\ depth' = depth - 1
    BY <1>2 DEF ExitFails
  <2>3. dirty' \in BOOLEAN
    BY <1>2, Zenon DEF ExitFails, FlushFails
  <2> QED BY <2>1, <2>2, <2>3
<1> QED BY <1>1, <1>2

\* A block of the run loop: the run goes on, or its save has failed.
LEMMA Leaves ==
    ASSUME StateOK, NEW pc \in RunPcs, NEW todo, NEW left,
           Leave([run EXCEPT !.pc = pc, !.todo = todo, !.left = left])
    PROVE  /\ owner' = "none" /\ depth' = depth - 1
           /\ dirty' \in BOOLEAN /\ faults' \in 0..MaxFaults
           /\ Exit \/ ExitFails
           /\ run'.pc \in {pc, "failed"} /\ run'.todo = todo /\ run'.left = left /\ run'.seen = run.seen
           /\ run' = [pc |-> run'.pc, todo |-> run'.todo, left |-> run'.left, seen |-> run'.seen]
           /\ faults' = faults => run'.pc = pc
           /\ run'.pc \in RunPcs
<1>1. (Exit /\ UNCHANGED faults) \/ ExitFails
  BY DEF Leave
<1>2. /\ owner' = "none" /\ depth' = depth - 1
      /\ dirty' \in BOOLEAN /\ faults' \in 0..MaxFaults
  BY <1>1, Exits DEF StateOK
<1>3. CASE Exit /\ UNCHANGED faults /\ run' = [run EXCEPT !.pc = pc, !.todo = todo, !.left = left]
  BY <1>2, <1>3 DEF StateOK
<1>4. CASE ExitFails /\ run' = [[run EXCEPT !.pc = pc, !.todo = todo, !.left = left] EXCEPT !.pc = "failed"]
  <2>1. faults' # faults
    BY <1>4 DEF ExitFails, FlushFails, Fault, StateOK
  <2> QED BY <1>2, <1>4, <2>1 DEF StateOK, RunPcs
<1> QED BY <1>3, <1>4 DEF Leave

\* The blocks of the run loop that end so.
LEMMA LeaveSteps ==
    ASSUME TranscriptInv
    PROVE  /\ StepEnd => \E pc \in {"off", "top"} :
                             Leave([run EXCEPT !.pc = pc, !.todo = {}, !.left = run.left])
           /\ LLMFails => Leave([run EXCEPT !.pc = "failed", !.todo = run.todo, !.left = run.left])
           /\ FailureEnd \/ CancelledPaused =>
                 Leave([run EXCEPT !.pc = "off", !.todo = run.todo, !.left = run.left])
           /\ Interrupt => Leave([run EXCEPT !.pc = "cancelled", !.todo = {}, !.left = {}])
<1>1. run = [pc |-> run.pc, todo |-> run.todo, left |-> run.left, seen |-> run.seen]
  BY DEF TranscriptInv, StateOK
<1>2. \A pc, todo : /\ [run EXCEPT !.pc = pc] = [run EXCEPT !.pc = pc, !.todo = run.todo, !.left = run.left]
                    /\ [run EXCEPT !.todo = todo, !.pc = pc]
                          = [run EXCEPT !.pc = pc, !.todo = todo, !.left = run.left]
  BY <1>1
<1>3. StepEnd => \E pc \in {"off", "top"} : Leave([run EXCEPT !.pc = pc, !.todo = {}, !.left = run.left])
  <2> SUFFICES ASSUME StepEnd
               PROVE  \E pc \in {"off", "top"} : Leave([run EXCEPT !.pc = pc, !.todo = {}, !.left = run.left])
    OBVIOUS
  <2>1. PICK s : Leave([run EXCEPT !.todo = {}, !.pc = IF s \in {"waiting", "idle"} THEN "off" ELSE "top"])
    BY DEF StepEnd
  <2>2. PICK pc \in {"off", "top"} : Leave([run EXCEPT !.todo = {}, !.pc = pc])
    BY <2>1
  <2> QED BY <2>2, <1>2
<1>4. LLMFails => Leave([run EXCEPT !.pc = "failed", !.todo = run.todo, !.left = run.left])
  BY <1>2 DEF LLMFails
<1>5. FailureEnd \/ CancelledPaused =>
         Leave([run EXCEPT !.pc = "off", !.todo = run.todo, !.left = run.left])
  BY <1>2 DEF FailureEnd, CancelledPaused
<1>6. Interrupt => Leave([run EXCEPT !.pc = "cancelled", !.todo = {}, !.left = {}])
  BY DEF Interrupt
<1> QED BY <1>3, <1>4, <1>5, <1>6

\* The fields of the records.
LEMMA StateStep == ASSUME TranscriptInv, [Next]_vars PROVE StateOK'
<1> DEFINE Left == /\ owner' = "none" /\ dirty' \in BOOLEAN /\ faults' \in 0..MaxFaults
                  /\ run'.pc \in RunPcs /\ run'.seen = run.seen
                  /\ run' = [pc |-> run'.pc, todo |-> run'.todo, left |-> run'.left, seen |-> run'.seen]
<1>0. StateOK /\ mem.lastMsg \in 0..MaxLog
  BY DEF TranscriptInv, TreeOK, Fields
<1> USE TranscriptAssumption DEF StateOK, RunPcs, Starting, Goto
<1>1. CASE SendMessage
  BY <1>1, <1>0 DEF SendMessage, Served, Enter, Deferred
<1>2. CASE Pause
  BY <1>2, <1>0 DEF Pause, Served, Enter, Deferred
<1>3. CASE RejectPending
  BY <1>3, <1>0 DEF RejectPending, Served
<1>4. CASE RejectEnter
  BY <1>4, <1>0 DEF RejectEnter, Enter, Deferred
<1>5. CASE RejectOne
  BY <1>5, <1>0 DEF RejectOne, Deferred
<1>6. CASE ClientExit
  <2>0. (Exit /\ UNCHANGED faults) \/ (Exit /\ Fault) \/ ExitFails
    BY <1>6 DEF ClientExit
  <2>1. dirty' \in BOOLEAN /\ owner' = "none" /\ faults' \in 0..MaxFaults
    BY <2>0, <1>0, Exits
  <2> QED BY <2>1, <1>6, <1>0 DEF ClientExit
<1>7. CASE RunStart
  <2>1. dirty' \in BOOLEAN
    BY <1>7, Zenon DEF RunStart, Flush, FlushFails
  <2>2. faults' \in 0..MaxFaults
    BY <1>7, <1>0 DEF RunStart, FlushFails, Fault
  <2> QED BY <1>7, <2>1, <2>2, <1>0 DEF RunStart
<1>8. CASE LoopBreak
  <2>1. dirty' \in BOOLEAN
    BY <1>8, Zenon DEF LoopBreak, Flush, FlushFails
  <2>2. faults' \in 0..MaxFaults
    BY <1>8, <1>0 DEF LoopBreak, FlushFails, Fault
  <2> QED BY <1>8, <2>1, <2>2, <1>0 DEF LoopBreak
<1>9. CASE StepBegin
  BY <1>9, <1>0 DEF StepBegin, InHand, Deferred
<1>10. CASE Reply
  BY <1>10, <1>0 DEF Reply, Deferred
<1>11. CASE Nudge
  BY <1>11, <1>0 DEF Nudge, Deferred
<1>12. CASE ToolCall
  BY <1>12, <1>0 DEF ToolCall, Deferred
<1>13. CASE Confirm
  BY <1>13, <1>0 DEF Confirm, Deferred
<1>14. CASE Execute
  BY <1>14, <1>0 DEF Execute
<1>15. CASE RunTool
  <2>1. PICK a \in run.left :
           /\ ran' = [ran EXCEPT ![a] = @ + 1]
           /\ run' = [run EXCEPT !.left = @ \ {a}, !.pc = IF run.left = {a} THEN "emit" ELSE @]
    BY <1>15 DEF RunTool
  <2>2. ran' \in [1..MaxLog -> Nat]
    <3>1. run.left \subseteq 1..MaxLog
      <4>1. run.left \subseteq run.todo
        BY <1>15 DEF RunTool, TranscriptInv, Todo
      <4> QED BY <4>1, TodoMembers, LeafInLog DEF TranscriptInv, TreeOK
    <3>2. ran \in [1..MaxLog -> Nat] /\ a \in 1..MaxLog
      BY <2>1, <3>1, <1>0
    <3>3. ran[a] + 1 \in Nat
      BY <3>2
    <3>4. ran' = [ran EXCEPT ![a] = ran[a] + 1]
      BY <2>1
    <3> QED BY <3>2, <3>3, <3>4
  <2>3. run'.pc \in RunPcs /\ run'.seen \in 0..MaxLog
        /\ run' = [pc |-> run'.pc, todo |-> run'.todo, left |-> run'.left, seen |-> run'.seen]
    BY <2>1, <1>0
  <2> QED BY <2>2, <2>3, <1>15, <1>0 DEF RunTool
<1>16. CASE EmitResult
  BY <1>16, <1>0 DEF EmitResult, Deferred
<1>17. CASE RejectSuperseded
  BY <1>17, <1>0 DEF RejectSuperseded, Deferred
<1>18. CASE RejectEmit
  BY <1>18, <1>0 DEF RejectEmit, Deferred
<1>19. CASE StepEnd
  <2>1. PICK pc \in {"off", "top"} : Leave([run EXCEPT !.pc = pc, !.todo = {}, !.left = run.left])
    BY <1>19, LeaveSteps
  <2>2. pc \in RunPcs
    OBVIOUS
  <2>3. Left
    BY <2>1, <2>2, <1>0, Leaves
  <2> QED BY <2>3, <1>19, <1>0 DEF StepEnd
<1>20. CASE LLMFails
  <2>1. Left
    BY <1>20, <1>0, LeaveSteps, Leaves
  <2> QED BY <2>1, <1>20, <1>0 DEF LLMFails
<1>21. CASE RecordFailure
  BY <1>21, <1>0 DEF RecordFailure, Enter, Deferred
<1>22. CASE Interrupt
  <2>1. Left
    BY <1>22, <1>0, LeaveSteps, Leaves
  <2>2. lost' \subseteq 1..MaxLog
    BY <1>22, <1>0, TodoMembers, LeafInLog DEF Interrupt, Begun, TranscriptInv, TreeOK
  <2> QED BY <2>1, <2>2, <1>22, <1>0 DEF Interrupt
<1>23. CASE HandleCancelled
  BY <1>23, <1>0 DEF HandleCancelled, Enter
<1>24. CASE OrphanError
  BY <1>24, <1>0 DEF OrphanError, Deferred
<1>25. CASE CancelledPaused
  <2>1. Left
    BY <1>25, <1>0, LeaveSteps, Leaves
  <2> QED BY <2>1, <1>25, <1>0 DEF CancelledPaused
<1>26. CASE Crash
  <2>1. crashes' \in 0..MaxCrashes
    BY <1>26, <1>0 DEF Crash
  <2>2. run'.pc = "down" /\ run'.seen = 0 /\ client'.pc = "off"
        /\ run' = [pc |-> run'.pc, todo |-> run'.todo, left |-> run'.left, seen |-> run'.seen]
        /\ client' = [pc |-> client'.pc, todo |-> client'.todo]
    BY <1>26 DEF Crash
  <2>3. dirty' = FALSE /\ owner' = "none" /\ faults' = faults /\ ran' = ran /\ lost' = lost
    BY <1>26 DEF Crash
  <2>4. dirty' \in BOOLEAN
    BY <2>3, Zenon
  <2>5. 0 \in 0..MaxLog
    OBVIOUS
  <2> QED BY <2>1, <2>2, <2>3, <2>4, <2>5, <1>0
<1>27. CASE Start
  BY <1>27, <1>0 DEF Start, Immediate
<1>28. CASE Answer
  BY <1>28, <1>0 DEF Answer
<1>29. CASE Note
  BY <1>29, <1>0 DEF Note
<1>30. CASE SaveHead
  BY <1>30, <1>0 DEF SaveHead, Immediate
<1>31. CASE UNCHANGED vars
  BY <1>31, <1>0 DEF vars
<1>32. CASE AppendRaises
  <2>1. (Exit /\ Fault) \/ ExitFails
    BY <1>32 DEF AppendRaises
  <2>2. dirty' \in BOOLEAN /\ owner' = "none" /\ faults' \in 0..MaxFaults
    BY <2>1, <1>0, Exits
  <2>3. lost' \subseteq 1..MaxLog
    BY <1>32, <1>0, TodoMembers, LeafInLog DEF AppendRaises, Begun, TranscriptInv, TreeOK
  <2> QED BY <2>2, <2>3, <1>32, <1>0 DEF AppendRaises
<1>33. CASE MarkFailed
  BY <1>33, <1>0 DEF MarkFailed, Enter, Deferred
<1>34. CASE FailureEnd
  <2>1. Left
    BY <1>34, <1>0, LeaveSteps, Leaves
  <2> QED BY <2>1, <1>34, <1>0 DEF FailureEnd
<1> QED
  BY <1>1, <1>2, <1>3, <1>4, <1>5, <1>6, <1>7, <1>8, <1>9, <1>10, <1>11, <1>12, <1>13, <1>14,
     <1>15, <1>16, <1>17, <1>18, <1>19, <1>20, <1>21, <1>22, <1>23, <1>24, <1>25, <1>26, <1>27,
     <1>28, <1>29, <1>30, <1>31, <1>32, <1>33, <1>34 DEF Next

\* The blocks: each action enters, leaves or keeps its own.
LEMMA BlockStep == ASSUME TranscriptInv, [Next]_vars PROVE Blocks'
<1>0. StateOK /\ Blocks
  BY DEF TranscriptInv
<1> USE DEF Blocks, InBlock, Owning, Writing, Unserved, Starting, Goto
<1>1. CASE SendMessage
  BY <1>1, <1>0 DEF SendMessage, Served, Enter, Deferred, StateOK
<1>2. CASE Pause
  BY <1>2, <1>0 DEF Pause, Served, Enter, Deferred, StateOK
<1>3. CASE RejectPending
  BY <1>3, <1>0 DEF RejectPending, Served, StateOK
<1>4. CASE RejectEnter
  BY <1>4, <1>0 DEF RejectEnter, Enter, Deferred, StateOK
<1>5. CASE RejectOne
  BY <1>5, <1>0 DEF RejectOne, Deferred, StateOK
<1>6. CASE ClientExit
  <2>0. dirty \in BOOLEAN /\ faults \in 0..MaxFaults /\ ((Exit /\ UNCHANGED faults) \/ (Exit /\ Fault) \/ ExitFails)
    BY <1>6, <1>0 DEF ClientExit, StateOK
  <2>1. owner' = "none" /\ depth' = depth - 1
    BY <2>0, Exits
  <2>2. client'.pc = "off" /\ run' = run /\ owner = "client"
    BY <1>6, <1>0 DEF ClientExit, StateOK
  <2> QED BY <2>1, <2>2, <1>0
<1>7. CASE RunStart
  <2>1. run.pc = "off" /\ run'.pc \in {"top", "failed"} /\ client' = client /\ owner' = owner /\ depth' = depth
    BY <1>7, <1>0 DEF RunStart, StateOK
  <2> QED BY <2>1, <1>0
<1>8. CASE LoopBreak
  <2>1. run.pc = "top" /\ run'.pc \in {"off", "failed"} /\ client' = client /\ owner' = owner /\ depth' = depth
    BY <1>8, <1>0 DEF LoopBreak, StateOK
  <2> QED BY <2>1, <1>0
<1>9. CASE StepBegin
  BY <1>9, <1>0 DEF StepBegin, InHand, Deferred, StateOK
<1>10. CASE Reply
  BY <1>10, <1>0 DEF Reply, Deferred, StateOK
<1>11. CASE Nudge
  BY <1>11, <1>0 DEF Nudge, Deferred, StateOK
<1>12. CASE ToolCall
  BY <1>12, <1>0 DEF ToolCall, Deferred, StateOK
<1>13. CASE Confirm
  BY <1>13, <1>0 DEF Confirm, Deferred, StateOK
<1>14. CASE Execute
  BY <1>14, <1>0 DEF Execute, StateOK
<1>15. CASE RunTool
  <2>1. run.pc = "tools" /\ run'.pc \in {"tools", "emit"}
    BY <1>15, <1>0 DEF RunTool, StateOK
  <2> QED BY <2>1, <1>15, <1>0 DEF RunTool
<1>16. CASE EmitResult
  BY <1>16, <1>0 DEF EmitResult, Deferred, StateOK
<1>17. CASE RejectSuperseded
  BY <1>17, <1>0 DEF RejectSuperseded, Deferred, StateOK
<1>18. CASE RejectEmit
  BY <1>18, <1>0 DEF RejectEmit, Deferred, StateOK
<1>19. CASE StepEnd
  <2>1. PICK pc \in {"off", "top"} : Leave([run EXCEPT !.pc = pc, !.todo = {}, !.left = run.left])
    BY <1>19, LeaveSteps
  <2>2. pc \in RunPcs
    BY DEF RunPcs
  <2>3. owner' = "none" /\ depth' = depth - 1 /\ run'.pc \in {pc, "failed"}
    BY <2>1, <2>2, <1>0, Leaves
  <2>4. run.pc = "end" /\ client' = client
    BY <1>19 DEF StepEnd
  <2> QED BY <2>3, <2>4, <1>0
<1>20. CASE LLMFails
  <2>1. owner' = "none" /\ depth' = depth - 1 /\ run'.pc \in {"failed", "failed"}
    BY <1>20, <1>0, LeaveSteps, Leaves DEF RunPcs
  <2>2. run.pc = "llm" /\ owner = "none" /\ client' = client
    BY <1>20 DEF LLMFails
  <2> QED BY <2>1, <2>2, <1>0
<1>21. CASE RecordFailure
  BY <1>21, <1>0 DEF RecordFailure, Enter, Deferred, StateOK
<1>22. CASE Interrupt
  <2>1. owner' = "none" /\ depth' = depth - 1 /\ run'.pc \in {"cancelled", "failed"}
    BY <1>22, <1>0, LeaveSteps, Leaves DEF RunPcs
  <2>2. ((run.pc = "llm" /\ owner = "none") \/ run.pc = "tools") /\ client' = client
    BY <1>22 DEF Interrupt
  <2> QED BY <2>1, <2>2, <1>0
<1>23. CASE HandleCancelled
  BY <1>23, <1>0 DEF HandleCancelled, Enter, StateOK
<1>24. CASE OrphanError
  BY <1>24, <1>0 DEF OrphanError, Deferred, StateOK
<1>25. CASE CancelledPaused
  <2>1. owner' = "none" /\ depth' = depth - 1 /\ run'.pc \in {"off", "failed"}
    BY <1>25, <1>0, LeaveSteps, Leaves DEF RunPcs
  <2>2. run.pc = "orphans" /\ client' = client
    BY <1>25 DEF CancelledPaused
  <2> QED BY <2>1, <2>2, <1>0
<1>26. CASE Crash
  BY <1>26, <1>0 DEF Crash, StateOK
<1>27. CASE Start
  BY <1>27, <1>0 DEF Start, Immediate, StateOK
<1>28. CASE Answer
  BY <1>28, <1>0 DEF Answer, StateOK
<1>29. CASE Note
  BY <1>29, <1>0 DEF Note, StateOK
<1>30. CASE SaveHead
  BY <1>30, <1>0 DEF SaveHead, Immediate, StateOK
<1>31. CASE UNCHANGED vars
  BY <1>31, <1>0 DEF vars, StateOK
<1>32. CASE AppendRaises
  <2>0. dirty \in BOOLEAN /\ faults \in 0..MaxFaults /\ ((Exit /\ Fault) \/ ExitFails)
    BY <1>32, <1>0 DEF AppendRaises, StateOK
  <2>1. owner' = "none" /\ depth' = depth - 1
    BY <2>0, Exits
  <2>2. run.pc \in {"calls", "emit", "reject", "orphans"} /\ run'.pc = "failed" /\ client' = client
    BY <1>32, <1>0 DEF AppendRaises, StateOK
  <2> QED BY <2>1, <2>2, <1>0
<1>33. CASE MarkFailed
  BY <1>33, <1>0 DEF MarkFailed, Enter, StateOK
<1>34. CASE FailureEnd
  <2>1. owner' = "none" /\ depth' = depth - 1 /\ run'.pc \in {"off", "failed"}
    BY <1>34, <1>0, LeaveSteps, Leaves DEF RunPcs
  <2>2. run.pc = "ending" /\ client' = client
    BY <1>34 DEF FailureEnd
  <2> QED BY <2>1, <2>2, <1>0
<1> QED
  BY <1>1, <1>2, <1>3, <1>4, <1>5, <1>6, <1>7, <1>8, <1>9, <1>10, <1>11, <1>12, <1>13, <1>14,
     <1>15, <1>16, <1>17, <1>18, <1>19, <1>20, <1>21, <1>22, <1>23, <1>24, <1>25, <1>26, <1>27,
     <1>28, <1>29, <1>30, <1>31, <1>32, <1>33, <1>34 DEF Next

\* The flag and the disk: an assignment in a block, and the end of a block.
LEMMA Saves ==
    ASSUME TranscriptInv, run.pc \notin Starting, Deferred \/ Exit \/ Flush \/ ExitFails \/ FlushFails
    PROVE  ~dirty' => disk' = mem'
BY DEF TranscriptInv, FlagOK, StateOK, Deferred, Exit, Flush, ExitFails, FlushFails

\* Every save, deferred, failed or done, keeps the flag true.
LEMMA FlagStep == ASSUME TranscriptInv, [Next]_vars PROVE FlagOK'
<1>0. StateOK /\ Blocks /\ FlagOK
  BY DEF TranscriptInv
<1> USE DEF FlagOK
<1>1. CASE SendMessage \/ Pause \/ RejectEnter \/ RejectOne \/ ClientExit
  <2>1. run' = run /\ run.pc \notin Unserved
    <3>1. run' = run
      BY <1>1 DEF SendMessage, Pause, RejectEnter, RejectOne, ClientExit
    <3>2. CASE SendMessage \/ Pause
      BY <3>1, <3>2 DEF SendMessage, Pause, Served, Unserved
    <3>3. CASE RejectEnter \/ RejectOne \/ ClientExit
      <4>1. client.pc # "off"
        BY <3>3, <1>0 DEF RejectEnter, RejectOne, ClientExit, Blocks, Writing
      <4> QED BY <3>1, <4>1, <1>0 DEF Blocks
    <3> QED BY <1>1, <3>2, <3>3
  <2>2. Deferred \/ Exit \/ ExitFails
    BY <1>1 DEF SendMessage, Pause, RejectEnter, RejectOne, ClientExit
  <2> QED BY <2>1, <2>2, Saves DEF Unserved
<1>2. CASE Reply \/ Nudge \/ ToolCall \/ Confirm \/ EmitResult \/ RejectSuperseded \/ RejectEmit
           \/ RecordFailure \/ MarkFailed \/ OrphanError
  <2>1. run.pc \notin Unserved
    BY <1>2 DEF Reply, Nudge, ToolCall, Confirm, EmitResult, RejectSuperseded, RejectEmit,
                RecordFailure, MarkFailed, OrphanError, Unserved, Starting
  <2>2. run'.pc # "down"
    BY <1>2, <1>0, <2>1 DEF Reply, Nudge, ToolCall, Confirm, EmitResult, RejectSuperseded, RejectEmit,
                RecordFailure, MarkFailed, OrphanError, StateOK, Goto, Unserved
  <2>3. Deferred
    BY <1>2 DEF Reply, Nudge, ToolCall, Confirm, EmitResult, RejectSuperseded, RejectEmit,
                RecordFailure, MarkFailed, OrphanError
  <2> QED BY <2>1, <2>2, <2>3, Saves DEF Unserved
<1>3. CASE \/ StepBegin \/ StepEnd \/ LLMFails \/ AppendRaises \/ FailureEnd \/ Interrupt
           \/ CancelledPaused
  <2>1. run.pc \notin Starting
    BY <1>3 DEF StepBegin, StepEnd, LLMFails, AppendRaises, FailureEnd, Interrupt, CancelledPaused, Starting
  <2>2. run'.pc # "down" /\ (Deferred \/ Exit \/ ExitFails)
    <3>1. CASE StepBegin
      BY <3>1 DEF StepBegin, InHand
    <3>2. CASE StepEnd
      <4>1. PICK pc \in {"off", "top"} : Leave([run EXCEPT !.pc = pc, !.todo = {}, !.left = run.left])
        BY <3>2, LeaveSteps
      <4>2. pc \in RunPcs
        BY DEF RunPcs
      <4> QED BY <4>1, <4>2, <1>0, Leaves
    <3>3. CASE LLMFails \/ FailureEnd \/ Interrupt \/ CancelledPaused
      <4>1. {"failed", "off", "cancelled"} \subseteq RunPcs
        BY DEF RunPcs
      <4>2. CASE LLMFails
        BY <4>1, <4>2, <1>0, LeaveSteps, Leaves
      <4>3. CASE FailureEnd \/ CancelledPaused
        BY <4>1, <4>3, <1>0, LeaveSteps, Leaves
      <4>4. CASE Interrupt
        BY <4>1, <4>4, <1>0, LeaveSteps, Leaves
      <4> QED BY <3>3, <4>2, <4>3, <4>4
    <3>4. CASE AppendRaises
      BY <3>4, <1>0 DEF AppendRaises, StateOK
    <3> QED BY <1>3, <3>1, <3>2, <3>3, <3>4
  <2> QED BY <2>1, <2>2, Saves
<1>4. CASE RejectPending \/ Execute \/ RunTool \/ HandleCancelled \/ UNCHANGED vars
  <2>1. mem' = mem /\ disk' = disk /\ dirty' = dirty
    BY <1>4 DEF RejectPending, Execute, RunTool, HandleCancelled, vars
  <2>2. run' = run \/ (run.pc \in {"calls", "tools", "cancelled"} /\ run'.pc # "down")
    BY <1>4, <1>0 DEF RejectPending, Execute, RunTool, HandleCancelled, vars, StateOK, Goto
  <2> QED BY <2>1, <2>2, <1>0 DEF Starting
<1>5. CASE RunStart \/ LoopBreak
  <2>1. run.pc \notin Starting /\ run'.pc # "down" /\ (Flush \/ FlushFails)
    BY <1>5, <1>0 DEF RunStart, LoopBreak, Starting, StateOK, Goto
  <2> QED BY <2>1, Saves
<1>6. CASE Crash
  BY <1>6 DEF Crash
<1>7. CASE Start
  BY <1>7, <1>0 DEF Start, Immediate, Starting, StateOK, Goto
<1>8. CASE Answer \/ Note
  BY <1>8, <1>0 DEF Answer, Note, Starting, StateOK, Goto
<1>9. CASE SaveHead
  BY <1>9 DEF SaveHead, Immediate
<1> QED BY <1>1, <1>2, <1>3, <1>4, <1>5, <1>6, <1>7, <1>8, <1>9 DEF Next

\* The calls still to do, the tools that were started, and the history the model
\* is called with.
LEMMA TodoStep == ASSUME TranscriptInv, [Next]_vars PROVE Todo' /\ Once' /\ Answered'
<1> DEFINE Goal == Todo' /\ Once' /\ Answered'
<1>0. /\ StateOK /\ Blocks /\ Todo /\ Once /\ Answered
      /\ Branch \subseteq 1..Len(log) /\ Pending \subseteq Branch
      /\ Len(log) \in Nat /\ Len(log) <= MaxLog
      /\ UnmatchedActions(ActiveBranch) = Pending
  BY BranchInLog, LeafInLog, SameNames DEF TranscriptInv, TreeOK
<1>a. ran \in [1..MaxLog -> Nat]
  BY <1>0 DEF StateOK
<1>b. run.todo \subseteq Nat /\ run.todo \subseteq 1..MaxLog /\ Pending \subseteq 1..MaxLog
  <2>1. run.todo \subseteq 1..Len(log) /\ Pending \subseteq 1..Len(log)
    BY TodoMembers, <1>0
  <2>2. 1..Len(log) \subseteq 1..MaxLog /\ 1..Len(log) \subseteq Nat
    BY <1>0, TranscriptAssumption
  <2> QED BY <2>1, <2>2
<1>1. CASE SendMessage
  <2>1. Grown("msg", 0)
    BY <1>1, Grows
  <2>2. run' = run /\ client'.todo = client.todo /\ run.pc \notin Unserved /\ run.pc \notin Owning
    BY <1>1, <1>0 DEF SendMessage, Served, Enter, Blocks, Unserved, Owning, InBlock, Writing, StateOK
  <2>3. ran' = ran /\ crashes' = crashes /\ lost' = lost
    BY <1>1 DEF SendMessage
  <2>4. Todo'
    BY <2>1, <2>2, <1>0 DEF Grown, Todo, Answered, Unserved, Starting, Owning, InBlock
  <2>5. Once'
    <3>1. OnceBound => OnceBound'
      BY <2>1, <2>3, <1>0 DEF Grown, OnceBound
    <3>3. OnceBound /\ OnceTodo => OnceTodo'
      BY <2>1, <2>2, <2>3, <1>0 DEF Grown, Todo, OnceTodo, Fresh, Unserved, Starting, Owning, InBlock
    <3> QED BY <3>1, <3>3, <2>3, <1>0 DEF Once
  <2>6. Answered'
    BY <2>1, <2>2, <1>0 DEF Grown, Answered
  <2> QED BY <2>4, <2>5, <2>6
<1>2. CASE Pause
  <2>1. Grown("node", 0)
    BY <1>2, Grows
  <2>2. run' = run /\ client'.todo = client.todo /\ run.pc \notin Unserved /\ run.pc \notin Owning
    BY <1>2, <1>0 DEF Pause, Served, Enter, Blocks, Unserved, Owning, InBlock, Writing, StateOK
  <2>3. ran' = ran /\ crashes' = crashes /\ lost' = lost
    BY <1>2 DEF Pause
  <2>4. Todo'
    BY <2>1, <2>2, <1>0 DEF Grown, Todo, Answered, Unserved, Starting, Owning, InBlock
  <2>5. Once'
    <3>1. OnceBound => OnceBound'
      BY <2>1, <2>3, <1>0 DEF Grown, OnceBound
    <3>3. OnceBound /\ OnceTodo => OnceTodo'
      BY <2>1, <2>2, <2>3, <1>0 DEF Grown, Todo, OnceTodo, Fresh, Unserved, Starting, Owning, InBlock
    <3> QED BY <3>1, <3>3, <2>3, <1>0 DEF Once
  <2>6. Answered'
    BY <2>1, <2>2, <1>0 DEF Grown, Answered
  <2> QED BY <2>4, <2>5, <2>6
<1>3. CASE RejectPending
  <2>1. Kept
    BY <1>3, Keeps
  <2>2. run' = run /\ client'.todo = Pending /\ run.pc \notin Unserved
    BY <1>3, <1>0 DEF RejectPending, Served, Blocks, Unserved, Owning, InBlock, Writing, StateOK
  <2>3. ran' = ran /\ crashes' = crashes /\ lost' = lost
    BY <1>3 DEF RejectPending
  <2>4. Todo'
    BY <2>1, <2>2, <1>0 DEF Kept, Todo, Answered, Unserved, Starting
  <2>5. Once'
    BY <2>1, <2>2, <2>3, <1>0 DEF Kept, Todo, Once, OnceBound, OnceTodo, Fresh, Unserved, Starting
  <2>6. Answered'
    BY <2>1, <2>2, <1>0 DEF Kept, Answered
  <2> QED BY <2>4, <2>5, <2>6
<1>4. CASE RejectEnter
  <2>1. Kept
    BY <1>4, Keeps
  <2>2. run' = run /\ client'.todo = client.todo
    BY <1>4, <1>0 DEF RejectEnter, Enter, StateOK
  <2>3. ran' = ran /\ crashes' = crashes /\ lost' = lost
    BY <1>4 DEF RejectEnter
  <2>4. Todo'
    BY <2>1, <2>2, <1>0 DEF Kept, Todo, Answered, Unserved, Starting
  <2>5. Once'
    BY <2>1, <2>2, <2>3, <1>0 DEF Kept, Todo, Once, OnceBound, OnceTodo, Fresh, Unserved, Starting
  <2>6. Answered'
    BY <2>1, <2>2, <1>0 DEF Kept, Answered
  <2> QED BY <2>4, <2>5, <2>6
<1>5. CASE RejectOne
  <2>1. Grown("res", Min(client.todo))
    BY <1>5, Grows
  <2>2. run' = run /\ client'.todo \subseteq client.todo /\ run.pc \notin Unserved /\ run.pc \notin Owning
    BY <1>5, <1>0 DEF RejectOne, Blocks, Unserved, Owning, InBlock, Writing, StateOK
  <2>3. ran' = ran /\ crashes' = crashes /\ lost' = lost
    BY <1>5 DEF RejectOne
  <2>4. Todo'
    BY <2>1, <2>2, <1>0 DEF Grown, Todo, Answered, Unserved, Starting, Owning, InBlock
  <2>5. Once'
    <3>1. OnceBound => OnceBound'
      BY <2>1, <2>3, <1>0 DEF Grown, OnceBound
    <3>3. OnceBound /\ OnceTodo => OnceTodo'
      BY <2>1, <2>2, <2>3, <1>0 DEF Grown, Todo, OnceTodo, Fresh, Unserved, Starting, Owning, InBlock
    <3> QED BY <3>1, <3>3, <2>3, <1>0 DEF Once
  <2>6. Answered'
    BY <2>1, <2>2, <1>0 DEF Grown, Answered
  <2> QED BY <2>4, <2>5, <2>6
<1>6. CASE ClientExit
  <2>1. Kept
    BY <1>6, Keeps
  <2>2. run' = run /\ client'.todo = {}
    BY <1>6, <1>0 DEF ClientExit, StateOK
  <2>3. ran' = ran /\ crashes' = crashes /\ lost' = lost
    BY <1>6 DEF ClientExit
  <2>4. Todo'
    BY <2>1, <2>2, <1>0 DEF Kept, Todo, Answered, Unserved, Starting
  <2>5. Once'
    BY <2>1, <2>2, <2>3, <1>0 DEF Kept, Todo, Once, OnceBound, OnceTodo, Fresh, Unserved, Starting
  <2>6. Answered'
    BY <2>1, <2>2, <1>0 DEF Kept, Answered
  <2> QED BY <2>4, <2>5, <2>6
<1>7. CASE RunStart
  <2>1. Kept
    BY <1>7, Keeps
  <2>2. run.pc = "off" /\ run'.pc \in {"top", "failed"} /\ run'.todo = run.todo /\ run'.left = run.left /\ client' = client
    BY <1>7, <1>0 DEF RunStart, Goto, StateOK
  <2>3. ran' = ran /\ crashes' = crashes /\ lost' = lost
    BY <1>7 DEF RunStart
  <2>4. Todo'
    BY <2>1, <2>2, <1>0 DEF Kept, Todo, Answered, Unserved, Starting
  <2>5. Once'
    BY <2>1, <2>2, <2>3, <1>0 DEF Kept, Todo, Once, OnceBound, OnceTodo, Fresh, Unserved, Starting
  <2>6. Answered'
    BY <2>1, <2>2, <1>0 DEF Kept, Answered
  <2> QED BY <2>4, <2>5, <2>6
<1>8. CASE LoopBreak
  <2>1. Kept
    BY <1>8, Keeps
  <2>2. run.pc = "top" /\ run'.pc \in {"off", "failed"} /\ run'.todo = run.todo /\ run'.left = run.left /\ client' = client
    BY <1>8, <1>0 DEF LoopBreak, Goto, StateOK
  <2>3. ran' = ran /\ crashes' = crashes /\ lost' = lost
    BY <1>8 DEF LoopBreak
  <2>4. Todo'
    BY <2>1, <2>2, <1>0 DEF Kept, Todo, Answered, Unserved, Starting
  <2>5. Once'
    BY <2>1, <2>2, <2>3, <1>0 DEF Kept, Todo, Once, OnceBound, OnceTodo, Fresh, Unserved, Starting
  <2>6. Answered'
    BY <2>1, <2>2, <1>0 DEF Kept, Answered
  <2> QED BY <2>4, <2>5, <2>6
<1>9. CASE StepBegin
  <2>1. Kept
    BY <1>9, Keeps
  <2>2. run.pc = "top" /\ client' = client
        /\ \/ run'.pc = "tools" /\ run'.todo # {} /\ run'.todo \subseteq Pending /\ run'.left = run'.todo
           \/ run'.pc = "llm" /\ Pending = {} /\ run'.todo = {} /\ run'.left = {}
    <3>1. Pending \subseteq Nat
      BY <1>0
    <3>2. \A batch \in Batches(Pending) : batch # {} /\ batch \subseteq Pending
      BY <3>1 DEF Batches
    <3> QED BY <1>9, <1>0, <3>2 DEF StepBegin, InHand
  <2>3. ran' = ran /\ crashes' = crashes /\ lost' = lost
    BY <1>9 DEF StepBegin
  <2>4. Todo'
    BY <2>1, <2>2, <1>0 DEF Kept, Todo, Answered, Unserved, Starting
  <2>5. Once'
    BY <2>1, <2>2, <2>3, <1>0 DEF Kept, Todo, Once, OnceBound, OnceTodo, Fresh, Unserved, Starting
  <2>6. Answered'
    BY <2>1, <2>2, <1>0 DEF Kept, Answered
  <2> QED BY <2>4, <2>5, <2>6
<1>10. CASE Reply
  <2>1. Grown("node", 0)
    BY <1>10, Grows
  <2>2. run.pc = "llm" /\ run'.pc = "end" /\ run'.todo = run.todo /\ run'.left = run.left /\ client' = client
    BY <1>10, <1>0 DEF Reply, Goto, StateOK
  <2>3. ran' = ran /\ crashes' = crashes /\ lost' = lost
    BY <1>10 DEF Reply
  <2>4. Todo'
    BY <2>1, <2>2, <1>0 DEF Grown, Todo, Answered, Unserved, Starting
  <2>5. Once'
    <3>1. OnceBound => OnceBound'
      BY <2>1, <2>3, <1>0 DEF Grown, OnceBound
    <3>3. OnceBound /\ OnceTodo => OnceTodo'
      BY <2>1, <2>2, <2>3, <1>0 DEF Grown, Todo, OnceTodo, Fresh, Unserved, Starting
    <3> QED BY <3>1, <3>3, <2>3, <1>0 DEF Once
  <2>6. Answered'
    BY <2>1, <2>2, <1>0 DEF Grown, Answered
  <2> QED BY <2>4, <2>5, <2>6
<1>11. CASE Nudge
  <2>1. Grown("node", 0)
    BY <1>11, Grows
  <2>2. run.pc = "llm" /\ run'.pc = "end" /\ run'.todo = run.todo /\ run'.left = run.left /\ client' = client
    BY <1>11, <1>0 DEF Nudge, Goto, StateOK
  <2>3. ran' = ran /\ crashes' = crashes /\ lost' = lost
    BY <1>11 DEF Nudge
  <2>4. Todo'
    BY <2>1, <2>2, <1>0 DEF Grown, Todo, Answered, Unserved, Starting
  <2>5. Once'
    <3>1. OnceBound => OnceBound'
      BY <2>1, <2>3, <1>0 DEF Grown, OnceBound
    <3>3. OnceBound /\ OnceTodo => OnceTodo'
      BY <2>1, <2>2, <2>3, <1>0 DEF Grown, Todo, OnceTodo, Fresh, Unserved, Starting
    <3> QED BY <3>1, <3>3, <2>3, <1>0 DEF Once
  <2>6. Answered'
    BY <2>1, <2>2, <1>0 DEF Grown, Answered
  <2> QED BY <2>4, <2>5, <2>6
<1>12. CASE ToolCall
  <2>1. Grown("act", 0)
    BY <1>12, Grows
  <2>2. run.pc \in {"llm", "calls"} /\ run'.pc = "calls"
        /\ run'.todo = run.todo \cup {Len(log) + 1} /\ run'.left = run.left /\ client' = client
    BY <1>12, <1>0 DEF ToolCall, StateOK
  <2>3. ran' = ran /\ crashes' = crashes /\ lost' = lost
    BY <1>12 DEF ToolCall
  <2>4. Todo'
    BY <2>1, <2>2, <1>0 DEF Grown, Todo, Answered, Unserved, Starting
  <2>5. Once'
    <3>1. OnceBound => OnceBound'
      BY <2>1, <2>3, <1>0 DEF Grown, OnceBound
    <3>2. OnceBound => ran[Len(log) + 1] = 0
      BY <2>1, <1>0, TreeStep DEF Grown, OnceBound, TreeOK
    <3>3. OnceBound /\ OnceTodo => OnceTodo'
      BY <2>1, <2>2, <2>3, <3>2, <1>0 DEF Grown, Todo, OnceTodo, Fresh, Unserved, Starting
    <3> QED BY <3>1, <3>3, <2>3, <1>0 DEF Once
  <2>6. Answered'
    BY <2>1, <2>2, <1>0 DEF Grown, Answered
  <2> QED BY <2>4, <2>5, <2>6
<1>13. CASE Confirm
  <2>1. Kept
    BY <1>13, Keeps
  <2>2. run.pc = "calls" /\ run'.pc = "end" /\ run'.todo = {} /\ run'.left = run.left /\ client' = client
    BY <1>13, <1>0 DEF Confirm, StateOK
  <2>3. ran' = ran /\ crashes' = crashes /\ lost' = lost
    BY <1>13 DEF Confirm
  <2>4. Todo'
    BY <2>1, <2>2, <1>0 DEF Kept, Todo, Answered, Unserved, Starting
  <2>5. Once'
    BY <2>1, <2>2, <2>3, <1>0 DEF Kept, Todo, Once, OnceBound, OnceTodo, Fresh, Unserved, Starting
  <2>6. Answered'
    BY <2>1, <2>2, <1>0 DEF Kept, Answered
  <2> QED BY <2>4, <2>5, <2>6
<1>14. CASE Execute
  <2>1. Kept
    BY <1>14, Keeps
  <2>2. run.pc = "calls" /\ run'.pc = "tools" /\ client' = client
        /\ run'.todo # {} /\ run'.todo \subseteq run.todo /\ run'.left = run'.todo
    <3>1. run.todo \subseteq Nat
      BY <1>b
    <3>2. \A batch \in Batches(run.todo) : batch # {} /\ batch \subseteq run.todo
      BY <3>1 DEF Batches
    <3> QED BY <1>14, <1>0, <3>2 DEF Execute, StateOK
  <2>3. ran' = ran /\ crashes' = crashes /\ lost' = lost
    BY <1>14 DEF Execute
  <2>4. Todo'
    BY <2>1, <2>2, <1>0 DEF Kept, Todo, Answered, Unserved, Starting
  <2>5. Once'
    BY <2>1, <2>2, <2>3, <1>0 DEF Kept, Todo, Once, OnceBound, OnceTodo, Fresh, Unserved, Starting
  <2>6. Answered'
    BY <2>1, <2>2, <1>0 DEF Kept, Answered
  <2> QED BY <2>4, <2>5, <2>6
<1>15. CASE RunTool
  <2>1. Kept
    BY <1>15, Keeps
  <2>2. PICK a \in run.left :
           /\ ran' = [ran EXCEPT ![a] = @ + 1]
           /\ run' = [run EXCEPT !.left = @ \ {a}, !.pc = IF run.left = {a} THEN "emit" ELSE @]
    BY <1>15 DEF RunTool
  <2>3. run.pc = "tools" /\ client' = client /\ crashes' = crashes /\ lost' = lost
    BY <1>15 DEF RunTool
  <2>4. a \in run.todo /\ a \in Pending /\ a \in 1..MaxLog /\ a \in 1..Len(log)
    BY <2>2, <2>3, <1>0, TranscriptAssumption DEF Todo
  <2>5. /\ run'.pc = IF run.left = {a} THEN "emit" ELSE "tools"
        /\ run'.todo = run.todo /\ run'.left = run.left \ {a}
    BY <2>2, <2>3, <1>0 DEF StateOK
  <2>6. \A b \in 1..MaxLog : ran'[b] = IF b = a THEN ran[a] + 1 ELSE ran[b]
    BY <2>2, <2>4, <1>a
  <2>7. Todo'
    BY <2>1, <2>2, <2>3, <2>4, <2>5, <1>0 DEF Kept, Todo, Unserved, Starting
  <2>8. Once'
    <3> SUFFICES ASSUME crashes = 0
                 PROVE  OnceBound' /\ OnceTodo'
      BY <2>3 DEF Once
    <3>0. OnceBound /\ OnceTodo
      BY <1>0 DEF Once
    <3>1. ran[a] = 0 \/ a \in lost
      BY <2>2, <2>3, <3>0 DEF OnceTodo, Fresh
    <3>2. OnceBound'
      <4>1. \A b \in 1..MaxLog : ran[b] \in Nat
        BY <1>a
      <4> QED BY <2>1, <2>3, <2>4, <2>6, <3>0, <3>1, <4>1 DEF OnceBound, Kept
    <3>3. run.left \subseteq 1..MaxLog /\ Pending \subseteq 1..MaxLog
      <4>1. run.left \subseteq run.todo
        BY <2>3, <1>0 DEF Todo
      <4> QED BY <4>1, <1>b
    <3>4. \A b \in run.left \ {a} : Fresh(b)'
      BY <2>3, <2>6, <3>0, <3>3 DEF OnceTodo, Fresh
    <3>5. \A b \in Pending : b \in run.todo \/ Fresh(b)'
      BY <2>3, <2>4, <2>6, <3>0, <3>3 DEF OnceTodo, Fresh
    <3>6. OnceTodo'
      BY <2>1, <2>5, <3>4, <3>5 DEF OnceTodo, Kept, Unserved, Starting
    <3> QED BY <3>2, <3>6
  <2>9. Answered'
    BY <2>5 DEF Answered
  <2> QED BY <2>7, <2>8, <2>9
<1>16. CASE EmitResult
  <2>1. Grown("res", Min(run.todo))
    BY <1>16, Grows
  <2>2. run.pc = "emit" /\ client' = client
        /\ run'.left = run.left /\ run'.todo = run.todo \ {Min(run.todo)} /\ Min(run.todo) \in run.todo
        /\ run'.pc = IF run.todo = {Min(run.todo)} THEN "end" ELSE "emit"
    BY <1>16, <1>0, Appends DEF EmitResult, StateOK
  <2>3. ran' = ran /\ crashes' = crashes /\ lost' = lost
    BY <1>16 DEF EmitResult
  <2>4. Todo'
    BY <2>1, <2>2, <1>0 DEF Grown, Todo, Answered, Unserved, Starting
  <2>5. Once'
    <3>1. OnceBound => OnceBound'
      BY <2>1, <2>3, <1>0 DEF Grown, OnceBound
    <3>3. OnceBound /\ OnceTodo => OnceTodo'
      BY <2>1, <2>2, <2>3, <1>0 DEF Grown, Todo, OnceTodo, Fresh, Unserved, Starting
    <3> QED BY <3>1, <3>3, <2>3, <1>0 DEF Once
  <2>6. Answered'
    BY <2>1, <2>2, <1>0 DEF Grown, Answered
  <2> QED BY <2>4, <2>5, <2>6
<1>17. CASE RejectSuperseded
  <2>1. Kept
    BY <1>17, Keeps
  <2>2. run.pc = "end" /\ client' = client
        /\ run'.left = run.left /\ run'.todo = Pending /\ run'.pc = IF Pending = {} THEN "end" ELSE "reject"
    BY <1>17, <1>0 DEF RejectSuperseded, StateOK
  <2>3. ran' = ran /\ crashes' = crashes /\ lost' = lost
    BY <1>17 DEF RejectSuperseded
  <2>4. Todo'
    BY <2>1, <2>2, <1>0 DEF Kept, Todo, Answered, Unserved, Starting
  <2>5. Once'
    BY <2>1, <2>2, <2>3, <1>0 DEF Kept, Todo, Once, OnceBound, OnceTodo, Fresh, Unserved, Starting
  <2>6. Answered'
    BY <2>1, <2>2, <1>0 DEF Kept, Answered
  <2> QED BY <2>4, <2>5, <2>6
<1>18. CASE RejectEmit
  <2>1. Grown("res", Min(run.todo))
    BY <1>18, Grows
  <2>2. run.pc = "reject" /\ client' = client
        /\ run'.left = run.left /\ run'.todo = run.todo \ {Min(run.todo)} /\ Min(run.todo) \in run.todo
        /\ run'.pc = IF run.todo = {Min(run.todo)} THEN "end" ELSE "reject"
    BY <1>18, <1>0, Appends DEF RejectEmit, StateOK
  <2>3. ran' = ran /\ crashes' = crashes /\ lost' = lost
    BY <1>18 DEF RejectEmit
  <2>4. Todo'
    BY <2>1, <2>2, <1>0 DEF Grown, Todo, Answered, Unserved, Starting
  <2>5. Once'
    <3>1. OnceBound => OnceBound'
      BY <2>1, <2>3, <1>0 DEF Grown, OnceBound
    <3>3. OnceBound /\ OnceTodo => OnceTodo'
      BY <2>1, <2>2, <2>3, <1>0 DEF Grown, Todo, OnceTodo, Fresh, Unserved, Starting
    <3> QED BY <3>1, <3>3, <2>3, <1>0 DEF Once
  <2>6. Answered'
    BY <2>1, <2>2, <1>0 DEF Grown, Answered
  <2> QED BY <2>4, <2>5, <2>6
<1>19. CASE StepEnd
  <2>1. Kept
    BY <1>19, Keeps
  <2>2. run.pc = "end" /\ run'.pc \in {"off", "top", "failed"} /\ run'.todo = {} /\ run'.left = run.left /\ client' = client
    <3>1. PICK pc \in {"off", "top"} : Leave([run EXCEPT !.pc = pc, !.todo = {}, !.left = run.left])
      BY <1>19, LeaveSteps
    <3>2. pc \in RunPcs
      BY DEF RunPcs
    <3>3. run'.pc \in {pc, "failed"} /\ run'.todo = {} /\ run'.left = run.left
      BY <3>1, <3>2, <1>0, Leaves
    <3> QED BY <3>3, <1>19 DEF StepEnd
  <2>3. ran' = ran /\ crashes' = crashes /\ lost' = lost
    BY <1>19 DEF StepEnd
  <2>4. Todo'
    BY <2>1, <2>2, <1>0 DEF Kept, Todo, Answered, Unserved, Starting
  <2>5. Once'
    BY <2>1, <2>2, <2>3, <1>0 DEF Kept, Todo, Once, OnceBound, OnceTodo, Fresh, Unserved, Starting
  <2>6. Answered'
    BY <2>1, <2>2, <1>0 DEF Kept, Answered
  <2> QED BY <2>4, <2>5, <2>6
<1>20. CASE LLMFails
  <2>1. Kept
    BY <1>20, Keeps
  <2>2. run.pc = "llm" /\ run'.pc = "failed" /\ run'.todo = run.todo /\ run'.left = run.left /\ client' = client
    <3>1. "failed" \in RunPcs
      BY DEF RunPcs
    <3>2. run'.pc = "failed" /\ run'.todo = run.todo /\ run'.left = run.left
      BY <3>1, <1>20, <1>0, LeaveSteps, Leaves
    <3> QED BY <3>2, <1>20 DEF LLMFails
  <2>3. ran' = ran /\ crashes' = crashes /\ lost' = lost
    BY <1>20 DEF LLMFails
  <2>4. Todo'
    BY <2>1, <2>2, <1>0 DEF Kept, Todo, Answered, Unserved, Starting
  <2>5. Once'
    BY <2>1, <2>2, <2>3, <1>0 DEF Kept, Todo, Once, OnceBound, OnceTodo, Fresh, Unserved, Starting
  <2>6. Answered'
    BY <2>1, <2>2, <1>0 DEF Kept, Answered
  <2> QED BY <2>4, <2>5, <2>6
<1>21. CASE RecordFailure
  <2>1. Grown("err", 0)
    BY <1>21, Grows
  <2>2. run.pc = "failed" /\ run'.pc = "ending" /\ run'.todo = run.todo /\ run'.left = run.left /\ client' = client
    BY <1>21, <1>0 DEF RecordFailure, Goto, StateOK
  <2>3. ran' = ran /\ crashes' = crashes /\ lost' = lost
    BY <1>21 DEF RecordFailure
  <2>4. Todo'
    BY <2>1, <2>2, <1>0 DEF Grown, Todo, Answered, Unserved, Starting
  <2>5. Once'
    <3>1. OnceBound => OnceBound'
      BY <2>1, <2>3, <1>0 DEF Grown, OnceBound
    <3>3. OnceBound /\ OnceTodo => OnceTodo'
      BY <2>1, <2>2, <2>3, <1>0 DEF Grown, Todo, OnceTodo, Fresh, Unserved, Starting
    <3> QED BY <3>1, <3>3, <2>3, <1>0 DEF Once
  <2>6. Answered'
    BY <2>1, <2>2, <1>0 DEF Grown, Answered
  <2> QED BY <2>4, <2>5, <2>6
<1>22. CASE Interrupt
  <2>1. Kept
    BY <1>22, Keeps
  <2>2. run.pc \in {"llm", "tools"} /\ run'.todo = {} /\ run'.left = {} /\ client' = client
        /\ run'.pc \in {"cancelled", "failed"} /\ (faults' = faults => run'.pc = "cancelled")
    <3>1. "cancelled" \in RunPcs
      BY DEF RunPcs
    <3>2. run'.todo = {} /\ run'.left = {}
          /\ run'.pc \in {"cancelled", "failed"} /\ (faults' = faults => run'.pc = "cancelled")
      BY <3>1, <1>22, <1>0, LeaveSteps, Leaves
    <3> QED BY <3>2, <1>22 DEF Interrupt
  <2>3. ran' = ran /\ crashes' = crashes /\ lost \subseteq lost'
        /\ (run'.pc = "failed" => Begun \subseteq lost')
    BY <1>22, <2>2 DEF Interrupt
  <2>4. Todo'
    BY <2>1, <2>2, <1>0 DEF Kept, Todo, Answered, Unserved, Starting
  <2>5. Once'
    <3>1. OnceBound => OnceBound'
      BY <2>1, <2>3 DEF Kept, OnceBound
    <3>2. OnceTodo => OnceTodo'
      <4> SUFFICES ASSUME OnceTodo, run'.pc = "failed", NEW a \in Pending PROVE Fresh(a)'
        BY <2>1, <2>2 DEF Kept, OnceTodo, Unserved, Starting
      <4>1. a \in run.todo \/ Fresh(a)
        BY <2>2, <1>0 DEF OnceTodo, Answered
      <4>2. a \in 1..MaxLog /\ ran[a] \in Nat
        BY <1>0, <1>a, TranscriptAssumption
      <4>3. CASE Fresh(a)
        BY <4>3, <2>3 DEF Fresh
      <4>4. CASE a \in run.todo /\ ran[a] # 0
        <5>1. a \in Begun
          BY <4>2, <4>4 DEF Begun
        <5> QED BY <5>1, <2>3 DEF Fresh
      <4>5. CASE ran[a] = 0
        BY <4>5, <2>3 DEF Fresh
      <4> QED BY <4>1, <4>3, <4>4, <4>5
    <3> QED BY <3>1, <3>2, <2>3, <1>0 DEF Once
  <2>6. Answered'
    BY <2>1, <2>2, <1>0 DEF Kept, Answered
  <2> QED BY <2>4, <2>5, <2>6
<1>23. CASE HandleCancelled
  <2>1. Kept
    BY <1>23, Keeps
  <2>2. run.pc = "cancelled" /\ run'.pc = "orphans" /\ run'.left = run.left /\ run'.todo = Pending /\ client' = client
    BY <1>23, <1>0 DEF HandleCancelled, Enter, StateOK
  <2>3. ran' = ran /\ crashes' = crashes /\ lost' = lost
    BY <1>23 DEF HandleCancelled
  <2>4. Todo'
    BY <2>1, <2>2, <1>0 DEF Kept, Todo, Answered, Unserved, Starting
  <2>5. Once'
    BY <2>1, <2>2, <2>3, <1>0 DEF Kept, Todo, Once, OnceBound, OnceTodo, Fresh, Unserved, Starting
  <2>6. Answered'
    BY <2>1, <2>2, <1>0 DEF Kept, Answered
  <2> QED BY <2>4, <2>5, <2>6
<1>24. CASE OrphanError
  <2>1. Grown("res", Min(run.todo))
    BY <1>24, Grows
  <2>2. run.pc = "orphans" /\ run'.pc = "orphans" /\ client' = client
        /\ run'.left = run.left /\ run'.todo = run.todo \ {Min(run.todo)} /\ Min(run.todo) \in run.todo
    BY <1>24, <1>0, Appends DEF OrphanError, StateOK
  <2>3. ran' = ran /\ crashes' = crashes /\ lost' = lost
    BY <1>24 DEF OrphanError
  <2>4. Todo'
    BY <2>1, <2>2, <1>0 DEF Grown, Todo, Answered, Unserved, Starting
  <2>5. Once'
    <3>1. OnceBound => OnceBound'
      BY <2>1, <2>3, <1>0 DEF Grown, OnceBound
    <3>3. OnceBound /\ OnceTodo => OnceTodo'
      BY <2>1, <2>2, <2>3, <1>0 DEF Grown, Todo, OnceTodo, Fresh, Unserved, Starting
    <3> QED BY <3>1, <3>3, <2>3, <1>0 DEF Once
  <2>6. Answered'
    BY <2>1, <2>2, <1>0 DEF Grown, Answered
  <2> QED BY <2>4, <2>5, <2>6
<1>25. CASE CancelledPaused
  <2>1. Grown("node", 0)
    BY <1>25, Grows
  <2>2. run.pc = "orphans" /\ run'.pc \in {"off", "failed"} /\ run'.todo = run.todo /\ run'.left = run.left
        /\ run.todo = {} /\ client' = client
    <3>1. "off" \in RunPcs
      BY DEF RunPcs
    <3>2. run'.pc \in {"off", "failed"} /\ run'.todo = run.todo /\ run'.left = run.left
      BY <3>1, <1>25, <1>0, LeaveSteps, Leaves
    <3> QED BY <3>2, <1>25 DEF CancelledPaused
  <2>3. ran' = ran /\ crashes' = crashes /\ lost' = lost
    BY <1>25 DEF CancelledPaused
  <2>4. Todo'
    BY <2>1, <2>2, <1>0 DEF Grown, Todo, Answered, Unserved, Starting
  <2>5. Once'
    <3>1. OnceBound => OnceBound'
      BY <2>1, <2>3, <1>0 DEF Grown, OnceBound
    <3>3. OnceBound /\ OnceTodo => OnceTodo'
      BY <2>1, <2>2, <2>3, <1>0 DEF Grown, Todo, OnceTodo, Fresh, Unserved, Starting
    <3> QED BY <3>1, <3>3, <2>3, <1>0 DEF Once
  <2>6. Answered'
    BY <2>1, <2>2, <1>0 DEF Grown, Answered
  <2> QED BY <2>4, <2>5, <2>6
<1>26. CASE Crash
  <2>1. run'.pc = "down" /\ run'.todo = {} /\ run'.left = {} /\ client'.todo = {} /\ crashes' = crashes + 1
    BY <1>26 DEF Crash
  <2>2. crashes' # 0
    BY <2>1, <1>0 DEF StateOK
  <2> QED BY <2>1, <2>2 DEF Todo, Once, OnceBound, OnceTodo, Answered
<1>27. CASE Start
  <2>1. run.pc = "down" /\ run'.pc \in {"answer", "off"} /\ run'.todo = run.todo /\ run'.left = run.left /\ client' = client
        /\ crashes' = crashes
    BY <1>27, <1>0 DEF Start, Goto, StateOK
  <2> QED BY <2>1, <1>0 DEF Todo, Once, OnceBound, OnceTodo, Answered, Unserved, Starting
<1>28. CASE Answer \/ Note \/ SaveHead
  <2>1. /\ run.pc \in Starting /\ run'.pc \in Starting \cup {"off"}
        /\ run'.todo = run.todo /\ run'.left = run.left /\ client' = client /\ crashes' = crashes
    BY <1>28, <1>0 DEF Answer, Note, SaveHead, Goto, StateOK, Starting
  <2> QED BY <2>1, <1>0 DEF Todo, Once, OnceBound, OnceTodo, Answered, Unserved, Starting
<1>29. CASE UNCHANGED vars
  <2>1. Kept
    BY <1>29, Keeps
  <2> QED BY <2>1, <1>29, <1>0 DEF Kept, vars, Todo, Once, OnceBound, OnceTodo, Fresh, Answered
<1>30. CASE AppendRaises
  <2>1. Kept
    BY <1>30, Keeps
  <2>2. run.pc \in {"calls", "emit", "reject", "orphans"} /\ run'.pc = "failed" /\ run'.todo = {}
        /\ run'.left = run.left /\ client' = client
    BY <1>30, <1>0 DEF AppendRaises, StateOK
  <2>3. ran' = ran /\ crashes' = crashes /\ lost' = lost \cup Begun
    BY <1>30 DEF AppendRaises
  <2>4. Todo'
    BY <2>1, <2>2, <1>0 DEF Kept, Todo, Answered, Unserved, Starting
  <2>5. Once'
    <3>1. OnceBound => OnceBound'
      BY <2>1, <2>3 DEF Kept, OnceBound
    <3>2. OnceTodo => OnceTodo'
      <4> SUFFICES ASSUME OnceTodo, NEW a \in Pending PROVE Fresh(a)'
        BY <2>1, <2>2 DEF Kept, OnceTodo, Unserved, Starting
      <4>1. a \in run.todo \/ Fresh(a)
        BY <2>2 DEF OnceTodo
      <4>2. a \in 1..MaxLog /\ ran[a] \in Nat
        BY <1>0, <1>a, TranscriptAssumption
      <4>3. a \in run.todo /\ ran[a] # 0 => a \in Begun
        BY <4>2 DEF Begun
      <4> QED BY <4>1, <4>3, <2>3 DEF Fresh
    <3> QED BY <3>1, <3>2, <2>3, <1>0 DEF Once
  <2>6. Answered'
    BY <2>2 DEF Answered
  <2> QED BY <2>4, <2>5, <2>6
<1>31. CASE MarkFailed
  <2>1. Kept
    BY <1>31, Keeps
  <2>2. run.pc = "failed" /\ run'.pc = "ending" /\ run'.todo = run.todo /\ run'.left = run.left /\ client' = client
    BY <1>31, <1>0 DEF MarkFailed, Goto, StateOK
  <2>3. ran' = ran /\ crashes' = crashes /\ lost' = lost
    BY <1>31 DEF MarkFailed
  <2>4. Todo'
    BY <2>1, <2>2, <1>0 DEF Kept, Todo, Answered, Unserved, Starting
  <2>5. Once'
    BY <2>1, <2>2, <2>3, <1>0 DEF Kept, Todo, Once, OnceBound, OnceTodo, Fresh, Unserved, Starting
  <2>6. Answered'
    BY <2>1, <2>2, <1>0 DEF Kept, Answered
  <2> QED BY <2>4, <2>5, <2>6
<1>32. CASE FailureEnd
  <2>1. Kept
    BY <1>32, Keeps
  <2>2. run.pc = "ending" /\ run'.pc \in {"off", "failed"} /\ run'.todo = run.todo /\ run'.left = run.left
        /\ client' = client
    <3>1. "off" \in RunPcs
      BY DEF RunPcs
    <3>2. run'.pc \in {"off", "failed"} /\ run'.todo = run.todo /\ run'.left = run.left
      BY <3>1, <1>32, <1>0, LeaveSteps, Leaves
    <3> QED BY <3>2, <1>32 DEF FailureEnd
  <2>3. ran' = ran /\ crashes' = crashes /\ lost' = lost
    BY <1>32 DEF FailureEnd
  <2>4. Todo'
    BY <2>1, <2>2, <1>0 DEF Kept, Todo, Answered, Unserved, Starting
  <2>5. Once'
    BY <2>1, <2>2, <2>3, <1>0 DEF Kept, Todo, Once, OnceBound, OnceTodo, Fresh, Unserved, Starting
  <2>6. Answered'
    BY <2>1, <2>2, <1>0 DEF Kept, Answered
  <2> QED BY <2>4, <2>5, <2>6
<1> QED
  BY <1>1, <1>2, <1>3, <1>4, <1>5, <1>6, <1>7, <1>8, <1>9, <1>10, <1>11, <1>12, <1>13, <1>14,
     <1>15, <1>16, <1>17, <1>18, <1>19, <1>20, <1>21, <1>22, <1>23, <1>24, <1>25, <1>26, <1>27,
     <1>28, <1>29, <1>30, <1>31, <1>32 DEF Next

(***************************************************************************)
(* The theorems.                                                           *)
(***************************************************************************)
\* The parts together.
LEMMA InvStep == TranscriptInv /\ [Next]_vars => TranscriptInv'
<1> SUFFICES ASSUME TranscriptInv, [Next]_vars PROVE TranscriptInv'
  OBVIOUS
<1> QED BY TreeStep, StateStep, BlockStep, FlagStep, TodoStep DEF TranscriptInv

\* The history tree, the nested blocks of the state lock, the dirty flag and the
\* calls in hand of the run loop agree in every reachable state, whatever clients
\* append meanwhile, wherever the process dies, and whichever save fails.
THEOREM TranscriptInvariant == Spec => []TranscriptInv
BY InitInv, InvStep, PTL DEF Spec

\* The invariant has the types in it.
LEMMA InvTypes == TranscriptInv => TypeOK
<1> SUFFICES ASSUME TranscriptInv PROVE TypeOK
  OBVIOUS
<1>1. run.todo \subseteq 1..MaxLog /\ client.todo \subseteq 1..MaxLog
  <2>1. Len(log) \in Nat /\ Len(log) <= MaxLog
    BY LeafInLog DEF TranscriptInv, TreeOK
  <2> QED BY <2>1, TodoMembers, TranscriptAssumption
<1>2. run \in [pc : RunPcs, todo : SUBSET (1..MaxLog), left : SUBSET (1..MaxLog), seen : 0..MaxLog]
  <2>1. /\ run = [pc |-> run.pc, todo |-> run.todo, left |-> run.left, seen |-> run.seen]
        /\ run.pc \in RunPcs /\ run.seen \in 0..MaxLog
    BY DEF TranscriptInv, StateOK
  <2>2. run.left \subseteq run.todo
    BY DEF TranscriptInv, Todo
  <2> QED BY <2>1, <2>2, <1>1
<1>3. client \in [pc : {"off", "send", "pause", "pending", "reject"}, todo : SUBSET (1..MaxLog)]
  <2>1. /\ client = [pc |-> client.pc, todo |-> client.todo]
        /\ client.pc \in {"off", "send", "pause", "pending", "reject"}
    BY DEF TranscriptInv, StateOK
  <2> QED BY <2>1, <1>1
<1>4. depth \in 0..2
  BY DEF TranscriptInv, Blocks
<1>5. log \in Seq([kind : Kinds, parent : 0..MaxLog, of : 0..MaxLog]) /\ Len(log) <= MaxLog
      /\ mem \in Fields /\ disk \in Fields
  BY DEF TranscriptInv, TreeOK, Event
<1> QED BY <1>2, <1>3, <1>4, <1>5 DEF TypeOK, TranscriptInv, StateOK

\* ConversationState's dirty flag never lies: outside every block, a base state
\* that is not marked is the one on disk.
THEOREM SavedIsSafe == Spec => []SavedWhenQuiet
<1>1. TranscriptInv => SavedWhenQuiet
  BY InvTypes DEF TranscriptInv, FlagOK, SavedWhenQuiet
<1> QED BY <1>1, TranscriptInvariant, PTL

\* append_event and the recovery of a start never leave a tool result on a branch
\* without its call, in memory or on disk.
THEOREM ResultsAreSafe == Spec => []ResultsFollowActions
<1>1. TranscriptInv => ResultsFollowActions
  <2> SUFFICES ASSUME TranscriptInv, NEW m \in {mem, disk},
                      NEW r \in PathToRoot(ActiveLeaf(m)), log[r].kind = "res"
               PROVE  log[r].of \in PathToRoot(ActiveLeaf(m))
    BY DEF ResultsFollowActions
  <2>1. TreeOK /\ Older(log) /\ Len(log) \in Nat
    BY LeafInLog DEF TranscriptInv, TreeOK
  <2>2. PICK leaf \in 0..Len(log) : PathToRoot(ActiveLeaf(m)) = PathIn(log, leaf)
    BY <2>1, SameNames, LeafInLog
  <2>3. r \in PathIn(log, leaf) /\ r \in 1..leaf
    BY <2>1, <2>2, PathRange
  <2>4. r \in 1..Len(log)
    BY <2>1, <2>2, <2>3
  <2>5. log[r].of \in PathIn(log, r)
    BY <2>1, <2>4 DEF TreeOK
  <2>6. PathIn(log, r) \subseteq PathIn(log, leaf)
    BY <2>1, <2>2, <2>3, PathClosed
  <2> QED BY <2>2, <2>5, <2>6
<1> QED BY <1>1, TranscriptInvariant, PTL

\* Agent.astep never calls the model with an unanswered tool call on the branch,
\* though send_message and pause append to it during the call.
THEOREM CallsAreAnswered == Spec => []AnsweredDuringCall
<1>1. TranscriptInv => AnsweredDuringCall
  BY SameNames DEF TranscriptInv, Answered, AnsweredDuringCall
<1> QED BY <1>1, TranscriptInvariant, PTL

\* Without a crash in between, a tool is started twice only if its result could
\* not be recorded: not by the loop that picks up pending actions, nor after an
\* interrupt, a rejection, a message or a FinishTool in its batch.
THEOREM ToolsRunOnce == Spec => []RunOnce
<1>1. TranscriptInv => RunOnce
  BY DEF TranscriptInv, StateOK, Once, OnceBound, RunOnce
<1> QED BY <1>1, TranscriptInvariant, PTL

\* The saved head moves only to descendants, so what was once saved as part of
\* the conversation stays part of it, until a start settles a crash.
THEOREM HeadIsSafe == Spec => HeadMovesForward
<1>1. TranscriptInv /\ [Next]_vars =>
         [run.pc \notin Starting => PathToRoot(disk.leaf) \subseteq PathToRoot(disk.leaf)']_vars
  <2> SUFFICES ASSUME TranscriptInv, [Next]_vars, run.pc \notin Starting
               PROVE  PathToRoot(disk.leaf) \subseteq PathToRoot(disk.leaf)'
    OBVIOUS
  <2>1. PathToRoot(disk.leaf) = PathIn(log, disk.leaf)
    BY DEF PathToRoot, PathIn
  <2>2. PathToRoot(disk.leaf)' = PathIn(log', disk'.leaf)
    BY DEF PathToRoot, PathIn
  <2> QED BY <2>1, <2>2, TreeStep
<1> QED BY <1>1, TranscriptInvariant, PTL DEF Spec, HeadMovesForward
=============================================================================
