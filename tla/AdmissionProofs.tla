--------------------------- MODULE AdmissionProofs ---------------------------
(***************************************************************************)
(* The conversations of one daemon, for any number of them, any caps and   *)
(* any number of restarts: the queue is in the order of submission and     *)
(* mirrors the records, runs exist for loaded conversations only, the      *)
(* dispatches never share a slot, and no accepted one is forgotten.        *)
(***************************************************************************)
EXTENDS Admission, FiniteSetTheorems, FunctionTheorems, SequenceTheorems, TLAPS

\* A dispatch before its answer, and within the admission lock.
Early  == {"new", "created", "sendRun", "sendNote", "start", "enqueue"}
Inside == {"sendRun", "sendNote", "start", "enqueue"}

\* The admission lock is held by the dispatch that decides, or by the pass of the
\* scheduler, and by nobody else.
LockRight ==
    /\ \A c \in Convs : lock = c <=> disp[c] \in Inside
    /\ lock = Sched <=> sched.pc \in {"head", "load", "run"}

\* No two conversations share a stamp; what is marked as queued has one, and that
\* of a dispatch which is about to start or to enqueue is the newest.
Stamps ==
    /\ \A c, d \in Convs : at[c] = at[d] /\ at[c] # 0 => c = d
    /\ \A c \in Convs : disp[c] \in {"sendRun", "start"} => at[c] = clock /\ at[c] # 0
    /\ \A c \in Convs : meta[c] = "queued" \/ adm[c] = "queued" \/ c \in Queued => at[c] # 0

\* What a conversation is, by the stage of its dispatch.
Phases ==
    \A c \in Convs :
        /\ c \in Queued => disp[c] \notin Early
        /\ run[c] # "none" \/ c \in intent \cup resume => disp[c] \in {"done", "lost"}
        /\ c \in known <=> meta[c] # "none"
        /\ disp[c] \in {"new", "gone"} => c \notin known
        /\ disp[c] \in Early /\ c \in known => c \in loaded

\* The conversation the scheduler is at; the one it restarts is kept by the
\* conversation's lifecycle lock.
SchedRight ==
    /\ sched.pc \in {"load", "run"} => sched.cur \in Convs /\ disp[sched.cur] \notin Early
    /\ sched.pc = "start" => /\ sched.cur \in loaded \ deleting
                             /\ disp[sched.cur] \in {"done", "lost"}

Inv ==
    /\ TypeOK /\ LockRight /\ Stamps /\ Phases /\ SchedRight
    /\ RunsAreLoaded /\ SubmissionOrder

\* Neither a stop nor a message from a client: nothing is left to recover, and who
\* has found a slot under the admission lock still has it.
Undisturbed == ~Explicit /\ ~Stops

Calm ==
    /\ intent = {} /\ resume = {} /\ moved = {} /\ deleting = {}
    /\ \A c \in Convs : stopping[c] = "none"
    /\ sched.pc # "start"

Reserved ==
    \/ \E c \in Convs : disp[c] \in {"sendRun", "start"}
    \/ sched.pc \in {"load", "run"}

SlotKept == crashes = 0 /\ Undisturbed => Calm /\ (Reserved => PoolHasSlot)

CapInv == Inv /\ SlotKept /\ DispatchCap

\* Without stops the scheduler's conversation stays at the head of the queue.
HeadKept ==
    /\ deleting = {} /\ \A c \in Convs : stopping[c] = "none"
    /\ sched.pc \in {"load", "run"} => queue # <<>> /\ sched.cur = Head(queue)

MirrorInv == Inv /\ HeadKept /\ QueueMirrors

\* Without messages either, what is queued, or was popped for a held lease, has not
\* run, and its record says so.
QueuedUntouched ==
    /\ intent = {} /\ moved = {}
    /\ \A c \in Convs :
          /\ c \in Queued \cup skipped =>
                adm[c] = "queued" /\ meta[c] = "queued" /\ status[c] = "idle" /\ run[c] = "none"
          /\ c \in skipped => disp[c] \notin Early /\ c \notin Queued
          /\ disp[c] \in Early => status[c] = "idle"
          /\ disp[c] \notin {"new", "gone"} => c \in known
          /\ run[c] = "live" => c \in began
          /\ c \in accepted => disp[c] \in {"done", "lost"}
    /\ sched.pc = "start" => sched.cur \notin Queued \cup skipped

KeptInv == MirrorInv /\ QueuedUntouched /\ AcceptedKept

-----------------------------------------------------------------------------
(* Operations on the queue: what they leave in it, and that they keep it   *)
(* in the order of the stamps.                                             *)

Elems(q) == {q[i] : i \in DOMAIN q}
Rising(q, f) == \A i, j \in DOMAIN q : i < j => f[q[i]] < f[q[j]]

\* Append, for a stamp that is the newest.
LEMMA AppendRising ==
    ASSUME NEW S, NEW q \in Seq(S), NEW c \in S, NEW f \in [S -> Nat], Rising(q, f),
           \A d \in Elems(q) : f[d] < f[c]
    PROVE  /\ Append(q, c) \in Seq(S) /\ Append(q, c) # <<>>
           /\ Elems(Append(q, c)) = Elems(q) \cup {c}
           /\ Rising(Append(q, c), f)
           /\ q # <<>> => Head(Append(q, c)) = Head(q)
<1> DEFINE r == Append(q, c)
           n == Len(q)
<1>1. n \in Nat /\ DOMAIN q = 1..n
  BY LenProperties
<1>2. /\ r \in Seq(S) /\ Len(r) = n + 1 /\ r[n + 1] = c
      /\ \A i \in 1..n : r[i] = q[i]
  BY AppendProperties
<1>3. DOMAIN r = 1..(n + 1) /\ r # <<>>
  BY <1>1, <1>2, LenProperties, EmptySeq
<1> HIDE DEF r, n
<1>4. Elems(r) = Elems(q) \cup {c}
  <2>1. \A i \in 1..(n + 1) : i \in 1..n \/ i = n + 1
    BY <1>1
  <2>2. \A i \in 1..n : i \in 1..(n + 1)
    BY <1>1
  <2>3. n + 1 \in 1..(n + 1)
    BY <1>1
  <2> QED
    BY <1>1, <1>2, <1>3, <2>1, <2>2, <2>3 DEF Elems
<1>5. Rising(r, f)
  <2> SUFFICES ASSUME NEW i \in 1..(n + 1), NEW j \in 1..(n + 1), i < j
               PROVE  f[r[i]] < f[r[j]]
    BY <1>3 DEF Rising
  <2>1. i \in 1..n /\ (j \in 1..n \/ j = n + 1)
    BY <1>1
  <2>2. r[i] = q[i] /\ q[i] \in Elems(q)
    BY <1>1, <1>2, <2>1 DEF Elems
  <2>3. CASE j \in 1..n
    BY <1>1, <1>2, <2>1, <2>2, <2>3 DEF Rising
  <2>4. CASE j = n + 1
    BY <1>2, <2>2, <2>4
  <2> QED
    BY <2>1, <2>3, <2>4
<1>6. q # <<>> => Head(r) = Head(q)
  <2> SUFFICES ASSUME q # <<>> PROVE Head(r) = Head(q)
    OBVIOUS
  <2>1. n # 0 /\ Head(q) = q[1]
    BY EmptySeq, HeadTailProperties DEF n
  <2>2. Head(r) = r[1]
    BY <1>2, <1>3, HeadTailProperties
  <2>3. 1 \in 1..n
    BY <1>1, <2>1
  <2> QED
    BY <1>2, <2>1, <2>2, <2>3
<1> QED
  BY <1>2, <1>3, <1>4, <1>5, <1>6 DEF r

\* pop(0).
LEMMA TailRising ==
    ASSUME NEW S, NEW q \in Seq(S), NEW f \in [S -> Nat], Rising(q, f), q # <<>>
    PROVE  /\ Head(q) \in Elems(q) /\ Head(q) \in S
           /\ Tail(q) \in Seq(S)
           /\ Elems(Tail(q)) = Elems(q) \ {Head(q)}
           /\ Rising(Tail(q), f)
<1> DEFINE r == Tail(q)
           n == Len(q)
<1>1. n \in Nat \ {0} /\ DOMAIN q = 1..n /\ \A i \in 1..n : q[i] \in S
  BY LenProperties, EmptySeq, ElementOfSeq
<1>2. Head(q) = q[1] /\ r \in Seq(S) /\ Len(r) = n - 1 /\ \A i \in 1..(n - 1) : r[i] = q[i + 1]
  BY HeadTailProperties
<1>3. DOMAIN r = 1..(n - 1) /\ 1 \in 1..n
  BY <1>1, <1>2, LenProperties
<1> HIDE DEF r, n
<1>4. Head(q) \in Elems(q) /\ Head(q) \in S
  BY <1>1, <1>2, <1>3 DEF Elems
<1>5. \A i \in 1..(n - 1) : i + 1 \in 1..n /\ q[i + 1] # q[1]
  <2> SUFFICES ASSUME NEW i \in 1..(n - 1) PROVE i + 1 \in 1..n /\ q[i + 1] # q[1]
    OBVIOUS
  <2>1. i + 1 \in 1..n /\ 1 < i + 1
    BY <1>1
  <2>2. f[q[1]] < f[q[i + 1]] /\ f[q[1]] \in Nat
    BY <1>1, <1>3, <2>1 DEF Rising
  <2> QED
    BY <2>1, <2>2
<1>6. \A i \in 1..n : i = 1 \/ (i - 1 \in 1..(n - 1) /\ (i - 1) + 1 = i)
  BY <1>1
<1>7. Elems(r) = Elems(q) \ {Head(q)}
  <2>1. ASSUME NEW e \in Elems(r) PROVE e \in Elems(q) \ {Head(q)}
    <3>1. PICK i \in 1..(n - 1) : e = r[i]
      BY <1>3 DEF Elems
    <3> QED
      BY <1>1, <1>2, <1>5, <3>1 DEF Elems
  <2>2. ASSUME NEW e \in Elems(q) \ {Head(q)} PROVE e \in Elems(r)
    <3>1. PICK i \in 1..n : e = q[i]
      BY <1>1 DEF Elems
    <3>2. i - 1 \in 1..(n - 1) /\ r[i - 1] = e
      BY <1>2, <1>6, <3>1
    <3> QED
      BY <1>3, <3>2 DEF Elems
  <2> QED
    BY <2>1, <2>2
<1>8. Rising(r, f)
  <2> SUFFICES ASSUME NEW i \in 1..(n - 1), NEW j \in 1..(n - 1), i < j
               PROVE  f[r[i]] < f[r[j]]
    BY <1>3 DEF Rising
  <2>1. i + 1 < j + 1
    BY <1>1
  <2> QED
    BY <1>1, <1>2, <1>5, <2>1 DEF Rising
<1> QED
  BY <1>2, <1>4, <1>7, <1>8 DEF r

\* Without.
LEMMA WithoutRising ==
    ASSUME NEW S, NEW q \in Seq(S), NEW c \in S, NEW f \in [S -> Nat], Rising(q, f)
    PROVE  /\ Without(q, c) \in Seq(S)
           /\ Elems(Without(q, c)) = Elems(q) \ {c}
           /\ Rising(Without(q, c), f)
<1> DEFINE n == Len(q)
           r == Without(q, c)
<1>1. n \in Nat /\ DOMAIN q = 1..n /\ \A i \in 1..n : q[i] \in S
  BY LenProperties, ElementOfSeq
<1>2. CASE \A i \in DOMAIN q : q[i] # c
  BY <1>2 DEF Without, Elems
<1>3. CASE \E i \in DOMAIN q : q[i] = c
  <2>1. PICK p \in 1..n : q[p] = c /\ r = [i \in 1..(n - 1) |-> IF i < p THEN q[i] ELSE q[i + 1]]
    BY <1>1, <1>3 DEF Without
  <2>2. \A i \in 1..n : i # p => q[i] # c
    <3> SUFFICES ASSUME NEW i \in 1..n, i # p PROVE q[i] # c
      OBVIOUS
    <3>1. i < p \/ p < i
      BY <1>1, <2>1
    <3>2. f[q[i]] < f[q[p]] \/ f[q[p]] < f[q[i]]
      BY <1>1, <2>1, <3>1 DEF Rising
    <3> QED
      BY <1>1, <2>1, <3>2
  <2>3. n - 1 \in Nat /\ \A i \in 1..(n - 1) : i \in 1..n /\ i + 1 \in 1..n
    BY <1>1, <2>1
  <2>4. r \in Seq(S) /\ DOMAIN r = 1..(n - 1)
    <3>1. r \in [1..(n - 1) -> S]
      BY <1>1, <2>1, <2>3
    <3> HIDE DEF r, n
    <3>2. \E m \in Nat : r \in [1..m -> S]
      BY <2>3, <3>1
    <3>3. r \in Seq(S)
      BY <3>2, SeqDef
    <3> QED
      BY <3>1, <3>3
  <2> DEFINE from(i) == IF i < p THEN i ELSE i + 1
  <2>5. \A i \in 1..(n - 1) : from(i) \in 1..n /\ from(i) # p /\ r[i] = q[from(i)]
    BY <1>1, <2>1, <2>3
  <2>6. \A i, j \in 1..(n - 1) : i < j => from(i) < from(j)
    BY <1>1, <2>1
  <2>7. \A i \in 1..n : i # p => \E j \in 1..(n - 1) : from(j) = i
    <3> SUFFICES ASSUME NEW i \in 1..n, i # p PROVE \E j \in 1..(n - 1) : from(j) = i
      OBVIOUS
    <3>1. CASE i < p
      <4>1. i \in 1..(n - 1) /\ from(i) = i
        BY <1>1, <2>1, <3>1
      <4> QED
        BY <4>1
    <3>2. CASE p < i
      <4>1. i - 1 \in 1..(n - 1) /\ from(i - 1) = i
        BY <1>1, <2>1, <3>2
      <4> QED
        BY <4>1
    <3> QED
      BY <1>1, <2>1, <3>1, <3>2
  <2> HIDE DEF from, r, n
  <2>8. Elems(r) = Elems(q) \ {c}
    <3>1. ASSUME NEW e \in Elems(r) PROVE e \in Elems(q) \ {c}
      <4>1. PICK i \in 1..(n - 1) : e = r[i]
        BY <2>4 DEF Elems
      <4>2. e = q[from(i)] /\ from(i) \in 1..n /\ e # c
        BY <2>2, <2>5, <4>1
      <4> QED
        BY <1>1, <4>2 DEF Elems
    <3>2. ASSUME NEW e \in Elems(q) \ {c} PROVE e \in Elems(r)
      <4>1. PICK i \in 1..n : e = q[i]
        BY <1>1 DEF Elems
      <4>2. i # p
        BY <2>1, <4>1
      <4>3. PICK j \in 1..(n - 1) : from(j) = i
        BY <2>7, <4>2
      <4>4. r[j] = e
        BY <2>5, <4>1, <4>3
      <4> QED
        BY <2>4, <4>4 DEF Elems
    <3> QED
      BY <3>1, <3>2
  <2>9. Rising(r, f)
    BY <1>1, <2>4, <2>5, <2>6 DEF Rising
  <2> QED
    BY <2>4, <2>8, <2>9 DEF r
<1> QED
  BY <1>2, <1>3

\* sorted(), of conversations with different stamps.
LEMMA InOrderRising ==
    ASSUME NEW S, IsFiniteSet(S), NEW q \in InOrder(S),
           \A c \in S : at[c] \in Nat, \A c, d \in S : at[c] = at[d] => c = d
    PROVE  /\ q \in Seq(S) /\ Elems(q) = S
           /\ Rising(q, at)
<1> DEFINE n == Cardinality(S)
<1>1. n \in Nat
  BY FS_CardinalityType
<1>2. /\ q \in [1..n -> S]
      /\ \A i, j \in 1..n : i < j => at[q[i]] <= at[q[j]]
      /\ \A c \in S : \E i \in 1..n : q[i] = c
  BY DEF InOrder
<1>3. q \in Seq(S)
  BY <1>1, <1>2, SeqDef
<1>4. DOMAIN q = 1..n /\ Elems(q) = S
  BY <1>2 DEF Elems
<1>5. q \in Injection(1..n, S)
  <2>1. IsFiniteSet(1..n) /\ Cardinality(1..n) = n
    BY <1>1, FS_Interval
  <2>2. q \in Surjection(1..n, S)
    BY <1>2 DEF Surjection
  <2> QED
    BY <2>1, <2>2, FS_SurjSameCardinalityImpliesInj
<1> HIDE DEF n
<1>6. \A i, j \in 1..n : q[i] = q[j] => i = j
  <2> DEFINE D == 1..n
  <2>1. q \in Injection(D, S)
    BY <1>5
  <2> HIDE DEF D
  <2>2. \A i, j \in D : q[i] = q[j] => i = j
    BY <2>1, Fun_InjectionProperties, Zenon
  <2> QED
    BY <2>2 DEF D
<1>7. Rising(q, at)
  <2> SUFFICES ASSUME NEW i \in 1..n, NEW j \in 1..n, i < j
               PROVE  at[q[i]] < at[q[j]]
    BY <1>4 DEF Rising
  <2>1. q[i] \in S /\ q[j] \in S /\ q[i] # q[j]
    BY <1>1, <1>2, <1>6
  <2>2. at[q[i]] \in Nat /\ at[q[j]] \in Nat /\ at[q[i]] # at[q[j]] /\ at[q[i]] <= at[q[j]]
    BY <1>2, <2>1
  <2> QED
    BY <2>2
<1> QED
  BY <1>3, <1>4, <1>7

LEMMA QueueAsElems == Queued = Elems(queue) /\ (SubmissionOrder <=> Rising(queue, at))
  BY DEF Queued, Elems, SubmissionOrder, Rising

-----------------------------------------------------------------------------
(* Inv is inductive.                                                       *)

LEMMA InitInv == Init => Inv
<1> SUFFICES ASSUME Init PROVE Inv
  OBVIOUS
<1> USE ConstantsAssumption DEF Init
<1>1. Queued = {} /\ queue \in Seq(Convs) /\ SubmissionOrder
  <2>1. queue \in Seq(Convs) /\ DOMAIN queue = {}
    BY EmptySeq
  <2> QED
    BY <2>1 DEF Queued, SubmissionOrder
<1>2. TypeOK
  BY <1>1 DEF TypeOK, DispPcs, Statuses, SchedPcs, Resting
<1>3. LockRight /\ Stamps /\ Phases /\ SchedRight /\ RunsAreLoaded
  BY <1>1 DEF LockRight, Stamps, Phases, SchedRight, RunsAreLoaded, Running, Resting, Early, Inside
<1> QED
  BY <1>1, <1>2, <1>3 DEF Inv

\* The queue and the stamps stay.
LEMMA QueueStays ==
    ASSUME SubmissionOrder, UNCHANGED <<queue, at>>
    PROVE  Queued' = Queued /\ SubmissionOrder'
  BY DEF Queued, SubmissionOrder

\* A conversation that is loaded has its metadata saved, and no other is touched.
LEMMA LoadKeepsRecord ==
    ASSUME TypeOK, Phases, NEW c \in known, GetOrLoad(c)
    PROVE  /\ loaded' \subseteq Convs /\ loaded' = loaded \cup {c}
           /\ meta' \in [Convs -> {"none", "queued", "admitted"}]
           /\ \A d \in Convs : meta'[d] # "none" <=> meta[d] # "none"
           /\ \A d \in Convs : meta'[d] = "queued" => meta[d] = "queued" \/ adm[d] = "queued"
  BY DEF GetOrLoad, TypeOK, Phases

\* A conversation with the newest stamp is put at the end of the queue.
LEMMA EnqueueRight ==
    ASSUME Inv, NEW c \in Convs, c \notin Queued, queue' = Enqueue(c),
           at' \in [Convs -> Nat], \A d \in Convs \ {c} : at'[d] = at[d],
           \A d \in Queued : at[d] < at'[c]
    PROVE  /\ queue' \in Seq(Convs) /\ Queued' = Queued \cup {c} /\ SubmissionOrder'
           /\ queue' # <<>> /\ (queue # <<>> => Head(queue') = Head(queue))
<1>1. queue \in Seq(Convs) /\ Rising(queue, at) /\ Elems(queue) = Queued
  BY QueueAsElems DEF Inv, TypeOK
<1>2. \A i \in DOMAIN queue : queue[i] \in Convs \ {c} /\ at'[queue[i]] = at[queue[i]]
  <2>1. \A i \in DOMAIN queue : queue[i] \in Convs /\ queue[i] \in Queued
    BY <1>1, LenProperties, ElementOfSeq DEF Queued
  <2> QED
    BY <2>1
<1>3. Rising(queue, at')
  BY <1>1, <1>2 DEF Rising
<1>4. \A d \in Elems(queue) : at'[d] < at'[c]
  BY <1>1, <1>2 DEF Elems
<1>5. queue' = Append(queue, c)
  BY DEF Enqueue
<1>6. /\ Append(queue, c) \in Seq(Convs) /\ Append(queue, c) # <<>>
      /\ Elems(Append(queue, c)) = Elems(queue) \cup {c} /\ Rising(Append(queue, c), at')
      /\ queue # <<>> => Head(Append(queue, c)) = Head(queue)
  BY <1>1, <1>3, <1>4, AppendRising
<1>7. Queued' = Elems(queue') /\ (SubmissionOrder' <=> Rising(queue', at'))
  BY DEF Queued, Elems, SubmissionOrder, Rising
<1> QED
  BY <1>1, <1>5, <1>6, <1>7

\* The head is popped.
LEMMA PopRight ==
    ASSUME Inv, queue # <<>>, queue' = Tail(queue), at' = at
    PROVE  /\ queue' \in Seq(Convs) /\ Queued' = Queued \ {Head(queue)} /\ SubmissionOrder'
<1>1. queue \in Seq(Convs) /\ Rising(queue, at) /\ Elems(queue) = Queued /\ at \in [Convs -> Nat]
  BY QueueAsElems DEF Inv, TypeOK
<1>2. /\ Tail(queue) \in Seq(Convs) /\ Elems(Tail(queue)) = Elems(queue) \ {Head(queue)}
      /\ Rising(Tail(queue), at)
  BY <1>1, TailRising
<1>3. Queued' = Elems(queue') /\ (SubmissionOrder' <=> Rising(queue', at'))
  BY DEF Queued, Elems, SubmissionOrder, Rising
<1> QED
  BY <1>1, <1>2, <1>3

\* The head of the queue is one of the queued.
LEMMA HeadRight ==
    ASSUME Inv, queue # <<>>
    PROVE  Head(queue) \in Queued /\ Head(queue) \in Convs
<1>1. queue \in Seq(Convs) /\ Rising(queue, at) /\ Elems(queue) = Queued /\ at \in [Convs -> Nat]
  BY QueueAsElems DEF Inv, TypeOK
<1> QED
  BY <1>1, TailRising

\* A conversation leaves the queue.
LEMMA RemoveRight ==
    ASSUME Inv, NEW c \in Convs, queue' = Without(queue, c), at' = at
    PROVE  /\ queue' \in Seq(Convs) /\ Queued' = Queued \ {c} /\ SubmissionOrder'
<1>1. queue \in Seq(Convs) /\ Rising(queue, at) /\ Elems(queue) = Queued /\ at \in [Convs -> Nat]
  BY QueueAsElems DEF Inv, TypeOK
<1>2. /\ Without(queue, c) \in Seq(Convs) /\ Elems(Without(queue, c)) = Elems(queue) \ {c}
      /\ Rising(Without(queue, c), at)
  BY <1>1, WithoutRising
<1>3. Queued' = Elems(queue') /\ (SubmissionOrder' <=> Rising(queue', at'))
  BY DEF Queued, Elems, SubmissionOrder, Rising
<1> QED
  BY <1>1, <1>2, <1>3

\* The stamp of a dispatch that is about to start is newer than those in the queue.
LEMMA NewestStamp ==
    ASSUME Inv, NEW c \in Convs, c \notin Queued, NEW n \in Nat,
           n = clock + 1 \/ (n = clock /\ at[c] = n /\ n # 0)
    PROVE  \A d \in Queued : at[d] < n
<1> SUFFICES ASSUME NEW d \in Queued PROVE at[d] < n
  OBVIOUS
<1>1. d \in Convs /\ d # c
  BY LenProperties, ElementOfSeq DEF Inv, TypeOK, Queued
<1>2. at[d] \in Nat /\ at[d] <= clock /\ clock \in Nat /\ at[d] # 0
  BY <1>1 DEF Inv, TypeOK, Stamps
<1>3. at[c] = at[d] => FALSE
  BY <1>1, <1>2 DEF Inv, Stamps
<1> QED
  BY <1>2, <1>3

\* Dispatches.
LEMMA DispatchInv ==
    ASSUME Inv,
           \E c \in Convs : \/ Create(c) \/ Appended(c) \/ DispatchFails(c) \/ Replay(c)
                            \/ Decide(c) \/ StartDispatched(c) \/ EnqueueDispatched(c)
                            \/ DispatchOrphaned(c)
    PROVE  Inv'
<1> USE ConstantsAssumption DEF Inv
<1>1. ASSUME NEW c \in Convs, Create(c) PROVE Inv'
  <2>1. Queued' = Queued /\ SubmissionOrder'
    BY <1>1, QueueStays DEF Create, StartEventService, disk
  <2>2. TypeOK'
    BY <1>1 DEF Create, StartEventService, TypeOK, disk, mem, flags, hist, DispPcs
  <2>3. LockRight'
    BY <1>1, <2>1 DEF Create, StartEventService, LockRight, Inside, TypeOK, disk, mem, flags, hist
  <2>4. Stamps'
    BY <1>1, <2>1 DEF Create, StartEventService, Stamps, Inside, TypeOK, disk, mem, flags, hist
  <2>5. Phases'
    BY <1>1, <2>1 DEF Create, StartEventService, Phases, Early, TypeOK, disk, mem, flags, hist
  <2>6. SchedRight'
    BY <1>1, <2>1 DEF Create, StartEventService, SchedRight, Early, LockRight, Inside, TypeOK, disk, mem, flags, hist
  <2>7. RunsAreLoaded'
    BY <1>1, <2>1 DEF Create, StartEventService, RunsAreLoaded, Running, TypeOK, disk, mem, flags, hist
  <2> QED
    BY <2>1, <2>2, <2>3, <2>4, <2>5, <2>6, <2>7
<1>2. ASSUME NEW c \in Convs, Appended(c) PROVE Inv'
  <2>1. Queued' = Queued /\ SubmissionOrder'
    BY <1>2, QueueStays DEF Appended, disk
  <2>2. TypeOK'
    BY <1>2 DEF Appended, TypeOK, disk, mem, flags, hist, DispPcs
  <2>3. LockRight'
    BY <1>2, <2>1 DEF Appended, LockRight, Inside, TypeOK, disk, mem, flags, hist
  <2>4. Stamps'
    BY <1>2, <2>1 DEF Appended, Stamps, Inside, TypeOK, disk, mem, flags, hist
  <2>5. Phases'
    BY <1>2, <2>1 DEF Appended, Phases, Early, TypeOK, disk, mem, flags, hist
  <2>6. SchedRight'
    BY <1>2, <2>1 DEF Appended, SchedRight, Early, LockRight, Inside, TypeOK, disk, mem, flags, hist
  <2>7. RunsAreLoaded'
    BY <1>2, <2>1 DEF Appended, RunsAreLoaded, Running, TypeOK, disk, mem, flags, hist
  <2> QED
    BY <2>1, <2>2, <2>3, <2>4, <2>5, <2>6, <2>7
<1>3. ASSUME NEW c \in Convs, DispatchFails(c) PROVE Inv'
  <2>1. Queued' = Queued /\ SubmissionOrder'
    BY <1>3, QueueStays DEF DispatchFails, disk
  <2>2. TypeOK'
    BY <1>3 DEF DispatchFails, TypeOK, disk, mem, flags, hist, DispPcs
  <2>3. LockRight'
    BY <1>3, <2>1 DEF DispatchFails, LockRight, Inside, TypeOK, disk, mem, flags, hist
  <2>4. Stamps'
    BY <1>3, <2>1 DEF DispatchFails, Stamps, Inside, TypeOK, disk, mem, flags, hist
  <2>5. Phases'
    BY <1>3, <2>1 DEF DispatchFails, Phases, Early, TypeOK, disk, mem, flags, hist
  <2>6. SchedRight'
    BY <1>3, <2>1 DEF DispatchFails, SchedRight, Early, LockRight, Inside, TypeOK, disk, mem, flags, hist
  <2>7. RunsAreLoaded'
    BY <1>3, <2>1 DEF DispatchFails, RunsAreLoaded, Running, Phases, TypeOK, disk, mem, flags, hist
  <2> QED
    BY <2>1, <2>2, <2>3, <2>4, <2>5, <2>6, <2>7
<1>4. ASSUME NEW c \in Convs, Replay(c) PROVE Inv'
  <2>1. Queued' = Queued /\ SubmissionOrder'
    BY <1>4, QueueStays DEF Replay, disk
  <2>2. TypeOK'
    BY <1>4 DEF Replay, TypeOK, disk, mem, flags, hist, DispPcs
  <2>3. LockRight'
    BY <1>4, <2>1 DEF Replay, LockRight, Inside, TypeOK, disk, mem, flags, hist
  <2>4. Stamps'
    BY <1>4, <2>1 DEF Replay, Stamps, Inside, TypeOK, disk, mem, flags, hist
  <2>5. Phases'
    BY <1>4, <2>1 DEF Replay, Phases, Early, TypeOK, disk, mem, flags, hist
  <2>6. SchedRight'
    BY <1>4, <2>1 DEF Replay, SchedRight, Early, LockRight, Inside, TypeOK, disk, mem, flags, hist
  <2>7. RunsAreLoaded'
    BY <1>4, <2>1 DEF Replay, RunsAreLoaded, Running, TypeOK, disk, mem, flags, hist
  <2> QED
    BY <2>1, <2>2, <2>3, <2>4, <2>5, <2>6, <2>7
<1>5. ASSUME NEW c \in Convs, Decide(c) PROVE Inv'
  <2>1. /\ disp[c] = "created" /\ c \in known /\ lock = None /\ lock' = c
        /\ disp' = [disp EXCEPT ![c] = "sendRun"] \/ disp' = [disp EXCEPT ![c] = "sendNote"]
        /\ moved' \subseteq moved
        /\ UNCHANGED <<status, known, loaded, run, intent, resume, queue, sched, stopping,
                       deleting, crashes, hist>>
    BY <1>5 DEF Decide
  <2>2. disp' \in [Convs -> DispPcs] /\ disp'[c] \in {"sendRun", "sendNote"}
        /\ \A d \in Convs \ {c} : disp'[d] = disp[d]
    BY <2>1 DEF TypeOK, DispPcs
  <2>3. /\ adm' \in [Convs -> {"queued", "admitted"}] /\ meta' \in [Convs -> {"none", "queued", "admitted"}]
        /\ clock' \in Nat /\ at' \in [Convs -> 0..clock']
        /\ \A d \in Convs \ {c} : at'[d] = at[d] /\ meta'[d] = meta[d] /\ adm'[d] = adm[d]
        /\ meta'[c] # "none"
        /\ \/ disp'[c] = "sendRun" /\ at'[c] = clock + 1 /\ clock' = clock + 1
           \/ /\ disp'[c] = "sendNote" /\ at'[c] = at[c] /\ clock' = clock
              /\ meta'[c] = meta[c] /\ adm'[c] = adm[c]
    <3>1. CASE disp' = [disp EXCEPT ![c] = "sendRun"] /\ Mark(c)
      BY <3>1 DEF Mark, TypeOK
    <3>2. CASE disp' = [disp EXCEPT ![c] = "sendNote"] /\ UNCHANGED <<adm, meta, clock, at>>
      BY <2>1, <3>2 DEF TypeOK, Phases
    <3> QED
      BY <1>5, <3>1, <3>2 DEF Decide
  <2>4. Queued' = Queued /\ c \notin Queued
    BY <2>1 DEF Queued, Phases, Early
  <2>5. SubmissionOrder'
    <3>1. \A i \in DOMAIN queue : queue[i] \in Convs \ {c}
      BY <2>4, LenProperties, ElementOfSeq DEF TypeOK, Queued
    <3> QED
      BY <2>1, <2>3, <3>1 DEF SubmissionOrder
  <2>6. TypeOK'
    BY <2>1, <2>2, <2>3 DEF TypeOK, hist
  <2>7. LockRight'
    BY <2>1, <2>2 DEF LockRight, Inside
  <2>8. Stamps'
    <3>0. clock \in Nat /\ \A d \in Convs : at[d] \in Nat /\ at[d] <= clock
      BY DEF TypeOK
    <3>1. \A d, e \in Convs : at'[d] = at'[e] /\ at'[d] # 0 => d = e
      BY <2>3, <3>0 DEF Stamps
    <3>2. \A d \in Convs : disp'[d] \in {"sendRun", "start"} => at'[d] = clock' /\ at'[d] # 0
      BY <2>1, <2>2, <2>3 DEF LockRight, Inside, TypeOK
    <3>3. \A d \in Convs : meta'[d] = "queued" \/ adm'[d] = "queued" \/ d \in Queued' => at'[d] # 0
      BY <2>3, <2>4, <3>0 DEF Stamps
    <3> QED
      BY <3>1, <3>2, <3>3 DEF Stamps
  <2>9. Phases'
    BY <2>1, <2>2, <2>3, <2>4 DEF Phases, Early
  <2>10. SchedRight'
    BY <2>1, <2>2 DEF SchedRight, Early, TypeOK
  <2>11. RunsAreLoaded'
    BY <2>1 DEF RunsAreLoaded, Running
  <2> QED
    BY <2>5, <2>6, <2>7, <2>8, <2>9, <2>10, <2>11
<1>6. ASSUME NEW c \in Convs, StartDispatched(c) PROVE Inv'
  <2>1. /\ disp[c] = "start" /\ c \in known /\ lock' = None
        /\ disp' = [disp EXCEPT ![c] = "done"] /\ accepted' = accepted \cup {c}
        /\ UNCHANGED <<status, known, loaded, resume, moved, sched, stopping, deleting,
                       crashes, began, cut, skipped, clock, at>>
    BY <1>6 DEF StartDispatched, Answer
  <2>2. lock = c /\ c \notin Queued /\ at[c] = clock /\ at[c] # 0 /\ run[c] = "none" /\ c \in Convs
    BY <2>1 DEF LockRight, Inside, Phases, Early, Stamps
  <2>3. disp' \in [Convs -> DispPcs] /\ disp'[c] = "done" /\ \A d \in Convs \ {c} : disp'[d] = disp[d]
    BY <2>1 DEF TypeOK, DispPcs
  <2>4. /\ queue' \in Seq(Convs) /\ SubmissionOrder' /\ (Queued' = Queued \/ Queued' = Queued \cup {c})
    <3>1. CASE UNCHANGED queue
      BY <2>1, <3>1, QueueStays DEF TypeOK
    <3>2. CASE queue' = Enqueue(c)
      <4>1. \A d \in Queued : at[d] < at'[c]
        BY <2>1, <2>2, NewestStamp DEF TypeOK
      <4>2. at' \in [Convs -> Nat] /\ \A d \in Convs \ {c} : at'[d] = at[d]
        BY <2>1 DEF TypeOK
      <4> QED
        BY <2>2, <3>2, <4>1, <4>2, EnqueueRight
    <3> QED
      BY <1>6, <3>1, <3>2 DEF StartDispatched
  <2>5. /\ adm' \in [Convs -> {"queued", "admitted"}] /\ meta' \in [Convs -> {"none", "queued", "admitted"}]
        /\ run' \in [Convs -> {"none", "created", "live"}] /\ intent' \subseteq Convs
        /\ \A d \in Convs \ {c} : /\ run'[d] = run[d] /\ (d \in intent' <=> d \in intent)
                                  /\ adm'[d] = adm[d] /\ meta'[d] = meta[d]
        /\ meta'[c] # "none"
    <3>1. CASE /\ CreateRun(c) /\ adm' = [adm EXCEPT ![c] = "admitted"]
               /\ meta' = [meta EXCEPT ![c] = "admitted"]
      BY <3>1 DEF CreateRun, TypeOK
    <3>2. CASE intent' = intent \cup {c} /\ UNCHANGED <<adm, meta, run>>
      BY <2>1, <3>2 DEF TypeOK, Phases
    <3> QED
      BY <1>6, <3>1, <3>2 DEF StartDispatched
  <2>6. TypeOK'
    BY <2>1, <2>3, <2>4, <2>5 DEF TypeOK
  <2>7. LockRight'
    BY <2>1, <2>2, <2>3 DEF LockRight, Inside
  <2>8. Stamps'
    BY <2>1, <2>2, <2>3, <2>4, <2>5 DEF Stamps
  <2>9. Phases'
    BY <2>1, <2>3, <2>4, <2>5 DEF Phases, Early
  <2>10. SchedRight'
    BY <2>1, <2>3 DEF SchedRight, Early, TypeOK
  <2>11. RunsAreLoaded'
    <3>1. c \in loaded
      BY <2>1 DEF Phases, Early
    <3> QED
      BY <2>1, <2>5, <3>1 DEF RunsAreLoaded, Running
  <2> QED
    BY <2>4, <2>6, <2>7, <2>8, <2>9, <2>10, <2>11
<1>7. ASSUME NEW c \in Convs, EnqueueDispatched(c) PROVE Inv'
  <2>1. /\ disp[c] = "enqueue" /\ c \in known /\ lock' = None /\ Mark(c) /\ queue' = Enqueue(c)
        /\ disp' = [disp EXCEPT ![c] = "done"] /\ accepted' = accepted \cup {c}
        /\ UNCHANGED <<status, known, loaded, resume, moved, sched, stopping, deleting,
                       crashes, began, cut, skipped, run, intent>>
    BY <1>7 DEF EnqueueDispatched, Answer
  <2>2. lock = c /\ c \notin Queued /\ clock \in Nat /\ \A d \in Convs : at[d] \in Nat /\ at[d] <= clock
    BY <2>1 DEF LockRight, Inside, Phases, Early, TypeOK
  <2>3. disp' \in [Convs -> DispPcs] /\ disp'[c] = "done" /\ \A d \in Convs \ {c} : disp'[d] = disp[d]
    BY <2>1 DEF TypeOK, DispPcs
  <2>4. /\ adm' \in [Convs -> {"queued", "admitted"}] /\ meta' \in [Convs -> {"none", "queued", "admitted"}]
        /\ clock' \in Nat /\ at' \in [Convs -> 0..clock'] /\ at'[c] = clock + 1 /\ meta'[c] # "none"
        /\ \A d \in Convs \ {c} : at'[d] = at[d] /\ meta'[d] = meta[d] /\ adm'[d] = adm[d]
    BY <2>1 DEF Mark, TypeOK
  <2>5. queue' \in Seq(Convs) /\ SubmissionOrder' /\ Queued' = Queued \cup {c}
    <3>1. \A d \in Queued : at[d] < at'[c]
      BY <2>2, <2>4, NewestStamp
    <3>2. at' \in [Convs -> Nat]
      BY <2>4
    <3> QED
      BY <2>1, <2>2, <2>4, <3>1, <3>2, EnqueueRight
  <2>6. TypeOK'
    <3>1. {accepted', began', cut', skipped'} \subseteq SUBSET Convs
      BY <2>1 DEF TypeOK
    <3>2. /\ known' \subseteq Convs /\ loaded' \subseteq Convs /\ status' \in [Convs -> Statuses]
          /\ run' \in [Convs -> {"none", "created", "live"}] /\ intent' \subseteq Convs
          /\ resume' \subseteq Convs /\ moved' \subseteq Convs /\ lock' \in Convs \cup {Sched, None}
          /\ sched' \in [pc : SchedPcs, cur : Convs \cup {None}, todo : SUBSET Convs]
          /\ stopping' \in [Convs -> {"none", "save", "stop"}] /\ deleting' \subseteq Convs
          /\ crashes' \in 0..MaxCrashes
      BY <2>1 DEF TypeOK
    <3> QED
      BY <2>3, <2>4, <2>5, <3>1, <3>2 DEF TypeOK
  <2>7. LockRight'
    BY <2>1, <2>2, <2>3 DEF LockRight, Inside
  <2>8. Stamps'
    <3>1. \A d, e \in Convs : at'[d] = at'[e] /\ at'[d] # 0 => d = e
      BY <2>2, <2>4 DEF Stamps
    <3>2. \A d \in Convs : disp'[d] \in {"sendRun", "start"} => d # c /\ lock = d
      BY <2>3 DEF LockRight, Inside
    <3>3. \A d \in Convs : meta'[d] = "queued" \/ adm'[d] = "queued" \/ d \in Queued' => at'[d] # 0
      <4>1. at'[c] # 0
        BY <2>2, <2>4
      <4> QED
        BY <2>4, <2>5, <4>1 DEF Stamps
    <3> QED
      BY <2>2, <3>1, <3>2, <3>3 DEF Stamps
  <2>9. Phases'
    BY <2>1, <2>3, <2>4, <2>5 DEF Phases, Early
  <2>10. SchedRight'
    BY <2>1, <2>3 DEF SchedRight, Early, TypeOK
  <2>11. RunsAreLoaded'
    BY <2>1 DEF RunsAreLoaded, Running
  <2> QED
    BY <2>5, <2>6, <2>7, <2>8, <2>9, <2>10, <2>11
<1>8. ASSUME NEW c \in Convs, DispatchOrphaned(c) PROVE Inv'
  <2>1. /\ disp[c] \in Inside \cup {"created"} /\ c \notin known /\ lock' = None
        /\ disp[c] = "created" => lock = None
        /\ disp' = [disp EXCEPT ![c] = "gone"]
        /\ UNCHANGED <<meta, status, mem, run, flags, sched, stopping, deleting, crashes, hist>>
    BY <1>8 DEF DispatchOrphaned, Inside
  <2>2. /\ c \notin Queued /\ clock \in Nat /\ \A d \in Convs : at[d] \in Nat /\ at[d] <= clock
        /\ lock = c \/ (lock = None /\ disp[c] = "created")
    BY <2>1 DEF LockRight, Inside, Phases, Early, TypeOK
  <2>3. disp' \in [Convs -> DispPcs] /\ disp'[c] = "gone" /\ \A d \in Convs \ {c} : disp'[d] = disp[d]
    BY <2>1 DEF TypeOK, DispPcs
  <2>4. /\ clock' \in Nat /\ at' \in [Convs -> 0..clock']
        /\ \A d \in Convs \ {c} : at'[d] = at[d]
        /\ \/ disp[c] = "enqueue" /\ clock' = clock + 1 /\ at'[c] = clock + 1
           \/ clock' = clock /\ at' = at
    <3>1. CASE disp[c] = "enqueue" /\ clock' = clock + 1 /\ at' = [at EXCEPT ![c] = clock + 1]
      BY <3>1 DEF TypeOK
    <3>2. CASE UNCHANGED <<clock, at>>
      BY <3>2 DEF TypeOK
    <3> QED
      BY <1>8, <3>1, <3>2 DEF DispatchOrphaned
  <2>5. /\ queue' \in Seq(Convs) /\ SubmissionOrder'
        /\ Queued' = Queued \/ (Queued' = Queued \cup {c} /\ at'[c] # 0)
    <3>1. CASE disp[c] \in {"start", "enqueue"} /\ queue' = Enqueue(c)
      <4>1. at'[c] \in Nat /\ at'[c] # 0 /\ at' \in [Convs -> Nat] /\ \A d \in Queued : at[d] < at'[c]
        <5>1. CASE disp[c] = "enqueue" /\ at'[c] = clock + 1
          BY <2>2, <2>4, <5>1, NewestStamp
        <5>2. CASE disp[c] = "start" /\ clock' = clock /\ at' = at
          <6>1. at[c] = clock /\ clock # 0
            BY <5>2 DEF Stamps
          <6> QED
            BY <2>2, <2>4, <5>2, <6>1, NewestStamp
        <5> QED
          BY <1>8, <2>4, <3>1, <5>1, <5>2 DEF DispatchOrphaned
      <4> QED
        BY <2>2, <2>4, <3>1, <4>1, EnqueueRight
    <3>2. CASE disp[c] \notin {"start", "enqueue"} /\ queue' = queue
      <4>1. at' = at
        BY <2>4, <3>2
      <4> QED
        BY <3>2, <4>1, QueueStays DEF TypeOK
    <3> QED
      BY <1>8, <3>1, <3>2 DEF DispatchOrphaned
  <2>6. TypeOK'
    BY <2>1, <2>3, <2>4, <2>5 DEF TypeOK, mem, flags, hist
  <2>7. LockRight'
    BY <2>1, <2>2, <2>3 DEF LockRight, Inside
  <2>8. Stamps'
    <3>1. \A d, e \in Convs : at'[d] = at'[e] /\ at'[d] # 0 => d = e
      BY <2>2, <2>4 DEF Stamps
    <3>2. \A d \in Convs : disp'[d] \in {"sendRun", "start"} => d # c /\ lock = d
      BY <2>3 DEF LockRight, Inside
    <3>3. \A d \in Convs : meta'[d] = "queued" \/ adm'[d] = "queued" \/ d \in Queued' => at'[d] # 0
      BY <2>1, <2>2, <2>4, <2>5 DEF Stamps, mem
    <3> QED
      BY <2>2, <3>1, <3>2, <3>3 DEF Stamps
  <2>9. Phases'
    BY <2>1, <2>3, <2>5 DEF Phases, Early, Inside, mem, flags
  <2>10. SchedRight'
    BY <2>1, <2>3 DEF SchedRight, Early, Inside, mem, TypeOK
  <2>11. RunsAreLoaded'
    BY <2>1 DEF RunsAreLoaded, Running, mem
  <2> QED
    BY <2>5, <2>6, <2>7, <2>8, <2>9, <2>10, <2>11
<1> QED
  BY <1>1, <1>2, <1>3, <1>4, <1>5, <1>6, <1>7, <1>8

\* Runs, and messages to conversations that exist.
LEMMA RunInv ==
    ASSUME Inv,
           \E c \in Convs : \/ Begin(c) \/ End(c) \/ RunRequest(c) \/ SendRun(c) \/ SendNote(c)
                            \/ SendOvertaken(c)
    PROVE  Inv'
<1> USE ConstantsAssumption DEF Inv
<1>1. ASSUME NEW c \in Convs, Begin(c) PROVE Inv'
  <2>1. Queued' = Queued /\ SubmissionOrder'
    BY <1>1, QueueStays DEF Begin, disk
  <2>2. TypeOK'
    BY <1>1 DEF Begin, TypeOK, disk, mem, flags, hist, Statuses
  <2>3. LockRight'
    BY <1>1, <2>1 DEF Begin, LockRight, Inside, TypeOK, disk, mem, flags, hist
  <2>4. Stamps'
    BY <1>1, <2>1 DEF Begin, Stamps, Inside, TypeOK, disk, mem, flags, hist
  <2>5. Phases'
    BY <1>1, <2>1 DEF Begin, Phases, Early, TypeOK, disk, mem, flags, hist
  <2>6. SchedRight'
    BY <1>1, <2>1 DEF Begin, SchedRight, Early, LockRight, Inside, TypeOK, disk, mem, flags, hist
  <2>7. RunsAreLoaded'
    BY <1>1, <2>1 DEF Begin, RunsAreLoaded, Running, TypeOK, disk, mem, flags, hist
  <2> QED
    BY <2>1, <2>2, <2>3, <2>4, <2>5, <2>6, <2>7
<1>2. ASSUME NEW c \in Convs, End(c) PROVE Inv'
  <2>1. Queued' = Queued /\ SubmissionOrder'
    BY <1>2, QueueStays DEF End, disk
  <2>2. TypeOK'
    <3>1. status' \in [Convs -> Statuses] /\ run' \in [Convs -> {"none", "created", "live"}]
      BY <1>2 DEF End, TypeOK, Statuses
    <3>2. UNCHANGED <<disp, meta, at, known, loaded, adm, intent, resume, moved, queue, lock, sched,
                      stopping, deleting, clock, crashes, accepted, began, cut, skipped>>
      BY <1>2 DEF End, mem, flags, hist
    <3> QED
      BY <3>1, <3>2 DEF TypeOK
  <2>3. LockRight'
    BY <1>2, <2>1 DEF End, LockRight, Inside, TypeOK, disk, mem, flags, hist
  <2>4. Stamps'
    BY <1>2, <2>1 DEF End, Stamps, Inside, TypeOK, disk, mem, flags, hist
  <2>5. Phases'
    BY <1>2, <2>1 DEF End, Phases, Early, TypeOK, disk, mem, flags, hist
  <2>6. SchedRight'
    BY <1>2, <2>1 DEF End, SchedRight, Early, LockRight, Inside, TypeOK, disk, mem, flags, hist
  <2>7. RunsAreLoaded'
    BY <1>2, <2>1 DEF End, RunsAreLoaded, Running, TypeOK, disk, mem, flags, hist
  <2> QED
    BY <2>1, <2>2, <2>3, <2>4, <2>5, <2>6, <2>7
<1>3. ASSUME NEW c \in Convs, RunRequest(c) PROVE Inv'
  <2>1. Queued' = Queued /\ SubmissionOrder'
    BY <1>3, QueueStays DEF RunRequest, Reach, GetOrLoad, CreateRun, disk
  <2>2. TypeOK'
    BY <1>3 DEF RunRequest, Reach, GetOrLoad, CreateRun, TypeOK, disk, mem, flags, hist
  <2>3. LockRight'
    BY <1>3, <2>1 DEF RunRequest, Reach, GetOrLoad, CreateRun, LockRight, Inside, TypeOK, disk, mem, flags, hist
  <2>4. Stamps'
    BY <1>3, <2>1 DEF RunRequest, Reach, GetOrLoad, CreateRun, Stamps, Inside, TypeOK, disk, mem, flags, hist
  <2>5. Phases'
    <3>1. \A d \in Convs : meta'[d] # "none" <=> meta[d] # "none"
      BY <1>3 DEF RunRequest, Reach, GetOrLoad, CreateRun, Phases, TypeOK
    <3> QED
      BY <1>3, <2>1, <3>1 DEF RunRequest, Reach, GetOrLoad, CreateRun, Phases, Early, TypeOK, disk, mem, flags, hist
  <2>6. SchedRight'
    BY <1>3, <2>1 DEF RunRequest, Reach, GetOrLoad, CreateRun, SchedRight, Early, LockRight, Inside, TypeOK, disk, mem, flags, hist
  <2>7. RunsAreLoaded'
    BY <1>3, <2>1 DEF RunRequest, Reach, GetOrLoad, CreateRun, RunsAreLoaded, Running, TypeOK, disk, mem, flags, hist
  <2> QED
    BY <2>1, <2>2, <2>3, <2>4, <2>5, <2>6, <2>7
<1>4. ASSUME NEW c \in Convs, SendRun(c) PROVE Inv'
  <2>1. Queued' = Queued /\ SubmissionOrder'
    BY <1>4, QueueStays DEF SendRun, Reach, GetOrLoad, CreateRun, Message, Reopened, disk
  <2>2. TypeOK'
    BY <1>4 DEF SendRun, Reach, GetOrLoad, CreateRun, Message, Reopened, TypeOK, disk, mem, flags, hist, Statuses
  <2>3. LockRight'
    BY <1>4, <2>1 DEF SendRun, Reach, GetOrLoad, CreateRun, Message, Reopened, LockRight, Inside, TypeOK, disk, mem, flags, hist
  <2>4. Stamps'
    BY <1>4, <2>1 DEF SendRun, Reach, GetOrLoad, CreateRun, Message, Reopened, Stamps, Inside, TypeOK, disk, mem, flags, hist
  <2>5. Phases'
    <3>1. \A d \in Convs : meta'[d] # "none" <=> meta[d] # "none"
      BY <1>4 DEF SendRun, Reach, GetOrLoad, CreateRun, Message, Phases, TypeOK
    <3> QED
      BY <1>4, <2>1, <3>1 DEF SendRun, Reach, GetOrLoad, CreateRun, Message, Phases, Early, TypeOK, disk, mem, flags, hist
  <2>6. SchedRight'
    BY <1>4, <2>1 DEF SendRun, Reach, GetOrLoad, CreateRun, Message, Reopened, SchedRight, Early, LockRight, Inside, TypeOK, disk, mem, flags, hist
  <2>7. RunsAreLoaded'
    BY <1>4, <2>1 DEF SendRun, Reach, GetOrLoad, CreateRun, Message, Reopened, RunsAreLoaded, Running, TypeOK, disk, mem, flags, hist
  <2> QED
    BY <2>1, <2>2, <2>3, <2>4, <2>5, <2>6, <2>7
<1>5. ASSUME NEW c \in Convs, SendNote(c) PROVE Inv'
  <2>1. Queued' = Queued /\ SubmissionOrder'
    BY <1>5, QueueStays DEF SendNote, Reach, GetOrLoad, Message, Reopened, disk
  <2>2. TypeOK'
    BY <1>5 DEF SendNote, Reach, GetOrLoad, Message, Reopened, TypeOK, disk, mem, flags, hist, Statuses
  <2>3. LockRight'
    BY <1>5, <2>1 DEF SendNote, Reach, GetOrLoad, Message, Reopened, LockRight, Inside, TypeOK, disk, mem, flags, hist
  <2>4. Stamps'
    BY <1>5, <2>1 DEF SendNote, Reach, GetOrLoad, Message, Reopened, Stamps, Inside, TypeOK, disk, mem, flags, hist
  <2>5. Phases'
    <3>1. /\ loaded' = loaded \cup {c}
          /\ \A d \in Convs : meta'[d] # "none" <=> meta[d] # "none"
      BY <1>5, LoadKeepsRecord DEF SendNote, Reach, Message
    <3> QED
      BY <1>5, <2>1, <3>1 DEF SendNote, Reach, Message, Phases, Early, TypeOK, disk, mem, flags, hist
  <2>6. SchedRight'
    BY <1>5, <2>1 DEF SendNote, Reach, GetOrLoad, Message, Reopened, SchedRight, Early, LockRight, Inside, TypeOK, disk, mem, flags, hist
  <2>7. RunsAreLoaded'
    BY <1>5, <2>1 DEF SendNote, Reach, GetOrLoad, Message, Reopened, RunsAreLoaded, Running, TypeOK, disk, mem, flags, hist
  <2> QED
    BY <2>1, <2>2, <2>3, <2>4, <2>5, <2>6, <2>7
<1>6. ASSUME NEW c \in Convs, SendOvertaken(c) PROVE Inv'
  <2>1. Queued' = Queued /\ SubmissionOrder'
    BY <1>6, QueueStays DEF SendOvertaken, Reach, GetOrLoad, Message, Reopened, disk
  <2>2. TypeOK'
    BY <1>6 DEF SendOvertaken, Reach, GetOrLoad, Message, Reopened, TypeOK, disk, mem, flags, hist, Statuses
  <2>3. LockRight'
    BY <1>6, <2>1 DEF SendOvertaken, Reach, GetOrLoad, Message, Reopened, LockRight, Inside, TypeOK, disk, mem, flags, hist
  <2>4. Stamps'
    BY <1>6, <2>1 DEF SendOvertaken, Reach, GetOrLoad, Message, Reopened, Stamps, Inside, TypeOK, disk, mem, flags, hist
  <2>5. Phases'
    <3>1. /\ loaded' = loaded \cup {c}
          /\ \A d \in Convs : meta'[d] # "none" <=> meta[d] # "none"
      BY <1>6, LoadKeepsRecord DEF SendOvertaken, Reach, Message
    <3> QED
      BY <1>6, <2>1, <3>1 DEF SendOvertaken, Reach, Message, Phases, Early, TypeOK, disk, mem, flags, hist
  <2>6. SchedRight'
    BY <1>6, <2>1 DEF SendOvertaken, Reach, GetOrLoad, Message, Reopened, SchedRight, Early, LockRight, Inside, TypeOK, disk, mem, flags, hist
  <2>7. RunsAreLoaded'
    BY <1>6, <2>1 DEF SendOvertaken, Reach, GetOrLoad, Message, Reopened, RunsAreLoaded, Running, TypeOK, disk, mem, flags, hist
  <2> QED
    BY <2>1, <2>2, <2>3, <2>4, <2>5, <2>6, <2>7
<1> QED
  BY <1>1, <1>2, <1>3, <1>4, <1>5, <1>6

\* The ends of stops and deletes, and evictions.
LEMMA StopInv ==
    ASSUME Inv,
           \E c \in Convs : \/ StopSave(c) \/ StopSession(c) \/ DeleteEnd(c) \/ DeleteRefused(c)
                            \/ Evict(c)
    PROVE  Inv'
<1> USE ConstantsAssumption DEF Inv
<1>1. ASSUME NEW c \in Convs, StopSave(c) PROVE Inv'
  <2>1. Queued' = Queued /\ SubmissionOrder'
    BY <1>1, QueueStays DEF StopSave, disk
  <2>2. TypeOK'
    BY <1>1 DEF StopSave, TypeOK, disk, mem, flags, hist, Statuses
  <2>3. LockRight'
    BY <1>1, <2>1 DEF StopSave, LockRight, Inside, TypeOK, disk, mem, flags, hist
  <2>4. Stamps'
    BY <1>1, <2>1 DEF StopSave, Stamps, Inside, TypeOK, disk, mem, flags, hist
  <2>5. Phases'
    <3>1. /\ loaded \subseteq loaded'
          /\ \A d \in Convs : meta'[d] # "none" <=> meta[d] # "none"
      <4>1. CASE c \in known /\ meta' = [meta EXCEPT ![c] = adm[c]] /\ loaded' = loaded \cup {c}
        <5>2. meta[c] # "none" /\ adm[c] # "none"
          BY <4>1 DEF Phases, TypeOK
        <5> QED
          BY <4>1, <5>2 DEF TypeOK
      <4>2. CASE UNCHANGED <<loaded, meta>>
        BY <4>2
      <4> QED
        BY <1>1, <4>1, <4>2 DEF StopSave
    <3> QED
      BY <1>1, <2>1, <3>1 DEF StopSave, Phases, flags
  <2>6. SchedRight'
    BY <1>1, <2>1 DEF StopSave, SchedRight, Early, LockRight, Inside, TypeOK, disk, mem, flags, hist
  <2>7. RunsAreLoaded'
    BY <1>1, <2>1 DEF StopSave, RunsAreLoaded, Running, TypeOK, disk, mem, flags, hist
  <2> QED
    BY <2>1, <2>2, <2>3, <2>4, <2>5, <2>6, <2>7
<1>2. ASSUME NEW c \in Convs, StopSession(c) PROVE Inv'
  <2>1. Queued' = Queued /\ SubmissionOrder'
    BY <1>2, QueueStays DEF StopSession, GetOrLoad, disk
  <2>2. TypeOK'
    <3>1. meta' \in [Convs -> {"none", "queued", "admitted"}] /\ loaded' \subseteq Convs
      BY <1>2, LoadKeepsRecord DEF StopSession, TypeOK
    <3>2. status' \in [Convs -> Statuses] /\ run' \in [Convs -> {"none", "created", "live"}]
      BY <1>2 DEF StopSession, TypeOK, Statuses
    <3>3. resume' \subseteq Convs /\ moved' \subseteq Convs
      BY <1>2 DEF StopSession, TypeOK
    <3> QED
      BY <1>2, <3>1, <3>2, <3>3 DEF StopSession, TypeOK, hist
  <2>3. LockRight'
    BY <1>2, <2>1 DEF StopSession, GetOrLoad, LockRight, Inside, TypeOK, disk, mem, flags, hist
  <2>4. Stamps'
    BY <1>2, <2>1 DEF StopSession, GetOrLoad, Stamps, Inside, TypeOK, disk, mem, flags, hist
  <2>5. Phases'
    <3>1. /\ loaded \subseteq loaded'
          /\ \A d \in Convs : meta'[d] # "none" <=> meta[d] # "none"
      BY <1>2, LoadKeepsRecord DEF StopSession
    <3>2. /\ UNCHANGED <<disp, known, intent>> /\ resume' \subseteq resume
          /\ \A d \in Convs : run'[d] # "none" => run[d] # "none"
      BY <1>2 DEF StopSession, TypeOK
    <3> QED
      BY <2>1, <3>1, <3>2 DEF Phases
  <2>6. SchedRight'
    BY <1>2, <2>1 DEF StopSession, GetOrLoad, SchedRight, Early, LockRight, Inside, TypeOK, disk, mem, flags, hist
  <2>7. RunsAreLoaded'
    BY <1>2, <2>1 DEF StopSession, GetOrLoad, RunsAreLoaded, Running, TypeOK, disk, mem, flags, hist
  <2> QED
    BY <2>1, <2>2, <2>3, <2>4, <2>5, <2>6, <2>7
<1>3. ASSUME NEW c \in Convs, DeleteEnd(c) PROVE Inv'
  <2>1. Queued' = Queued /\ SubmissionOrder'
    BY <1>3, QueueStays DEF DeleteEnd, disk
  <2>2. TypeOK'
    BY <1>3 DEF DeleteEnd, TypeOK, disk, mem, flags, hist, DispPcs
  <2>3. LockRight'
    BY <1>3, <2>1 DEF DeleteEnd, LockRight, Inside, TypeOK, disk, mem, flags, hist
  <2>4. Stamps'
    BY <1>3, <2>1 DEF DeleteEnd, Stamps, Inside, TypeOK, disk, mem, flags, hist
  <2>5. Phases'
    BY <1>3, <2>1 DEF DeleteEnd, Phases, Early, TypeOK, disk, mem, flags, hist
  <2>6. SchedRight'
    BY <1>3, <2>1 DEF DeleteEnd, SchedRight, Early, LockRight, Inside, TypeOK, disk, mem, flags, hist
  <2>7. RunsAreLoaded'
    BY <1>3, <2>1 DEF DeleteEnd, RunsAreLoaded, Running, TypeOK, disk, mem, flags, hist
  <2> QED
    BY <2>1, <2>2, <2>3, <2>4, <2>5, <2>6, <2>7
<1>4. ASSUME NEW c \in Convs, DeleteRefused(c) PROVE Inv'
  <2>1. Queued' = Queued /\ SubmissionOrder'
    BY <1>4, QueueStays DEF DeleteRefused, disk
  <2>2. TypeOK'
    BY <1>4 DEF DeleteRefused, TypeOK, disk, mem, flags, hist
  <2>3. LockRight'
    BY <1>4, <2>1 DEF DeleteRefused, LockRight, Inside, TypeOK, disk, mem, flags, hist
  <2>4. Stamps'
    BY <1>4, <2>1 DEF DeleteRefused, Stamps, Inside, TypeOK, disk, mem, flags, hist
  <2>5. Phases'
    BY <1>4, <2>1 DEF DeleteRefused, Phases, Early, TypeOK, disk, mem, flags, hist
  <2>6. SchedRight'
    BY <1>4, <2>1 DEF DeleteRefused, SchedRight, Early, LockRight, Inside, TypeOK, disk, mem, flags, hist
  <2>7. RunsAreLoaded'
    BY <1>4, <2>1 DEF DeleteRefused, RunsAreLoaded, Running, TypeOK, disk, mem, flags, hist
  <2> QED
    BY <2>1, <2>2, <2>3, <2>4, <2>5, <2>6, <2>7
<1>5. ASSUME NEW c \in Convs, Evict(c) PROVE Inv'
  <2>1. Queued' = Queued /\ SubmissionOrder'
    BY <1>5, QueueStays DEF Evict, IdleEvictable, disk
  <2>2. TypeOK'
    BY <1>5 DEF Evict, IdleEvictable, TypeOK, disk, mem, flags, hist
  <2>3. LockRight'
    BY <1>5, <2>1 DEF Evict, IdleEvictable, LockRight, Inside, TypeOK, disk, mem, flags, hist
  <2>4. Stamps'
    BY <1>5, <2>1 DEF Evict, IdleEvictable, Stamps, Inside, TypeOK, disk, mem, flags, hist
  <2>5. Phases'
    <3>1. \A d \in Convs : meta'[d] # "none" <=> meta[d] # "none"
      BY <1>5 DEF Evict, IdleEvictable, Phases, TypeOK, RunsAreLoaded
    <3> QED
      BY <1>5, <2>1, <3>1 DEF Evict, IdleEvictable, Phases, Early, TypeOK, disk, mem, flags, hist
  <2>6. SchedRight'
    BY <1>5, <2>1 DEF Evict, IdleEvictable, SchedRight, Early, LockRight, Inside, TypeOK, disk, mem, flags, hist
  <2>7. RunsAreLoaded'
    BY <1>5, <2>1 DEF Evict, IdleEvictable, RunsAreLoaded, Running, TypeOK, disk, mem, flags, hist
  <2> QED
    BY <2>1, <2>2, <2>3, <2>4, <2>5, <2>6, <2>7
<1> QED
  BY <1>1, <1>2, <1>3, <1>4, <1>5

\* The scheduler wakes up, and recovers what is to be resumed.
LEMMA RecoverInv ==
    ASSUME Inv,
           \/ SchedWake \/ RecoverStart \/ RecoverDone
           \/ \E c \in Convs : RecoverPick(c)
    PROVE  Inv'
<1> USE ConstantsAssumption DEF Inv
<1>1. ASSUME SchedWake PROVE Inv'
  <2>1. Queued' = Queued /\ SubmissionOrder'
    BY <1>1, QueueStays DEF SchedWake, SchedAt, disk
  <2>2. TypeOK'
    BY <1>1 DEF SchedWake, SchedAt, TypeOK, disk, mem, flags, hist, SchedPcs
  <2>3. LockRight'
    BY <1>1, <2>1 DEF SchedWake, SchedAt, LockRight, Inside, TypeOK, disk, mem, flags, hist
  <2>4. Stamps'
    BY <1>1, <2>1 DEF SchedWake, SchedAt, Stamps, Inside, TypeOK, disk, mem, flags, hist
  <2>5. Phases'
    BY <1>1, <2>1 DEF SchedWake, SchedAt, Phases, Early, TypeOK, disk, mem, flags, hist
  <2>6. SchedRight'
    BY <1>1, <2>1 DEF SchedWake, SchedAt, SchedRight, Early, LockRight, Inside, TypeOK, disk, mem, flags, hist
  <2>7. RunsAreLoaded'
    BY <1>1, <2>1 DEF SchedWake, SchedAt, RunsAreLoaded, Running, TypeOK, disk, mem, flags, hist
  <2> QED
    BY <2>1, <2>2, <2>3, <2>4, <2>5, <2>6, <2>7
<1>2. ASSUME RecoverStart PROVE Inv'
  <2>1. Queued' = Queued /\ SubmissionOrder'
    BY <1>2, QueueStays DEF RecoverStart, SchedAt, CreateRun, disk
  <2>2. TypeOK'
    BY <1>2 DEF RecoverStart, SchedAt, CreateRun, TypeOK, disk, mem, flags, hist, SchedPcs
  <2>3. LockRight'
    BY <1>2, <2>1 DEF RecoverStart, SchedAt, CreateRun, LockRight, Inside, TypeOK, disk, mem, flags, hist
  <2>4. Stamps'
    BY <1>2, <2>1 DEF RecoverStart, SchedAt, CreateRun, Stamps, Inside, TypeOK, disk, mem, flags, hist
  <2>5. Phases'
    BY <1>2, <2>1 DEF RecoverStart, SchedAt, CreateRun, Phases, Early, SchedRight, TypeOK, disk, mem, flags, hist
  <2>6. SchedRight'
    BY <1>2, <2>1 DEF RecoverStart, SchedAt, CreateRun, SchedRight, Early, LockRight, Inside, TypeOK, disk, mem, flags, hist
  <2>7. RunsAreLoaded'
    BY <1>2, <2>1 DEF RecoverStart, SchedAt, CreateRun, RunsAreLoaded, Running, SchedRight, TypeOK, disk, mem, flags, hist
  <2> QED
    BY <2>1, <2>2, <2>3, <2>4, <2>5, <2>6, <2>7
<1>3. ASSUME RecoverDone PROVE Inv'
  <2>1. Queued' = Queued /\ SubmissionOrder'
    BY <1>3, QueueStays DEF RecoverDone, Resting, disk
  <2>2. TypeOK'
    BY <1>3 DEF RecoverDone, Resting, TypeOK, disk, mem, flags, hist, SchedPcs
  <2>3. LockRight'
    BY <1>3, <2>1 DEF RecoverDone, Resting, LockRight, Inside, TypeOK, disk, mem, flags, hist
  <2>4. Stamps'
    BY <1>3, <2>1 DEF RecoverDone, Resting, Stamps, Inside, TypeOK, disk, mem, flags, hist
  <2>5. Phases'
    BY <1>3, <2>1 DEF RecoverDone, Resting, Phases, Early, TypeOK, disk, mem, flags, hist
  <2>6. SchedRight'
    BY <1>3, <2>1 DEF RecoverDone, Resting, SchedRight, Early, LockRight, Inside, TypeOK, disk, mem, flags, hist
  <2>7. RunsAreLoaded'
    BY <1>3, <2>1 DEF RecoverDone, Resting, RunsAreLoaded, Running, TypeOK, disk, mem, flags, hist
  <2> QED
    BY <2>1, <2>2, <2>3, <2>4, <2>5, <2>6, <2>7
<1>4. ASSUME NEW c \in Convs, RecoverPick(c) PROVE Inv'
  <2>1. Queued' = Queued /\ SubmissionOrder'
    BY <1>4, QueueStays DEF RecoverPick, LifecycleFree, disk
  <2>8. /\ sched.pc = "recover" /\ resume' \subseteq resume /\ sched'.todo = sched.todo \ {c}
        /\ \/ sched'.pc = "recover" /\ sched'.cur = sched.cur
           \/ /\ sched'.pc = "start" /\ sched'.cur = c /\ c \in loaded \ deleting
              /\ c \in resume \cup intent
        /\ sched' \in [pc : SchedPcs, cur : Convs \cup {None}, todo : SUBSET Convs]
        /\ UNCHANGED <<disp, disk, mem, run, intent, moved, queue, lock, stopping, deleting,
                       clock, crashes, hist>>
    <3> DEFINE left == [sched EXCEPT !.todo = sched.todo \ {c}]
    <3>1. /\ left.pc = sched.pc /\ left.cur = sched.cur /\ left.todo = sched.todo \ {c}
          /\ left \in [pc : SchedPcs, cur : Convs \cup {None}, todo : SUBSET Convs]
      BY DEF TypeOK
    <3>2. /\ sched.pc = "recover" /\ resume' \subseteq resume
          /\ \/ sched' = left
             \/ /\ sched' = [left EXCEPT !.pc = "start", !.cur = c]
                /\ c \in loaded \ deleting /\ c \in resume \cup intent
          /\ UNCHANGED <<disp, disk, mem, run, intent, moved, queue, lock, stopping, deleting,
                         clock, crashes, hist>>
      BY <1>4 DEF RecoverPick, LifecycleFree
    <3> HIDE DEF left
    <3> QED
      BY <3>1, <3>2 DEF SchedPcs
  <2>2. TypeOK'
    BY <2>8 DEF TypeOK, disk, mem, hist
  <2>3. LockRight'
    BY <2>8 DEF LockRight
  <2>4. Stamps'
    BY <2>1, <2>8 DEF Stamps, disk, mem
  <2>5. Phases'
    BY <2>1, <2>8 DEF Phases, disk, mem
  <2>6. SchedRight'
    BY <2>8 DEF SchedRight, Phases, mem, TypeOK
  <2>7. RunsAreLoaded'
    BY <2>8 DEF RunsAreLoaded, Running, mem
  <2> QED
    BY <2>1, <2>2, <2>3, <2>4, <2>5, <2>6, <2>7
<1> QED
  BY <1>1, <1>2, <1>3, <1>4

\* PopHead and Abandon leave the scheduler and the lock in step.
LEMMA PopHeadRight ==
    ASSUME Inv, lock = Sched, PopHead, at' = at
    PROVE  /\ queue' \in Seq(Convs) /\ SubmissionOrder' /\ Queued' \subseteq Queued
           /\ sched' \in [pc : SchedPcs, cur : Convs \cup {None}, todo : SUBSET Convs]
           /\ \/ sched'.pc = "idle" /\ lock' = None /\ queue = <<>>
              \/ /\ sched'.pc = "head" /\ lock' = Sched
                 /\ queue # <<>> /\ Queued' = Queued \ {Head(queue)}
<1>1. CASE queue = <<>> /\ Abandon /\ UNCHANGED queue
  BY <1>1, QueueStays DEF Inv, TypeOK, Abandon, Resting, SchedPcs
<1>2. CASE queue # <<>> /\ queue' = Tail(queue) /\ SchedAt("head", None) /\ UNCHANGED lock
  <2>1. queue' \in Seq(Convs) /\ Queued' = Queued \ {Head(queue)} /\ SubmissionOrder'
    BY <1>2, PopRight
  <2>2. sched' \in [pc : SchedPcs, cur : Convs \cup {None}, todo : SUBSET Convs] /\ sched'.pc = "head"
    BY <1>2 DEF Inv, TypeOK, SchedAt, SchedPcs
  <2> QED
    BY <1>2, <2>1, <2>2
<1> QED
  BY <1>1, <1>2 DEF PopHead

\* The scheduler's pass over the queue.
LEMMA SchedInv ==
    ASSUME Inv, SchedHead \/ SchedLoad \/ SchedRun
    PROVE  Inv'
<1> USE ConstantsAssumption DEF Inv
<1> DEFINE Scheds == [pc : SchedPcs, cur : Convs \cup {None}, todo : SUBSET Convs]
<1>1. lock = Sched /\ \A c \in Convs : disp[c] \notin Inside
  BY DEF LockRight, SchedHead, SchedLoad, SchedRun
<1>2. ASSUME SchedHead PROVE Inv'
  <2>1. UNCHANGED <<disp, disk, mem, run, flags, stopping, deleting, clock, crashes, hist>>
    BY <1>2 DEF SchedHead
  <2>2. /\ queue' \in Seq(Convs) /\ SubmissionOrder' /\ Queued' \subseteq Queued
    <3>1. CASE UNCHANGED queue
      BY <2>1, <3>1, QueueStays DEF disk, TypeOK
    <3>2. CASE queue # <<>> /\ queue' = Tail(queue)
      BY <2>1, <3>2, PopRight DEF disk
    <3> QED
      BY <1>2, <3>1, <3>2 DEF SchedHead
  <2>3. /\ sched' \in Scheds
        /\ \/ sched'.pc = "recover" /\ lock' = None
           \/ sched' = sched /\ sched.pc = "head" /\ lock' = Sched
           \/ /\ sched'.pc \in {"load", "run"} /\ sched'.cur \in Queued /\ sched'.cur \in Convs
              /\ lock' = Sched
    <3>1. CASE sched' = [pc |-> "recover", cur |-> None, todo |-> loaded] /\ lock' = None
      BY <3>1 DEF TypeOK, SchedPcs
    <3>2. CASE UNCHANGED <<lock, sched>>
      BY <1>1, <1>2, <3>2 DEF TypeOK, SchedHead
    <3>3. ASSUME queue # <<>>, UNCHANGED lock, NEW p \in {"run", "load"}, SchedAt(p, Head(queue))
          PROVE  /\ sched' \in Scheds /\ sched'.pc \in {"load", "run"}
                 /\ sched'.cur \in Queued /\ sched'.cur \in Convs /\ lock' = Sched
      <4>1. Head(queue) \in Queued /\ Head(queue) \in Convs
        BY <3>3, HeadRight
      <4> QED
        BY <1>1, <3>3, <4>1 DEF SchedAt, TypeOK, SchedPcs
    <3> QED
      BY <1>2, <3>1, <3>2, <3>3 DEF SchedHead
  <2>4. TypeOK'
    BY <1>1, <2>1, <2>2, <2>3 DEF TypeOK, disk, mem, flags, hist
  <2>5. LockRight'
    BY <1>1, <2>1, <2>3 DEF LockRight
  <2>6. Stamps'
    BY <2>1, <2>2 DEF Stamps, disk, mem
  <2>7. Phases'
    BY <2>1, <2>2 DEF Phases, disk, mem, flags
  <2>8. SchedRight'
    BY <2>1, <2>3 DEF SchedRight, Phases, TypeOK
  <2>9. RunsAreLoaded'
    BY <2>1 DEF RunsAreLoaded, Running, mem
  <2> QED
    BY <2>2, <2>4, <2>5, <2>6, <2>7, <2>8, <2>9
<1>3. ASSUME SchedLoad PROVE Inv'
  <2> DEFINE c == sched.cur
  <2>1. /\ sched.pc = "load"
        /\ UNCHANGED <<disp, status, at, known, adm, run, flags, stopping, deleting, clock, crashes,
                       accepted, began, cut>>
        /\ skipped' \subseteq skipped \cup {c}
    BY <1>3 DEF SchedLoad
  <2>2. c \in Convs /\ disp[c] \notin Early
    BY <2>1 DEF SchedRight
  <2>3. /\ queue' \in Seq(Convs) /\ SubmissionOrder' /\ Queued' \subseteq Queued
        /\ sched' \in Scheds
        /\ \/ sched'.pc = "idle" /\ lock' = None
           \/ sched'.pc = "head" /\ lock' = Sched
           \/ sched'.pc = "run" /\ sched'.cur = c /\ lock' = Sched
    <3>1. CASE PopHead
      BY <1>1, <2>1, <3>1, PopHeadRight
    <3>2. CASE Abandon /\ UNCHANGED queue
      BY <2>1, <3>2, QueueStays DEF TypeOK, Abandon, Resting, SchedPcs
    <3>3. CASE SchedAt("run", c) /\ UNCHANGED <<queue, lock>>
      BY <1>1, <2>1, <2>2, <3>3, QueueStays DEF TypeOK, SchedAt, SchedPcs
    <3> QED
      BY <1>3, <3>1, <3>2, <3>3 DEF SchedLoad
  <2>4. /\ loaded' \subseteq Convs /\ loaded \subseteq loaded' /\ loaded' \subseteq known
        /\ meta' \in [Convs -> {"none", "queued", "admitted"}]
        /\ \A d \in Convs : meta'[d] # "none" <=> meta[d] # "none"
        /\ \A d \in Convs : meta'[d] = "queued" => meta[d] = "queued" \/ adm[d] = "queued"
    <3>1. CASE UNCHANGED <<loaded, meta>>
      BY <3>1 DEF TypeOK, RunsAreLoaded
    <3>2. CASE c \in known /\ GetOrLoad(c)
      BY <3>2, LoadKeepsRecord DEF RunsAreLoaded
    <3> QED
      BY <1>3, <3>1, <3>2 DEF SchedLoad
  <2>5. TypeOK'
    <3>1. {accepted', began', cut', skipped'} \subseteq SUBSET Convs
      BY <2>1, <2>2 DEF TypeOK
    <3> QED
      BY <1>1, <2>1, <2>3, <2>4, <3>1 DEF TypeOK, flags
  <2>6. LockRight'
    BY <1>1, <2>1, <2>3 DEF LockRight
  <2>7. Stamps'
    BY <2>1, <2>3, <2>4 DEF Stamps
  <2>8. Phases'
    BY <2>1, <2>3, <2>4 DEF Phases, flags
  <2>9. SchedRight'
    BY <2>1, <2>2, <2>3 DEF SchedRight
  <2>10. RunsAreLoaded'
    BY <2>1, <2>4 DEF RunsAreLoaded, Running
  <2> QED
    BY <2>3, <2>5, <2>6, <2>7, <2>8, <2>9, <2>10
<1>4. ASSUME SchedRun PROVE Inv'
  <2> DEFINE c == sched.cur
  <2>1. /\ sched.pc = "run"
        /\ UNCHANGED <<disp, status, at, known, loaded, resume, moved, stopping, deleting, clock, crashes, hist>>
    BY <1>4 DEF SchedRun
  <2>2. c \in Convs /\ disp[c] \notin Early
    BY <2>1 DEF SchedRight
  <2>3. /\ queue' \in Seq(Convs) /\ SubmissionOrder' /\ Queued' \subseteq Queued
        /\ sched' \in Scheds
        /\ (sched'.pc = "idle" /\ lock' = None) \/ (sched'.pc = "head" /\ lock' = Sched)
    <3>1. CASE PopHead
      BY <1>1, <2>1, <3>1, PopHeadRight
    <3>2. CASE Abandon /\ UNCHANGED queue
      BY <2>1, <3>2, QueueStays DEF TypeOK, Abandon, Resting, SchedPcs
    <3> QED
      BY <1>4, <3>1, <3>2 DEF SchedRun
  <2>4. /\ run' \in [Convs -> {"none", "created", "live"}] /\ intent' \subseteq intent
        /\ \A d \in Convs : run'[d] # "none" => run[d] # "none" \/ (d = c /\ c \in loaded)
    <3>1. CASE UNCHANGED <<run, intent>>
      BY <3>1 DEF TypeOK
    <3>2. CASE c \in loaded /\ CreateRun(c)
      BY <3>2 DEF TypeOK, CreateRun
    <3> QED
      BY <1>4, <3>1, <3>2 DEF SchedRun
  <2>5. /\ adm' \in [Convs -> {"queued", "admitted"}] /\ meta' \in [Convs -> {"none", "queued", "admitted"}]
        /\ \A d \in Convs : meta'[d] # "none" <=> meta[d] # "none"
        /\ \A d \in Convs : adm'[d] = "queued" => adm[d] = "queued"
        /\ \A d \in Convs : meta'[d] = "queued" => meta[d] = "queued"
    <3>1. CASE UNCHANGED <<adm, meta>>
      BY <3>1 DEF TypeOK
    <3>2. CASE c \in loaded /\ adm' = [adm EXCEPT ![c] = "admitted"] /\ meta' = [meta EXCEPT ![c] = "admitted"]
      <4>1. meta[c] # "none"
        BY <2>2, <3>2 DEF Phases, RunsAreLoaded
      <4> QED
        BY <2>2, <3>2, <4>1 DEF TypeOK
    <3> QED
      BY <1>4, <3>1, <3>2 DEF SchedRun
  <2>6. TypeOK'
    BY <1>1, <2>1, <2>3, <2>4, <2>5 DEF TypeOK, hist
  <2>7. LockRight'
    BY <1>1, <2>1, <2>3 DEF LockRight
  <2>8. Stamps'
    BY <2>1, <2>3, <2>5 DEF Stamps
  <2>9. Phases'
    <3>1. c \in loaded => disp[c] \in {"done", "lost"}
      BY <2>2 DEF Phases, RunsAreLoaded, TypeOK, Early, DispPcs
    <3> QED
      BY <2>1, <2>3, <2>4, <2>5, <3>1 DEF Phases
  <2>10. SchedRight'
    BY <2>3 DEF SchedRight
  <2>11. RunsAreLoaded'
    BY <2>1, <2>4 DEF RunsAreLoaded, Running
  <2> QED
    BY <2>3, <2>6, <2>7, <2>8, <2>9, <2>10, <2>11
<1> QED
  BY <1>2, <1>3, <1>4

\* Stops and deletes take a conversation out of the queue, without the lock.
LEMMA DequeueInv ==
    ASSUME Inv, NEW c \in Convs, StopDequeue(c) \/ DeleteBegin(c)
    PROVE  Inv'
<1> USE ConstantsAssumption DEF Inv
<1>1. ASSUME StopDequeue(c) PROVE Inv'
  <2>1. /\ queue' = Without(queue, c)
        /\ UNCHANGED <<disp, disk, known, loaded, run, flags, lock, sched, deleting, clock, crashes, hist>>
    BY <1>1 DEF StopDequeue
  <2>2. queue' \in Seq(Convs) /\ Queued' = Queued \ {c} /\ SubmissionOrder'
    BY <2>1, RemoveRight DEF disk
  <2>3. /\ adm' \in [Convs -> {"queued", "admitted"}] /\ stopping' \in [Convs -> {"none", "save", "stop"}]
        /\ \A d \in Convs : adm'[d] = "queued" => adm[d] = "queued"
    BY <1>1 DEF StopDequeue, TypeOK
  <2>4. TypeOK'
    BY <2>1, <2>2, <2>3 DEF TypeOK, disk, flags, hist
  <2>5. LockRight' /\ SchedRight' /\ RunsAreLoaded'
    BY <2>1 DEF LockRight, SchedRight, RunsAreLoaded, Running
  <2>6. Stamps'
    BY <2>1, <2>2, <2>3 DEF Stamps, disk
  <2>7. Phases'
    BY <2>1, <2>2 DEF Phases, disk, flags
  <2> QED
    BY <2>2, <2>4, <2>5, <2>6, <2>7
<1>2. ASSUME DeleteBegin(c) PROVE Inv'
  <2>1. /\ queue' = Without(queue, c) /\ c \in known /\ LifecycleFree(c)
        /\ (deleting' = deleting \cup {c} /\ GetOrLoad(c)) \/ UNCHANGED <<deleting, loaded, meta>>
        /\ UNCHANGED <<disp, status, at, known, adm, run, flags, lock, sched, stopping, clock, crashes, hist>>
    BY <1>2 DEF DeleteBegin
  <2>2. queue' \in Seq(Convs) /\ Queued' = Queued \ {c} /\ SubmissionOrder'
    BY <2>1, RemoveRight
  <2>3. /\ loaded' \subseteq Convs /\ loaded \subseteq loaded' /\ loaded' \subseteq loaded \cup {c}
        /\ meta' \in [Convs -> {"none", "queued", "admitted"}]
        /\ \A d \in Convs : meta'[d] # "none" <=> meta[d] # "none"
        /\ \A d \in Convs : meta'[d] = "queued" => meta[d] = "queued" \/ adm[d] = "queued"
        /\ deleting' \subseteq deleting \cup {c}
    <3>1. CASE deleting' = deleting \cup {c} /\ GetOrLoad(c)
      BY <2>1, <3>1, LoadKeepsRecord
    <3>2. CASE UNCHANGED <<deleting, loaded, meta>>
      BY <3>2 DEF TypeOK
    <3> QED
      BY <2>1, <3>1, <3>2
  <2>4. TypeOK'
    BY <2>1, <2>2, <2>3 DEF TypeOK, flags, hist
  <2>5. LockRight' /\ RunsAreLoaded'
    BY <2>1, <2>3 DEF LockRight, RunsAreLoaded, Running
  <2>6. SchedRight'
    BY <2>1, <2>3 DEF SchedRight, LifecycleFree
  <2>7. Stamps'
    BY <2>1, <2>2, <2>3 DEF Stamps
  <2>8. Phases'
    BY <2>1, <2>2, <2>3 DEF Phases, flags
  <2> QED
    BY <2>2, <2>4, <2>5, <2>6, <2>7, <2>8
<1> QED
  BY <1>1, <1>2

\* The daemon dies and starts again.
LEMMA CrashInv ==
    ASSUME Inv, Crash
    PROVE  /\ Inv'
           /\ Queued' = {c \in Convs : meta[c] = "queued" /\ status'[c] = "idle"}
<1> USE ConstantsAssumption DEF Inv
<1> DEFINE again == {c \in Convs : meta[c] = "queued" /\ status'[c] = "idle"}
<1>1. /\ known' = Catalog /\ loaded' = CutOff /\ resume' = CutOff
      /\ status' = [c \in Convs |-> IF c \in CutOff THEN "error" ELSE status[c]]
      /\ adm' = [c \in Convs |-> IF c \in again THEN "queued" ELSE "admitted"]
      /\ crashes < MaxCrashes /\ crashes' = crashes + 1
      /\ cut' = cut \cup {c \in Convs : run[c] = "created"}
      /\ run' = [c \in Convs |-> "none"] /\ intent' = {} /\ moved' = {}
      /\ lock' = None /\ sched' = Resting
      /\ stopping' = [c \in Convs |-> "none"] /\ deleting' = {}
      /\ disp' = [c \in Convs |-> IF disp[c] \in {"new", "done", "gone"} THEN disp[c] ELSE "lost"]
      /\ skipped' = {} /\ UNCHANGED <<meta, at, clock, accepted, began>>
  BY DEF Crash
<1>2. queue' \in InOrder(again)
  BY DEF Crash
<1>3. again \subseteq Convs /\ IsFiniteSet(again)
  BY FS_Subset
<1>4. (\A c \in again : at[c] \in Nat) /\ (\A c, d \in again : at[c] = at[d] => c = d)
  BY DEF TypeOK, Stamps
<1>5. queue' \in Seq(Convs) /\ Queued' = again /\ SubmissionOrder'
  <2> HIDE DEF again
  <2>1. queue' \in Seq(again) /\ Elems(queue') = again /\ Rising(queue', at)
    BY <1>2, <1>3, <1>4, InOrderRising
  <2>2. queue' \in Seq(Convs)
    BY <1>3, <2>1, SeqMonotonic
  <2>3. Queued' = Elems(queue') /\ (SubmissionOrder' <=> Rising(queue', at'))
    BY DEF Queued, Elems, SubmissionOrder, Rising
  <2> QED
    BY <1>1, <2>1, <2>2, <2>3
<1>6. CutOff \subseteq Catalog /\ Catalog = known
  BY DEF CutOff, Catalog, Phases, TypeOK
<1>7. disp' \in [Convs -> DispPcs] /\ \A c \in Convs : /\ disp'[c] \notin Early \/ disp'[c] = "new"
                                                       /\ disp'[c] \in {"new", "gone"} <=> disp[c] \in {"new", "gone"}
  BY <1>1 DEF TypeOK, DispPcs, Early
<1>8. TypeOK'
  <2>1. status' \in [Convs -> Statuses] /\ adm' \in [Convs -> {"queued", "admitted"}]
    BY <1>1 DEF TypeOK, Statuses
  <2>2. {accepted', began', cut', skipped'} \subseteq SUBSET Convs /\ crashes' \in 0..MaxCrashes
    BY <1>1 DEF TypeOK
  <2>3. /\ known' \subseteq Convs /\ loaded' \subseteq Convs /\ resume' \subseteq Convs
        /\ run' \in [Convs -> {"none", "created", "live"}]
        /\ stopping' \in [Convs -> {"none", "save", "stop"}]
    BY <1>1, <1>6 DEF TypeOK
  <2>4. sched' \in [pc : SchedPcs, cur : Convs \cup {None}, todo : SUBSET Convs]
    BY <1>1 DEF Resting, SchedPcs
  <2> QED
    BY <1>1, <1>5, <1>7, <2>1, <2>2, <2>3, <2>4 DEF TypeOK
<1>9. LockRight'
  BY <1>1, <1>7 DEF LockRight, Resting, Inside, Early
<1>10. Stamps'
  BY <1>1, <1>5, <1>7 DEF Stamps, Early
<1>11. Phases'
  <2>1. \A c \in Convs : c \in known' <=> meta'[c] # "none"
    BY <1>1 DEF Catalog
  <2>2. \A c \in Convs : disp'[c] \in {"new", "gone"} => c \notin known'
    BY <1>1, <1>6, <1>7 DEF Phases
  <2>3. \A c \in Convs : c \in Queued' => disp'[c] \notin Early
    BY <1>5, <1>7 DEF Phases
  <2>4. \A c \in Convs : run'[c] # "none" \/ c \in intent' \cup resume' => disp'[c] \in {"done", "lost"}
    <3>1. \A c \in Convs : c \in CutOff => disp[c] \notin {"new", "gone"}
      BY <1>6 DEF Phases
    <3> QED
      BY <1>1, <3>1
  <2>5. \A c \in Convs : ~(disp'[c] \in Early /\ c \in known')
    BY <1>7, <2>2
  <2> QED
    BY <2>1, <2>2, <2>3, <2>4, <2>5 DEF Phases
<1>12. SchedRight'
  BY <1>1 DEF SchedRight, Resting
<1>13. RunsAreLoaded'
  BY <1>1, <1>6 DEF RunsAreLoaded, Running
<1> QED
  BY <1>5, <1>8, <1>9, <1>10, <1>11, <1>12, <1>13

LEMMA InvStep == Inv /\ [Next]_vars => Inv'
<1> SUFFICES ASSUME Inv, [Next]_vars PROVE Inv'
  OBVIOUS
<1>1. CASE UNCHANGED vars
  <2>1. Queued' = Queued /\ SubmissionOrder'
    BY <1>1, QueueStays DEF Inv, vars, disk
  <2>2. TypeOK'
    BY <1>1 DEF Inv, TypeOK, vars, disk, mem, flags, hist
  <2> QED
    BY <1>1, <2>1, <2>2 DEF Inv, LockRight, Stamps, Phases, SchedRight, RunsAreLoaded, Running, vars, disk, mem, flags
<1>2. ASSUME NEW c \in Convs, Request(c) \/ DispatchStep(c) \/ RunStep(c) \/ StopStep(c) \/ Evict(c)
      PROVE  Inv'
  BY <1>2, DispatchInv, RunInv, StopInv, DequeueInv DEF Request, DispatchStep, RunStep, StopStep
<1>3. CASE SchedStep
  BY <1>3, RecoverInv, SchedInv DEF SchedStep
<1>4. CASE Crash
  BY <1>4, CrashInv
<1> QED
  BY <1>1, <1>2, <1>3, <1>4 DEF Next

\* The invariant of every instance: who holds the admission lock, which stamps the
\* dispatches got, and what a conversation is at each stage of start_conversation,
\* the scheduler's pass, a stop, a delete, an eviction and a restart.
THEOREM Invariance == Spec => []Inv
  BY InitInv, InvStep, PTL DEF Spec

-----------------------------------------------------------------------------
(* What the scheduler's pass over the queue does, for the layers above Inv. *)

LEMMA SchedHeadEffect ==
    ASSUME Inv, SchedHead
    PROVE  /\ UNCHANGED <<disp, disk, mem, run, flags, stopping, deleting, clock, crashes, hist>>
           /\ \/ sched'.pc = "recover" /\ queue' = queue
              \/ /\ queue # <<>> /\ Queued' = Queued \ {Head(queue)} /\ sched'.pc = "head"
                 /\ Head(queue) \notin known \/ adm[Head(queue)] # "queued"
              \/ /\ queue # <<>> /\ queue' = queue /\ PoolHasSlot
                 /\ sched'.pc \in {"load", "run"} /\ sched'.cur = Head(queue)
<1>1. UNCHANGED <<disp, disk, mem, run, flags, stopping, deleting, clock, crashes, hist>>
  BY DEF SchedHead
<1>2. CASE sched' = [pc |-> "recover", cur |-> None, todo |-> loaded] /\ UNCHANGED queue
  BY <1>1, <1>2
<1>3. CASE /\ queue # <<>> /\ (Head(queue) \notin known \/ adm[Head(queue)] # "queued")
           /\ queue' = Tail(queue) /\ UNCHANGED <<lock, sched>>
  <2>1. Queued' = Queued \ {Head(queue)}
    BY <1>1, <1>3, PopRight DEF disk
  <2> QED
    BY <1>1, <1>3, <2>1 DEF SchedHead
<1>4. ASSUME queue # <<>>, PoolHasSlot, UNCHANGED queue, NEW p \in {"run", "load"},
             SchedAt(p, Head(queue))
      PROVE  /\ queue # <<>> /\ queue' = queue /\ PoolHasSlot
             /\ sched'.pc \in {"load", "run"} /\ sched'.cur = Head(queue)
  BY <1>4 DEF SchedAt, Inv, TypeOK
<1> QED
  BY <1>1, <1>2, <1>3, <1>4 DEF SchedHead

LEMMA SchedLoadEffect ==
    ASSUME Inv, SchedLoad
    PROVE  /\ sched.pc = "load" /\ sched.cur \in Convs
           /\ UNCHANGED <<disp, status, at, known, adm, run, flags, stopping, deleting, clock,
                          crashes, accepted, began, cut>>
           /\ \/ /\ \/ sched.cur \notin known /\ skipped' = skipped
                    \/ sched.cur \in known /\ skipped' = skipped \cup {sched.cur}
                 /\ sched'.pc \in {"idle", "head"} /\ meta' = meta
                 /\ queue # <<>> => Queued' = Queued \ {Head(queue)}
              \/ sched'.pc = "idle" /\ UNCHANGED <<meta, queue, skipped>>
              \/ /\ sched'.pc = "run" /\ sched'.cur = sched.cur /\ UNCHANGED <<queue, skipped>>
                 /\ meta' = meta \/ meta' = [meta EXCEPT ![sched.cur] = adm[sched.cur]]
<1>1. /\ sched.pc = "load" /\ sched.cur \in Convs /\ lock = Sched
      /\ UNCHANGED <<disp, status, at, known, adm, run, flags, stopping, deleting, clock,
                     crashes, accepted, began, cut>>
  BY DEF SchedLoad, Inv, SchedRight, LockRight
<1>2. CASE /\ \/ sched.cur \notin known /\ skipped' = skipped
              \/ sched.cur \in known /\ skipped' = skipped \cup {sched.cur}
           /\ PopHead /\ UNCHANGED <<loaded, meta>>
  BY <1>1, <1>2, PopHeadRight
<1>3. CASE Abandon /\ UNCHANGED <<loaded, meta, queue, skipped>>
  BY <1>1, <1>3 DEF Abandon, Resting
<1>4. CASE GetOrLoad(sched.cur) /\ SchedAt("run", sched.cur) /\ UNCHANGED <<queue, lock, skipped>>
  BY <1>1, <1>4 DEF GetOrLoad, SchedAt, Inv, TypeOK
<1> QED
  BY <1>1, <1>2, <1>3, <1>4 DEF SchedLoad

LEMMA SchedRunEffect ==
    ASSUME Inv, SchedRun
    PROVE  /\ sched.pc = "run" /\ sched.cur \in Convs /\ sched'.pc \in {"idle", "head"}
           /\ UNCHANGED <<disp, status, at, known, loaded, resume, moved, stopping, deleting,
                          clock, crashes, hist>>
           /\ \/ UNCHANGED <<run, intent, adm, meta, queue>>
              \/ /\ CreateRun(sched.cur) /\ queue = <<>>
                 /\ UNCHANGED <<adm, meta, queue>>
              \/ /\ CreateRun(sched.cur) /\ queue # <<>> /\ Queued' = Queued \ {Head(queue)}
                 /\ adm' = [adm EXCEPT ![sched.cur] = "admitted"]
                 /\ meta' = [meta EXCEPT ![sched.cur] = "admitted"]
<1>1. /\ sched.pc = "run" /\ sched.cur \in Convs /\ lock = Sched
      /\ UNCHANGED <<disp, status, at, known, loaded, resume, moved, stopping, deleting, clock,
                     crashes, hist>>
  BY DEF SchedRun, Inv, SchedRight, LockRight
<1>2. CASE Abandon /\ UNCHANGED <<run, intent, adm, meta, queue>>
  BY <1>1, <1>2 DEF Abandon, Resting
<1>3. CASE /\ CreateRun(sched.cur) /\ PopHead
           /\ IF queue = <<>> THEN UNCHANGED <<adm, meta>>
              ELSE /\ adm' = [adm EXCEPT ![sched.cur] = "admitted"]
                   /\ meta' = [meta EXCEPT ![sched.cur] = "admitted"]
  <2>1. /\ sched'.pc \in {"idle", "head"}
        /\ queue # <<>> => Queued' = Queued \ {Head(queue)}
    BY <1>1, <1>3, PopHeadRight
  <2>2. queue = <<>> => queue' = queue
    BY <1>3 DEF PopHead
  <2> QED
    BY <1>1, <1>3, <2>1, <2>2
<1> QED
  BY <1>1, <1>2, <1>3 DEF SchedRun

-----------------------------------------------------------------------------
(* The cap on runs.                                                        *)

\* The runs are counted, and one step adds one run at most.
LEMMA RunsCounted ==
    ASSUME TypeOK, NEW c, Running' \subseteq Running \cup {c}
    PROVE  /\ Cardinality(Running) \in Nat /\ Cardinality(Running') \in Nat
           /\ Cardinality(Running') <= Cardinality(Running) + 1
           /\ Running' \subseteq Running => Cardinality(Running') <= Cardinality(Running)
<1>1. IsFiniteSet(Running)
  BY ConstantsAssumption, FS_Subset DEF Running
<1>2. IsFiniteSet(Running \cup {c}) /\ Cardinality(Running) \in Nat
      /\ Cardinality(Running \cup {c}) <= Cardinality(Running) + 1
  BY <1>1, FS_AddElement, FS_CardinalityType
<1>3. IsFiniteSet(Running') /\ Cardinality(Running') <= Cardinality(Running \cup {c})
  BY <1>2, FS_Subset
<1>4. Running' \subseteq Running => Cardinality(Running') <= Cardinality(Running)
  BY <1>1, FS_Subset
<1>5. Cardinality(Running') \in Nat /\ Cardinality(Running \cup {c}) \in Nat
  BY <1>2, <1>3, FS_CardinalityType
<1> QED
  BY <1>2, <1>3, <1>4, <1>5

\* A step that creates no run and reserves no slot but a free one.
LEMMA CapQuiet ==
    ASSUME CapInv, Inv', Calm', Running' \subseteq Running, Reserved' => Reserved \/ PoolHasSlot,
           crashes = 0 /\ Undisturbed
    PROVE  CapInv'
<1>1. /\ Cardinality(Running) \in Nat /\ Cardinality(Running') \in Nat
      /\ Cardinality(Running') <= Cardinality(Running)
  BY RunsCounted DEF CapInv, Inv
<1>2. PoolHasSlot => PoolHasSlot'
  BY <1>1, ConstantsAssumption DEF PoolHasSlot
<1>3. DispatchCap'
  BY <1>1, ConstantsAssumption DEF CapInv, DispatchCap, Undisturbed
<1> QED
  BY <1>2, <1>3 DEF CapInv, SlotKept

\* The run of the one who had reserved a slot, after which nobody has.
LEMMA CapRun ==
    ASSUME CapInv, Inv', Calm', NEW c, Running' \subseteq Running \cup {c}, Reserved, ~Reserved',
           crashes = 0 /\ Undisturbed
    PROVE  CapInv'
<1>1. /\ Cardinality(Running) \in Nat /\ Cardinality(Running') \in Nat
      /\ Cardinality(Running') <= Cardinality(Running) + 1
  BY RunsCounted DEF CapInv, Inv
<1>2. DispatchCap'
  BY <1>1, ConstantsAssumption DEF CapInv, SlotKept, PoolHasSlot, DispatchCap, Undisturbed
<1> QED
  BY <1>2 DEF CapInv, SlotKept

LEMMA CapStep == CapInv /\ [Next]_vars => CapInv'
<1> SUFFICES ASSUME CapInv, [Next]_vars, crashes' = 0 /\ Undisturbed PROVE CapInv'
  <2>1. CapInv /\ [Next]_vars => Inv'
    BY InvStep DEF CapInv
  <2> QED
    BY <2>1 DEF CapInv, SlotKept, DispatchCap, Undisturbed
<1>0. Inv' /\ crashes = 0 /\ Undisturbed /\ Calm /\ TypeOK /\ LockRight /\ (Reserved => PoolHasSlot)
  <2>1. crashes = 0
    <3>1. CASE UNCHANGED vars
      BY <3>1 DEF vars
    <3>2. ASSUME NEW c \in Convs, Request(c) \/ DispatchStep(c) \/ RunStep(c)
          PROVE  UNCHANGED crashes
      BY <3>2 DEF Request, DispatchStep, RunStep, Create, Replay, RunRequest, SendRun, SendNote,
             SendOvertaken, Message, Reach, StopDequeue, DeleteBegin, Decide, Appended,
             DispatchFails, StartDispatched, EnqueueDispatched, DispatchOrphaned, Answer, Begin, End
    <3>3. ASSUME NEW c \in Convs, StopStep(c) \/ Evict(c) \/ RecoverPick(c)
          PROVE  UNCHANGED crashes
      BY <3>3 DEF StopStep, StopSave, StopSession, DeleteEnd, DeleteRefused, Evict, RecoverPick
    <3>4. CASE SchedWake \/ SchedHead \/ SchedLoad \/ SchedRun \/ RecoverStart \/ RecoverDone
      BY <3>4 DEF SchedWake, SchedHead, SchedLoad, SchedRun, RecoverStart, RecoverDone
    <3>5. ~Crash
      BY DEF Crash, CapInv, Inv, TypeOK
    <3> QED
      BY <3>1, <3>2, <3>3, <3>4, <3>5 DEF Next, SchedStep
  <2> QED
    BY <2>1, InvStep DEF CapInv, Inv, SlotKept
<1> USE <1>0, ConstantsAssumption DEF Undisturbed
<1>1. CASE UNCHANGED vars
  <2>1. Calm' /\ Running' \subseteq Running /\ (Reserved' => Reserved)
    BY <1>1 DEF vars, flags, Calm, Running, Reserved
  <2> QED
    BY <2>1, CapQuiet
<1>2. ASSUME NEW c \in Convs, Create(c) PROVE CapInv'
  <2>1. Calm'
    BY <1>2 DEF Create, StartEventService, Calm, disk, mem, flags, hist, TypeOK
  <2>2. Running' \subseteq Running /\ (Reserved' => Reserved)
    BY <1>2 DEF Create, StartEventService, Running, Reserved, disk, mem, flags, hist, TypeOK
  <2> QED
    BY <2>1, <2>2, CapQuiet
<1>3. ASSUME NEW c \in Convs, Replay(c) PROVE CapInv'
  <2>1. Calm'
    BY <1>3 DEF Replay, Calm, disk, mem, flags, hist, TypeOK
  <2>2. Running' \subseteq Running /\ (Reserved' => Reserved)
    BY <1>3 DEF Replay, Running, Reserved, disk, mem, flags, hist, TypeOK
  <2> QED
    BY <2>1, <2>2, CapQuiet
<1>4. ASSUME NEW c \in Convs, Appended(c) PROVE CapInv'
  <2>1. Calm'
    BY <1>4 DEF Appended, Calm, disk, mem, flags, hist, TypeOK
  <2>2. Running' \subseteq Running /\ (Reserved' => Reserved)
    BY <1>4 DEF Appended, Running, Reserved, disk, mem, flags, hist, TypeOK
  <2> QED
    BY <2>1, <2>2, CapQuiet
<1>5. ASSUME NEW c \in Convs, DispatchFails(c) PROVE CapInv'
  <2>1. Calm'
    BY <1>5 DEF DispatchFails, Calm, disk, mem, flags, hist, TypeOK
  <2>2. Running' \subseteq Running /\ (Reserved' => Reserved)
    BY <1>5 DEF DispatchFails, Running, Reserved, disk, mem, flags, hist, TypeOK
  <2> QED
    BY <2>1, <2>2, CapQuiet
<1>6. ASSUME NEW c \in Convs, EnqueueDispatched(c) PROVE CapInv'
  <2>1. Calm'
    BY <1>6 DEF EnqueueDispatched, Answer, Calm, disk, mem, flags, hist, TypeOK
  <2>2. Running' \subseteq Running /\ (Reserved' => Reserved)
    BY <1>6 DEF EnqueueDispatched, Answer, Running, Reserved, disk, mem, flags, hist, TypeOK
  <2> QED
    BY <2>1, <2>2, CapQuiet
<1>7. ASSUME NEW c \in Convs, DispatchOrphaned(c) PROVE CapInv'
  <2>1. Calm'
    BY <1>7 DEF DispatchOrphaned, Calm, disk, mem, flags, hist, TypeOK
  <2>2. Running' \subseteq Running /\ (Reserved' => Reserved)
    BY <1>7 DEF DispatchOrphaned, Running, Reserved, disk, mem, flags, hist, TypeOK
  <2> QED
    BY <2>1, <2>2, CapQuiet
<1>8. ASSUME NEW c \in Convs, Begin(c) PROVE CapInv'
  <2>1. Calm'
    BY <1>8 DEF Begin, Calm, disk, mem, flags, hist, TypeOK
  <2>2. Running' \subseteq Running /\ (Reserved' => Reserved)
    BY <1>8 DEF Begin, Running, Reserved, disk, mem, flags, hist, TypeOK
  <2> QED
    BY <2>1, <2>2, CapQuiet
<1>9. ASSUME NEW c \in Convs, End(c) PROVE CapInv'
  <2>1. Calm'
    BY <1>9 DEF End, Calm, disk, mem, flags, hist, TypeOK
  <2>2. Running' \subseteq Running /\ (Reserved' => Reserved)
    BY <1>9 DEF End, Running, Reserved, disk, mem, flags, hist, TypeOK
  <2> QED
    BY <2>1, <2>2, CapQuiet
<1>10. ASSUME NEW c \in Convs, Evict(c) PROVE CapInv'
  <2>1. Calm'
    BY <1>10 DEF Evict, Calm, disk, mem, flags, hist, TypeOK
  <2>2. Running' \subseteq Running /\ (Reserved' => Reserved)
    BY <1>10 DEF Evict, Running, Reserved, disk, mem, flags, hist, TypeOK
  <2> QED
    BY <2>1, <2>2, CapQuiet
<1>11. ASSUME SchedWake PROVE CapInv'
  <2>1. Calm'
    BY <1>11 DEF SchedWake, SchedAt, Calm, disk, mem, flags, hist, TypeOK
  <2>2. Running' \subseteq Running /\ (Reserved' => Reserved)
    BY <1>11 DEF SchedWake, SchedAt, Running, Reserved, disk, mem, flags, hist, TypeOK
  <2> QED
    BY <2>1, <2>2, CapQuiet
<1>12. ASSUME RecoverDone PROVE CapInv'
  <2>1. Calm'
    BY <1>12 DEF RecoverDone, Resting, Calm, disk, mem, flags, hist, TypeOK
  <2>2. Running' \subseteq Running /\ (Reserved' => Reserved)
    BY <1>12 DEF RecoverDone, Resting, Running, Reserved, disk, mem, flags, hist, TypeOK
  <2> QED
    BY <2>1, <2>2, CapQuiet
<1>13. ASSUME NEW c \in Convs, RecoverPick(c) PROVE CapInv'
  <2>1. Calm'
    BY <1>13 DEF RecoverPick, Calm, disk, mem, flags, hist, TypeOK, Calm
  <2>2. Running' \subseteq Running /\ (Reserved' => Reserved)
    BY <1>13 DEF RecoverPick, Running, Reserved, disk, mem, flags, hist, TypeOK, Calm
  <2> QED
    BY <2>1, <2>2, CapQuiet
<1>14. ASSUME SchedLoad PROVE CapInv'
  <2>1. UNCHANGED <<run, flags, stopping, deleting, disp>> /\ sched'.pc # "start" /\ sched.pc = "load"
    BY <1>14, SchedLoadEffect DEF CapInv
  <2>2. Calm' /\ Running' \subseteq Running /\ (Reserved' => Reserved)
    BY <2>1 DEF Calm, flags, Running, Reserved
  <2> QED
    BY <2>2, CapQuiet
<1>15. ASSUME NEW c \in Convs, Decide(c) PROVE CapInv'
  <2>1. Calm'
    BY <1>15 DEF Decide, Calm
  <2>2. Running' \subseteq Running /\ (Reserved' => Reserved \/ PoolHasSlot)
    BY <1>15 DEF Decide, HasFreeSlot, Running, Reserved, TypeOK
  <2> QED
    BY <2>1, <2>2, CapQuiet
<1>16. ASSUME NEW c \in Convs, StartDispatched(c) PROVE CapInv'
  <2>1. Calm'
    BY <1>16 DEF StartDispatched, Answer, CreateRun, Calm
  <2>2. Running' \subseteq Running \cup {c}
    BY <1>16 DEF StartDispatched, CreateRun, Running, TypeOK
  <2>3. Reserved /\ lock = c
    BY <1>16 DEF StartDispatched, Reserved, LockRight, Inside
  <2>4. ~Reserved'
    BY <1>16, <2>3 DEF StartDispatched, Answer, Reserved, LockRight, Inside, TypeOK
  <2> QED
    BY <2>1, <2>2, <2>3, <2>4, CapRun
<1>17. ASSUME SchedRun PROVE CapInv'
  <2>1. Calm' /\ sched'.pc \notin {"load", "run"} /\ disp' = disp
    BY <1>17, SchedRunEffect DEF CapInv, CreateRun, Calm
  <2>2. Running' \subseteq Running \cup {sched.cur}
    BY <1>17 DEF SchedRun, CreateRun, Running, TypeOK
  <2>3. Reserved /\ lock = Sched
    BY <1>17 DEF SchedRun, Reserved, LockRight
  <2>4. ~Reserved'
    BY <2>1, <2>3 DEF Reserved, LockRight, Inside
  <2> QED
    BY <2>1, <2>2, <2>3, <2>4, CapRun
<1>18. ASSUME SchedHead PROVE CapInv'
  <2>1. /\ UNCHANGED <<run, flags, stopping, deleting, disp>> /\ sched'.pc # "start"
        /\ sched'.pc \in {"load", "run"} => PoolHasSlot
    BY <1>18, SchedHeadEffect DEF CapInv
  <2>2. Calm' /\ Running' \subseteq Running /\ (Reserved' => Reserved \/ PoolHasSlot)
    BY <2>1 DEF Calm, flags, Running, Reserved
  <2> QED
    BY <2>2, CapQuiet
<1>19. ASSUME NEW c \in Convs, Request(c) \/ DispatchStep(c) \/ RunStep(c) \/ StopStep(c) \/ Evict(c)
      PROVE  CapInv'
  <2>1. ~RunRequest(c) /\ ~SendRun(c) /\ ~SendNote(c) /\ ~SendOvertaken(c)
    BY DEF RunRequest, SendRun, SendNote, SendOvertaken, Message, Reach
  <2>2. ~StopDequeue(c) /\ ~DeleteBegin(c) /\ ~StopStep(c)
    BY DEF StopDequeue, DeleteBegin, StopStep, StopSave, StopSession, DeleteEnd, DeleteRefused, Calm
  <2> QED
    BY <1>19, <2>1, <2>2, <1>2, <1>3, <1>4, <1>5, <1>6, <1>7, <1>8, <1>9, <1>10, <1>15, <1>16
       DEF Request, DispatchStep, RunStep
<1>20. CASE SchedStep
  <2>1. ~RecoverStart
    BY DEF RecoverStart, Calm
  <2> QED
    BY <1>20, <2>1, <1>11, <1>12, <1>13, <1>14, <1>17, <1>18 DEF SchedStep
<1>21. ~Crash
  BY DEF Crash
<1> QED
  BY <1>1, <1>19, <1>20, <1>21 DEF Next

LEMMA CapInit == Init => CapInv
<1> SUFFICES ASSUME Init PROVE CapInv
  OBVIOUS
<1>1. Running = {} /\ Calm /\ ~Reserved
  BY DEF Init, Running, Calm, Reserved, Resting
<1>2. DispatchCap
  BY <1>1, FS_EmptySet, ConstantsAssumption DEF DispatchCap
<1> QED
  BY <1>1, <1>2, InitInv DEF CapInv, SlotKept

-----------------------------------------------------------------------------
(* The queue mirrors the records, as long as nobody stops or deletes.      *)

\* What a dispatch puts into the queue goes behind its head.
LEMMA EnqueueElems ==
    ASSUME Inv, NEW c \in Convs, queue' = Enqueue(c)
    PROVE  /\ Queued' = Queued \cup {c} /\ queue' # <<>>
           /\ queue # <<>> => Head(queue') = Head(queue)
<1> DEFINE n == Len(queue)
<1>0. queue \in Seq(Convs) /\ n \in Nat /\ DOMAIN queue = 1..n
  BY LenProperties DEF Inv, TypeOK
<1>1. CASE c \in Queued
  <2>1. queue' = queue
    BY <1>1 DEF Enqueue
  <2>2. queue # <<>>
    BY <1>1, EmptySeq DEF Queued
  <2> QED
    BY <1>1, <2>1, <2>2 DEF Queued
<1>2. CASE c \notin Queued
  <2>1. queue' = Append(queue, c)
    BY <1>2 DEF Enqueue
  <2>2. /\ queue' \in Seq(Convs) /\ Len(queue') = n + 1 /\ queue'[n + 1] = c
        /\ \A i \in 1..n : queue'[i] = queue[i]
    BY <1>0, <2>1, AppendProperties
  <2>3. DOMAIN queue' = 1..(n + 1) /\ queue' # <<>>
    BY <1>0, <2>2, LenProperties, EmptySeq
  <2>4. queue # <<>> => Head(queue') = Head(queue)
    <3> SUFFICES ASSUME queue # <<>> PROVE Head(queue') = Head(queue)
      OBVIOUS
    <3>1. n # 0 /\ Head(queue) = queue[1] /\ Head(queue') = queue'[1]
      BY <1>0, <2>2, <2>3, EmptySeq, HeadTailProperties
    <3>2. 1 \in 1..n
      BY <1>0, <3>1
    <3> QED
      BY <2>2, <3>1, <3>2
  <2> HIDE DEF n
  <2>5. Queued' = Queued \cup {c}
    <3>1. \A i \in 1..(n + 1) : i \in 1..n \/ i = n + 1
      BY <1>0
    <3>2. n + 1 \in 1..(n + 1) /\ \A i \in 1..n : i \in 1..(n + 1)
      BY <1>0
    <3> QED
      BY <1>0, <2>2, <2>3, <3>1, <3>2 DEF Queued
  <2> QED
    BY <2>3, <2>4, <2>5
<1> QED
  BY <1>1, <1>2

\* Two kinds of steps: those that leave the queue alone, and those that append to it.
LEMMA MirrorQuiet ==
    ASSUME MirrorInv, Inv', UNCHANGED <<stopping, deleting, skipped>>,
           \/ queue' = queue
           \/ \E c \in Convs : queue' = Enqueue(c),
           sched'.pc \in {"load", "run"} => /\ sched.pc \in {"load", "run"}
                                            /\ sched'.cur = sched.cur,
           \A c \in known' : adm'[c] = "queued" /\ disp'[c] \in {"done", "lost"}
              => \/ c \in known /\ adm[c] = "queued" /\ disp[c] \in {"done", "lost"}
                 \/ c \in Queued'
    PROVE  MirrorInv'
<1>1. /\ Queued \subseteq Queued'
      /\ queue # <<>> => queue' # <<>> /\ Head(queue') = Head(queue)
  <2>1. CASE queue' = queue
    BY <2>1 DEF Queued
  <2>2. ASSUME NEW c \in Convs, queue' = Enqueue(c)
        PROVE  /\ Queued \subseteq Queued'
               /\ queue # <<>> => queue' # <<>> /\ Head(queue') = Head(queue)
    BY <2>2, EnqueueElems DEF MirrorInv
  <2> QED
    BY <2>1, <2>2
<1>2. HeadKept'
  BY <1>1 DEF MirrorInv, HeadKept
<1>3. QueueMirrors'
  BY <1>1 DEF MirrorInv, QueueMirrors
<1> QED
  BY <1>2, <1>3 DEF MirrorInv

LEMMA MirrorStep == ~Stops /\ MirrorInv /\ [Next]_vars => MirrorInv'
<1> SUFFICES ASSUME ~Stops, MirrorInv, [Next]_vars PROVE MirrorInv'
  OBVIOUS
<1>0. Inv' /\ Inv /\ HeadKept /\ QueueMirrors /\ TypeOK
  BY InvStep DEF MirrorInv, Inv
<1> USE <1>0
<1>1. CASE UNCHANGED vars
  BY <1>1, MirrorQuiet DEF vars, mem, hist
<1>2. ASSUME NEW c \in Convs, Create(c) PROVE MirrorInv'
  <2>1. UNCHANGED <<stopping, deleting, skipped, queue, adm>>
    BY <1>2 DEF Create, StartEventService, mem, hist
  <2>2. sched'.pc \in {"load", "run"} => sched.pc \in {"load", "run"} /\ sched'.cur = sched.cur
    BY <1>2 DEF Create, StartEventService, TypeOK
  <2>3. \A d \in known' : disp'[d] \in {"done", "lost"} => d \in known /\ disp[d] \in {"done", "lost"}
    BY <1>2 DEF Create, StartEventService, TypeOK, mem
  <2> QED
    BY <2>1, <2>2, <2>3, MirrorQuiet
<1>3. ASSUME NEW c \in Convs, Replay(c) PROVE MirrorInv'
  <2>1. UNCHANGED <<stopping, deleting, skipped, queue, adm>>
    BY <1>3 DEF Replay, mem, hist
  <2>2. sched'.pc \in {"load", "run"} => sched.pc \in {"load", "run"} /\ sched'.cur = sched.cur
    BY <1>3 DEF Replay, TypeOK
  <2>3. \A d \in known' : disp'[d] \in {"done", "lost"} => d \in known /\ disp[d] \in {"done", "lost"}
    BY <1>3 DEF Replay, TypeOK, mem
  <2> QED
    BY <2>1, <2>2, <2>3, MirrorQuiet
<1>4. ASSUME NEW c \in Convs, Appended(c) PROVE MirrorInv'
  <2>1. UNCHANGED <<stopping, deleting, skipped, queue, adm>>
    BY <1>4 DEF Appended, mem, hist
  <2>2. sched'.pc \in {"load", "run"} => sched.pc \in {"load", "run"} /\ sched'.cur = sched.cur
    BY <1>4 DEF Appended, TypeOK
  <2>3. \A d \in known' : disp'[d] \in {"done", "lost"} => d \in known /\ disp[d] \in {"done", "lost"}
    BY <1>4 DEF Appended, TypeOK, mem
  <2> QED
    BY <2>1, <2>2, <2>3, MirrorQuiet
<1>5. ASSUME NEW c \in Convs, DispatchFails(c) PROVE MirrorInv'
  <2>1. UNCHANGED <<stopping, deleting, skipped, queue, adm>>
    BY <1>5 DEF DispatchFails, mem, hist
  <2>2. sched'.pc \in {"load", "run"} => sched.pc \in {"load", "run"} /\ sched'.cur = sched.cur
    BY <1>5 DEF DispatchFails, TypeOK
  <2>3. \A d \in known' : disp'[d] \in {"done", "lost"} => d \in known /\ disp[d] \in {"done", "lost"}
    BY <1>5 DEF DispatchFails, TypeOK, mem
  <2> QED
    BY <2>1, <2>2, <2>3, MirrorQuiet
<1>6. ASSUME NEW c \in Convs, Begin(c) PROVE MirrorInv'
  <2>1. UNCHANGED <<stopping, deleting, skipped, queue, adm>>
    BY <1>6 DEF Begin, mem, hist
  <2>2. sched'.pc \in {"load", "run"} => sched.pc \in {"load", "run"} /\ sched'.cur = sched.cur
    BY <1>6 DEF Begin, TypeOK
  <2>3. \A d \in known' : disp'[d] \in {"done", "lost"} => d \in known /\ disp[d] \in {"done", "lost"}
    BY <1>6 DEF Begin, TypeOK, mem
  <2> QED
    BY <2>1, <2>2, <2>3, MirrorQuiet
<1>7. ASSUME NEW c \in Convs, End(c) PROVE MirrorInv'
  <2>1. UNCHANGED <<stopping, deleting, skipped, queue, adm>>
    BY <1>7 DEF End, mem, hist
  <2>2. sched'.pc \in {"load", "run"} => sched.pc \in {"load", "run"} /\ sched'.cur = sched.cur
    BY <1>7 DEF End, TypeOK
  <2>3. \A d \in known' : disp'[d] \in {"done", "lost"} => d \in known /\ disp[d] \in {"done", "lost"}
    BY <1>7 DEF End, TypeOK, mem
  <2> QED
    BY <2>1, <2>2, <2>3, MirrorQuiet
<1>8. ASSUME NEW c \in Convs, RunRequest(c) PROVE MirrorInv'
  <2>1. UNCHANGED <<stopping, deleting, skipped, queue, adm>>
    BY <1>8 DEF RunRequest, Reach, mem, hist
  <2>2. sched'.pc \in {"load", "run"} => sched.pc \in {"load", "run"} /\ sched'.cur = sched.cur
    BY <1>8 DEF RunRequest, Reach, TypeOK
  <2>3. \A d \in known' : disp'[d] \in {"done", "lost"} => d \in known /\ disp[d] \in {"done", "lost"}
    BY <1>8 DEF RunRequest, Reach, TypeOK, mem
  <2> QED
    BY <2>1, <2>2, <2>3, MirrorQuiet
<1>9. ASSUME NEW c \in Convs, SendRun(c) PROVE MirrorInv'
  <2>1. UNCHANGED <<stopping, deleting, skipped, queue, adm>>
    BY <1>9 DEF SendRun, Reach, Message, mem, hist
  <2>2. sched'.pc \in {"load", "run"} => sched.pc \in {"load", "run"} /\ sched'.cur = sched.cur
    BY <1>9 DEF SendRun, Reach, Message, TypeOK
  <2>3. \A d \in known' : disp'[d] \in {"done", "lost"} => d \in known /\ disp[d] \in {"done", "lost"}
    BY <1>9 DEF SendRun, Reach, Message, TypeOK, mem
  <2> QED
    BY <2>1, <2>2, <2>3, MirrorQuiet
<1>10. ASSUME NEW c \in Convs, SendNote(c) PROVE MirrorInv'
  <2>1. UNCHANGED <<stopping, deleting, skipped, queue, adm>>
    BY <1>10 DEF SendNote, Reach, Message, mem, hist
  <2>2. sched'.pc \in {"load", "run"} => sched.pc \in {"load", "run"} /\ sched'.cur = sched.cur
    BY <1>10 DEF SendNote, Reach, Message, TypeOK
  <2>3. \A d \in known' : disp'[d] \in {"done", "lost"} => d \in known /\ disp[d] \in {"done", "lost"}
    BY <1>10 DEF SendNote, Reach, Message, TypeOK, mem
  <2> QED
    BY <2>1, <2>2, <2>3, MirrorQuiet
<1>11. ASSUME NEW c \in Convs, SendOvertaken(c) PROVE MirrorInv'
  <2>1. UNCHANGED <<stopping, deleting, skipped, queue, adm>>
    BY <1>11 DEF SendOvertaken, Reach, Message, mem, hist
  <2>2. sched'.pc \in {"load", "run"} => sched.pc \in {"load", "run"} /\ sched'.cur = sched.cur
    BY <1>11 DEF SendOvertaken, Reach, Message, TypeOK
  <2>3. \A d \in known' : disp'[d] \in {"done", "lost"} => d \in known /\ disp[d] \in {"done", "lost"}
    BY <1>11 DEF SendOvertaken, Reach, Message, TypeOK, mem
  <2> QED
    BY <2>1, <2>2, <2>3, MirrorQuiet
<1>12. ASSUME NEW c \in Convs, Evict(c) PROVE MirrorInv'
  <2>1. UNCHANGED <<stopping, deleting, skipped, queue, adm>>
    BY <1>12 DEF Evict, mem, hist
  <2>2. sched'.pc \in {"load", "run"} => sched.pc \in {"load", "run"} /\ sched'.cur = sched.cur
    BY <1>12 DEF Evict, TypeOK
  <2>3. \A d \in known' : disp'[d] \in {"done", "lost"} => d \in known /\ disp[d] \in {"done", "lost"}
    BY <1>12 DEF Evict, TypeOK, mem
  <2> QED
    BY <2>1, <2>2, <2>3, MirrorQuiet
<1>13. ASSUME SchedWake PROVE MirrorInv'
  <2>1. UNCHANGED <<stopping, deleting, skipped, queue, adm>>
    BY <1>13 DEF SchedWake, SchedAt, mem, hist
  <2>2. sched'.pc \in {"load", "run"} => sched.pc \in {"load", "run"} /\ sched'.cur = sched.cur
    BY <1>13 DEF SchedWake, SchedAt, TypeOK
  <2>3. \A d \in known' : disp'[d] \in {"done", "lost"} => d \in known /\ disp[d] \in {"done", "lost"}
    BY <1>13 DEF SchedWake, SchedAt, TypeOK, mem
  <2> QED
    BY <2>1, <2>2, <2>3, MirrorQuiet
<1>14. ASSUME RecoverDone PROVE MirrorInv'
  <2>1. UNCHANGED <<stopping, deleting, skipped, queue, adm>>
    BY <1>14 DEF RecoverDone, Resting, mem, hist
  <2>2. sched'.pc \in {"load", "run"} => sched.pc \in {"load", "run"} /\ sched'.cur = sched.cur
    BY <1>14 DEF RecoverDone, Resting, TypeOK
  <2>3. \A d \in known' : disp'[d] \in {"done", "lost"} => d \in known /\ disp[d] \in {"done", "lost"}
    BY <1>14 DEF RecoverDone, Resting, TypeOK, mem
  <2> QED
    BY <2>1, <2>2, <2>3, MirrorQuiet
<1>15. ASSUME NEW c \in Convs, RecoverPick(c) PROVE MirrorInv'
  <2>1. UNCHANGED <<stopping, deleting, skipped, queue, adm>>
    BY <1>15 DEF RecoverPick, mem, hist
  <2>2. sched'.pc \in {"load", "run"} => sched.pc \in {"load", "run"} /\ sched'.cur = sched.cur
    BY <1>15 DEF RecoverPick, TypeOK
  <2>3. \A d \in known' : disp'[d] \in {"done", "lost"} => d \in known /\ disp[d] \in {"done", "lost"}
    BY <1>15 DEF RecoverPick, TypeOK, mem
  <2> QED
    BY <2>1, <2>2, <2>3, MirrorQuiet
<1>16. ASSUME RecoverStart PROVE MirrorInv'
  <2>1. UNCHANGED <<stopping, deleting, skipped, queue, adm>>
    BY <1>16 DEF RecoverStart, SchedAt, mem, hist
  <2>2. sched'.pc \in {"load", "run"} => sched.pc \in {"load", "run"} /\ sched'.cur = sched.cur
    BY <1>16 DEF RecoverStart, SchedAt, TypeOK
  <2>3. \A d \in known' : disp'[d] \in {"done", "lost"} => d \in known /\ disp[d] \in {"done", "lost"}
    BY <1>16 DEF RecoverStart, SchedAt, TypeOK, mem
  <2> QED
    BY <2>1, <2>2, <2>3, MirrorQuiet
<1>17. ASSUME NEW c \in Convs, Decide(c) PROVE MirrorInv'
  <2>1. UNCHANGED <<stopping, deleting, skipped, queue, sched, known>>
    BY <1>17 DEF Decide, hist
  <2>2. disp'[c] \notin {"done", "lost"} /\ \A d \in Convs \ {c} : disp'[d] = disp[d] /\ adm'[d] = adm[d]
    BY <1>17 DEF Decide, Mark, TypeOK
  <2>3. known \subseteq Convs
    BY DEF TypeOK
  <2> QED
    BY <2>1, <2>2, <2>3, MirrorQuiet
<1>18. ASSUME NEW c \in Convs, StartDispatched(c) PROVE MirrorInv'
  <2>1. /\ UNCHANGED <<stopping, deleting, skipped, sched, known>> /\ known \subseteq Convs
        /\ (queue' = queue /\ adm'[c] = "admitted") \/ queue' = Enqueue(c)
        /\ \A d \in Convs \ {c} : disp'[d] = disp[d] /\ adm'[d] = adm[d]
    BY <1>18 DEF StartDispatched, Answer, TypeOK
  <2>2. queue' = Enqueue(c) => c \in Queued'
    BY EnqueueElems
  <2> QED
    BY <2>1, <2>2, MirrorQuiet
<1>19. ASSUME NEW c \in Convs, EnqueueDispatched(c) PROVE MirrorInv'
  <2>1. /\ UNCHANGED <<stopping, deleting, skipped, sched, known>> /\ known \subseteq Convs
        /\ queue' = Enqueue(c)
        /\ \A d \in Convs \ {c} : disp'[d] = disp[d] /\ adm'[d] = adm[d]
    BY <1>19 DEF EnqueueDispatched, Mark, Answer, TypeOK
  <2>2. c \in Queued'
    BY <2>1, EnqueueElems
  <2> QED
    BY <2>1, <2>2, MirrorQuiet
<1>20. ASSUME NEW c \in Convs, DispatchOrphaned(c) PROVE MirrorInv'
  <2>1. /\ UNCHANGED <<stopping, deleting, skipped, sched, known, adm>> /\ known \subseteq Convs
        /\ queue' = queue \/ queue' = Enqueue(c)
        /\ disp'[c] = "gone" /\ \A d \in Convs \ {c} : disp'[d] = disp[d]
    BY <1>20 DEF DispatchOrphaned, mem, hist, TypeOK
  <2> QED
    BY <2>1, MirrorQuiet
<1>21. ASSUME SchedHead PROVE MirrorInv'
  <2>1. UNCHANGED <<disp, known, adm, stopping, deleting, skipped>>
    BY <1>21, SchedHeadEffect DEF mem, hist
  <2>2. CASE sched'.pc = "recover" /\ queue' = queue
    BY <2>1, <2>2, MirrorQuiet
  <2>3. CASE /\ Queued' = Queued \ {Head(queue)} /\ sched'.pc = "head"
             /\ Head(queue) \notin known \/ adm[Head(queue)] # "queued"
    BY <2>1, <2>3 DEF MirrorInv, HeadKept, QueueMirrors
  <2>4. CASE queue # <<>> /\ queue' = queue /\ sched'.cur = Head(queue)
    BY <2>1, <2>4 DEF MirrorInv, HeadKept, QueueMirrors, Queued
  <2> QED
    BY <1>21, <2>2, <2>3, <2>4, SchedHeadEffect
<1>22. ASSUME SchedLoad PROVE MirrorInv'
  <2>1. UNCHANGED <<disp, known, adm, stopping, deleting>> /\ queue # <<>> /\ sched.cur = Head(queue)
    BY <1>22, SchedLoadEffect DEF HeadKept
  <2>2. CASE /\ \/ sched.cur \notin known /\ skipped' = skipped
                \/ sched.cur \in known /\ skipped' = skipped \cup {sched.cur}
             /\ sched'.pc \in {"idle", "head"}
             /\ Queued' = Queued \ {Head(queue)}
    BY <2>1, <2>2 DEF MirrorInv, HeadKept, QueueMirrors
  <2>3. CASE UNCHANGED <<queue, skipped>> /\ (sched'.pc = "idle" \/ sched'.cur = sched.cur)
    BY <2>1, <2>3 DEF MirrorInv, HeadKept, QueueMirrors, Queued
  <2> QED
    BY <1>22, <2>1, <2>2, <2>3, SchedLoadEffect
<1>23. ASSUME SchedRun PROVE MirrorInv'
  <2>1. /\ UNCHANGED <<disp, known, stopping, deleting, skipped>> /\ sched'.pc \in {"idle", "head"}
        /\ queue # <<>> /\ sched.cur = Head(queue) /\ sched.cur \in Convs
    BY <1>23, SchedRunEffect DEF HeadKept, hist
  <2>2. CASE UNCHANGED <<adm, queue>>
    BY <2>1, <2>2, MirrorQuiet
  <2>3. CASE Queued' = Queued \ {Head(queue)} /\ adm' = [adm EXCEPT ![sched.cur] = "admitted"]
    <3>1. adm'[sched.cur] = "admitted" /\ \A d \in Convs \ {sched.cur} : adm'[d] = adm[d]
      BY <2>1, <2>3 DEF TypeOK
    <3> QED
      BY <2>1, <2>3, <3>1 DEF MirrorInv, HeadKept, QueueMirrors, TypeOK
  <2> QED
    BY <1>23, <2>1, <2>2, <2>3, SchedRunEffect
<1>24. ASSUME Crash PROVE MirrorInv'
  <2>1. /\ Queued' = {c \in Convs : meta[c] = "queued" /\ status'[c] = "idle"}
        /\ \A c \in Convs : adm'[c] = "queued" => meta[c] = "queued" /\ status'[c] = "idle"
        /\ deleting' = {} /\ stopping' = [c \in Convs |-> "none"] /\ sched' = Resting
    BY <1>24, CrashInv DEF Crash
  <2> QED
    BY <2>1 DEF MirrorInv, HeadKept, QueueMirrors, Resting, Inv, TypeOK
<1>25. ASSUME NEW c \in Convs, Request(c) \/ DispatchStep(c) \/ RunStep(c) \/ StopStep(c) \/ Evict(c)
       PROVE  MirrorInv'
  <2>1. ~StopDequeue(c) /\ ~DeleteBegin(c) /\ ~StopStep(c)
    BY DEF StopDequeue, DeleteBegin, StopStep, StopSave, StopSession, DeleteEnd, DeleteRefused, HeadKept
  <2> QED
    BY <1>25, <2>1, <1>2, <1>3, <1>4, <1>5, <1>6, <1>7, <1>8, <1>9,
       <1>10, <1>11, <1>12, <1>17, <1>18, <1>19, <1>20
       DEF Request, DispatchStep, RunStep
<1>26. CASE SchedStep
  BY <1>26, <1>13, <1>14, <1>15, <1>16, <1>21, <1>22, <1>23 DEF SchedStep
<1> QED
  BY <1>1, <1>25, <1>26, <1>24 DEF Next

LEMMA MirrorInit == Init => MirrorInv
<1> SUFFICES ASSUME Init PROVE MirrorInv
  OBVIOUS
<1> QED
  BY InitInv DEF Init, MirrorInv, HeadKept, QueueMirrors, Resting

-----------------------------------------------------------------------------
(* No accepted dispatch is forgotten, as long as no client stops or        *)
(* messages a conversation.                                                *)

LEMMA KeptInit == Init => KeptInv
<1> SUFFICES ASSUME Init PROVE KeptInv
  OBVIOUS
<1>1. Queued = {}
  <2>1. DOMAIN queue = {}
    BY EmptySeq DEF Init
  <2> QED
    BY <2>1 DEF Queued
<1> QED
  BY <1>1, MirrorInit DEF Init, KeptInv, QueuedUntouched, AcceptedKept, Resting

\* What is queued is known, and not on its way in.
LEMMA QueuedKnown ==
    ASSUME KeptInv, NEW c \in Convs, c \in Queued
    PROVE  c \in known /\ disp[c] \in {"done", "lost"}
<1>1. meta[c] = "queued" /\ disp[c] \notin Early /\ (c \in known <=> meta[c] # "none")
      /\ (disp[c] \in {"new", "gone"} => c \notin known) /\ disp[c] \in DispPcs
  BY DEF KeptInv, MirrorInv, Inv, QueuedUntouched, Phases, TypeOK
<1> QED
  BY <1>1 DEF Early, DispPcs

LEMMA KeptStep == Undisturbed /\ KeptInv /\ [Next]_vars => KeptInv'
<1> SUFFICES ASSUME Undisturbed, KeptInv, [Next]_vars PROVE KeptInv'
  OBVIOUS
<1>0. /\ MirrorInv' /\ Inv /\ HeadKept /\ TypeOK /\ Phases /\ QueuedUntouched
      /\ Queued \subseteq Convs
      /\ \A c \in accepted \ (began \cup cut \cup skipped) : run[c] # "none" \/ c \in Queued
  <2>1. Queued \subseteq Convs
    BY LenProperties, ElementOfSeq DEF KeptInv, MirrorInv, Inv, TypeOK, Queued
  <2> QED
    BY <2>1, MirrorStep DEF KeptInv, MirrorInv, Inv, Undisturbed, AcceptedKept
<1> SUFFICES QueuedUntouched' /\ \A c \in accepted' \ (began' \cup cut' \cup skipped') : run'[c] # "none" \/ c \in Queued'
  BY <1>0 DEF KeptInv, AcceptedKept
<1> DEFINE Kept == \A c \in accepted \ (began \cup cut \cup skipped) : run[c] # "none" \/ c \in Queued
           Goal == QueuedUntouched /\ Kept
<1> USE <1>0
<1>1. CASE UNCHANGED vars
  <2>1. Queued' = Queued
    BY <1>1 DEF vars, Queued
  <2> QED
    BY <1>1, <2>1 DEF vars, disk, mem, flags, hist, QueuedUntouched
<1>2. ASSUME NEW c \in Convs, Create(c) PROVE Goal'
  <2>1. Queued' = Queued
    BY <1>2 DEF Create, StartEventService, Queued
  <2>2. QueuedUntouched'
    BY <1>2, <2>1 DEF Create, StartEventService, QueuedUntouched, Phases, Early, TypeOK, disk, mem, flags, hist
  <2>3. Kept'
    BY <1>2, <2>1 DEF Create, StartEventService, QueuedUntouched, Phases, Early, TypeOK, hist
  <2> QED
    BY <2>2, <2>3
<1>3. ASSUME NEW c \in Convs, Replay(c) PROVE Goal'
  <2>1. Queued' = Queued
    BY <1>3 DEF Replay, Queued
  <2>2. QueuedUntouched'
    BY <1>3, <2>1 DEF Replay, QueuedUntouched, Phases, Early, TypeOK, disk, mem, flags, hist
  <2>3. Kept'
    BY <1>3, <2>1 DEF Replay, QueuedUntouched, Phases, Early, TypeOK, hist
  <2> QED
    BY <2>2, <2>3
<1>4. ASSUME NEW c \in Convs, Appended(c) PROVE Goal'
  <2>1. Queued' = Queued
    BY <1>4 DEF Appended, Queued
  <2>2. QueuedUntouched'
    BY <1>4, <2>1 DEF Appended, QueuedUntouched, Phases, Early, TypeOK, disk, mem, flags, hist
  <2>3. Kept'
    BY <1>4, <2>1 DEF Appended, QueuedUntouched, Phases, Early, TypeOK, hist
  <2> QED
    BY <2>2, <2>3
<1>5. ASSUME NEW c \in Convs, DispatchFails(c) PROVE Goal'
  <2>1. Queued' = Queued
    BY <1>5 DEF DispatchFails, Queued
  <2>2. QueuedUntouched'
    BY <1>5, <2>1 DEF DispatchFails, QueuedUntouched, Phases, Early, TypeOK, disk, mem, flags, hist
  <2>3. Kept'
    BY <1>5, <2>1 DEF DispatchFails, QueuedUntouched, Phases, Early, TypeOK, hist
  <2> QED
    BY <2>2, <2>3
<1>6. ASSUME NEW c \in Convs, Begin(c) PROVE Goal'
  <2>1. Queued' = Queued
    BY <1>6 DEF Begin, Queued
  <2>2. QueuedUntouched'
    BY <1>6, <2>1 DEF Begin, QueuedUntouched, Phases, Early, TypeOK, disk, mem, flags, hist
  <2>3. Kept'
    BY <1>6, <2>1 DEF Begin, QueuedUntouched, Phases, Early, TypeOK, hist
  <2> QED
    BY <2>2, <2>3
<1>7. ASSUME NEW c \in Convs, End(c) PROVE Goal'
  <2>1. Queued' = Queued
    BY <1>7 DEF End, Queued
  <2>2. QueuedUntouched'
    BY <1>7, <2>1 DEF End, QueuedUntouched, Phases, Early, TypeOK, disk, mem, flags, hist
  <2>3. Kept'
    BY <1>7, <2>1 DEF End, QueuedUntouched, Phases, Early, TypeOK, hist
  <2> QED
    BY <2>2, <2>3
<1>8. ASSUME NEW c \in Convs, Evict(c) PROVE Goal'
  <2>1. Queued' = Queued
    BY <1>8 DEF Evict, Queued
  <2>2. QueuedUntouched'
    BY <1>8, <2>1 DEF Evict, QueuedUntouched, Phases, Early, TypeOK, disk, mem, flags, hist, IdleEvictable
  <2>3. Kept'
    BY <1>8, <2>1 DEF Evict, QueuedUntouched, Phases, Early, TypeOK, hist
  <2> QED
    BY <2>2, <2>3
<1>9. ASSUME SchedWake PROVE Goal'
  <2>1. Queued' = Queued
    BY <1>9 DEF SchedWake, SchedAt, Queued
  <2>2. QueuedUntouched'
    BY <1>9, <2>1 DEF SchedWake, SchedAt, QueuedUntouched, Phases, Early, TypeOK, disk, mem, flags, hist
  <2>3. Kept'
    BY <1>9, <2>1 DEF SchedWake, SchedAt, QueuedUntouched, Phases, Early, TypeOK, hist
  <2> QED
    BY <2>2, <2>3
<1>10. ASSUME RecoverDone PROVE Goal'
  <2>1. Queued' = Queued
    BY <1>10 DEF RecoverDone, Resting, Queued
  <2>2. QueuedUntouched'
    BY <1>10, <2>1 DEF RecoverDone, Resting, QueuedUntouched, Phases, Early, TypeOK, disk, mem, flags, hist
  <2>3. Kept'
    BY <1>10, <2>1 DEF RecoverDone, Resting, QueuedUntouched, Phases, Early, TypeOK, hist
  <2> QED
    BY <2>2, <2>3
<1>11. ASSUME NEW c \in Convs, RecoverPick(c) PROVE Goal'
  <2>1. Queued' = Queued
    BY <1>11 DEF RecoverPick, Queued
  <2>2. /\ UNCHANGED <<disp, disk, mem, run, intent, moved, hist>>
        /\ sched'.pc = "start" => sched'.cur = c /\ adm[c] # "queued"
    BY <1>11 DEF RecoverPick, TypeOK
  <2> QED
    BY <2>1, <2>2 DEF QueuedUntouched, disk, mem, hist
<1>12. ASSUME RecoverStart PROVE Goal'
  <2>1. Queued' = Queued
    BY <1>12 DEF RecoverStart, Queued
  <2>2. /\ UNCHANGED <<disp, disk, mem, moved, hist>> /\ sched.cur \notin Queued \cup skipped
        /\ sched'.pc # "start"
        /\ UNCHANGED <<run, intent>> \/ CreateRun(sched.cur)
    BY <1>12 DEF RecoverStart, SchedAt, QueuedUntouched, TypeOK
  <2>3. intent' = {} /\ \A d \in Convs : run'[d] = run[d] \/ (d = sched.cur /\ run'[d] = "created")
    BY <2>2 DEF CreateRun, QueuedUntouched, TypeOK
  <2>4. QueuedUntouched'
    BY <2>1, <2>2, <2>3 DEF QueuedUntouched, disk, mem, hist
  <2>5. Kept'
    BY <2>1, <2>2, <2>3 DEF hist, TypeOK
  <2> QED
    BY <2>4, <2>5
<1>13. ASSUME NEW c \in Convs, Decide(c) PROVE Goal'
  <2>1. Queued' = Queued /\ c \notin Queued
    BY <1>13 DEF Decide, Queued, Phases, Early
  <2>2. /\ UNCHANGED <<status, known, run, intent, sched, hist>> /\ moved' = {} /\ c \in known
        /\ disp[c] = "created" /\ disp'[c] \in {"sendRun", "sendNote"}
        /\ \A d \in Convs \ {c} : disp'[d] = disp[d] /\ adm'[d] = adm[d] /\ meta'[d] = meta[d]
    BY <1>13 DEF Decide, Mark, TypeOK, QueuedUntouched
  <2>3. QueuedUntouched'
    BY <2>1, <2>2 DEF QueuedUntouched, Early, hist
  <2>4. Kept'
    BY <2>1, <2>2 DEF hist
  <2> QED
    BY <2>3, <2>4
<1>14. ASSUME NEW c \in Convs, StartDispatched(c) PROVE Goal'
  <2>1. /\ c \notin moved /\ queue' = queue /\ disp[c] = "start"
        /\ UNCHANGED <<status, known, moved, sched, began, cut, skipped>> /\ accepted' = accepted \cup {c}
        /\ disp'[c] = "done" /\ run'[c] = "created" /\ intent' = {}
        /\ \A d \in Convs \ {c} : /\ disp'[d] = disp[d] /\ adm'[d] = adm[d] /\ meta'[d] = meta[d]
                                  /\ run'[d] = run[d]
    BY <1>14 DEF StartDispatched, Answer, CreateRun, TypeOK, QueuedUntouched
  <2>2. Queued' = Queued /\ c \notin Queued \cup skipped
    BY <2>1 DEF Queued, QueuedUntouched, Phases, Early
  <2>3. QueuedUntouched'
    BY <2>1, <2>2 DEF QueuedUntouched, Early
  <2>4. Kept'
    BY <2>1, <2>2 DEF TypeOK
  <2> QED
    BY <2>3, <2>4
<1>15. ASSUME NEW c \in Convs, EnqueueDispatched(c) PROVE Goal'
  <2>1. /\ queue' = Enqueue(c) /\ disp[c] = "enqueue" /\ c \in known
        /\ UNCHANGED <<status, known, moved, sched, began, cut, skipped, run, intent>>
        /\ accepted' = accepted \cup {c}
        /\ disp'[c] = "done" /\ adm'[c] = "queued" /\ meta'[c] = "queued"
        /\ \A d \in Convs \ {c} : disp'[d] = disp[d] /\ adm'[d] = adm[d] /\ meta'[d] = meta[d]
    BY <1>15 DEF EnqueueDispatched, Mark, Answer, TypeOK
  <2>2. Queued' = Queued \cup {c}
    BY <2>1, EnqueueElems
  <2>3. status[c] = "idle" /\ run[c] = "none" /\ c \notin skipped
    BY <2>1 DEF QueuedUntouched, Phases, Early
  <2>4. sched.pc = "start" => sched.cur # c
    BY <2>1 DEF Inv, SchedRight
  <2>5. QueuedUntouched'
    BY <2>1, <2>2, <2>3, <2>4 DEF QueuedUntouched, Early
  <2>6. Kept'
    BY <2>1, <2>2
  <2> QED
    BY <2>5, <2>6
<1>16. ASSUME SchedHead PROVE Goal'
  <2>1. UNCHANGED <<disp, disk, mem, run, flags, hist>> /\ queue' = queue /\ sched'.pc # "start"
    <3>1. queue # <<>> => Head(queue) \in known /\ adm[Head(queue)] = "queued"
      BY HeadRight, QueuedKnown DEF QueuedUntouched
    <3> QED
      BY <1>16, <3>1, SchedHeadEffect
  <2>2. Queued' = Queued
    BY <2>1 DEF Queued
  <2> QED
    BY <2>1, <2>2 DEF QueuedUntouched, disk, mem, flags, hist
<1>17. ASSUME SchedLoad PROVE Goal'
  <2> DEFINE c == sched.cur
  <2>1. c \in Queued /\ c \in Convs /\ c \in known /\ adm[c] = "queued" /\ meta[c] = "queued"
    <3>1. c \in Queued /\ c \in Convs
      BY <1>17, HeadRight, SchedLoadEffect DEF HeadKept
    <3> QED
      BY <3>1, QueuedKnown DEF QueuedUntouched
  <2>2. /\ UNCHANGED <<disp, status, known, adm, run, flags, accepted, began, cut>>
        /\ sched'.pc # "start"
        /\ meta' = meta \/ meta' = [meta EXCEPT ![c] = adm[c]]
    BY <1>17, <2>1, SchedLoadEffect
  <2>3. \A d \in Convs : meta'[d] = meta[d]
    BY <2>1, <2>2 DEF TypeOK
  <2>4. CASE UNCHANGED <<queue, skipped>>
    <3>1. Queued' = Queued
      BY <2>4 DEF Queued
    <3> QED
      BY <2>2, <2>3, <2>4, <3>1 DEF QueuedUntouched, flags
  <2>5. CASE skipped' = skipped \cup {c} /\ Queued' = Queued \ {c}
    <3>1. disp[c] \notin Early
      BY <2>1 DEF Phases
    <3>2. QueuedUntouched'
      BY <2>1, <2>2, <2>3, <2>5, <3>1 DEF QueuedUntouched, flags
    <3>3. Kept'
      BY <2>2, <2>5
    <3> QED
      BY <3>2, <3>3
  <2>6. queue # <<>> /\ c = Head(queue)
    BY <1>17, SchedLoadEffect DEF HeadKept
  <2> QED
    BY <1>17, <2>1, <2>4, <2>5, <2>6, SchedLoadEffect
<1>18. ASSUME SchedRun PROVE Goal'
  <2> DEFINE c == sched.cur
  <2>1. /\ queue # <<>> /\ c = Head(queue) /\ c \in Convs /\ sched'.pc # "start"
        /\ UNCHANGED <<disp, status, known, moved, hist>>
    BY <1>18, SchedRunEffect DEF HeadKept
  <2>2. CASE UNCHANGED <<run, intent, adm, meta, queue>>
    <3>1. Queued' = Queued
      BY <2>2 DEF Queued
    <3> QED
      BY <2>1, <2>2, <3>1 DEF QueuedUntouched, hist
  <2>3. CASE /\ CreateRun(c) /\ Queued' = Queued \ {Head(queue)}
             /\ adm' = [adm EXCEPT ![c] = "admitted"] /\ meta' = [meta EXCEPT ![c] = "admitted"]
    <3>1. /\ intent' = {} /\ run'[c] = "created"
          /\ \A d \in Convs \ {c} : run'[d] = run[d] /\ adm'[d] = adm[d] /\ meta'[d] = meta[d]
      BY <2>1, <2>3 DEF CreateRun, TypeOK, QueuedUntouched
    <3>2. c \notin skipped
      BY <2>1, HeadRight DEF QueuedUntouched
    <3>3. QueuedUntouched'
      BY <2>1, <2>3, <3>1, <3>2 DEF QueuedUntouched, hist
    <3>4. Kept'
      BY <2>1, <2>3, <3>1 DEF hist, TypeOK
    <3> QED
      BY <3>3, <3>4
  <2> QED
    BY <1>18, <2>1, <2>2, <2>3, SchedRunEffect
<1>19. ASSUME Crash PROVE Goal'
  <2>1. /\ Queued' = {c \in Convs : meta[c] = "queued" /\ status'[c] = "idle"}
        /\ \A c \in Convs : meta[c] = "queued" /\ status'[c] = "idle" => adm'[c] = "queued"
        /\ \A c \in Convs : status[c] = "idle" => status'[c] = "idle"
        /\ \A c \in Convs : run'[c] = "none"
    BY <1>19, CrashInv DEF Crash, CutOff
  <2>2. /\ known' = Catalog /\ sched' = Resting /\ intent' = {} /\ moved' = {}
        /\ cut' = cut \cup {c \in Convs : run[c] = "created"}
        /\ skipped' = {} /\ UNCHANGED <<meta, accepted, began>>
    BY <1>19 DEF Crash
  <2>3. \A c \in Convs : /\ disp'[c] = IF disp[c] \in {"new", "done", "gone"} THEN disp[c] ELSE "lost"
                         /\ c \in known' <=> c \in known
    BY <1>19, <2>2 DEF Crash, Catalog, Phases
  <2>4. QueuedUntouched'
    <3>1. \A c \in Convs : disp'[c] \in Early => disp[c] \in Early
      BY <2>3 DEF Early
    <3> QED
      BY <2>1, <2>2, <2>3, <3>1 DEF QueuedUntouched, Resting
  <2>5. Kept'
    <3> SUFFICES ASSUME NEW c \in accepted' \ (began' \cup cut' \cup skipped') PROVE c \in Queued'
      OBVIOUS
    <3>1. c \in Convs /\ run[c] \in {"none", "created", "live"}
      BY <2>2 DEF TypeOK
    <3>2. run[c] = "none" /\ c \in accepted \ (began \cup cut)
      BY <2>2, <3>1 DEF QueuedUntouched
    <3>3. meta[c] = "queued" /\ status[c] = "idle"
      BY <3>1, <3>2 DEF QueuedUntouched
    <3> QED
      BY <2>1, <3>1, <3>3
  <2> QED
    BY <2>4, <2>5
<1>20. ASSUME NEW c \in Convs, Request(c) \/ DispatchStep(c) \/ RunStep(c) \/ StopStep(c) \/ Evict(c)
       PROVE  Goal'
  <2>1. ~StopDequeue(c) /\ ~DeleteBegin(c) /\ ~StopStep(c)
    BY DEF StopDequeue, DeleteBegin, StopStep, StopSave, StopSession, DeleteEnd, DeleteRefused,
           HeadKept, Undisturbed
  <2>2. ~RunRequest(c) /\ ~SendRun(c) /\ ~SendNote(c) /\ ~SendOvertaken(c)
    BY DEF RunRequest, SendRun, SendNote, SendOvertaken, Message, Reach, Undisturbed
  <2>3. ~DispatchOrphaned(c)
    BY DEF DispatchOrphaned, QueuedUntouched
  <2> QED
    BY <1>20, <2>1, <2>2, <2>3, <1>2, <1>3, <1>4, <1>5, <1>6, <1>7, <1>8,
       <1>13, <1>14, <1>15
       DEF Request, DispatchStep, RunStep
<1>21. CASE SchedStep
  BY <1>21, <1>9, <1>10, <1>11, <1>12, <1>16, <1>17, <1>18 DEF SchedStep
<1> QED
  BY <1>1, <1>20, <1>21, <1>19 DEF Next

-----------------------------------------------------------------------------
(* The theorems.                                                           *)

\* The queue holds every conversation once, in the order of the submissions'
\* stamps: whatever dispatches, stops, deletes, failed loads and restarts do to
\* _admission_queue, and for any caps.
THEOREM InSubmissionOrder == Spec => []SubmissionOrder
<1>1. Inv => SubmissionOrder
  BY DEF Inv
<1> QED
  BY <1>1, Invariance, PTL

\* A run task belongs to a conversation that is known and loaded: neither a
\* delete nor an eviction nor a failed create leaves a run behind that the caps
\* would not count (_event_services is what they are measured over).
THEOREM NoRunOutsideTheCount == Spec => []RunsAreLoaded
<1>1. Inv => RunsAreLoaded
  BY DEF Inv
<1> QED
  BY <1>1, Invariance, PTL

\* Dispatches and the scheduler, which decide under _admission_lock, never
\* exceed max_concurrent_runs together: the slot that one has found is still
\* free when its run is created, awaits later.  Requests to run, which ignore the
\* cap, and the recovery after stops and restarts are outside of it.
THEOREM CapHolds == Spec => []DispatchCap
<1>1. CapInv => DispatchCap
  BY DEF CapInv
<1> QED
  BY <1>1, CapInit, CapStep, PTL DEF Spec

\* Without stops and deletes the queue is what the records say, restarts
\* included: _admit_queued looks nowhere else.
THEOREM QueueIsSound == ~Stops /\ Spec => []QueueSound
<1>1. MirrorInv => QueueSound
  BY DEF MirrorInv, Inv, QueueSound
<1>2. ASSUME ~Stops PROVE MirrorInv /\ [Next]_vars => MirrorInv'
  BY <1>2, MirrorStep
<1>3. ASSUME ~Stops PROVE Spec => []QueueSound
  BY <1>1, <1>2, <1>3, MirrorInit, PTL DEF Spec
<1> QED
  BY <1>3

\* An accepted dispatch runs or waits until its run has begun, and a daemon
\* that dies at any moment finds it again in its catalog, except between the
\* creation of the run task and its first step, unless a client stopped it.
THEOREM NothingForgotten == Spec => []AcceptedKept
<1>1. KeptInv => AcceptedKept
  BY DEF KeptInv
<1>2. ASSUME Undisturbed PROVE Spec => []AcceptedKept
  <2>1. KeptInv /\ [Next]_vars => KeptInv'
    BY <1>2, KeptStep
  <2> QED
    BY <1>1, <2>1, KeptInit, PTL DEF Spec
<1>3. ASSUME ~Undisturbed PROVE Spec => []AcceptedKept
  <2>1. AcceptedKept
    BY <1>3 DEF Undisturbed, AcceptedKept
  <2>2. AcceptedKept'
    BY <1>3 DEF Undisturbed, AcceptedKept
  <2> QED
    BY <2>1, <2>2, PTL DEF Spec
<1> QED
  BY <1>2, <1>3
=============================================================================
