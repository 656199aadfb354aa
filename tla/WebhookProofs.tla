---------------------------- MODULE WebhookProofs ----------------------------
(***************************************************************************)
(* Proofs about Webhook.                                                   *)
(*                                                                         *)
(* A published event is in the batch of the post that is going on, in the  *)
(* queue behind it, or settled; batch and queue together are increasing,   *)
(* whatever was trimmed, put back or appended.  So whatever reaches the    *)
(* webhook, now or late, has nothing unsettled before it.  A post of       *)
(* __call__ without a timer beside it has counted all that is queued.      *)
(***************************************************************************)
EXTENDS Webhook, SequenceTheorems, WellFoundedInduction, TLAPS

Increasing(q) == \A i, j \in 1..Len(q) : i < j => q[i] < q[j]

\* Everything in b comes before everything in q.
Before(b, q) == \A e \in Range(b), f \in Range(q) : e < f

Ordered == Increasing(batch) /\ Increasing(queue) /\ Before(batch, queue)

Accounted == 1..published = Settled \cup Range(batch) \cup Range(queue)

\* A request that is processed late has nothing unsettled before it either.
LateExplained ==
    \A b \in late : /\ Range(b) \subseteq 1..published
                    /\ \A e \in Range(b) : \A f \in 1..e : f \in Settled \cup Range(b)

\* The post that is going on.
PostSound ==
    /\ holder = None => batch = <<>>
    /\ req = "served" => Range(batch) \subseteq received
    /\ req = "wait" => attempt < NumRetries
    /\ Len(batch) <= remaining
    /\ Len(queue) <= MaxQueueSize

\* Who looks after the queue.
Tended ==
    /\ holder = Closer \/ Closer \in Range(waiters) => closed
    /\ ~closed /\ holder = Timer => timer = "flush"
    /\ ~closed /\ holder \in Events /\ timer = "none" => Len(queue) + Len(batch) <= remaining

Inv ==
    /\ TypeOK
    /\ Accounted
    /\ Ordered
    /\ LateExplained
    /\ GapsExplained
    /\ PostSound
    /\ Tended

-----------------------------------------------------------------------------
(* The operators on the queue.                                             *)

\* A set of naturals with a member has a least one.
LEMMA LeastNat ==
    ASSUME NEW S, S \subseteq Nat, S # {}
    PROVE  \E x \in S : \A y \in S : x <= y
<1>1. PICK x \in S : \A y \in S : ~(<<y, x>> \in OpToRel(<, Nat))
  BY WFMin, NatLessThanWellFounded, Zenon
<1>2. x \in S /\ \A y \in S : ~(y < x)
  BY <1>1 DEF OpToRel
<1>3. \A y \in S : x <= y
  BY <1>2
<1> QED BY <1>2, <1>3

\* Min is a least member.
LEMMA MinMember ==
    ASSUME NEW S, S \subseteq Nat, S # {}
    PROVE  Min(S) \in S /\ \A y \in S : Min(S) <= y
<1>1. \E x \in S : \A y \in S : x <= y
  BY LeastNat
<1> QED BY <1>1 DEF Min

\* Max of a set with an upper bound is a member of it.
LEMMA MaxMember ==
    ASSUME NEW m \in Nat, NEW S, S \subseteq 0..m, S # {}
    PROVE  Max(S) \in S
<1> DEFINE D == {m - x : x \in S}
<1>1. D \subseteq Nat /\ D # {}
  OBVIOUS
<1>2. PICK d \in D : \A y \in D : d <= y
  BY <1>1, LeastNat
<1>3. PICK x \in S : d = m - x
  BY <1>2
<1>4. \A y \in S : x >= y
  <2> TAKE y \in S
  <2>1. m - y \in D
    OBVIOUS
  <2>2. d <= m - y
    BY <2>1, <1>2
  <2>3. x \in 0..m /\ y \in 0..m
    BY <1>3
  <2> QED BY <2>2, <2>3, <1>3
<1>5. \E z \in S : \A y \in S : z >= y
  BY <1>3, <1>4
<1> QED BY <1>5 DEF Max

\* What a sequence of events holds.
LEMMA RangeIs ==
    ASSUME NEW q \in Seq(Events)
    PROVE  /\ Len(q) \in Nat
           /\ \A i \in 1..Len(q) : q[i] \in Range(q) /\ q[i] \in Events
           /\ \A e \in Range(q) : \E i \in 1..Len(q) : e = q[i]
           /\ Range(q) \subseteq Events
BY DEF Range

\* A queue taken apart: nothing is lost, and the order stays.
LEMMA TakeApart ==
    ASSUME NEW q \in Seq(Events), NEW k \in 0..Len(q)
    PROVE  LET a == SubSeq(q, 1, k)
               b == SubSeq(q, k + 1, Len(q))
           IN /\ a \in Seq(Events) /\ b \in Seq(Events)
              /\ Len(a) = k /\ Len(b) = Len(q) - k
              /\ Range(q) = Range(a) \cup Range(b)
              /\ Increasing(q) => Increasing(a) /\ Increasing(b) /\ Before(a, b)
<1> DEFINE a == SubSeq(q, 1, k)
           b == SubSeq(q, k + 1, Len(q))
<1>0. Len(q) \in Nat /\ k \in Nat /\ k <= Len(q) /\ \A i \in 1..Len(q) : q[i] \in Events
  BY RangeIs
<1>1. /\ a \in Seq(Events) /\ Len(a) = k
      /\ \A i \in 1..k : a[i] = q[i]
  <2>1. \A i \in 1..k : q[i] \in Events
    BY <1>0
  <2>2. /\ a \in Seq(Events)
        /\ Len(a) = IF 1 <= k THEN k - 1 + 1 ELSE 0
        /\ \A i \in 1..(k - 1 + 1) : a[i] = q[1 + i - 1]
    BY <2>1, <1>0, SubSeqProperties
  <2> QED BY <2>2, <1>0
<1>2. /\ b \in Seq(Events) /\ Len(b) = Len(q) - k
      /\ \A i \in 1..(Len(q) - k) : b[i] = q[k + i]
  <2>1. \A i \in (k + 1)..Len(q) : q[i] \in Events
    BY <1>0
  <2>2. /\ b \in Seq(Events)
        /\ Len(b) = IF k + 1 <= Len(q) THEN Len(q) - (k + 1) + 1 ELSE 0
        /\ \A i \in 1..(Len(q) - (k + 1) + 1) : b[i] = q[k + 1 + i - 1]
    BY <2>1, <1>0, SubSeqProperties
  <2> QED BY <2>2, <1>0
<1> HIDE DEF a, b
<1>3. Range(q) = Range(a) \cup Range(b)
  <2>1. ASSUME NEW e \in Range(q) PROVE e \in Range(a) \cup Range(b)
    <3>1. PICK i \in 1..Len(q) : e = q[i]
      BY RangeIs
    <3>2. CASE i <= k
      <4>1. i \in 1..Len(a) /\ e = a[i]
        BY <3>1, <3>2, <1>0, <1>1
      <4> QED BY <4>1, <1>1, RangeIs
    <3>3. CASE i > k
      <4>1. i - k \in 1..Len(b) /\ e = b[i - k]
        BY <3>1, <3>3, <1>0, <1>2
      <4> QED BY <4>1, <1>2, RangeIs
    <3> QED BY <3>1, <3>2, <3>3, <1>0
  <2>2. ASSUME NEW e \in Range(a) PROVE e \in Range(q)
    <3>1. PICK i \in 1..Len(a) : e = a[i]
      BY <1>1, RangeIs
    <3>2. i \in 1..Len(q) /\ e = q[i]
      BY <3>1, <1>0, <1>1
    <3> QED BY <3>2, RangeIs
  <2>3. ASSUME NEW e \in Range(b) PROVE e \in Range(q)
    <3>1. PICK i \in 1..Len(b) : e = b[i]
      BY <1>2, RangeIs
    <3>2. k + i \in 1..Len(q) /\ e = q[k + i]
      BY <3>1, <1>0, <1>2
    <3> QED BY <3>2, RangeIs
  <2> QED BY <2>1, <2>2, <2>3
<1>4. ASSUME Increasing(q)
      PROVE  Increasing(a) /\ Increasing(b) /\ Before(a, b)
  <2>1. Increasing(a)
    BY <1>4, <1>0, <1>1 DEF Increasing
  <2>2. Increasing(b)
    <3> SUFFICES ASSUME NEW i \in 1..Len(b), NEW j \in 1..Len(b), i < j PROVE b[i] < b[j]
      BY DEF Increasing
    <3>1. k + i \in 1..Len(q) /\ k + j \in 1..Len(q) /\ k + i < k + j
      BY <1>0, <1>2
    <3> QED BY <3>1, <1>4, <1>2 DEF Increasing
  <2>3. Before(a, b)
    <3> SUFFICES ASSUME NEW e \in Range(a), NEW f \in Range(b) PROVE e < f
      BY DEF Before
    <3>1. PICK i \in 1..Len(a) : e = a[i]
      BY <1>1, RangeIs
    <3>2. PICK j \in 1..Len(b) : f = b[j]
      BY <1>2, RangeIs
    <3>3. i \in 1..Len(q) /\ k + j \in 1..Len(q) /\ i < k + j
      BY <1>0, <1>1, <1>2
    <3>4. e = q[i] /\ f = q[k + j]
      BY <3>1, <3>2, <1>1, <1>2
    <3> QED BY <3>3, <3>4, <1>4 DEF Increasing
  <2> QED BY <2>1, <2>2, <2>3
<1> QED BY <1>1, <1>2, <1>3, <1>4 DEF a, b

\* The queue after _trim_queue is the end of what it was, within the limit.
LEMMA TrimKeepsEnd ==
    ASSUME NEW q \in Seq(Events)
    PROVE  /\ Trim(q) \in Seq(Events)
           /\ Len(Trim(q)) <= MaxQueueSize
           /\ Range(Trim(q)) \subseteq Range(q)
           /\ Increasing(q) => Increasing(Trim(q))
<1> DEFINE D == {n \in 0..Len(q) :
                    \/ n = Len(q)
                    \/ /\ Len(q) - n <= MaxQueueSize
                       /\ Bytes(SubSeq(q, n + 1, Len(q))) <= MaxQueueBytes}
           d == Min(D)
<1>0. Len(q) \in Nat /\ MaxQueueSize \in Nat
  BY RangeIs, WebhookAssumption
<1>1. D \subseteq Nat /\ Len(q) \in D
  BY <1>0
<1>2. d \in D
  BY <1>1, MinMember
<1>3. d \in 0..Len(q) /\ Len(q) - d <= MaxQueueSize
  BY <1>2, <1>0
<1>4. Trim(q) = SubSeq(q, d + 1, Len(q))
  BY DEF Trim
<1> HIDE DEF d
<1> QED BY <1>0, <1>3, <1>4, TakeApart

\* _take_batch takes no more than there is, and no more than it was asked for.
LEMMA BatchFits ==
    ASSUME NEW q \in Seq(Events), NEW n \in Nat
    PROVE  BatchLen(q, n) \in 0..Len(q) /\ BatchLen(q, n) <= n
<1> DEFINE L == {Len(q), n, EventBufferSize}
           m == Min(L)
           K == {k \in 0..m : k <= 1 \/ 2 + Bytes(SubSeq(q, 1, k)) + k - 1 <= MaxBatchBytes}
<1>0. Len(q) \in Nat /\ EventBufferSize \in Nat
  BY RangeIs, WebhookAssumption
<1>1. L \subseteq Nat /\ L # {}
  BY <1>0
<1>2. m \in L /\ \A y \in L : m <= y
  BY <1>1, MinMember
<1>3. m \in Nat /\ m <= Len(q) /\ m <= n
  BY <1>1, <1>2
<1> HIDE DEF m
<1>4. 0 \in K /\ K \subseteq 0..m
  BY <1>3
<1>5. Max(K) \in 0..m
  BY <1>3, <1>4, MaxMember
<1>6. BatchLen(q, n) = Max(K)
  BY DEF BatchLen, m
<1> QED BY <1>0, <1>3, <1>5, <1>6

\* What taking a batch does to the queue.
LEMMA SendTakesApart ==
    ASSUME NEW q \in Seq(Events), NEW n \in Nat, SendBatch(q, n)
    PROVE  /\ batch' \in Seq(Events) /\ queue' \in Seq(Events)
           /\ Len(batch') \in Nat /\ Len(queue') \in Nat
           /\ Len(batch') <= n /\ Len(batch') + Len(queue') = Len(q)
           /\ Range(q) = Range(batch') \cup Range(queue')
           /\ Increasing(q) => Ordered'
           /\ remaining' = n /\ attempt' = 0 /\ req' = "sent"
<1> DEFINE k == BatchLen(q, n)
<1>1. k \in 0..Len(q) /\ k <= n /\ Len(q) \in Nat
  BY BatchFits, RangeIs
<1>2. /\ batch' = SubSeq(q, 1, k) /\ queue' = SubSeq(q, k + 1, Len(q))
      /\ remaining' = n /\ attempt' = 0 /\ req' = "sent"
  BY DEF SendBatch
<1> HIDE DEF k
<1>3. /\ batch' \in Seq(Events) /\ queue' \in Seq(Events)
      /\ Len(batch') = k /\ Len(queue') = Len(q) - k
      /\ Range(q) = Range(batch') \cup Range(queue')
      /\ Increasing(q) => Increasing(batch') /\ Increasing(queue') /\ Before(batch', queue')
  BY <1>1, <1>2, TakeApart
<1>4. Increasing(q) => Ordered'
  BY <1>3 DEF Ordered, Increasing, Before
<1>5. Len(batch') \in Nat /\ Len(queue') \in Nat /\ Len(batch') <= n /\ Len(batch') + Len(queue') = Len(q)
  BY <1>1, <1>3
<1> QED BY <1>2, <1>3, <1>4, <1>5

\* An event appended behind the earlier ones.
LEMMA AppendKeepsOrder ==
    ASSUME NEW q \in Seq(Events), NEW x \in Events
    PROVE  /\ Append(q, x) \in Seq(Events)
           /\ Range(Append(q, x)) = Range(q) \cup {x}
           /\ Increasing(q) /\ (\A e \in Range(q) : e < x) => Increasing(Append(q, x))
<1> DEFINE a == Append(q, x)
<1>0. Len(q) \in Nat /\ \A i \in 1..Len(q) : q[i] \in Range(q)
  BY RangeIs
<1>1. /\ a \in Seq(Events) /\ Len(a) = Len(q) + 1
      /\ \A i \in 1..Len(q) : a[i] = q[i]
      /\ a[Len(q) + 1] = x
  BY AppendProperties
<1> HIDE DEF a
<1>2. Range(a) = Range(q) \cup {x}
  <2>1. ASSUME NEW e \in Range(a) PROVE e \in Range(q) \cup {x}
    <3>1. PICK i \in 1..Len(a) : e = a[i]
      BY <1>1, RangeIs
    <3>2. i \in 1..Len(q) \/ i = Len(q) + 1
      BY <1>0, <1>1
    <3> QED BY <3>1, <3>2, <1>0, <1>1
  <2>2. ASSUME NEW e \in Range(q) PROVE e \in Range(a)
    <3>1. PICK i \in 1..Len(q) : e = q[i]
      BY RangeIs
    <3>2. i \in 1..Len(a) /\ e = a[i]
      BY <3>1, <1>0, <1>1
    <3> QED BY <3>2, <1>1, RangeIs
  <2>3. x \in Range(a)
    <3>1. Len(q) + 1 \in 1..Len(a)
      BY <1>0, <1>1
    <3> QED BY <3>1, <1>1, RangeIs
  <2> QED BY <2>1, <2>2, <2>3
<1>3. ASSUME Increasing(q), \A e \in Range(q) : e < x
      PROVE  Increasing(a)
  <2> SUFFICES ASSUME NEW i \in 1..Len(a), NEW j \in 1..Len(a), i < j PROVE a[i] < a[j]
    BY DEF Increasing
  <2>1. i \in 1..Len(q) /\ (j \in 1..Len(q) \/ j = Len(q) + 1)
    BY <1>0, <1>1
  <2> QED BY <2>1, <1>0, <1>1, <1>3 DEF Increasing
<1> QED BY <1>1, <1>2, <1>3 DEF a

\* A batch put back in front.
LEMMA ConcatKeepsOrder ==
    ASSUME NEW a \in Seq(Events), NEW b \in Seq(Events)
    PROVE  /\ a \o b \in Seq(Events)
           /\ Range(a \o b) = Range(a) \cup Range(b)
           /\ Increasing(a) /\ Increasing(b) /\ Before(a, b) => Increasing(a \o b)
<1> DEFINE c == a \o b
<1>0. /\ Len(a) \in Nat /\ \A i \in 1..Len(a) : a[i] \in Range(a)
      /\ Len(b) \in Nat /\ \A i \in 1..Len(b) : b[i] \in Range(b)
  BY RangeIs
<1>1. /\ c \in Seq(Events) /\ Len(c) = Len(a) + Len(b)
      /\ \A i \in 1..(Len(a) + Len(b)) : c[i] = IF i <= Len(a) THEN a[i] ELSE b[i - Len(a)]
  BY ConcatProperties
<1>2. Range(c) = Range(a) \cup Range(b)
  BY RangeConcatenation
<1> HIDE DEF c
<1>3. ASSUME Increasing(a), Increasing(b), Before(a, b)
      PROVE  Increasing(c)
  <2> SUFFICES ASSUME NEW i \in 1..Len(c), NEW j \in 1..Len(c), i < j PROVE c[i] < c[j]
    BY DEF Increasing
  <2>1. CASE j <= Len(a)
    <3>1. i \in 1..Len(a) /\ j \in 1..Len(a) /\ c[i] = a[i] /\ c[j] = a[j]
      BY <2>1, <1>0, <1>1
    <3> QED BY <3>1, <1>3 DEF Increasing
  <2>2. CASE i <= Len(a) /\ j > Len(a)
    <3>1. i \in 1..Len(a) /\ j - Len(a) \in 1..Len(b) /\ c[i] = a[i] /\ c[j] = b[j - Len(a)]
      BY <2>2, <1>0, <1>1
    <3>2. c[i] \in Range(a) /\ c[j] \in Range(b)
      BY <3>1, <1>0
    <3> QED BY <3>2, <1>3 DEF Before
  <2>3. CASE i > Len(a)
    <3>1. /\ i - Len(a) \in 1..Len(b) /\ j - Len(a) \in 1..Len(b) /\ i - Len(a) < j - Len(a)
          /\ c[i] = b[i - Len(a)] /\ c[j] = b[j - Len(a)]
      BY <2>3, <1>0, <1>1
    <3> QED BY <3>1, <1>3 DEF Increasing
  <2> QED BY <2>1, <2>2, <2>3, <1>0, <1>1
<1> QED BY <1>1, <1>2, <1>3 DEF c

\* A task that leaves the line leaves the others there.
LEMMA LeavesLine ==
    ASSUME NEW s \in Seq(Tasks), NEW p
    PROVE  Without(s, p) \in Seq(Tasks) /\ Range(Without(s, p)) \subseteq Range(s)
<1>0. Len(s) \in Nat /\ DOMAIN s = 1..Len(s) /\ \A i \in 1..Len(s) : s[i] \in Tasks
  OBVIOUS
<1>1. CASE \A i \in DOMAIN s : s[i] # p
  BY <1>1 DEF Without
<1>2. CASE ~ \A i \in DOMAIN s : s[i] # p
  <2> DEFINE pos == CHOOSE i \in DOMAIN s : s[i] = p
             w == [i \in 1..(Len(s) - 1) |-> IF i < pos THEN s[i] ELSE s[i + 1]]
  <2>1. pos \in 1..Len(s)
    BY <1>0, <1>2
  <2>2. Without(s, p) = w
    BY <1>2 DEF Without
  <2> HIDE DEF pos
  <2>3. Len(s) - 1 \in Nat /\ \A i \in 1..(Len(s) - 1) : i \in 1..Len(s) /\ i + 1 \in 1..Len(s)
    BY <1>0, <2>1
  <2>4. w \in Seq(Tasks)
    BY <1>0, <2>3
  <2>5. DOMAIN w = 1..(Len(s) - 1) /\ \A i \in 1..(Len(s) - 1) : w[i] \in Range(s)
    BY <1>0, <2>3 DEF Range
  <2> HIDE DEF w
  <2>6. Range(w) \subseteq Range(s)
    BY <2>5 DEF Range
  <2> QED BY <2>2, <2>4, <2>6
<1> QED BY <1>1, <1>2

\* The line after a task has joined it, and after its first task has left.
LEMMA LineMoves ==
    ASSUME NEW s \in Seq(Tasks)
    PROVE  /\ \A p \in Tasks : /\ Append(s, p) \in Seq(Tasks)
                               /\ Append(s, p) # <<>>
                               /\ Range(Append(s, p)) \subseteq Range(s) \cup {p}
           /\ s # <<>> => /\ Head(s) \in Tasks /\ Head(s) \in Range(s)
                          /\ Tail(s) \in Seq(Tasks)
                          /\ Range(Tail(s)) \subseteq Range(s)
<1>0. Len(s) \in Nat /\ DOMAIN s = 1..Len(s)
  OBVIOUS
<1>1. ASSUME NEW p \in Tasks
      PROVE  /\ Append(s, p) \in Seq(Tasks)
             /\ Append(s, p) # <<>>
             /\ Range(Append(s, p)) \subseteq Range(s) \cup {p}
  <2> DEFINE a == Append(s, p)
  <2>1. /\ a \in Seq(Tasks) /\ a # <<>> /\ Len(a) = Len(s) + 1
        /\ \A i \in 1..Len(s) : a[i] = s[i]
        /\ a[Len(s) + 1] = p
    BY AppendProperties
  <2> HIDE DEF a
  <2>2. DOMAIN a = 1..(Len(s) + 1)
    BY <2>1
  <2>3. \A i \in DOMAIN a : a[i] \in Range(s) \cup {p}
    <3> TAKE i \in DOMAIN a
    <3>1. i \in 1..Len(s) \/ i = Len(s) + 1
      BY <2>2, <1>0
    <3> QED BY <3>1, <2>1, <1>0 DEF Range
  <2>4. Range(a) \subseteq Range(s) \cup {p}
    BY <2>3 DEF Range
  <2> QED BY <2>1, <2>4 DEF a
<1>2. ASSUME s # <<>>
      PROVE  /\ Head(s) \in Tasks /\ Head(s) \in Range(s)
             /\ Tail(s) \in Seq(Tasks)
             /\ Range(Tail(s)) \subseteq Range(s)
  <2>1. Len(s) # 0 /\ Head(s) = s[1]
    BY <1>2
  <2>2. Head(s) \in Range(s)
    BY <2>1, <1>0 DEF Range
  <2>3. /\ Head(s) \in Tasks /\ Tail(s) \in Seq(Tasks) /\ Len(Tail(s)) = Len(s) - 1
        /\ \A i \in 1..Len(Tail(s)) : Tail(s)[i] = s[i + 1]
    BY <1>2, HeadTailProperties
  <2>4. DOMAIN Tail(s) = 1..(Len(s) - 1)
    BY <2>3
  <2>5. \A i \in DOMAIN Tail(s) : Tail(s)[i] \in Range(s)
    <3> TAKE i \in DOMAIN Tail(s)
    <3>1. i + 1 \in DOMAIN s /\ Tail(s)[i] = s[i + 1]
      BY <2>3, <2>4, <1>0
    <3> QED BY <3>1 DEF Range
  <2>6. Range(Tail(s)) \subseteq Range(s)
    BY <2>5 DEF Range
  <2> QED BY <2>2, <2>3, <2>6
<1> QED BY <1>1, <1>2

-----------------------------------------------------------------------------
(* What the steps have in common.                                          *)

\* Nothing unsettled comes before the batch that is being posted.
LEMMA BatchExplained ==
    ASSUME Inv
    PROVE  \A e \in Range(batch) : \A f \in 1..e : f \in Settled \cup Range(batch)
<1> SUFFICES ASSUME NEW e \in Range(batch), NEW f \in 1..e
             PROVE  f \in Settled \cup Range(batch)
  OBVIOUS
<1>1. published \in Nat /\ e \in 1..published
  BY WebhookAssumption DEF Inv, TypeOK, Accounted
<1>2. f \in 1..published
  BY <1>1
<1>3. f \notin Range(queue)
  <2>1. ~(e < f)
    BY <1>1
  <2> QED BY <2>1 DEF Inv, Ordered, Before
<1> QED BY <1>2, <1>3 DEF Inv, Accounted

\* What is settled stays so; a batch that fails joins the ones that may come late.
LEMMA LateKept ==
    ASSUME Inv, Settled \subseteq Settled', late' \subseteq late \cup {batch},
           1..published \subseteq 1..published'
    PROVE  LateExplained'
<1> SUFFICES ASSUME NEW b \in late'
             PROVE  /\ Range(b) \subseteq 1..published
                    /\ \A e \in Range(b) : \A f \in 1..e : f \in Settled \cup Range(b)
  BY DEF LateExplained
<1>1. CASE b \in late
  BY <1>1 DEF Inv, LateExplained
<1>2. CASE b = batch
  <2>1. Range(b) \subseteq 1..published
    BY <1>2 DEF Inv, Accounted
  <2> QED BY <1>2, <2>1, BatchExplained
<1> QED BY <1>1, <1>2

LEMMA GapsKept ==
    ASSUME Inv, Settled \subseteq Settled', received' = received
    PROVE  GapsExplained'
BY DEF Inv, GapsExplained

\* A batch is taken from a queue q and sent.
LEMMA Sends ==
    ASSUME Inv, NEW q \in Seq(Events), Increasing(q), Len(q) <= MaxQueueSize,
           NEW n \in 0..MaxQueueSize, SendBatch(q, n), holder' \in Tasks
    PROVE  /\ batch' \in Seq(Events) /\ queue' \in Seq(Events)
           /\ Range(q) = Range(batch') \cup Range(queue')
           /\ Len(queue') + Len(batch') = Len(q)
           /\ remaining' = n /\ remaining' \in 0..MaxQueueSize
           /\ attempt' \in 0..NumRetries /\ req' = "sent"
           /\ Ordered' /\ PostSound'
<1>0. n \in Nat /\ MaxQueueSize \in Nat /\ NumRetries \in Nat /\ Len(q) \in Nat /\ None \notin Tasks
  BY WebhookAssumption
<1>1. /\ batch' \in Seq(Events) /\ queue' \in Seq(Events)
      /\ Len(batch') \in Nat /\ Len(queue') \in Nat
      /\ Len(batch') <= n /\ Len(batch') + Len(queue') = Len(q)
      /\ Range(q) = Range(batch') \cup Range(queue')
      /\ Ordered'
      /\ remaining' = n /\ attempt' = 0 /\ req' = "sent"
  BY <1>0, SendTakesApart
<1>2. PostSound'
  <2>1. holder' # None
    BY <1>0
  <2>2. Len(batch') <= remaining' /\ Len(queue') <= MaxQueueSize
    BY <1>0, <1>1
  <2> QED BY <1>1, <2>1, <2>2 DEF PostSound
<1>3. Len(queue') + Len(batch') = Len(q) /\ attempt' \in 0..NumRetries
  BY <1>0, <1>1
<1> QED BY <1>1, <1>2, <1>3

\* A queue that could be the one in the state.
Fits(q) == q \in Seq(Events) /\ Increasing(q) /\ Len(q) <= MaxQueueSize /\ Before(batch, q)

\* _post_events: the lock and a batch, or a place in the line.
LEMMA Posts ==
    ASSUME Inv, NEW q, Fits(q), NEW p \in Tasks, NEW ws \in Seq(Tasks), NEW t,
           PostEvents(p, q, ws, t), received' = received
    PROVE  /\ batch' \in Seq(Events) /\ queue' \in Seq(Events)
           /\ holder' \in Tasks \cup {None} /\ waiters' \in Seq(Tasks)
           /\ remaining' \in 0..MaxQueueSize /\ attempt' \in 0..NumRetries
           /\ req' \in {"none", "sent", "served", "wait"}
           /\ Range(batch') \cup Range(queue') = Range(batch) \cup Range(q)
           /\ Ordered' /\ PostSound'
           /\ timer' = t /\ Range(waiters') \subseteq Range(ws) \cup {p}
           /\ \/ holder' = p /\ Len(queue') + Len(batch') <= remaining'
              \/ /\ holder' = holder /\ waiters' # <<>>
                 /\ queue' = q /\ batch' = batch /\ remaining' = remaining
<1>0. Len(q) \in 0..MaxQueueSize /\ MaxQueueSize \in Nat
  BY WebhookAssumption DEF Fits
<1>1. CASE holder = None /\ ws = <<>>
  <2>1. holder' = p /\ SendBatch(q, Len(q)) /\ waiters' = ws /\ timer' = t
    BY <1>1 DEF PostEvents
  <2>2. /\ batch' \in Seq(Events) /\ queue' \in Seq(Events)
        /\ Range(q) = Range(batch') \cup Range(queue')
        /\ Len(queue') + Len(batch') = Len(q)
        /\ remaining' = Len(q) /\ remaining' \in 0..MaxQueueSize
        /\ attempt' \in 0..NumRetries /\ req' = "sent"
        /\ Ordered' /\ PostSound'
    <3>1. holder' \in Tasks
      BY <2>1
    <3>2. q \in Seq(Events) /\ Increasing(q) /\ Len(q) <= MaxQueueSize
      BY DEF Fits
    <3> QED BY <3>1, <3>2, <2>1, <1>0, Sends
  <2>3. Range(batch) = {}
    BY <1>1 DEF Inv, PostSound, Range
  <2>4. Len(queue') + Len(batch') <= remaining'
    BY <2>2, <1>0
  <2> QED BY <2>1, <2>2, <2>3, <2>4
<1>2. CASE ~(holder = None /\ ws = <<>>)
  <2>1. /\ queue' = q /\ waiters' = Append(ws, p) /\ timer' = t
        /\ holder' = holder /\ batch' = batch /\ remaining' = remaining
        /\ attempt' = attempt /\ req' = req
    BY <1>2 DEF PostEvents, postVars
  <2>2. waiters' \in Seq(Tasks) /\ waiters' # <<>> /\ Range(waiters') \subseteq Range(ws) \cup {p}
    BY <2>1, LineMoves
  <2>3. /\ batch' \in Seq(Events) /\ queue' \in Seq(Events)
        /\ holder' \in Tasks \cup {None}
        /\ remaining' \in 0..MaxQueueSize /\ attempt' \in 0..NumRetries
        /\ req' \in {"none", "sent", "served", "wait"}
    BY <2>1 DEF Inv, TypeOK, Fits
  <2>4. Ordered'
    BY <2>1 DEF Inv, Ordered, Fits, Increasing, Before
  <2>5. PostSound'
    BY <2>1 DEF Inv, PostSound, Fits
  <2> QED BY <2>1, <2>2, <2>3, <2>4, <2>5
<1> QED BY <1>1, <1>2

-----------------------------------------------------------------------------
(* Every step keeps the invariant.                                         *)

\* __call__
LEMMA PublishKeeps ==
    ASSUME Inv, Publish
    PROVE  Inv'
<1> DEFINE x == published'
           all == Append(queue, x)
           q == Trim(all)
<1>0. /\ published \in 0..MaxEvents /\ MaxEvents \in Nat /\ MaxQueueSize \in Nat
      /\ queue \in Seq(Events) /\ batch \in Seq(Events) /\ waiters \in Seq(Tasks)
      /\ Timer \notin Events /\ Closer \notin Events /\ None \notin Tasks
  BY WebhookAssumption DEF Inv, TypeOK
<1>1. /\ x = published + 1 /\ published < MaxEvents
      /\ dropped' = dropped \cup (Range(all) \ Range(q))
      /\ \/ /\ Full(q) /\ holder = None
            /\ PostEvents(x, q, Without(waiters, Timer), "none")
         \/ /\ ~(Full(q) /\ holder = None)
            /\ queue' = q /\ timer' = IF q = <<>> THEN timer ELSE Started
            /\ UNCHANGED <<holder, waiters, postVars>>
      /\ UNCHANGED <<closed, netVars>>
  BY DEF Publish
<1>2. /\ closed' = closed /\ late' = late /\ received' = received
      /\ cut' = cut /\ fails' = fails
  BY <1>1 DEF netVars
<1>3. x \in Events /\ x \in 1..MaxEvents /\ 1..x = 1..published \cup {x}
  BY <1>0, <1>1 DEF Events
<1>4. \A e \in Range(batch) \cup Range(queue) : e < x
  <2>1. Range(batch) \cup Range(queue) \subseteq 1..published
    BY DEF Inv, Accounted
  <2> QED BY <2>1, <1>0, <1>1
<1>5. /\ all \in Seq(Events) /\ Range(all) = Range(queue) \cup {x}
      /\ Increasing(all)
  BY <1>0, <1>3, <1>4, AppendKeepsOrder DEF Inv, Ordered
<1>6. /\ q \in Seq(Events) /\ Len(q) <= MaxQueueSize /\ Increasing(q)
      /\ Range(q) \subseteq Range(queue) \cup {x}
  BY <1>5, TrimKeepsEnd
<1>7. Fits(q)
  <2>1. Before(batch, q)
    BY <1>4, <1>6 DEF Inv, Ordered, Before
  <2> QED BY <1>6, <2>1 DEF Fits
<1>8. dropped' = dropped \cup ((Range(queue) \cup {x}) \ Range(q))
  BY <1>1, <1>5
<1> HIDE DEF q, all, x
<1>9. Settled \subseteq Settled' /\ dropped' \subseteq Events
  <2>1. Range(queue) \subseteq Events /\ dropped \subseteq Events
    BY <1>0, RangeIs DEF Inv, TypeOK
  <2> QED BY <2>1, <1>2, <1>3, <1>8 DEF Settled
<1>10. LateExplained' /\ GapsExplained'
  <2>1. 1..published \subseteq 1..published'
    BY <1>3 DEF x
  <2> QED BY <2>1, <1>2, <1>9, LateKept, GapsKept
<1>11. ASSUME Range(batch') \cup Range(queue') = Range(batch) \cup Range(q)
       PROVE  Accounted'
  <2>1. 1..published = Settled \cup Range(batch) \cup Range(queue)
    BY DEF Inv, Accounted
  <2>2. Settled' = Settled \cup ((Range(queue) \cup {x}) \ Range(q))
    BY <1>2, <1>8 DEF Settled
  <2>3. 1..x = Settled' \cup Range(batch) \cup Range(q)
    BY <2>1, <2>2, <1>3, <1>6
  <2> QED BY <2>3, <1>11 DEF Accounted, x
<1>12. CASE Full(q) /\ holder = None /\ PostEvents(x, q, Without(waiters, Timer), "none")
  <2>0. x \in Tasks /\ Without(waiters, Timer) \in Seq(Tasks)
        /\ Range(Without(waiters, Timer)) \subseteq Range(waiters)
    BY <1>0, <1>3, LeavesLine DEF Tasks
  <2>1. /\ batch' \in Seq(Events) /\ queue' \in Seq(Events)
        /\ holder' \in Tasks \cup {None} /\ waiters' \in Seq(Tasks)
        /\ remaining' \in 0..MaxQueueSize /\ attempt' \in 0..NumRetries
        /\ req' \in {"none", "sent", "served", "wait"}
        /\ Range(batch') \cup Range(queue') = Range(batch) \cup Range(q)
        /\ Ordered' /\ PostSound'
        /\ timer' = "none" /\ Range(waiters') \subseteq Range(Without(waiters, Timer)) \cup {x}
        /\ \/ holder' = x /\ Len(queue') + Len(batch') <= remaining'
           \/ /\ holder' = holder /\ waiters' # <<>>
              /\ queue' = q /\ batch' = batch /\ remaining' = remaining
    BY <1>12, <1>2, <1>7, <2>0, Posts
  <2>2. TypeOK'
    BY <2>1, <1>0, <1>2, <1>3, <1>9 DEF Inv, TypeOK, x
  <2>3. Tended'
    <3>1. (holder' = Closer \/ Closer \in Range(waiters')) => closed'
      BY <2>0, <2>1, <1>0, <1>2, <1>3, <1>12 DEF Inv, Tended, Tasks
    <3>2. holder' # Timer
      BY <2>1, <1>0, <1>3, <1>12 DEF Tasks
    <3>3. holder' \in Events => Len(queue') + Len(batch') <= remaining'
      BY <2>1, <1>0, <1>12 DEF Tasks
    <3> QED BY <3>1, <3>2, <3>3 DEF Tended
  <2> QED BY <2>1, <2>2, <2>3, <1>10, <1>11 DEF Inv
<1>13. CASE /\ queue' = q /\ timer' = IF q = <<>> THEN timer ELSE Started
            /\ UNCHANGED <<holder, waiters, postVars>>
  <2>1. /\ holder' = holder /\ waiters' = waiters /\ batch' = batch /\ remaining' = remaining
        /\ attempt' = attempt /\ req' = req /\ queue' = q
        /\ timer' = IF q = <<>> THEN timer ELSE Started
    BY <1>13 DEF postVars
  <2>2. timer' \in {"none", "sleep", "flush"}
    BY <2>1 DEF Inv, TypeOK, Started
  <2>3. TypeOK'
    BY <2>1, <2>2, <1>2, <1>3, <1>6, <1>9 DEF Inv, TypeOK, x
  <2>4. Accounted'
    BY <2>1, <1>11
  <2>5. Ordered'
    BY <2>1, <1>7 DEF Inv, Ordered, Fits, Increasing, Before
  <2>6. PostSound'
    BY <2>1, <1>2, <1>6 DEF Inv, PostSound
  <2>7. Tended'
    <3>1. (holder' = Closer \/ Closer \in Range(waiters')) => closed'
      BY <2>1, <1>2 DEF Inv, Tended
    <3>2. ~closed' /\ holder' = Timer => timer' = "flush"
      BY <2>1, <1>2 DEF Inv, Tended, Started
    <3>3. ASSUME ~closed', holder' \in Events, timer' = "none"
          PROVE  Len(queue') + Len(batch') <= remaining'
      <4>1. q = <<>>
        BY <3>3, <2>1, <1>2 DEF Started
      <4>2. Len(queue') = 0
        BY <4>1, <2>1
      <4>3. Len(batch) <= remaining /\ Len(batch) \in Nat /\ remaining \in Int
        BY <1>0, RangeIs DEF Inv, PostSound, TypeOK
      <4> QED BY <4>2, <4>3, <2>1
    <3> QED BY <3>1, <3>2, <3>3 DEF Tended
  <2> QED BY <2>3, <2>4, <2>5, <2>6, <2>7, <1>10 DEF Inv
<1> QED BY <1>1, <1>12, <1>13

\* _flush_after_delay
LEMMA TimerFiresKeeps ==
    ASSUME Inv, TimerFires
    PROVE  Inv'
<1>0. /\ queue \in Seq(Events) /\ batch \in Seq(Events) /\ waiters \in Seq(Tasks)
      /\ Timer \notin Events /\ Closer # Timer /\ Timer \in Tasks
  BY WebhookAssumption DEF Inv, TypeOK, Tasks
<1>1. /\ timer = "sleep"
      /\ published' = published /\ closed' = closed /\ dropped' = dropped
      /\ late' = late /\ received' = received /\ cut' = cut /\ fails' = fails
  BY DEF TimerFires, netVars
<1>2. Settled' = Settled
  BY <1>1 DEF Settled
<1>3. LateExplained' /\ GapsExplained'
  BY <1>1, <1>2, LateKept, GapsKept
<1>4. CASE queue = <<>>
  <2>1. /\ timer' = "none" /\ queue' = queue /\ holder' = holder /\ waiters' = waiters
        /\ batch' = batch /\ remaining' = remaining /\ attempt' = attempt /\ req' = req
    BY <1>4 DEF TimerFires, postVars
  <2>2. TypeOK'
    BY <1>1, <2>1 DEF Inv, TypeOK
  <2>3. Accounted' /\ Ordered' /\ PostSound'
    BY <1>1, <1>2, <2>1 DEF Inv, Accounted, Ordered, PostSound
  <2>4. Tended'
    <3>1. Len(queue) = 0 /\ Len(batch) <= remaining /\ Len(batch) \in Nat /\ remaining \in Int
      BY <1>0, <1>4, RangeIs DEF Inv, PostSound, TypeOK
    <3>2. ~(~closed /\ holder = Timer)
      BY <1>1 DEF Inv, Tended
    <3>3. Len(queue') + Len(batch') <= remaining'
      BY <3>1, <2>1
    <3>4. (holder' = Closer \/ Closer \in Range(waiters')) => closed'
      BY <1>1, <2>1 DEF Inv, Tended
    <3> QED BY <3>2, <3>3, <3>4, <2>1, <1>1 DEF Tended
  <2> QED BY <2>2, <2>3, <2>4, <1>3 DEF Inv
<1>5. CASE queue # <<>>
  <2>0. Fits(queue) /\ PostEvents(Timer, queue, waiters, "flush")
    BY <1>0, <1>5 DEF TimerFires, Fits, Inv, Ordered, PostSound
  <2>1. /\ batch' \in Seq(Events) /\ queue' \in Seq(Events)
        /\ holder' \in Tasks \cup {None} /\ waiters' \in Seq(Tasks)
        /\ remaining' \in 0..MaxQueueSize /\ attempt' \in 0..NumRetries
        /\ req' \in {"none", "sent", "served", "wait"}
        /\ Range(batch') \cup Range(queue') = Range(batch) \cup Range(queue)
        /\ Ordered' /\ PostSound'
        /\ timer' = "flush" /\ Range(waiters') \subseteq Range(waiters) \cup {Timer}
        /\ \/ holder' = Timer /\ Len(queue') + Len(batch') <= remaining'
           \/ /\ holder' = holder /\ waiters' # <<>>
              /\ queue' = queue /\ batch' = batch /\ remaining' = remaining
    BY <1>0, <1>1, <2>0, Posts
  <2>2. TypeOK'
    BY <1>1, <2>1 DEF Inv, TypeOK
  <2>3. Accounted'
    BY <1>1, <1>2, <2>1 DEF Inv, Accounted
  <2>4. Tended'
    BY <1>0, <1>1, <2>1 DEF Inv, Tended
  <2> QED BY <2>1, <2>2, <2>3, <2>4, <1>3 DEF Inv
<1> QED BY <1>4, <1>5

\* The lock goes to the first task in the line.
LEMMA WakeUpKeeps ==
    ASSUME Inv, WakeUp
    PROVE  Inv'
<1> DEFINE p == Head(waiters)
<1>0. /\ queue \in Seq(Events) /\ batch \in Seq(Events) /\ waiters \in Seq(Tasks)
      /\ Timer \notin Events /\ Closer # Timer /\ None \notin Tasks
      /\ MaxQueueSize \in Nat /\ Len(queue) \in 0..MaxQueueSize
  BY WebhookAssumption DEF Inv, TypeOK, PostSound
<1>1. /\ holder = None /\ waiters # <<>> /\ waiters' = Tail(waiters)
      /\ Enter(p, queue, Tail(waiters))
      /\ published' = published /\ closed' = closed /\ dropped' = dropped
      /\ late' = late /\ received' = received /\ cut' = cut /\ fails' = fails
  BY DEF WakeUp, Enter, netVars
<1>2. /\ p \in Tasks /\ p \in Range(waiters) /\ waiters' \in Seq(Tasks)
      /\ Range(waiters') \subseteq Range(waiters)
  BY <1>0, <1>1, LineMoves
<1> HIDE DEF p
<1>3. Settled' = Settled
  BY <1>1 DEF Settled
<1>4. LateExplained' /\ GapsExplained'
  BY <1>1, <1>3, LateKept, GapsKept
<1>5. CASE queue = <<>>
  <2>1. /\ queue' = queue /\ holder' = holder
        /\ batch' = batch /\ remaining' = remaining /\ attempt' = attempt /\ req' = req
        /\ EndTask(p, queue)
    BY <1>1, <1>5 DEF Enter, postVars
  <2>2. timer' \in {"none", "sleep", "flush"}
    BY <2>1 DEF EndTask, Inv, TypeOK
  <2>3. TypeOK'
    BY <1>1, <1>2, <2>1, <2>2 DEF Inv, TypeOK
  <2>4. Accounted' /\ Ordered' /\ PostSound'
    BY <1>1, <1>3, <2>1 DEF Inv, Accounted, Ordered, PostSound
  <2>5. Tended'
    BY <1>0, <1>1, <1>2, <2>1 DEF Inv, Tended, Tasks
  <2> QED BY <2>3, <2>4, <2>5, <1>4 DEF Inv
<1>6. CASE queue # <<>>
  <2>1. /\ holder' = p /\ SendBatch(queue, Len(queue))
        /\ timer' = IF p = Timer THEN "flush" ELSE timer
    BY <1>1, <1>6 DEF Enter
  <2>2. holder' \in Tasks /\ Increasing(queue) /\ Len(queue) <= MaxQueueSize
    BY <1>2, <2>1 DEF Inv, Ordered, PostSound
  <2>3. /\ batch' \in Seq(Events) /\ queue' \in Seq(Events)
        /\ Range(queue) = Range(batch') \cup Range(queue')
        /\ Len(queue') + Len(batch') = Len(queue)
        /\ remaining' = Len(queue) /\ remaining' \in 0..MaxQueueSize
        /\ attempt' \in 0..NumRetries /\ req' = "sent"
        /\ Ordered' /\ PostSound'
    BY <1>0, <2>1, <2>2, Sends
  <2>4. TypeOK'
    BY <1>1, <1>2, <2>1, <2>2, <2>3 DEF Inv, TypeOK
  <2>5. Accounted'
    <3>1. Range(batch) = {}
      BY <1>1 DEF Inv, PostSound, Range
    <3> QED BY <3>1, <1>1, <1>3, <2>3 DEF Inv, Accounted
  <2>6. Tended'
    <3>1. Len(queue') + Len(batch') <= remaining'
      BY <1>0, <2>3
    <3>2. (holder' = Closer \/ Closer \in Range(waiters')) => closed'
      BY <1>1, <1>2, <2>1 DEF Inv, Tended
    <3>3. holder' = Timer => timer' = "flush"
      BY <2>1
    <3> QED BY <3>1, <3>2, <3>3 DEF Tended
  <2> QED BY <2>3, <2>4, <2>5, <2>6, <1>4 DEF Inv
<1> QED BY <1>5, <1>6

\* close()
LEMMA CloseKeeps ==
    ASSUME Inv, Close
    PROVE  Inv'
<1> DEFINE ws == Without(waiters, Timer)
<1>0. /\ queue \in Seq(Events) /\ batch \in Seq(Events) /\ waiters \in Seq(Tasks)
      /\ Closer \in Tasks
  BY DEF Inv, TypeOK, Tasks
<1>1. /\ closed' = TRUE /\ published' = published /\ dropped' = dropped
      /\ late' = late /\ received' = received /\ cut' = cut /\ fails' = fails
  BY DEF Close, netVars
<1>2. ws \in Seq(Tasks)
  BY <1>0, LeavesLine
<1>3. Settled' = Settled
  BY <1>1 DEF Settled
<1>4. LateExplained' /\ GapsExplained'
  BY <1>1, <1>3, LateKept, GapsKept
<1>5. Tended'
  BY <1>1 DEF Tended
<1>6. CASE queue = <<>>
  <2>1. /\ timer' = "none" /\ waiters' = ws /\ queue' = queue /\ holder' = holder
        /\ batch' = batch /\ remaining' = remaining /\ attempt' = attempt /\ req' = req
    BY <1>6 DEF Close, postVars
  <2>2. TypeOK'
    BY <1>1, <1>2, <2>1 DEF Inv, TypeOK
  <2>3. Accounted' /\ Ordered' /\ PostSound'
    BY <1>1, <1>3, <2>1 DEF Inv, Accounted, Ordered, PostSound
  <2> QED BY <2>2, <2>3, <1>4, <1>5 DEF Inv
<1>7. CASE queue # <<>>
  <2>0. Fits(queue) /\ PostEvents(Closer, queue, ws, "none")
    BY <1>0, <1>7 DEF Close, Fits, Inv, Ordered, PostSound
  <2>1. /\ batch' \in Seq(Events) /\ queue' \in Seq(Events)
        /\ holder' \in Tasks \cup {None} /\ waiters' \in Seq(Tasks)
        /\ remaining' \in 0..MaxQueueSize /\ attempt' \in 0..NumRetries
        /\ req' \in {"none", "sent", "served", "wait"}
        /\ Range(batch') \cup Range(queue') = Range(batch) \cup Range(queue)
        /\ Ordered' /\ PostSound' /\ timer' = "none"
    BY <1>0, <1>1, <1>2, <2>0, Posts
  <2>2. TypeOK'
    BY <1>1, <2>1 DEF Inv, TypeOK
  <2>3. Accounted'
    BY <1>1, <1>3, <2>1 DEF Inv, Accounted
  <2> QED BY <2>1, <2>2, <2>3, <1>4, <1>5 DEF Inv
<1> QED BY <1>6, <1>7

\* The state of _post_lock and of the post after its end.
LEMMA PostEnds ==
    ASSUME EndPost
    PROVE  /\ holder' = None /\ batch' = <<>> /\ remaining' = 0 /\ attempt' = 0 /\ req' = "none"
           /\ batch' \in Seq(Events) /\ Len(batch') = 0 /\ Range(batch') = {}
           /\ remaining' \in 0..MaxQueueSize /\ attempt' \in 0..NumRetries
BY WebhookAssumption DEF EndPost, Range

\* Nobody looks after the queue while nobody posts, and no promise is made.
LEMMA TendedAtEnd ==
    ASSUME Inv, holder' = None, waiters' = waiters, closed' = closed
    PROVE  Tended'
BY WebhookAssumption DEF Inv, Tended, Tasks

\* The timer that close() cancelled leaves.
LEMMA CancelledKeeps ==
    ASSUME Inv, Cancelled
    PROVE  Inv'
<1>1. /\ cut' = cut \cup Range(batch)
      /\ late' = IF req = "sent" THEN late \cup {batch} ELSE late
      /\ published' = published /\ queue' = queue /\ timer' = timer /\ closed' = closed
      /\ waiters' = waiters /\ received' = received /\ dropped' = dropped /\ fails' = fails
  BY DEF Cancelled
<1>2. /\ holder' = None /\ batch' = <<>> /\ remaining' = 0 /\ attempt' = 0 /\ req' = "none"
      /\ batch' \in Seq(Events) /\ Len(batch') = 0 /\ Range(batch') = {}
      /\ remaining' \in 0..MaxQueueSize /\ attempt' \in 0..NumRetries
  BY PostEnds DEF Cancelled
<1>3. Range(batch) \subseteq Events
  BY RangeIs DEF Inv, TypeOK
<1>4. TypeOK'
  BY <1>1, <1>2, <1>3 DEF Inv, TypeOK
<1>5. Settled' = Settled \cup Range(batch)
  BY <1>1 DEF Settled
<1>6. Accounted'
  BY <1>1, <1>2, <1>5 DEF Inv, Accounted
<1>7. LateExplained' /\ GapsExplained'
  BY <1>1, <1>5, LateKept, GapsKept
<1>8. Ordered'
  BY <1>1, <1>2 DEF Inv, Ordered, Increasing, Before
<1>9. PostSound'
  BY <1>1, <1>2 DEF Inv, PostSound
<1>10. Tended'
  BY <1>1, <1>2, TendedAtEnd
<1> QED BY <1>4, <1>6, <1>7, <1>8, <1>9, <1>10 DEF Inv

\* The webhook processes the request of the post.
LEMMA ServeKeeps ==
    ASSUME Inv, Serve
    PROVE  Inv'
<1>1. /\ req' = "served" /\ received' = received \cup Range(batch)
      /\ published' = published /\ queue' = queue /\ timer' = timer /\ closed' = closed
      /\ holder' = holder /\ waiters' = waiters /\ batch' = batch /\ remaining' = remaining
      /\ attempt' = attempt /\ late' = late /\ dropped' = dropped /\ cut' = cut /\ fails' = fails
  BY DEF Serve
<1>2. Range(batch) \subseteq Events
  BY RangeIs DEF Inv, TypeOK
<1>3. TypeOK'
  BY <1>1, <1>2 DEF Inv, TypeOK
<1>4. Settled' = Settled \cup Range(batch)
  BY <1>1 DEF Settled
<1>5. Accounted'
  BY <1>1, <1>4 DEF Inv, Accounted
<1>6. LateExplained'
  BY <1>1, <1>4, LateKept
<1>7. GapsExplained'
  <2> SUFFICES ASSUME NEW e \in received', NEW f \in 1..e PROVE f \in Settled'
    BY DEF GapsExplained
  <2>1. CASE e \in received
    BY <2>1, <1>4 DEF Inv, GapsExplained
  <2>2. CASE e \in Range(batch)
    BY <2>2, <1>4, BatchExplained
  <2> QED BY <2>1, <2>2, <1>1
<1>8. Ordered' /\ PostSound' /\ Tended'
  BY <1>1 DEF Inv, Ordered, PostSound, Tended
<1> QED BY <1>3, <1>5, <1>6, <1>7, <1>8 DEF Inv

\* It processes a request after its sender has given up on it.
LEMMA ServeLateKeeps ==
    ASSUME Inv, ServeLate
    PROVE  Inv'
<1>1. PICK b \in late : received' = received \cup Range(b) /\ late' = late \ {b}
  BY DEF ServeLate
<1>2. /\ published' = published /\ queue' = queue /\ timer' = timer /\ closed' = closed
      /\ holder' = holder /\ waiters' = waiters /\ batch' = batch /\ remaining' = remaining
      /\ attempt' = attempt /\ req' = req /\ dropped' = dropped /\ cut' = cut /\ fails' = fails
  BY DEF ServeLate, postVars
<1>3. b \in Seq(Events) /\ Range(b) \subseteq Events
  BY <1>1, RangeIs DEF Inv, TypeOK
<1>4. TypeOK'
  BY <1>1, <1>2, <1>3 DEF Inv, TypeOK
<1>5. Settled' = Settled \cup Range(b)
  BY <1>1, <1>2 DEF Settled
<1>6. /\ Range(b) \subseteq 1..published
      /\ \A e \in Range(b) : \A f \in 1..e : f \in Settled'
  BY <1>1, <1>5 DEF Inv, LateExplained
<1>7. Accounted'
  BY <1>2, <1>5, <1>6 DEF Inv, Accounted
<1>8. LateExplained'
  BY <1>1, <1>2, <1>5, LateKept
<1>9. GapsExplained'
  <2> SUFFICES ASSUME NEW e \in received', NEW f \in 1..e PROVE f \in Settled'
    BY DEF GapsExplained
  <2>1. CASE e \in received
    BY <2>1, <1>5 DEF Inv, GapsExplained
  <2>2. CASE e \in Range(b)
    BY <2>2, <1>6
  <2> QED BY <2>1, <2>2, <1>1
<1>10. Ordered' /\ PostSound' /\ Tended'
  BY <1>1, <1>2 DEF Inv, Ordered, PostSound, Tended
<1> QED BY <1>4, <1>7, <1>8, <1>9, <1>10 DEF Inv

\* The answer has come: the next batch, or the end of the post.
LEMMA PostOkKeeps ==
    ASSUME Inv, PostOk
    PROVE  Inv'
<1>0. /\ queue \in Seq(Events) /\ batch \in Seq(Events) /\ None \notin Tasks
      /\ MaxQueueSize \in Nat /\ remaining \in 0..MaxQueueSize /\ Len(batch) \in Nat
      /\ Len(queue) \in Nat /\ Len(queue) <= MaxQueueSize /\ Increasing(queue)
      /\ Len(batch) <= remaining
  BY WebhookAssumption, RangeIs DEF Inv, TypeOK, PostSound, Ordered
<1>1. /\ holder # None /\ req = "served"
      /\ published' = published /\ closed' = closed /\ waiters' = waiters /\ dropped' = dropped
      /\ late' = late /\ received' = received /\ cut' = cut /\ fails' = fails
  BY DEF PostOk, Posting, netVars
<1>2. Settled' = Settled /\ Range(batch) \subseteq Settled
  BY <1>1 DEF Settled, Inv, PostSound
<1>3. LateExplained' /\ GapsExplained'
  BY <1>1, <1>2, LateKept, GapsKept
<1>4. CASE remaining > Len(batch)
  <2> DEFINE n == remaining - Len(batch)
  <2>1. SendBatch(queue, n) /\ timer' = timer /\ holder' = holder
    BY <1>4 DEF PostOk
  <2>2. n \in 0..MaxQueueSize /\ holder' \in Tasks
    BY <1>0, <1>1, <1>4, <2>1 DEF Inv, TypeOK
  <2> HIDE DEF n
  <2>3. /\ batch' \in Seq(Events) /\ queue' \in Seq(Events)
        /\ Range(queue) = Range(batch') \cup Range(queue')
        /\ Len(queue') + Len(batch') = Len(queue)
        /\ remaining' = n /\ remaining' \in 0..MaxQueueSize
        /\ attempt' \in 0..NumRetries /\ req' = "sent"
        /\ Ordered' /\ PostSound'
    BY <1>0, <2>1, <2>2, Sends
  <2>4. TypeOK'
    BY <1>1, <2>1, <2>3 DEF Inv, TypeOK
  <2>5. Accounted'
    BY <1>1, <1>2, <2>3 DEF Inv, Accounted
  <2>6. Tended'
    <3>1. ASSUME ~closed', holder' \in Events, timer' = "none"
          PROVE  Len(queue') + Len(batch') <= remaining'
      <4>1. Len(queue) + Len(batch) <= remaining
        BY <3>1, <1>1, <2>1 DEF Inv, Tended
      <4> QED BY <4>1, <2>3, <1>0 DEF n
    <3>2. (holder' = Closer \/ Closer \in Range(waiters')) => closed'
      BY <1>1, <2>1 DEF Inv, Tended
    <3>3. ~closed' /\ holder' = Timer => timer' = "flush"
      BY <1>1, <2>1 DEF Inv, Tended
    <3> QED BY <3>1, <3>2, <3>3 DEF Tended
  <2> QED BY <2>3, <2>4, <2>5, <2>6, <1>3 DEF Inv
<1>5. CASE ~(remaining > Len(batch))
  <2>1. EndPost /\ EndTask(holder, queue) /\ queue' = queue
    BY <1>5 DEF PostOk
  <2>2. /\ holder' = None /\ batch' = <<>> /\ remaining' = 0 /\ attempt' = 0 /\ req' = "none"
        /\ batch' \in Seq(Events) /\ Len(batch') = 0 /\ Range(batch') = {}
        /\ remaining' \in 0..MaxQueueSize /\ attempt' \in 0..NumRetries
    BY <2>1, PostEnds
  <2>3. timer' \in {"none", "sleep", "flush"}
    BY <2>1 DEF EndTask, Inv, TypeOK
  <2>4. TypeOK'
    BY <1>1, <2>1, <2>2, <2>3 DEF Inv, TypeOK
  <2>5. Accounted'
    BY <1>1, <1>2, <2>1, <2>2 DEF Inv, Accounted
  <2>6. Ordered'
    BY <2>1, <2>2 DEF Inv, Ordered, Increasing, Before
  <2>7. PostSound'
    BY <2>1, <2>2 DEF Inv, PostSound
  <2>8. Tended'
    BY <1>1, <2>2, TendedAtEnd
  <2> QED BY <2>4, <2>5, <2>6, <2>7, <2>8, <1>3 DEF Inv
<1> QED BY <1>4, <1>5

\* An attempt has failed and another is left.
LEMMA PostFailsKeeps ==
    ASSUME Inv, PostFails
    PROVE  Inv'
<1>1. /\ attempt < NumRetries /\ req' = "wait"
      /\ fails < MaxFails /\ fails' = fails + 1
      /\ late' = IF req = "sent" THEN late \cup {batch} ELSE late
      /\ published' = published /\ queue' = queue /\ timer' = timer /\ closed' = closed
      /\ holder' = holder /\ waiters' = waiters /\ batch' = batch /\ remaining' = remaining
      /\ attempt' = attempt /\ received' = received /\ dropped' = dropped /\ cut' = cut
  BY DEF PostFails, Failed
<1>2. fails' \in 0..MaxFails /\ late' \subseteq Seq(Events)
  BY <1>1, WebhookAssumption DEF Inv, TypeOK
<1>3. TypeOK'
  BY <1>1, <1>2 DEF Inv, TypeOK
<1>4. Settled' = Settled
  BY <1>1 DEF Settled
<1>5. LateExplained' /\ GapsExplained'
  BY <1>1, <1>4, LateKept, GapsKept
<1>6. Accounted' /\ Ordered' /\ PostSound' /\ Tended'
  BY <1>1, <1>4 DEF Inv, Accounted, Ordered, PostSound, Tended
<1> QED BY <1>3, <1>5, <1>6 DEF Inv

\* The next attempt.
LEMMA RetryKeeps ==
    ASSUME Inv, Retry
    PROVE  Inv'
<1>1. /\ req = "wait" /\ attempt' = attempt + 1 /\ req' = "sent"
      /\ published' = published /\ queue' = queue /\ timer' = timer /\ closed' = closed
      /\ holder' = holder /\ waiters' = waiters /\ batch' = batch /\ remaining' = remaining
      /\ late' = late /\ received' = received /\ dropped' = dropped /\ cut' = cut /\ fails' = fails
  BY DEF Retry, netVars
<1>2. attempt' \in 0..NumRetries
  BY <1>1, WebhookAssumption DEF Inv, TypeOK, PostSound
<1>3. TypeOK'
  BY <1>1, <1>2 DEF Inv, TypeOK
<1>4. Settled' = Settled
  BY <1>1 DEF Settled
<1>5. LateExplained' /\ GapsExplained'
  BY <1>1, <1>4, LateKept, GapsKept
<1>6. Accounted' /\ Ordered' /\ PostSound' /\ Tended'
  BY <1>1, <1>4 DEF Inv, Accounted, Ordered, PostSound, Tended
<1> QED BY <1>3, <1>5, <1>6 DEF Inv

\* The last attempt has failed: _requeue puts the batch back in front.
LEMMA GiveUpKeeps ==
    ASSUME Inv, GiveUp
    PROVE  Inv'
<1> DEFINE all == batch \o queue
           q == Trim(all)
<1>0. queue \in Seq(Events) /\ batch \in Seq(Events)
  BY DEF Inv, TypeOK
<1>1. /\ fails < MaxFails /\ fails' = fails + 1
      /\ late' = IF req = "sent" THEN late \cup {batch} ELSE late
      /\ queue' = q /\ dropped' = dropped \cup (Range(all) \ Range(q))
      /\ EndPost /\ EndTask(holder, q)
      /\ published' = published /\ closed' = closed /\ waiters' = waiters
      /\ received' = received /\ cut' = cut
  BY DEF GiveUp, Failed, SetQueue
<1>2. all \in Seq(Events) /\ Range(all) = Range(batch) \cup Range(queue) /\ Increasing(all)
  BY <1>0, ConcatKeepsOrder DEF Inv, Ordered
<1>3. /\ q \in Seq(Events) /\ Len(q) <= MaxQueueSize /\ Increasing(q)
      /\ Range(q) \subseteq Range(all)
  BY <1>2, TrimKeepsEnd
<1> HIDE DEF all, q
<1>4. /\ holder' = None /\ batch' = <<>> /\ remaining' = 0 /\ attempt' = 0 /\ req' = "none"
      /\ batch' \in Seq(Events) /\ Len(batch') = 0 /\ Range(batch') = {}
      /\ remaining' \in 0..MaxQueueSize /\ attempt' \in 0..NumRetries
  BY <1>1, PostEnds
<1>5. TypeOK'
  <2>1. fails' \in 0..MaxFails /\ late' \subseteq Seq(Events)
    BY <1>1, WebhookAssumption DEF Inv, TypeOK
  <2>2. timer' \in {"none", "sleep", "flush"}
    BY <1>1 DEF EndTask, Inv, TypeOK
  <2>3. dropped' \subseteq Events
    BY <1>0, <1>1, <1>2, RangeIs DEF Inv, TypeOK
  <2> QED BY <1>1, <1>3, <1>4, <2>1, <2>2, <2>3 DEF Inv, TypeOK
<1>6. Settled' = Settled \cup (Range(all) \ Range(q))
  BY <1>1 DEF Settled
<1>7. Accounted'
  <2>1. 1..published = Settled \cup Range(batch) \cup Range(queue)
    BY DEF Inv, Accounted
  <2>2. 1..published = Settled' \cup Range(q)
    BY <2>1, <1>2, <1>3, <1>6
  <2> QED BY <2>2, <1>1, <1>4 DEF Accounted
<1>8. LateExplained' /\ GapsExplained'
  BY <1>1, <1>6, LateKept, GapsKept
<1>9. Ordered'
  BY <1>1, <1>3, <1>4 DEF Ordered, Increasing, Before
<1>10. PostSound'
  <2>1. Len(batch') <= remaining'
    BY <1>4
  <2> QED BY <1>1, <1>3, <1>4, <2>1 DEF PostSound
<1>11. Tended'
  BY <1>1, <1>4, TendedAtEnd
<1> QED BY <1>5, <1>7, <1>8, <1>9, <1>10, <1>11 DEF Inv

-----------------------------------------------------------------------------
(* The theorems.                                                           *)

\* The queue, the batch and the requests that may come late, taken together, keep
\* the account and the order of the events through every step of __call__, the
\* flush timer, close(), the posts and the network.
THEOREM Invariance == Spec => []Inv
<1>1. Init => Inv
  <2> SUFFICES ASSUME Init PROVE Inv
    OBVIOUS
  <2>0. Range(<<>>) = {} /\ <<>> \in Seq(Events) /\ <<>> \in Seq(Tasks) /\ Len(<<>>) = 0
    BY DEF Range
  <2>1. TypeOK
    <3>1. /\ published \in 0..MaxEvents /\ remaining \in 0..MaxQueueSize
          /\ attempt \in 0..NumRetries /\ fails \in 0..MaxFails
      BY WebhookAssumption DEF Init
    <3>2. /\ queue \in Seq(Events) /\ batch \in Seq(Events) /\ waiters \in Seq(Tasks)
          /\ late \subseteq Seq(Events) /\ holder \in Tasks \cup {None}
      BY <2>0 DEF Init
    <3> QED BY <3>1, <3>2 DEF Init, TypeOK
  <2>2. Accounted /\ LateExplained /\ GapsExplained
    BY <2>0 DEF Init, Accounted, LateExplained, GapsExplained, Settled
  <2>3. Ordered
    BY <2>0 DEF Init, Ordered, Increasing, Before
  <2>4. PostSound
    BY <2>0, WebhookAssumption DEF Init, PostSound
  <2>5. Tended
    BY <2>0, WebhookAssumption DEF Init, Tended, Tasks
  <2> QED BY <2>1, <2>2, <2>3, <2>4, <2>5 DEF Inv
<1>2. Inv /\ [Next]_vars => Inv'
  <2> SUFFICES ASSUME Inv, [Next]_vars PROVE Inv'
    OBVIOUS
  <2>1. CASE Next
    BY <2>1, PublishKeeps, TimerFiresKeeps, WakeUpKeeps, CloseKeeps, CancelledKeeps, ServeKeeps,
       ServeLateKeeps, PostOkKeeps, PostFailsKeeps, RetryKeeps, GiveUpKeeps DEF Next
  <2>2. CASE UNCHANGED vars
    BY <2>2 DEF vars, Inv, TypeOK, Accounted, Ordered, LateExplained, GapsExplained, PostSound,
                Tended, Settled
  <2> QED BY <2>1, <2>2
<1> QED BY <1>1, <1>2, PTL DEF Spec

\* Every event is accounted for, whatever fails and whoever posts: _requeue,
\* _trim_queue and _take_batch lose nothing between them.
THEOREM EveryEventAccounted == Spec => []NothingLost
<1>1. Inv => NothingLost
  BY DEF Inv, Accounted, NothingLost
<1> QED BY <1>1, Invariance, PTL

\* The webhook sees the events of a conversation in their order, up to what a limit
\* or close() removed, with any number of retries and of requests processed late.
THEOREM InOrderAtTheWebhook == Spec => []GapsExplained
<1>1. Inv => GapsExplained
  BY DEF Inv
<1> QED BY <1>1, Invariance, PTL

\* Only the post of a __call__ that fails for good leaves queued events without a
\* timer or a task that will post them.
THEOREM UnattendedOnlyByFailure == Spec => AttendedUnlessFailed
<1> DEFINE Excused == holder \in Events /\ attempt = NumRetries /\ fails' > fails
<1>1. Inv /\ [Next]_vars => [Unattended' => Unattended \/ Excused]_vars
  <2> SUFFICES ASSUME Inv, Next, Unattended', ~Unattended PROVE Excused
    BY DEF vars
  <2>0. /\ queue' # <<>> /\ ~closed' /\ timer' = "none" /\ holder' = None /\ waiters' = <<>>
        /\ None \notin Tasks
        /\ queue \in Seq(Events) /\ batch \in Seq(Events) /\ waiters \in Seq(Tasks)
    BY WebhookAssumption DEF Unattended, Inv, TypeOK
  <2>1. ASSUME NEW q, NEW p \in Tasks, NEW ws \in Seq(Tasks), NEW t, PostEvents(p, q, ws, t)
        PROVE  FALSE
    BY <2>0, <2>1, LineMoves DEF PostEvents
  <2>2. CASE Publish
    <3> DEFINE x == published'
               q == Trim(Append(queue, x))
    <3>0. x \in Events
      <4>1. published \in 0..MaxEvents /\ MaxEvents \in Nat
        BY WebhookAssumption DEF Inv, TypeOK
      <4>2. published < MaxEvents /\ x = published + 1
        BY <2>2 DEF Publish
      <4> QED BY <4>1, <4>2 DEF Events
    <3>1. x \in Tasks /\ Without(waiters, Timer) \in Seq(Tasks)
      BY <3>0, <2>0, LeavesLine DEF Tasks
    <3>2. \/ PostEvents(x, q, Without(waiters, Timer), "none")
          \/ queue' = q /\ timer' = IF q = <<>> THEN timer ELSE Started
      BY <2>2 DEF Publish
    <3>3. closed' = closed
      BY <2>2 DEF Publish
    <3> HIDE DEF q, x
    <3>4. CASE queue' = q /\ timer' = IF q = <<>> THEN timer ELSE Started
      BY <3>3, <3>4, <2>0 DEF Started
    <3> QED BY <3>1, <3>2, <3>4, <2>1
  <2>3. CASE TimerFires
    BY <2>0, <2>1, <2>3 DEF TimerFires, Tasks
  <2>4. CASE WakeUp
    <3>1. Head(waiters) \in Tasks
      BY <2>0, <2>4, LineMoves DEF WakeUp
    <3> QED BY <3>1, <2>0, <2>4 DEF WakeUp, Enter
  <2>5. CASE Close
    BY <2>0, <2>5 DEF Close
  <2>6. CASE Cancelled
    BY <2>0, <2>6 DEF Cancelled, Inv, Tended
  <2>7. CASE Serve \/ PostFails \/ Retry
    BY <2>0, <2>7 DEF Serve, PostFails, Failed, Retry, Posting
  <2>8. CASE ServeLate
    BY <2>0, <2>8 DEF ServeLate, Unattended
  <2>9. CASE PostOk
    <3>0. holder # None /\ closed' = closed
      BY <2>9 DEF PostOk, Posting
    <3>1. ~(remaining > Len(batch)) /\ EndTask(holder, queue) /\ queue' = queue
      BY <3>0, <2>0, <2>9 DEF PostOk
    <3>2. holder # Timer /\ timer = "none"
      BY <3>0, <3>1, <2>0 DEF EndTask
    <3>3. holder \in Events
      BY <3>0, <3>2, <2>0 DEF Inv, TypeOK, Tended, Tasks
    <3>4. Len(queue) + Len(batch) <= remaining /\ remaining \in Int
      BY <3>0, <3>2, <3>3, <2>0 DEF Inv, Tended, TypeOK
    <3>5. Len(queue) \in Nat /\ Len(batch) \in Nat
      BY <2>0, RangeIs
    <3>6. Len(queue) = 0
      BY <3>1, <3>4, <3>5
    <3> QED BY <3>1, <3>6, <2>0
  <2>10. CASE GiveUp
    <3>0. /\ holder # None /\ closed' = closed /\ attempt = NumRetries /\ fails' = fails + 1
          /\ queue' = Trim(batch \o queue) /\ EndTask(holder, Trim(batch \o queue))
      BY <2>10 DEF GiveUp, Failed, Posting, SetQueue
    <3>1. holder # Timer
      BY <3>0, <2>0 DEF EndTask
    <3>2. holder \in Events
      BY <3>0, <3>1, <2>0 DEF Inv, TypeOK, Tended, Tasks
    <3>3. fails' > fails
      BY <3>0 DEF Inv, TypeOK
    <3> QED BY <3>0, <3>2, <3>3
  <2> QED BY <2>2, <2>3, <2>4, <2>5, <2>6, <2>7, <2>8, <2>9, <2>10 DEF Next
<1> QED BY <1>1, Invariance, PTL DEF Spec, AttendedUnlessFailed
=============================================================================
