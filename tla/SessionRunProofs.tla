-------------------------- MODULE SessionRunProofs --------------------------
(***************************************************************************)
(* What SessionRun promises, for any number of requests and run tasks and  *)
(* any limits on iterations, denials and condensations.                    *)
(***************************************************************************)
EXTENDS SessionRun, FiniteSetTheorems, TLAPS

\* A step of the agent starts only in a status that lets it, and nobody else
\* moves the conversation to FINISHED, WAITING or STUCK while it goes on.
StepStatus ==
    \A t \in Tasks : pc[t] \in {"llm", "tools"}
        => status \in {"running", "idle", "paused", "error"}

\* From the moment close() has read _run_task on, the only run there can be
\* is the one it waits for.
OnlyDrained == closing \in {"paused", "draining"} => runTask \in {None, drain}

\* The inductive invariant, together with TypeOK.
Safe ==
    /\ SingleRun
    /\ StepStatus
    /\ FinishedAnswersNewest
    /\ WaitingHasPending
    /\ OnlyDrained
    /\ ClosedHasNoRun

USE ConstantsAssumption

LEMMA TypeInit == Init => TypeOK
<1>1. Init => FlagsOK
  BY Zenon DEF Init, FlagsOK
<1>2. Init => ValuesOK
  BY DEF Init, ValuesOK, Statuses, Kinds, ClientPcs, TaskPcs, NoLocals, Actors
<1> QED
  BY <1>1, <1>2 DEF TypeOK

\* Every variable keeps its type: no request, run task or wrap-up of
\* event_service.py leaves the phases, statuses and counters declared for it.
THEOREM TypeCorrect == Spec => []TypeOK
<1>1. TypeOK /\ [Next]_vars => TypeOK'
  <2> SUFFICES ASSUME TypeOK, [Next]_vars PROVE TypeOK'
    OBVIOUS
  <2> USE DEF TypeOK, ValuesOK, FlagsOK, Statuses, Kinds, ClientPcs, TaskPcs,
              Active, Wrapping, InArun, Actors, conv, svc, clos, task, ghost, Go, Rest
  <2>1. ASSUME NEW c \in Clients, NEW k \in {"note", "send"}, Send(c, k) PROVE TypeOK'
    BY <2>1 DEF Send
  <2>2. ASSUME NEW c \in Clients, Resume(c) PROVE TypeOK'
    BY <2>2 DEF Resume
  <2>3. ASSUME NEW c \in Clients, Pause(c) PROVE TypeOK'
    <3>1. FlagsOK'
      BY <2>3, Zenon DEF Pause, Bump
    <3>2. ValuesOK'
      BY <2>3 DEF Pause, Bump
    <3> QED
      BY <3>1, <3>2
  <2>4. ASSUME NEW c \in Clients, Interrupt(c) PROVE TypeOK'
    <3>1. FlagsOK'
      BY <2>4, Zenon DEF Interrupt, Bump
    <3>2. ValuesOK'
      BY <2>4 DEF Interrupt, Bump, CancelArun, Paused
    <3> QED
      BY <3>1, <3>2
  <2>5. ASSUME NEW c \in Clients, Reject(c) PROVE TypeOK'
    BY <2>5 DEF Reject
  <2>6. ASSUME NEW c \in Clients, AppendMessage(c) PROVE TypeOK'
    BY <2>6 DEF AppendMessage
  <2>7. ASSUME NEW c \in Clients, AfterAppend(c) PROVE TypeOK'
    <3>1. FlagsOK'
      BY <2>7, Zenon DEF AfterAppend
    <3>2. ValuesOK'
      BY <2>7 DEF AfterAppend
    <3> QED
      BY <3>1, <3>2
  <2>8. ASSUME NEW c \in Clients, PauseState(c) PROVE TypeOK'
    BY <2>8 DEF PauseState, Paused
  <2>9. ASSUME NEW c \in Clients, InterruptDone(c) PROVE TypeOK'
    BY <2>9 DEF InterruptDone
  <2>10. ASSUME NEW c \in Clients, RejectState(c) PROVE TypeOK'
    BY <2>10 DEF RejectState, Resolved
  <2>11. CASE Recover
    BY <2>11 DEF Recover
  <2>12. ASSUME NEW x \in Actors, EnterRun(x) PROVE TypeOK'
    <3>1. FlagsOK'
      BY <2>12, Zenon DEF EnterRun, Leave, Refuse
    <3>2. ValuesOK'
      BY <2>12 DEF EnterRun, Leave, Refuse
    <3> QED
      BY <3>1, <3>2
  <2>13. ASSUME NEW x \in Actors, FinishRun(x) PROVE TypeOK'
    <3>1. CASE Refuse(x)
      BY <3>1 DEF Refuse
    <3>2. CASE Leave(x)
      BY <3>2 DEF Leave
    <3>3. ASSUME NEW t \in Tasks, Create(x, t) PROVE TypeOK'
      <4>1. FlagsOK'
        BY <3>3, Zenon DEF Create
      <4>2. ValuesOK'
        BY <3>3 DEF Create
      <4> QED
        BY <4>1, <4>2
    <3> QED
      BY <2>13, <3>1, <3>2, <3>3 DEF FinishRun, NewTasks, FreeTasks
  <2>14. ASSUME NEW t \in Tasks, Begin(t) PROVE TypeOK'
    <3>1. FlagsOK'
      BY <2>14, Zenon DEF Begin
    <3>2. ValuesOK'
      BY <2>14 DEF Begin, Started, NoLocals
    <3> QED
      BY <3>1, <3>2
  <2>15. ASSUME NEW t \in Tasks, Ready(t) PROVE TypeOK'
    BY <2>15 DEF Ready
  <2>16. ASSUME NEW t \in Tasks, LoopStop(t) PROVE TypeOK'
    BY <2>16 DEF LoopStop, EndLoop
  <2>17. ASSUME NEW t \in Tasks, LoopFinished(t) PROVE TypeOK'
    BY <2>17 DEF LoopFinished, EndLoop
  <2>18. ASSUME NEW t \in Tasks, LoopStep(t) PROVE TypeOK'
    BY <2>18 DEF LoopStep, EndLoop
  <2>19. ASSUME NEW t \in Tasks, NEW o \in Outcomes(pc[t]), NEW b \in BOOLEAN,
                StepEnd(t, o, b)
         PROVE  TypeOK'
    <3>1. LocalsAfter(t, o) \in [iter : Nat, denials : Nat, streak : Nat]
      BY DEF LocalsAfter
    <3>2. StatusAfter(o) \in Statuses
      BY DEF StatusAfter
    <3> QED
      BY <2>19, <3>1, <3>2 DEF StepEnd, EndLoop, Resolved
  <2>20. ASSUME NEW t \in Tasks, Fail(t) PROVE TypeOK'
    BY <2>20 DEF Fail, EndLoop
  <2>21. ASSUME NEW t \in Tasks, Cancelled(t) PROVE TypeOK'
    <3>1. FlagsOK'
      BY <2>21, Zenon DEF Cancelled, EndLoop
    <3>2. ValuesOK'
      BY <2>21 DEF Cancelled, EndLoop, Resolved
    <3> QED
      BY <3>1, <3>2
  <2>22. ASSUME NEW t \in Tasks, FreeRunTask(t) PROVE TypeOK'
    BY <2>22 DEF FreeRunTask, NoLocals
  <2>23. ASSUME NEW t \in Tasks, ReadFlags(t) PROVE TypeOK'
    <3>1. FlagsOK'
      BY <2>23, Zenon DEF ReadFlags
    <3>2. ValuesOK'
      BY <2>23 DEF ReadFlags
    <3> QED
      BY <3>1, <3>2
  <2>24. ASSUME NEW t \in Tasks, Recheck(t) PROVE TypeOK'
    <3>1. FlagsOK'
      BY <2>24, Zenon DEF Recheck
    <3>2. ValuesOK'
      BY <2>24 DEF Recheck
    <3> QED
      BY <3>1, <3>2
  <2>25. ASSUME NEW t \in Tasks, RecordDeadline(t) PROVE TypeOK'
    BY <2>25 DEF RecordDeadline
  <2>26. ASSUME NEW t \in Tasks, Deadline(t) PROVE TypeOK'
    <3>1. FlagsOK'
      BY <2>26, Zenon DEF Deadline, Bump
    <3>2. ValuesOK'
      BY <2>26 DEF Deadline, Bump, CancelArun, Paused
    <3> QED
      BY <3>1, <3>2
  <2>27. CASE Close
    <3>1. FlagsOK'
      BY <2>27, Zenon DEF Close, Bump
    <3>2. ValuesOK'
      BY <2>27 DEF Close, Bump
    <3> QED
      BY <3>1, <3>2
  <2>28. CASE ClosePause
    BY <2>28 DEF ClosePause, Paused
  <2>29. CASE CloseCancel
    BY <2>29 DEF CloseCancel
  <2>30. CASE CloseEnd
    BY <2>30 DEF CloseEnd
  <2>32. CASE Turn
    BY <2>32 DEF Turn
  <2>31. CASE UNCHANGED vars
    BY <2>31 DEF vars
  <2> QED
    <3> HIDE DEF TypeOK, Actors
    <3>1. ASSUME NEW c \in Clients, NEW k \in {"note", "send"},
                 \/ Send(c, k) \/ Resume(c) \/ Pause(c) \/ Interrupt(c) \/ Reject(c)
                 \/ ClientStep(c)
          PROVE  TypeOK'
      BY <3>1, <2>1, <2>2, <2>3, <2>4, <2>5, <2>6, <2>7, <2>8, <2>9, <2>10, Zenon
      DEF ClientStep
    <3>2. ASSUME NEW t \in Tasks, TaskStep(t) \/ Deadline(t) PROVE TypeOK'
      BY <3>2, <2>14, <2>15, <2>16, <2>17, <2>18, <2>19, <2>20, <2>21, <2>22, <2>23,
         <2>24, <2>25, <2>26, Zenon
      DEF TaskStep
    <3> QED
      BY <3>1, <3>2, <2>11, <2>12, <2>13, <2>27, <2>28, <2>29, <2>30, <2>31, <2>32, Zenon
      DEF Next, CloseStep
<1> QED
  BY <1>1, TypeInit, PTL DEF Spec

\* The inductive invariant.  Create is the step that could break SingleRun,
\* StepEnd and AppendMessage the ones that could break FinishedAnswersNewest, and
\* CloseEnd the one that needs OnlyDrained.
LEMMA InductiveInvariant == Spec => []Safe
<1>1. Init => Safe
  BY DEF Init, Safe, SingleRun, StepStatus, FinishedAnswersNewest, WaitingHasPending,
         OnlyDrained, ClosedHasNoRun, Active, InArun, Actors
<1>2. TypeOK /\ TypeOK' /\ Safe /\ [Next]_vars => Safe'
  <2> SUFFICES ASSUME TypeOK, TypeOK', Safe, [Next]_vars PROVE Safe'
    OBVIOUS
  <2> USE DEF Safe, TypeOK, ValuesOK, FlagsOK, SingleRun, StepStatus, FinishedAnswersNewest,
              WaitingHasPending, OnlyDrained, ClosedHasNoRun,
              ClientPcs, TaskPcs, Active, Wrapping, InArun, Actors,
              conv, svc, clos, task, Go, Rest
  <2>1. ASSUME NEW c \in Clients, NEW k \in {"note", "send"}, Send(c, k) PROVE Safe'
    BY <2>1 DEF Send
  <2>2. ASSUME NEW c \in Clients, Resume(c) PROVE Safe'
    BY <2>2 DEF Resume
  <2>3. ASSUME NEW c \in Clients, Pause(c) PROVE Safe'
    BY <2>3 DEF Pause
  <2>4. ASSUME NEW c \in Clients, Interrupt(c) PROVE Safe'
    BY <2>4 DEF Interrupt, CancelArun, Paused
  <2>5. ASSUME NEW c \in Clients, Reject(c) PROVE Safe'
    BY <2>5 DEF Reject
  <2>6. ASSUME NEW c \in Clients, AppendMessage(c) PROVE Safe'
    BY <2>6 DEF AppendMessage
  <2>7. ASSUME NEW c \in Clients, AfterAppend(c) PROVE Safe'
    BY <2>7 DEF AfterAppend
  <2>8. ASSUME NEW c \in Clients, PauseState(c) PROVE Safe'
    BY <2>8 DEF PauseState, Paused
  <2>9. ASSUME NEW c \in Clients, InterruptDone(c) PROVE Safe'
    BY <2>9 DEF InterruptDone
  <2>10. ASSUME NEW c \in Clients, RejectState(c) PROVE Safe'
    BY <2>10 DEF RejectState
  <2>11. CASE Recover
    BY <2>11 DEF Recover
  <2>12. ASSUME NEW x \in Actors, EnterRun(x) PROVE Safe'
    BY <2>12 DEF EnterRun, Leave, Refuse
  <2>13. ASSUME NEW x \in Actors, FinishRun(x) PROVE Safe'
    <3>1. CASE Refuse(x)
      BY <2>13, <3>1 DEF FinishRun, Refuse
    <3>2. CASE Leave(x)
      BY <2>13, <3>2 DEF FinishRun, Leave
    <3>3. ASSUME NEW t \in NewTasks(x), closing = "open", runTask = None, Create(x, t)
          PROVE  Safe'
      <4>1. t \in Tasks /\ pc[x] = "locked"
        BY <2>13 DEF NewTasks, FreeTasks, FinishRun
      <4>2. \A u \in Tasks : pc'[u] \in Active <=> u = t
        BY <3>3, <4>1 DEF Create
      <4>3. SingleRun'
        BY <3>3, <4>1, <4>2 DEF Create
      <4>4. StepStatus'
        BY <3>3, <4>1, <4>2 DEF Create
      <4> QED
        BY <3>3, <4>3, <4>4 DEF Create
    <3> QED
      BY <2>13, <3>1, <3>2, <3>3, Zenon DEF FinishRun, RunTaskLive
  <2>14. ASSUME NEW t \in Tasks, Begin(t) PROVE Safe'
    BY <2>14 DEF Begin, Started
  <2>15. ASSUME NEW t \in Tasks, Ready(t) PROVE Safe'
    BY <2>15 DEF Ready
  <2>16. ASSUME NEW t \in Tasks, LoopStop(t) PROVE Safe'
    BY <2>16 DEF LoopStop, EndLoop
  <2>17. ASSUME NEW t \in Tasks, LoopFinished(t) PROVE Safe'
    BY <2>17 DEF LoopFinished, EndLoop
  <2>18. ASSUME NEW t \in Tasks, LoopStep(t) PROVE Safe'
    <3>1. CASE EndLoop(t, "stuck", loc[t]) /\ UNCHANGED <<last, consumed, pending, kind>>
      BY <2>18, <3>1 DEF LoopStep, EndLoop
    <3>2. ASSUME NEW p \in {"llm", "tools"}, Go(t, p),
                 status' = IF status = "waiting" THEN "running" ELSE status,
                 consumed' = last, UNCHANGED <<last, pending, svc, clos>>
          PROVE  Safe'
      <4>1. /\ pc[t] = "loop" /\ runTask = t
            /\ status' \in {"running", "idle", "error"}
        BY <2>18, <3>2 DEF LoopStep, Statuses
      <4>2. SingleRun' /\ StepStatus' /\ ClosedHasNoRun' /\ OnlyDrained'
        BY <3>2, <4>1
      <4> QED
        BY <4>1, <4>2
    <3> QED
      <4> HIDE DEF Safe, Go
      <4> QED
        BY <2>18, <3>1, <3>2 DEF LoopStep
  <2>19. ASSUME NEW t \in Tasks, NEW o \in Outcomes(pc[t]), NEW b \in BOOLEAN,
                StepEnd(t, o, b) PROVE Safe'
    <3>1. /\ pc[t] \in {"llm", "tools"} /\ runTask = t
          /\ status \in {"running", "idle", "paused", "error"}
      BY <2>19 DEF StepEnd
    <3>2. /\ UNCHANGED <<svc, clos, consumed>>
          /\ last' = IF o = "retry" THEN last + 1 ELSE last
          /\ pending' = (o = "confirm" /\ ~Superseding(o))
          /\ \E q \in {"tail", "loop"} : Go(t, q)
      BY <2>19 DEF StepEnd, EndLoop
    <3>3. \/ status' \in {"stuck", "idle", "error", "running"}
          \/ status' = StatusAfter(o) /\ ~Superseding(o)
      BY <2>19 DEF StepEnd, EndLoop, StatusAfter
    <3>4. SingleRun' /\ StepStatus' /\ ClosedHasNoRun' /\ OnlyDrained'
      BY <3>1, <3>2
    <3>5. FinishedAnswersNewest'
      BY <3>1, <3>2, <3>3 DEF StatusAfter, Superseding
    <3>6. WaitingHasPending'
      BY <3>1, <3>2, <3>3 DEF StatusAfter
    <3> QED
      BY <3>4, <3>5, <3>6
  <2>20. ASSUME NEW t \in Tasks, Fail(t) PROVE Safe'
    BY <2>20 DEF Fail, EndLoop
  <2>21. ASSUME NEW t \in Tasks, Cancelled(t) PROVE Safe'
    BY <2>21 DEF Cancelled, EndLoop
  <2>22. ASSUME NEW t \in Tasks, FreeRunTask(t) PROVE Safe'
    BY <2>22 DEF FreeRunTask
  <2>23. ASSUME NEW t \in Tasks, ReadFlags(t) PROVE Safe'
    BY <2>23 DEF ReadFlags
  <2>24. ASSUME NEW t \in Tasks, Recheck(t) PROVE Safe'
    BY <2>24 DEF Recheck
  <2>25. ASSUME NEW t \in Tasks, RecordDeadline(t) PROVE Safe'
    BY <2>25 DEF RecordDeadline
  <2>26. ASSUME NEW t \in Tasks, Deadline(t) PROVE Safe'
    BY <2>26 DEF Deadline, CancelArun, Paused
  <2>27. CASE Close
    BY <2>27 DEF Close
  <2>28. CASE ClosePause
    BY <2>28 DEF ClosePause, Paused
  <2>29. CASE CloseCancel
    BY <2>29 DEF CloseCancel
  <2>30. CASE CloseEnd
    BY <2>30 DEF CloseEnd
  <2>32. CASE Turn
    BY <2>32 DEF Turn
  <2>31. CASE UNCHANGED vars
    BY <2>31 DEF vars
  <2> QED
    <3> HIDE DEF Safe, TypeOK, Actors
    <3>1. ASSUME NEW c \in Clients, NEW k \in {"note", "send"},
                 \/ Send(c, k) \/ Resume(c) \/ Pause(c) \/ Interrupt(c) \/ Reject(c)
                 \/ ClientStep(c)
          PROVE  Safe'
      BY <3>1, <2>1, <2>2, <2>3, <2>4, <2>5, <2>6, <2>7, <2>8, <2>9, <2>10, Zenon
      DEF ClientStep
    <3>2. ASSUME NEW t \in Tasks, TaskStep(t) \/ Deadline(t) PROVE Safe'
      BY <3>2, <2>14, <2>15, <2>16, <2>17, <2>18, <2>19, <2>20, <2>21, <2>22, <2>23,
         <2>24, <2>25, <2>26, Zenon
      DEF TaskStep
    <3> QED
      BY <3>1, <3>2, <2>11, <2>12, <2>13, <2>27, <2>28, <2>29, <2>30, <2>31, <2>32, Zenon
      DEF Next, CloseStep
<1> QED
  BY <1>1, <1>2, TypeCorrect, PTL DEF Spec

\* At most one run of a conversation exists at any time, whatever number of
\* requests, wrap-ups and scheduler passes call run() concurrently.
THEOREM OneRun == Spec => []SingleRun
  BY InductiveInvariant, PTL DEF Safe

\* FINISHED always answers the newest user message, however its append raced
\* the step that finished (send_message and the rescan in arun).
THEOREM FinishedAnswers == Spec => []FinishedAnswersNewest
  BY InductiveInvariant, PTL DEF Safe

\* Waiting for confirmation always leaves an action to confirm.
THEOREM WaitingPending == Spec => []WaitingHasPending
  BY InductiveInvariant, PTL DEF Safe

\* close() leaves no run behind, and none starts after it.
THEOREM ClosedNoRun == Spec => []ClosedHasNoRun
  BY InductiveInvariant, PTL DEF Safe

-----------------------------------------------------------------------------
(* Requests to run: none is lost, and none is served twice.                *)

\* Only requests have a kind.
KindsRight == \A x \in Tasks \cup {Sched} : kind[x] = "none"

\* RUNNING has a run behind it, and a requested re-run somebody who will read it.
RunningHasRun == closing = "open" /\ status = "running" => \E t \in Tasks : pc[t] \in InArun
RerunHasReader ==
    closing = "open" /\ rerun => \E t \in Tasks : pc[t] \in Active \cup {"publish"}

\* Who has seen to it that a message sent with run=True gets its run.
SenderActs == \E c \in Clients : /\ pc[c] \in {"sent", "run", "locked"}
                                 /\ kind[c] = "send" /\ ~moved[c]
RunComes == \E t \in Tasks : pc[t] = "created"
WrapUpActs ==
    /\ runTask = None
    /\ \E t \in Tasks : pc[t] \in {"run", "locked"} \/ (pc[t] = "recheck" /\ ~moved[t])

\* The user has to act: no step is under way, and the status says so or the
\* deadline is about to.
Halted ==
    /\ \A t \in Tasks : pc[t] \notin {"init", "loop", "llm", "tools"}
    /\ \/ status \in {"paused", "waiting", "error", "stuck"}
       \/ \E t \in Tasks : wd[t] = "fired"

Cared ==
    closing = "open" /\ owed > consumed
        => intent \/ taken \/ SenderActs \/ RunComes \/ rerun \/ WrapUpActs \/ Halted

Served == KindsRight /\ RunningHasRun /\ RerunHasReader /\ Cared

\* The requests to run that have not led to a run yet.
Asking(x) ==
    \/ pc[x] \in {"run", "locked"}
    \/ x \in Clients /\ pc[x] \in {"append", "sent"} /\ kind[x] = "send"
    \/ x \in Tasks /\ pc[x] = "recheck"
    \/ x = Sched /\ intent

Open == {x \in Actors : Asking(x)} \cup (IF rerun THEN {None} ELSE {})

Counted == IsFiniteSet(Open) /\ Cardinality(Open) + runs <= asks

\* A message sent with run=True is cared for.  AppendMessage makes it owed, Refuse, ReadFlags
\* and Create hand it on, and Deadline and Recheck are the steps that may drop it.
LEMMA ServedInvariant == Spec => []Served
<1>1. Init => Served
  BY DEF Init, Served, KindsRight, RunningHasRun, RerunHasReader, Cared, Actors
<1>2. TypeOK /\ TypeOK' /\ Safe /\ Served /\ [Next]_vars => Served'
  <2> SUFFICES ASSUME TypeOK, TypeOK', Safe, Served, [Next]_vars PROVE Served'
    OBVIOUS
  <2> USE DEF Served, TypeOK, ValuesOK, FlagsOK, ClientPcs, TaskPcs, Active, Wrapping, InArun,
              Actors, conv, svc, clos, task, ghost, Go, Rest
  <2>1. ASSUME NEW c \in Clients, NEW k \in {"note", "send"}, Send(c, k) PROVE Served'
    <3>1. KindsRight'
      BY <2>1 DEF Send, KindsRight
    <3>2. RunningHasRun'
      BY <2>1 DEF Send, RunningHasRun, Safe, SingleRun, FinishedAnswersNewest, StepStatus
    <3>3. RerunHasReader'
      BY <2>1 DEF Send, RerunHasReader, Safe, SingleRun, FinishedAnswersNewest, StepStatus
    <3>4. Cared'
      BY <2>1 DEF Send, Cared, SenderActs, RunComes, WrapUpActs, Halted, Safe, SingleRun, FinishedAnswersNewest, StepStatus
    <3> QED
      BY <3>1, <3>2, <3>3, <3>4
  <2>2. ASSUME NEW c \in Clients, Resume(c) PROVE Served'
    <3>1. KindsRight'
      BY <2>2 DEF Resume, KindsRight
    <3>2. RunningHasRun'
      BY <2>2 DEF Resume, RunningHasRun, Safe, SingleRun, FinishedAnswersNewest, StepStatus
    <3>3. RerunHasReader'
      BY <2>2 DEF Resume, RerunHasReader, Safe, SingleRun, FinishedAnswersNewest, StepStatus
    <3>4. Cared'
      BY <2>2 DEF Resume, Cared, SenderActs, RunComes, WrapUpActs, Halted, Safe, SingleRun, FinishedAnswersNewest, StepStatus
    <3> QED
      BY <3>1, <3>2, <3>3, <3>4
  <2>3. ASSUME NEW c \in Clients, Pause(c) PROVE Served'
    <3>1. KindsRight'
      BY <2>3 DEF Pause, Bump, KindsRight
    <3>2. RunningHasRun'
      BY <2>3 DEF Pause, Bump, RunningHasRun, Safe, SingleRun, FinishedAnswersNewest, StepStatus
    <3>3. RerunHasReader'
      BY <2>3 DEF Pause, Bump, RerunHasReader, Safe, SingleRun, FinishedAnswersNewest, StepStatus
    <3>4. Cared'
      BY <2>3 DEF Pause, Bump, Cared, SenderActs, RunComes, WrapUpActs, Halted, Safe, SingleRun, FinishedAnswersNewest, StepStatus
    <3> QED
      BY <3>1, <3>2, <3>3, <3>4
  <2>4. ASSUME NEW c \in Clients, Interrupt(c) PROVE Served'
    <3>1. KindsRight'
      BY <2>4 DEF Interrupt, CancelArun, Paused, Bump, KindsRight
    <3>2. RunningHasRun'
      BY <2>4 DEF Interrupt, CancelArun, Paused, Bump, RunningHasRun, Safe, SingleRun, FinishedAnswersNewest, StepStatus
    <3>3. RerunHasReader'
      BY <2>4 DEF Interrupt, CancelArun, Paused, Bump, RerunHasReader, Safe, SingleRun, FinishedAnswersNewest, StepStatus
    <3>4. Cared'
      BY <2>4 DEF Interrupt, CancelArun, Paused, Bump, Cared, SenderActs, RunComes, WrapUpActs, Halted, Safe, SingleRun, FinishedAnswersNewest, StepStatus
    <3> QED
      BY <3>1, <3>2, <3>3, <3>4
  <2>5. ASSUME NEW c \in Clients, Reject(c) PROVE Served'
    <3>1. KindsRight'
      BY <2>5 DEF Reject, KindsRight
    <3>2. RunningHasRun'
      BY <2>5 DEF Reject, RunningHasRun, Safe, SingleRun, FinishedAnswersNewest, StepStatus
    <3>3. RerunHasReader'
      BY <2>5 DEF Reject, RerunHasReader, Safe, SingleRun, FinishedAnswersNewest, StepStatus
    <3>4. Cared'
      BY <2>5 DEF Reject, Cared, SenderActs, RunComes, WrapUpActs, Halted, Safe, SingleRun, FinishedAnswersNewest, StepStatus
    <3> QED
      BY <3>1, <3>2, <3>3, <3>4
  <2>6. ASSUME NEW c \in Clients, AppendMessage(c) PROVE Served'
    <3>1. KindsRight'
      BY <2>6 DEF AppendMessage, KindsRight
    <3>2. RunningHasRun'
      BY <2>6 DEF AppendMessage, RunningHasRun, Safe, SingleRun, FinishedAnswersNewest, StepStatus
    <3>3. RerunHasReader'
      BY <2>6 DEF AppendMessage, RerunHasReader, Safe, SingleRun, FinishedAnswersNewest, StepStatus
    <3>4. Cared'
      BY <2>6 DEF AppendMessage, Cared, SenderActs, RunComes, WrapUpActs, Halted, Safe, SingleRun, FinishedAnswersNewest, StepStatus
    <3> QED
      BY <3>1, <3>2, <3>3, <3>4
  <2>7. ASSUME NEW c \in Clients, AfterAppend(c) PROVE Served'
    <3>1. KindsRight'
      BY <2>7 DEF AfterAppend, KindsRight
    <3>2. RunningHasRun'
      BY <2>7 DEF AfterAppend, RunningHasRun, Safe, SingleRun, FinishedAnswersNewest, StepStatus
    <3>3. RerunHasReader'
      BY <2>7 DEF AfterAppend, RerunHasReader, Safe, SingleRun, FinishedAnswersNewest, StepStatus
    <3>4. Cared'
      BY <2>7 DEF AfterAppend, Cared, SenderActs, RunComes, WrapUpActs, Halted, Safe, SingleRun, FinishedAnswersNewest, StepStatus
    <3> QED
      BY <3>1, <3>2, <3>3, <3>4
  <2>8. ASSUME NEW c \in Clients, PauseState(c) PROVE Served'
    <3>1. KindsRight'
      BY <2>8 DEF PauseState, Paused, KindsRight
    <3>2. RunningHasRun'
      BY <2>8 DEF PauseState, Paused, RunningHasRun, Safe, SingleRun, FinishedAnswersNewest, StepStatus
    <3>3. RerunHasReader'
      BY <2>8 DEF PauseState, Paused, RerunHasReader, Safe, SingleRun, FinishedAnswersNewest, StepStatus
    <3>4. Cared'
      BY <2>8 DEF PauseState, Paused, Cared, SenderActs, RunComes, WrapUpActs, Halted, Safe, SingleRun, FinishedAnswersNewest, StepStatus
    <3> QED
      BY <3>1, <3>2, <3>3, <3>4
  <2>9. ASSUME NEW c \in Clients, InterruptDone(c) PROVE Served'
    <3>1. KindsRight'
      BY <2>9 DEF InterruptDone, KindsRight
    <3>2. RunningHasRun'
      BY <2>9 DEF InterruptDone, RunningHasRun, Safe, SingleRun, FinishedAnswersNewest, StepStatus
    <3>3. RerunHasReader'
      BY <2>9 DEF InterruptDone, RerunHasReader, Safe, SingleRun, FinishedAnswersNewest, StepStatus
    <3>4. Cared'
      BY <2>9 DEF InterruptDone, Cared, SenderActs, RunComes, WrapUpActs, Halted, Safe, SingleRun, FinishedAnswersNewest, StepStatus
    <3> QED
      BY <3>1, <3>2, <3>3, <3>4
  <2>10. ASSUME NEW c \in Clients, RejectState(c) PROVE Served'
    <3>1. KindsRight'
      BY <2>10 DEF RejectState, Resolved, KindsRight
    <3>2. RunningHasRun'
      BY <2>10 DEF RejectState, Resolved, RunningHasRun, Safe, SingleRun, FinishedAnswersNewest, StepStatus
    <3>3. RerunHasReader'
      BY <2>10 DEF RejectState, Resolved, RerunHasReader, Safe, SingleRun, FinishedAnswersNewest, StepStatus
    <3>4. Cared'
      BY <2>10 DEF RejectState, Resolved, Cared, SenderActs, RunComes, WrapUpActs, Halted, Safe, SingleRun, FinishedAnswersNewest, StepStatus
    <3> QED
      BY <3>1, <3>2, <3>3, <3>4
  <2>11. CASE Recover
    <3>1. KindsRight'
      BY <2>11 DEF Recover, KindsRight
    <3>2. RunningHasRun'
      BY <2>11 DEF Recover, RunningHasRun, Safe, SingleRun, FinishedAnswersNewest, StepStatus
    <3>3. RerunHasReader'
      BY <2>11 DEF Recover, RerunHasReader, Safe, SingleRun, FinishedAnswersNewest, StepStatus
    <3>4. Cared'
      BY <2>11 DEF Recover, Cared, SenderActs, RunComes, WrapUpActs, Halted, Safe, SingleRun, FinishedAnswersNewest, StepStatus
    <3> QED
      BY <3>1, <3>2, <3>3, <3>4
  <2>12. ASSUME NEW x \in Actors, EnterRun(x) PROVE Served'
    <3>1. KindsRight'
      BY <2>12 DEF EnterRun, Leave, Refuse, RunTaskLive, RefusalSticks, KindsRight
    <3>2. RunningHasRun'
      BY <2>12 DEF EnterRun, Leave, Refuse, RunTaskLive, RefusalSticks, RunningHasRun, Safe, SingleRun, FinishedAnswersNewest, StepStatus
    <3>3. RerunHasReader'
      <4>1. \A t \in Tasks : pc[t] \in Active \cup {"publish"} => pc'[t] = pc[t]
        BY <2>12 DEF EnterRun, Leave, Refuse
      <4>2. closing' = closing /\ (rerun' => rerun \/ runTask # None)
        BY <2>12 DEF EnterRun, Leave, Refuse, RunTaskLive
      <4>3. runTask # None => runTask \in Tasks /\ pc[runTask] \in Active
        BY DEF Safe, SingleRun
      <4> QED
        BY <4>1, <4>2, <4>3 DEF RerunHasReader
    <3>4. Cared'
      BY <2>12 DEF EnterRun, Leave, Refuse, RunTaskLive, RefusalSticks, Cared, SenderActs, RunComes, WrapUpActs, Halted, Safe, SingleRun, FinishedAnswersNewest, StepStatus
    <3> QED
      BY <3>1, <3>2, <3>3, <3>4
  <2>13. ASSUME NEW x \in Actors, FinishRun(x) PROVE Served'
    <3>1. KindsRight'
      BY <2>13 DEF FinishRun, Leave, Refuse, RunTaskLive, RefusalSticks, Create, NewTasks, FreeTasks, Superseded, KindsRight
    <3>2. RunningHasRun'
      BY <2>13 DEF FinishRun, Leave, Refuse, RunTaskLive, RefusalSticks, Create, NewTasks, FreeTasks, Superseded, RunningHasRun, Safe, SingleRun, FinishedAnswersNewest, StepStatus
    <3>3. RerunHasReader'
      <4>1. \A t \in Tasks : pc[t] \in Active \cup {"publish"} => pc'[t] = pc[t]
        <5>1. CASE Refuse(x) \/ Leave(x)
          BY <2>13, <5>1 DEF FinishRun, Leave, Refuse
        <5>2. ASSUME NEW u \in NewTasks(x), Create(x, u)
              PROVE  \A t \in Tasks : pc[t] \in Active \cup {"publish"} => pc'[t] = pc[t]
          BY <2>13, <5>2 DEF FinishRun, Create, NewTasks, FreeTasks
        <5> QED
          BY <2>13, <5>1, <5>2, Zenon DEF FinishRun
      <4>2. closing' = closing /\ (rerun' => rerun \/ runTask # None \/ status = "running")
        BY <2>13 DEF FinishRun, Leave, Refuse, Create, RunTaskLive
      <4>3. runTask # None => runTask \in Tasks /\ pc[runTask] \in Active
        BY DEF Safe, SingleRun
      <4> QED
        BY <4>1, <4>2, <4>3 DEF RerunHasReader, RunningHasRun
    <3>4. Cared'
      <4> SUFFICES ASSUME closing' = "open", owed' > consumed'
                   PROVE  (intent \/ taken \/ SenderActs \/ RunComes \/ rerun \/ WrapUpActs \/ Halted)'
        BY DEF Cared
      <4>0. /\ UNCHANGED <<closing, owed, consumed, taken, status, wd>> /\ pc[x] = "locked"
            /\ intent \/ taken \/ SenderActs \/ RunComes \/ rerun \/ WrapUpActs \/ Halted
        BY <2>13 DEF FinishRun, Leave, Refuse, Create, Cared
      <4>1. ASSUME Refuse(x) \/ Leave(x), ~rerun'
            PROVE  (intent \/ taken \/ SenderActs \/ RunComes \/ WrapUpActs \/ Halted)'
        <5>1. /\ kind' = [kind EXCEPT ![x] = "none"] /\ UNCHANGED <<intent, runTask>>
              /\ pc' = [pc EXCEPT ![x] = "idle"] /\ moved' = [moved EXCEPT ![x] = FALSE] /\ ~rerun
          BY <4>1 DEF Refuse, Leave
        <5>2. x \notin Tasks /\ (kind[x] = "send" => moved[x])
          BY <2>13, <4>0, <4>1 DEF FinishRun, Refuse, Leave, RefusalSticks, RunTaskLive, Superseded, Create, KindsRight
        <5>3. SenderActs => SenderActs'
          BY <5>1, <5>2 DEF SenderActs
        <5>4. (RunComes => RunComes') /\ (WrapUpActs => WrapUpActs') /\ (Halted => Halted')
          BY <4>0, <5>1, <5>2 DEF RunComes, WrapUpActs, Halted
        <5> QED
          BY <4>0, <5>1, <5>3, <5>4
      <4>2. ASSUME NEW u \in NewTasks(x), Create(x, u) PROVE RunComes'
        BY <4>2 DEF Create, NewTasks, FreeTasks, RunComes
      <4> QED
        BY <2>13, <4>1, <4>2, Zenon DEF FinishRun
    <3> QED
      BY <3>1, <3>2, <3>3, <3>4
  <2>14. ASSUME NEW t \in Tasks, Begin(t) PROVE Served'
    <3>1. KindsRight'
      BY <2>14 DEF Begin, Started, KindsRight
    <3>2. RunningHasRun'
      BY <2>14 DEF Begin, Started, RunningHasRun, Safe, SingleRun, FinishedAnswersNewest, StepStatus
    <3>3. RerunHasReader'
      BY <2>14 DEF Begin, Started, RerunHasReader, Safe, SingleRun, FinishedAnswersNewest, StepStatus
    <3>4. Cared'
      BY <2>14 DEF Begin, Started, Cared, SenderActs, RunComes, WrapUpActs, Halted, Safe, SingleRun, FinishedAnswersNewest, StepStatus
    <3> QED
      BY <3>1, <3>2, <3>3, <3>4
  <2>15. ASSUME NEW t \in Tasks, Ready(t) PROVE Served'
    <3>1. KindsRight'
      BY <2>15 DEF Ready, KindsRight
    <3>2. RunningHasRun'
      BY <2>15 DEF Ready, RunningHasRun, Safe, SingleRun, FinishedAnswersNewest, StepStatus
    <3>3. RerunHasReader'
      BY <2>15 DEF Ready, RerunHasReader, Safe, SingleRun, FinishedAnswersNewest, StepStatus
    <3>4. Cared'
      BY <2>15 DEF Ready, Cared, SenderActs, RunComes, WrapUpActs, Halted, Safe, SingleRun, FinishedAnswersNewest, StepStatus
    <3> QED
      BY <3>1, <3>2, <3>3, <3>4
  <2>16. ASSUME NEW t \in Tasks, LoopStop(t) PROVE Served'
    <3>1. KindsRight'
      BY <2>16 DEF LoopStop, EndLoop, KindsRight
    <3>2. RunningHasRun'
      BY <2>16 DEF LoopStop, EndLoop, RunningHasRun, Safe, SingleRun, FinishedAnswersNewest, StepStatus
    <3>3. RerunHasReader'
      BY <2>16 DEF LoopStop, EndLoop, RerunHasReader, Safe, SingleRun, FinishedAnswersNewest, StepStatus
    <3>4. Cared'
      BY <2>16 DEF LoopStop, EndLoop, Cared, SenderActs, RunComes, WrapUpActs, Halted, Safe, SingleRun, FinishedAnswersNewest, StepStatus
    <3> QED
      BY <3>1, <3>2, <3>3, <3>4
  <2>17. ASSUME NEW t \in Tasks, LoopFinished(t) PROVE Served'
    <3>1. KindsRight'
      BY <2>17 DEF LoopFinished, EndLoop, KindsRight
    <3>2. RunningHasRun'
      BY <2>17 DEF LoopFinished, EndLoop, RunningHasRun, Safe, SingleRun, FinishedAnswersNewest, StepStatus
    <3>3. RerunHasReader'
      BY <2>17 DEF LoopFinished, EndLoop, RerunHasReader, Safe, SingleRun, FinishedAnswersNewest, StepStatus
    <3>4. Cared'
      BY <2>17 DEF LoopFinished, EndLoop, Cared, SenderActs, RunComes, WrapUpActs, Halted, Safe, SingleRun, FinishedAnswersNewest, StepStatus
    <3> QED
      BY <3>1, <3>2, <3>3, <3>4
  <2>18. ASSUME NEW t \in Tasks, LoopStep(t) PROVE Served'
    <3>1. KindsRight'
      BY <2>18 DEF LoopStep, EndLoop, KindsRight
    <3>2. RunningHasRun'
      BY <2>18 DEF LoopStep, EndLoop, RunningHasRun, Safe, SingleRun, FinishedAnswersNewest, StepStatus
    <3>3. RerunHasReader'
      BY <2>18 DEF LoopStep, EndLoop, RerunHasReader, Safe, SingleRun, FinishedAnswersNewest, StepStatus
    <3>4. Cared'
      BY <2>18 DEF LoopStep, EndLoop, Cared, SenderActs, RunComes, WrapUpActs, Halted, Safe, SingleRun, FinishedAnswersNewest, StepStatus
    <3> QED
      BY <3>1, <3>2, <3>3, <3>4
  <2>19. ASSUME NEW t \in Tasks, NEW o \in Outcomes(pc[t]), NEW b \in BOOLEAN, StepEnd(t, o, b) PROVE Served'
    <3>1. KindsRight'
      BY <2>19 DEF StepEnd, EndLoop, Resolved, KindsRight
    <3>2. RunningHasRun'
      BY <2>19 DEF StepEnd, EndLoop, Resolved, RunningHasRun, Safe, SingleRun, FinishedAnswersNewest, StepStatus
    <3>3. RerunHasReader'
      <4>1. UNCHANGED <<closing, rerun>> /\ \E q \in {"tail", "loop"} : Go(t, q)
        BY <2>19 DEF StepEnd, EndLoop
      <4> QED
        BY <4>1 DEF RerunHasReader
    <3>4. Cared'
      BY <2>19 DEF StepEnd, EndLoop, Resolved, Cared, SenderActs, RunComes, WrapUpActs, Halted, Safe, SingleRun, FinishedAnswersNewest, StepStatus
    <3> QED
      BY <3>1, <3>2, <3>3, <3>4
  <2>20. ASSUME NEW t \in Tasks, Fail(t) PROVE Served'
    <3>1. KindsRight'
      BY <2>20 DEF Fail, EndLoop, KindsRight
    <3>2. RunningHasRun'
      BY <2>20 DEF Fail, EndLoop, RunningHasRun, Safe, SingleRun, FinishedAnswersNewest, StepStatus
    <3>3. RerunHasReader'
      BY <2>20 DEF Fail, EndLoop, RerunHasReader, Safe, SingleRun, FinishedAnswersNewest, StepStatus
    <3>4. Cared'
      BY <2>20 DEF Fail, EndLoop, Cared, SenderActs, RunComes, WrapUpActs, Halted, Safe, SingleRun, FinishedAnswersNewest, StepStatus
    <3> QED
      BY <3>1, <3>2, <3>3, <3>4
  <2>21. ASSUME NEW t \in Tasks, Cancelled(t) PROVE Served'
    <3>1. KindsRight'
      BY <2>21 DEF Cancelled, EndLoop, Resolved, KindsRight
    <3>2. RunningHasRun'
      BY <2>21 DEF Cancelled, EndLoop, Resolved, RunningHasRun, Safe, SingleRun, FinishedAnswersNewest, StepStatus
    <3>3. RerunHasReader'
      BY <2>21 DEF Cancelled, EndLoop, Resolved, RerunHasReader, Safe, SingleRun, FinishedAnswersNewest, StepStatus
    <3>4. Cared'
      BY <2>21 DEF Cancelled, EndLoop, Resolved, Cared, SenderActs, RunComes, WrapUpActs, Halted, Safe, SingleRun, FinishedAnswersNewest, StepStatus
    <3> QED
      BY <3>1, <3>2, <3>3, <3>4
  <2>22. ASSUME NEW t \in Tasks, FreeRunTask(t) PROVE Served'
    <3>1. KindsRight'
      BY <2>22 DEF FreeRunTask, KindsRight
    <3>2. RunningHasRun'
      BY <2>22 DEF FreeRunTask, RunningHasRun, Safe, SingleRun, FinishedAnswersNewest, StepStatus
    <3>3. RerunHasReader'
      BY <2>22 DEF FreeRunTask, RerunHasReader, Safe, SingleRun, FinishedAnswersNewest, StepStatus
    <3>4. Cared'
      BY <2>22 DEF FreeRunTask, Cared, SenderActs, RunComes, WrapUpActs, Halted, Safe, SingleRun, FinishedAnswersNewest, StepStatus
    <3> QED
      BY <3>1, <3>2, <3>3, <3>4
  <2>23. ASSUME NEW t \in Tasks, ReadFlags(t) PROVE Served'
    <3>1. KindsRight'
      BY <2>23 DEF ReadFlags, KindsRight
    <3>2. RunningHasRun'
      BY <2>23 DEF ReadFlags, RunningHasRun, Safe, SingleRun, FinishedAnswersNewest, StepStatus
    <3>3. RerunHasReader'
      BY <2>23 DEF ReadFlags, RerunHasReader, Safe, SingleRun, FinishedAnswersNewest, StepStatus
    <3>4. Cared'
      BY <2>23 DEF ReadFlags, Cared, SenderActs, RunComes, WrapUpActs, Halted, Safe, SingleRun, FinishedAnswersNewest, StepStatus
    <3> QED
      BY <3>1, <3>2, <3>3, <3>4
  <2>24. ASSUME NEW t \in Tasks, Recheck(t) PROVE Served'
    <3>1. KindsRight'
      BY <2>24 DEF Recheck, KindsRight
    <3>2. RunningHasRun'
      BY <2>24 DEF Recheck, RunningHasRun, Safe, SingleRun, FinishedAnswersNewest, StepStatus
    <3>3. RerunHasReader'
      BY <2>24 DEF Recheck, RerunHasReader, Safe, SingleRun, FinishedAnswersNewest, StepStatus
    <3>4. Cared'
      <4> SUFFICES ASSUME closing' = "open", owed' > consumed'
                   PROVE  (intent \/ taken \/ SenderActs \/ RunComes \/ rerun \/ WrapUpActs \/ Halted)'
        BY DEF Cared
      <4>0. /\ UNCHANGED <<closing, owed, consumed, last, taken, intent, status, wd, rerun, runTask>>
            /\ pc[t] = "recheck"
            /\ intent \/ taken \/ SenderActs \/ RunComes \/ rerun \/ WrapUpActs \/ Halted
        BY <2>24 DEF Recheck, Cared
      <4>1. pc' = [pc EXCEPT ![t] = IF ~moved[t] /\ status = "idle" THEN "run" ELSE "idle"]
        BY <2>24 DEF Recheck
      <4>2. SenderActs => SenderActs'
        BY <2>24, <4>1 DEF Recheck, SenderActs
      <4>3. (RunComes => RunComes') /\ (Halted => Halted')
        BY <4>0, <4>1 DEF RunComes, Halted
      <4>4. WrapUpActs => WrapUpActs' \/ Halted'
        <5> SUFFICES ASSUME WrapUpActs PROVE WrapUpActs' \/ Halted'
          OBVIOUS
        <5>1. CASE ~moved[t] /\ status = "idle"
          BY <4>0, <4>1, <5>1 DEF WrapUpActs
        <5>2. CASE moved[t]
          <6>1. \E u \in Tasks \ {t} : pc[u] \in {"run", "locked"} \/ (pc[u] = "recheck" /\ ~moved[u])
            BY <4>0, <5>2 DEF WrapUpActs
          <6>2. \A u \in Tasks \ {t} : pc'[u] = pc[u] /\ moved'[u] = moved[u]
            BY <2>24, <4>1 DEF Recheck
          <6> QED
            BY <4>0, <6>1, <6>2 DEF WrapUpActs
        <5>3. CASE status # "idle"
          <6>1. \A u \in Tasks : pc[u] \notin Active
            BY DEF WrapUpActs, Safe, SingleRun
          <6>2. status # "running" /\ status # "finished"
            BY <4>0, <6>1 DEF RunningHasRun, Safe, FinishedAnswersNewest
          <6>3. status' \in {"paused", "waiting", "error", "stuck"}
            BY <4>0, <5>3, <6>2 DEF Statuses
          <6>4. \A u \in Tasks : pc'[u] \notin {"init", "loop", "llm", "tools"}
            BY <4>1, <6>1
          <6> QED
            BY <6>3, <6>4 DEF Halted
        <5> QED
          BY <5>1, <5>2, <5>3
      <4> QED
        BY <4>0, <4>2, <4>3, <4>4
    <3> QED
      BY <3>1, <3>2, <3>3, <3>4
  <2>25. ASSUME NEW t \in Tasks, RecordDeadline(t) PROVE Served'
    <3>1. KindsRight'
      BY <2>25 DEF RecordDeadline, KindsRight
    <3>2. RunningHasRun'
      BY <2>25 DEF RecordDeadline, RunningHasRun, Safe, SingleRun, FinishedAnswersNewest, StepStatus
    <3>3. RerunHasReader'
      BY <2>25 DEF RecordDeadline, RerunHasReader, Safe, SingleRun, FinishedAnswersNewest, StepStatus
    <3>4. Cared'
      BY <2>25 DEF RecordDeadline, Cared, SenderActs, RunComes, WrapUpActs, Halted, Safe, SingleRun, FinishedAnswersNewest, StepStatus
    <3> QED
      BY <3>1, <3>2, <3>3, <3>4
  <2>26. ASSUME NEW t \in Tasks, Deadline(t) PROVE Served'
    <3>1. KindsRight'
      BY <2>26 DEF Deadline, CancelArun, Paused, Bump, KindsRight
    <3>2. RunningHasRun'
      BY <2>26 DEF Deadline, CancelArun, Paused, Bump, RunningHasRun, Safe, SingleRun, FinishedAnswersNewest, StepStatus
    <3>3. RerunHasReader'
      BY <2>26 DEF Deadline, CancelArun, Paused, Bump, RerunHasReader, Safe, SingleRun, FinishedAnswersNewest, StepStatus
    <3>4. Cared'
      BY <2>26 DEF Deadline, CancelArun, Paused, Bump, Cared, SenderActs, RunComes, WrapUpActs, Halted, Safe, SingleRun, FinishedAnswersNewest, StepStatus
    <3> QED
      BY <3>1, <3>2, <3>3, <3>4
  <2>27. CASE Close
    <3>1. KindsRight'
      BY <2>27 DEF Close, KindsRight
    <3>2. RunningHasRun'
      BY <2>27 DEF Close, RunningHasRun, Safe, SingleRun, FinishedAnswersNewest, StepStatus
    <3>3. RerunHasReader'
      BY <2>27 DEF Close, RerunHasReader, Safe, SingleRun, FinishedAnswersNewest, StepStatus
    <3>4. Cared'
      BY <2>27 DEF Close, Cared, SenderActs, RunComes, WrapUpActs, Halted, Safe, SingleRun, FinishedAnswersNewest, StepStatus
    <3> QED
      BY <3>1, <3>2, <3>3, <3>4
  <2>28. CASE ClosePause
    <3>1. KindsRight'
      BY <2>28 DEF ClosePause, Paused, KindsRight
    <3>2. RunningHasRun'
      BY <2>28 DEF ClosePause, Paused, RunningHasRun, Safe, SingleRun, FinishedAnswersNewest, StepStatus
    <3>3. RerunHasReader'
      BY <2>28 DEF ClosePause, Paused, RerunHasReader, Safe, SingleRun, FinishedAnswersNewest, StepStatus
    <3>4. Cared'
      BY <2>28 DEF ClosePause, Paused, Cared, SenderActs, RunComes, WrapUpActs, Halted, Safe, SingleRun, FinishedAnswersNewest, StepStatus
    <3> QED
      BY <3>1, <3>2, <3>3, <3>4
  <2>29. CASE CloseCancel
    <3>1. KindsRight'
      BY <2>29 DEF CloseCancel, KindsRight
    <3>2. RunningHasRun'
      BY <2>29 DEF CloseCancel, RunningHasRun, Safe, SingleRun, FinishedAnswersNewest, StepStatus
    <3>3. RerunHasReader'
      BY <2>29 DEF CloseCancel, RerunHasReader, Safe, SingleRun, FinishedAnswersNewest, StepStatus
    <3>4. Cared'
      BY <2>29 DEF CloseCancel, Cared, SenderActs, RunComes, WrapUpActs, Halted, Safe, SingleRun, FinishedAnswersNewest, StepStatus
    <3> QED
      BY <3>1, <3>2, <3>3, <3>4
  <2>30. CASE CloseEnd
    <3>1. KindsRight'
      BY <2>30 DEF CloseEnd, KindsRight
    <3>2. RunningHasRun'
      BY <2>30 DEF CloseEnd, RunningHasRun, Safe, SingleRun, FinishedAnswersNewest, StepStatus
    <3>3. RerunHasReader'
      BY <2>30 DEF CloseEnd, RerunHasReader, Safe, SingleRun, FinishedAnswersNewest, StepStatus
    <3>4. Cared'
      BY <2>30 DEF CloseEnd, Cared, SenderActs, RunComes, WrapUpActs, Halted, Safe, SingleRun, FinishedAnswersNewest, StepStatus
    <3> QED
      BY <3>1, <3>2, <3>3, <3>4
  <2>32. CASE Turn
    <3>1. KindsRight'
      BY <2>32 DEF Turn, KindsRight
    <3>2. RunningHasRun'
      BY <2>32 DEF Turn, RunningHasRun, Safe, SingleRun, FinishedAnswersNewest, StepStatus
    <3>3. RerunHasReader'
      BY <2>32 DEF Turn, RerunHasReader, Safe, SingleRun, FinishedAnswersNewest, StepStatus
    <3>4. Cared'
      BY <2>32 DEF Turn, Cared, SenderActs, RunComes, WrapUpActs, Halted, Safe, SingleRun, FinishedAnswersNewest, StepStatus
    <3> QED
      BY <3>1, <3>2, <3>3, <3>4
  <2>31. CASE UNCHANGED vars
    <3>1. KindsRight'
      BY <2>31 DEF vars, KindsRight
    <3>2. RunningHasRun'
      BY <2>31 DEF vars, RunningHasRun, Safe, SingleRun, FinishedAnswersNewest, StepStatus
    <3>3. RerunHasReader'
      BY <2>31 DEF vars, RerunHasReader, Safe, SingleRun, FinishedAnswersNewest, StepStatus
    <3>4. Cared'
      BY <2>31 DEF vars, Cared, SenderActs, RunComes, WrapUpActs, Halted, Safe, SingleRun, FinishedAnswersNewest, StepStatus
    <3> QED
      BY <3>1, <3>2, <3>3, <3>4
  <2> QED
    <3> HIDE DEF TypeOK, Actors, Safe, Served
    <3>1. ASSUME NEW c \in Clients, NEW k \in {"note", "send"},
                 \/ Send(c, k) \/ Resume(c) \/ Pause(c) \/ Interrupt(c) \/ Reject(c)
                 \/ ClientStep(c)
          PROVE  Served'
      BY <3>1, <2>1, <2>2, <2>3, <2>4, <2>5, <2>6, <2>7, <2>8, <2>9, <2>10, Zenon
      DEF ClientStep
    <3>2. ASSUME NEW t \in Tasks, TaskStep(t) \/ Deadline(t) PROVE Served'
      BY <3>2, <2>14, <2>15, <2>16, <2>17, <2>18, <2>19, <2>20, <2>21, <2>22, <2>23,
         <2>24, <2>25, <2>26, Zenon
      DEF TaskStep
    <3> QED
      BY <3>1, <3>2, <2>11, <2>12, <2>13, <2>27, <2>28, <2>29, <2>30, <2>31, <2>32, Zenon
      DEF Next, CloseStep
<1> QED
  BY <1>1, <1>2, TypeCorrect, InductiveInvariant, PTL DEF Spec

\* Sets of requests: one leaves, one may take its place.
LEMMA OneForOne ==
    ASSUME NEW T, NEW U, NEW a, NEW b, IsFiniteSet(T)
    PROVE  /\ U \subseteq T \cup {b}
              => IsFiniteSet(U) /\ Cardinality(U) \in Nat /\ Cardinality(U) <= Cardinality(T) + 1
           /\ U \subseteq T => IsFiniteSet(U) /\ Cardinality(U) \in Nat /\ Cardinality(U) <= Cardinality(T)
           /\ a \in T /\ U \subseteq T \ {a}
              => IsFiniteSet(U) /\ Cardinality(U) \in Nat /\ Cardinality(U) + 1 <= Cardinality(T)
           /\ a \in T /\ U \subseteq (T \ {a}) \cup {b}
              => IsFiniteSet(U) /\ Cardinality(U) \in Nat /\ Cardinality(U) <= Cardinality(T)
<1>1. Cardinality(T) \in Nat
  BY FS_CardinalityType
<1>2. ASSUME NEW S, IsFiniteSet(S)
      PROVE  /\ IsFiniteSet(S \cup {b}) /\ Cardinality(S \cup {b}) \in Nat
             /\ Cardinality(S \cup {b}) <= Cardinality(S) + 1
             /\ Cardinality(S) \in Nat
  <2>1. IsFiniteSet(S \cup {b}) /\ Cardinality(S) \in Nat
    BY <1>2, FS_AddElement, FS_CardinalityType
  <2>2. Cardinality(S \cup {b}) = Cardinality(S) \/ Cardinality(S \cup {b}) = Cardinality(S) + 1
    BY <1>2, FS_AddElement
  <2> QED
    BY <2>1, <2>2
<1>3. ASSUME NEW S, IsFiniteSet(S), U \subseteq S
      PROVE  IsFiniteSet(U) /\ Cardinality(U) \in Nat /\ Cardinality(U) <= Cardinality(S)
  BY <1>3, FS_Subset, FS_CardinalityType
<1>4. a \in T => IsFiniteSet(T \ {a}) /\ Cardinality(T \ {a}) = Cardinality(T) - 1
  BY FS_RemoveElement
<1>5. ASSUME U \subseteq T \cup {b}
      PROVE  IsFiniteSet(U) /\ Cardinality(U) \in Nat /\ Cardinality(U) <= Cardinality(T) + 1
  <2>1. /\ IsFiniteSet(T \cup {b}) /\ Cardinality(T \cup {b}) \in Nat
        /\ Cardinality(T \cup {b}) <= Cardinality(T) + 1
    BY <1>2
  <2> QED
    BY <1>1, <1>3, <1>5, <2>1
<1>6. ASSUME a \in T, U \subseteq T \ {a}
      PROVE  IsFiniteSet(U) /\ Cardinality(U) \in Nat /\ Cardinality(U) + 1 <= Cardinality(T)
  BY <1>1, <1>3, <1>4, <1>6
<1>7. ASSUME a \in T, U \subseteq (T \ {a}) \cup {b}
      PROVE  IsFiniteSet(U) /\ Cardinality(U) \in Nat /\ Cardinality(U) <= Cardinality(T)
  <2> DEFINE S == T \ {a}
  <2>1. IsFiniteSet(S) /\ Cardinality(S) + 1 = Cardinality(T)
    BY <1>1, <1>4, <1>7
  <2>2. U \subseteq S \cup {b}
    BY <1>7
  <2> HIDE DEF S
  <2>3. IsFiniteSet(S \cup {b}) /\ Cardinality(S \cup {b}) \in Nat
        /\ Cardinality(S \cup {b}) <= Cardinality(S) + 1
    BY <1>2, <2>1
  <2> QED
    BY <1>1, <1>3, <2>1, <2>2, <2>3
<1> QED
  BY <1>3, <1>5, <1>6, <1>7

\* What a step may do to the open requests: drop some, take a new one that was
\* asked for, hand one on, or turn one into a run.
Allowed ==
    \/ Open' \subseteq Open /\ runs' = runs /\ asks' \in {asks, asks + 1}
    \/ \E x : Open' \subseteq Open \cup {x} /\ runs' = runs /\ asks' = asks + 1
    \/ \E x, y : x \in Open /\ Open' \subseteq (Open \ {x}) \cup {y} /\ runs' = runs /\ asks' = asks
    \/ \E x : x \in Open /\ Open' \subseteq Open \ {x} /\ runs' = runs + 1 /\ asks' = asks

LEMMA AllowedCounted ==
    ASSUME TypeOK, Counted, Allowed PROVE Counted'
<1>1. /\ IsFiniteSet(Open) /\ Cardinality(Open) \in Nat /\ runs \in Nat /\ asks \in Nat
      /\ Cardinality(Open) + runs <= asks
  BY FS_CardinalityType DEF Counted, TypeOK, ValuesOK
<1>2. CASE Open' \subseteq Open /\ runs' = runs /\ asks' \in {asks, asks + 1}
  <2>1. IsFiniteSet(Open') /\ Cardinality(Open') \in Nat /\ Cardinality(Open') <= Cardinality(Open)
    BY <1>1, <1>2, OneForOne
  <2> QED
    BY <1>1, <1>2, <2>1 DEF Counted
<1>3. ASSUME NEW x, Open' \subseteq Open \cup {x}, runs' = runs, asks' = asks + 1 PROVE Counted'
  <2>1. IsFiniteSet(Open') /\ Cardinality(Open') \in Nat /\ Cardinality(Open') <= Cardinality(Open) + 1
    BY <1>1, <1>3, OneForOne
  <2> QED
    BY <1>1, <1>3, <2>1 DEF Counted
<1>4. ASSUME NEW x, NEW y, x \in Open, Open' \subseteq (Open \ {x}) \cup {y}, runs' = runs, asks' = asks
      PROVE  Counted'
  <2>1. IsFiniteSet(Open') /\ Cardinality(Open') \in Nat /\ Cardinality(Open') <= Cardinality(Open)
    BY <1>1, <1>4, OneForOne
  <2> QED
    BY <1>1, <1>4, <2>1 DEF Counted
<1>5. ASSUME NEW x, x \in Open, Open' \subseteq Open \ {x}, runs' = runs + 1, asks' = asks
      PROVE  Counted'
  <2>1. IsFiniteSet(Open') /\ Cardinality(Open') \in Nat /\ Cardinality(Open') + 1 <= Cardinality(Open)
    BY <1>1, <1>5, OneForOne
  <2> QED
    BY <1>1, <1>5, <2>1 DEF Counted
<1> QED
  BY <1>2, <1>3, <1>4, <1>5 DEF Allowed

\* Every step is of one of these kinds: Refuse, AfterAppend and ReadFlags hand a request
\* on, Create turns one into a run.
LEMMA CountedInvariant == Spec => []Counted
<1>1. Init => Counted
  <2> SUFFICES ASSUME Init PROVE Counted
    OBVIOUS
  <2>1. Open = {}
    BY DEF Init, Open, Asking, Actors
  <2> QED
    BY <2>1, FS_EmptySet DEF Init, Counted
<1>2. TypeOK /\ TypeOK' /\ KindsRight /\ Counted /\ [Next]_vars => Counted'
  <2> SUFFICES ASSUME TypeOK, TypeOK', KindsRight, Counted, [Next]_vars PROVE Allowed
    BY AllowedCounted
  <2> USE DEF TypeOK, ValuesOK, FlagsOK, ClientPcs, TaskPcs, Active, Wrapping, InArun,
              conv, svc, clos, task, ghost, Go, Rest
  <2>1. ASSUME NEW c \in Clients, NEW k \in {"note", "send"}, Send(c, k) PROVE Allowed
    <3>1. UNCHANGED <<rerun, intent, runs>>
      BY <2>1 DEF Send
    <3>2. \A x \in Actors \ {c} : pc'[x] = pc[x] /\ kind'[x] = kind[x]
      BY <2>1 DEF Send, Actors
    <3>3. Open' \subseteq Open \cup {c}
      BY <3>1, <3>2 DEF Open, Asking
    <3>4. CASE k = "send"
      BY <2>1, <3>1, <3>3, <3>4 DEF Send, Allowed
    <3>5. CASE k = "note"
      <4>1. c \notin Open' /\ asks' = asks
        BY <2>1, <3>5 DEF Send, Open, Asking, Actors
      <4> QED
        BY <3>1, <3>3, <4>1 DEF Allowed
    <3> QED
      BY <3>4, <3>5
  <2>2. ASSUME NEW c \in Clients, Resume(c) PROVE Allowed
    <3>1. UNCHANGED <<rerun, intent, runs>> /\ asks' = asks + 1
      BY <2>2 DEF Resume
    <3>2. \A x \in Actors \ {c} : pc'[x] = pc[x] /\ kind'[x] = kind[x]
      BY <2>2 DEF Resume, Actors
    <3>3. Open' \subseteq Open \cup {c}
      BY <3>1, <3>2 DEF Open, Asking
    <3> QED
      BY <3>1, <3>3 DEF Allowed
  <2>3. ASSUME NEW c \in Clients, Pause(c) PROVE Allowed
    BY <2>3 DEF Pause, Bump, Allowed, Open, Asking, Actors
  <2>4. ASSUME NEW c \in Clients, Interrupt(c) PROVE Allowed
    BY <2>4 DEF Interrupt, CancelArun, Paused, Bump, Allowed, Open, Asking, Actors
  <2>5. ASSUME NEW c \in Clients, Reject(c) PROVE Allowed
    BY <2>5 DEF Reject, Allowed, Open, Asking, Actors
  <2>6. ASSUME NEW c \in Clients, AppendMessage(c) PROVE Allowed
    BY <2>6 DEF AppendMessage, Allowed, Open, Asking, Actors
  <2>7. ASSUME NEW c \in Clients, AfterAppend(c) PROVE Allowed
    <3>1. /\ UNCHANGED <<rerun, runs, asks>>
          /\ \A x \in Actors \ {c} : pc'[x] = pc[x] /\ kind'[x] = kind[x]
      BY <2>7 DEF AfterAppend, Actors
    <3>2. CASE kind[c] = "send" /\ ~moved[c] /\ Go(c, "run") /\ UNCHANGED intent
      <4>1. c \in Open
        BY <2>7, <3>2 DEF AfterAppend, Open, Asking, Actors
      <4>2. Open' \subseteq Open
        BY <3>1, <3>2, <4>1 DEF Open, Asking
      <4> QED
        BY <3>1, <4>2 DEF Allowed
    <3>3. CASE intent' = (intent \/ kind[c] = "send") /\ Rest(c)
      <4>1. pc'[c] = "idle" /\ c # Sched
        BY <3>3 DEF Actors
      <4>2. c \notin Open'
        BY <4>1 DEF Open, Asking
      <4>3. CASE kind[c] = "send"
        <5>1. c \in Open
          BY <2>7, <4>3 DEF AfterAppend, Open, Asking, Actors
        <5>2. Open' \subseteq (Open \ {c}) \cup {Sched}
          BY <3>1, <4>2 DEF Open, Asking
        <5> QED
          BY <3>1, <5>1, <5>2 DEF Allowed
      <4>4. CASE kind[c] # "send"
        <5>1. Open' \subseteq Open
          BY <3>1, <3>3, <4>2, <4>4 DEF Open, Asking
        <5> QED
          BY <3>1, <5>1 DEF Allowed
      <4> QED
        BY <4>3, <4>4
    <3> QED
      BY <2>7, <3>2, <3>3 DEF AfterAppend
  <2>8. ASSUME NEW c \in Clients, PauseState(c) PROVE Allowed
    BY <2>8 DEF PauseState, Paused, Allowed, Open, Asking, Actors
  <2>9. ASSUME NEW c \in Clients, InterruptDone(c) PROVE Allowed
    BY <2>9 DEF InterruptDone, Allowed, Open, Asking, Actors
  <2>10. ASSUME NEW c \in Clients, RejectState(c) PROVE Allowed
    BY <2>10 DEF RejectState, Resolved, Allowed, Open, Asking, Actors
  <2>11. CASE Recover
    BY <2>11 DEF Recover, Allowed, Open, Asking, Actors
  <2>12. ASSUME NEW x \in Actors, EnterRun(x) PROVE Allowed
    <3>1. ASSUME Refuse(x) \/ Leave(x), pc[x] \in {"run", "locked"} PROVE Allowed
      <4>1. /\ UNCHANGED <<intent, runs, asks>> /\ pc'[x] = "idle"
            /\ \A y \in Actors \ {x} : pc'[y] = pc[y] /\ kind'[y] = kind[y]
            /\ rerun' => rerun \/ x # Sched
        BY <3>1 DEF Refuse, Leave, RefusalSticks, KindsRight, Actors
      <4>2. x \in Open
        BY <3>1 DEF Open, Asking
      <4>3. CASE x = Sched
        <5>1. Open' \subseteq Open
          BY <4>1, <4>2, <4>3 DEF Open, Asking
        <5> QED
          BY <4>1, <5>1 DEF Allowed
      <4>4. CASE x # Sched
        <5>1. Open' \subseteq (Open \ {x}) \cup {None}
          BY <4>1, <4>4 DEF Open, Asking
        <5> QED
          BY <4>1, <4>2, <5>1 DEF Allowed
      <4> QED
        BY <4>3, <4>4
    <3>2. CASE /\ runLock' = x /\ Go(x, "locked") /\ pc[x] = "run"
               /\ UNCHANGED <<conv, runTask, rerun, intent, clos, kind, moved, task, ghost>>
      BY <3>2 DEF Allowed, Open, Asking
    <3> QED
      BY <2>12, <3>1, <3>2, Zenon DEF EnterRun
  <2>13. ASSUME NEW x \in Actors, FinishRun(x) PROVE Allowed
    <3>1. ASSUME Refuse(x) \/ Leave(x), pc[x] \in {"run", "locked"} PROVE Allowed
      <4>1. /\ UNCHANGED <<intent, runs, asks>> /\ pc'[x] = "idle"
            /\ \A y \in Actors \ {x} : pc'[y] = pc[y] /\ kind'[y] = kind[y]
            /\ rerun' => rerun \/ x # Sched
        BY <3>1 DEF Refuse, Leave, RefusalSticks, KindsRight, Actors
      <4>2. x \in Open
        BY <3>1 DEF Open, Asking
      <4>3. CASE x = Sched
        <5>1. Open' \subseteq Open
          BY <4>1, <4>2, <4>3 DEF Open, Asking
        <5> QED
          BY <4>1, <5>1 DEF Allowed
      <4>4. CASE x # Sched
        <5>1. Open' \subseteq (Open \ {x}) \cup {None}
          BY <4>1, <4>4 DEF Open, Asking
        <5> QED
          BY <4>1, <4>2, <5>1 DEF Allowed
      <4> QED
        BY <4>3, <4>4
    <3>2. ASSUME NEW t \in NewTasks(x), Create(x, t), pc[x] = "locked" PROVE Allowed
      <4>1. /\ UNCHANGED <<rerun, asks>> /\ runs' = runs + 1 /\ ~intent' /\ pc'[x] \in {"idle", "created"}
            /\ \A y \in Actors \ {x, t} : pc'[y] = pc[y] /\ kind'[y] = kind[y]
        BY <3>2 DEF Create, NewTasks, FreeTasks, Actors
      <4>2. t \in Tasks /\ pc'[t] = "created"
        BY <3>2 DEF Create, NewTasks, FreeTasks, Actors
      <4>3. x \in Open
        BY <3>2 DEF Open, Asking
      <4>4. Open' \subseteq Open \ {x}
        <5>1. None \notin Actors
          BY DEF Actors
        <5> QED
          BY <4>1, <4>2, <5>1 DEF Open, Asking
      <4> QED
        BY <4>1, <4>3, <4>4 DEF Allowed
    <3> QED
      BY <2>13, <3>1, <3>2, Zenon DEF FinishRun
  <2>14. ASSUME NEW t \in Tasks, Begin(t) PROVE Allowed
    BY <2>14 DEF Begin, Started, Allowed, Open, Asking, Actors
  <2>15. ASSUME NEW t \in Tasks, Ready(t) PROVE Allowed
    BY <2>15 DEF Ready, Allowed, Open, Asking, Actors
  <2>16. ASSUME NEW t \in Tasks, LoopStop(t) PROVE Allowed
    BY <2>16 DEF LoopStop, EndLoop, Allowed, Open, Asking, Actors
  <2>17. ASSUME NEW t \in Tasks, LoopFinished(t) PROVE Allowed
    BY <2>17 DEF LoopFinished, EndLoop, Allowed, Open, Asking, Actors
  <2>18. ASSUME NEW t \in Tasks, LoopStep(t) PROVE Allowed
    BY <2>18 DEF LoopStep, EndLoop, Allowed, Open, Asking, Actors
  <2>19. ASSUME NEW t \in Tasks, NEW o \in Outcomes(pc[t]), NEW b \in BOOLEAN, StepEnd(t, o, b) PROVE Allowed
    BY <2>19 DEF StepEnd, EndLoop, Resolved, Allowed, Open, Asking, Actors
  <2>20. ASSUME NEW t \in Tasks, Fail(t) PROVE Allowed
    BY <2>20 DEF Fail, EndLoop, Allowed, Open, Asking, Actors
  <2>21. ASSUME NEW t \in Tasks, Cancelled(t) PROVE Allowed
    BY <2>21 DEF Cancelled, EndLoop, Resolved, Allowed, Open, Asking, Actors
  <2>22. ASSUME NEW t \in Tasks, FreeRunTask(t) PROVE Allowed
    BY <2>22 DEF FreeRunTask, Allowed, Open, Asking, Actors
  <2>23. ASSUME NEW t \in Tasks, ReadFlags(t) PROVE Allowed
    <3>1. /\ UNCHANGED <<kind, intent, runs, asks>> /\ ~rerun'
          /\ \A x \in Actors \ {t} : pc'[x] = pc[x]
          /\ pc'[t] = IF rerun THEN "recheck" ELSE "idle"
      BY <2>23 DEF ReadFlags, Actors
    <3>2. t # Sched /\ t \in Actors /\ None \notin Actors
      BY DEF Actors
    <3>3. CASE rerun
      <4>1. None \in Open /\ Open' \subseteq (Open \ {None}) \cup {t}
        BY <3>1, <3>2, <3>3 DEF Open, Asking
      <4> QED
        BY <3>1, <4>1 DEF Allowed
    <3>4. CASE ~rerun
      <4>1. Open' \subseteq Open
        BY <3>1, <3>2, <3>4 DEF Open, Asking
      <4> QED
        BY <3>1, <4>1 DEF Allowed
    <3> QED
      BY <3>3, <3>4
  <2>24. ASSUME NEW t \in Tasks, Recheck(t) PROVE Allowed
    BY <2>24 DEF Recheck, Allowed, Open, Asking, Actors
  <2>25. ASSUME NEW t \in Tasks, RecordDeadline(t) PROVE Allowed
    BY <2>25 DEF RecordDeadline, Allowed, Open, Asking, Actors
  <2>26. ASSUME NEW t \in Tasks, Deadline(t) PROVE Allowed
    BY <2>26 DEF Deadline, CancelArun, Paused, Bump, Allowed, Open, Asking, Actors
  <2>27. CASE Close
    BY <2>27 DEF Close, Allowed, Open, Asking, Actors
  <2>28. CASE ClosePause
    BY <2>28 DEF ClosePause, Paused, Allowed, Open, Asking, Actors
  <2>29. CASE CloseCancel
    BY <2>29 DEF CloseCancel, Allowed, Open, Asking, Actors
  <2>30. CASE CloseEnd
    BY <2>30 DEF CloseEnd, Allowed, Open, Asking, Actors
  <2>32. CASE Turn
    BY <2>32 DEF Turn, Allowed, Open, Asking, Actors
  <2>31. CASE UNCHANGED vars
    BY <2>31 DEF vars, Allowed, Open, Asking, Actors
  <2> QED
    <3> HIDE DEF TypeOK, Actors, Allowed
    <3>1. ASSUME NEW c \in Clients, NEW k \in {"note", "send"},
                 \/ Send(c, k) \/ Resume(c) \/ Pause(c) \/ Interrupt(c) \/ Reject(c)
                 \/ ClientStep(c)
          PROVE  Allowed
      BY <3>1, <2>1, <2>2, <2>3, <2>4, <2>5, <2>6, <2>7, <2>8, <2>9, <2>10, Zenon
      DEF ClientStep
    <3>2. ASSUME NEW t \in Tasks, TaskStep(t) \/ Deadline(t) PROVE Allowed
      BY <3>2, <2>14, <2>15, <2>16, <2>17, <2>18, <2>19, <2>20, <2>21, <2>22, <2>23,
         <2>24, <2>25, <2>26, Zenon
      DEF TaskStep
    <3> QED
      BY <3>1, <3>2, <2>11, <2>12, <2>13, <2>27, <2>28, <2>29, <2>30, <2>31, <2>32, Zenon
      DEF Next, CloseStep
<1>3. Served => KindsRight
  BY DEF Served
<1> QED
  BY <1>1, <1>2, <1>3, TypeCorrect, ServedInvariant, PTL DEF Spec

\* Every run was asked for: whatever run(), the wrap-up of a run, the scheduler
\* and stops do to _rerun_requested and _run_intent_pending, one request leads to
\* one run at most.
THEOREM RunsWereAsked == Spec => []NoUnaskedRun
<1>1. TypeOK /\ Counted => NoUnaskedRun
  <2> SUFFICES ASSUME TypeOK, Counted PROVE NoUnaskedRun
    OBVIOUS
  <2>1. Cardinality(Open) \in Nat /\ runs \in Nat /\ asks \in Nat
    BY FS_CardinalityType DEF Counted, TypeOK, ValuesOK
  <2> QED
    BY <2>1 DEF Counted, NoUnaskedRun
<1> QED
  BY <1>1, TypeCorrect, CountedInvariant, PTL

\* No message sent with run=True is left unread in an IDLE conversation at rest:
\* the scheduler has been told of it, or an older wrap-up took the request that
\* was meant for a newer run.
THEOREM NobodyStranded == Spec => []NoStrandedIdle
<1>1. TypeOK /\ Served => NoStrandedIdle
  <2> SUFFICES ASSUME TypeOK, Served, Quiet, closing = "open", status = "idle", owed > consumed
               PROVE  intent \/ taken
    BY DEF NoStrandedIdle
  <2>1. \A x \in Actors : pc[x] = "idle"
    BY DEF Quiet
  <2>2. ~SenderActs /\ ~RunComes /\ ~WrapUpActs
    BY <2>1 DEF SenderActs, RunComes, WrapUpActs, Actors
  <2>3. ~rerun
    BY <2>1 DEF Served, RerunHasReader, Active, InArun, Actors
  <2>4. ~Halted
    BY DEF Halted, Quiet
  <2> QED
    BY <2>2, <2>3, <2>4 DEF Served, Cared
<1> QED
  BY <1>1, TypeCorrect, ServedInvariant, PTL
=============================================================================
