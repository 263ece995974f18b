-------------------------- MODULE EventLoopProofs ---------------------------
(***************************************************************************)
(* Theorems about EventLoop for every set of threads and tasks: type       *)
(* correctness, no lost wake-up, and that the loop's queue implements      *)
(* TaskExecutor.                                                           *)
(***************************************************************************)
EXTENDS EventLoop, SequenceTheorems, TLAPS

\* Front, the only operator of SequencesExt that a step applies to a sequence
\* the type invariant is about, yields a sequence of the same elements.
LEMMA FrontIsSeq == ASSUME NEW S, NEW s \in Seq(S), s # <<>>
                    PROVE  Front(s) \in Seq(S)
<1>1. Front(s) = SubSeq(s, 1, Len(s) - 1)
  BY DEF Front
<1>. QED
  BY <1>1

LEMMA FrontKeepsFirst ==
  ASSUME NEW S, NEW s \in Seq(S), s # <<>>, Len(s) # 1
  PROVE  Front(s) # <<>> /\ Front(s)[1] = s[1]
<1>1. PICK n \in Nat : n = Len(s)
  OBVIOUS
<1>2. n # 0 /\ n # 1
  BY <1>1, EmptySeq
<1>3. Front(s) = SubSeq(s, 1, n - 1)
  BY <1>1 DEF Front
<1>4. n - 1 \in 1 .. n
  BY <1>2
<1>5. Len(Front(s)) = n - 1 /\ Front(s)[1] = s[1]
  BY <1>1, <1>3, <1>4, SubSeqProperties
<1>. QED
  BY <1>4, <1>5

LEMMA TypeInit == Init => TypeOK
<1> SUFFICES ASSUME Init PROVE TypeOK
  OBVIOUS
<1>1. NoCall \in [at : CallStates, task : Task \cup {None}] /\ NoCall.at = "idle"
  BY DEF NoCall, CallStates
<1>2. /\ call \in [Thread -> [at : CallStates, task : Task \cup {None}]]
      /\ \A th \in Thread : call[th].at = "idle"
  BY <1>1 DEF Init
<1>3. frames \in [Thread -> Seq(Task)]
  BY DEF Init
<1>4. started \in BOOLEAN /\ quited \in BOOLEAN /\ signalled \in BOOLEAN
  BY DEF Init
<1>5. loopPc \in LoopPcs /\ asyncTask \in Seq(Task) /\ detached \in Seq(Task)
  BY DEF Init, LoopPcs
<1>6. left \in 0 .. CallsPerCallback
  BY CallsAssumption DEF Init
<1>. QED
  BY <1>2, <1>3, <1>4, <1>5, <1>6, Zenon DEF TypeOK

\* The typing of the variables that the loop's control steps share.
LEMMA TypeLoopStep == TypeOK /\ (LoopStep \/ EnterLoop \/ LoopDestroy) => TypeOK'
<1> SUFFICES ASSUME TypeOK, LoopStep \/ EnterLoop \/ LoopDestroy
             PROVE  TypeOK'
  OBVIOUS
<1> USE CallsAssumption DEF TypeOK, GoTo, LoopPcs
<1>1. CASE EnterLoop
  BY <1>1 DEF EnterLoop
<1>2. CASE TestQuited
  BY <1>2 DEF TestQuited
<1>3. CASE EpollWait
  BY <1>3 DEF EpollWait
<1>4. CASE EventfdRead
  <2>1. signalled' \in BOOLEAN
    BY <1>4 DEF EventfdRead
  <2>2. loopPc' \in LoopPcs /\ left' \in 0 .. CallsPerCallback
    BY <1>4 DEF EventfdRead
  <2>. QED
    BY <1>4, <2>1, <2>2, Zenon DEF EventfdRead
<1>5. CASE TakeTasks
  BY <1>5 DEF TakeTasks
<1>6. CASE RunTask
  <2>1. Head(detached) \in Task /\ Tail(detached) \in Seq(Task)
    BY <1>6 DEF RunTask
  <2>2. frames' \in [Thread -> Seq(Task)]
    BY <1>6, <2>1, ThreadAssumption DEF RunTask, EnterCallback
  <2>. QED
    BY <1>6, <2>1, <2>2 DEF RunTask, EnterCallback
<1>7. CASE DrainDone
  BY <1>7 DEF DrainDone
<1>8. CASE TimersDone
  BY <1>8 DEF TimersDone
<1>9. CASE LoopDestroy
  BY <1>9 DEF LoopDestroy
<1>. QED
  BY <1>1, <1>2, <1>3, <1>4, <1>5, <1>6, <1>7, <1>8, <1>9 DEF LoopStep

LEMMA TypeThreadStep ==
  ASSUME TypeOK, NEW th \in Thread, UserCall(th) \/ ThreadStep(th)
  PROVE  TypeOK'
<1> USE CallsAssumption DEF TypeOK, CallStates
<1>1. ASSUME NEW t \in Task, LoopAsync(th, t) PROVE TypeOK'
  <2>1. left' \in 0 .. CallsPerCallback
    BY <1>1 DEF LoopAsync, CanCall, LoopThreadInUserCode, CountCall
  <2>. QED
    BY <1>1, <2>1 DEF LoopAsync
<1>2. ASSUME NEW t \in Task, LoopRunInLoop(th, t) PROVE TypeOK'
  <2>1. left' \in 0 .. CallsPerCallback
    BY <1>2 DEF LoopRunInLoop, CanCall, LoopThreadInUserCode, CountCall
  <2>. QED
    BY <1>2, <2>1 DEF LoopRunInLoop
<1>3. CASE RunDirect(th)
  <2>1. call[th].task \in Task
    BY <1>3 DEF RunDirect
  <2>2. frames' \in [Thread -> Seq(Task)]
    BY <1>3, <2>1 DEF RunDirect, EnterCallback
  <2>. QED
    BY <1>3, <2>1, <2>2 DEF RunDirect, EnterCallback, NoCall
<1>4. CASE AppendTask(th)
  <2>1. call[th].task \in Task
    BY <1>4 DEF AppendTask
  <2>2. asyncTask' \in Seq(Task)
    BY <1>4, <2>1 DEF AppendTask
  <2>3. /\ call' \in [Thread -> [at : CallStates, task : Task \cup {None}]]
        /\ \A u \in Thread : call'[u].at # "idle" => call'[u].task \in Task
    BY <1>4, <2>1 DEF AppendTask
  <2>. QED
    BY <1>4, <2>2, <2>3 DEF AppendTask
<1>5. CASE NotifyLoop(th)
  BY <1>5 DEF NotifyLoop, NoCall
<1>6. CASE ReturnFromCallback(th)
  <2>1. Front(frames[th]) \in Seq(Task)
    BY <1>6, FrontIsSeq DEF ReturnFromCallback
  <2>. QED
    BY <1>6, <2>1 DEF ReturnFromCallback
<1>. QED
  BY <1>1, <1>2, <1>3, <1>4, <1>5, <1>6 DEF UserCall, ThreadStep

\* Every variable keeps its type.
THEOREM TypeCorrect == Spec => []TypeOK
<1>1. TypeOK /\ [Next]_vars => TypeOK'
  <2>1. TypeOK /\ UNCHANGED vars => TypeOK'
    BY DEF TypeOK, vars
  <2>. QED
    BY <2>1, TypeLoopStep, TypeThreadStep DEF Next
<1>. QED
  BY TypeInit, <1>1, PTL DEF Spec

-----------------------------------------------------------------------------
\* No lost wake-up: a task on the shared list is one that the loop thread will
\* be woken for.  The invariant is inductive given the types.
THEOREM NoWakeupIsLost == Spec => []NoLostWakeup
<1>1. Init => NoLostWakeup
  BY DEF Init, NoLostWakeup
<1>2. TypeOK /\ NoLostWakeup /\ [Next]_vars => NoLostWakeup'
  <2> SUFFICES ASSUME TypeOK, NoLostWakeup, [Next]_vars PROVE NoLostWakeup'
    OBVIOUS
  <2> USE DEF NoLostWakeup, TypeOK
  <2>1. ASSUME NEW th \in Thread, UserCall(th) PROVE NoLostWakeup'
    <3>1. call[th].at = "idle" /\ UNCHANGED <<asyncTask, signalled, loopPc>>
      BY <2>1 DEF UserCall, LoopAsync, LoopRunInLoop, CanCall
    <3>2. \A u \in Thread \ {th} : call'[u] = call[u]
      BY <2>1 DEF UserCall, LoopAsync, LoopRunInLoop
    <3>. QED
      BY <3>1, <3>2
  <2>2. ASSUME NEW th \in Thread, RunDirect(th) PROVE NoLostWakeup'
    BY <2>2 DEF RunDirect
  <2>3. ASSUME NEW th \in Thread, AppendTask(th) PROVE NoLostWakeup'
    <3>1. call'[th].at = "notify"
      BY <2>3 DEF AppendTask
    <3>. QED
      BY <3>1
  <2>4. ASSUME NEW th \in Thread, NotifyLoop(th) PROVE NoLostWakeup'
    BY <2>4 DEF NotifyLoop
  <2>5. ASSUME NEW th \in Thread, ReturnFromCallback(th) PROVE NoLostWakeup'
    BY <2>5 DEF ReturnFromCallback
  <2>6. CASE EnterLoop \/ TestQuited \/ EpollWait \/ DrainDone \/ TimersDone
    BY <2>6 DEF EnterLoop, TestQuited, EpollWait, DrainDone, TimersDone, GoTo
  <2>7. CASE EventfdRead
    BY <2>7 DEF EventfdRead, GoTo
  <2>8. CASE TakeTasks \/ LoopDestroy
    BY <2>8 DEF TakeTasks, LoopDestroy
  <2>9. CASE RunTask
    BY <2>9 DEF RunTask
  <2>10. CASE UNCHANGED vars
    BY <2>10 DEF vars
  <2>. QED
    BY <2>1, <2>2, <2>3, <2>4, <2>5, <2>6, <2>7, <2>8, <2>9, <2>10
       DEF Next, ThreadStep, LoopStep
<1>. QED
  BY <1>1, <1>2, TypeCorrect, PTL DEF Spec

\* A list that was taken is called to its end before the loop thread does
\* anything else.
LEMMA TakenListIsFinished == Spec => []ListIsFinished
<1>1. Init => ListIsFinished
  BY DEF Init, ListIsFinished
<1>2. ListIsFinished /\ [Next]_vars => ListIsFinished'
  <2> SUFFICES ASSUME ListIsFinished, [Next]_vars PROVE ListIsFinished'
    OBVIOUS
  <2> USE DEF ListIsFinished
  <2>1. ASSUME NEW th \in Thread, UserCall(th) \/ ThreadStep(th)
        PROVE  ListIsFinished'
    BY <2>1 DEF UserCall, ThreadStep, LoopAsync, LoopRunInLoop, RunDirect,
                AppendTask, NotifyLoop, ReturnFromCallback
  <2>2. CASE EnterLoop \/ LoopStep \/ LoopDestroy
    BY <2>2 DEF EnterLoop, LoopStep, LoopDestroy, TestQuited, EpollWait,
                EventfdRead, TakeTasks, RunTask, DrainDone, TimersDone, GoTo
  <2>3. CASE UNCHANGED vars
    BY <2>3 DEF vars
  <2>. QED
    BY <2>1, <2>2, <2>3 DEF Next
<1>. QED
  BY <1>1, <1>2, PTL DEF Spec
-----------------------------------------------------------------------------
(***************************************************************************)
(* The queue implements TaskExecutor.  The refinement mapping reads the    *)
(* waiting tasks as detached \o asyncTask, so that taking the list is a    *)
(* stuttering step; the inductive invariant adds to the typing that a list *)
(* is taken only when the last one is finished (ListIsFinished) and where  *)
(* the loop thread can be inside a callback (CallsAreInPlace).             *)
(***************************************************************************)
LEMMA CallsStayInPlace == Spec => []CallsAreInPlace
<1>1. Init => CallsAreInPlace
  BY DEF Init, CallsAreInPlace, AtTopLevel, NoCall
<1>2. TypeOK /\ CallsAreInPlace /\ [Next]_vars => CallsAreInPlace'
  <2> SUFFICES ASSUME TypeOK, CallsAreInPlace, [Next]_vars
               PROVE  CallsAreInPlace'
    OBVIOUS
  <2> USE ThreadAssumption DEF CallsAreInPlace, AtTopLevel, TypeOK
  <2>1. ASSUME NEW th \in Thread, UserCall(th) PROVE CallsAreInPlace'
    <3>1. /\ call[th].at = "idle" /\ loopPc # "destroyed"
          /\ th = LoopThread => LoopThreadInUserCode
          /\ UNCHANGED <<loopPc, frames>>
      BY <2>1 DEF UserCall, LoopAsync, LoopRunInLoop, CanCall
    <3>2. \A u \in Thread \ {th} : call'[u] = call[u]
      BY <2>1 DEF UserCall, LoopAsync, LoopRunInLoop
    <3>. QED
      BY <3>1, <3>2 DEF LoopThreadInUserCode
  <2>2. ASSUME NEW th \in Thread, RunDirect(th) PROVE CallsAreInPlace'
    <3>1. /\ call[th].at = "direct" /\ loopPc' = loopPc
          /\ frames' = [frames EXCEPT ![th] = Append(@, call[th].task)]
          /\ call' = [call EXCEPT ![th] = NoCall]
      BY <2>2 DEF RunDirect, EnterCallback
    <3>2. call'[th].at = "idle" /\ \A u \in Thread \ {th} : call'[u] = call[u]
      BY <3>1 DEF NoCall
    <3>3. CASE th = LoopThread
      <4>1. loopPc \notin {"while", "wait", "take"}
        BY <3>1, <3>3
      <4>2. frames'[LoopThread] # <<>>
        BY <3>1, <3>3
      <4>. QED
        BY <3>1, <3>2, <4>1, <4>2
    <3>4. CASE th # LoopThread
      BY <3>1, <3>2, <3>4
    <3>. QED
      BY <3>3, <3>4
  <2>3. ASSUME NEW th \in Thread, AppendTask(th) PROVE CallsAreInPlace'
    <3>1. call[th].at = "append" /\ UNCHANGED <<loopPc, frames>>
      BY <2>3 DEF AppendTask
    <3>2. \A u \in Thread \ {th} : call'[u] = call[u]
      BY <2>3 DEF AppendTask
    <3>. QED
      BY <3>1, <3>2
  <2>4. ASSUME NEW th \in Thread, NotifyLoop(th) PROVE CallsAreInPlace'
    BY <2>4 DEF NotifyLoop, NoCall
  <2>5. ASSUME NEW th \in Thread, ReturnFromCallback(th) PROVE CallsAreInPlace'
    <3>1. /\ frames[th] # <<>> /\ call[th].at = "idle"
          /\ UNCHANGED <<loopPc, call>>
          /\ \A u \in Thread \ {th} : frames'[u] = frames[u]
      BY <2>5 DEF ReturnFromCallback
    <3>. QED
      BY <3>1
  <2>6. CASE EnterLoop \/ TestQuited \/ EpollWait \/ EventfdRead \/ TakeTasks
    BY <2>6 DEF EnterLoop, TestQuited, EpollWait, EventfdRead, TakeTasks, GoTo
  <2>7. CASE RunTask
    <3>1. /\ loopPc' = "drain" /\ call' = call
          /\ frames' = [frames EXCEPT ![LoopThread] = Append(@, Head(detached))]
      BY <2>7 DEF RunTask, EnterCallback
    <3>2. frames'[LoopThread] # <<>>
      BY <3>1
    <3>. QED
      BY <3>1, <3>2
  <2>8. CASE DrainDone \/ TimersDone
    BY <2>8 DEF DrainDone, TimersDone, GoTo
  <2>9. CASE LoopDestroy
    BY <2>9 DEF LoopDestroy, GoTo
  <2>10. CASE UNCHANGED vars
    BY <2>10 DEF vars
  <2>. QED
    BY <2>1, <2>2, <2>3, <2>4, <2>5, <2>6, <2>7, <2>8, <2>9, <2>10
       DEF Next, ThreadStep, LoopStep
<1>. QED
  BY <1>1, <1>2, TypeCorrect, PTL DEF Spec
RefInv == TypeOK /\ ListIsFinished /\ CallsAreInPlace

LEMMA InitRefines == Init => Executor!Init
BY DEF Init, Executor!Init, TaskRunning

\* A step that leaves the two lists, the loop thread's place and its callbacks
\* alone is invisible to the executor.
LEMMA Invisible ==
  ASSUME UNCHANGED <<asyncTask, detached, loopPc>>, frames'[LoopThread] = frames[LoopThread]
  PROVE  UNCHANGED Executor!vars
BY DEF Executor!vars, TaskRunning

LEMMA ThreadStepRefines ==
  ASSUME RefInv, NEW th \in Thread, UserCall(th) \/ ThreadStep(th)
  PROVE  [Executor!Next]_Executor!vars
<1> USE ThreadAssumption DEF RefInv, TypeOK
<1>1. CASE UserCall(th) \/ NotifyLoop(th)
  <2>1. UNCHANGED <<asyncTask, detached, loopPc, frames>>
    BY <1>1 DEF UserCall, LoopAsync, LoopRunInLoop, NotifyLoop
  <2>. QED
    BY <2>1, Invisible
<1>2. CASE AppendTask(th)
  <2>1. call[th].task \in Task
    BY <1>2 DEF AppendTask
  <2>2. detached \o Append(asyncTask, call[th].task)
          = Append(detached \o asyncTask, call[th].task)
    BY <2>1
  <2>3. loopPc # "destroyed"
    BY <1>2 DEF AppendTask, CallsAreInPlace
  <2>4. /\ (detached \o asyncTask)' = Append(detached \o asyncTask, call[th].task)
        /\ UNCHANGED <<loopPc, frames>>
    BY <1>2, <2>2 DEF AppendTask
  <2>5. Executor!Post(call[th].task)
    BY <2>3, <2>4 DEF Executor!Post, TaskRunning
  <2>. QED
    BY <2>1, <2>5 DEF Executor!Next
<1>3. CASE RunDirect(th)
  <2>1. /\ UNCHANGED <<asyncTask, detached, loopPc>>
        /\ call[th].at = "direct" /\ call[th].task \in Task
        /\ frames' = [frames EXCEPT ![th] = Append(@, call[th].task)]
    BY <1>3 DEF RunDirect, EnterCallback
  <2>2. CASE th # LoopThread
    BY <2>1, <2>2, Invisible
  <2>3. CASE th = LoopThread /\ loopPc = "drain"
    <3>1. frames[LoopThread] # <<>>
      BY <2>1, <2>3 DEF CallsAreInPlace, AtTopLevel
    <3>2. /\ frames'[LoopThread] # <<>>
          /\ frames'[LoopThread][1] = frames[LoopThread][1]
      BY <2>1, <2>3, <3>1
    <3>. QED
      BY <2>1, <2>3, <3>1, <3>2 DEF Executor!vars, TaskRunning
  <2>4. CASE th = LoopThread /\ loopPc # "drain"
    BY <2>1, <2>4 DEF Executor!vars, TaskRunning
  <2>. QED
    BY <2>2, <2>3, <2>4
<1>4. CASE ReturnFromCallback(th)
  <2>1. /\ UNCHANGED <<asyncTask, detached, loopPc>>
        /\ frames[th] # <<>>
        /\ frames' = [frames EXCEPT ![th] = Front(@)]
    BY <1>4 DEF ReturnFromCallback
  <2>2. CASE th # LoopThread
    BY <2>1, <2>2, Invisible
  <2>3. CASE th = LoopThread /\ loopPc = "drain"
    <3> DEFINE s == frames[LoopThread]
    <3>1. s \in Seq(Task) /\ s # <<>> /\ frames'[LoopThread] = Front(s)
      BY <2>1, <2>3
    <3>2. s[1] \in Task /\ TaskRunning = s[1] /\ s[1] # None
      BY <2>3, <3>1, TaskAssumption DEF TaskRunning
    <3>3. CASE Len(s) = 1
      <4>1. Front(s) = <<>>
        BY <3>1, <3>3 DEF Front
      <4>2. TaskRunning' = None
        BY <3>1, <4>1 DEF TaskRunning
      <4>. QED
        BY <2>1, <3>2, <4>2 DEF Executor!Finish, Executor!Next
    <3>4. CASE Len(s) # 1
      <4>1. Front(s) # <<>> /\ Front(s)[1] = s[1]
        BY <3>1, <3>4, FrontKeepsFirst
      <4>2. TaskRunning' = s[1]
        BY <2>1, <2>3, <3>1, <4>1 DEF TaskRunning
      <4>. QED
        BY <2>1, <3>2, <4>2 DEF Executor!vars
    <3>. QED
      BY <3>3, <3>4
  <2>4. CASE th = LoopThread /\ loopPc # "drain"
    BY <2>1, <2>4 DEF Executor!vars, TaskRunning
  <2>. QED
    BY <2>2, <2>3, <2>4
<1>. QED
  BY <1>1, <1>2, <1>3, <1>4 DEF ThreadStep

LEMMA LoopStepRefines ==
  ASSUME RefInv, LoopStep \/ EnterLoop \/ LoopDestroy
  PROVE  [Executor!Next]_Executor!vars
<1> USE ThreadAssumption DEF RefInv, TypeOK
<1>1. CASE EnterLoop \/ TestQuited \/ EpollWait \/ EventfdRead \/ TimersDone
  <2>1. /\ UNCHANGED <<asyncTask, detached, frames>>
        /\ loopPc \notin {"drain", "destroyed"} /\ loopPc' \notin {"drain", "destroyed"}
    BY <1>1 DEF EnterLoop, TestQuited, EpollWait, EventfdRead, TimersDone, GoTo
  <2>. QED
    BY <2>1 DEF Executor!vars, TaskRunning
<1>2. CASE TakeTasks
  <2>1. /\ detached = <<>> /\ frames[LoopThread] = <<>>
        /\ detached' = asyncTask /\ asyncTask' = <<>> /\ frames' = frames
        /\ loopPc = "take" /\ loopPc' = "drain"
    BY <1>2 DEF TakeTasks, ListIsFinished, CallsAreInPlace, AtTopLevel, GoTo
  <2>2. (detached \o asyncTask)' = detached \o asyncTask
    BY <2>1
  <2>. QED
    BY <2>1, <2>2 DEF Executor!vars, TaskRunning
<1>3. CASE RunTask
  <2>1. /\ frames[LoopThread] = <<>> /\ detached # <<>>
        /\ loopPc = "drain" /\ loopPc' = "drain"
        /\ detached' = Tail(detached) /\ asyncTask' = asyncTask
        /\ frames' = [frames EXCEPT ![LoopThread] = Append(@, Head(detached))]
    BY <1>3 DEF RunTask, EnterCallback, AtTopLevel
  <2>2. TaskRunning = None
    BY <2>1 DEF TaskRunning
  <2>3. frames'[LoopThread] = <<Head(detached)>>
    BY <2>1
  <2>4. TaskRunning' = Head(detached)
    BY <2>1, <2>3 DEF TaskRunning
  <2>5. /\ detached \o asyncTask # <<>>
        /\ Head(detached \o asyncTask) = Head(detached)
        /\ Tail(detached \o asyncTask) = Tail(detached) \o asyncTask
    BY <2>1
  <2>6. Executor!Start
    BY <2>1, <2>2, <2>4, <2>5 DEF Executor!Start
  <2>. QED
    BY <2>6 DEF Executor!Next
<1>4. CASE DrainDone
  <2>1. /\ UNCHANGED <<asyncTask, detached, frames>> /\ frames[LoopThread] = <<>>
        /\ loopPc = "drain" /\ loopPc' = "timers"
    BY <1>4 DEF DrainDone, AtTopLevel, GoTo
  <2>. QED
    BY <2>1 DEF Executor!vars, TaskRunning
<1>5. CASE LoopDestroy
  <2>1. /\ loopPc = "returned" /\ loopPc' = "destroyed"
        /\ detached = <<>> /\ detached' = <<>> /\ asyncTask' = <<>>
    BY <1>5 DEF LoopDestroy, ListIsFinished, GoTo
  <2>2. TaskRunning = None /\ TaskRunning' = None
    BY <2>1 DEF TaskRunning
  <2>3. (detached \o asyncTask)' = <<>>
    BY <2>1
  <2>. QED
    BY <2>1, <2>2, <2>3 DEF Executor!Close, Executor!Next
<1>. QED
  BY <1>1, <1>2, <1>3, <1>4, <1>5 DEF LoopStep

\* Every behaviour of the loop's queue is one of the executor: a task is called
\* once per submission, in submission order, one at a time.
THEOREM QueueImplementsExecutor == Spec => ImplementsExecutor
<1>1. RefInv /\ [Next]_vars => [Executor!Next]_Executor!vars
  <2> SUFFICES ASSUME RefInv, [Next]_vars PROVE [Executor!Next]_Executor!vars
    OBVIOUS
  <2>1. CASE UNCHANGED vars
    BY <2>1 DEF vars, Executor!vars, TaskRunning
  <2>. QED
    BY <2>1, ThreadStepRefines, LoopStepRefines DEF Next
<1>2. Spec => []RefInv
  BY TypeCorrect, TakenListIsFinished, CallsStayInPlace, PTL DEF RefInv
<1>. QED
  BY InitRefines, <1>1, <1>2, PTL DEF Spec, ImplementsExecutor, Executor!Spec
=============================================================================
