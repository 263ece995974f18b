----------------------------- MODULE EventLoop ------------------------------
(***************************************************************************)
(* The event loop and its queue of asynchronous tasks: linux/net/loop.c    *)
(* and linux/net/async_task_queue.c.  Client threads and the loop thread   *)
(* itself hand callbacks to the loop; a submission is three steps that     *)
(* other threads can come between (the decision in loop_run_inloop, the    *)
(* append under task_lock, the eventfd_write outside it), and the loop     *)
(* thread takes the whole list in one step and calls its tasks one by one. *)
(*                                                                         *)
(* A task that is being called may itself submit tasks, nested calls       *)
(* included.  Channels other than the queue's own eventfd, and the timers, *)
(* appear only as places where the loop thread runs user callbacks and     *)
(* may call the loop's interface (loopPc = "event" and "timers").          *)
(***************************************************************************)
EXTENDS Naturals, Sequences, SequencesExt

CONSTANTS Thread,            \* every thread that calls the loop's interface
          LoopThread,        \* the one that runs loop_loop()
          Task,              \* closures that can be submitted
          Quit,              \* the closure (do_loop_quit, loop), one of Task
          None,
          CallsPerCallback   \* bound: calls made by one callback of the loop thread

ASSUME ThreadAssumption == LoopThread \in Thread
ASSUME TaskAssumption == Quit \in Task /\ None \notin Task
ASSUME CallsAssumption == CallsPerCallback \in Nat

VARIABLES started,    \* loop->started: loop_loop() has been entered
          quited,     \* loop->quited
          loopPc,     \* where the loop thread is in loop_loop()
          asyncTask,  \* task_queue->async_task .. async_task_end
          detached,   \* the list async_task_queue_process took, not yet called
          signalled,  \* the eventfd's counter is above 0
          call,       \* per thread: the submission it is in the middle of
          frames,     \* per thread: the callbacks it is inside of, innermost last
          left        \* calls the loop thread's present callback may still make

vars == <<started, quited, loopPc, asyncTask, detached, signalled, call, frames, left>>

NoCall == [at |-> "idle", task |-> None]

-----------------------------------------------------------------------------
Init == /\ started = FALSE
        /\ quited = FALSE
        /\ loopPc = "new"
        /\ asyncTask = <<>>
        /\ detached = <<>>
        /\ signalled = FALSE
        /\ call = [th \in Thread |-> NoCall]
        /\ frames = [th \in Thread |-> <<>>]
        /\ left = CallsPerCallback

\* A closure is free to be submitted while it is neither waiting nor running:
\* each member of Task stands for one closure in flight.
Free(t) == /\ t \notin ToSet(asyncTask) \cup ToSet(detached)
           /\ \A th \in Thread : t # call[th].task /\ t \notin ToSet(frames[th])

\* do_loop_quit only sets a flag; every other callback is user code, which may
\* call the loop.
InUserCode(th) == frames[th] # <<>> => Last(frames[th]) # Quit

\* The loop thread is in a position to call the loop's interface: before
\* loop_loop(), after it, or in a callback (of a channel, a task or a timer).
LoopThreadInUserCode ==
    /\ loopPc \in {"while", "wait", "take", "drain"} => frames[LoopThread] # <<>>
    /\ left > 0

CanCall(th) == /\ call[th].at = "idle"
               /\ InUserCode(th)
               /\ loopPc # "destroyed"
               /\ th = LoopThread => LoopThreadInUserCode

CountCall(th) == left' = IF th = LoopThread THEN left - 1 ELSE left

\* loop_async(): always goes through the queue.
LoopAsync(th, t) ==
    /\ CanCall(th)
    /\ Free(t)
    /\ call' = [call EXCEPT ![th] = [at |-> "append", task |-> t]]
    /\ CountCall(th)
    /\ UNCHANGED <<started, quited, loopPc, asyncTask, detached, signalled, frames>>

\* The test of loop_run_inloop().  threadId is set before started, and nobody
\* but LoopThread has that id.
RunsDirectly(th) == ~started \/ th = LoopThread \/ quited

\* loop_run_inloop(), up to its decision: what it read may be stale when the
\* callback is entered.  loop_quit() is this call with the closure Quit.
LoopRunInLoop(th, t) ==
    /\ CanCall(th)
    /\ Free(t)
    /\ call' = [call EXCEPT ![th] =
                  [at |-> IF RunsDirectly(th) THEN "direct" ELSE "append", task |-> t]]
    /\ CountCall(th)
    /\ UNCHANGED <<started, quited, loopPc, asyncTask, detached, signalled, frames>>

\* A task's callback is entered.
EnterCallback(th, t) ==
    /\ frames' = [frames EXCEPT ![th] = Append(@, t)]
    /\ quited' = (quited \/ t = Quit)

RunDirect(th) ==
    /\ call[th].at = "direct"
    /\ EnterCallback(th, call[th].task)
    /\ call' = [call EXCEPT ![th] = NoCall]
    /\ UNCHANGED <<started, loopPc, asyncTask, detached, signalled, left>>

\* async_task_queue_submit(), the part under task_lock.
MutantAppendAtHead(th) ==
    /\ call[th].at = "append"
    /\ asyncTask' = <<call[th].task>> \o asyncTask
    /\ call' = [call EXCEPT ![th].at = "notify"]
    /\ UNCHANGED <<started, quited, loopPc, detached, signalled, frames, left>>

MutantAppendEmptyTask(th) ==
    /\ call[th].at = "append"
    /\ asyncTask' = Append(asyncTask, None)
    /\ call' = [call EXCEPT ![th].at = "notify"]
    /\ UNCHANGED <<started, quited, loopPc, detached, signalled, frames, left>>

AppendTask(th) ==
    /\ call[th].at = "append"
    /\ asyncTask' = Append(asyncTask, call[th].task)
    /\ call' = [call EXCEPT ![th].at = "notify"]
    /\ UNCHANGED <<started, quited, loopPc, detached, signalled, frames, left>>

\* async_task_queue_submit(), the eventfd_write after unlock_it().
NotifyLoop(th) ==
    /\ call[th].at = "notify"
    /\ signalled' = TRUE
    /\ call' = [call EXCEPT ![th] = NoCall]
    /\ UNCHANGED <<started, quited, loopPc, asyncTask, detached, frames, left>>

\* The innermost callback of th returns.
ReturnFromCallback(th) ==
    /\ frames[th] # <<>>
    /\ call[th].at = "idle"
    /\ frames' = [frames EXCEPT ![th] = Front(@)]
    /\ UNCHANGED <<started, quited, loopPc, asyncTask, detached, signalled, call, left>>

-----------------------------------------------------------------------------
(***************************************************************************)
(* The loop thread.  loopPc names the next thing it does:                  *)
(*   "new"       has not called loop_loop()                                *)
(*   "while"     tests loop->quited                                        *)
(*   "wait"      epoll_wait()                                              *)
(*   "event"     dispatches its batch of channels, eventfd_read is next    *)
(*   "take"      async_task_queue_process takes the list                   *)
(*   "drain"     calls the tasks of the list it took                       *)
(*   "timers"    timer_queue_process_inloop()                              *)
(*   "returned"  loop_loop() has returned                                  *)
(*   "destroyed" loop_destroy() has returned                               *)
(***************************************************************************)
AtTopLevel == frames[LoopThread] = <<>> /\ call[LoopThread].at = "idle"

GoTo(pc) == /\ loopPc' = pc
            /\ left' = CallsPerCallback

EnterLoop ==
    /\ loopPc = "new" /\ AtTopLevel
    /\ started' = TRUE
    /\ GoTo("while")
    /\ UNCHANGED <<quited, asyncTask, detached, signalled, call, frames>>

TestQuited ==
    /\ loopPc = "while"
    /\ GoTo(IF quited THEN "returned" ELSE "wait")
    /\ UNCHANGED <<started, quited, asyncTask, detached, signalled, call, frames>>

\* epoll_wait() reports the eventfd whenever its counter is above 0 (it is
\* registered level-triggered); otherwise it returns because of another channel
\* or of the timeout, which timer_queue_gettimeout bounds by 100 ms.
EpollWait ==
    /\ loopPc = "wait"
    /\ GoTo(IF signalled THEN "event" ELSE "timers")
    /\ UNCHANGED <<started, quited, asyncTask, detached, signalled, call, frames>>

EventfdRead ==
    /\ loopPc = "event" /\ AtTopLevel
    /\ signalled' = FALSE
    /\ GoTo("take")
    /\ UNCHANGED <<started, quited, asyncTask, detached, call, frames>>

\* async_task_queue_process(), the part under task_lock.
MutantTakeOneTask ==
    /\ loopPc = "take"
    /\ detached' = IF asyncTask = <<>> THEN <<>> ELSE <<Head(asyncTask)>>
    /\ asyncTask' = IF asyncTask = <<>> THEN <<>> ELSE Tail(asyncTask)
    /\ GoTo("drain")
    /\ UNCHANGED <<started, quited, signalled, call, frames>>

TakeTasks ==
    /\ loopPc = "take"
    /\ detached' = asyncTask
    /\ asyncTask' = <<>>
    /\ GoTo("drain")
    /\ UNCHANGED <<started, quited, signalled, call, frames>>

\* A loop that takes the next task off the shared list instead of its own, so
\* that tasks submitted while it drains are called in the same pass.
MutantRunUntilEmpty ==
    /\ loopPc = "drain" /\ AtTopLevel
    /\ detached # <<>>
    /\ EnterCallback(LoopThread, Head(detached))
    /\ detached' = Tail(detached) \o asyncTask
    /\ asyncTask' = <<>>
    /\ left' = CallsPerCallback
    /\ UNCHANGED <<started, loopPc, signalled, call>>

RunTask ==
    /\ loopPc = "drain" /\ AtTopLevel
    /\ detached # <<>>
    /\ EnterCallback(LoopThread, Head(detached))
    /\ detached' = Tail(detached)
    /\ left' = CallsPerCallback
    /\ UNCHANGED <<started, loopPc, asyncTask, signalled, call>>

\* eventfd_read moved behind the processing of the list.
MutantReadAfterDrain ==
    /\ loopPc = "drain" /\ AtTopLevel
    /\ detached = <<>>
    /\ signalled' = FALSE
    /\ GoTo("timers")
    /\ UNCHANGED <<started, quited, asyncTask, detached, call, frames>>

DrainDone ==
    /\ loopPc = "drain" /\ AtTopLevel
    /\ detached = <<>>
    /\ GoTo("timers")
    /\ UNCHANGED <<started, quited, asyncTask, detached, signalled, call, frames>>

TimersDone ==
    /\ loopPc = "timers" /\ AtTopLevel
    /\ GoTo("while")
    /\ UNCHANGED <<started, quited, asyncTask, detached, signalled, call, frames>>

\* loop_destroy(): required to come after loop_loop() has returned; its caller
\* has stopped the other threads' use of the loop.
LoopDestroy ==
    /\ loopPc = "returned"
    /\ \A th \in Thread : call[th].at = "idle" /\ frames[th] = <<>>
    /\ asyncTask' = <<>>
    /\ GoTo("destroyed")
    /\ UNCHANGED <<started, quited, detached, signalled, call, frames>>

-----------------------------------------------------------------------------
UserCall(th) == \E t \in Task : LoopAsync(th, t) \/ LoopRunInLoop(th, t)

ThreadStep(th) == \/ RunDirect(th)
                  \/ AppendTask(th)
                  \/ NotifyLoop(th)
                  \/ ReturnFromCallback(th)

LoopStep == \/ TestQuited
            \/ EpollWait
            \/ EventfdRead
            \/ TakeTasks
            \/ RunTask
            \/ DrainDone
            \/ TimersDone

Next == \/ \E th \in Thread : UserCall(th) \/ ThreadStep(th)
        \/ EnterLoop
        \/ LoopStep
        \/ LoopDestroy

Spec == Init /\ [][Next]_vars

\* A thread in the middle of a submission or a callback goes on, and the loop
\* thread goes on; nobody has to make a call, to start the loop or to destroy it.
Fairness == /\ WF_vars(LoopStep)
            /\ \A th \in Thread : WF_vars(ThreadStep(th))

FairSpec == Spec /\ Fairness

-----------------------------------------------------------------------------
LoopPcs == {"new", "while", "wait", "event", "take", "drain", "timers",
            "returned", "destroyed"}

CallStates == {"idle", "direct", "append", "notify"}

\* Type invariant.
TypeOK ==
    /\ started \in BOOLEAN
    /\ quited \in BOOLEAN
    /\ loopPc \in LoopPcs
    /\ asyncTask \in Seq(Task)
    /\ detached \in Seq(Task)
    /\ signalled \in BOOLEAN
    /\ call \in [Thread -> [at : CallStates, task : Task \cup {None}]]
    /\ \A th \in Thread : call[th].at # "idle" => call[th].task \in Task
    /\ frames \in [Thread -> Seq(Task)]
    /\ left \in 0 .. CallsPerCallback

\* No lost wake-up (async_task_queue_submit against async_task_event): whenever
\* tasks are on the shared list, the eventfd is readable, or a thread that has
\* appended is still to write it, or the loop thread is about to take the list.
NoLostWakeup ==
    asyncTask # <<>> => \/ signalled
                        \/ loopPc = "take"
                        \/ \E th \in Thread : call[th].at = "notify"

\* The queue keeps its promise: one call per submission, in submission order,
\* one at a time on the loop thread, nothing called after the loop is destroyed.
\* The waiting list is what was taken followed by what was not.
TaskRunning == IF loopPc = "drain" /\ frames[LoopThread] # <<>>
                 THEN frames[LoopThread][1] ELSE None

Executor == INSTANCE TaskExecutor WITH waiting <- detached \o asyncTask,
                                       current <- TaskRunning,
                                       closed  <- loopPc = "destroyed"

ImplementsExecutor == Executor!Spec

\* What the implementation proof needs besides: a list that was taken is finished
\* before the loop thread goes on; where that thread may be inside a callback; and
\* that nobody is in a submission once the loop is gone.
ListIsFinished == loopPc # "drain" => detached = <<>>

CallsAreInPlace ==
    /\ loopPc \in {"while", "wait", "take"} => AtTopLevel
    /\ loopPc = "drain" /\ frames[LoopThread] = <<>> => AtTopLevel
    /\ loopPc = "destroyed" => \A th \in Thread : call[th].at = "idle"

\* A task on the queue of a running loop is called, unless it is still on the shared
\* list when loop_loop() returns (those are never called).  A list that was taken is
\* called to its end, even when one of its tasks quits the loop.
Waiting(t) == t \in ToSet(asyncTask) \cup ToSet(detached)

WaitingTasksRun ==
    \A t \in Task : (started /\ Waiting(t)) ~>
        (~Waiting(t) \/ (loopPc = "returned" /\ t \in ToSet(asyncTask)))

\* loop_loop() returns once quited is set, whatever the callbacks go on
\* submitting (loop.h: it runs until loop_quit() is called).
QuitEndsLoop == (started /\ quited) ~> (loopPc \in {"returned", "destroyed"})

\* loop.h says of loop_run_inloop() that the callback is executed in the loop,
\* and at once only when the caller is the loop's own thread: while loop_loop()
\* runs, no other thread is inside a callback handed to the loop.  It does not
\* hold: the caller may have read started or quited before loop_loop() set it.
CallbacksInLoopThread ==
    \A th \in Thread \ {LoopThread} :
        frames[th] # <<>> => loopPc \in {"new", "returned", "destroyed"}
=============================================================================
