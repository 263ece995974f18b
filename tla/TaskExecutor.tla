---------------------------- MODULE TaskExecutor ----------------------------
(***************************************************************************)
(* What the asynchronous side of the event loop promises to its clients,   *)
(* with no threads, locks or wake-ups in it: a task that has been posted   *)
(* is called once, tasks are called one at a time in the order in which    *)
(* they were posted, and what is still waiting when the loop is destroyed  *)
(* is dropped without having been called.  Module EventLoop implements it. *)
(***************************************************************************)
EXTENDS Sequences

CONSTANTS Task,   \* closures (callback, userdata) that can be posted
          None    \* no task is being called

VARIABLES waiting,   \* tasks posted and not yet called, oldest first
          current,   \* the task whose callback is running, or None
          closed     \* the executor is gone

vars == <<waiting, current, closed>>

Init == /\ waiting = <<>>
        /\ current = None
        /\ closed = FALSE

Post(t) == /\ ~closed
           /\ waiting' = Append(waiting, t)
           /\ UNCHANGED <<current, closed>>

Start == /\ ~closed
         /\ current = None
         /\ waiting # <<>>
         /\ current' = Head(waiting)
         /\ waiting' = Tail(waiting)
         /\ UNCHANGED closed

Finish == /\ current # None
          /\ current' = None
          /\ UNCHANGED <<waiting, closed>>

Close == /\ ~closed
         /\ current = None
         /\ closed' = TRUE
         /\ waiting' = <<>>
         /\ UNCHANGED current

Next == \/ \E t \in Task : Post(t)
        \/ Start
        \/ Finish
        \/ Close

Spec == Init /\ [][Next]_vars
=============================================================================
