-------------------------- MODULE CountdownTimers ---------------------------
(***************************************************************************)
(* What a time wheel promises: each timer counts down by one at every step *)
(* and expires when its count is used up, and expired timers are called    *)
(* one at a time before the next step.  There are no slots and no modular  *)
(* arithmetic in it.  Module TimeWheel implements it.                      *)
(***************************************************************************)
EXTENDS Naturals

CONSTANTS Timer,
          Steps,   \* the periods timers are started with
          None     \* no timer is being called

VARIABLES left,    \* calls of step until the timer expires, 0 when it does not count
          period,  \* the steps it was started with
          due,     \* expired timers, still to be called
          running, \* the timer whose callback is running, or None
          closed

vars == <<left, period, due, running, closed>>

Init == /\ left = [t \in Timer |-> 0]
        /\ period = [t \in Timer |-> 0]
        /\ due = {}
        /\ running = None
        /\ closed = FALSE

Active(t) == left[t] > 0 \/ t \in due

\* A timer started with s expires once s whole intervals between steps have
\* passed, at the call s + 1 from now ...
Start(t, s) == /\ ~closed
               /\ ~Active(t) /\ t # running
               /\ left' = [left EXCEPT ![t] = s + 1]
               /\ period' = [period EXCEPT ![t] = s]
               /\ UNCHANGED <<due, running, closed>>

Restart(t) == /\ Active(t)
              /\ left' = [left EXCEPT ![t] = period[t] + 1]
              /\ due' = due \ {t}
              /\ UNCHANGED <<period, running, closed>>

Cancel(t) == /\ Active(t)
             /\ left' = [left EXCEPT ![t] = 0]
             /\ due' = due \ {t}
             /\ UNCHANGED <<period, running, closed>>

Step == /\ ~closed
        /\ due = {} /\ running = None
        /\ left' = [t \in Timer |-> IF left[t] = 0 THEN 0 ELSE left[t] - 1]
        /\ due' = {t \in Timer : left[t] = 1}
        /\ UNCHANGED <<period, running, closed>>

Call(t) == /\ running = None
           /\ t \in due
           /\ running' = t
           /\ due' = due \ {t}
           /\ UNCHANGED <<left, period, closed>>

\* ... and, when its callback asks for it, again at every s-th call.
Return(again) == /\ running # None
                 /\ left' = IF again THEN [left EXCEPT ![running] = period[running]] ELSE left
                 /\ running' = None
                 /\ UNCHANGED <<period, due, closed>>

Close == /\ ~closed
         /\ due = {} /\ running = None
         /\ left' = [t \in Timer |-> 0]
         /\ closed' = TRUE
         /\ UNCHANGED <<period, due, running>>

Next == \/ \E t \in Timer : \/ \E s \in Steps : Start(t, s)
                            \/ Restart(t)
                            \/ Cancel(t)
                            \/ Call(t)
        \/ Step
        \/ \E again \in BOOLEAN : Return(again)
        \/ Close

Spec == Init /\ [][Next]_vars
=============================================================================
