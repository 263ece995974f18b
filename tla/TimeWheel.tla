----------------------------- MODULE TimeWheel ------------------------------
(***************************************************************************)
(* The time wheel of util/time_wheel.c.  A timer sits in a slot, the wheel *)
(* moves back by one slot per step, and the timers of the slot it is at    *)
(* are taken off and called.  Callbacks may submit, cancel and refresh     *)
(* timers.                                                                 *)
(*                                                                         *)
(* A slot's linked list is modelled as the set of its timers: nothing is   *)
(* promised about the order of timers that expire together.  A timer that  *)
(* is linked into a slot the wheel does not have is in no slot.            *)
(***************************************************************************)
EXTENDS Integers

CONSTANTS Timer,     \* timers; a freed one may be submitted again
          MaxSteps,  \* wheel->max_steps
          Steps,     \* the steps that users ask for
          None

ASSUME MaxStepsAssumption == MaxSteps \in Nat \ {0}
ASSUME StepsAssumption == Steps \subseteq Nat
ASSUME NoneAssumption == None \notin Timer

VARIABLES index,   \* wheel->index
          buckets, \* wheel->buckets
          slot,    \* bucket->index, per timer
          steps,   \* bucket->steps, per timer
          done,    \* the list time_wheel_step took off, without those called
          next,    \* b_iter: the one it calls next, read before the callback
          running, \* the timer whose callback is running, or None
          gone     \* time_wheel_destroy() has been called

vars == <<index, buckets, slot, steps, done, next, running, gone>>

Slots == 0 .. MaxSteps - 1

\* time_wheel_create()
Init == /\ index = MaxSteps - 1
        /\ buckets = [i \in Slots |-> {}]
        /\ slot = [t \in Timer |-> 0]
        /\ steps = [t \in Timer |-> 0]
        /\ done = {} /\ next = None /\ running = None
        /\ gone = FALSE

-----------------------------------------------------------------------------
\* A turn is added at difference zero too.
MutantBack(n) == IF index - n <= 0 THEN index - n + MaxSteps ELSE index - n

\* n slots back, as the code computes it: one turn is added when the
\* difference is negative.
Back(n) == IF index - n < 0 THEN index - n + MaxSteps ELSE index - n

\* Where a timer goes that is submitted; more steps than the wheel has slots
\* are cut to what it can count.
SubmitSlot(n) == IF n > MaxSteps THEN IF index + 1 >= MaxSteps THEN 0 ELSE index + 1
                 ELSE Back(n)

Linked(b, t, i) == IF i \in Slots THEN [b EXCEPT ![i] = @ \cup {t}] ELSE b

Unlinked(t) == [i \in Slots |-> buckets[i] \ {t}]

InSlot(t) == \E i \in Slots : t \in buckets[i]

\* User code runs: a callback, or the program between two calls of the wheel.
UserRuns == done # {} => running # None

\* The user has a handle on the timer and may use it: it is not the one being
\* called nor the one time_wheel_step has already picked to be called next.
Usable(t) == UserRuns /\ (InSlot(t) \/ t \in done \ {next})

-----------------------------------------------------------------------------
\* time_wheel_submit()
Submit(t, n) ==
    /\ ~gone /\ UserRuns
    /\ ~InSlot(t) /\ t \notin done /\ t # running
    /\ slot' = [slot EXCEPT ![t] = SubmitSlot(n)]
    /\ steps' = [steps EXCEPT ![t] = n]
    /\ buckets' = Linked(buckets, t, SubmitSlot(n))
    /\ UNCHANGED <<index, done, next, running, gone>>

\* time_wheel_cancel()
Cancel(t) ==
    /\ Usable(t)
    /\ buckets' = Unlinked(t)
    /\ done' = done \ {t}
    /\ UNCHANGED <<index, slot, steps, next, running, gone>>

\* time_wheel_refresh()
Refresh(t) ==
    /\ Usable(t)
    /\ slot' = [slot EXCEPT ![t] = Back(steps[t])]
    /\ buckets' = Linked(Unlinked(t), t, Back(steps[t]))
    /\ done' = done \ {t}
    /\ UNCHANGED <<index, steps, next, running, gone>>

\* A wheel that forgets to turn over at its first slot.
MutantStep ==
    /\ ~gone
    /\ done = {} /\ running = None
    /\ done' = buckets[index]
    /\ buckets' = [buckets EXCEPT ![index] = {}]
    /\ index' = index - 1
    /\ UNCHANGED <<slot, steps, next, running, gone>>

\* time_wheel_step() up to its loop: the slot is emptied and the wheel moves.
Step ==
    /\ ~gone
    /\ done = {} /\ running = None
    /\ done' = buckets[index]
    /\ buckets' = [buckets EXCEPT ![index] = {}]
    /\ index' = IF index - 1 < 0 THEN MaxSteps - 1 ELSE index - 1
    /\ UNCHANGED <<slot, steps, next, running, gone>>

\* The next timer's callback is entered, after its successor was read.
Call(t) ==
    /\ running = None
    /\ t \in done
    /\ next # None => t = next
    /\ running' = t
    /\ done' = done \ {t}
    /\ next' \in IF done = {t} THEN {None} ELSE done \ {t}
    /\ UNCHANGED <<index, buckets, slot, steps, gone>>

\* The callback returns TIME_WHEEL_EXPIRE_ONESHOT: the timer is freed ...
ReturnOneshot ==
    /\ running # None
    /\ running' = None
    /\ UNCHANGED <<index, buckets, slot, steps, done, next, gone>>

\* The period is counted from the slot the wheel is at by then.
MutantReturnLoop ==
    /\ running # None
    /\ slot' = [slot EXCEPT ![running] = Back(steps[running])]
    /\ buckets' = Linked(buckets, running, Back(steps[running]))
    /\ running' = None
    /\ UNCHANGED <<index, steps, done, next, gone>>

\* bucket->index is left as it was.
MutantReturnLoopSameIndex ==
    /\ running # None
    /\ buckets' = Linked(buckets, running, Back(steps[running] - 1))
    /\ running' = None
    /\ UNCHANGED <<index, slot, steps, done, next, gone>>

\* ... or TIME_WHEEL_EXPIRE_LOOP: it is put back, counted from the slot that has
\* just been left.
ReturnLoop ==
    /\ running # None
    /\ slot' = [slot EXCEPT ![running] = Back(steps[running] - 1)]
    /\ buckets' = Linked(buckets, running, Back(steps[running] - 1))
    /\ running' = None
    /\ UNCHANGED <<index, steps, done, next, gone>>

\* time_wheel_destroy(), not from a callback
Destroy ==
    /\ ~gone
    /\ done = {} /\ running = None
    /\ buckets' = [i \in Slots |-> {}]
    /\ gone' = TRUE
    /\ UNCHANGED <<index, slot, steps, done, next, running>>

Next == \/ \E t \in Timer : \/ \E n \in Steps : Submit(t, n)
                            \/ Cancel(t)
                            \/ Refresh(t)
                            \/ Call(t)
        \/ Step
        \/ ReturnOneshot
        \/ ReturnLoop
        \/ Destroy

Spec == Init /\ [][Next]_vars

-----------------------------------------------------------------------------
\* Type invariant.
TypeOK == /\ index \in Slots
          /\ buckets \in [Slots -> SUBSET Timer]
          /\ slot \in [Timer -> Int]
          /\ steps \in [Timer -> Steps \cup {0}]
          /\ done \subseteq Timer
          /\ next \in done \cup {None}
          /\ running \in Timer \cup {None}
          /\ gone \in BOOLEAN

\* bucket->index, by which time_wheel_cancel and _refresh find the slot whose head
\* they may have to replace, names the one slot the timer is linked into, and a
\* timer that is being called or is about to be is in no slot.
SlotsAgree ==
    /\ \A i \in Slots : \A t \in buckets[i] : slot[t] = i
    /\ \A i \in Slots : buckets[i] \cap (done \cup {running}) = {}
    /\ running \notin done

\* The wheel keeps the promise of CountdownTimers: the distance from the wheel's
\* position back to a timer's slot is what is left of its count.
Distance(i) == IF i <= index THEN index - i ELSE index - i + MaxSteps

Left == [t \in Timer |-> IF InSlot(t) THEN Distance(slot[t]) + 1 ELSE 0]

Countdown == INSTANCE CountdownTimers WITH left <- Left, period <- steps,
                                           due <- done, closed <- gone

\* For numbers of steps below the number of slots.
ImplementsCountdown == Countdown!Spec

\* time_wheel_refresh asserts it: a timer's index is that of a slot.  It holds for
\* at most MaxSteps steps; more, which time_wheel_submit accepts, make it negative.
IndexInRange == \A t \in Timer : slot[t] \in Slots
=============================================================================
