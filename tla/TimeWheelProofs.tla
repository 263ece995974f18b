-------------------------- MODULE TimeWheelProofs ---------------------------
(***************************************************************************)
(* Theorems about TimeWheel for every number of slots, every set of timers *)
(* and every set of steps that the theorem's assumption allows.            *)
(***************************************************************************)
EXTENDS TimeWheel, TLAPS

\* The typing of the slot arithmetic, whatever number of steps is asked for.
LEMMA SlotsAreIntegers == ASSUME index \in Slots, NEW n \in Int
                          PROVE  Back(n) \in Int /\ SubmitSlot(n) \in Int
BY MaxStepsAssumption DEF Slots, Back, SubmitSlot

\* A timer's number of steps is one that was asked for.
LEMMA StepsAreIntegers == ASSUME TypeOK PROVE \A t \in Timer : steps[t] \in Int
<1>1. \A t \in Timer : steps[t] \in Steps \cup {0}
  BY DEF TypeOK
<1>2. \A n \in Steps \cup {0} : n \in Int
  BY StepsAssumption
<1>. QED
  BY <1>1, <1>2, Zenon

\* Linking and unlinking keep the slots sets of timers.
LEMMA LinkTypes == ASSUME NEW b \in [Slots -> SUBSET Timer], NEW t \in Timer, NEW i \in Int
                   PROVE  Linked(b, t, i) \in [Slots -> SUBSET Timer]
BY DEF Linked

\* The same of taking a timer out.
LEMMA UnlinkTypes == ASSUME buckets \in [Slots -> SUBSET Timer], NEW t \in Timer
                     PROVE  Unlinked(t) \in [Slots -> SUBSET Timer]
BY DEF Unlinked

\* The types are kept: no operation of the wheel, in a callback or not, leaves
\* index outside of the wheel or picks a successor that is not waiting.  For the
\* latter the timers in the slots must be apart from those that wait.
LEMMA TypeStep == TypeOK /\ SlotsAgree /\ [Next]_vars => TypeOK'
<1> SUFFICES ASSUME TypeOK, SlotsAgree, [Next]_vars PROVE TypeOK'
  OBVIOUS
<1> USE MaxStepsAssumption, StepsAssumption DEF TypeOK
<1>0. \A t \in Timer : steps[t] \in Int
  BY StepsAreIntegers
<1>1. ASSUME NEW t \in Timer, NEW n \in Steps, Submit(t, n) PROVE TypeOK'
  <2>1. SubmitSlot(n) \in Int
    BY SlotsAreIntegers
  <2>2. buckets' \in [Slots -> SUBSET Timer]
    BY <1>1, <2>1, LinkTypes DEF Submit
  <2>. QED
    BY <1>1, <2>1, <2>2 DEF Submit
<1>2. ASSUME NEW t \in Timer, Cancel(t) PROVE TypeOK'
  <2>1. buckets' \in [Slots -> SUBSET Timer]
    BY <1>2, UnlinkTypes DEF Cancel
  <2>2. next' \in done' \cup {None}
    <3>1. CASE t = next
      <4>1. InSlot(t)
        BY <1>2, <3>1 DEF Cancel, Usable
      <4>2. t \notin done
        BY <4>1 DEF InSlot, SlotsAgree
      <4>. QED
        BY <1>2, <4>2 DEF Cancel
    <3>2. CASE t # next
      BY <1>2, <3>2 DEF Cancel
    <3>. QED
      BY <3>1, <3>2
  <2>. QED
    BY <1>2, <2>1, <2>2 DEF Cancel
<1>3. ASSUME NEW t \in Timer, Refresh(t) PROVE TypeOK'
  <2>1. Back(steps[t]) \in Int
    BY <1>0, SlotsAreIntegers
  <2>2. buckets' \in [Slots -> SUBSET Timer]
    BY <1>3, <2>1, LinkTypes, UnlinkTypes DEF Refresh
  <2>3. next' \in done' \cup {None}
    <3>1. CASE t = next
      <4>1. InSlot(t)
        BY <1>3, <3>1 DEF Refresh, Usable
      <4>2. t \notin done
        BY <4>1 DEF InSlot, SlotsAgree
      <4>. QED
        BY <1>3, <4>2 DEF Refresh
    <3>2. CASE t # next
      BY <1>3, <3>2 DEF Refresh
    <3>. QED
      BY <3>1, <3>2
  <2>. QED
    BY <1>3, <2>1, <2>2, <2>3 DEF Refresh
<1>4. ASSUME NEW t \in Timer, Call(t) PROVE TypeOK'
  BY <1>4 DEF Call
<1>5. CASE Step
  BY <1>5 DEF Step, Slots
<1>6. CASE ReturnOneshot
  BY <1>6 DEF ReturnOneshot
<1>7. CASE ReturnLoop
  <2>1. running \in Timer /\ Back(steps[running] - 1) \in Int
    BY <1>0, <1>7, SlotsAreIntegers DEF ReturnLoop
  <2>2. buckets' \in [Slots -> SUBSET Timer]
    BY <1>7, <2>1, LinkTypes DEF ReturnLoop
  <2>. QED
    BY <1>7, <2>1, <2>2 DEF ReturnLoop
<1>8. CASE Destroy
  BY <1>8 DEF Destroy
<1>9. CASE UNCHANGED vars
  BY <1>9 DEF vars
<1>. QED
  BY <1>1, <1>2, <1>3, <1>4, <1>5, <1>6, <1>7, <1>8, <1>9 DEF Next

\* The slots agree with the timers' indices after every step: linking writes
\* bucket->index, taking a slot off empties it, and a timer is linked only when it
\* is in no other slot.
LEMMA SlotsStep == TypeOK /\ SlotsAgree /\ [Next]_vars => SlotsAgree'
<1> SUFFICES ASSUME TypeOK, SlotsAgree, [Next]_vars PROVE SlotsAgree'
  OBVIOUS
<1> USE NoneAssumption DEF TypeOK, SlotsAgree
<1>0. \A i \in Slots : \A u \in buckets[i] : u \in Timer
  OBVIOUS
<1>1. ASSUME NEW t \in Timer, NEW n \in Steps, Submit(t, n) PROVE SlotsAgree'
  BY <1>1 DEF Submit, InSlot, Linked
<1>2. ASSUME NEW t \in Timer, Cancel(t) PROVE SlotsAgree'
  BY <1>2 DEF Cancel, Unlinked
<1>3. ASSUME NEW t \in Timer, Refresh(t) PROVE SlotsAgree'
  <2>1. t # running /\ t \notin done'
    BY <1>3 DEF Refresh, Usable, InSlot
  <2>2. /\ \A i \in Slots : buckets'[i] \subseteq buckets[i] \cup {t}
        /\ \A i \in Slots : t \in buckets'[i] => slot'[t] = i
    BY <1>3 DEF Refresh, Linked, Unlinked
  <2>3. \A u \in Timer : u # t => slot'[u] = slot[u]
    BY <1>3 DEF Refresh
  <2>4. \A i \in Slots : \A u \in buckets'[i] : slot'[u] = i
    BY <1>0, <2>2, <2>3
  <2>5. \A i \in Slots : buckets'[i] \cap (done' \cup {running'}) = {}
    <3>1. running' = running /\ done' = done \ {t}
      BY <1>3 DEF Refresh
    <3>. QED
      BY <2>1, <2>2, <3>1
  <2>. QED
    BY <1>3, <2>4, <2>5 DEF Refresh
<1>4. ASSUME NEW t \in Timer, Call(t) PROVE SlotsAgree'
  BY <1>4 DEF Call
<1>5. CASE Step
  <2>1. \A i \in Slots : buckets'[i] = IF i = index THEN {} ELSE buckets[i]
    BY <1>5 DEF Step
  <2>. QED
    BY <1>5, <2>1 DEF Step
<1>6. CASE ReturnOneshot
  BY <1>6 DEF ReturnOneshot
<1>7. CASE ReturnLoop
  <2>1. running \in Timer
    BY <1>7 DEF ReturnLoop
  <2>2. /\ \A i \in Slots : buckets'[i] \subseteq buckets[i] \cup {running}
        /\ \A i \in Slots : running \in buckets'[i] => slot'[running] = i
    BY <1>7, <2>1 DEF ReturnLoop, Linked
  <2>3. \A u \in Timer : u # running => slot'[u] = slot[u]
    BY <1>7 DEF ReturnLoop
  <2>4. \A i \in Slots : \A u \in buckets'[i] : slot'[u] = i
    BY <1>0, <2>2, <2>3
  <2>6. \A i \in Slots : buckets'[i] \cap (done' \cup {running'}) = {}
    <3>1. running' = None /\ done' = done
      BY <1>7 DEF ReturnLoop
    <3>. QED
      BY <1>0, <2>1, <2>2, <3>1
  <2>5. running' \notin done'
    BY <1>7 DEF ReturnLoop
  <2>. QED
    BY <2>4, <2>5, <2>6
<1>8. CASE Destroy
  BY <1>8 DEF Destroy
<1>9. CASE UNCHANGED vars
  BY <1>9 DEF vars
<1>. QED
  BY <1>1, <1>2, <1>3, <1>4, <1>5, <1>6, <1>7, <1>8, <1>9 DEF Next

\* Both hold of the wheel time_wheel_create makes.
LEMMA Created == Init => TypeOK /\ SlotsAgree
<1>1. Init => TypeOK
  <2> SUFFICES ASSUME Init PROVE TypeOK
    OBVIOUS
  <2>1. index \in Slots
    BY MaxStepsAssumption DEF Init, Slots
  <2>2. buckets \in [Slots -> SUBSET Timer] /\ slot \in [Timer -> Int]
    BY DEF Init
  <2>3. steps \in [Timer -> Steps \cup {0}]
    BY DEF Init
  <2>4. done \subseteq Timer /\ next \in done \cup {None} /\ running \in Timer \cup {None}
    BY DEF Init
  <2>. QED
    BY <2>1, <2>2, <2>3, <2>4 DEF Init, TypeOK
<1>2. Init => SlotsAgree
  BY DEF Init, SlotsAgree
<1>. QED
  BY <1>1, <1>2

\* Type correctness of the wheel (time_wheel.c), for every size and every number
\* of steps that users ask for.
THEOREM TypeCorrect == Spec => []TypeOK
BY Created, TypeStep, SlotsStep, PTL DEF Spec

\* bucket->index always names the slot a timer is linked into (what cancel and
\* refresh rely on), for every size and every number of steps.
THEOREM IndexNamesSlot == Spec => []SlotsAgree
BY Created, TypeStep, SlotsStep, PTL DEF Spec

-----------------------------------------------------------------------------
(***************************************************************************)
(* What depends on the numbers of steps: those of timers in use are among  *)
(* the ones users asked for.                                               *)
(***************************************************************************)
InUse(t) == InSlot(t) \/ t \in done \/ t = running

Asked == \A t \in Timer : InUse(t) => steps[t] \in Steps

\* Only a submission brings a timer into use or changes its number of steps.
LEMMA AskedStep == TypeOK /\ Asked /\ [Next]_vars => Asked'
<1> SUFFICES ASSUME TypeOK, Asked, [Next]_vars PROVE Asked'
  OBVIOUS
<1>1. ASSUME NEW t \in Timer, NEW n \in Steps, Submit(t, n) PROVE Asked'
  <2>1. \A u \in Timer : u # t /\ InUse(u)' => InUse(u)
    BY <1>1 DEF Submit, InUse, InSlot, Linked, TypeOK
  <2>2. \A u \in Timer : steps'[u] = IF u = t THEN n ELSE steps[u]
    BY <1>1 DEF Submit, TypeOK
  <2>. QED
    BY <2>1, <2>2 DEF Asked
<1>2. ASSUME NEW t \in Timer, Cancel(t) PROVE Asked'
  <2>1. \A u \in Timer : InUse(u)' => InUse(u)
    BY <1>2 DEF Cancel, InUse, InSlot, Unlinked, TypeOK
  <2>. QED
    BY <1>2, <2>1 DEF Asked, Cancel
<1>3. ASSUME NEW t \in Timer, Refresh(t) PROVE Asked'
  <2>1. InUse(t)
    BY <1>3 DEF Refresh, Usable, InUse
  <2>2. \A u \in Timer : u # t /\ InUse(u)' => InUse(u)
    BY <1>3 DEF Refresh, InUse, InSlot, Linked, Unlinked, TypeOK
  <2>. QED
    BY <1>3, <2>1, <2>2 DEF Asked, Refresh
<1>4. ASSUME NEW t \in Timer, Call(t) PROVE Asked'
  <2>1. \A u \in Timer : InUse(u)' => InUse(u)
    BY <1>4 DEF Call, InUse, InSlot
  <2>. QED
    BY <1>4, <2>1 DEF Asked, Call
<1>5. CASE Step
  <2>1. \A u \in Timer : InUse(u)' => InUse(u)
    BY <1>5 DEF Step, InUse, InSlot, TypeOK
  <2>. QED
    BY <1>5, <2>1 DEF Asked, Step
<1>6. CASE ReturnOneshot
  <2>1. \A u \in Timer : InUse(u)' => InUse(u)
    BY <1>6, NoneAssumption DEF ReturnOneshot, InUse, InSlot
  <2>. QED
    BY <1>6, <2>1 DEF Asked, ReturnOneshot
<1>7. CASE ReturnLoop
  <2>1. \A u \in Timer : InUse(u)' => InUse(u)
    BY <1>7, NoneAssumption DEF ReturnLoop, InUse, InSlot, Linked, TypeOK
  <2>. QED
    BY <1>7, <2>1 DEF Asked, ReturnLoop
<1>8. CASE Destroy
  <2>1. \A u \in Timer : InUse(u)' => InUse(u)
    BY <1>8 DEF Destroy, InUse, InSlot, TypeOK
  <2>. QED
    BY <1>8, <2>1 DEF Asked, Destroy
<1>9. CASE UNCHANGED vars
  BY <1>9 DEF vars, Asked, InUse, InSlot
<1>. QED
  BY <1>1, <1>2, <1>3, <1>4, <1>5, <1>6, <1>7, <1>8, <1>9 DEF Next

\* At first no timer is in use.
LEMMA AskedInit == Init => Asked
BY NoneAssumption DEF Init, Asked, InUse, InSlot

\* The slot arithmetic: up to a whole turn back is a slot, and less than a whole
\* turn back is at that distance.
LEMMA BackInRange == ASSUME index \in Slots, NEW n \in 0 .. MaxSteps
                     PROVE  Back(n) \in Slots
BY MaxStepsAssumption DEF Slots, Back

\* Less than a whole turn back is at exactly that distance.
LEMMA BackDistance == ASSUME index \in Slots, NEW n \in 0 .. MaxSteps - 1
                      PROVE  Back(n) \in Slots /\ Distance(Back(n)) = n
BY MaxStepsAssumption DEF Slots, Back, Distance

\* With steps from one to the size of the wheel every index that is computed is
\* that of a slot: what time_wheel_refresh asserts, and what its reader and
\* time_wheel_step's rely on when they use it to address the array.
THEOREM IndicesAreSlots == ASSUME Steps \subseteq 1 .. MaxSteps
                           PROVE  Spec => []IndexInRange
<1> DEFINE Inv == TypeOK /\ SlotsAgree /\ Asked /\ IndexInRange
<1>1. Init => Inv
  <2>1. Init => IndexInRange
    <3>1. 0 \in Slots
      BY MaxStepsAssumption DEF Slots
    <3>. QED
      BY <3>1 DEF Init, IndexInRange
  <2>. QED
    BY <2>1, Created, AskedInit
<1>2. Inv /\ [Next]_vars => Inv'
  <2> SUFFICES ASSUME Inv, [Next]_vars PROVE IndexInRange'
    BY TypeStep, SlotsStep, AskedStep
  <2>1. ASSUME NEW t \in Timer, NEW n \in Steps, Submit(t, n) PROVE IndexInRange'
    <3>1. n \in 0 .. MaxSteps
      OBVIOUS
    <3>2. SubmitSlot(n) \in Slots
      BY <3>1, BackInRange, MaxStepsAssumption DEF SubmitSlot, TypeOK
    <3>. QED
      BY <2>1, <3>2 DEF Submit, IndexInRange, TypeOK
  <2>2. ASSUME NEW t \in Timer, Refresh(t) PROVE IndexInRange'
    <3>1. steps[t] \in 1 .. MaxSteps
      BY <2>2 DEF Refresh, Usable, Asked, InUse
    <3>2. Back(steps[t]) \in Slots
      BY <3>1, BackInRange, MaxStepsAssumption DEF TypeOK
    <3>. QED
      BY <2>2, <3>2 DEF Refresh, IndexInRange, TypeOK
  <2>3. CASE ReturnLoop
    <3>1. running \in Timer
      BY <2>3 DEF ReturnLoop, TypeOK
    <3>2. steps[running] \in 1 .. MaxSteps
      BY <3>1 DEF Asked, InUse
    <3>3. Back(steps[running] - 1) \in Slots
      BY <3>2, BackInRange, MaxStepsAssumption DEF TypeOK
    <3>. QED
      BY <2>3, <3>1, <3>3 DEF ReturnLoop, IndexInRange, TypeOK
  <2>4. UNCHANGED slot => IndexInRange'
    BY DEF IndexInRange
  <2>. QED
    BY <2>1, <2>2, <2>3, <2>4 DEF Next, vars, Cancel, Call, Step, ReturnOneshot, Destroy
<1>. QED
  BY <1>1, <1>2, PTL DEF Spec

-----------------------------------------------------------------------------
(***************************************************************************)
(* The refinement, for numbers of steps below the size of the wheel.       *)
(***************************************************************************)
\* What a step that leaves the wheel's position alone does to the counts.
LEMMA LeftSet ==
  ASSUME TypeOK, index' = index, NEW t \in Timer, NEW k \in Slots,
         slot' = [slot EXCEPT ![t] = k], InSlot(t)',
         \A u \in Timer : u # t => (InSlot(u)' <=> InSlot(u))
  PROVE  Left' = [Left EXCEPT ![t] = Distance(k) + 1]
<1>1. slot'[t] = k /\ \A u \in Timer : u # t => slot'[u] = slot[u]
  BY DEF TypeOK
<1>2. \A i : Distance(i)' = Distance(i)
  BY DEF Distance
<1>3. \A u \in Timer : Left'[u] = IF u = t THEN Distance(k) + 1 ELSE Left[u]
  BY <1>1, <1>2 DEF Left
<1>. QED
  BY <1>3 DEF Left

\* A timer taken out of its slot stops counting.
LEMMA LeftCleared ==
  ASSUME TypeOK, index' = index, slot' = slot, NEW t \in Timer, ~InSlot(t)',
         \A u \in Timer : u # t => (InSlot(u)' <=> InSlot(u))
  PROVE  Left' = [Left EXCEPT ![t] = 0]
BY DEF Left, Distance

\* Steps that leave slots and position alone leave the counts alone.
LEMMA LeftKept ==
  ASSUME index' = index, slot' = slot, buckets' = buckets
  PROVE  Left' = Left
BY DEF Left, Distance, InSlot

\* A timer counts exactly while it is in a slot, and its count is in the range
\* of the wheel.
LEMMA CountsInSlot ==
  ASSUME TypeOK, SlotsAgree, NEW t \in Timer
  PROVE  /\ Left[t] \in Nat
         /\ InSlot(t) <=> Left[t] > 0
         /\ InSlot(t) => slot[t] \in Slots /\ t \in buckets[slot[t]]
<1>1. InSlot(t) => slot[t] \in Slots /\ t \in buckets[slot[t]]
  BY DEF InSlot, SlotsAgree
<1>2. InSlot(t) => Distance(slot[t]) \in Nat
  BY <1>1, MaxStepsAssumption DEF Slots, Distance, TypeOK
<1>. QED
  BY <1>1, <1>2 DEF Left

\* The operations, one by one, are those of CountdownTimers: time_wheel_submit,
LEMMA SubmitStarts ==
  ASSUME TypeOK, SlotsAgree, NEW t \in Timer, NEW n \in 1 .. MaxSteps - 1, Submit(t, n)
  PROVE  Countdown!Start(t, n)
<1>1. SubmitSlot(n) = Back(n) /\ Back(n) \in Slots /\ Distance(Back(n)) = n
  BY BackDistance, MaxStepsAssumption DEF SubmitSlot, TypeOK
<1>2. \A i \in Slots : buckets'[i] = IF i = Back(n) THEN buckets[i] \cup {t} ELSE buckets[i]
  BY <1>1 DEF Submit, Linked, TypeOK
<1>3. InSlot(t)' /\ \A u \in Timer : u # t => (InSlot(u)' <=> InSlot(u))
  BY <1>1, <1>2 DEF InSlot
<1>4. Left' = [Left EXCEPT ![t] = n + 1]
  BY <1>1, <1>3, LeftSet DEF Submit
<1>5. ~Countdown!Active(t)
  BY CountsInSlot DEF Submit, Countdown!Active
<1>. QED
  BY <1>4, <1>5 DEF Submit, Countdown!Start

\* a timer the user may use is one that counts or is due,
LEMMA UsableIsActive ==
  ASSUME TypeOK, SlotsAgree, NEW t \in Timer, Usable(t)
  PROVE  Countdown!Active(t)
BY CountsInSlot DEF Usable, Countdown!Active

\* time_wheel_cancel,
LEMMA CancelCancels ==
  ASSUME TypeOK, SlotsAgree, NEW t \in Timer, Cancel(t)
  PROVE  Countdown!Cancel(t)
<1>1. \A i \in Slots : buckets'[i] = buckets[i] \ {t}
  BY DEF Cancel, Unlinked
<1>2. ~InSlot(t)' /\ \A u \in Timer : u # t => (InSlot(u)' <=> InSlot(u))
  BY <1>1 DEF InSlot
<1>3. Left' = [Left EXCEPT ![t] = 0]
  BY <1>2, LeftCleared DEF Cancel
<1>. QED
  BY <1>3, UsableIsActive DEF Cancel, Countdown!Cancel

\* time_wheel_refresh, which counts from the wheel's position,
LEMMA RefreshRestarts ==
  ASSUME TypeOK, SlotsAgree, NEW t \in Timer, steps[t] \in 1 .. MaxSteps - 1, Refresh(t)
  PROVE  Countdown!Restart(t)
<1>1. Back(steps[t]) \in Slots /\ Distance(Back(steps[t])) = steps[t]
  BY BackDistance DEF TypeOK
<1>2. \A i \in Slots : buckets'[i] = IF i = Back(steps[t]) THEN (buckets[i] \ {t}) \cup {t}
                                   ELSE buckets[i] \ {t}
  BY <1>1 DEF Refresh, Linked, Unlinked
<1>3. InSlot(t)' /\ \A u \in Timer : u # t => (InSlot(u)' <=> InSlot(u))
  BY <1>1, <1>2 DEF InSlot
<1>4. Left' = [Left EXCEPT ![t] = steps[t] + 1]
  BY <1>1, <1>3, LeftSet DEF Refresh
<1>. QED
  BY <1>4, UsableIsActive DEF Refresh, Countdown!Restart

\* and the loop reschedule, which counts from the slot that has been left.
LEMMA LoopReturns ==
  ASSUME TypeOK, SlotsAgree, NEW t \in Timer, t = running,
         steps[t] \in 1 .. MaxSteps - 1, ReturnLoop
  PROVE  Countdown!Return(TRUE)
<1>. DEFINE k == Back(steps[t] - 1)
<1>1. k \in Slots /\ Distance(k) + 1 = steps[t]
  <2>1. steps[t] - 1 \in 0 .. MaxSteps - 1
    BY MaxStepsAssumption
  <2>. QED
    BY <2>1, BackDistance DEF TypeOK
<1>2. \A i \in Slots : buckets'[i] = IF i = k THEN buckets[i] \cup {t} ELSE buckets[i]
  BY <1>1 DEF ReturnLoop, Linked, TypeOK
<1>3. InSlot(t)' /\ \A u \in Timer : u # t => (InSlot(u)' <=> InSlot(u))
  BY <1>1, <1>2 DEF InSlot
<1>4. slot' = [slot EXCEPT ![t] = k] /\ index' = index
  BY DEF ReturnLoop
<1>5. Left' = [Left EXCEPT ![t] = steps[t]]
  BY <1>1, <1>3, <1>4, LeftSet
<1>. QED
  BY <1>5, NoneAssumption DEF ReturnLoop, Countdown!Return

\* The wheel moves: the timers of the slot it was at are those whose count is one,
\* and every other slot is one nearer.
LEMMA StepSteps ==
  ASSUME TypeOK, SlotsAgree, Step
  PROVE  Countdown!Step
<1>1. \A i \in Slots : buckets'[i] = IF i = index THEN {} ELSE buckets[i]
  BY DEF Step, TypeOK
<1>2. \A i \in Slots : i # index => Distance(i)' = Distance(i) - 1
  BY MaxStepsAssumption DEF Step, Distance, Slots, TypeOK
<1>3. \A i \in Slots : Distance(i) \in Nat /\ (Distance(i) = 0 <=> i = index)
  BY MaxStepsAssumption DEF Distance, Slots, TypeOK
<1>4. \A t \in Timer : Left[t] = 1 <=> t \in buckets[index]
  <2> SUFFICES ASSUME NEW t \in Timer PROVE Left[t] = 1 <=> t \in buckets[index]
    OBVIOUS
  <2>1. CASE InSlot(t)
    <3>1. slot[t] \in Slots /\ t \in buckets[slot[t]] /\ Left[t] = Distance(slot[t]) + 1
      BY <2>1, CountsInSlot DEF Left
    <3>2. t \in buckets[index] => slot[t] = index
      BY DEF SlotsAgree, TypeOK
    <3>. QED
      BY <1>3, <3>1, <3>2
  <2>2. CASE ~InSlot(t)
    BY <2>2 DEF Left, InSlot, TypeOK
  <2>. QED
    BY <2>1, <2>2
<1>5. \A t \in Timer : Left'[t] = IF Left[t] = 0 THEN 0 ELSE Left[t] - 1
  <2> SUFFICES ASSUME NEW t \in Timer PROVE Left'[t] = IF Left[t] = 0 THEN 0 ELSE Left[t] - 1
    OBVIOUS
  <2>1. slot' = slot
    BY DEF Step
  <2>2. CASE InSlot(t)
    <3>1. slot[t] \in Slots /\ t \in buckets[slot[t]] /\ Left[t] = Distance(slot[t]) + 1
      BY <2>2, CountsInSlot DEF Left
    <3>2. CASE slot[t] = index
      <4>1. ~InSlot(t)'
        BY <1>1, <3>2 DEF InSlot, SlotsAgree
      <4>. QED
        BY <1>3, <3>1, <3>2, <4>1 DEF Left
    <3>3. CASE slot[t] # index
      <4>1. InSlot(t)'
        BY <1>1, <3>1, <3>3 DEF InSlot
      <4>2. Left'[t] = Distance(slot[t])' + 1
        BY <2>1, <4>1 DEF Left
      <4>. QED
        BY <1>2, <1>3, <2>1, <3>1, <3>3, <4>2
    <3>. QED
      BY <3>2, <3>3
  <2>3. CASE ~InSlot(t)
    <3>1. ~InSlot(t)'
      BY <1>1, <2>3 DEF InSlot
    <3>. QED
      BY <2>3, <3>1 DEF Left
  <2>. QED
    BY <2>2, <2>3
<1>6. Left' = [t \in Timer |-> IF Left[t] = 0 THEN 0 ELSE Left[t] - 1]
  BY <1>5 DEF Left
<1>7. done' = {t \in Timer : Left[t] = 1}
  BY <1>4 DEF Step, TypeOK
<1>. QED
  BY <1>6, <1>7 DEF Step, Countdown!Step

\* The wheel implements CountdownTimers (what time_wheel.h says of it, that a
\* function is executed after a number of steps) for every size of the wheel and
\* every number of timers, when users ask for at least one step and for fewer
\* than the wheel has slots.
THEOREM WheelImplementsCountdown == ASSUME Steps \subseteq 1 .. MaxSteps - 1
                                    PROVE  Spec => ImplementsCountdown
<1> DEFINE Inv == TypeOK /\ SlotsAgree /\ Asked
<1>1. Spec => []Inv
  BY Created, AskedInit, TypeStep, SlotsStep, AskedStep, PTL DEF Spec
<1>2. Init => Countdown!Init
  BY DEF Init, Countdown!Init, Left, InSlot
<1>3. Inv /\ [Next]_vars => [Countdown!Next]_(Countdown!vars)
  <2> SUFFICES ASSUME Inv, [Next]_vars PROVE [Countdown!Next]_(Countdown!vars)
    OBVIOUS
  <2>1. ASSUME NEW t \in Timer, NEW n \in Steps, Submit(t, n) PROVE Countdown!Next
    BY <2>1, SubmitStarts DEF Countdown!Next
  <2>2. ASSUME NEW t \in Timer, Cancel(t) PROVE Countdown!Next
    BY <2>2, CancelCancels DEF Countdown!Next
  <2>3. ASSUME NEW t \in Timer, Refresh(t) PROVE Countdown!Next
    <3>1. steps[t] \in 1 .. MaxSteps - 1
      BY <2>3 DEF Refresh, Usable, Asked, InUse
    <3>. QED
      BY <2>3, <3>1, RefreshRestarts DEF Countdown!Next
  <2>4. ASSUME NEW t \in Timer, Call(t) PROVE Countdown!Next
    <3>1. Left' = Left
      BY <2>4, LeftKept DEF Call
    <3>. QED
      BY <2>4, <3>1 DEF Call, Countdown!Call, Countdown!Next
  <2>5. CASE Step
    BY <2>5, StepSteps DEF Countdown!Next
  <2>6. CASE ReturnOneshot
    <3>1. Left' = Left
      BY <2>6, LeftKept DEF ReturnOneshot
    <3>2. Countdown!Return(FALSE)
      BY <2>6, <3>1 DEF ReturnOneshot, Countdown!Return
    <3>. QED
      BY <3>2 DEF Countdown!Next
  <2>7. CASE ReturnLoop
    <3>1. PICK t \in Timer : t = running
      BY <2>7 DEF ReturnLoop, TypeOK
    <3>2. steps[t] \in 1 .. MaxSteps - 1
      BY <3>1 DEF Asked, InUse
    <3>3. Countdown!Return(TRUE)
      BY <2>7, <3>1, <3>2, LoopReturns
    <3>. QED
      BY <3>3 DEF Countdown!Next
  <2>8. CASE Destroy
    <3>1. Left' = [t \in Timer |-> 0]
      BY <2>8 DEF Destroy, Left, InSlot
    <3>2. Countdown!Close
      BY <2>8, <3>1 DEF Destroy, Countdown!Close
    <3>. QED
      BY <3>2 DEF Countdown!Next
  <2>9. CASE UNCHANGED vars
    BY <2>9, LeftKept DEF vars, Countdown!vars
  <2>. QED
    BY <2>1, <2>2, <2>3, <2>4, <2>5, <2>6, <2>7, <2>8, <2>9 DEF Next
<1>. QED
  BY <1>1, <1>2, <1>3, PTL DEF Spec, Countdown!Spec, ImplementsCountdown
=============================================================================
