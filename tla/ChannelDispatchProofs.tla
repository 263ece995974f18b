----------------------- MODULE ChannelDispatchProofs ------------------------
(***************************************************************************)
(* Theorems about channels and their dispatch, for any number of channels, *)
(* loops and events, in two layers.                                        *)
(*                                                                         *)
(* What epoll knows of the channels depends only on the calls of the       *)
(* users: Registered is inductive by itself, whatever channels move.  What *)
(* a batch may refer to depends on it and on which loop a channel is of:   *)
(* Dispatched is inductive when channels are moved to another loop only    *)
(* while no batch refers to them (MoveActive = FALSE).                     *)
(***************************************************************************)
EXTENDS ChannelDispatch, FiniteSetTheorems, SequenceTheorems, TLAPS

-----------------------------------------------------------------------------
(***************************************************************************)
(* The inductive invariants.                                               *)
(***************************************************************************)
\* A channel that is not allocated yet is of no loop and waits for nothing.
UnusedIsBlank ==
    \A c \in Channel : mem[c] = "unused" =>
        /\ holder[c] = None
        /\ loopOf[c] = None
        /\ event[c] = {}
        /\ ~isAlive[c]
        /\ c \notin destroyed

\* is_alive tells whether a channel that is still allocated was destroyed.
AliveUntilDestroyed ==
    \A c \in Channel : /\ mem[c] = "freed" => c \in destroyed
                       /\ mem[c] = "allocated" => (isAlive[c] <=> c \notin destroyed)

\* The kernel's interest, of the destroyed channels too.
InterestIsMask ==
    \A l \in Loop, c \in Channel :
        interest[l][c] = IF loopOf[c] = l /\ c \notin destroyed THEN event[c] ELSE {}

MonitoredIsRegistered ==
    \A c \in Channel \ destroyed : isMonitored[c] = (loopOf[c] # None /\ event[c] # {})

\* A channel is attached to the loop whose thread uses it.
HolderIsLoop == \A c \in Channel : loopOf[c] # None => holder[c] = loopOf[c]

\* A channel on its way to a loop is nobody's, and is on its way to one only.
TransitIsAlone ==
    \A l \in Loop : \A c \in moving[l] :
        /\ mem[c] = "allocated"
        /\ c \notin destroyed
        /\ holder[c] = None
        /\ loopOf[c] = None
        /\ \A other \in Loop : c \in moving[other] => other = l

\* Only channels that were once allocated are dispatched.
InBatch(l, c) == c \in ToSet(batch[l])
BatchIsUsed ==
    \A l \in Loop, c \in Channel : InBatch(l, c) \/ inside[l] = c => mem[c] # "unused"

Registered == /\ TypeOK
              /\ UnusedIsBlank
              /\ AliveUntilDestroyed
              /\ InterestIsMask
              /\ MonitoredIsRegistered
              /\ HolderIsLoop
              /\ TransitIsAlone
              /\ BatchIsUsed

\* The loop will still look at the channel in this pass, or is in its callback.
Dispatching(l, c) == \/ inside[l] = c
                     \/ pc[l] \in {"dispatch", "callback"} /\ InBatch(l, c)

\* A batch lists no channel twice, and not the one that is being dispatched.
BatchOnce ==
    \A l \in Loop : /\ inside[l] \notin ToSet(batch[l])
                    /\ \A i, j \in DOMAIN batch[l] : batch[l][i] = batch[l][j] => i = j

NothingCollected == \A l \in Loop : pc[l] \in {"poll", "user"} => batch[l] = <<>>

\* Between epoll_wait() and the first pass nobody has run: what is collected is
\* still registered.
CollectedIsRegistered ==
    \A l \in Loop : pc[l] = "mark" => \A c \in ToSet(batch[l]) : interest[l][c] # {}

\* The loop that refers to a channel is the one whose thread uses it.
DispatchedIsHeld ==
    \A l \in Loop, c \in Channel : InBatch(l, c) \/ inside[l] = c => holder[c] = l

\* is_active and is_in_callback are what loop_loop() makes of them.
ActiveIsDispatching ==
    \A c \in Channel : isActive[c] <=> \E l \in Loop : Dispatching(l, c)
CallbackIsInside ==
    \A c \in Channel : isInCallback[c] <=> \E l \in Loop : inside[l] = c

\* The free of a destroyed channel is deferred exactly while it is dispatched.
FreedIsIdle == \A c \in Channel : mem[c] = "freed" => ~isActive[c]
DeferredIsActive ==
    \A c \in destroyed : mem[c] = "allocated" => isActive[c]

Dispatched == /\ fault = "none"
              /\ BatchOnce
              /\ NothingCollected
              /\ CollectedIsRegistered
              /\ DispatchedIsHeld
              /\ ActiveIsDispatching
              /\ CallbackIsInside
              /\ FreedIsIdle
              /\ DeferredIsActive

-----------------------------------------------------------------------------
(***************************************************************************)
(* Lemmas about sequences and about loop_update_channel().                 *)
(***************************************************************************)
\* Taking the head of a sequence that lists nothing twice removes it.
LEMMA HeadTaken ==
    ASSUME NEW S, NEW s \in Seq(S), s # <<>>
    PROVE  /\ Head(s) \in S /\ Head(s) \in ToSet(s)
           /\ Tail(s) \in Seq(S)
           /\ ToSet(Tail(s)) \subseteq ToSet(s)
           /\ \A x \in ToSet(s) : x = Head(s) \/ x \in ToSet(Tail(s))
           /\ (\A i, j \in DOMAIN s : s[i] = s[j] => i = j) =>
                 /\ Head(s) \notin ToSet(Tail(s))
                 /\ \A i, j \in DOMAIN Tail(s) : Tail(s)[i] = Tail(s)[j] => i = j
<1>1. /\ Head(s) \in S /\ Tail(s) \in Seq(S) /\ Len(Tail(s)) = Len(s) - 1
      /\ \A i \in 1 .. Len(Tail(s)) : Tail(s)[i] = s[i + 1]
  BY HeadTailProperties
<1>2. Head(s) = s[1] /\ Len(s) \in Nat /\ Len(s) >= 1 /\ DOMAIN s = 1 .. Len(s)
  BY EmptySeq, LenProperties
<1>3. DOMAIN Tail(s) = 1 .. (Len(s) - 1)
  BY <1>1, LenProperties
<1>4. ToSet(Tail(s)) \subseteq ToSet(s)
  <2> SUFFICES ASSUME NEW i \in DOMAIN Tail(s) PROVE Tail(s)[i] \in ToSet(s)
    BY DEF ToSet
  <2>1. Tail(s)[i] = s[i + 1] /\ i + 1 \in DOMAIN s
    BY <1>1, <1>2, <1>3
  <2>. QED
    BY <2>1 DEF ToSet
<1>5. ASSUME NEW x \in ToSet(s) PROVE x = Head(s) \/ x \in ToSet(Tail(s))
  <2>1. PICK i \in DOMAIN s : x = s[i]
    BY DEF ToSet
  <2>2. CASE i = 1
    BY <2>1, <2>2, <1>2
  <2>3. CASE i # 1
    <3>1. i - 1 \in DOMAIN Tail(s) /\ Tail(s)[i - 1] = s[i]
      BY <2>3, <1>1, <1>2, <1>3
    <3>. QED
      BY <3>1, <2>1 DEF ToSet
  <2>. QED
    BY <2>2, <2>3
<1>6. ASSUME \A i, j \in DOMAIN s : s[i] = s[j] => i = j
      PROVE  /\ Head(s) \notin ToSet(Tail(s))
             /\ \A i, j \in DOMAIN Tail(s) : Tail(s)[i] = Tail(s)[j] => i = j
  <2>1. ASSUME NEW i \in DOMAIN Tail(s) PROVE Tail(s)[i] # s[1]
    BY <1>1, <1>2, <1>3, <1>6
  <2>2. \A i, j \in DOMAIN Tail(s) : Tail(s)[i] = Tail(s)[j] => i = j
    BY <1>1, <1>2, <1>3, <1>6
  <2>. QED
    BY <2>1, <2>2, <1>2 DEF ToSet
<1>7. Head(s) \in ToSet(s)
  BY <1>2 DEF ToSet
<1>. QED
  BY <1>1, <1>4, <1>5, <1>6, <1>7

\* What epoll_wait() may return, as a sequence.
LEMMA OrderedSets ==
    ASSUME NEW ready \in SUBSET Channel, NEW order \in SetToSeqs(ready)
    PROVE  /\ order \in Seq(Channel)
           /\ ToSet(order) \subseteq ready
           /\ \A i, j \in DOMAIN order : order[i] = order[j] => i = j
           /\ ready = {} => order = <<>>
<1>1. IsFiniteSet(ready) /\ Cardinality(ready) \in Nat
  BY ChannelAssumption, FS_Subset, FS_CardinalityType
<1>2. /\ order \in [1 .. Cardinality(ready) -> ready]
      /\ \A i, j \in 1 .. Cardinality(ready) : i # j => order[i] # order[j]
  BY DEF SetToSeqs
<1>3. order \in Seq(Channel) /\ Len(order) = Cardinality(ready)
  BY <1>1, <1>2
<1>4. ToSet(order) \subseteq ready
  BY <1>2 DEF ToSet
<1>5. ready = {} => order = <<>>
  BY <1>3, FS_EmptySet, EmptySeq
<1>. QED
  BY <1>2, <1>3, <1>4, <1>5

\* loop_update_channel() with any mask registers the channel for exactly that
\* mask, if is_monitored told before whether it was registered.
LEMMA Updates ==
    ASSUME TypeOK, NEW l \in Loop, NEW c \in Channel, NEW mask \in SUBSET Events,
           isMonitored[c] = (interest[l][c] # {}),
           UpdateChannel(l, c, mask)
    PROVE  /\ interest' \in [Loop -> [Channel -> SUBSET Events]]
           /\ isMonitored' \in [Channel -> BOOLEAN]
           /\ interest'[l][c] = mask
           /\ \A m \in Loop, d \in Channel :
                 m # l \/ d # c => interest'[m][d] = interest[m][d]
           /\ isMonitored'[c] = (mask # {})
           /\ \A d \in Channel : d # c => isMonitored'[d] = isMonitored[d]
<1> DEFINE operate == IF mask = {} THEN "DEL" ELSE IF isMonitored[c] THEN "MOD" ELSE "ADD"
           works == IF operate = "ADD" THEN ~(interest[l][c] # {}) ELSE interest[l][c] # {}
<1>1. /\ isMonitored' = [isMonitored EXCEPT ![c] = (operate # "DEL")]
      /\ interest' = IF works THEN [interest EXCEPT ![l][c] = mask] ELSE interest
  BY DEF UpdateChannel
<1>2. /\ isMonitored \in [Channel -> BOOLEAN]
      /\ interest \in [Loop -> [Channel -> SUBSET Events]]
  BY DEF TypeOK
<1>3. /\ isMonitored' \in [Channel -> BOOLEAN]
      /\ isMonitored'[c] = (mask # {})
      /\ \A d \in Channel : d # c => isMonitored'[d] = isMonitored[d]
  BY <1>1, <1>2
<1>4. CASE mask = {} /\ interest[l][c] = {}
  <2>1. interest' = interest
    BY <1>1, <1>4
  <2>. QED
    BY <2>1, <1>2, <1>3, <1>4
<1>5. CASE ~(mask = {} /\ interest[l][c] = {})
  <2>1. works
    BY <1>5
  <2>2. interest' = [interest EXCEPT ![l][c] = mask]
    BY <1>1, <2>1
  <2>. QED
    BY <2>2, <1>2, <1>3
<1>. QED
  BY <1>4, <1>5

-----------------------------------------------------------------------------
(***************************************************************************)
(* What epoll knows: Registered is inductive.                              *)
(***************************************************************************)
\* The channels a user may touch.
LEMMA UsedChannel ==
    ASSUME Registered, NEW l \in Loop, NEW c \in Channel, Uses(l, c)
    PROVE  /\ mem[c] = "allocated" /\ isAlive[c]
           /\ holder[c] = l /\ c \notin destroyed
           /\ loopOf[c] = None \/ loopOf[c] = l
           /\ \A m \in Loop : c \notin moving[m]
           /\ isMonitored[c] = (interest[l][c] # {})
<1>1. holder[c] = l /\ c \notin destroyed /\ l # None
  BY ChannelAssumption DEF Uses
<1>2. mem[c] = "allocated" /\ isAlive[c]
  BY <1>1 DEF Registered, TypeOK, UnusedIsBlank, AliveUntilDestroyed
<1>3. loopOf[c] = None \/ loopOf[c] = l
  BY <1>1 DEF Registered, HolderIsLoop
<1>4. \A m \in Loop : c \notin moving[m]
  BY <1>1 DEF Registered, TransitIsAlone
<1>5. isMonitored[c] = (interest[l][c] # {})
  BY <1>1, <1>3 DEF Registered, InterestIsMask, MonitoredIsRegistered
<1>. QED
  BY <1>1, <1>2, <1>3, <1>4, <1>5

LEMMA RegisteredInit == Init => Registered
<1> SUFFICES ASSUME Init PROVE Registered
  OBVIOUS
<1>1. TypeOK
  BY ChannelAssumption DEF Init, TypeOK
<1>2. UnusedIsBlank /\ AliveUntilDestroyed /\ InterestIsMask /\ MonitoredIsRegistered
  BY ChannelAssumption
  DEF Init, UnusedIsBlank, AliveUntilDestroyed, InterestIsMask, MonitoredIsRegistered
<1>3. HolderIsLoop /\ TransitIsAlone
  BY DEF Init, HolderIsLoop, TransitIsAlone
<1>4. BatchIsUsed
  BY ChannelAssumption DEF Init, BatchIsUsed, InBatch, ToSet
<1>. QED
  BY <1>1, <1>2, <1>3, <1>4 DEF Registered

LEMMA RegisteredNew ==
    ASSUME Registered, NEW l \in Loop, NEW c \in Channel, NewChannel(l, c)
    PROVE  Registered'
<1>0. /\ mem[c] = "unused" /\ holder[c] = None /\ event[c] = {} /\ c \notin destroyed
      /\ mem' = [mem EXCEPT ![c] = "allocated"]
      /\ isAlive' = [isAlive EXCEPT ![c] = TRUE]
      /\ loopOf' = [loopOf EXCEPT ![c] = l]
      /\ holder' = [holder EXCEPT ![c] = l]
      /\ UNCHANGED <<event, isActive, isInCallback, isMonitored, interest, destroyed,
                     moving, pc, batch, inside, fault>>
      /\ loopOf[c] = None
  BY DEF NewChannel, Registered, UnusedIsBlank, dispatch
<1>1. TypeOK'
  BY <1>0 DEF Registered, TypeOK
<1>2. UnusedIsBlank' /\ AliveUntilDestroyed'
  BY <1>0 DEF Registered, TypeOK, UnusedIsBlank, AliveUntilDestroyed
<1>3. InterestIsMask'
  BY <1>0, ChannelAssumption DEF Registered, TypeOK, InterestIsMask
<1>4. MonitoredIsRegistered' /\ HolderIsLoop'
  BY <1>0 DEF Registered, TypeOK, MonitoredIsRegistered, HolderIsLoop
<1>5. \A m \in Loop : c \notin moving[m]
  BY <1>0 DEF Registered, TransitIsAlone
<1>6. TransitIsAlone'
  BY <1>0, <1>5 DEF Registered, TypeOK, TransitIsAlone
<1>7. BatchIsUsed'
  BY <1>0 DEF Registered, TypeOK, BatchIsUsed, InBatch
<1>. QED
  BY <1>1, <1>2, <1>3, <1>4, <1>6, <1>7 DEF Registered

\* channel_setevent() and channel_clearevent() change the mask, here to any.
LEMMA RegisteredMask ==
    ASSUME Registered, NEW l \in Loop, NEW c \in Channel, NEW mask \in SUBSET Events,
           Uses(l, c), loopOf[c] # None,
           event' = [event EXCEPT ![c] = mask],
           UpdateChannel(loopOf[c], c, mask),
           UNCHANGED <<mem, loopOf, flags, holder, destroyed, moving, dispatch, fault>>
    PROVE  /\ Registered'
           /\ \A m \in Loop, d \in Channel :
                 m # l \/ d # c => interest'[m][d] = interest[m][d]
<1>0. /\ mem[c] = "allocated" /\ c \notin destroyed /\ loopOf[c] = l
      /\ isMonitored[c] = (interest[l][c] # {})
      /\ UNCHANGED <<mem, loopOf, isActive, isInCallback, isAlive, holder, destroyed,
                     moving, pc, batch, inside, fault>>
      /\ event \in [Channel -> SUBSET Events]
      /\ \A m \in Loop : c \notin moving[m]
  BY UsedChannel DEF flags, dispatch, Registered, TypeOK
<1>1. /\ interest' \in [Loop -> [Channel -> SUBSET Events]]
      /\ isMonitored' \in [Channel -> BOOLEAN]
      /\ interest'[l][c] = mask
      /\ \A m \in Loop, d \in Channel : m # l \/ d # c => interest'[m][d] = interest[m][d]
      /\ isMonitored'[c] = (mask # {})
      /\ \A d \in Channel : d # c => isMonitored'[d] = isMonitored[d]
  BY <1>0, Updates DEF Registered
<1>2. TypeOK'
  BY <1>0, <1>1 DEF Registered, TypeOK
<1>3. UnusedIsBlank' /\ AliveUntilDestroyed'
  BY <1>0 DEF Registered, UnusedIsBlank, AliveUntilDestroyed
<1>4. InterestIsMask'
  BY <1>0, <1>1 DEF Registered, InterestIsMask
<1>5. MonitoredIsRegistered'
  BY <1>0, <1>1 DEF Registered, MonitoredIsRegistered
<1>6. HolderIsLoop' /\ TransitIsAlone'
  BY <1>0 DEF Registered, HolderIsLoop, TransitIsAlone
<1>7. BatchIsUsed'
  BY <1>0 DEF Registered, BatchIsUsed, InBatch
<1>. QED
  BY <1>1, <1>2, <1>3, <1>4, <1>5, <1>6, <1>7 DEF Registered

LEMMA RegisteredSet ==
    ASSUME Registered, NEW l \in Loop, NEW c \in Channel, NEW e \in Events, SetEvent(l, c, e)
    PROVE  /\ Registered'
           /\ \A m \in Loop, d \in Channel :
                 m # l \/ d # c => interest'[m][d] = interest[m][d]
<1> DEFINE mask == event[c] \cup {e}
<1>1. mask \in SUBSET Events /\ event \in [Channel -> SUBSET Events]
  BY DEF Registered, TypeOK
<1>2. event' = [event EXCEPT ![c] = mask] /\ event'[c] = mask
  BY <1>1 DEF SetEvent
<1>3. UpdateChannel(loopOf[c], c, event'[c])
  BY DEF SetEvent
<1>4. UpdateChannel(loopOf[c], c, mask)
  BY <1>2, <1>3
<1> HIDE DEF mask
<1>. QED
  BY <1>1, <1>2, <1>4, RegisteredMask DEF SetEvent

LEMMA RegisteredClear ==
    ASSUME Registered, NEW l \in Loop, NEW c \in Channel, NEW e \in Events, ClearEvent(l, c, e)
    PROVE  /\ Registered'
           /\ \A m \in Loop, d \in Channel :
                 m # l \/ d # c => interest'[m][d] = interest[m][d]
<1> DEFINE mask == event[c] \ {e}
<1>1. mask \in SUBSET Events /\ event \in [Channel -> SUBSET Events]
  BY DEF Registered, TypeOK
<1>2. event' = [event EXCEPT ![c] = mask] /\ event'[c] = mask
  BY <1>1 DEF ClearEvent
<1>3. UpdateChannel(loopOf[c], c, event'[c])
  BY DEF ClearEvent
<1>4. UpdateChannel(loopOf[c], c, mask)
  BY <1>2, <1>3
<1> HIDE DEF mask
<1>. QED
  BY <1>1, <1>2, <1>4, RegisteredMask DEF ClearEvent

LEMMA RegisteredDetach ==
    ASSUME Registered, NEW l \in Loop, NEW c \in Channel, Detach(l, c)
    PROVE  /\ Registered'
           /\ \A m \in Loop, d \in Channel :
                 m # l \/ d # c => interest'[m][d] = interest[m][d]
<1>0. /\ mem[c] = "allocated" /\ c \notin destroyed /\ loopOf[c] = l /\ holder[c] = l
      /\ isMonitored[c] = (interest[l][c] # {})
      /\ loopOf' = [loopOf EXCEPT ![c] = None]
      /\ UNCHANGED <<mem, event, isActive, isInCallback, isAlive, holder, destroyed,
                     moving, pc, batch, inside, fault>>
      /\ \A m \in Loop : c \notin moving[m]
      /\ UpdateChannel(loopOf[c], c, {})
  BY UsedChannel DEF flags, dispatch, Detach
<1>1. /\ interest' \in [Loop -> [Channel -> SUBSET Events]]
      /\ isMonitored' \in [Channel -> BOOLEAN]
      /\ interest'[l][c] = {}
      /\ \A m \in Loop, d \in Channel : m # l \/ d # c => interest'[m][d] = interest[m][d]
      /\ isMonitored'[c] = FALSE
      /\ \A d \in Channel : d # c => isMonitored'[d] = isMonitored[d]
  BY <1>0, Updates DEF Registered
<1>2. TypeOK'
  BY <1>0, <1>1 DEF Registered, TypeOK
<1>3. UnusedIsBlank' /\ AliveUntilDestroyed'
  BY <1>0 DEF Registered, TypeOK, UnusedIsBlank, AliveUntilDestroyed
<1>4. InterestIsMask'
  <2> SUFFICES ASSUME NEW m \in Loop, NEW d \in Channel
               PROVE  interest'[m][d]
                          = IF loopOf'[d] = m /\ d \notin destroyed THEN event[d] ELSE {}
    BY <1>0 DEF InterestIsMask
  <2>1. interest[m][d] = IF loopOf[d] = m /\ d \notin destroyed THEN event[d] ELSE {}
    BY DEF Registered, InterestIsMask
  <2>2. loopOf'[d] = IF d = c THEN None ELSE loopOf[d]
    BY <1>0 DEF Registered, TypeOK
  <2>. QED
    BY <2>1, <2>2, <1>0, <1>1, ChannelAssumption
<1>5. MonitoredIsRegistered'
  BY <1>0, <1>1 DEF Registered, TypeOK, MonitoredIsRegistered
<1>6. HolderIsLoop' /\ TransitIsAlone'
  BY <1>0 DEF Registered, TypeOK, HolderIsLoop, TransitIsAlone
<1>7. BatchIsUsed'
  BY <1>0 DEF Registered, BatchIsUsed, InBatch
<1>. QED
  BY <1>1, <1>2, <1>3, <1>4, <1>5, <1>6, <1>7 DEF Registered

\* channel_attach() of a channel that is of no loop and on its way to none but l.
LEMMA RegisteredAttachHere ==
    ASSUME Registered, NEW l \in Loop, NEW c \in Channel,
           mem[c] = "allocated", c \notin destroyed, loopOf[c] = None,
           AttachHere(l, c),
           \A d \in Channel : holder'[d] = IF d = c THEN l ELSE holder[d],
           holder' \in [Channel -> Loop \cup {None}],
           moving' \in [Loop -> SUBSET Channel],
           \A m \in Loop : c \notin moving'[m] /\ moving'[m] \subseteq moving[m],
           UNCHANGED <<mem, event, flags, destroyed, dispatch, fault>>
    PROVE  /\ Registered'
           /\ \A m \in Loop, d \in Channel :
                 m # l \/ d # c => interest'[m][d] = interest[m][d]
<1>0. /\ UNCHANGED <<mem, event, isActive, isInCallback, isAlive, destroyed,
                     pc, batch, inside, fault>>
      /\ loopOf' = [loopOf EXCEPT ![c] = l]
      /\ UpdateChannel(l, c, event[c])
      /\ isMonitored[c] = (interest[l][c] # {})
      /\ l # None
  BY ChannelAssumption
  DEF flags, dispatch, AttachHere, Registered, InterestIsMask, MonitoredIsRegistered
<1>1. /\ interest' \in [Loop -> [Channel -> SUBSET Events]]
      /\ isMonitored' \in [Channel -> BOOLEAN]
      /\ interest'[l][c] = event[c]
      /\ \A m \in Loop, d \in Channel : m # l \/ d # c => interest'[m][d] = interest[m][d]
      /\ isMonitored'[c] = (event[c] # {})
      /\ \A d \in Channel : d # c => isMonitored'[d] = isMonitored[d]
  <2>1. event[c] \in SUBSET Events
    BY DEF Registered, TypeOK
  <2>. QED
    BY <2>1, <1>0, Updates DEF Registered
<1>2. TypeOK'
  BY <1>0, <1>1 DEF Registered, TypeOK
<1>3. UnusedIsBlank' /\ AliveUntilDestroyed'
  BY <1>0 DEF Registered, TypeOK, UnusedIsBlank, AliveUntilDestroyed
<1>4. InterestIsMask'
  <2> SUFFICES ASSUME NEW m \in Loop, NEW d \in Channel
               PROVE  interest'[m][d]
                          = IF loopOf'[d] = m /\ d \notin destroyed THEN event[d] ELSE {}
    BY <1>0 DEF InterestIsMask
  <2>1. interest[m][d] = IF loopOf[d] = m /\ d \notin destroyed THEN event[d] ELSE {}
    BY DEF Registered, InterestIsMask
  <2>2. loopOf'[d] = IF d = c THEN l ELSE loopOf[d]
    BY <1>0 DEF Registered, TypeOK
  <2>. QED
    BY <2>1, <2>2, <1>0, <1>1, ChannelAssumption
<1>5. MonitoredIsRegistered'
  BY <1>0, <1>1 DEF Registered, TypeOK, MonitoredIsRegistered
<1>6. HolderIsLoop'
  BY <1>0 DEF Registered, TypeOK, HolderIsLoop
<1>7. TransitIsAlone'
  <2> SUFFICES ASSUME NEW m \in Loop, NEW d \in moving'[m]
               PROVE  /\ mem[d] = "allocated" /\ d \notin destroyed
                      /\ holder'[d] = None /\ loopOf'[d] = None
                      /\ \A other \in Loop : d \in moving'[other] => other = m
    BY <1>0 DEF TransitIsAlone
  <2>1. d # c /\ d \in moving[m] /\ d \in Channel
    BY DEF Registered, TypeOK
  <2>. QED
    BY <2>1, <1>0 DEF Registered, TypeOK, TransitIsAlone
<1>8. BatchIsUsed'
  BY <1>0 DEF Registered, BatchIsUsed, InBatch
<1>. QED
  BY <1>1, <1>2, <1>3, <1>4, <1>5, <1>6, <1>7, <1>8 DEF Registered

LEMMA RegisteredAttach ==
    ASSUME Registered, NEW l \in Loop, NEW c \in Channel, Attach(l, c)
    PROVE  /\ Registered'
           /\ \A m \in Loop, d \in Channel :
                 m # l \/ d # c => interest'[m][d] = interest[m][d]
<1>1. /\ mem[c] = "allocated" /\ c \notin destroyed /\ loopOf[c] = None /\ holder[c] = l
      /\ \A m \in Loop : c \notin moving[m]
      /\ AttachHere(l, c)
      /\ UNCHANGED <<holder, moving, mem, event, flags, destroyed, dispatch, fault>>
  BY UsedChannel DEF Attach
<1>2. holder' \in [Channel -> Loop \cup {None}] /\ moving' \in [Loop -> SUBSET Channel]
  BY <1>1 DEF Registered, TypeOK
<1>3. \A d \in Channel : holder'[d] = IF d = c THEN l ELSE holder[d]
  BY <1>1
<1>. QED
  BY <1>1, <1>2, <1>3, RegisteredAttachHere

LEMMA RegisteredElsewhere ==
    ASSUME Registered, NEW l \in Loop, NEW c \in Channel, NEW other \in Loop,
           AttachElsewhere(l, c, other)
    PROVE  Registered'
<1>0. /\ mem[c] = "allocated" /\ c \notin destroyed /\ loopOf[c] = None
      /\ \A m \in Loop : c \notin moving[m]
      /\ moving' = [moving EXCEPT ![other] = @ \cup {c}]
      /\ holder' = [holder EXCEPT ![c] = None]
      /\ UNCHANGED <<mem, event, loopOf, isActive, isInCallback, isAlive, isMonitored,
                     interest, destroyed, pc, batch, inside, fault>>
  BY UsedChannel DEF AttachElsewhere, flags, dispatch
<1>1. TypeOK'
  BY <1>0 DEF Registered, TypeOK
<1>2. UnusedIsBlank' /\ AliveUntilDestroyed'
  BY <1>0 DEF Registered, TypeOK, UnusedIsBlank, AliveUntilDestroyed
<1>3. InterestIsMask' /\ MonitoredIsRegistered'
  BY <1>0 DEF Registered, InterestIsMask, MonitoredIsRegistered
<1>4. HolderIsLoop'
  BY <1>0 DEF Registered, TypeOK, HolderIsLoop
<1>5. TransitIsAlone'
  <2> SUFFICES ASSUME NEW m \in Loop, NEW d \in moving'[m]
               PROVE  /\ mem[d] = "allocated" /\ d \notin destroyed
                      /\ holder'[d] = None /\ loopOf[d] = None
                      /\ \A n \in Loop : d \in moving'[n] => n = m
    BY <1>0 DEF TransitIsAlone
  <2>1. \A n \in Loop : moving'[n] = IF n = other THEN moving[n] \cup {c} ELSE moving[n]
    BY <1>0 DEF Registered, TypeOK
  <2>2. CASE d = c
    BY <2>1, <2>2, <1>0 DEF Registered, TypeOK
  <2>3. CASE d # c
    <3>1. d \in moving[m] /\ d \in Channel
      BY <2>1, <2>3 DEF Registered, TypeOK
    <3>. QED
      BY <3>1, <2>1, <2>3, <1>0 DEF Registered, TypeOK, TransitIsAlone
  <2>. QED
    BY <2>2, <2>3
<1>6. BatchIsUsed'
  BY <1>0 DEF Registered, BatchIsUsed, InBatch
<1>. QED
  BY <1>1, <1>2, <1>3, <1>4, <1>5, <1>6 DEF Registered

LEMMA RegisteredRunAttach ==
    ASSUME Registered, NEW l \in Loop, NEW c \in Channel, RunAttach(l, c)
    PROVE  /\ Registered'
           /\ \A m \in Loop, d \in Channel :
                 m # l \/ d # c => interest'[m][d] = interest[m][d]
<1>1. /\ mem[c] = "allocated" /\ c \notin destroyed /\ loopOf[c] = None
      /\ \A m \in Loop : c \in moving[m] => m = l
      /\ moving' = [moving EXCEPT ![l] = @ \ {c}]
      /\ holder' = [holder EXCEPT ![c] = l]
      /\ AttachHere(l, c)
      /\ UNCHANGED <<mem, event, flags, destroyed, dispatch, fault>>
  BY DEF RunAttach, Registered, TransitIsAlone
<1>2. /\ holder' \in [Channel -> Loop \cup {None}] /\ moving' \in [Loop -> SUBSET Channel]
      /\ \A d \in Channel : holder'[d] = IF d = c THEN l ELSE holder[d]
  BY <1>1 DEF Registered, TypeOK
<1>3. \A m \in Loop : c \notin moving'[m] /\ moving'[m] \subseteq moving[m]
  BY <1>1 DEF Registered, TypeOK
<1>. QED
  BY <1>1, <1>2, <1>3, RegisteredAttachHere

LEMMA RegisteredDestroy ==
    ASSUME Registered, NEW l \in Loop, NEW c \in Channel, Destroy(l, c)
    PROVE  Registered'
<1>0. /\ mem[c] = "allocated" /\ c \notin destroyed /\ isAlive[c]
      /\ loopOf[c] = None \/ event[c] = {}
      /\ \A m \in Loop : c \notin moving[m]
      /\ destroyed' = destroyed \cup {c}
      /\ \/ isAlive' = [isAlive EXCEPT ![c] = FALSE] /\ mem' = mem
         \/ mem' = [mem EXCEPT ![c] = "freed"] /\ isAlive' = isAlive
      /\ UNCHANGED <<event, loopOf, isActive, isInCallback, isMonitored, interest,
                     holder, moving, pc, batch, inside, fault>>
  BY UsedChannel DEF Destroy, dispatch
<1>1. TypeOK'
  <2>1. /\ mem' \in [Channel -> {"unused", "allocated", "freed"}]
        /\ isAlive' \in [Channel -> BOOLEAN]
    <3>1. /\ mem \in [Channel -> {"unused", "allocated", "freed"}]
          /\ isAlive \in [Channel -> BOOLEAN]
      BY DEF Registered, TypeOK
    <3>2. CASE isAlive' = [isAlive EXCEPT ![c] = FALSE] /\ mem' = mem
      BY <3>1, <3>2
    <3>3. CASE mem' = [mem EXCEPT ![c] = "freed"] /\ isAlive' = isAlive
      BY <3>1, <3>3
    <3>. QED
      BY <3>2, <3>3, <1>0
  <2>. QED
    BY <2>1, <1>0 DEF Registered, TypeOK
<1>2. UnusedIsBlank' /\ AliveUntilDestroyed'
  BY <1>0 DEF Registered, TypeOK, UnusedIsBlank, AliveUntilDestroyed
<1>3. InterestIsMask'
  <2> SUFFICES ASSUME NEW m \in Loop, NEW d \in Channel
               PROVE  interest[m][d]
                          = IF loopOf[d] = m /\ d \notin destroyed' THEN event[d] ELSE {}
    BY <1>0 DEF InterestIsMask
  <2>1. interest[m][d] = IF loopOf[d] = m /\ d \notin destroyed THEN event[d] ELSE {}
    BY DEF Registered, InterestIsMask
  <2>. QED
    BY <2>1, <1>0, ChannelAssumption
<1>4. MonitoredIsRegistered' /\ HolderIsLoop'
  BY <1>0 DEF Registered, MonitoredIsRegistered, HolderIsLoop
<1>5. TransitIsAlone'
  <2> SUFFICES ASSUME NEW m \in Loop, NEW d \in moving[m]
               PROVE  /\ mem'[d] = "allocated" /\ d \notin destroyed'
                      /\ holder[d] = None /\ loopOf[d] = None
                      /\ \A other \in Loop : d \in moving[other] => other = m
    BY <1>0 DEF TransitIsAlone
  <2>1. d # c /\ d \in Channel
    BY <1>0 DEF Registered, TypeOK
  <2>. QED
    BY <2>1, <1>0 DEF Registered, TypeOK, TransitIsAlone
<1>6. BatchIsUsed'
  BY <1>0 DEF Registered, TypeOK, BatchIsUsed, InBatch
<1>. QED
  BY <1>1, <1>2, <1>3, <1>4, <1>5, <1>6 DEF Registered

\* A step of the loop itself frees only what was destroyed, and changes nothing
\* that epoll knows.
LEMMA RegisteredLoop ==
    ASSUME Registered, Untouched, UNCHANGED isAlive, TypeOK', BatchIsUsed',
           \A c \in Channel : mem'[c] = mem[c] \/ (mem'[c] = "freed" /\ c \in destroyed)
    PROVE  Registered'
<1>0. UNCHANGED <<event, loopOf, isMonitored, interest, holder, destroyed, moving>>
  BY DEF Untouched
<1>1. UnusedIsBlank' /\ AliveUntilDestroyed'
  BY <1>0 DEF Registered, UnusedIsBlank, AliveUntilDestroyed
<1>2. InterestIsMask' /\ MonitoredIsRegistered' /\ HolderIsLoop'
  BY <1>0 DEF Registered, InterestIsMask, MonitoredIsRegistered, HolderIsLoop
<1>3. TransitIsAlone'
  BY <1>0 DEF Registered, TypeOK, TransitIsAlone
<1>. QED
  BY <1>1, <1>2, <1>3 DEF Registered

LEMMA RegisteredWait ==
    ASSUME Registered, NEW l \in Loop, EpollWait(l) PROVE Registered'
<1>1. PICK ready \in SUBSET {c \in Channel : interest[l][c] # {}} :
         \E order \in SetToSeqs(ready) :
           /\ batch' = [batch EXCEPT ![l] = order]
           /\ pc' = [pc EXCEPT ![l] = IF ready = {} THEN "user" ELSE "mark"]
  BY DEF EpollWait
<1>2. PICK order \in SetToSeqs(ready) :
         /\ batch' = [batch EXCEPT ![l] = order]
         /\ pc' = [pc EXCEPT ![l] = IF ready = {} THEN "user" ELSE "mark"]
  BY <1>1
<1>3. ready \in SUBSET Channel
  OBVIOUS
<1>4. order \in Seq(Channel) /\ ToSet(order) \subseteq ready
  BY <1>3, OrderedSets
<1>5. /\ pc[l] = "poll"
      /\ UNCHANGED <<mem, isActive, isInCallback, isAlive, inside, fault>> /\ Untouched
      /\ UNCHANGED <<event, loopOf, isMonitored, interest, holder, destroyed, moving>>
  BY DEF EpollWait, flags, Untouched
<1>6. TypeOK'
  <2>1. /\ batch' \in [Loop -> Seq(Channel)]
        /\ pc' \in [Loop -> {"poll", "mark", "dispatch", "callback", "user"}]
    BY <1>2, <1>4 DEF Registered, TypeOK
  <2>2. \A m \in Loop : (inside'[m] # None) <=> (pc'[m] = "callback")
    BY <1>2, <1>5 DEF Registered, TypeOK
  <2>. QED
    BY <2>1, <2>2, <1>5 DEF Registered, TypeOK
<1>7. BatchIsUsed'
  <2> SUFFICES ASSUME NEW m \in Loop, NEW c \in Channel,
                      c \in ToSet(batch'[m]) \/ inside[m] = c
               PROVE  mem[c] # "unused"
    BY <1>5 DEF BatchIsUsed, InBatch
  <2>1. CASE m = l /\ c \in ToSet(batch'[m])
    <3>1. interest[l][c] # {}
      BY <2>1, <1>2, <1>4 DEF Registered, TypeOK
    <3>. QED
      BY <3>1 DEF Registered, InterestIsMask, UnusedIsBlank
  <2>2. CASE ~(m = l /\ c \in ToSet(batch'[m]))
    <3>1. c \in ToSet(batch[m]) \/ inside[m] = c
      BY <2>2, <1>2 DEF Registered, TypeOK
    <3>. QED
      BY <3>1 DEF Registered, BatchIsUsed, InBatch
  <2>. QED
    BY <2>1, <2>2
<1>. QED
  BY <1>5, <1>6, <1>7, RegisteredLoop

LEMMA RegisteredMark ==
    ASSUME Registered, NEW l \in Loop, Mark(l) PROVE Registered'
<1>1. /\ pc[l] = "mark"
      /\ UNCHANGED <<mem, isInCallback, isAlive, batch, inside>>
      /\ Untouched
      /\ \/ UNCHANGED <<pc, isActive>>
         \/ /\ isActive' = [c \in Channel |-> isActive[c] \/ c \in ToSet(batch[l])]
            /\ pc' = [pc EXCEPT ![l] = "dispatch"]
  BY DEF Mark
<1>2. /\ pc' \in [Loop -> {"poll", "mark", "dispatch", "callback", "user"}]
      /\ \A m \in Loop : (inside'[m] # None) <=> (pc'[m] = "callback")
  <2>0. /\ pc \in [Loop -> {"poll", "mark", "dispatch", "callback", "user"}]
        /\ \A m \in Loop : (inside[m] # None) <=> (pc[m] = "callback")
    BY DEF Registered, TypeOK
  <2>1. CASE pc' = pc
    BY <2>0, <2>1, <1>1
  <2>2. CASE pc' = [pc EXCEPT ![l] = "dispatch"]
    BY <2>0, <2>2, <1>1
  <2>. QED
    BY <2>1, <2>2, <1>1
<1>3. isActive' \in [Channel -> BOOLEAN]
  BY <1>1 DEF Registered, TypeOK
<1>4. TypeOK'
  BY <1>1, <1>2, <1>3 DEF Registered, TypeOK, Untouched
<1>5. BatchIsUsed'
  BY <1>1 DEF Registered, BatchIsUsed, InBatch
<1>. QED
  BY <1>1, <1>4, <1>5, RegisteredLoop

\* The three ways channel_onevent() goes before it calls back.
OnEventFault(l) ==
    /\ mem[Head(batch[l])] = "freed"
    /\ fault' = "dispatched a freed channel"
    /\ UNCHANGED <<mem, isActive, isInCallback, pc, batch, inside>>
OnEventDead(l) ==
    LET c == Head(batch[l]) IN
    /\ mem[c] # "freed" /\ ~isAlive[c]
    /\ isActive' = [isActive EXCEPT ![c] = FALSE]
    /\ mem' = IF isInCallback[c] THEN mem ELSE [mem EXCEPT ![c] = "freed"]
    /\ batch' = [batch EXCEPT ![l] = Tail(@)]
    /\ UNCHANGED <<isInCallback, pc, inside, fault>>
OnEventCall(l) ==
    LET c == Head(batch[l]) IN
    /\ mem[c] # "freed" /\ isAlive[c]
    /\ isInCallback' = [isInCallback EXCEPT ![c] = TRUE]
    /\ inside' = [inside EXCEPT ![l] = c]
    /\ pc' = [pc EXCEPT ![l] = "callback"]
    /\ batch' = [batch EXCEPT ![l] = Tail(@)]
    /\ UNCHANGED <<mem, isActive, fault>>

LEMMA OnEventWays ==
    ASSUME Registered, NEW l \in Loop, OnEvent(l)
    PROVE  /\ pc[l] = "dispatch" /\ batch[l] # <<>> /\ fault = "none"
           /\ inside[l] = None
           /\ batch[l] \in Seq(Channel)
           /\ Head(batch[l]) \in Channel /\ InBatch(l, Head(batch[l]))
           /\ Tail(batch[l]) \in Seq(Channel)
           /\ ToSet(Tail(batch[l])) \subseteq ToSet(batch[l])
           /\ UNCHANGED isAlive /\ Untouched
           /\ OnEventFault(l) \/ OnEventDead(l) \/ OnEventCall(l)
<1>1. pc[l] = "dispatch" /\ batch[l] # <<>> /\ batch[l] \in Seq(Channel) /\ inside[l] = None
  BY DEF OnEvent, Registered, TypeOK
<1>2. OnEventFault(l) \/ OnEventDead(l) \/ OnEventCall(l)
  BY DEF OnEvent, OnEventFault, OnEventDead, OnEventCall
<1>. QED
  BY <1>1, <1>2, HeadTaken DEF OnEvent, InBatch

LEMMA RegisteredOnEvent ==
    ASSUME Registered, NEW l \in Loop, OnEvent(l) PROVE Registered'
<1> DEFINE c == Head(batch[l])
<1>1. /\ pc[l] = "dispatch" /\ c \in Channel /\ InBatch(l, c) /\ inside[l] = None
      /\ Tail(batch[l]) \in Seq(Channel) /\ ToSet(Tail(batch[l])) \subseteq ToSet(batch[l])
      /\ UNCHANGED isAlive /\ Untouched
      /\ OnEventFault(l) \/ OnEventDead(l) \/ OnEventCall(l)
  BY OnEventWays
<1>2. mem[c] # "unused"
  BY <1>1 DEF Registered, BatchIsUsed
<1> HIDE DEF c
<1>3. CASE OnEventFault(l)
  <2>1. UNCHANGED <<mem, isActive, isInCallback, isAlive, pc, batch, inside>>
    BY <1>3, <1>1 DEF OnEventFault
  <2>2. TypeOK' /\ BatchIsUsed'
    BY <2>1, <1>1 DEF Registered, TypeOK, BatchIsUsed, InBatch, Untouched
  <2>. QED
    BY <2>1, <2>2, <1>1, RegisteredLoop
<1>4. CASE OnEventDead(l)
  <2>0. /\ mem[c] # "freed" /\ ~isAlive[c]
        /\ isActive' = [isActive EXCEPT ![c] = FALSE]
        /\ mem' = IF isInCallback[c] THEN mem ELSE [mem EXCEPT ![c] = "freed"]
        /\ batch' = [batch EXCEPT ![l] = Tail(@)]
        /\ UNCHANGED <<isInCallback, isAlive, pc, inside, fault>>
    BY <1>4, <1>1 DEF OnEventDead, c
  <2>1. c \in destroyed
    BY <2>0, <1>1, <1>2 DEF Registered, TypeOK, AliveUntilDestroyed
  <2>2. /\ mem' \in [Channel -> {"unused", "allocated", "freed"}]
        /\ \A d \in Channel : mem'[d] = mem[d] \/ (mem'[d] = "freed" /\ d \in destroyed)
    BY <2>0, <2>1, <1>1 DEF Registered, TypeOK
  <2>3. /\ batch' \in [Loop -> Seq(Channel)]
        /\ \A m \in Loop : ToSet(batch'[m]) \subseteq ToSet(batch[m])
    BY <2>0, <1>1 DEF Registered, TypeOK
  <2>4. TypeOK'
    BY <2>0, <2>2, <2>3, <1>1 DEF Registered, TypeOK, Untouched
  <2>5. BatchIsUsed'
    BY <2>0, <2>2, <2>3 DEF Registered, BatchIsUsed, InBatch
  <2>. QED
    BY <2>2, <2>4, <2>5, <1>1, RegisteredLoop
<1>5. CASE OnEventCall(l)
  <2>0. /\ isInCallback' = [isInCallback EXCEPT ![c] = TRUE]
        /\ inside' = [inside EXCEPT ![l] = c]
        /\ pc' = [pc EXCEPT ![l] = "callback"]
        /\ batch' = [batch EXCEPT ![l] = Tail(@)]
        /\ UNCHANGED <<mem, isActive, fault>>
    BY <1>5 DEF OnEventCall, c
  <2>1. /\ batch' \in [Loop -> Seq(Channel)]
        /\ \A m \in Loop : ToSet(batch'[m]) \subseteq ToSet(batch[m])
    BY <2>0, <1>1 DEF Registered, TypeOK
  <2>2. /\ inside' \in [Loop -> Channel \cup {None}]
        /\ pc' \in [Loop -> {"poll", "mark", "dispatch", "callback", "user"}]
        /\ isInCallback' \in [Channel -> BOOLEAN]
        /\ \A m \in Loop : (inside'[m] # None) <=> (pc'[m] = "callback")
    BY <2>0, <1>1, ChannelAssumption DEF Registered, TypeOK
  <2>3. TypeOK'
    BY <2>0, <2>1, <2>2, <1>1 DEF Registered, TypeOK, Untouched
  <2>4. BatchIsUsed'
    <3> SUFFICES ASSUME NEW m \in Loop, NEW d \in Channel,
                        d \in ToSet(batch'[m]) \/ inside'[m] = d
                 PROVE  mem[d] # "unused"
      BY <2>0 DEF BatchIsUsed, InBatch
    <3>1. d \in ToSet(batch[m]) \/ inside[m] = d \/ d = c
      BY <2>0, <2>1, <1>1 DEF Registered, TypeOK
    <3>. QED
      BY <3>1, <1>2 DEF Registered, BatchIsUsed, InBatch
  <2>. QED
    BY <2>0, <2>3, <2>4, <1>1, RegisteredLoop
<1>. QED
  BY <1>1, <1>3, <1>4, <1>5

LEMMA RegisteredOnEventDone ==
    ASSUME Registered, NEW l \in Loop, OnEventDone(l) PROVE Registered'
<1> DEFINE c == inside[l]
<1>1. /\ pc[l] = "callback" /\ c \in Channel /\ mem[c] # "unused"
      /\ UNCHANGED <<isAlive, batch>> /\ Untouched
  BY DEF OnEventDone, Registered, TypeOK, BatchIsUsed
<1>2. \/ /\ mem[c] = "freed"
         /\ UNCHANGED <<mem, isActive, isInCallback, inside, pc>>
      \/ /\ mem[c] # "freed"
         /\ isInCallback' = [isInCallback EXCEPT ![c] = FALSE]
         /\ isActive' = [isActive EXCEPT ![c] = FALSE]
         /\ mem' = IF isAlive[c] THEN mem ELSE [mem EXCEPT ![c] = "freed"]
         /\ inside' = [inside EXCEPT ![l] = None]
         /\ pc' = [pc EXCEPT ![l] = "dispatch"]
  BY DEF OnEventDone
<1>3. CASE UNCHANGED <<mem, isActive, isInCallback, inside, pc>>
  <2>1. TypeOK' /\ BatchIsUsed'
    BY <1>1, <1>3 DEF Registered, TypeOK, BatchIsUsed, InBatch, Untouched
  <2>. QED
    BY <2>1, <1>1, <1>3, RegisteredLoop
<1>4. CASE /\ mem[c] # "freed"
           /\ isInCallback' = [isInCallback EXCEPT ![c] = FALSE]
           /\ isActive' = [isActive EXCEPT ![c] = FALSE]
           /\ mem' = IF isAlive[c] THEN mem ELSE [mem EXCEPT ![c] = "freed"]
           /\ inside' = [inside EXCEPT ![l] = None]
           /\ pc' = [pc EXCEPT ![l] = "dispatch"]
  <2>1. ~isAlive[c] => c \in destroyed
    BY <1>4, <1>1 DEF Registered, TypeOK, AliveUntilDestroyed
  <2>2. /\ mem' \in [Channel -> {"unused", "allocated", "freed"}]
        /\ \A d \in Channel : mem'[d] = mem[d] \/ (mem'[d] = "freed" /\ d \in destroyed)
    BY <1>1, <1>4, <2>1 DEF Registered, TypeOK
  <2>3. /\ inside' \in [Loop -> Channel \cup {None}]
        /\ pc' \in [Loop -> {"poll", "mark", "dispatch", "callback", "user"}]
        /\ \A m \in Loop : inside'[m] = None \/ inside'[m] = inside[m]
        /\ \A m \in Loop : (inside'[m] # None) <=> (pc'[m] = "callback")
    BY <1>4, <1>1 DEF Registered, TypeOK
  <2>4. isInCallback' \in [Channel -> BOOLEAN] /\ isActive' \in [Channel -> BOOLEAN]
    BY <1>4, <1>1 DEF Registered, TypeOK
  <2>5. TypeOK'
    BY <1>1, <2>2, <2>3, <2>4 DEF Registered, TypeOK, Untouched
  <2>6. BatchIsUsed'
    <3> SUFFICES ASSUME NEW m \in Loop, NEW d \in Channel,
                        d \in ToSet(batch[m]) \/ inside'[m] = d
                 PROVE  mem'[d] # "unused"
      BY <1>1 DEF BatchIsUsed, InBatch
    <3>1. d \in ToSet(batch[m]) \/ inside[m] = d
      BY <2>3, ChannelAssumption
    <3>. QED
      BY <3>1, <2>2 DEF Registered, BatchIsUsed, InBatch
  <2>. QED
    BY <1>1, <2>2, <2>5, <2>6, RegisteredLoop
<1>. QED
  BY <1>2, <1>3, <1>4

\* The end of a pass and the end of the timers.
LEMMA RegisteredTurn ==
    ASSUME Registered, NEW l \in Loop, BatchDone(l) \/ TimersDone(l) PROVE Registered'
<1>1. PICK next \in {"user", "poll"} : pc' = [pc EXCEPT ![l] = next]
  BY DEF BatchDone, TimersDone
<1>2. /\ pc[l] # "callback"
      /\ UNCHANGED <<mem, isActive, isInCallback, isAlive, batch, inside, fault>> /\ Untouched
  BY DEF BatchDone, TimersDone, flags
<1>3. TypeOK'
  <2>1. /\ pc' \in [Loop -> {"poll", "mark", "dispatch", "callback", "user"}]
        /\ \A m \in Loop : (inside[m] # None) <=> (pc'[m] = "callback")
    BY <1>1, <1>2 DEF Registered, TypeOK
  <2>. QED
    BY <2>1, <1>2 DEF Registered, TypeOK, Untouched
<1>4. BatchIsUsed'
  BY <1>2 DEF Registered, BatchIsUsed, InBatch
<1>. QED
  BY <1>2, <1>3, <1>4, RegisteredLoop

LEMMA RegisteredNext == Registered /\ [Next]_vars => Registered'
<1> SUFFICES ASSUME Registered, [Next]_vars PROVE Registered'
  OBVIOUS
<1>1. CASE UNCHANGED vars
  <2>1. TypeOK'
    BY <1>1 DEF vars, Registered, TypeOK
  <2>2. UnusedIsBlank' /\ AliveUntilDestroyed' /\ HolderIsLoop'
    BY <1>1 DEF vars, Registered, UnusedIsBlank, AliveUntilDestroyed, HolderIsLoop
  <2>3. InterestIsMask' /\ MonitoredIsRegistered'
    BY <1>1 DEF vars, Registered, InterestIsMask, MonitoredIsRegistered
  <2>4. TransitIsAlone' /\ BatchIsUsed'
    BY <1>1 DEF vars, Registered, TransitIsAlone, BatchIsUsed, InBatch
  <2>. QED
    BY <2>1, <2>2, <2>3, <2>4 DEF Registered
<1>2. ASSUME NEW l \in Loop, User(l) PROVE Registered'
  BY <1>2, RegisteredNew, RegisteredSet, RegisteredClear, RegisteredDetach, RegisteredAttach,
     RegisteredElsewhere, RegisteredRunAttach, RegisteredDestroy DEF User
<1>3. ASSUME NEW l \in Loop, LoopStep(l) PROVE Registered'
  BY <1>3, RegisteredWait, RegisteredMark, RegisteredOnEvent, RegisteredOnEventDone,
     RegisteredTurn DEF LoopStep
<1>. QED
  BY <1>1, <1>2, <1>3 DEF Next

LEMMA RegisteredAlways == Spec => []Registered
<1>. QED
  BY RegisteredInit, RegisteredNext, PTL DEF Spec

\* Type correctness, for any way channels move between loops.
THEOREM DispatchTypes == Spec => []TypeOK
<1>1. Registered => TypeOK
  BY DEF Registered
<1>. QED
  BY <1>1, RegisteredAlways, PTL

\* channel_setevent, _clearevent, _detach and _attach keep epoll and is_monitored in
\* step with the mask of every channel, for any way channels move between loops.
THEOREM KernelAgreesAlways == Spec => []KernelAgrees
<1>1. Registered => KernelAgrees
  BY DEF Registered, KernelAgrees, InterestIsMask, MonitoredIsRegistered
<1>. QED
  BY <1>1, RegisteredAlways, PTL

\* epoll never holds the pointer of a channel that was destroyed: what
\* channel_destroy() frees at once, or later, the kernel has forgotten.
THEOREM InterestIsLive == Spec => []NoDanglingInterest
<1>1. Registered => NoDanglingInterest
  <2> SUFFICES ASSUME Registered, NEW l \in Loop, NEW c \in Channel, interest[l][c] # {}
               PROVE  mem[c] = "allocated" /\ isAlive[c]
    BY DEF NoDanglingInterest
  <2>1. c \notin destroyed /\ event[c] # {}
    BY DEF Registered, InterestIsMask
  <2>. QED
    BY <2>1 DEF Registered, TypeOK, UnusedIsBlank, AliveUntilDestroyed
<1>. QED
  BY <1>1, RegisteredAlways, PTL

\* channel_onevent() enters no callback of a channel that was destroyed, for any way
\* channels move between loops.
THEOREM NoEventAfterDestroyAlways == Spec => NoEventAfterDestroy
<1> DEFINE A == \A l \in Loop, c \in Channel : EntersCallback(l, c) => c \notin destroyed
<1>1. Registered /\ [Next]_vars => [A]_vars
  <2> SUFFICES ASSUME Registered, Next, NEW l \in Loop, NEW c \in Channel,
                      inside[l] # c, inside'[l] = c
               PROVE  c \notin destroyed
    BY DEF EntersCallback
  <2>1. PICK m \in Loop : User(m) \/ LoopStep(m)
    BY DEF Next
  <2>2. CASE User(m)
    BY <2>2 DEF User, NewChannel, SetEvent, ClearEvent, Detach, Attach, AttachElsewhere,
                RunAttach, Destroy, dispatch
  <2>3. CASE EpollWait(m) \/ Mark(m) \/ BatchDone(m) \/ TimersDone(m)
    BY <2>3 DEF EpollWait, Mark, BatchDone, TimersDone
  <2>4. CASE OnEventDone(m)
    <3>1. inside' = inside \/ inside' = [inside EXCEPT ![m] = None]
      BY <2>4 DEF OnEventDone
    <3>. QED
      BY <3>1, ChannelAssumption DEF Registered, TypeOK
  <2>5. CASE OnEvent(m)
    <3>1. /\ Head(batch[m]) \in Channel /\ InBatch(m, Head(batch[m]))
          /\ OnEventFault(m) \/ OnEventDead(m) \/ OnEventCall(m)
      BY <2>5, OnEventWays
    <3>2. OnEventCall(m) /\ c = Head(batch[m])
      BY <3>1 DEF OnEventFault, OnEventDead, OnEventCall, Registered, TypeOK
    <3>. QED
      BY <3>1, <3>2
      DEF OnEventCall, Registered, TypeOK, BatchIsUsed, AliveUntilDestroyed
  <2>. QED
    BY <2>1, <2>2, <2>3, <2>4, <2>5 DEF LoopStep
<1>. QED
  BY <1>1, RegisteredAlways, PTL DEF Spec, NoEventAfterDestroy

-----------------------------------------------------------------------------
(***************************************************************************)
(* The batch: Dispatched is inductive when no channel moves to another     *)
(* loop while a batch refers to it.                                        *)
(***************************************************************************)
\* A channel that is not active and not registered is in no batch.
LEMMA IdleChannel ==
    ASSUME Registered, Dispatched, NEW c \in Channel, ~isActive[c],
           \A m \in Loop : interest[m][c] = {}
    PROVE  \A m \in Loop : ~InBatch(m, c) /\ inside[m] # c
<1> SUFFICES ASSUME NEW m \in Loop PROVE ~InBatch(m, c) /\ inside[m] # c
  OBVIOUS
<1>1. ~Dispatching(m, c)
  BY DEF Dispatched, ActiveIsDispatching
<1>2. pc[m] \in {"poll", "user"} => ~InBatch(m, c)
  BY DEF Dispatched, NothingCollected, InBatch, ToSet
<1>3. pc[m] = "mark" => ~InBatch(m, c)
  BY DEF Dispatched, CollectedIsRegistered, InBatch
<1>4. pc[m] \in {"poll", "mark", "dispatch", "callback", "user"}
  BY DEF Registered, TypeOK
<1>. QED
  BY <1>1, <1>2, <1>3, <1>4 DEF Dispatching

\* A channel is registered only with the loop it is attached to, which holds it.
LEMMA RegisteredIsHeld ==
    ASSUME Registered, NEW l \in Loop, NEW c \in Channel, interest[l][c] # {}
    PROVE  /\ loopOf[c] = l /\ holder[c] = l /\ c \notin destroyed
           /\ mem[c] = "allocated" /\ isAlive[c]
<1>1. loopOf[c] = l /\ c \notin destroyed /\ event[c] # {}
  BY DEF Registered, InterestIsMask
<1>2. mem[c] = "allocated" /\ isAlive[c]
  BY <1>1 DEF Registered, TypeOK, UnusedIsBlank, AliveUntilDestroyed
<1>3. holder[c] = l
  BY <1>1, ChannelAssumption DEF Registered, HolderIsLoop
<1>. QED
  BY <1>1, <1>2, <1>3

\* What a user's step has to keep for the batches to stay as they are.
LEMMA DispatchedUser ==
    ASSUME Dispatched,
           UNCHANGED <<isActive, isInCallback, pc, batch, inside, fault>>,
           CollectedIsRegistered', FreedIsIdle', DeferredIsActive',
           \A m \in Loop, c \in Channel :
              InBatch(m, c) \/ inside[m] = c => holder'[c] = holder[c]
    PROVE  Dispatched'
<1>1. BatchOnce' /\ NothingCollected' /\ fault' = "none"
  BY DEF Dispatched, BatchOnce, NothingCollected
<1>2. DispatchedIsHeld'
  BY DEF Dispatched, DispatchedIsHeld, InBatch
<1>3. ActiveIsDispatching' /\ CallbackIsInside'
  BY DEF Dispatched, ActiveIsDispatching, CallbackIsInside, Dispatching, InBatch
<1>. QED
  BY <1>1, <1>2, <1>3 DEF Dispatched

\* Calls that leave memory and ownership alone.
LEMMA DispatchedKept ==
    ASSUME Dispatched, NEW l \in Loop, NEW c \in Channel, InUserCode(l),
           UNCHANGED <<mem, destroyed, holder, isActive, isInCallback, pc, batch, inside, fault>>,
           \A m \in Loop, d \in Channel : m # l \/ d # c => interest'[m][d] = interest[m][d],
           Registered
    PROVE  Dispatched'
<1>1. CollectedIsRegistered'
  <2> SUFFICES ASSUME NEW m \in Loop, pc[m] = "mark", NEW d \in ToSet(batch[m])
               PROVE  interest'[m][d] # {}
    BY DEF CollectedIsRegistered
  <2>1. m # l /\ interest[m][d] # {}
    BY DEF InUserCode, Dispatched, CollectedIsRegistered
  <2>2. d \in Channel
    BY DEF Registered, TypeOK, ToSet
  <2>. QED
    BY <2>1, <2>2
<1>2. FreedIsIdle' /\ DeferredIsActive'
  BY DEF Dispatched, FreedIsIdle, DeferredIsActive
<1>. QED
  BY <1>1, <1>2, DispatchedUser

LEMMA DispatchedNew ==
    ASSUME Registered, Dispatched, NEW l \in Loop, NEW c \in Channel, NewChannel(l, c)
    PROVE  Dispatched'
<1>1. /\ mem[c] = "unused" /\ c \notin destroyed
      /\ mem' = [mem EXCEPT ![c] = "allocated"]
      /\ holder' = [holder EXCEPT ![c] = l]
      /\ UNCHANGED <<isActive, isInCallback, interest, destroyed, pc, batch, inside, fault>>
  BY DEF NewChannel, dispatch, Registered, UnusedIsBlank
<1>2. \A m \in Loop : ~InBatch(m, c) /\ inside[m] # c
  BY <1>1 DEF Registered, BatchIsUsed
<1>3. CollectedIsRegistered'
  BY <1>1 DEF Dispatched, CollectedIsRegistered
<1>4. FreedIsIdle' /\ DeferredIsActive'
  BY <1>1 DEF Dispatched, FreedIsIdle, DeferredIsActive, Registered, TypeOK
<1>5. \A m \in Loop, d \in Channel :
         InBatch(m, d) \/ inside[m] = d => holder'[d] = holder[d]
  BY <1>1, <1>2 DEF Registered, TypeOK
<1>. QED
  BY <1>1, <1>3, <1>4, <1>5, DispatchedUser

LEMMA DispatchedUpdate ==
    ASSUME Registered, Dispatched, NEW l \in Loop, NEW c \in Channel,
           \/ \E e \in Events : SetEvent(l, c, e) \/ ClearEvent(l, c, e)
           \/ Detach(l, c)
           \/ Attach(l, c)
    PROVE  Dispatched'
<1>1. \A m \in Loop, d \in Channel : m # l \/ d # c => interest'[m][d] = interest[m][d]
  BY RegisteredSet, RegisteredClear, RegisteredDetach, RegisteredAttach
<1>2. /\ InUserCode(l)
      /\ UNCHANGED <<mem, destroyed, holder, isActive, isInCallback, pc, batch, inside, fault>>
  BY DEF SetEvent, ClearEvent, Detach, Attach, Uses, flags, dispatch
<1>. QED
  BY <1>1, <1>2, DispatchedKept

LEMMA DispatchedElsewhere ==
    ASSUME Registered, Dispatched, MoveActive = FALSE,
           NEW l \in Loop, NEW c \in Channel, NEW other \in Loop, AttachElsewhere(l, c, other)
    PROVE  Dispatched'
<1>1. /\ ~isActive[c] /\ loopOf[c] = None
      /\ holder' = [holder EXCEPT ![c] = None]
      /\ UNCHANGED <<mem, isActive, isInCallback, interest, destroyed, pc, batch, inside, fault>>
  BY DEF AttachElsewhere, flags, dispatch
<1>2. \A m \in Loop : interest[m][c] = {}
  BY <1>1, ChannelAssumption DEF Registered, InterestIsMask
<1>3. \A m \in Loop : ~InBatch(m, c) /\ inside[m] # c
  BY <1>1, <1>2, IdleChannel
<1>4. CollectedIsRegistered' /\ FreedIsIdle' /\ DeferredIsActive'
  BY <1>1 DEF Dispatched, CollectedIsRegistered, FreedIsIdle, DeferredIsActive
<1>5. \A m \in Loop, d \in Channel :
         InBatch(m, d) \/ inside[m] = d => holder'[d] = holder[d]
  BY <1>1, <1>3 DEF Registered, TypeOK
<1>. QED
  BY <1>1, <1>4, <1>5, DispatchedUser

LEMMA DispatchedRunAttach ==
    ASSUME Registered, Dispatched, NEW l \in Loop, NEW c \in Channel, RunAttach(l, c)
    PROVE  Dispatched'
<1>1. /\ InUserCode(l)
      /\ holder' = [holder EXCEPT ![c] = l]
      /\ UNCHANGED <<mem, isActive, isInCallback, destroyed, pc, batch, inside, fault>>
  BY DEF RunAttach, flags, dispatch
<1>2. \A m \in Loop, d \in Channel : m # l \/ d # c => interest'[m][d] = interest[m][d]
  BY RegisteredRunAttach
<1>3. holder[c] = None
  BY DEF RunAttach, Registered, TransitIsAlone
<1>4. \A m \in Loop : ~InBatch(m, c) /\ inside[m] # c
  BY <1>3, ChannelAssumption DEF Dispatched, DispatchedIsHeld
<1>5. CollectedIsRegistered'
  <2> SUFFICES ASSUME NEW m \in Loop, pc[m] = "mark", NEW d \in ToSet(batch[m])
               PROVE  interest'[m][d] # {}
    BY <1>1 DEF CollectedIsRegistered
  <2>1. m # l /\ interest[m][d] # {}
    BY <1>1 DEF InUserCode, Dispatched, CollectedIsRegistered
  <2>2. d \in Channel
    BY DEF Registered, TypeOK, ToSet
  <2>. QED
    BY <2>1, <2>2, <1>2
<1>6. FreedIsIdle' /\ DeferredIsActive'
  BY <1>1 DEF Dispatched, FreedIsIdle, DeferredIsActive
<1>7. \A m \in Loop, d \in Channel :
         InBatch(m, d) \/ inside[m] = d => holder'[d] = holder[d]
  BY <1>1, <1>4 DEF Registered, TypeOK
<1>. QED
  BY <1>1, <1>5, <1>6, <1>7, DispatchedUser

\* channel_destroy() frees what is in no batch and leaves the rest to it.
LEMMA DispatchedDestroy ==
    ASSUME Registered, Dispatched, NEW l \in Loop, NEW c \in Channel, Destroy(l, c)
    PROVE  Dispatched'
<1>1. /\ destroyed' = destroyed \cup {c}
      /\ \/ isActive[c] /\ mem' = mem
         \/ ~isActive[c] /\ mem' = [mem EXCEPT ![c] = "freed"]
      /\ UNCHANGED <<isActive, isInCallback, interest, holder, pc, batch, inside, fault>>
  <2>1. isInCallback[c] => isActive[c]
    BY DEF Dispatched, CallbackIsInside, ActiveIsDispatching, Dispatching
  <2>. QED
    BY <2>1 DEF Destroy, dispatch
<1>2. CollectedIsRegistered'
  BY <1>1 DEF Dispatched, CollectedIsRegistered
<1>3. FreedIsIdle' /\ DeferredIsActive'
  BY <1>1 DEF Dispatched, FreedIsIdle, DeferredIsActive, Registered, TypeOK
<1>. QED
  BY <1>1, <1>2, <1>3, DispatchedUser

-----------------------------------------------------------------------------
LEMMA DispatchedWait ==
    ASSUME Registered, Dispatched, NEW l \in Loop, EpollWait(l) PROVE Dispatched'
<1>1. PICK ready \in SUBSET {c \in Channel : interest[l][c] # {}} :
         \E order \in SetToSeqs(ready) :
           /\ batch' = [batch EXCEPT ![l] = order]
           /\ pc' = [pc EXCEPT ![l] = IF ready = {} THEN "user" ELSE "mark"]
  BY DEF EpollWait
<1>2. PICK order \in SetToSeqs(ready) :
         /\ batch' = [batch EXCEPT ![l] = order]
         /\ pc' = [pc EXCEPT ![l] = IF ready = {} THEN "user" ELSE "mark"]
  BY <1>1
<1>3. ready \in SUBSET Channel
  OBVIOUS
<1>4. /\ order \in Seq(Channel) /\ ToSet(order) \subseteq ready
      /\ \A i, j \in DOMAIN order : order[i] = order[j] => i = j
      /\ ready = {} => order = <<>>
  BY <1>3, OrderedSets
<1>5. /\ pc[l] = "poll" /\ inside[l] = None /\ batch[l] = <<>>
      /\ UNCHANGED <<mem, isActive, isInCallback, isAlive, interest, holder, destroyed,
                     inside, fault>>
  BY DEF EpollWait, flags, Untouched, Registered, TypeOK, Dispatched, NothingCollected
<1>6. /\ batch'[l] = order
      /\ pc'[l] = IF ready = {} THEN "user" ELSE "mark"
      /\ \A m \in Loop : m # l => batch'[m] = batch[m] /\ pc'[m] = pc[m]
  BY <1>2 DEF Registered, TypeOK
<1>7. BatchOnce'
  BY <1>3, <1>4, <1>5, <1>6, ChannelAssumption DEF Dispatched, BatchOnce
<1>8. NothingCollected'
  BY <1>4, <1>6 DEF Dispatched, NothingCollected
<1>9. CollectedIsRegistered'
  BY <1>4, <1>5, <1>6 DEF Dispatched, CollectedIsRegistered
<1>10. DispatchedIsHeld'
  <2> SUFFICES ASSUME NEW m \in Loop, NEW c \in Channel,
                      c \in ToSet(batch'[m]) \/ inside[m] = c
               PROVE  holder[c] = m
    BY <1>5 DEF DispatchedIsHeld, InBatch
  <2>1. CASE m = l /\ c \in ToSet(batch'[m])
    <3>1. interest[l][c] # {}
      BY <2>1, <1>4, <1>6
    <3>. QED
      BY <3>1, <2>1, RegisteredIsHeld
  <2>2. CASE ~(m = l /\ c \in ToSet(batch'[m]))
    BY <2>2, <1>6 DEF Dispatched, DispatchedIsHeld, InBatch
  <2>. QED
    BY <2>1, <2>2
<1>11. ActiveIsDispatching'
  <2> SUFFICES ASSUME NEW c \in Channel
               PROVE  isActive'[c] <=> \E m \in Loop : Dispatching(m, c)'
    BY DEF ActiveIsDispatching
  <2>1. \A m \in Loop : Dispatching(m, c)' <=> Dispatching(m, c)
    BY <1>5, <1>6 DEF Dispatching, InBatch
  <2>. QED
    BY <2>1, <1>5 DEF Dispatched, ActiveIsDispatching
<1>12. /\ fault' = "none" /\ CallbackIsInside' /\ FreedIsIdle' /\ DeferredIsActive'
  BY <1>5 DEF Dispatched, CallbackIsInside, FreedIsIdle, DeferredIsActive
<1>. QED
  BY <1>7, <1>8, <1>9, <1>10, <1>11, <1>12 DEF Dispatched

LEMMA DispatchedMark ==
    ASSUME Registered, Dispatched, NEW l \in Loop, Mark(l) PROVE Dispatched'
<1>1. \A c \in ToSet(batch[l]) : c \in Channel /\ mem[c] # "freed"
  <2> SUFFICES ASSUME NEW c \in ToSet(batch[l]) PROVE c \in Channel /\ mem[c] # "freed"
    OBVIOUS
  <2>1. c \in Channel
    BY DEF Registered, TypeOK, ToSet
  <2>2. interest[l][c] # {}
    BY DEF Mark, Dispatched, CollectedIsRegistered
  <2>. QED
    BY <2>1, <2>2, RegisteredIsHeld
<1>2. /\ pc[l] = "mark" /\ inside[l] = None
      /\ isActive' = [c \in Channel |-> isActive[c] \/ c \in ToSet(batch[l])]
      /\ pc' = [pc EXCEPT ![l] = "dispatch"]
      /\ UNCHANGED <<mem, isInCallback, isAlive, batch, inside, fault, interest, holder, destroyed>>
  BY <1>1 DEF Mark, Untouched, Registered, TypeOK
<1>3. pc'[l] = "dispatch" /\ \A m \in Loop : m # l => pc'[m] = pc[m]
  BY <1>2 DEF Registered, TypeOK
<1>4. fault' = "none" /\ BatchOnce' /\ NothingCollected' /\ CollectedIsRegistered'
  BY <1>2, <1>3 DEF Dispatched, BatchOnce, NothingCollected, CollectedIsRegistered
<1>5. DispatchedIsHeld' /\ CallbackIsInside'
  BY <1>2 DEF Dispatched, DispatchedIsHeld, CallbackIsInside, InBatch
<1>6. ActiveIsDispatching'
  <2> SUFFICES ASSUME NEW c \in Channel
               PROVE  isActive'[c] <=> \E m \in Loop : Dispatching(m, c)'
    BY DEF ActiveIsDispatching
  <2>1. \A m \in Loop : m # l => (Dispatching(m, c)' <=> Dispatching(m, c))
    BY <1>2, <1>3 DEF Dispatching, InBatch
  <2>2. Dispatching(l, c)' <=> c \in ToSet(batch[l])
    BY <1>2, <1>3, ChannelAssumption DEF Dispatching, InBatch
  <2>3. ~Dispatching(l, c)
    BY <1>2, ChannelAssumption DEF Dispatching
  <2>4. isActive'[c] <=> isActive[c] \/ c \in ToSet(batch[l])
    BY <1>2 DEF Registered, TypeOK
  <2>5. isActive[c] <=> \E m \in Loop : Dispatching(m, c)
    BY DEF Dispatched, ActiveIsDispatching
  <2>. QED
    BY <2>1, <2>2, <2>3, <2>4, <2>5
<1>7. FreedIsIdle' /\ DeferredIsActive'
  BY <1>1, <1>2 DEF Dispatched, FreedIsIdle, DeferredIsActive, Registered, TypeOK
<1>. QED
  BY <1>4, <1>5, <1>6, <1>7 DEF Dispatched

\* Nothing in a batch that is being dispatched has been freed, and taking the head
\* leaves a batch that refers to the rest only.
LEMMA HeadDispatched ==
    ASSUME Registered, Dispatched, NEW l \in Loop, OnEvent(l),
           NEW c, c = Head(batch[l])
    PROVE  /\ c \in Channel /\ mem[c] # "freed" /\ isActive[c] /\ holder[c] = l
           /\ pc[l] = "dispatch" /\ inside[l] = None
           /\ \A m \in Loop : inside[m] # c
           /\ ~isInCallback[c]
           /\ \A m \in Loop : m # l => ~Dispatching(m, c) /\ ~InBatch(m, c)
           /\ Tail(batch[l]) \in Seq(Channel)
           /\ c \notin ToSet(Tail(batch[l]))
           /\ ToSet(batch[l]) = {c} \cup ToSet(Tail(batch[l]))
           /\ \A i, j \in DOMAIN Tail(batch[l]) :
                 Tail(batch[l])[i] = Tail(batch[l])[j] => i = j
<1>1. /\ pc[l] = "dispatch" /\ batch[l] # <<>> /\ inside[l] = None
      /\ batch[l] \in Seq(Channel) /\ c \in Channel /\ InBatch(l, c)
  BY OnEventWays
<1>2. Dispatching(l, c)
  BY <1>1 DEF Dispatching
<1>3. isActive[c] /\ mem[c] # "freed" /\ holder[c] = l
  BY <1>1, <1>2 DEF Dispatched, ActiveIsDispatching, FreedIsIdle, DispatchedIsHeld
<1>4. \A m \in Loop : inside[m] # c
  BY <1>1, <1>3, ChannelAssumption DEF Dispatched, DispatchedIsHeld
<1>5. \A m \in Loop : m # l => ~Dispatching(m, c) /\ ~InBatch(m, c)
  BY <1>1, <1>3, <1>4 DEF Dispatched, DispatchedIsHeld, Dispatching
<1>6. ~isInCallback[c]
  BY <1>1, <1>4 DEF Dispatched, CallbackIsInside
<1>7. \A i, j \in DOMAIN batch[l] : batch[l][i] = batch[l][j] => i = j
  BY DEF Dispatched, BatchOnce
<1>8. /\ Tail(batch[l]) \in Seq(Channel)
      /\ c \notin ToSet(Tail(batch[l])) /\ c \in ToSet(batch[l])
      /\ ToSet(Tail(batch[l])) \subseteq ToSet(batch[l])
      /\ \A x \in ToSet(batch[l]) : x = c \/ x \in ToSet(Tail(batch[l]))
      /\ \A i, j \in DOMAIN Tail(batch[l]) : Tail(batch[l])[i] = Tail(batch[l])[j] => i = j
  BY <1>1, <1>7, HeadTaken
<1>. QED
  BY <1>1, <1>3, <1>4, <1>5, <1>6, <1>8

LEMMA DispatchedOnEvent ==
    ASSUME Registered, Dispatched, NEW l \in Loop, OnEvent(l) PROVE Dispatched'
<1> DEFINE c == Head(batch[l])
           rest == Tail(batch[l])
<1>1. /\ c \in Channel /\ mem[c] # "freed" /\ isActive[c] /\ holder[c] = l
      /\ pc[l] = "dispatch" /\ inside[l] = None
      /\ \A m \in Loop : inside[m] # c
      /\ ~isInCallback[c]
      /\ \A m \in Loop : m # l => ~Dispatching(m, c) /\ ~InBatch(m, c)
      /\ rest \in Seq(Channel)
      /\ c \notin ToSet(rest)
      /\ ToSet(batch[l]) = {c} \cup ToSet(rest)
      /\ \A i, j \in DOMAIN rest : rest[i] = rest[j] => i = j
  BY HeadDispatched
<1>2. /\ UNCHANGED <<isAlive, interest, holder, destroyed>>
      /\ OnEventDead(l) \/ OnEventCall(l)
  BY OnEventWays, <1>1 DEF OnEventFault, Untouched
<1>3. /\ batch' = [batch EXCEPT ![l] = rest]
      /\ fault' = "none"
  BY <1>2 DEF OnEventDead, OnEventCall, Dispatched
<1>4. batch'[l] = rest /\ \A m \in Loop : m # l => batch'[m] = batch[m]
  BY <1>3 DEF Registered, TypeOK
<1>5. CASE OnEventDead(l)
  <2>1. /\ isActive' = [isActive EXCEPT ![c] = FALSE]
        /\ mem' = [mem EXCEPT ![c] = "freed"]
        /\ UNCHANGED <<isInCallback, pc, inside>>
    BY <1>5, <1>1 DEF OnEventDead
  <2> HIDE DEF c, rest
  <2>2. BatchOnce' /\ NothingCollected' /\ CollectedIsRegistered'
    <3>1. BatchOnce'
      BY <2>1, <1>1, <1>4, ChannelAssumption DEF Dispatched, BatchOnce
    <3>2. NothingCollected' /\ CollectedIsRegistered'
      BY <2>1, <1>1, <1>2, <1>4 DEF Dispatched, NothingCollected, CollectedIsRegistered
    <3>. QED
      BY <3>1, <3>2
  <2>3. DispatchedIsHeld'
    BY <2>1, <1>1, <1>2, <1>4 DEF Dispatched, DispatchedIsHeld, InBatch
  <2>4. CallbackIsInside'
    BY <2>1 DEF Dispatched, CallbackIsInside
  <2>5. FreedIsIdle' /\ DeferredIsActive'
    BY <2>1, <1>1, <1>2 DEF Dispatched, FreedIsIdle, DeferredIsActive, Registered, TypeOK
  <2>6. ActiveIsDispatching'
    <3> SUFFICES ASSUME NEW d \in Channel
                 PROVE  isActive'[d] <=> \E m \in Loop : Dispatching(m, d)'
      BY DEF ActiveIsDispatching
    <3>1. CASE d = c
      <4>1. \A m \in Loop : ~Dispatching(m, d)'
        BY <3>1, <2>1, <1>1, <1>4 DEF Dispatching, InBatch
      <4>2. ~isActive'[c]
        BY <2>1, <1>1 DEF Registered, TypeOK
      <4>. QED
        BY <3>1, <4>1, <4>2
    <3>2. CASE d # c
      <4>1. \A m \in Loop : Dispatching(m, d)' <=> Dispatching(m, d)
        BY <3>2, <2>1, <1>1, <1>4 DEF Dispatching, InBatch
      <4>2. isActive'[d] = isActive[d]
        BY <3>2, <2>1 DEF Registered, TypeOK
      <4>. QED
        BY <4>1, <4>2 DEF Dispatched, ActiveIsDispatching
    <3>. QED
      BY <3>1, <3>2
  <2>. QED
    BY <1>3, <2>2, <2>3, <2>4, <2>5, <2>6 DEF Dispatched
<1>6. CASE OnEventCall(l)
  <2>1. /\ isInCallback' = [isInCallback EXCEPT ![c] = TRUE]
        /\ inside' = [inside EXCEPT ![l] = c]
        /\ pc' = [pc EXCEPT ![l] = "callback"]
        /\ UNCHANGED <<mem, isActive>>
    BY <1>6 DEF OnEventCall
  <2> HIDE DEF c, rest
  <2>2. /\ inside'[l] = c /\ pc'[l] = "callback"
        /\ \A m \in Loop : m # l => inside'[m] = inside[m] /\ pc'[m] = pc[m]
    BY <2>1 DEF Registered, TypeOK
  <2>3. BatchOnce'
    BY <1>1, <1>4, <2>2 DEF Dispatched, BatchOnce
  <2>4. NothingCollected' /\ CollectedIsRegistered'
    BY <1>1, <1>2, <1>4, <2>2 DEF Dispatched, NothingCollected, CollectedIsRegistered
  <2>5. DispatchedIsHeld'
    BY <1>1, <1>2, <1>4, <2>2 DEF Dispatched, DispatchedIsHeld, InBatch
  <2>6. FreedIsIdle' /\ DeferredIsActive'
    BY <2>1, <1>2 DEF Dispatched, FreedIsIdle, DeferredIsActive
  <2>7. CallbackIsInside'
    <3> SUFFICES ASSUME NEW d \in Channel
                 PROVE  isInCallback'[d] <=> \E m \in Loop : inside'[m] = d
      BY DEF CallbackIsInside
    <3>1. CASE d = c
      BY <3>1, <2>1, <2>2, <1>1 DEF Registered, TypeOK
    <3>2. CASE d # c
      <4>1. isInCallback'[d] = isInCallback[d]
        BY <3>2, <2>1 DEF Registered, TypeOK
      <4>2. \A m \in Loop : inside'[m] = d <=> inside[m] = d
        BY <3>2, <2>2, <1>1, ChannelAssumption
      <4>. QED
        BY <4>1, <4>2 DEF Dispatched, CallbackIsInside
    <3>. QED
      BY <3>1, <3>2
  <2>8. ActiveIsDispatching'
    <3> SUFFICES ASSUME NEW d \in Channel
                 PROVE  isActive'[d] <=> \E m \in Loop : Dispatching(m, d)'
      BY DEF ActiveIsDispatching
    <3>1. \A m \in Loop : m # l => (Dispatching(m, d)' <=> Dispatching(m, d))
      BY <2>2, <1>4 DEF Dispatching, InBatch
    <3>2. Dispatching(l, d)' <=> Dispatching(l, d)
      BY <2>2, <1>1, <1>4, ChannelAssumption DEF Dispatching, InBatch
    <3>. QED
      BY <3>1, <3>2, <2>1 DEF Dispatched, ActiveIsDispatching
  <2>. QED
    BY <1>3, <2>3, <2>4, <2>5, <2>6, <2>7, <2>8 DEF Dispatched
<1>. QED
  BY <1>2, <1>5, <1>6

LEMMA DispatchedOnEventDone ==
    ASSUME Registered, Dispatched, NEW l \in Loop, OnEventDone(l) PROVE Dispatched'
<1> DEFINE c == inside[l]
<1>1. c \in Channel /\ pc[l] = "callback"
  BY DEF OnEventDone, Registered, TypeOK
<1>2. isActive[c] /\ mem[c] # "freed" /\ mem[c] # "unused" /\ holder[c] = l
  BY <1>1 DEF Dispatched, ActiveIsDispatching, Dispatching, FreedIsIdle, DispatchedIsHeld,
              Registered, BatchIsUsed
<1>3. /\ c \notin ToSet(batch[l])
      /\ \A m \in Loop : m # l => inside[m] # c /\ ~InBatch(m, c)
  BY <1>1, <1>2 DEF Dispatched, BatchOnce, DispatchedIsHeld
<1>4. /\ isInCallback' = [isInCallback EXCEPT ![c] = FALSE]
      /\ isActive' = [isActive EXCEPT ![c] = FALSE]
      /\ mem' = IF isAlive[c] THEN mem ELSE [mem EXCEPT ![c] = "freed"]
      /\ inside' = [inside EXCEPT ![l] = None]
      /\ pc' = [pc EXCEPT ![l] = "dispatch"]
      /\ UNCHANGED <<fault, isAlive, batch, interest, holder, destroyed>>
  BY <1>2 DEF OnEventDone, Untouched
<1> HIDE DEF c
<1>5. /\ inside'[l] = None /\ pc'[l] = "dispatch"
      /\ \A m \in Loop : m # l => inside'[m] = inside[m] /\ pc'[m] = pc[m]
  BY <1>4 DEF Registered, TypeOK
<1>6. fault' = "none" /\ NothingCollected' /\ CollectedIsRegistered'
  BY <1>4, <1>5 DEF Dispatched, NothingCollected, CollectedIsRegistered
<1>7. BatchOnce'
  <2>1. None \notin ToSet(batch[l])
    BY ChannelAssumption DEF Registered, TypeOK, ToSet
  <2>. QED
    BY <2>1, <1>4, <1>5 DEF Dispatched, BatchOnce
<1>8. DispatchedIsHeld'
  BY <1>4, <1>5, ChannelAssumption DEF Dispatched, DispatchedIsHeld, InBatch
<1>9. FreedIsIdle' /\ DeferredIsActive'
  <2>1. ~isAlive[c] => c \in destroyed
    BY <1>1, <1>2 DEF Registered, TypeOK, AliveUntilDestroyed
  <2>2. isAlive[c] => c \notin destroyed
    BY <1>1, <1>2 DEF Registered, TypeOK, AliveUntilDestroyed
  <2>. QED
    BY <2>1, <2>2, <1>1, <1>4, <1>2 DEF Dispatched, FreedIsIdle, DeferredIsActive, Registered, TypeOK
<1>10. CallbackIsInside'
  <2> SUFFICES ASSUME NEW d \in Channel
               PROVE  isInCallback'[d] <=> \E m \in Loop : inside'[m] = d
    BY DEF CallbackIsInside
  <2>1. CASE d = c
    BY <2>1, <1>1, <1>3, <1>4, <1>5, ChannelAssumption DEF Registered, TypeOK
  <2>2. CASE d # c
    <3>1. isInCallback'[d] = isInCallback[d]
      BY <2>2, <1>4 DEF Registered, TypeOK
    <3>2. \A m \in Loop : inside'[m] = d <=> inside[m] = d
      BY <2>2, <1>5, ChannelAssumption DEF c
    <3>. QED
      BY <3>1, <3>2 DEF Dispatched, CallbackIsInside
  <2>. QED
    BY <2>1, <2>2
<1>11. ActiveIsDispatching'
  <2> SUFFICES ASSUME NEW d \in Channel
               PROVE  isActive'[d] <=> \E m \in Loop : Dispatching(m, d)'
    BY DEF ActiveIsDispatching
  <2>1. CASE d = c
    <3>1. \A m \in Loop : ~Dispatching(m, d)'
      BY <2>1, <1>1, <1>3, <1>4, <1>5, ChannelAssumption DEF Dispatching, InBatch
    <3>2. ~isActive'[c]
      BY <1>1, <1>4 DEF Registered, TypeOK
    <3>. QED
      BY <2>1, <3>1, <3>2
  <2>2. CASE d # c
    <3>1. \A m \in Loop : m # l => (Dispatching(m, d)' <=> Dispatching(m, d))
      BY <1>4, <1>5 DEF Dispatching, InBatch
    <3>2. Dispatching(l, d)' <=> Dispatching(l, d)
      BY <2>2, <1>1, <1>4, <1>5, ChannelAssumption DEF Dispatching, InBatch, c
    <3>3. isActive'[d] = isActive[d]
      BY <2>2, <1>4 DEF Registered, TypeOK
    <3>. QED
      BY <3>1, <3>2, <3>3 DEF Dispatched, ActiveIsDispatching
  <2>. QED
    BY <2>1, <2>2
<1>. QED
  BY <1>6, <1>7, <1>8, <1>9, <1>10, <1>11 DEF Dispatched

LEMMA DispatchedTurn ==
    ASSUME Registered, Dispatched, NEW l \in Loop, BatchDone(l) \/ TimersDone(l)
    PROVE  Dispatched'
<1>1. PICK next \in {"user", "poll"} : pc' = [pc EXCEPT ![l] = next]
  BY DEF BatchDone, TimersDone
<1>2. /\ batch[l] = <<>> /\ inside[l] = None
      /\ UNCHANGED <<mem, isActive, isInCallback, isAlive, batch, inside, fault, interest,
                     holder, destroyed>>
  BY DEF BatchDone, TimersDone, flags, Untouched, Registered, TypeOK, Dispatched, NothingCollected
<1>3. pc'[l] \in {"user", "poll"} /\ \A m \in Loop : m # l => pc'[m] = pc[m]
  BY <1>1 DEF Registered, TypeOK
<1>4. fault' = "none" /\ BatchOnce' /\ NothingCollected' /\ CollectedIsRegistered'
  BY <1>2, <1>3 DEF Dispatched, BatchOnce, NothingCollected, CollectedIsRegistered
<1>5. DispatchedIsHeld' /\ CallbackIsInside' /\ FreedIsIdle' /\ DeferredIsActive'
  BY <1>2 DEF Dispatched, DispatchedIsHeld, CallbackIsInside, FreedIsIdle, DeferredIsActive,
              InBatch
<1>6. ActiveIsDispatching'
  <2> SUFFICES ASSUME NEW c \in Channel
               PROVE  isActive'[c] <=> \E m \in Loop : Dispatching(m, c)'
    BY DEF ActiveIsDispatching
  <2>1. ~InBatch(l, c)
    BY <1>2 DEF InBatch, ToSet
  <2>2. \A m \in Loop : Dispatching(m, c)' <=> Dispatching(m, c)
    BY <2>1, <1>2, <1>3 DEF Dispatching, InBatch
  <2>. QED
    BY <2>2, <1>2 DEF Dispatched, ActiveIsDispatching
<1>. QED
  BY <1>4, <1>5, <1>6 DEF Dispatched

LEMMA DispatchedInit == Init => Dispatched
<1> SUFFICES ASSUME Init PROVE Dispatched
  OBVIOUS
<1>1. fault = "none" /\ NothingCollected /\ CollectedIsRegistered
  BY DEF Init, NothingCollected, CollectedIsRegistered
<1>2. /\ \A l \in Loop : inside[l] = None /\ ToSet(batch[l]) = {}
      /\ \A l \in Loop : batch[l] = <<>>
  BY DEF Init, ToSet
<1>3. BatchOnce
  BY <1>2 DEF BatchOnce
<1>4. DispatchedIsHeld /\ ActiveIsDispatching /\ CallbackIsInside
  BY <1>2, ChannelAssumption
  DEF Init, DispatchedIsHeld, ActiveIsDispatching, CallbackIsInside, Dispatching, InBatch
<1>5. FreedIsIdle /\ DeferredIsActive
  BY DEF Init, FreedIsIdle, DeferredIsActive
<1>. QED
  BY <1>1, <1>3, <1>4, <1>5 DEF Dispatched

LEMMA DispatchedNext ==
    ASSUME MoveActive = FALSE, Registered, Dispatched, [Next]_vars
    PROVE  Dispatched'
<1>1. CASE UNCHANGED vars
  <2>1. fault' = "none" /\ BatchOnce' /\ NothingCollected' /\ CollectedIsRegistered'
    BY <1>1 DEF vars, Dispatched, BatchOnce, NothingCollected, CollectedIsRegistered
  <2>2. DispatchedIsHeld' /\ ActiveIsDispatching' /\ CallbackIsInside'
    BY <1>1 DEF vars, Dispatched, DispatchedIsHeld, ActiveIsDispatching, CallbackIsInside,
                Dispatching, InBatch
  <2>3. FreedIsIdle' /\ DeferredIsActive'
    BY <1>1 DEF vars, Dispatched, FreedIsIdle, DeferredIsActive
  <2>. QED
    BY <2>1, <2>2, <2>3 DEF Dispatched
<1>2. ASSUME NEW l \in Loop, User(l) PROVE Dispatched'
  BY <1>2, DispatchedNew, DispatchedUpdate, DispatchedElsewhere, DispatchedRunAttach,
     DispatchedDestroy DEF User
<1>3. ASSUME NEW l \in Loop, LoopStep(l) PROVE Dispatched'
  BY <1>3, DispatchedWait, DispatchedMark, DispatchedOnEvent, DispatchedOnEventDone,
     DispatchedTurn DEF LoopStep
<1>. QED
  BY <1>1, <1>2, <1>3 DEF Next

LEMMA DispatchedAlways ==
    ASSUME MoveActive = FALSE PROVE Spec => [](Registered /\ Dispatched)
<1>1. Init => Registered /\ Dispatched
  BY RegisteredInit, DispatchedInit
<1>2. Registered /\ Dispatched /\ [Next]_vars => (Registered /\ Dispatched)'
  BY RegisteredNext, DispatchedNext
<1>. QED
  BY <1>1, <1>2, PTL DEF Spec

\* While no channel is moved under a batch that refers to it, loop_loop() never marks
\* or dispatches a channel that was freed, nor does a callback return into one,
\* whatever the callbacks before it created, detached, moved and destroyed.
THEOREM NoFaultAlways == ASSUME MoveActive = FALSE PROVE Spec => []NoFault
<1>1. Registered /\ Dispatched => NoFault
  BY DEF Registered, Dispatched, NoFault
<1>. QED
  BY <1>1, DispatchedAlways, PTL

\* Under the same condition what channel_destroy() deferred is freed by the end of the
\* pass: is_active and is_in_callback are set on no channel outside of one.
THEOREM NoZombieAlways == ASSUME MoveActive = FALSE PROVE Spec => []NoZombie
<1>1. Registered /\ Dispatched => NoZombie
  <2> SUFFICES ASSUME Registered, Dispatched, NEW c \in destroyed, mem[c] # "freed",
                      \A l \in Loop : pc[l] \in {"poll", "mark", "user"}
               PROVE  FALSE
    BY DEF NoZombie
  <2>1. c \in Channel /\ mem[c] = "allocated"
    BY DEF Registered, TypeOK, UnusedIsBlank
  <2>2. PICK l \in Loop : Dispatching(l, c)
    BY <2>1 DEF Dispatched, DeferredIsActive, ActiveIsDispatching
  <2>. QED
    BY <2>1, <2>2, ChannelAssumption DEF Dispatching, Registered, TypeOK
<1>. QED
  BY <1>1, DispatchedAlways, PTL

=============================================================================
