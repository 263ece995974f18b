-------------------------- MODULE ChannelDispatch ---------------------------
(***************************************************************************)
(* Channels and their dispatch: linux/net/channel.c with the epoll half of *)
(* linux/net/loop.c.  A loop collects a batch of ready channels, marks     *)
(* them all active, and only then enters their callbacks one by one.  A    *)
(* callback may create, re-arm, detach, attach and destroy any channel of  *)
(* its loop, those waiting in the rest of the batch included, and may      *)
(* move a channel to another loop (tcp_connection_detach and _attach).     *)
(*                                                                         *)
(* interest is the kernel's side: the mask a channel is registered with in *)
(* a loop's epoll, {} when it is not registered.  Using a freed channel is *)
(* undefined behaviour: it sets fault and nothing follows it.              *)
(***************************************************************************)
EXTENDS Naturals, FiniteSets, Sequences, SequencesExt

CONSTANTS Channel,  \* channels, each allocated at most once
          Loop,     \* event loops, each with its thread
          Events,   \* what a channel can wait for (EPOLLIN, EPOLLOUT)
          MoveActive, \* channels are moved out of their own callback too
          None

ASSUME ChannelAssumption == /\ IsFiniteSet(Channel)
                            /\ None \notin Channel /\ None \notin Loop
ASSUME MoveAssumption == MoveActive \in BOOLEAN

VARIABLES mem,         \* "unused", "allocated" or "freed"
          event,       \* channel->event
          loopOf,      \* channel->loop, None for NULL
          isActive,    \* channel->is_active
          isInCallback,
          isAlive,
          isMonitored,
          interest,    \* the kernel's interest list, per loop and channel
          holder,      \* the loop whose thread uses the channel, None in transit
          destroyed,   \* channel_destroy() has been called on it
          moving,      \* per loop: channels waiting in its task queue to be attached
          pc,          \* where each loop's thread is
          batch,       \* per loop: loop->events from the present index on
          inside,      \* per loop: the channel whose callback it is in
          fault

vars == <<mem, event, loopOf, isActive, isInCallback, isAlive, isMonitored,
          interest, holder, destroyed, moving, pc, batch, inside, fault>>

flags == <<isActive, isInCallback, isAlive>>
dispatch == <<pc, batch, inside>>

Init == /\ mem = [c \in Channel |-> "unused"]
        /\ event = [c \in Channel |-> {}]
        /\ loopOf = [c \in Channel |-> None]
        /\ isActive = [c \in Channel |-> FALSE]
        /\ isInCallback = [c \in Channel |-> FALSE]
        /\ isAlive = [c \in Channel |-> FALSE]
        /\ isMonitored = [c \in Channel |-> FALSE]
        /\ interest = [l \in Loop |-> [c \in Channel |-> {}]]
        /\ holder = [c \in Channel |-> None]
        /\ destroyed = {}
        /\ moving = [l \in Loop |-> {}]
        /\ pc = [l \in Loop |-> "user"]
        /\ batch = [l \in Loop |-> <<>>]
        /\ inside = [l \in Loop |-> None]
        /\ fault = "none"

-----------------------------------------------------------------------------
(***************************************************************************)
(* loop_update_channel() on the loop's own thread, where it runs           *)
(* do_loop_update_channel() at once: DEL for an empty mask, otherwise MOD  *)
(* or ADD as is_monitored says.  epoll_ctl fails, and changes nothing,     *)
(* when it adds what is registered or modifies or deletes what is not.     *)
(***************************************************************************)
MutantUpdateChannel(l, c, mask) ==
    LET registered == interest[l][c] # {}
        operate == IF mask = {} THEN "DEL" ELSE IF isMonitored[c] THEN "MOD" ELSE "ADD"
        works == IF operate = "ADD" THEN ~registered ELSE registered
    IN  /\ isMonitored' = [isMonitored EXCEPT ![c] = @ \/ operate = "ADD"]
        /\ interest' = IF works THEN [interest EXCEPT ![l][c] = mask] ELSE interest

UpdateChannel(l, c, mask) ==
    LET registered == interest[l][c] # {}
        operate == IF mask = {} THEN "DEL" ELSE IF isMonitored[c] THEN "MOD" ELSE "ADD"
        works == IF operate = "ADD" THEN ~registered ELSE registered
    IN  /\ isMonitored' = [isMonitored EXCEPT ![c] = (operate # "DEL")]
        /\ interest' = IF works THEN [interest EXCEPT ![l][c] = mask] ELSE interest

-----------------------------------------------------------------------------
(***************************************************************************)
(* Users: callbacks on the loop's thread, of a channel ("callback") or of  *)
(* a task or timer ("user").                                               *)
(***************************************************************************)
InUserCode(l) == pc[l] \in {"callback", "user"} /\ fault = "none"

\* A user keeps to the channels of its own thread that it has not destroyed.
Uses(l, c) == /\ InUserCode(l)
              /\ holder[c] = l
              /\ c \notin destroyed

\* channel_new()
NewChannel(l, c) ==
    /\ InUserCode(l)
    /\ mem[c] = "unused"
    /\ mem' = [mem EXCEPT ![c] = "allocated"]
    /\ isAlive' = [isAlive EXCEPT ![c] = TRUE]
    /\ loopOf' = [loopOf EXCEPT ![c] = l]
    /\ holder' = [holder EXCEPT ![c] = l]
    /\ UNCHANGED <<event, isActive, isInCallback, isMonitored, interest, destroyed,
                   moving, dispatch, fault>>

\* channel_setevent(): asserts that the channel is attached.
SetEvent(l, c, e) ==
    /\ Uses(l, c)
    /\ e \notin event[c]
    /\ loopOf[c] # None
    /\ event' = [event EXCEPT ![c] = @ \cup {e}]
    /\ UpdateChannel(loopOf[c], c, event'[c])
    /\ UNCHANGED <<mem, loopOf, flags, holder, destroyed, moving, dispatch, fault>>

\* channel_clearevent(): asserts that the channel is attached.
ClearEvent(l, c, e) ==
    /\ Uses(l, c)
    /\ e \in event[c]
    /\ loopOf[c] # None
    /\ event' = [event EXCEPT ![c] = @ \ {e}]
    /\ UpdateChannel(loopOf[c], c, event'[c])
    /\ UNCHANGED <<mem, loopOf, flags, holder, destroyed, moving, dispatch, fault>>

\* A detach that forgets to take the channel off the loop's epoll.
MutantDetach(l, c) ==
    /\ Uses(l, c)
    /\ event[c] # {}
    /\ loopOf[c] # None
    /\ loopOf' = [loopOf EXCEPT ![c] = None]
    /\ UNCHANGED <<mem, event, flags, isMonitored, interest, holder, destroyed,
                   moving, dispatch, fault>>

\* channel_detach(): the mask is emptied for the update and then put back; a
\* channel that waits for nothing keeps its loop.
Detach(l, c) ==
    /\ Uses(l, c)
    /\ event[c] # {}
    /\ loopOf[c] # None
    /\ UpdateChannel(loopOf[c], c, {})
    /\ loopOf' = [loopOf EXCEPT ![c] = None]
    /\ UNCHANGED <<mem, event, flags, holder, destroyed, moving, dispatch, fault>>

\* channel_attach(), on the thread of the loop that gets the channel.
AttachHere(l, c) ==
    /\ loopOf' = [loopOf EXCEPT ![c] = l]
    /\ UpdateChannel(l, c, event[c])

\* tcp_connection_attach() of a detached channel, to the same loop ...
Attach(l, c) ==
    /\ Uses(l, c)
    /\ loopOf[c] = None
    /\ AttachHere(l, c)
    /\ UNCHANGED <<mem, event, flags, holder, destroyed, moving, dispatch, fault>>

\* ... or, through its task queue, to another one, which owns it from then on.
\* The old loop may still be in the channel's callback, or about to dispatch it.
AttachElsewhere(l, c, other) ==
    /\ Uses(l, c)
    /\ loopOf[c] = None
    /\ other # l
    /\ isActive[c] => MoveActive
    /\ moving' = [moving EXCEPT ![other] = @ \cup {c}]
    /\ holder' = [holder EXCEPT ![c] = None]
    /\ UNCHANGED <<mem, event, loopOf, flags, isMonitored, interest, destroyed,
                   dispatch, fault>>

\* do_connection_attach() as a task of the loop that gets the channel.
RunAttach(l, c) ==
    /\ InUserCode(l)
    /\ c \in moving[l]
    /\ moving' = [moving EXCEPT ![l] = @ \ {c}]
    /\ holder' = [holder EXCEPT ![c] = l]
    /\ AttachHere(l, c)
    /\ UNCHANGED <<mem, event, flags, destroyed, dispatch, fault>>

\* A destroy that defers the free only inside the channel's own callback.
MutantDestroy(l, c) ==
    /\ Uses(l, c)
    /\ loopOf[c] = None \/ event[c] = {}
    /\ destroyed' = destroyed \cup {c}
    /\ IF isInCallback[c]
         THEN isAlive' = [isAlive EXCEPT ![c] = FALSE] /\ UNCHANGED mem
         ELSE mem' = [mem EXCEPT ![c] = "freed"] /\ UNCHANGED isAlive
    /\ UNCHANGED <<event, loopOf, isActive, isInCallback, isMonitored, interest,
                   holder, moving, dispatch, fault>>

\* channel_destroy(): freed later when a callback or the batch still refers to
\* it.  Every caller detaches the channel first.
Destroy(l, c) ==
    /\ Uses(l, c)
    /\ loopOf[c] = None \/ event[c] = {}
    /\ destroyed' = destroyed \cup {c}
    /\ IF isInCallback[c] \/ isActive[c]
         THEN isAlive' = [isAlive EXCEPT ![c] = FALSE] /\ UNCHANGED mem
         ELSE mem' = [mem EXCEPT ![c] = "freed"] /\ UNCHANGED isAlive
    /\ UNCHANGED <<event, loopOf, isActive, isInCallback, isMonitored, interest,
                   holder, moving, dispatch, fault>>

User(l) == \E c \in Channel :
             \/ NewChannel(l, c)
             \/ \E e \in Events : SetEvent(l, c, e) \/ ClearEvent(l, c, e)
             \/ Detach(l, c)
             \/ Attach(l, c)
             \/ \E other \in Loop : AttachElsewhere(l, c, other)
             \/ RunAttach(l, c)
             \/ Destroy(l, c)

-----------------------------------------------------------------------------
(***************************************************************************)
(* The loop's thread: "poll" is epoll_wait(), "mark" the first pass over   *)
(* the events (channel_setrevent), "dispatch" and "callback" the second    *)
(* one (channel_onevent), "user" the timers.                               *)
(***************************************************************************)
Untouched == UNCHANGED <<event, loopOf, isMonitored, interest, holder, destroyed, moving>>

\* epoll_wait() returns some registered channels, in any order, or none.
EpollWait(l) ==
    /\ pc[l] = "poll"
    /\ \E ready \in SUBSET {c \in Channel : interest[l][c] # {}} :
         \E order \in SetToSeqs(ready) :
           /\ batch' = [batch EXCEPT ![l] = order]
           /\ pc' = [pc EXCEPT ![l] = IF ready = {} THEN "user" ELSE "mark"]
    /\ UNCHANGED <<mem, flags, inside, fault>> /\ Untouched

Mark(l) ==
    /\ pc[l] = "mark" /\ fault = "none"
    /\ IF \E c \in ToSet(batch[l]) : mem[c] = "freed"
         THEN /\ fault' = "marked a freed channel"
              /\ UNCHANGED <<pc, isActive>>
         ELSE /\ isActive' = [c \in Channel |-> isActive[c] \/ c \in ToSet(batch[l])]
              /\ pc' = [pc EXCEPT ![l] = "dispatch"]
              /\ UNCHANGED fault
    /\ UNCHANGED <<mem, isInCallback, isAlive, batch, inside>> /\ Untouched

\* channel_onevent() up to the callback, of a channel that may have died since
\* the batch was collected.
MutantOnEvent(l) ==
    /\ pc[l] = "dispatch" /\ batch[l] # <<>> /\ fault = "none"
    /\ LET c == Head(batch[l]) IN
         IF mem[c] = "freed"
           THEN /\ fault' = "dispatched a freed channel"
                /\ UNCHANGED <<mem, isActive, isInCallback, pc, batch, inside>>
           ELSE /\ isInCallback' = [isInCallback EXCEPT ![c] = TRUE]
                /\ inside' = [inside EXCEPT ![l] = c]
                /\ pc' = [pc EXCEPT ![l] = "callback"]
                /\ batch' = [batch EXCEPT ![l] = Tail(@)]
                /\ UNCHANGED <<mem, isActive, fault>>
    /\ UNCHANGED isAlive /\ Untouched

OnEvent(l) ==
    /\ pc[l] = "dispatch" /\ batch[l] # <<>> /\ fault = "none"
    /\ LET c == Head(batch[l]) IN
         CASE mem[c] = "freed" ->
                /\ fault' = "dispatched a freed channel"
                /\ UNCHANGED <<mem, isActive, isInCallback, pc, batch, inside>>
           [] mem[c] # "freed" /\ ~isAlive[c] ->
                /\ isActive' = [isActive EXCEPT ![c] = FALSE]
                /\ mem' = IF isInCallback[c] THEN mem ELSE [mem EXCEPT ![c] = "freed"]
                /\ batch' = [batch EXCEPT ![l] = Tail(@)]
                /\ UNCHANGED <<isInCallback, pc, inside, fault>>
           [] OTHER ->
                /\ isInCallback' = [isInCallback EXCEPT ![c] = TRUE]
                /\ inside' = [inside EXCEPT ![l] = c]
                /\ pc' = [pc EXCEPT ![l] = "callback"]
                /\ batch' = [batch EXCEPT ![l] = Tail(@)]
                /\ UNCHANGED <<mem, isActive, fault>>
    /\ UNCHANGED isAlive /\ Untouched

\* channel_onevent() from the callback's return on.
MutantOnEventDone(l) ==
    /\ pc[l] = "callback" /\ fault = "none"
    /\ isInCallback' = [isInCallback EXCEPT ![inside[l]] = FALSE]
    /\ isActive' = [isActive EXCEPT ![inside[l]] = FALSE]
    /\ inside' = [inside EXCEPT ![l] = None]
    /\ pc' = [pc EXCEPT ![l] = "dispatch"]
    /\ UNCHANGED <<mem, isAlive, batch, fault>> /\ Untouched

OnEventDone(l) ==
    /\ pc[l] = "callback" /\ fault = "none"
    /\ LET c == inside[l] IN
         IF mem[c] = "freed"
           THEN /\ fault' = "returned into a freed channel"
                /\ UNCHANGED <<mem, isActive, isInCallback, inside, pc>>
           ELSE /\ isInCallback' = [isInCallback EXCEPT ![c] = FALSE]
                /\ isActive' = [isActive EXCEPT ![c] = FALSE]
                /\ mem' = IF isAlive[c] THEN mem ELSE [mem EXCEPT ![c] = "freed"]
                /\ inside' = [inside EXCEPT ![l] = None]
                /\ pc' = [pc EXCEPT ![l] = "dispatch"]
                /\ UNCHANGED fault
    /\ UNCHANGED <<isAlive, batch>> /\ Untouched

BatchDone(l) ==
    /\ pc[l] = "dispatch" /\ batch[l] = <<>>
    /\ pc' = [pc EXCEPT ![l] = "user"]
    /\ UNCHANGED <<mem, flags, batch, inside, fault>> /\ Untouched

TimersDone(l) ==
    /\ pc[l] = "user" /\ fault = "none"
    /\ pc' = [pc EXCEPT ![l] = "poll"]
    /\ UNCHANGED <<mem, flags, batch, inside, fault>> /\ Untouched

LoopStep(l) == \/ EpollWait(l)
               \/ Mark(l)
               \/ OnEvent(l)
               \/ OnEventDone(l)
               \/ BatchDone(l)
               \/ TimersDone(l)

Next == \E l \in Loop : User(l) \/ LoopStep(l)

Spec == Init /\ [][Next]_vars

-----------------------------------------------------------------------------
\* Type invariant.
TypeOK ==
    /\ mem \in [Channel -> {"unused", "allocated", "freed"}]
    /\ event \in [Channel -> SUBSET Events]
    /\ loopOf \in [Channel -> Loop \cup {None}]
    /\ isActive \in [Channel -> BOOLEAN]
    /\ isInCallback \in [Channel -> BOOLEAN]
    /\ isAlive \in [Channel -> BOOLEAN]
    /\ isMonitored \in [Channel -> BOOLEAN]
    /\ interest \in [Loop -> [Channel -> SUBSET Events]]
    /\ holder \in [Channel -> Loop \cup {None}]
    /\ destroyed \subseteq Channel
    /\ moving \in [Loop -> SUBSET Channel]
    /\ pc \in [Loop -> {"poll", "mark", "dispatch", "callback", "user"}]
    /\ batch \in [Loop -> Seq(Channel)]
    /\ inside \in [Loop -> Channel \cup {None}]
    /\ \A l \in Loop : (inside[l] # None) <=> (pc[l] = "callback")

\* Whatever callbacks destroy, the rest of the batch never refers to a channel
\* that has been freed (loop_loop's second pass and channel_destroy's is_active);
\* with the type invariant.
NoFault == TypeOK /\ fault = "none"

\* epoll agrees with the channel: an attached channel is registered for exactly
\* its mask, a detached one nowhere, and is_monitored tells ADD from MOD.
KernelAgrees ==
    \A c \in Channel \ destroyed :
        /\ \A l \in Loop : interest[l][c] = IF loopOf[c] = l THEN event[c] ELSE {}
        /\ isMonitored[c] = (loopOf[c] # None /\ event[c] # {})

\* The kernel holds no pointer to a channel that was destroyed.
NoDanglingInterest ==
    \A l \in Loop, c \in Channel :
        interest[l][c] # {} => mem[c] = "allocated" /\ isAlive[c]

\* A destroyed channel is freed by the end of the batch: nothing deferred is
\* forgotten.
NoZombie ==
    (\A l \in Loop : pc[l] \in {"poll", "mark", "user"}) =>
        \A c \in destroyed : mem[c] = "freed"

\* No callback is entered on a channel after channel_destroy().
EntersCallback(l, c) == inside[l] # c /\ inside'[l] = c

NoEventAfterDestroy ==
    [][\A l \in Loop, c \in Channel : EntersCallback(l, c) => c \notin destroyed]_vars

\* tcp_connection.h says that attaching to a loop is thread-safe: the callback of
\* a channel that moves is still run by one thread at a time.  It does not hold
\* (MoveActive = TRUE): an attach inside the callback lets the other loop in.
OneThreadPerChannel ==
    \A c \in Channel : Cardinality({l \in Loop : inside[l] = c}) <= 1
=============================================================================
