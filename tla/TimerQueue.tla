----------------------------- MODULE TimerQueue -----------------------------
(***************************************************************************)
(* The timers of an event loop: linux/net/timer_queue.c with the timer     *)
(* operations of linux/net/loop.c and the part of loop_loop() that sleeps  *)
(* until the next one.  Users are the loop thread, in an I/O callback or a *)
(* timer's callback, and a client thread, whose operations travel through  *)
(* the loop's task queue (the order-preserving queue that EventLoop        *)
(* implements).                                                            *)
(*                                                                         *)
(* A timer's memory is modelled: "unused", "allocated", "freed".  A step   *)
(* that dereferences a freed timer, or unlinks one that is not on the      *)
(* list, is undefined behaviour: it sets fault and nothing follows it.     *)
(***************************************************************************)
EXTENDS Naturals, FiniteSets, Sequences, SequencesExt

CONSTANTS Timer,               \* timers, each allocated at most once
          Intervals,           \* intervals users ask for, in ms
          PollCap,             \* gettimeout's cap on a sleep (100 ms in the code)
          MaxNow,              \* bound: the clock stops here
          MaxOps,              \* bound: client operations on their way
          None,
          CancelOneShotAcross, \* the client cancels one-shot timers too
          RefreshUnlisted      \* callbacks refresh timers that are not on the list

ASSUME IntervalsAssumption == Intervals \subseteq Nat \ {0}
ASSUME PollCapAssumption == PollCap \in Nat \ {0}
ASSUME BoundsAssumption == MaxNow \in Nat /\ MaxOps \in Nat
ASSUME NoneAssumption == None \notin Timer
ASSUME UsageAssumption == CancelOneShotAcross \in BOOLEAN /\ RefreshUnlisted \in BOOLEAN

VARIABLES now,        \* ts_ms()
          timer,      \* struct loop_timer, per timer
          queue,      \* timer_list .. timer_list_end and min_timestamp
          done,       \* done_timer: expired timers not yet processed
          current,    \* the timer whose callback is running, or None
          ops,        \* operations of the client in the loop's task queue
          batch,      \* how many of them the loop thread has taken
          pc,         \* where the loop thread is
          deadline,   \* when the epoll_wait() in progress times out
          requested,  \* timers a user has cancelled (whose handle it gave up)
          cancelled,  \* timers whose cancellation was carried out in the loop
          fault

vars == <<now, timer, queue, done, current, ops, batch, pc, deadline,
          requested, cancelled, fault>>

NoTimer == [mem |-> "unused", timestamp |-> 0, interval |-> 0, alive |-> FALSE,
            expired |-> FALSE, inCallback |-> FALSE, inQueue |-> FALSE]

Init == /\ now = 0
        /\ timer = [t \in Timer |-> NoTimer]
        /\ queue = [list |-> <<>>, min |-> 0]
        /\ done = <<>>
        /\ current = None
        /\ ops = <<>>
        /\ batch = 0
        /\ pc = "poll"
        /\ deadline = 0
        /\ requested = {}
        /\ cancelled = {}
        /\ fault = "none"

-----------------------------------------------------------------------------
(***************************************************************************)
(* The list.  Operators on the pair of list and min_timestamp, given the   *)
(* timers' fields tm.                                                      *)
(***************************************************************************)
\* Where insert_timer_inloop puts t: behind the first timers that are not later.
Place(list, tm, t) ==
    Cardinality({i \in DOMAIN list :
                   \A j \in 1 .. i : tm[list[j]].timestamp <= tm[t].timestamp}) + 1

\* insert_timer_inloop()
Inserted(q, tm, t) ==
    LET p == Place(q.list, tm, t) IN
    [list |-> InsertAt(q.list, p, t),
     min  |-> IF p = 1 THEN tm[t].timestamp ELSE q.min]

Position(list, t) == CHOOSE i \in DOMAIN list : list[i] = t

\* remove_timer_inloop(), of a timer that is on the list
Removed(q, tm, t) ==
    LET rest == RemoveAt(q.list, Position(q.list, t)) IN
    [list |-> rest,
     min  |-> IF t # Head(q.list) THEN q.min
              ELSE IF rest # <<>> THEN tm[Head(rest)].timestamp ELSE now]

\* free(): the fields' values are gone with the memory.
Freed(t) == [timer EXCEPT ![t] = [NoTimer EXCEPT !.mem = "freed"]]

-----------------------------------------------------------------------------
(***************************************************************************)
(* What the loop thread does for an operation: at once when it is the      *)
(* caller, as a task when the client is.                                   *)
(***************************************************************************)
\* An insertion that forgets the timer when it was cancelled on its way.
MutantDoInsertTimer(t) ==
    /\ IF timer[t].alive
         THEN /\ queue' = Inserted(queue, timer, t)
              /\ timer' = [timer EXCEPT ![t].inQueue = TRUE]
         ELSE UNCHANGED <<queue, timer>>
    /\ UNCHANGED <<cancelled, fault>>

\* do_insert_timer()
DoInsertTimer(t) ==
    IF timer[t].alive
      THEN /\ queue' = Inserted(queue, timer, t)
           /\ timer' = [timer EXCEPT ![t].inQueue = TRUE]
           /\ UNCHANGED <<cancelled, fault>>
      ELSE /\ timer' = Freed(t)
           /\ UNCHANGED <<queue, cancelled, fault>>

\* A cancel that frees a timer that do_insert_timer has still to insert.
MutantCancelInLoop(t) ==
    /\ cancelled' = cancelled \cup {t}
    /\ IF timer[t].inCallback \/ timer[t].expired
         THEN /\ timer' = [timer EXCEPT ![t].alive = FALSE]
              /\ UNCHANGED <<queue, fault>>
         ELSE /\ queue' = IF timer[t].inQueue THEN Removed(queue, timer, t) ELSE queue
              /\ timer' = Freed(t)
              /\ UNCHANGED fault

\* timer_queue_cancel_inloop()
CancelInLoop(t) ==
    /\ cancelled' = cancelled \cup {t}
    /\ IF timer[t].inCallback \/ timer[t].expired \/ ~timer[t].inQueue
         THEN /\ timer' = [timer EXCEPT ![t].alive = FALSE]
              /\ UNCHANGED <<queue, fault>>
         ELSE /\ queue' = Removed(queue, timer, t)
              /\ timer' = Freed(t)
              /\ UNCHANGED fault

\* The timer's new timestamp is set, but its place in the list is kept.
MutantRefreshInPlace(t) ==
    /\ timer' = [timer EXCEPT ![t].timestamp = now + timer[t].interval]
    /\ UNCHANGED <<queue, cancelled, fault>>

\* do_timer_queue_refresh(): takes the timer off the list wherever it is.
DoRefresh(t) ==
    IF t \in ToSet(queue.list)
      THEN LET tm == [timer EXCEPT ![t].timestamp = now + timer[t].interval,
                                   ![t].inQueue = TRUE]
           IN  /\ timer' = tm
               /\ queue' = Inserted(Removed(queue, timer, t), tm, t)
               /\ UNCHANGED <<cancelled, fault>>
      ELSE /\ fault' = "unlinked a timer that is not on the list"
           /\ UNCHANGED <<timer, queue, cancelled>>

Perform(op, t) ==
    IF timer[t].mem = "freed"
      THEN /\ fault' = "used a freed timer"
           /\ UNCHANGED <<timer, queue, cancelled>>
      ELSE CASE op = "insert"  -> DoInsertTimer(t)
             [] op = "cancel"  -> CancelInLoop(t)
             [] op = "refresh" -> DoRefresh(t)

-----------------------------------------------------------------------------
(***************************************************************************)
(* The users.                                                              *)
(***************************************************************************)
LoopThreadInUserCode == pc \in {"tasks", "callback"} /\ fault = "none"

ClientActive == pc # "destroyed" /\ fault = "none"

OnItsWay(t) == \E i \in DOMAIN ops : ops[i].timer = t /\ ops[i].op # "insert"

\* timer_queue_add()'s new timer, for loop_runafter() and loop_runevery().
NewTimer(iv, every) ==
    [NoTimer EXCEPT !.mem = "allocated", !.alive = TRUE, !.timestamp = now + iv,
                    !.interval = IF every THEN iv ELSE 0]

AddInLoop(t, iv, every) ==
    /\ LoopThreadInUserCode
    /\ timer[t].mem = "unused"
    /\ LET tm == [timer EXCEPT ![t] = NewTimer(iv, every)]
       IN  /\ queue' = Inserted(queue, tm, t)
           /\ timer' = [tm EXCEPT ![t].inQueue = TRUE]
    /\ UNCHANGED <<now, done, current, ops, batch, pc, deadline, requested,
                   cancelled, fault>>

AddByClient(t, iv, every) ==
    /\ ClientActive
    /\ timer[t].mem = "unused"
    /\ Len(ops) < MaxOps
    /\ timer' = [timer EXCEPT ![t] = NewTimer(iv, every)]
    /\ ops' = Append(ops, [op |-> "insert", timer |-> t])
    /\ UNCHANGED <<now, queue, done, current, batch, pc, deadline, requested,
                   cancelled, fault>>

\* A user in the loop thread knows which timers are gone, and does not use a
\* timer that the client is operating on.
KnownInLoop(t) == /\ timer[t].mem = "allocated"
                  /\ t \notin requested
                  /\ ~OnItsWay(t)

\* loop_cancel() in a callback.
CancelByLoop(t) ==
    /\ LoopThreadInUserCode
    /\ KnownInLoop(t)
    /\ Perform("cancel", t)
    /\ requested' = requested \cup {t}
    /\ UNCHANGED <<now, done, current, ops, batch, pc, deadline>>

\* loop_refresh() in a callback; timer_queue_refresh ignores one-shot timers.
\* Expired timers, and a client's timers before they are inserted, are not on
\* the list.
RefreshByLoop(t) ==
    /\ LoopThreadInUserCode
    /\ KnownInLoop(t)
    /\ timer[t].interval > 0
    /\ t \notin ToSet(queue.list) => RefreshUnlisted
    /\ Perform("refresh", t)
    /\ UNCHANGED <<now, done, current, ops, batch, pc, deadline, requested>>

KnownToClient(t) == timer[t].mem = "allocated" /\ t \notin requested

\* loop_cancel() in another thread: of a periodic timer, or of a one-shot timer
\* that may be expiring at that moment.
CancelByClient(t) ==
    /\ ClientActive
    /\ KnownToClient(t)
    /\ timer[t].interval = 0 => CancelOneShotAcross
    /\ Len(ops) < MaxOps
    /\ ops' = Append(ops, [op |-> "cancel", timer |-> t])
    /\ requested' = requested \cup {t}
    /\ UNCHANGED <<now, timer, queue, done, current, batch, pc, deadline,
                   cancelled, fault>>

RefreshByClient(t) ==
    /\ ClientActive
    /\ KnownToClient(t)
    /\ timer[t].interval > 0
    /\ Len(ops) < MaxOps
    /\ ops' = Append(ops, [op |-> "refresh", timer |-> t])
    /\ UNCHANGED <<now, timer, queue, done, current, batch, pc, deadline,
                   requested, cancelled, fault>>

User == \E t \in Timer :
          \/ \E iv \in Intervals, every \in BOOLEAN :
               AddInLoop(t, iv, every) \/ AddByClient(t, iv, every)
          \/ CancelByLoop(t)
          \/ RefreshByLoop(t)
          \/ CancelByClient(t)
          \/ RefreshByClient(t)

-----------------------------------------------------------------------------
(***************************************************************************)
(* The loop thread: "poll" computes the time to sleep, "wait" sleeps,      *)
(* "tasks" runs the tasks it took and I/O callbacks, "expire" splits the   *)
(* list, "fire" and "callback" process the expired timers.                 *)
(***************************************************************************)
\* The cap whenever nothing is due yet.
MutantTimeout == IF queue.list = <<>> \/ queue.min > now THEN PollCap ELSE 0

\* timer_queue_gettimeout()
Timeout == IF queue.list = <<>> \/ queue.min >= now + PollCap THEN PollCap
           ELSE IF queue.min > now THEN queue.min - now ELSE 0

Poll ==
    /\ pc = "poll"
    /\ deadline' = now + Timeout
    /\ pc' = "wait"
    /\ UNCHANGED <<now, timer, queue, done, current, ops, batch, requested,
                   cancelled, fault>>

WakeUp ==
    /\ pc' = "tasks"
    /\ batch' = Len(ops)
    /\ deadline' = 0
    /\ UNCHANGED <<now, timer, queue, done, current, ops, requested, cancelled, fault>>

\* An epoll_wait() without a timeout.
MutantTaskOrTimeout == pc = "wait" /\ ops # <<>> /\ WakeUp

\* epoll_wait() returns because of the task queue's eventfd or the timeout ...
TaskOrTimeout == pc = "wait" /\ (ops = <<>> => now >= deadline) /\ WakeUp

\* ... or because of another channel.
IoEvent == pc = "wait" /\ ops = <<>> /\ now < deadline /\ WakeUp

RunOp ==
    /\ pc = "tasks" /\ fault = "none"
    /\ batch > 0
    /\ Perform(Head(ops).op, Head(ops).timer)
    /\ ops' = Tail(ops)
    /\ batch' = batch - 1
    /\ UNCHANGED <<now, done, current, pc, deadline, requested>>

TasksDone ==
    /\ pc = "tasks" /\ fault = "none"
    /\ batch = 0
    /\ pc' = "expire"
    /\ UNCHANGED <<now, timer, queue, done, current, ops, batch, deadline,
                   requested, cancelled, fault>>

\* timer_queue_process_inloop() up to the callbacks: the leading timers whose
\* timestamp is not after now leave the list together.
MutantExpiredCount ==
    IF queue.list # <<>> /\ queue.min <= now THEN Len(queue.list) ELSE 0

ExpiredCount ==
    Cardinality({i \in DOMAIN queue.list :
                   \A j \in 1 .. i : timer[queue.list[j]].timestamp <= now})

Expire ==
    LET n    == ExpiredCount
        rest == SubSeq(queue.list, n + 1, Len(queue.list))
        late == SubSeq(queue.list, 1, n)
    IN  /\ pc = "expire"
        /\ done' = late
        /\ queue' = [list |-> rest,
                     min  |-> IF n = 0 THEN queue.min
                              ELSE IF rest # <<>> THEN timer[Head(rest)].timestamp ELSE now]
        /\ timer' = [t \in Timer |-> IF t \in ToSet(late)
                                       THEN [timer[t] EXCEPT !.expired = TRUE]
                                       ELSE timer[t]]
        /\ pc' = "fire"
        /\ UNCHANGED <<now, current, ops, batch, deadline, requested, cancelled, fault>>

\* The next expired timer: its callback is entered, unless it was cancelled.
MutantFire ==
    /\ pc = "fire" /\ done # <<>>
    /\ current' = Head(done)
    /\ timer' = [timer EXCEPT ![Head(done)].inCallback = TRUE]
    /\ pc' = "callback"
    /\ done' = Tail(done)
    /\ UNCHANGED <<now, queue, ops, batch, deadline, requested, cancelled, fault>>

Fire ==
    /\ pc = "fire" /\ done # <<>>
    /\ IF timer[Head(done)].alive
         THEN /\ current' = Head(done)
              /\ timer' = [timer EXCEPT ![Head(done)].inCallback = TRUE]
              /\ pc' = "callback"
         ELSE /\ timer' = Freed(Head(done))
              /\ UNCHANGED <<current, pc>>
    /\ done' = Tail(done)
    /\ UNCHANGED <<now, queue, ops, batch, deadline, requested, cancelled, fault>>

\* The callback returns: a periodic timer goes back on the list, one period
\* after its last timestamp; any other is freed.
CallbackReturn ==
    /\ pc = "callback" /\ fault = "none"
    /\ IF timer[current].alive /\ timer[current].interval # 0
         THEN LET tm == [timer EXCEPT ![current].timestamp = @ + timer[current].interval,
                                      ![current].expired = FALSE,
                                      ![current].inCallback = FALSE]
              IN  /\ timer' = tm
                  /\ queue' = Inserted(queue, tm, current)
         ELSE /\ timer' = Freed(current)
              /\ UNCHANGED queue
    /\ current' = None
    /\ pc' = "fire"
    /\ UNCHANGED <<now, done, ops, batch, deadline, requested, cancelled, fault>>

AllFired ==
    /\ pc = "fire" /\ done = <<>>
    /\ pc' = "poll"
    /\ UNCHANGED <<now, timer, queue, done, current, ops, batch, deadline,
                   requested, cancelled, fault>>

\* timer_queue_destroy(), in loop_destroy() after the loop has been quit.
Destroy ==
    /\ pc = "poll"
    /\ timer' = [t \in Timer |-> IF t \in ToSet(queue.list)
                                   THEN Freed(t)[t]
                                   ELSE timer[t]]
    /\ queue' = [queue EXCEPT !.list = <<>>]
    /\ ops' = <<>>
    /\ pc' = "destroyed"
    /\ UNCHANGED <<now, done, current, batch, deadline, requested, cancelled, fault>>

Tick == /\ now < MaxNow /\ fault = "none"
        /\ now' = now + 1
        /\ UNCHANGED <<timer, queue, done, current, ops, batch, pc, deadline,
                       requested, cancelled, fault>>

LoopStep == \/ Poll
            \/ TaskOrTimeout
            \/ RunOp
            \/ TasksDone
            \/ Expire
            \/ Fire
            \/ CallbackReturn
            \/ AllFired

Next == User \/ LoopStep \/ IoEvent \/ Destroy \/ Tick

Spec == Init /\ [][Next]_vars

\* The loop thread goes on, callbacks return, and the clock goes on up to its
\* bound; users need not do anything.
FairSpec == Spec /\ WF_vars(LoopStep) /\ WF_vars(Tick)

-----------------------------------------------------------------------------
Pcs == {"poll", "wait", "tasks", "expire", "fire", "callback", "destroyed"}

\* Type invariant.
TypeOK ==
    /\ now \in 0 .. MaxNow
    /\ timer \in [Timer -> [mem : {"unused", "allocated", "freed"},
                            timestamp : Nat, interval : Intervals \cup {0},
                            alive : BOOLEAN, expired : BOOLEAN,
                            inCallback : BOOLEAN, inQueue : BOOLEAN]]
    /\ queue \in [list : Seq(Timer), min : Nat]
    /\ done \in Seq(Timer)
    /\ current \in Timer \cup {None}
    /\ (pc = "callback") <=> (current # None)
    /\ ops \in Seq([op : {"insert", "cancel", "refresh"}, timer : Timer])
    /\ batch \in 0 .. Len(ops)
    /\ pc \in Pcs
    /\ deadline \in Nat
    /\ requested \subseteq Timer /\ cancelled \subseteq requested

\* No step uses a freed timer or unlinks a timer that is not on the list,
\* whatever callbacks cancel, refresh and add (timer_queue.c's is_in_callback,
\* is_expired and is_in_queue are there for this); with the type invariant.
NoFault == TypeOK /\ fault = "none"

\* min_timestamp, from which loop_loop() computes how long it may sleep, is the
\* earliest timestamp on the list, and the list is in order of timestamps.
MinIsEarliest ==
    /\ queue.list # <<>> => queue.min = timer[Head(queue.list)].timestamp
    /\ \A i, j \in DOMAIN queue.list :
          i < j => timer[queue.list[i]].timestamp <= timer[queue.list[j]].timestamp

\* While it sleeps, the loop sleeps past no timer's due time.
NoOversleep ==
    pc = "wait" => \A t \in ToSet(queue.list) : deadline <= timer[t].timestamp \/ deadline <= now

\* Ownership: an allocated timer is in exactly one place (on its way to the list,
\* on it, expired, or in its callback), and a freed timer in none.
Places(t) == Cardinality({i \in DOMAIN ops : ops[i] = [op |-> "insert", timer |-> t]})
             + Cardinality({i \in DOMAIN queue.list : queue.list[i] = t})
             + Cardinality({i \in DOMAIN done : done[i] = t})
             + (IF current = t THEN 1 ELSE 0)

OwnedOnce ==
    pc # "destroyed" =>
        \A t \in Timer : Places(t) = IF timer[t].mem = "allocated" THEN 1 ELSE 0

\* Once loop_cancel() has been carried out in the loop, the timer's callback is
\* not entered again.
EntersCallback(t) == current # t /\ current' = t

CancelledNeverRuns ==
    [][\A t \in Timer : EntersCallback(t) => t \notin cancelled]_vars

\* No timer's callback is entered before the timer is due.
NeverEarly ==
    [][\A t \in Timer : EntersCallback(t) => timer[t].timestamp <= now]_vars

\* A timer that is due leaves the list: it is processed, cancelled or put off.
Due(t) == t \in ToSet(queue.list) /\ timer[t].timestamp <= now

DueTimersRun == \A t \in Timer : Due(t) ~> ~Due(t)
=============================================================================
