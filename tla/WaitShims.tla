------------------------------- MODULE WaitShims -------------------------------
(***************************************************************************)
(* The Win32 calls over the waitable objects (runtime/win32_shims_wait.cpp    *)
(* and win32_shims_sync.cpp): handles, events, mutexes made of events,        *)
(* semaphores, completion ports and waits on several handles.  Either         *)
(* scheduler stands behind them: a wait succeeds at once, or parks the        *)
(* thread until the object can be acquired for it or its time runs out.       *)
(* Every call is one critical section.                                        *)
(***************************************************************************)
EXTENDS Integers, Sequences, FiniteSets

CONSTANTS
    Threads,    \* guest threads
    MaxHandle,  \* bound: handles given out; MaxHandle + 1 is never a handle
    Makes,      \* the kinds of object the guest creates
    MaxPosts,   \* bound: packets posted; packet i is the i-th
    MaxSema     \* the semaphores' maximum

\* A bound is a number, and a semaphore's maximum lets an event be signaled too.
WaitAssumption == MaxHandle \in Nat /\ MaxSema \in Nat \ {0}

Handle == 1 .. MaxHandle
Unknown == MaxHandle + 1
Null == 0       \* the null packet
Nothing == -1   \* an out-parameter nobody has written

VARIABLES
    obj,        \* the handle table: handle -> object, in the order of creation
    queue,      \* the packets queued on each port
    posted,     \* packets posted so far
    outp,       \* outp[t]: the ports that know t's out-parameters
    out,        \* what t's out-parameters hold
    pend,       \* what t waits for, or Awake
    multi,      \* t's one WxMultiWait: the handles and bWaitAll; nothing reads it
                \* between two waits, where it counts as empty
    eax,        \* what t's last wait call returned, 0 until it does
    misused,    \* history: the mutexes set or reset as the events they are, or
                \* released by a thread they were not given to
    held        \* history: the others that t has been given and has not released
vars == <<obj, queue, posted, outp, out, pend, multi, eax, misused, held>>

Awake == [on |-> <<>>, all |-> FALSE, expired |-> 0, port |-> FALSE]
NoMulti == [objs |-> <<>>, all |-> FALSE]
TimedOut == 258     \* WAIT_TIMEOUT

Init == /\ obj = <<>> /\ queue = <<>> /\ posted = 0
        /\ outp = [t \in Threads |-> {}] /\ out = [t \in Threads |-> Nothing]
        /\ pend = [t \in Threads |-> Awake]
        /\ multi = [t \in Threads |-> NoMulti]
        /\ eax = [t \in Threads |-> 0]
        /\ held = [t \in Threads |-> {}] /\ misused = {}

Known(h) == h \in DOMAIN obj
IsKind(h, kinds) == Known(h) /\ obj[h].kind \in kinds
Events == {"auto", "manual", "mutex"}       \* wx86_is_kind(w, "event")

\* Waitable::ready; an unknown handle is replaced by KNever.
Ready(h) == Known(h) /\ IF obj[h].kind = "port" THEN queue[h] # <<>> ELSE obj[h].n > 0
\* What k calls of try_acquire leave of the object; those that fail are ignored.
Taken(h, k) == IF obj[h].kind \in {"auto", "mutex"} THEN [obj[h] EXCEPT !.n = 0]
               ELSE IF obj[h].kind = "sema" THEN [obj[h] EXCEPT !.n = IF @ < k THEN 0 ELSE @ - k]
               ELSE obj[h]

\* WxMultiWait::try_acquire: all of them or none; else the first that is ready.
\* A fault: wait-all is satisfied by any of them.
AnyWillDo(on, all) == \E i \in DOMAIN on : Ready(on[i])
CanTake(on, all) == IF all THEN \A i \in DOMAIN on : Ready(on[i])
                           ELSE \E i \in DOMAIN on : Ready(on[i])
First(on) == CHOOSE i \in DOMAIN on : Ready(on[i]) /\ \A j \in 1 .. i - 1 : ~Ready(on[j])
Won(on, all) == IF all THEN on ELSE <<on[First(on)]>>
Listed(on) == {on[i] : i \in DOMAIN on}
Times(on, h) == Cardinality({i \in DOMAIN on : on[i] = h})

\* The objects listed, one as often as it is, are acquired for t, and its wait
\* returns r.
Acquire(t, won, r) ==
    /\ obj' = [h \in DOMAIN obj |-> IF h \in Listed(won) THEN Taken(h, Times(won, h)) ELSE obj[h]]
    /\ queue' = [h \in DOMAIN obj |-> IF h \in Listed(won) /\ obj[h].kind = "port"
                                        THEN Tail(queue[h]) ELSE queue[h]]
    /\ out' = [out EXCEPT ![t] = LET ports == {h \in Listed(won) \cap outp[t] : IsKind(h, {"port"})}
                                 IN IF ports = {} THEN @ ELSE Head(queue[CHOOSE h \in ports : TRUE])]
    /\ held' = [held EXCEPT ![t] = @ \cup {h \in Listed(won) : IsKind(h, {"mutex"}) /\ h \notin misused}]
    /\ eax' = [eax EXCEPT ![t] = r]
    /\ UNCHANGED misused

\* ThreadScheduler::wait and wait_timeout_result.
Wait(t, on, all, zero, expired) ==
    \/ /\ CanTake(on, all)
       /\ Acquire(t, Won(on, all), IF all THEN 0 ELSE First(on) - 1)
       /\ UNCHANGED pend
    \/ /\ ~CanTake(on, all) /\ zero
       /\ eax' = [eax EXCEPT ![t] = expired]
       /\ UNCHANGED <<obj, queue, out, held, misused, pend>>
    \/ /\ ~CanTake(on, all) /\ ~zero
       /\ pend' = [pend EXCEPT ![t] = [on |-> on, all |-> all, expired |-> expired, port |-> FALSE]]
       /\ eax' = [eax EXCEPT ![t] = 0]
       /\ UNCHANGED <<obj, queue, out, held, misused>>

Runs(t) == pend[t] = Awake

-----------------------------------------------------------------------------
\* CreateEvent, CreateMutex, CreateSemaphore, CreateIoCompletionPort.
Create(t, kind, n) ==
    /\ Runs(t) /\ Len(obj) < MaxHandle
    /\ obj' = Append(obj, [kind |-> kind, n |-> n])
    /\ queue' = Append(queue, <<>>)
    /\ held' = IF kind = "mutex" /\ n = 0 THEN [held EXCEPT ![t] = @ \cup {Len(obj) + 1}] ELSE held
    /\ UNCHANGED <<posted, outp, out, pend, multi, eax, misused>>

SetTo(h, n) == obj' = [obj EXCEPT ![h].n = n]
Misuse(h) == IF obj[h].kind = "mutex"
             THEN /\ misused' = misused \cup {h}
                  /\ held' = [t \in Threads |-> held[t] \ {h}]
             ELSE UNCHANGED <<misused, held>>
\* A mutex is an event to these calls.
SetEvent(t, h) == /\ Runs(t) /\ IsKind(h, Events) /\ SetTo(h, 1) /\ Misuse(h)
                  /\ UNCHANGED <<queue, posted, outp, out, pend, multi, eax>>
\* ResetEvent; PulseEvent wakes nobody and leaves the same state.
ResetEvent(t, h) == /\ Runs(t) /\ IsKind(h, Events) /\ SetTo(h, 0) /\ Misuse(h)
                    /\ UNCHANGED <<queue, posted, outp, out, pend, multi, eax>>
\* ReleaseMutex sets any event, whoever calls.
ReleaseMutex(t, h) == /\ Runs(t) /\ IsKind(h, Events) /\ SetTo(h, 1)
                      /\ IF h \in held[t]
                         THEN held' = [held EXCEPT ![t] = @ \ {h}] /\ UNCHANGED misused
                         ELSE Misuse(h)
                      /\ UNCHANGED <<queue, posted, outp, out, pend, multi, eax>>
\* ReleaseSemaphore: refused whole when the sum passes the maximum.
Sum(h, k) == obj[h].n + k
ReleaseSemaphore(t, h, k) ==
    /\ Runs(t) /\ IsKind(h, {"sema"}) /\ Sum(h, k) <= MaxSema
    /\ SetTo(h, Sum(h, k))
    /\ UNCHANGED <<queue, posted, outp, out, pend, multi, eax, held, misused>>

\* WaitForSingleObject: an unknown handle counts as signaled.
WaitSingle(t, h, zero) ==
    /\ Runs(t)
    /\ ~IsKind(h, {"port"})
    /\ UNCHANGED <<posted, outp, multi>>
    /\ IF Known(h) THEN Wait(t, <<h>>, FALSE, zero, TimedOut)
       ELSE /\ eax' = [eax EXCEPT ![t] = 0]
            /\ UNCHANGED <<obj, queue, out, pend, held, misused>>

\* WaitForMultipleObjects: the thread's own object is filled again; a handle
\* unknown now is never signaled, whatever object it names later.
Resolved(on) == [i \in DOMAIN on |-> IF Known(on[i]) THEN on[i] ELSE Unknown]
WaitMultiple(t, on, all, zero) ==
    /\ Runs(t)
    /\ \A i \in DOMAIN on : ~IsKind(on[i], {"port"})
    /\ Wait(t, Resolved(on), all, zero, TimedOut)
    /\ multi' = IF pend'[t] = Awake THEN multi
                ELSE [multi EXCEPT ![t] = [objs |-> Resolved(on), all |-> all]]
    /\ UNCHANGED <<posted, outp>>

\* Sleep with a time: a wait on an event nobody sets.
Sleep(t) == /\ Runs(t)
            /\ pend' = [pend EXCEPT ![t] = [on |-> <<Unknown>>, all |-> FALSE,
                                            expired |-> TimedOut, port |-> FALSE]]
            /\ eax' = [eax EXCEPT ![t] = 0]
            /\ UNCHANGED <<obj, queue, posted, outp, out, multi, held, misused>>

\* GetQueuedCompletionStatus: the packet at once, or the answer of a wait that
\* runs out written beforehand, and the wait.
PreWritten(o) == Null
\* A fault: the answer of a wait that runs out is not written beforehand.
LeftAsIs(o) == o
WhileWaiting(o) == PreWritten(o)
GetQueued(t, h, zero) ==
    /\ Runs(t) /\ IsKind(h, {"port"})
    /\ outp' = [outp EXCEPT ![t] = @ \cup {h}]
    /\ UNCHANGED <<posted, multi, held, misused>>
    /\ \/ /\ queue[h] # <<>>
          /\ out' = [out EXCEPT ![t] = Head(queue[h])]
          /\ queue' = [queue EXCEPT ![h] = Tail(@)]
          /\ eax' = [eax EXCEPT ![t] = 1]
          /\ UNCHANGED <<obj, pend>>
       \/ /\ queue[h] = <<>>
          /\ out' = [out EXCEPT ![t] = WhileWaiting(@)]
          /\ eax' = [eax EXCEPT ![t] = 0]
          /\ IF zero THEN UNCHANGED pend
                     ELSE pend' = [pend EXCEPT ![t] = [on |-> <<h>>, all |-> FALSE,
                                                       expired |-> 0, port |-> TRUE]]
          /\ UNCHANGED <<obj, queue>>

PostQueued(t, h) ==
    /\ Runs(t) /\ IsKind(h, {"port"}) /\ posted < MaxPosts
    /\ posted' = posted + 1
    /\ queue' = [queue EXCEPT ![h] = Append(@, posted + 1)]
    /\ UNCHANGED <<obj, outp, out, pend, multi, eax, held, misused>>

\* A parked thread is served, or its time runs out; a multi-wait is read from
\* the thread's object.
Parked(t) == IF Len(pend[t].on) > 1 THEN multi[t] ELSE [objs |-> pend[t].on, all |-> FALSE]
Wake(t) ==
    /\ ~Runs(t) /\ CanTake(Parked(t).objs, Parked(t).all)
    /\ Acquire(t, Won(Parked(t).objs, Parked(t).all),
               IF pend[t].port THEN 1 ELSE IF Parked(t).all THEN 0 ELSE First(Parked(t).objs) - 1)
    /\ pend' = [pend EXCEPT ![t] = Awake] /\ multi' = [multi EXCEPT ![t] = NoMulti]
    /\ UNCHANGED <<posted, outp>>
Expire(t) ==
    /\ ~Runs(t) /\ ~CanTake(Parked(t).objs, Parked(t).all)
    /\ eax' = [eax EXCEPT ![t] = pend[t].expired]
    /\ pend' = [pend EXCEPT ![t] = Awake] /\ multi' = [multi EXCEPT ![t] = NoMulti]
    /\ UNCHANGED <<obj, queue, posted, outp, out, held, misused>>

Next == \E t \in Threads :
          \/ \E kind \in Makes, n \in {0, 1} : Create(t, kind, n)
          \/ Sleep(t) \/ Wake(t) \/ Expire(t)
          \/ \E h \in Handle : \/ SetEvent(t, h) \/ ResetEvent(t, h) \/ ReleaseMutex(t, h)
                               \/ \E k \in 1 .. 2 : ReleaseSemaphore(t, h, k)
                               \/ PostQueued(t, h)
          \/ \E h \in 1 .. Unknown, zero \in BOOLEAN : WaitSingle(t, h, zero) \/ GetQueued(t, h, zero)
          \/ \E h, g \in 1 .. Unknown, all, zero \in BOOLEAN :
                 WaitMultiple(t, <<h, g>>, all, zero)

Spec == Init /\ [][Next]_vars

-----------------------------------------------------------------------------
\* A mutex has one holder or its signal, never both and never neither, but for
\* those misused: an event with its signal is all a mutex is
\* (win32_shims_sync.cpp:62-63), so SetEvent and a ReleaseMutex by a thread that
\* was not given it let a second thread in beside its holder, and ResetEvent
\* leaves it to nobody, where Windows refuses each of them.
OneHolder == \A h \in DOMAIN obj : obj[h].kind = "mutex" /\ h \notin misused =>
                Cardinality({t \in Threads : h \in held[t]}) + obj[h].n = 1
Counts == \A h \in DOMAIN obj : obj[h].n \in 0 .. MaxSema

\* A packet is never in two places, neither in two queues nor in a queue and in
\* the hands of a thread.
OnePlace ==
    /\ \A h, g \in DOMAIN queue : \A i \in DOMAIN queue[h], j \in DOMAIN queue[g] :
          queue[h][i] = queue[g][j] => h = g /\ i = j
    /\ \A t, u \in Threads : t # u /\ out[t] > 0 => out[t] # out[u]
    /\ \A t \in Threads, h \in DOMAIN queue : \A i \in DOMAIN queue[h] :
          out[t] > 0 => out[t] # queue[h][i]

\* A thread waits for what it asked for, and one parked on a port holds the null
\* packet, so that a wait that runs out returns no packet.
AsAsked ==
    \A t \in Threads : /\ Len(pend[t].on) > 1 => multi[t] = [objs |-> pend[t].on, all |-> pend[t].all]
                       /\ pend[t].port => out[t] = Null

\* What the waits promise of mutexes, counts, packets and threads.
WaitsHonest == OneHolder /\ Counts /\ OnePlace /\ AsAsked

\* A packet leaves its port for the thread that is told so, in the order of
\* the posts, and no thread is told of one otherwise.
PacketStep ==
    \A h \in DOMAIN obj :
      \/ queue'[h] = queue[h] \/ posted' > posted
      \/ /\ queue'[h] = Tail(queue[h])
         /\ \E t \in Threads : eax'[t] = 1 /\ out'[t] = Head(queue[h])
PacketsInOrder == [][PacketStep]_vars

\* The objects t waited for are all taken and no other is: each was ready, an
\* auto-reset event or a mutex has lost its signal, t is given the mutexes, and
\* of a semaphore one is taken, but for one listed twice that had two to take
\* (guest_sync.h:68-73 says a handle listed twice is consumed once).
TakenBy(t, on) ==
    /\ \A i \in DOMAIN on : Known(on[i]) /\ obj[on[i]].n > 0
    /\ \A h \in DOMAIN obj :
         /\ h \notin Listed(on) \/ obj[h].kind \notin {"auto", "mutex", "sema"} => obj'[h] = obj[h]
         /\ h \in Listed(on) /\ obj[h].kind \in {"auto", "mutex"} => obj'[h].n = 0
         /\ h \in Listed(on) /\ obj[h].kind = "sema" =>
              \/ obj'[h].n = obj[h].n - 1
              \/ Times(on, h) > 1 /\ obj[h].n > 1 /\ obj'[h].n < obj[h].n - 1
    /\ \A h \in Listed(on) : IsKind(h, {"mutex"}) /\ h \notin misused => h \in held'[t]

\* A wait on several handles that must all be there, answered after the thread
\* was parked or at once (its time limit plays no part then), takes all of them
\* when it answers 0, and else none.
AllTaken ==
    \A t \in Threads :
      /\ ~Runs(t) /\ pend[t].all /\ pend'[t] = Awake =>
           IF eax'[t] = 0 THEN TakenBy(t, pend[t].on) ELSE obj' = obj
      /\ UNCHANGED <<queue, pend>> =>
           \A h, g \in 1 .. Unknown : WaitMultiple(t, <<h, g>>, TRUE, TRUE) =>
             IF eax'[t] = 0 THEN TakenBy(t, <<h, g>>) ELSE obj' = obj
AllOrNone == [][AllTaken]_vars
=============================================================================
