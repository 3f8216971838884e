-------------------------------- MODULE Teardown --------------------------------
(***************************************************************************)
(* The heartbeat's life and the end of the native backend's run               *)
(* (runtime/sched_native.cpp: arm_famine, the two ends of run, fam_beat's     *)
(* loop).  The main thread creates, pins and starts the heartbeat; when the   *)
(* guest's main has ended it asks everyone to stop, takes the list of the     *)
(* threads while it holds the GIL, and waits a bounded time for each.  The    *)
(* kernel's threads are external: any of their calls may fail, and a wait     *)
(* with a bound may give up.                                                  *)
(***************************************************************************)
EXTENDS Integers, FiniteSets

CONSTANTS
    Runners,    \* guest threads other than main that may come to be
    Gil         \* the owner of a free GIL

\* The main thread and the heartbeat are not among the runners.
TeardownAssumption ==
    /\ {"main", "beat"} \cap Runners = {} /\ Gil \notin Runners \cup {"main", "beat"}

VARIABLES
    pc,         \* where the main thread is
    net,        \* fam_on_: the translation seams believe in the heartbeat
    started,    \* fam_started_
    stop,       \* fam_stop_
    beat,       \* the heartbeat's thread: "none", "made", "live", "ended" or "gone" (deleted)
    gil,        \* who holds the GIL
    known,      \* threads_: the runners created so far
    host,       \* host[r]: "none", "guest", "exit" (finished, on its way out) or "over"
    finished,   \* the runners whose state is Finished
    shutdown,   \* shutdown_
    snap,       \* the list main walks
    joined,     \* the runners joined
    leaked      \* the threads reported as abandoned
vars == <<pc, net, started, stop, beat, gil, known, host, finished, shutdown, snap, joined, leaked>>

Init == /\ pc = "create" /\ net \in BOOLEAN /\ started = FALSE /\ stop = FALSE
        /\ beat = "none" /\ gil = Gil /\ known = {}
        /\ host = [r \in Runners |-> "none"] /\ finished = {}
        /\ shutdown = FALSE /\ snap = {} /\ joined = {} /\ leaked = {}

Goes(from, to) == pc = from /\ pc' = to
BeatVars == <<net, started, stop, beat>>
ThreadVars == <<known, host, finished, shutdown, snap, joined>>

-----------------------------------------------------------------------------
\* run, first part: the heartbeat is made, and a failure leaves the net inert.
Unarmed == /\ pc = "create" /\ ~net /\ pc' = "guest" /\ gil = Gil /\ gil' = "main"
           /\ UNCHANGED <<BeatVars, ThreadVars, leaked>>
CreateBeat == /\ pc = "create" /\ net
              /\ \/ pc' = "start" /\ beat' = "made" /\ UNCHANGED net
                 \/ pc' = "enter" /\ net' = FALSE /\ UNCHANGED beat
              /\ UNCHANGED <<started, stop, gil, ThreadVars, leaked>>
\* A thread that was created and does not start is deleted.
DeletedOnFailure(b) == "gone"
\* A fault: the thread object stays.
KeptOnFailure(b) == b
OnFailure(b) == DeletedOnFailure(b)
StartBeat == /\ Goes("start", "enter")
             /\ \/ beat' = "live" /\ started' = TRUE /\ UNCHANGED net
                \/ beat' = OnFailure(beat) /\ net' = FALSE /\ UNCHANGED started
             /\ UNCHANGED <<stop, gil, ThreadVars, leaked>>
Enter == /\ Goes("enter", "guest") /\ gil = Gil /\ gil' = "main"
         /\ UNCHANGED <<BeatVars, ThreadVars, leaked>>

\* Guest code creates threads and yields the GIL; create_thread refuses after
\* the shutdown.
Spawn(by) == /\ gil = by /\ ~shutdown
             /\ \E r \in Runners \ known :
                  /\ known' = known \cup {r}
                  /\ \/ host' = [host EXCEPT ![r] = "guest"] /\ UNCHANGED finished
                     \/ finished' = finished \cup {r} /\ UNCHANGED host   \* pthread_create failed
             /\ UNCHANGED <<pc, BeatVars, gil, shutdown, snap, joined, leaked>>
TakeGil(r) == /\ gil = Gil /\ host[r] = "guest" /\ gil' = r
              /\ UNCHANGED <<pc, BeatVars, ThreadVars, leaked>>
DropGil(x) == /\ gil = x /\ (x = "main" => pc = "guest")
              /\ gil' = Gil
              /\ pc' = IF x = "main" THEN "outside" ELSE pc
              /\ UNCHANGED <<BeatVars, ThreadVars, leaked>>
MainBack == /\ Goes("outside", "guest") /\ gil = Gil /\ gil' = "main"
            /\ UNCHANGED <<BeatVars, ThreadVars, leaked>>
\* A runner finishes under the GIL and leaves; TerminateThread only says so.
Finish(r) == /\ gil = r /\ gil' = Gil
             /\ finished' = finished \cup {r} /\ host' = [host EXCEPT ![r] = "exit"]
             /\ UNCHANGED <<pc, BeatVars, known, shutdown, snap, joined, leaked>>
Terminate(by, r) == /\ gil = by /\ r # by /\ r \in known
                    /\ finished' = finished \cup {r}
                    /\ UNCHANGED <<pc, BeatVars, gil, known, host, shutdown, snap, joined, leaked>>
Leave(r) == /\ host[r] = "exit" /\ host' = [host EXCEPT ![r] = "over"]
            /\ UNCHANGED <<pc, BeatVars, gil, known, finished, shutdown, snap, joined, leaked>>

\* The heartbeat sleeps, tries the GIL and never waits for it; it ends when
\* told, or when it sees the shutdown.
BeatTries == /\ beat = "live" /\ gil = Gil /\ gil' = "beat"
             /\ UNCHANGED <<pc, BeatVars, ThreadVars, leaked>>
BeatDone == /\ gil = "beat" /\ gil' = Gil
            /\ UNCHANGED <<pc, BeatVars, ThreadVars, leaked>>
BeatEnds == /\ beat = "live" /\ gil # "beat" /\ (stop \/ shutdown)
            /\ beat' = "ended"
            /\ UNCHANGED <<pc, net, started, stop, gil, ThreadVars, leaked>>

-----------------------------------------------------------------------------
\* run, second part.  The guest's main has ended: request_shutdown and the list
\* of the threads in the same critical section.
MainEnds == /\ Goes("guest", "stopbeat") /\ gil = "main"
            /\ shutdown' = TRUE /\ snap' = known /\ gil' = Gil
            /\ UNCHANGED <<BeatVars, known, host, finished, joined, leaked>>
\* The heartbeat is told to stop and waited for, two seconds at most.
StopBeat == /\ pc = "stopbeat"
            /\ IF started THEN pc' = "waitbeat" /\ stop' = TRUE
                          ELSE pc' = "join" /\ UNCHANGED stop
            /\ UNCHANGED <<net, started, beat, gil, ThreadVars, leaked>>
\* A heartbeat that has ended is deleted, one that has not is left alone.
Expired(b) == b
\* A fault: the thread is deleted though the wait gave up.
ExpiredDeleted(b) == "gone"
OnExpiry(b) == Expired(b)
WaitBeat == /\ Goes("waitbeat", "join") /\ started' = FALSE
            /\ \/ beat = "ended" /\ beat' = "gone" /\ UNCHANGED leaked
               \/ beat = "live" /\ beat' = OnExpiry(beat) /\ leaked' = leaked \cup {"beat"}
            /\ UNCHANGED <<net, stop, gil, ThreadVars>>
\* Each thread of the list: joined once Finished is seen, for as long as its
\* host thread takes; given up when the time is over.
Join(r) == /\ pc = "join" /\ r \in snap \ (joined \cup leaked)
           /\ \/ /\ host[r] = "none" /\ snap' = snap \ {r} /\ UNCHANGED <<joined, leaked>>
              \/ /\ host[r] = "over" /\ r \in finished
                 /\ joined' = joined \cup {r} /\ UNCHANGED <<snap, leaked>>
              \/ /\ host[r] # "none" /\ r \notin finished
                 /\ leaked' = leaked \cup {r} /\ UNCHANGED <<snap, joined>>
           /\ UNCHANGED <<pc, BeatVars, gil, known, host, finished, shutdown>>
Return == /\ Goes("join", "returned") /\ snap \subseteq joined \cup leaked
          /\ UNCHANGED <<BeatVars, gil, ThreadVars, leaked>>

Next == \/ Unarmed \/ CreateBeat \/ StartBeat \/ Enter \/ MainBack
        \/ BeatTries \/ BeatDone \/ BeatEnds
        \/ MainEnds \/ StopBeat \/ WaitBeat \/ Return
        \/ \E x \in Runners \cup {"main"} : Spawn(x) \/ DropGil(x) \/ \E r \in Runners : Terminate(x, r)
        \/ \E r \in Runners : TakeGil(r) \/ Finish(r) \/ Leave(r) \/ Join(r)

Spec == Init /\ [][Next]_vars

-----------------------------------------------------------------------------
\* The seams believe in the heartbeat only while one is being made or was
\* started; a heartbeat that runs is never deleted; and when run returns,
\* every host thread is over or has been reported, and none can appear.
EndsClean ==
    /\ net /\ pc \notin {"create", "start"} => beat # "none"
    /\ pc = "enter" /\ ~net => beat \in {"none", "gone"}
    /\ beat = "gone" => gil # "beat"
    /\ started => beat \in {"live", "ended"}
    /\ pc = "returned" =>
         /\ beat \in {"none", "gone"} \/ ("beat" \in leaked /\ beat # "gone")
         /\ \A r \in Runners : host[r] \in {"none", "over"} \/ r \in leaked
         /\ known = snap \cup {r \in known : host[r] = "none"}
=============================================================================
