---------------------------- MODULE NativeSched ----------------------------
(***************************************************************************)
(* The native scheduler backend (src/runtime/sched_native.cpp): one host   *)
(* thread per guest thread, the GIL as the scheduler lock, a wait that     *)
(* blocks in pthread_cond_wait on the GIL mutex, and a wake-up that        *)
(* re-polls every blocked thread in id order (wake_check_all).             *)
(*                                                                         *)
(* Granularity.  Translated guest code runs without the GIL; every shim    *)
(* runs under it.  An action whose guard is Trap(t) or gil = NoThread is   *)
(* one whole critical section: it takes the GIL, runs the body and gives   *)
(* it back.  A body that ends in wake_check_all keeps the GIL (gil = t)    *)
(* and goes through the re-poll one thread at a time, so that the time-    *)
(* outs and spurious wake-ups of other host threads interleave with it.    *)
(*                                                                         *)
(* pc[t], the position of the host thread of guest thread t:               *)
(*   none      no host thread (not created, or pthread_create failed)      *)
(*   boot      in runner(), about to lock the GIL                          *)
(*   parked    in runner(), in pthread_cond_wait while the state is New    *)
(*   guest     in cpu_->run(), GIL released                                *)
(*   wait      in wait_common, in pthread_cond_(timed)wait                 *)
(*   wake      in wait_common, out of the cond, taking the GIL back        *)
(*   scan      in a shim, inside wake_check_all                            *)
(*   returned, faulted, stopped   out of run_guest's loop (its three       *)
(*             kinds of exit), about to take the GIL for finish_thread     *)
(*   reap      in finish_thread's wake_check_all                           *)
(*   join      main in run()'s bounded join                                *)
(*   gone      out of runner() / run()                                     *)
(***************************************************************************)
EXTENDS GuestSync

CONSTANTS
  FiniteWaits,  \* BOOLEAN: does the guest use finite timeouts?
  Killable,     \* threads the guest may TerminateThread
  ExitCallers,  \* threads that may end through ExitThread
  Faulting,     \* threads whose guest code may fault
  MayStop,      \* BOOLEAN: may a shim request the shutdown?
  Suspended,    \* SUBSET BOOLEAN: values of create_thread's `suspended'
  HostStarts,   \* SUBSET BOOLEAN: outcomes of pthread_create
  StackSizes,   \* stack sizes asked for, in 64 KiB units (already rounded)
  StackRegion,  \* first unit of the stack region
  TibRegion,    \* tib_region_: first unit past the stack region
  ThreadCap     \* thread_cap_

Main == 1
GuardUnits == 1      \* the 0x10000 left between two carved stacks

ASSUME NativeAssumption ==
  /\ FiniteWaits \in BOOLEAN /\ MayStop \in BOOLEAN
  /\ Killable \subseteq Thread \ {Main}
  /\ ExitCallers \subseteq Thread /\ Faulting \subseteq Thread
  /\ Suspended \subseteq BOOLEAN /\ HostStarts \subseteq BOOLEAN
  /\ StackSizes \subseteq Nat \ {0}
  /\ StackRegion \in Nat \ {0} /\ TibRegion \in Nat /\ ThreadCap \in Nat

States == {"Absent", "New", "Ready", "Running", "Blocked", "Finished"}
PCs == {"none", "boot", "parked", "guest", "wait", "wake", "scan",
        "returned", "faulted", "stopped", "reap", "join", "gone"}
ExitCodes == {"unset", "returned", "zero", "fault", "killed", "exit"}

VARIABLES
  gil,         \* the thread inside a critical section of several steps
  state,       \* GuestThread::state
  pc,
  waitObj,     \* GuestThread::wait_obj
  request,     \* wait_common's argument w, while t is inside it
  woken,       \* NT::woken
  delivered,   \* NT::delivered_eax, as an index from 1
  timed,       \* the wait in progress has a deadline (NT::deadline_ms # 0)
  expired,     \* its cond_timedwait returned ETIMEDOUT
  cnt, own,    \* the objects (GuestSync)
  got,         \* tracked objects the guest code of t believes it holds
  exitCode,    \* GuestThread::exit_code
  runnerDone,  \* NT::runner_done
  threads,     \* ids in threads_
  nextId,      \* next_id_
  base, size,  \* GuestThread::stack_base, and top - base (0 = none)
  stackNext,   \* stack_next_
  cursor,      \* wake_check_all's loop index
  shutdown,    \* shutdown_
  joinAt,      \* run()'s join loop index
  leaked       \* threads the bounded join gave up on

waitVars   == <<waitObj, request, woken, delivered, timed, expired>>
stackVars  == <<base, size, stackNext>>
birthVars  == <<threads, nextId, base, size, stackNext>>
finalVars  == <<shutdown, joinAt, leaked>>
vars == <<gil, state, pc, waitObj, request, woken, delivered, timed, expired,
           cnt, own, got, exitCode, runnerDone, threads, nextId, base, size,
           stackNext, cursor, shutdown, joinAt, leaked>>

Finished == {t \in Thread : state[t] = "Finished"}

(* NT: a runner before its first wait.                                     *)
NewRunner ==
  /\ woken = [t \in Thread |-> FALSE]
  /\ delivered = [t \in Thread |-> 1]
  /\ timed = [t \in Thread |-> FALSE]
  /\ expired = [t \in Thread |-> FALSE]
  /\ runnerDone = [t \in Thread |-> FALSE]

(* set_main, and run() up to its gil::lock().                              *)
Init ==
  /\ NewRunner
  /\ gil = NoThread
  /\ state = [t \in Thread |-> IF t = Main THEN "Ready" ELSE "Absent"]
  /\ pc = [t \in Thread |-> IF t = Main THEN "boot" ELSE "none"]
  /\ waitObj = [t \in Thread |-> NoWait]
  /\ request = [t \in Thread |-> NoWait]
  /\ cnt = Tokens
  /\ own = [o \in Object |-> NoThread]
  /\ got = [t \in Thread |-> {}]
  /\ exitCode = [t \in Thread |-> "unset"]
  /\ threads = {Main}
  /\ nextId = Main + 1
  /\ base = [t \in Thread |-> 0]
  /\ size = [t \in Thread |-> 0]
  /\ stackNext = StackRegion
  /\ cursor = 1
  /\ shutdown = FALSE
  /\ joinAt = 1
  /\ leaked = {}
----------------------------------------------------------------------------
(* The two ways a critical section ends.                                   *)

(* A guest thread at a trap finds the GIL free: gil::Guard of the dispatch.*)
Trap(t) == pc[t] = "guest" /\ gil = NoThread

(* notify: enter wake_check_all, GIL kept.                                 *)
Notify(t) ==
  /\ gil' = t
  /\ pc' = [pc EXCEPT ![t] = "scan"]
  /\ cursor' = 1

CanTake(t, w) == CanAcquire(w, t, cnt, own, Finished)
WinnerOf(t, w) == Winner(w, t, cnt, own, Finished)
----------------------------------------------------------------------------
(* wake_check_all                                                          *)

Pollable(u) ==
  /\ u \in threads /\ state[u] = "Blocked" /\ waitObj[u] # NoWait
  /\ CanTake(u, waitObj[u])

(* The loop reaches the next waiter it can serve, passing over the others. *)
Reaches(u) ==
  /\ u >= cursor /\ Pollable(u)
  /\ \A v \in cursor..(u - 1) : ~Pollable(v)

LoopEnds == \A v \in cursor..MaxThread : ~Pollable(v)

(* Fault: the grant is recorded but the cv is not signalled.               *)
WakeOneUnsignalled(t, u) ==
  /\ gil = t /\ pc[t] \in {"scan", "reap"} /\ Reaches(u)
  /\ LET i == WinnerOf(u, waitObj[u])
         S == Claimed(waitObj[u], i)
     IN /\ cnt' = CntAfter(S, cnt)
        /\ own' = OwnAfter(S, u, own)
        /\ delivered' = [delivered EXCEPT ![u] = i]
  /\ woken' = [woken EXCEPT ![u] = TRUE]
  /\ waitObj' = [waitObj EXCEPT ![u] = NoWait]
  /\ cursor' = u + 1
  /\ UNCHANGED <<gil, state, pc, request, timed, expired, got, exitCode,
                 runnerDone, birthVars, finalVars>>

(* Fault: the waiter is woken on ready(), without the try_acquire.         *)
WakeOneUnacquired(t, u) ==
  /\ gil = t /\ pc[t] \in {"scan", "reap"} /\ Reaches(u)
  /\ delivered' = [delivered EXCEPT ![u] = WinnerOf(u, waitObj[u])]
  /\ woken' = [woken EXCEPT ![u] = TRUE]
  /\ waitObj' = [waitObj EXCEPT ![u] = NoWait]
  /\ pc' = [pc EXCEPT ![u] = IF @ = "wait" THEN "wake" ELSE @]
  /\ cursor' = u + 1
  /\ UNCHANGED <<gil, state, request, timed, expired, cnt, own, got, exitCode,
                 runnerDone, birthVars, finalVars>>

(* try_acquire on behalf of the waiter, deliver the result, signal its cv. *)
WakeOne(t, u) ==
  /\ gil = t /\ pc[t] \in {"scan", "reap"} /\ Reaches(u)
  /\ LET i == WinnerOf(u, waitObj[u])
         S == Claimed(waitObj[u], i)
     IN /\ cnt' = CntAfter(S, cnt)
        /\ own' = OwnAfter(S, u, own)
        /\ delivered' = [delivered EXCEPT ![u] = i]
  /\ woken' = [woken EXCEPT ![u] = TRUE]
  /\ waitObj' = [waitObj EXCEPT ![u] = NoWait]
  /\ pc' = [pc EXCEPT ![u] = IF @ = "wait" THEN "wake" ELSE @]
  /\ cursor' = u + 1
  /\ UNCHANGED <<gil, state, request, timed, expired, got, exitCode, runnerDone,
                 birthVars, finalVars>>

(* End of the shim: the dispatch's guard releases the GIL.                 *)
ScanDone(t) ==
  /\ gil = t /\ pc[t] = "scan" /\ LoopEnds
  /\ gil' = NoThread
  /\ pc' = [pc EXCEPT ![t] = "guest"]
  /\ cursor' = 1
  /\ UNCHANGED <<state, waitVars, cnt, own, got, exitCode, runnerDone, birthVars, finalVars>>
----------------------------------------------------------------------------
(* Signalling shims                                                        *)

SetEvent(t, o) ==
  /\ Trap(t) /\ o \notin Pool /\ Kind[o] \in {"auto", "manual"}
  /\ cnt' = [cnt EXCEPT ![o] = 1]
  /\ Notify(t)
  /\ UNCHANGED <<state, waitVars, own, got, exitCode, runnerDone, birthVars,
                 finalVars>>

(* ResetEvent and PulseEvent: the signal is dropped, nobody is polled.     *)
ResetEvent(t, o) ==
  /\ Trap(t) /\ o \notin Pool /\ Kind[o] \in {"auto", "manual"}
  /\ cnt' = [cnt EXCEPT ![o] = 0]
  /\ UNCHANGED <<gil, state, pc, waitVars, own, got, exitCode, runnerDone,
                 birthVars, cursor, finalVars>>

(* A mutex is an auto-reset event; the guest releases only what it holds.  *)
ReleaseMutex(t, o) ==
  /\ Trap(t) /\ o \in got[t] /\ Kind[o] = "auto"
  /\ cnt' = [cnt EXCEPT ![o] = 1]
  /\ got' = [got EXCEPT ![t] = @ \ {o}]
  /\ Notify(t)
  /\ UNCHANGED <<state, waitVars, own, exitCode, runnerDone, birthVars,
                 finalVars>>

(* One unit at a time; a post past maxc fails and leaves the count intact. *)
ReleaseSemaphore(t, o) ==
  /\ Trap(t) /\ Kind[o] = "sema"
  /\ o \in Pool => o \in got[t]
  /\ cnt[o] + 1 <= MaxCount[o]
  /\ cnt' = [cnt EXCEPT ![o] = @ + 1]
  /\ got' = [got EXCEPT ![t] = @ \ {o}]
  /\ Notify(t)
  /\ UNCHANGED <<state, waitVars, own, exitCode, runnerDone, birthVars,
                 finalVars>>

(* wx86_crit_leave by the owner: a nested leave notifies nobody.           *)
CritLeaveNested(t, o) ==
  /\ Trap(t) /\ o \in got[t] /\ Kind[o] = "crit" /\ cnt[o] > 1
  /\ cnt' = [cnt EXCEPT ![o] = @ - 1]
  /\ UNCHANGED <<gil, state, pc, waitVars, own, got, exitCode, runnerDone,
                 birthVars, cursor, finalVars>>

(* Fault: nobody is notified of the last leave.                            *)
CritLeaveSilent(t, o) ==
  /\ Trap(t) /\ o \in got[t] /\ Kind[o] = "crit" /\ cnt[o] = 1
  /\ cnt' = [cnt EXCEPT ![o] = 0]
  /\ own' = [own EXCEPT ![o] = NoThread]
  /\ got' = [got EXCEPT ![t] = @ \ {o}]
  /\ UNCHANGED <<gil, state, pc, waitVars, exitCode, runnerDone, birthVars,
                 cursor, finalVars>>

(* Fault: the owner field survives the last leave.                         *)
CritLeaveOwned(t, o) ==
  /\ Trap(t) /\ o \in got[t] /\ Kind[o] = "crit" /\ cnt[o] = 1
  /\ cnt' = [cnt EXCEPT ![o] = 0]
  /\ got' = [got EXCEPT ![t] = @ \ {o}]
  /\ Notify(t)
  /\ UNCHANGED <<state, waitVars, own, exitCode, runnerDone, birthVars,
                 finalVars>>

CritLeave(t, o) ==
  /\ Trap(t) /\ o \in got[t] /\ Kind[o] = "crit" /\ cnt[o] = 1
  /\ cnt' = [cnt EXCEPT ![o] = 0]
  /\ own' = [own EXCEPT ![o] = NoThread]
  /\ got' = [got EXCEPT ![t] = @ \ {o}]
  /\ Notify(t)
  /\ UNCHANGED <<state, waitVars, exitCode, runnerDone, birthVars, finalVars>>
----------------------------------------------------------------------------
(* wait_common                                                             *)

(* Threads the guest has a handle of.                                      *)
Known == {u \in threads : pc[u] # "none"}

(* A guest waits on handles it was given.  It does not wait for a lock of  *)
(* Pool it already holds (its mutexes are not recursive; critical sections *)
(* are).                                                                   *)
MayAsk(t, w) ==
  /\ w \in Waits
  /\ \A o \in ObjsOf(w) : Kind[o] = "thread" => ThreadOf[o] \in Known
  /\ ObjsOf(w) \cap Pool \cap got[t] = {}
  /\ \A o \in ObjsOf(w) :      \* bound: MaxCount caps the recursion
        Kind[o] = "crit" /\ own[o] = t => cnt[o] < MaxCount[o]

(* A thread terminated from outside never blocks again: redirect to the    *)
(* sentinel.                                                               *)
WaitKilled(t) ==
  /\ Trap(t) /\ state[t] = "Finished"
  /\ pc' = [pc EXCEPT ![t] = "returned"]
  /\ UNCHANGED <<gil, state, waitVars, cnt, own, got, exitCode, runnerDone,
                 birthVars, cursor, finalVars>>

(* try_acquire succeeds at once.                                           *)
WaitTake(t, w) ==
  /\ Trap(t) /\ MayAsk(t, w) /\ state[t] # "Finished" /\ CanTake(t, w)
  /\ LET S == Claimed(w, WinnerOf(t, w))
     IN /\ cnt' = CntAfter(S, cnt)
        /\ own' = OwnAfter(S, t, own)
        /\ got' = [got EXCEPT ![t] = @ \cup (S \cap Tracked)]
  /\ UNCHANGED <<gil, state, pc, waitVars, exitCode, runnerDone, birthVars,
                 cursor, finalVars>>

(* Block: pthread_cond_wait releases the GIL.  A zero timeout returns      *)
(* before this point, and a shutdown leaves the loop before its first      *)
(* iteration: both return the timeout value and change nothing.            *)
WaitPark(t, w, finite) ==
  /\ Trap(t) /\ MayAsk(t, w) /\ state[t] # "Finished" /\ ~CanTake(t, w)
  /\ ~shutdown
  /\ finite => FiniteWaits
  /\ waitObj' = [waitObj EXCEPT ![t] = w]
  /\ request' = [request EXCEPT ![t] = w]
  /\ state' = [state EXCEPT ![t] = "Blocked"]
  /\ woken' = [woken EXCEPT ![t] = FALSE]
  /\ timed' = [timed EXCEPT ![t] = finite]
  /\ pc' = [pc EXCEPT ![t] = "wait"]
  /\ UNCHANGED <<gil, delivered, expired, cnt, own, got, exitCode, runnerDone,
                 birthVars, cursor, finalVars>>

(* The cond's own ways out, which do not need the GIL to happen.           *)
CondTimeout(t) ==
  /\ pc[t] = "wait" /\ timed[t]
  /\ expired' = [expired EXCEPT ![t] = TRUE]
  /\ pc' = [pc EXCEPT ![t] = "wake"]
  /\ UNCHANGED <<gil, state, waitObj, request, woken, delivered, timed, cnt, own,
                 got, exitCode, runnerDone, birthVars, cursor, finalVars>>

CondSpurious(t) ==
  /\ pc[t] = "wait"
  /\ pc' = [pc EXCEPT ![t] = "wake"]
  /\ UNCHANGED <<gil, state, waitVars, cnt, own, got, exitCode, runnerDone,
                 birthVars, cursor, finalVars>>

(* Faults: the loop only ends at its deadline; a timeout does not end it.  *)
LeavesWaitDeaf(t)    == shutdown \/ expired[t]
LeavesWaitNoLimit(t) == woken[t] \/ shutdown

(* The loop's condition, evaluated with the GIL back.                      *)
LeavesWait(t) == woken[t] \/ shutdown \/ expired[t]

WaitAgain(t) ==
  /\ pc[t] = "wake" /\ gil = NoThread /\ ~LeavesWait(t)
  /\ pc' = [pc EXCEPT ![t] = "wait"]
  /\ UNCHANGED <<gil, state, waitVars, cnt, own, got, exitCode, runnerDone,
                 birthVars, cursor, finalVars>>

(* Fault: the timeout wins over a grant that came first.                   *)
OutcomeTimeoutWins(t) ==
  IF woken[t] /\ ~expired[t] THEN Claimed(request[t], delivered[t]) ELSE {}

(* What the value returned to the guest makes it believe it acquired.      *)
Outcome(t) == IF woken[t] THEN Claimed(request[t], delivered[t]) ELSE {}

(* Fault: the state is set back to Running whatever it became meanwhile.   *)
WaitReturnRevives(t) ==
  /\ pc[t] = "wake" /\ gil = NoThread /\ LeavesWait(t)
  /\ timed' = [timed EXCEPT ![t] = FALSE]
  /\ expired' = [expired EXCEPT ![t] = FALSE]
  /\ waitObj' = [waitObj EXCEPT ![t] = NoWait]
  /\ request' = [request EXCEPT ![t] = NoWait]
  /\ state' = [state EXCEPT ![t] = "Running"]
  /\ got' = [got EXCEPT ![t] = @ \cup (Outcome(t) \cap Tracked)]
  /\ pc' = [pc EXCEPT ![t] = "guest"]
  /\ UNCHANGED <<gil, woken, delivered, cnt, own, exitCode, runnerDone, birthVars,
                 cursor, finalVars>>

WaitReturn(t) ==
  /\ pc[t] = "wake" /\ gil = NoThread /\ LeavesWait(t)
  /\ timed' = [timed EXCEPT ![t] = FALSE]
  /\ expired' = [expired EXCEPT ![t] = FALSE]
  /\ waitObj' = [waitObj EXCEPT ![t] = NoWait]
  /\ request' = [request EXCEPT ![t] = NoWait]
  /\ state' = [state EXCEPT ![t] = IF @ = "Blocked" THEN "Running" ELSE @]
  /\ got' = [got EXCEPT ![t] = @ \cup (Outcome(t) \cap Tracked)]
  /\ pc' = [pc EXCEPT ![t] = "guest"]
  /\ UNCHANGED <<gil, woken, delivered, cnt, own, exitCode, runnerDone, birthVars,
                 cursor, finalVars>>
----------------------------------------------------------------------------
(* create_thread, resume, runner                                           *)

(* Fault: a stack is recycled as soon as its thread is Finished, though    *)
(* its runner may still be on it.                                          *)
DonorsEarly(n) ==
  {u \in threads : /\ state[u] = "Finished" /\ u # Main
                   /\ base[u] # 0 /\ size[u] = n}

(* Stacks a new thread of n units may take over.                           *)
Donors(n) ==
  {u \in threads : /\ state[u] = "Finished" /\ runnerDone[u]
                   /\ u # Main /\ base[u] # 0 /\ size[u] = n}

FirstOf(S) == CHOOSE u \in S : \A v \in S : u <= v

MayCreate(t) ==
  /\ Trap(t) /\ ~shutdown /\ nextId <= MaxThread
  /\ Cardinality(threads) < ThreadCap

(* The thread's record, and pthread_create, which may fail: the thread is  *)
(* then Finished, with no host thread, and CreateThread returns null.      *)
Born(t, c, suspended, started) ==
  /\ threads' = threads \cup {c}
  /\ nextId' = nextId + 1
  /\ state' = [state EXCEPT ![c] = IF ~started THEN "Finished"
                                   ELSE IF suspended THEN "New" ELSE "Ready"]
  /\ pc' = [pc EXCEPT ![c] = IF started THEN "boot" ELSE "none"]
  /\ UNCHANGED <<gil, waitVars, cnt, own, got, exitCode, runnerDone, cursor,
                 finalVars>>

CreateRecycled(t, suspended, n, started) ==
  /\ MayCreate(t) /\ Donors(n) # {}
  /\ LET u == FirstOf(Donors(n))
     IN /\ base' = [base EXCEPT ![nextId] = base[u], ![u] = 0]
        /\ size' = [size EXCEPT ![nextId] = n, ![u] = 0]
  /\ Born(t, nextId, suspended, started)
  /\ UNCHANGED stackNext

CreateCarved(t, suspended, n, started) ==
  /\ MayCreate(t) /\ Donors(n) = {}
  /\ stackNext + n <= TibRegion
  /\ base' = [base EXCEPT ![nextId] = stackNext]
  /\ size' = [size EXCEPT ![nextId] = n]
  /\ stackNext' = stackNext + n + GuardUnits
  /\ Born(t, nextId, suspended, started)

(* The region is full: null, but the id is already consumed.               *)
CreateRefused(t, n) ==
  /\ MayCreate(t) /\ Donors(n) = {}
  /\ stackNext + n > TibRegion
  /\ nextId' = nextId + 1
  /\ UNCHANGED <<gil, state, pc, waitVars, cnt, own, got, exitCode, runnerDone,
                 threads, stackVars, cursor, finalVars>>

Resume(t, u) ==
  /\ Trap(t) /\ u \in Known /\ state[u] = "New"
  /\ state' = [state EXCEPT ![u] = "Ready"]
  /\ pc' = [pc EXCEPT ![u] = IF @ = "parked" THEN "boot" ELSE @]
  /\ UNCHANGED <<gil, waitVars, cnt, own, got, exitCode, runnerDone, birthVars,
                 cursor, finalVars>>

RunnerPark(t) ==
  /\ t # Main /\ pc[t] = "boot" /\ gil = NoThread
  /\ state[t] = "New" /\ ~shutdown
  /\ pc' = [pc EXCEPT ![t] = "parked"]
  /\ UNCHANGED <<gil, state, waitVars, cnt, own, got, exitCode, runnerDone,
                 birthVars, cursor, finalVars>>

RunnerSpurious(t) ==
  /\ pc[t] = "parked"
  /\ pc' = [pc EXCEPT ![t] = "boot"]
  /\ UNCHANGED <<gil, state, waitVars, cnt, own, got, exitCode, runnerDone,
                 birthVars, cursor, finalVars>>

(* seed_first_run, then Running whatever the state was.                    *)
RunnerSeed(t) ==
  /\ pc[t] = "boot" /\ gil = NoThread /\ state[t] # "New" /\ ~shutdown
  /\ state' = [state EXCEPT ![t] = "Running"]
  /\ pc' = [pc EXCEPT ![t] = "guest"]
  /\ UNCHANGED <<gil, waitVars, cnt, own, got, exitCode, runnerDone, birthVars,
                 cursor, finalVars>>

RunnerAbort(t) ==
  /\ t # Main /\ pc[t] = "boot" /\ gil = NoThread /\ shutdown
  /\ state' = [state EXCEPT ![t] = "Finished"]
  /\ runnerDone' = [runnerDone EXCEPT ![t] = TRUE]
  /\ pc' = [pc EXCEPT ![t] = "gone"]
  /\ UNCHANGED <<gil, waitVars, cnt, own, got, exitCode, birthVars, cursor,
                 finalVars>>
----------------------------------------------------------------------------
(* The ways guest code ends, and finish_thread                             *)

(* The TerminateThread shim: the target is marked Finished from outside,   *)
(* with its exit code, and its joiners are notified.                       *)
Terminate(t, u) ==
  /\ Trap(t) /\ u \in Known \cap Killable /\ u # t /\ state[u] # "Finished"
  /\ state' = [state EXCEPT ![u] = "Finished"]
  /\ exitCode' = [exitCode EXCEPT ![u] = "killed"]
  /\ Notify(t)
  /\ UNCHANGED <<waitVars, cnt, own, got, runnerDone, birthVars, finalVars>>

(* exit_current, then the redirect to the sentinel.                        *)
ExitThread(t) ==
  /\ Trap(t) /\ t \in ExitCallers
  /\ exitCode' = [exitCode EXCEPT ![t] = "exit"]
  /\ pc' = [pc EXCEPT ![t] = "returned"]
  /\ UNCHANGED <<gil, state, waitVars, cnt, own, got, runnerDone, birthVars,
                 cursor, finalVars>>

(* run_guest leaves its loop: sentinel, fault, or shutdown.                *)
GuestExit(t, how) ==
  /\ pc[t] = "guest"
  /\ \/ how = "returned"
     \/ how = "faulted" /\ t \in Faulting
     \/ how = "stopped" /\ shutdown
  /\ pc' = [pc EXCEPT ![t] = how]
  /\ UNCHANGED <<gil, state, waitVars, cnt, own, got, exitCode, runnerDone,
                 birthVars, cursor, finalVars>>

Leaving(t) == pc[t] \in {"returned", "faulted", "stopped"}

(* The exit code of each: EAX at the sentinel, 0 at a shutdown, the fault. *)
EndCode == [returned |-> "returned", stopped |-> "zero", faulted |-> "fault"]

ToReap(t) ==
  /\ gil' = t
  /\ pc' = [pc EXCEPT ![t] = "reap"]
  /\ UNCHANGED <<waitVars, cnt, own, got, runnerDone, birthVars, finalVars>>

(* Already Finished: touch neither the state nor the exit code.            *)
FinishKilled(t) ==
  /\ Leaving(t) /\ gil = NoThread /\ state[t] = "Finished"
  /\ cursor' = 1
  /\ ToReap(t)
  /\ UNCHANGED <<state, exitCode>>

(* Fault: a thread that ends does not wake its joiners.                    *)
FinishSilent(t) ==
  /\ Leaving(t) /\ gil = NoThread /\ state[t] # "Finished"
  /\ exitCode' = [exitCode EXCEPT ![t] = EndCode[pc[t]]]
  /\ state' = [state EXCEPT ![t] = "Finished"]
  /\ cursor' = MaxThread + 1
  /\ ToReap(t)

FinishNormal(t) ==
  /\ Leaving(t) /\ gil = NoThread /\ state[t] # "Finished"
  /\ exitCode' = [exitCode EXCEPT ![t] = EndCode[pc[t]]]
  /\ state' = [state EXCEPT ![t] = "Finished"]
  /\ cursor' = 1
  /\ ToReap(t)

(* The fault dispatcher asks to resume (act = 1): the thread leaks, still  *)
(* Running, and nobody is polled.                                          *)
FinishLeak(t) ==
  /\ pc[t] = "faulted" /\ gil = NoThread /\ state[t] # "Finished"
  /\ cursor' = MaxThread + 1
  /\ ToReap(t)
  /\ UNCHANGED <<state, exitCode>>

(* A worker's runner() ends.                                               *)
RunnerDone(t) ==
  /\ gil = t /\ pc[t] = "reap" /\ LoopEnds /\ t # Main
  /\ runnerDone' = [runnerDone EXCEPT ![t] = TRUE]
  /\ gil' = NoThread
  /\ pc' = [pc EXCEPT ![t] = "gone"]
  /\ cursor' = 1
  /\ UNCHANGED <<state, waitVars, cnt, own, got, exitCode, birthVars, finalVars>>
----------------------------------------------------------------------------
(* Shutdown                                                                *)

(* Fault: the sleepers are not told.                                       *)
BroadcastNone(p) == p

(* pthread_cond_broadcast on every thread's cv.                            *)
Broadcast(p) == [u \in Thread |-> IF p[u] = "wait" THEN "wake"
                                  ELSE IF p[u] = "parked" THEN "boot"
                                  ELSE p[u]]

RequestShutdown(t) ==
  /\ Trap(t) /\ MayStop /\ ~shutdown
  /\ shutdown' = TRUE
  /\ pc' = Broadcast(pc)
  /\ UNCHANGED <<gil, state, waitVars, cnt, own, got, exitCode, runnerDone,
                 birthVars, cursor, joinAt, leaked>>

(* run() after main's run_guest: request_shutdown, snapshot, unlock.       *)
MainDone ==
  /\ gil = Main /\ pc[Main] = "reap" /\ LoopEnds
  /\ shutdown' = TRUE
  /\ pc' = Broadcast([pc EXCEPT ![Main] = "join"])
  /\ gil' = NoThread
  /\ cursor' = 1
  /\ UNCHANGED <<state, waitVars, cnt, own, got, exitCode, runnerDone, birthVars, joinAt, leaked>>

(* Fault: a Finished thread is not waited for.                             *)
JoinOneBrief ==
  /\ pc[Main] = "join" /\ joinAt <= MaxThread
  /\ leaked' = IF joinAt \in threads /\ state[joinAt] # "Finished"
               THEN leaked \cup {joinAt} ELSE leaked
  /\ joinAt' = joinAt + 1
  /\ UNCHANGED <<gil, state, pc, waitVars, cnt, own, got, exitCode, runnerDone,
                 birthVars, cursor, shutdown>>

(* One iteration of the bounded join: a Finished thread is joined, which   *)
(* waits for its host thread; one that is not Finished may be given up on  *)
(* (the deadline passes); main and threads without a host are skipped.     *)
JoinOne ==
  /\ pc[Main] = "join" /\ joinAt <= MaxThread
  /\ \/ /\ joinAt = Main \/ joinAt \notin threads \/ pc[joinAt] = "none"
        /\ leaked' = leaked
     \/ /\ joinAt # Main /\ joinAt \in threads
        /\ state[joinAt] = "Finished" /\ pc[joinAt] = "gone"
        /\ leaked' = leaked
     \/ /\ joinAt # Main /\ joinAt \in threads /\ pc[joinAt] # "none"
        /\ state[joinAt] # "Finished"
        /\ leaked' = leaked \cup {joinAt}
  /\ joinAt' = joinAt + 1
  /\ UNCHANGED <<gil, state, pc, waitVars, cnt, own, got, exitCode, runnerDone,
                 birthVars, cursor, shutdown>>

RunReturns ==
  /\ pc[Main] = "join" /\ joinAt > MaxThread
  /\ pc' = [pc EXCEPT ![Main] = "gone"]
  /\ UNCHANGED <<gil, state, waitVars, cnt, own, got, exitCode, runnerDone,
                 birthVars, cursor, finalVars>>
----------------------------------------------------------------------------
Signals(t) ==
  \E o \in Object : \/ SetEvent(t, o) \/ ResetEvent(t, o) \/ ReleaseMutex(t, o)
                    \/ ReleaseSemaphore(t, o)
                    \/ CritLeaveNested(t, o) \/ CritLeave(t, o)

WaitCalls(t) ==
  \/ WaitKilled(t)
  \/ \E w \in Waits : \/ WaitTake(t, w)
                      \/ \E finite \in BOOLEAN : WaitPark(t, w, finite)

Sleeping(t) ==
  \/ CondTimeout(t) \/ CondSpurious(t) \/ WaitAgain(t) \/ WaitReturn(t)

Creations(t) ==
  \E n \in StackSizes :
    \/ \E s \in Suspended, ok \in HostStarts : \/ CreateRecycled(t, s, n, ok)
                                            \/ CreateCarved(t, s, n, ok)
    \/ CreateRefused(t, n)

Runner(t) ==
  \/ RunnerPark(t) \/ RunnerSpurious(t) \/ RunnerSeed(t) \/ RunnerAbort(t)

Ends(t) ==
  \/ \E u \in Thread : Resume(t, u) \/ Terminate(t, u)
  \/ ExitThread(t) \/ RequestShutdown(t)
  \/ \E how \in {"returned", "faulted", "stopped"} : GuestExit(t, how)
  \/ FinishKilled(t) \/ FinishNormal(t) \/ FinishLeak(t) \/ RunnerDone(t)

Repoll(t) == ScanDone(t) \/ \E u \in Thread : WakeOne(t, u)

Next ==
  \/ \E t \in Thread : \/ Signals(t) \/ WaitCalls(t) \/ Sleeping(t)
                       \/ Creations(t) \/ Runner(t) \/ Ends(t) \/ Repoll(t)
  \/ MainDone \/ JoinOne \/ RunReturns

Spec == Init /\ [][Next]_vars

(* What the host promises.  A thread inside a critical section keeps       *)
(* running (weak fairness).  A thread that wants the GIL gets it if it is  *)
(* free again and again: pthread mutexes are not queues, so this is strong *)
(* fairness of each of the three places that take it.  A deadline is       *)
(* absolute: it passes even if spurious wake-ups interrupt the wait for    *)
(* ever, hence strong fairness there too; main's own steps are taken.      *)
(* Nothing is assumed of the guest: it may spin for ever or never release  *)
(* a lock; nor that the one poke of request_stop reaches a thread that     *)
(* computes (it may be lost); and no spurious wake-up has to happen.       *)
Starts(t)   == RunnerSeed(t) \/ RunnerAbort(t)
Finishes(t) == FinishKilled(t) \/ FinishNormal(t) \/ FinishLeak(t)

FairSpec ==
  /\ Spec
  /\ \A t \in Thread : /\ WF_vars(Repoll(t) \/ RunnerDone(t))
                       /\ SF_vars(CondTimeout(t))
                       /\ SF_vars(WaitAgain(t) \/ WaitReturn(t))
                       /\ SF_vars(Starts(t))
                       /\ SF_vars(Finishes(t))
  /\ WF_vars(MainDone \/ JoinOne \/ RunReturns)
----------------------------------------------------------------------------
(* Properties                                                              *)

(* The variables keep their types.                                         *)
TypeOK ==
  /\ gil \in Thread \cup {NoThread}
  /\ state \in [Thread -> States]
  /\ pc \in [Thread -> PCs]
  /\ waitObj \in [Thread -> Waits \cup {NoWait}]
  /\ request \in [Thread -> Waits \cup {NoWait}]
  /\ woken \in [Thread -> BOOLEAN]
  /\ delivered \in [Thread -> Nat]
  /\ timed \in [Thread -> BOOLEAN]
  /\ expired \in [Thread -> BOOLEAN]
  /\ cnt \in [Object -> Nat]
  /\ own \in [Object -> Thread \cup {NoThread}]
  /\ got \in [Thread -> SUBSET Tracked]
  /\ exitCode \in [Thread -> ExitCodes]
  /\ runnerDone \in [Thread -> BOOLEAN]
  /\ threads \subseteq Thread
  /\ nextId \in Nat \ {0}
  /\ base \in [Thread -> Nat]
  /\ size \in [Thread -> Nat]
  /\ stackNext \in Nat
  /\ cursor \in Nat
  /\ shutdown \in BOOLEAN
  /\ joinAt \in Nat
  /\ leaked \subseteq Thread

(* The contract of sched_native.h: "notify() after ANY Waitable mutation   *)
(* is MANDATORY -- there is no polling fallback".  Whenever the GIL is     *)
(* free, no thread is left blocked on a wait that could succeed.           *)
NoLostWakeup ==
  gil = NoThread /\ ~shutdown =>
    \A t \in Thread : state[t] = "Blocked" /\ waitObj[t] # NoWait
                        => ~CanTake(t, waitObj[t])

(* What t holds: what its guest code knows of, and what wake_check_all has *)
(* acquired on its behalf and wait_common has yet to return.               *)
Holds ==
  [t \in Thread |-> got[t] \cup (IF pc[t] \in {"wait", "wake"}
                                 THEN Outcome(t) \cap Tracked ELSE {})]

(* No signal is lost and none is counted twice: a lock's count and its     *)
(* holders always add up to what it was created with, whatever the races   *)
(* between a wake-up, a timeout, a termination and a shutdown.             *)
TokensConserved ==
  \A o \in Pool : cnt[o] + Cardinality({t \in Thread : o \in Holds[t]}) = Tokens[o]

(* A critical section is held by the thread its owner field names, and by  *)
(* no other, exactly while its recursion count is not zero.                *)
CritOwned ==
  \A o \in Object : Kind[o] = "crit" =>
    /\ \A t \in Thread : o \in Holds[t] <=> own[o] = t
    /\ own[o] = NoThread <=> cnt[o] = 0

(* A thread whose wait was granted is never left sleeping on its cv: the   *)
(* signal reached it, or it was already on its way to the GIL.             *)
GrantedIsAwake == \A t \in Thread : pc[t] = "wait" => ~woken[t] /\ ~shutdown

(* A runner that may still execute guest code owns its stack, and stacks   *)
(* owned by different threads do not overlap.                              *)
StackOwned ==
  /\ \A t \in Thread \ {Main} : pc[t] \notin {"none", "gone"} => base[t] # 0
  /\ \A t, u \in Thread : t # u /\ base[t] # 0 /\ base[u] # 0 =>
        base[t] + size[t] <= base[u] \/ base[u] + size[u] <= base[t]
  /\ \A t \in Thread : base[t] # 0 => base[t] + size[t] <= TibRegion

(* Once seeded, a thread terminated from outside is never brought back to  *)
(* life by its own wait, and its exit code changes only by its own         *)
(* ExitThread.                                                             *)
KilledStaysFinished ==
  [][\A t \in Thread :
       state[t] = "Finished" /\ pc[t] \notin {"boot", "parked"}
         => /\ state'[t] = "Finished"
            /\ exitCode'[t] # exitCode[t] => exitCode'[t] = "exit"]_vars

(* When run() returns, every runner has given up its host thread, except   *)
(* those the bounded join reported as leaked.                              *)
NoRunnerOutlivesRun ==
  pc[Main] = "gone" =>
    \A t \in threads \ leaked : pc[t] \in {"none", "gone"}

(* What sched_native.cpp says of TerminateThread (wait_common: "never      *)
(* clobber a Finished posted from OUTSIDE"): a Finished thread stays so.   *)
(* runner() does not keep this: its seeding marks the thread Running       *)
(* whatever was posted before it first took the GIL.                       *)
FinishedIsFinal ==
  [][\A t \in Thread : state[t] = "Finished" => state'[t] = "Finished"]_vars

(* What wait_common says of a killed thread ("finish_thread's              *)
(* already-Finished guard then preserves TerminateThread's exit code").    *)
(* exit_current does not keep this: it records its code in any state.      *)
KilledCodeKept ==
  [][\A t \in Thread : state[t] = "Finished" /\ exitCode[t] = "killed"
                        => exitCode'[t] = "killed"]_vars

(* A granted wait is not only recorded but comes back to its guest code.   *)
GrantReturns ==
  \A t \in Thread : (pc[t] = "wake" /\ woken[t]) ~> (pc[t] = "guest")

(* A wait with a deadline ends, whether or not anybody signals.            *)
TimedWaitEnds ==
  \A t \in Thread : (pc[t] = "wait" /\ timed[t]) ~> (pc[t] = "guest")

(* Once the shutdown is requested, run() returns: every sleeper is woken,  *)
(* and the join waits for nobody for ever, unless main or a thread marked  *)
(* Finished, whose join has no bound, computes, and signals, for ever.     *)
Awaited(t) == t = Main \/ state[t] = "Finished"
ShutdownCompletes ==
  \/ shutdown ~> (pc[Main] = "gone")
  \/ \E t \in Thread : <>[](pc[t] \in {"guest", "scan"} /\ Awaited(t))

(* wait_common and wake_check_all serve the guest exactly as the abstract  *)
(* objects do.                                                             *)
Sync == INSTANCE SyncObjects WITH holds <- Holds, fin <- Finished
ImplementsSync == Sync!Spec
============================================================================
