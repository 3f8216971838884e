----------------------------- MODULE CoopSched -----------------------------
(***************************************************************************)
(* The cooperative scheduler backend (src/runtime/sched_cooperative.cpp):  *)
(* one host thread runs every guest thread, a slice at a time.  A slice    *)
(* ends when a shim asks to yield, when the block budget expires, when     *)
(* the thread returns or faults.  Between slices run() advances the clock, *)
(* re-polls the blocked threads in creation order (pick_ready) and goes    *)
(* round robin over the ready ones.                                        *)
(*                                                                         *)
(* phase, where the host thread is:                                        *)
(*   loop   at the top of run()'s loop                                     *)
(*   wake   in pick_ready's wake-up loop, before thread `cursor'           *)
(*   run    in cpu_->run() for thread `cur'                                *)
(*   done   out of run()                                                   *)
(* A shim that blocks or yields ends the slice in its own step: the trap   *)
(* handler stops the run at once and take_yield tells it from a return.    *)
(*                                                                         *)
(* Time is kept as what is left of each deadline, which is all the code    *)
(* ever asks of virt_ms_; a deadline that has passed stays at 0.           *)
(***************************************************************************)
EXTENDS GuestSync

CONSTANTS
  RealClock,    \* BOOLEAN: set_real_clock was called
  RealExpire,   \* real_expire_
  DeferWake,    \* defer_towake_
  Timeouts,     \* finite timeouts the guest uses, in milliseconds
  MaxTick,      \* most milliseconds that pass between two slices
  Answers,      \* SUBSET {"code", "bool", "none"}: the kinds of wait used
  PinCallers,   \* threads that run a DllMain under set_no_preempt
  Killable,     \* threads the guest may TerminateThread
  ExitCallers,  \* threads that may end through ExitThread
  Faulting,     \* threads whose guest code may fault
  MayStop,      \* BOOLEAN: may a shim request the shutdown?
  SwitchCap,    \* BOOLEAN: may max_switches_ be reached?
  Suspended,    \* SUBSET BOOLEAN: values of create_thread's `suspended'
  StackSizes,   \* stack sizes asked for, in 64 KiB units (already rounded)
  StackRegion,  \* stack_region_, in the same units
  MainStack     \* [base, size] of the stack given to set_main

Main == 1
GuardUnits == 1      \* the 0x10000 left between two carved stacks

ASSUME CoopAssumption ==
  /\ RealClock \in BOOLEAN /\ RealExpire \in BOOLEAN /\ DeferWake \in BOOLEAN
  /\ Timeouts \subseteq Nat /\ MaxTick \in Nat
  /\ Answers \subseteq {"code", "bool", "none"}
  /\ PinCallers \subseteq Thread /\ Killable \subseteq Thread
  /\ ExitCallers \subseteq Thread /\ Faulting \subseteq Thread
  /\ MayStop \in BOOLEAN /\ SwitchCap \in BOOLEAN
  /\ Suspended \subseteq BOOLEAN /\ StackSizes \subseteq Nat \ {0}
  /\ StackRegion \in Nat \ {0}
  /\ MainStack.base \in Nat \ {0} /\ MainStack.size \in Nat \ {0}
  /\ MainStack.base + MainStack.size <= StackRegion

Forever == -1        \* wake_deadline = 0: no deadline
States == {"Absent", "New", "Ready", "Running", "Blocked", "Finished"}
Reasons == {"none", "all finished", "deadlock", "shutdown", "max switches"}
Replies == {"own", "placeholder", "taken", "timeout", "false"}
ExitCodes == {"unset", "returned", "fault", "killed", "exit"}

VARIABLES
  phase, cur, cursor,
  rr,          \* rr_, as a thread id
  state,       \* GuestThread::state
  waitObj,     \* GuestThread::wait_obj
  left,        \* milliseconds to GuestThread::wake_deadline
  writesEax,   \* GuestThread::wake_writes_eax
  timeoutEax,  \* GuestThread::wake_timeout_eax
  reply,       \* what the guest will read in EAX from its last wait
  asked,       \* the kind of that wait (history)
  got,         \* tracked objects the guest code of t believes it holds
  cnt, own,    \* the objects (GuestSync)
  exitCode,    \* GuestThread::exit_code
  threads,     \* ids in threads_
  base, size,  \* GuestThread::stack_base, and top - base (0 = none)
  stackNext,   \* stack_next_
  pin,         \* no_preempt_thread_, NoThread when null
  preempted,   \* preempted_last_, NoThread when null
  midway,      \* threads preempted since their last boundary (history)
  inDllMain,   \* threads between their two set_no_preempt calls (history)
  shutdown, reason

waitVars  == <<waitObj, left, writesEax, timeoutEax, reply, asked>>
objVars   == <<cnt, own, got>>
birthVars == <<threads, base, size, stackNext>>
pinVars   == <<pin, preempted, midway, inDllMain>>
endVars   == <<shutdown, reason>>
vars == <<phase, cur, cursor, rr, state, waitObj, left, writesEax, timeoutEax,
          reply, asked, got, cnt, own, exitCode, threads, base, size, stackNext,
          pin, preempted, midway, inDllMain, shutdown, reason>>

Finished == {t \in Thread : state[t] = "Finished"}

(* The scheduler before run(): nobody runs, nobody is pinned.              *)
Unstarted ==
  /\ cur = NoThread /\ rr = Main /\ stackNext = StackRegion
  /\ pin = NoThread /\ preempted = NoThread
  /\ shutdown = FALSE /\ reason = "none"

(* set_main, then run().                                                   *)
Init ==
  /\ phase = "loop" /\ cursor = 1 /\ Unstarted
  /\ state = [t \in Thread |-> IF t = Main THEN "Ready" ELSE "Absent"]
  /\ waitObj = [t \in Thread |-> NoWait]
  /\ left = [t \in Thread |-> Forever]
  /\ writesEax = [t \in Thread |-> TRUE]
  /\ timeoutEax = [t \in Thread |-> "timeout"]
  /\ reply = [t \in Thread |-> "own"]
  /\ asked = [t \in Thread |-> "none"]
  /\ got = [t \in Thread |-> {}]
  /\ cnt = Tokens
  /\ own = [o \in Object |-> NoThread]
  /\ exitCode = [t \in Thread |-> "unset"]
  /\ threads = {Main}
  /\ base = [t \in Thread |-> IF t = Main THEN MainStack.base ELSE 0]
  /\ size = [t \in Thread |-> IF t = Main THEN MainStack.size ELSE 0]
  /\ midway = {} /\ inDllMain = {}
----------------------------------------------------------------------------
(* run(): the top of the loop                                              *)

(* d milliseconds pass (sync_real_clock, and the idle warp).               *)
After(d) ==
  [t \in Thread |-> IF left[t] = Forever THEN Forever
                    ELSE IF left[t] > d THEN left[t] - d ELSE 0]

Ticks == IF RealClock THEN 0..MaxTick ELSE {0}

(* run_slice(t), up to cpu_->run().                                        *)
BeginSlice(t) ==
  /\ phase' = "run" /\ cur' = t
  /\ state' = [state EXCEPT ![t] = "Running"]

Pinned == pin # NoThread /\ state[pin] = "Ready"

(* The loader-lock pin: the pinned thread again, and nobody is polled.     *)
RunPinned ==
  /\ phase = "loop" /\ ~shutdown /\ Pinned
  /\ \E d \in Ticks : left' = After(d)
  /\ BeginSlice(pin)
  /\ UNCHANGED <<cursor, rr, waitObj, writesEax, timeoutEax, reply, asked, objVars,
                 exitCode, birthVars, pinVars, endVars>>

StartPoll ==
  /\ phase = "loop" /\ ~shutdown /\ ~Pinned
  /\ \E d \in Ticks : left' = After(d)
  /\ phase' = "wake" /\ cursor' = 1
  /\ UNCHANGED <<cur, rr, state, waitObj, writesEax, timeoutEax, reply, asked,
                 objVars, exitCode, birthVars, pinVars, endVars>>

RunStops(why) ==
  /\ phase' = "done" /\ reason' = why
  /\ UNCHANGED <<cur, cursor, rr, state, waitVars, objVars, exitCode, birthVars,
                 pinVars, shutdown>>

StopsAtTop ==
  /\ phase = "loop"
  /\ \/ shutdown /\ RunStops("shutdown")
     \/ SwitchCap /\ ~shutdown /\ RunStops("max switches")
----------------------------------------------------------------------------
(* pick_ready                                                              *)

CanTake(t, w) == CanAcquire(w, t, cnt, own, Finished)

(* Fault: a thread that ended while it waited is polled too.               *)
WaitingAny(u) == u \in threads /\ waitObj[u] # NoWait

Waiting(u) == u \in threads /\ state[u] = "Blocked" /\ waitObj[u] # NoWait

Takes(u) == Waiting(u) /\ CanTake(u, waitObj[u])

(* D2_TOWAKE_DEFER: no expiry while another thread was cut mid-way.        *)
Deferred(u) ==
  DeferWake /\ preempted \notin {NoThread, u} /\ state[preempted] = "Ready"

Expires(u) ==
  /\ Waiting(u) /\ ~CanTake(u, waitObj[u])
  /\ RealClock /\ RealExpire /\ left[u] = 0
  /\ ~Deferred(u)

Servable(u) == Takes(u) \/ Expires(u)
Reaches(u) ==
  phase = "wake" /\ u >= cursor /\ Servable(u) /\ \A v \in cursor..(u - 1) : ~Servable(v)

(* Fault: the wake-up forgets to restore the defaults of the next wait.    *)
DeliverSticky(u, r) ==
  /\ waitObj' = [waitObj EXCEPT ![u] = NoWait]
  /\ reply' = [reply EXCEPT ![u] = IF writesEax[u] THEN r ELSE @]
  /\ UNCHANGED <<writesEax, timeoutEax, asked>>

(* The wait of u is over: EAX, and the defaults of the next wait.          *)
Deliver(u, r) ==
  /\ waitObj' = [waitObj EXCEPT ![u] = NoWait]
  /\ reply' = [reply EXCEPT ![u] = IF writesEax[u] THEN r ELSE @]
  /\ writesEax' = [writesEax EXCEPT ![u] = TRUE]
  /\ timeoutEax' = [timeoutEax EXCEPT ![u] = "timeout"]
  /\ UNCHANGED asked

(* Fault: the waiter is woken on ready(), without the try_acquire.         *)
WakeUnacquired(u) ==
  /\ Reaches(u) /\ Takes(u)
  /\ got' = [got EXCEPT ![u] = @ \cup (Claimed(waitObj[u],
                Winner(waitObj[u], u, cnt, own, Finished)) \cap Tracked)]
  /\ Deliver(u, "taken")
  /\ left' = [left EXCEPT ![u] = Forever]
  /\ state' = [state EXCEPT ![u] = "Ready"]
  /\ cursor' = u + 1
  /\ UNCHANGED <<phase, cur, rr, cnt, own, exitCode, birthVars, pinVars, endVars>>

WakeSignal(u) ==
  /\ Reaches(u) /\ Takes(u)
  /\ LET S == Claimed(waitObj[u], Winner(waitObj[u], u, cnt, own, Finished))
     IN /\ cnt' = CntAfter(S, cnt)
        /\ own' = OwnAfter(S, u, own)
        /\ got' = [got EXCEPT ![u] = @ \cup (S \cap Tracked)]
  /\ Deliver(u, "taken")
  /\ left' = [left EXCEPT ![u] = Forever]
  /\ state' = [state EXCEPT ![u] = "Ready"]
  /\ cursor' = u + 1
  /\ UNCHANGED <<phase, cur, rr, exitCode, birthVars, pinVars, endVars>>

WakeExpired(u) ==
  /\ Reaches(u) /\ Expires(u)
  /\ Deliver(u, timeoutEax[u])
  /\ left' = [left EXCEPT ![u] = Forever]
  /\ state' = [state EXCEPT ![u] = "Ready"]
  /\ cursor' = u + 1
  /\ UNCHANGED <<phase, cur, rr, objVars, exitCode, birthVars, pinVars, endVars>>

Polled == phase = "wake" /\ \A v \in cursor..MaxThread : ~Servable(v)
ReadySet == {u \in threads : state[u] = "Ready"}

(* Fault: the search starts from the first thread every time.              *)
TurnFirst(u) == u

(* How far u is from the thread that ran last, going round threads_.       *)
Turn(u) == (u - rr - 1) % Cardinality(threads)

(* The first ready thread after the one that ran last.                     *)
PickNext ==
  /\ Polled
  /\ \E u \in ReadySet :
        /\ \A v \in ReadySet : Turn(u) <= Turn(v)
        /\ rr' = u
        /\ BeginSlice(u)
  /\ cursor' = 1
  /\ UNCHANGED <<waitVars, objVars, exitCode, birthVars, pinVars, endVars>>

(* Fault: without a real clock no deadline is looked for.                  *)
TimedReal == {u \in threads : RealClock /\ state[u] = "Blocked" /\ left[u] # Forever}

Timed == {u \in threads : state[u] = "Blocked" /\ left[u] # Forever}

(* Nobody is ready: time moves on to the nearest deadline (slept through   *)
(* with a real clock, which may oversleep) and that thread runs.  Between  *)
(* deadlines that have both passed, either may be taken.                   *)
PickIdle ==
  /\ Polled /\ ReadySet = {}
  /\ \E u \in Timed :
        /\ \A v \in Timed : left[u] <= left[v]
        /\ \E d \in Ticks :
              left' = [After(left[u] + d) EXCEPT ![u] = Forever]
        /\ Deliver(u, timeoutEax[u])
        /\ BeginSlice(u)
  /\ cursor' = 1
  /\ UNCHANGED <<rr, objVars, exitCode, birthVars, pinVars, endVars>>

PickNone ==
  /\ Polled /\ ReadySet = {} /\ Timed = {}
  /\ RunStops(IF threads \subseteq Finished THEN "all finished" ELSE "deadlock")
----------------------------------------------------------------------------
(* The end of a slice                                                      *)

Runs(t) == phase = "run" /\ cur = t

(* A boundary the thread chose itself: block, yield, finish.               *)
Boundary(t) ==
  /\ preempted' = IF preempted = t THEN NoThread ELSE preempted
  /\ midway' = midway \ {t}
  /\ UNCHANGED <<pin, inDllMain>>

(* The block budget expires.                                               *)
Preempt(t) ==
  /\ Runs(t)
  /\ state' = [state EXCEPT ![t] = "Ready"]
  /\ preempted' = t
  /\ midway' = midway \cup {t}
  /\ phase' = "loop"
  /\ UNCHANGED <<cur, cursor, rr, waitVars, objVars, exitCode, birthVars, pin,
                 inDllMain, endVars>>

(* A plain yield (SwitchToThread, Sleep(0)).                               *)
Yield(t) ==
  /\ Runs(t)
  /\ state' = [state EXCEPT ![t] = "Ready"]
  /\ Boundary(t)
  /\ phase' = "loop"
  /\ UNCHANGED <<cur, cursor, rr, waitVars, objVars, exitCode, birthVars, endVars>>

Ends(t, code) ==
  /\ state' = [state EXCEPT ![t] = "Finished"]
  /\ exitCode' = [exitCode EXCEPT ![t] = code]
  /\ phase' = "loop"
  /\ midway' = midway \ {t}
  /\ inDllMain' = inDllMain \ {t}
  /\ UNCHANGED <<cur, cursor, rr, waitVars, objVars, birthVars, pin, endVars>>

(* exit_current: Finished, then the yield.                                 *)
ExitThread(t) ==
  /\ Runs(t) /\ t \in ExitCallers
  /\ Ends(t, "exit")
  /\ preempted' = IF preempted = t THEN NoThread ELSE preempted

(* Back at the sentinel, or a fault nobody handles.                        *)
Returns(t) == Runs(t) /\ Ends(t, "returned") /\ UNCHANGED preempted
Faults(t)  == Runs(t) /\ t \in Faulting /\ Ends(t, "fault") /\ UNCHANGED preempted

(* The fault dispatcher answers 1: the slice is over, the thread ready.    *)
FaultResumed(t) ==
  /\ Runs(t) /\ t \in Faulting
  /\ state' = [state EXCEPT ![t] = "Ready"]
  /\ phase' = "loop"
  /\ UNCHANGED <<cur, cursor, rr, waitVars, objVars, exitCode, birthVars, pinVars,
                 endVars>>
----------------------------------------------------------------------------
(* wait, wait_noresult, wait_timeout_result                                *)

Known == threads

(* As in the other backend: handles the guest has, and no lock of Pool it  *)
(* already holds; MaxCount bounds the recursion.                           *)
MayAsk(t, w) ==
  /\ w \in Waits
  /\ \A o \in ObjsOf(w) : Kind[o] = "thread" => ThreadOf[o] \in Known
  /\ ObjsOf(w) \cap Pool \cap got[t] = {}
  /\ \A o \in ObjsOf(w) : Kind[o] = "crit" /\ own[o] = t => cnt[o] < MaxCount[o]

Direct == [code |-> "taken", bool |-> "taken", none |-> "own"]

WaitTake(t, w, kind) ==
  /\ Runs(t) /\ MayAsk(t, w) /\ kind \in Answers /\ CanTake(t, w)
  /\ LET S == Claimed(w, Winner(w, t, cnt, own, Finished))
     IN /\ cnt' = CntAfter(S, cnt)
        /\ own' = OwnAfter(S, t, own)
        /\ got' = [got EXCEPT ![t] = @ \cup (S \cap Tracked)]
  /\ reply' = [reply EXCEPT ![t] = Direct[kind]]
  /\ asked' = [asked EXCEPT ![t] = kind]
  /\ UNCHANGED <<phase, cur, cursor, rr, state, waitObj, left, writesEax,
                 timeoutEax, exitCode, birthVars, pinVars, endVars>>

Placed == [code |-> "placeholder", bool |-> "placeholder", none |-> "own"]

(* A timeout of 0 still waits one millisecond.                             *)
WaitBlock(t, w, kind, ms) ==
  /\ Runs(t) /\ MayAsk(t, w) /\ kind \in Answers /\ ~CanTake(t, w)
  /\ ms \in Timeouts \cup {Forever}
  /\ waitObj' = [waitObj EXCEPT ![t] = w]
  /\ left' = [left EXCEPT ![t] = IF ms = 0 THEN 1 ELSE ms]
  /\ state' = [state EXCEPT ![t] = "Blocked"]
  /\ writesEax' = [writesEax EXCEPT ![t] = IF kind = "none" THEN FALSE ELSE @]
  /\ timeoutEax' = [timeoutEax EXCEPT ![t] = IF kind = "bool" THEN "false" ELSE @]
  /\ reply' = [reply EXCEPT ![t] = Placed[kind]]
  /\ asked' = [asked EXCEPT ![t] = kind]
  /\ Boundary(t)
  /\ phase' = "loop"
  /\ UNCHANGED <<cur, cursor, rr, objVars, exitCode, birthVars, endVars>>
----------------------------------------------------------------------------
(* The other shims: nobody is notified, pick_ready polls                   *)

ShimFrame == UNCHANGED <<phase, cur, cursor, rr, waitVars, exitCode, endVars>>

SetEvent(t, o) ==
  /\ Runs(t) /\ o \notin Pool /\ Kind[o] \in {"auto", "manual"}
  /\ cnt' = [cnt EXCEPT ![o] = 1]
  /\ UNCHANGED <<state, own, got, birthVars, pinVars>> /\ ShimFrame

ResetEvent(t, o) ==
  /\ Runs(t) /\ o \notin Pool /\ Kind[o] \in {"auto", "manual"}
  /\ cnt' = [cnt EXCEPT ![o] = 0]
  /\ UNCHANGED <<state, own, got, birthVars, pinVars>> /\ ShimFrame

ReleaseMutex(t, o) ==
  /\ Runs(t) /\ o \in got[t] /\ Kind[o] = "auto"
  /\ cnt' = [cnt EXCEPT ![o] = 1]
  /\ got' = [got EXCEPT ![t] = @ \ {o}]
  /\ UNCHANGED <<state, own, birthVars, pinVars>> /\ ShimFrame

ReleaseSemaphore(t, o) ==
  /\ Runs(t) /\ Kind[o] = "sema"
  /\ o \in Pool => o \in got[t]
  /\ cnt[o] + 1 <= MaxCount[o]
  /\ cnt' = [cnt EXCEPT ![o] = @ + 1]
  /\ got' = [got EXCEPT ![t] = @ \ {o}]
  /\ UNCHANGED <<state, own, birthVars, pinVars>> /\ ShimFrame

CritLeave(t, o) ==
  /\ Runs(t) /\ o \in got[t] /\ Kind[o] = "crit"
  /\ cnt' = [cnt EXCEPT ![o] = @ - 1]
  /\ own' = IF cnt[o] = 1 THEN [own EXCEPT ![o] = NoThread] ELSE own
  /\ got' = IF cnt[o] = 1 THEN [got EXCEPT ![t] = @ \ {o}] ELSE got
  /\ UNCHANGED <<state, birthVars, pinVars>> /\ ShimFrame

(* set_no_preempt around a DllMain.                                        *)
PinOn(t) ==
  /\ Runs(t) /\ t \in PinCallers \ inDllMain
  /\ pin' = t /\ inDllMain' = inDllMain \cup {t}
  /\ UNCHANGED <<state, objVars, birthVars, preempted, midway>> /\ ShimFrame

PinOff(t) ==
  /\ Runs(t) /\ t \in inDllMain
  /\ pin' = NoThread /\ inDllMain' = inDllMain \ {t}
  /\ UNCHANGED <<state, objVars, birthVars, preempted, midway>> /\ ShimFrame

RequestShutdown(t) ==
  /\ Runs(t) /\ MayStop /\ ~shutdown
  /\ shutdown' = TRUE
  /\ UNCHANGED <<phase, cur, cursor, rr, state, waitVars, objVars, exitCode,
                 birthVars, pinVars, reason>>

(* The TerminateThread shim: the target never runs again.                  *)
Terminate(t, u) ==
  /\ Runs(t) /\ u \in Known \cap Killable /\ u # t /\ state[u] # "Finished"
  /\ state' = [state EXCEPT ![u] = "Finished"]
  /\ exitCode' = [exitCode EXCEPT ![u] = "killed"]
  /\ midway' = midway \ {u} /\ inDllMain' = inDllMain \ {u}
  /\ UNCHANGED <<phase, cur, cursor, rr, waitVars, objVars, birthVars, pin,
                 preempted, endVars>>
----------------------------------------------------------------------------
(* create_thread and resume                                                *)

(* Fault: a stack is taken from any thread that is not running.            *)
DonorsLive(n) == {u \in threads : base[u] # 0 /\ size[u] = n /\ state[u] # "Running"}

(* Stacks a new thread of n units may take over.                           *)
Donors(n) == {u \in threads : state[u] = "Finished" /\ base[u] # 0 /\ size[u] = n}

Newest == Cardinality(threads) + 1       \* next_id_

Create(t, suspended, n) ==
  /\ Runs(t) /\ Newest <= MaxThread
  /\ threads' = threads \cup {Newest}
  /\ state' = [state EXCEPT ![Newest] = IF suspended THEN "New" ELSE "Ready"]
  /\ \/ /\ Donors(n) = {}
        /\ base' = [base EXCEPT ![Newest] = stackNext]
        /\ size' = [size EXCEPT ![Newest] = n]
        /\ stackNext' = stackNext + n + GuardUnits
     \/ \E u \in Donors(n) :
           /\ \A v \in Donors(n) : u <= v
           /\ base' = [base EXCEPT ![Newest] = base[u], ![u] = 0]
           /\ size' = [size EXCEPT ![Newest] = n, ![u] = 0]
           /\ UNCHANGED stackNext
  /\ UNCHANGED <<objVars, pinVars>> /\ ShimFrame

Resume(t, u) ==
  /\ Runs(t) /\ u \in Known /\ state[u] = "New"
  /\ state' = [state EXCEPT ![u] = "Ready"]
  /\ UNCHANGED <<objVars, birthVars, pinVars>> /\ ShimFrame
----------------------------------------------------------------------------
Host ==
  \/ RunPinned \/ StartPoll \/ StopsAtTop \/ PickNext \/ PickIdle \/ PickNone
  \/ \E u \in Thread : WakeSignal(u) \/ WakeExpired(u)

Signals(t) ==
  \E o \in Object : \/ SetEvent(t, o) \/ ResetEvent(t, o) \/ ReleaseMutex(t, o)
                    \/ ReleaseSemaphore(t, o) \/ CritLeave(t, o)

WaitCalls(t) ==
  \E w \in Waits, kind \in Answers :
    \/ WaitTake(t, w, kind)
    \/ \E ms \in Timeouts \cup {Forever} : WaitBlock(t, w, kind, ms)

SliceEnds(t) ==
  \/ Preempt(t) \/ Yield(t) \/ ExitThread(t) \/ Returns(t) \/ Faults(t) \/ FaultResumed(t)

OtherShims(t) ==
  \/ PinOn(t) \/ PinOff(t) \/ RequestShutdown(t)
  \/ \E u \in Thread : Terminate(t, u) \/ Resume(t, u)

Guest(t) ==
  \/ SliceEnds(t) \/ Signals(t) \/ WaitCalls(t) \/ OtherShims(t)
  \/ \E s \in Suspended, n \in StackSizes : Create(t, s, n)

Next == Host \/ \E t \in Thread : Guest(t)

Spec == Init /\ [][Next]_vars

(* The host thread keeps running; the block budget ends a slice that does  *)
(* nothing else; a real clock moves on between slices.                     *)
TimePasses == (RunPinned \/ StartPoll) /\ \A t \in Timed : left[t] > 0 => left'[t] < left[t]

FairSpec ==
  /\ Spec
  /\ WF_vars(Host)
  /\ \A t \in Thread : WF_vars(Preempt(t))
  /\ RealClock => SF_vars(TimePasses)
----------------------------------------------------------------------------
(* Properties                                                              *)

(* The variables keep their types.                                         *)
TypeOK ==
  /\ phase \in {"loop", "wake", "run", "done"}
  /\ cur \in Thread \cup {NoThread} /\ cursor \in Nat /\ rr \in Thread
  /\ state \in [Thread -> States]
  /\ waitObj \in [Thread -> Waits \cup {NoWait}]
  /\ left \in [Thread -> Nat \cup {Forever}]
  /\ writesEax \in [Thread -> BOOLEAN]
  /\ timeoutEax \in [Thread -> {"timeout", "false"}]
  /\ reply \in [Thread -> Replies]
  /\ asked \in [Thread -> {"code", "bool", "none"}]
  /\ got \in [Thread -> SUBSET Tracked]
  /\ cnt \in [Object -> Nat]
  /\ own \in [Object -> Thread \cup {NoThread}]
  /\ exitCode \in [Thread -> ExitCodes]
  /\ threads \subseteq Thread
  /\ base \in [Thread -> Nat] /\ size \in [Thread -> Nat] /\ stackNext \in Nat
  /\ pin \in Thread \cup {NoThread} /\ preempted \in Thread \cup {NoThread}
  /\ midway \subseteq Thread /\ inDllMain \subseteq Thread
  /\ shutdown \in BOOLEAN /\ reason \in Reasons

(* The value a wait returns is one that wait may return: never the         *)
(* placeholder of the blocked path, a GetQueuedCompletionStatus that times *)
(* out never reads WAIT_TIMEOUT (TRUE: a phantom completion packet), and a *)
(* wait_noresult leaves the value its shim already returned.               *)
Fits == [code |-> {"taken", "timeout"}, bool |-> {"taken", "false"}, none |-> {"own"}]

ReplyFits ==
  \A t \in threads : state[t] \in {"Ready", "Running"} =>
    reply[t] \in Fits[asked[t]]

(* run() reports a deadlock, or that all is finished, only when no thread  *)
(* can ever go on.                                                         *)
StopsWhenStuck ==
  reason \in {"deadlock", "all finished"} =>
    \A t \in threads :
      \/ state[t] \in {"Finished", "New"}
      \/ /\ state[t] = "Blocked" /\ left[t] = Forever /\ ~CanTake(t, waitObj[t])
         /\ reason = "deadlock"

(* A thread that may still run owns its stack, and stacks owned by         *)
(* different threads do not overlap.                                       *)
StackOwned ==
  /\ \A t \in threads : state[t] # "Finished" => base[t] # 0
  /\ \A t, u \in Thread : t # u /\ base[t] # 0 /\ base[u] # 0 =>
        base[t] + size[t] <= base[u] \/ base[u] + size[u] <= base[t]

(* A Finished thread stays so, with the exit code it was given first: what *)
(* the native backend only keeps past the seeding of a thread.             *)
FinishedStays ==
  \A t \in Thread : state[t] = "Finished" =>
        state'[t] = "Finished" /\ exitCode'[t] = exitCode[t]

(* A thread cut by its time slice in a DllMain (and not by a wait it asked *)
(* for there) is the next one to run.                                      *)
PinKept ==
  \A t \in inDllMain \cap midway :
    phase # "run" /\ phase' = "run" /\ cur = t /\ state[t] = "Ready" => cur' = t

EndedAndPinned == [][FinishedStays /\ PinKept]_vars

(* sched_cooperative.h of D2_TOWAKE_DEFER: "while a thread was             *)
(* BUDGET-preempted mid-computation and has not yet reached a voluntary    *)
(* boundary (block/yield/finish), do not deliver timed-wait EXPIRY wakes   *)
(* to other threads".  preempted_last_ remembers only the last one.        *)
DeferredToBoundary ==
  [][\A t \in Thread : state[t] = "Blocked" /\ state'[t] = "Ready"
        /\ reply'[t] \in {"timeout", "false"} => midway \ {t} = {}]_vars

(* No ready thread waits for ever for its turn, unless a DllMain or the    *)
(* shutdown holds the others back.                                         *)
ReadyRuns ==
  \A t \in Thread :
    state[t] = "Ready" ~> \/ state[t] # "Ready" \/ inDllMain # {} \/ phase = "done"

(* With a real clock a timed wait ends although other threads never block. *)
TimedWaitEnds ==
  \A t \in Thread :
    state[t] = "Blocked" /\ left[t] # Forever
      ~> \/ state[t] # "Blocked" \/ inDllMain # {} \/ phase = "done"

(* The cooperative backend, too, serves the guest exactly as the abstract  *)
(* objects do.                                                             *)
Sync == INSTANCE SyncObjects WITH holds <- got, fin <- Finished
ImplementsSync == Sync!Spec
============================================================================
