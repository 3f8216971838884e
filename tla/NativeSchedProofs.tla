------------------------- MODULE NativeSchedProofs -------------------------
(* Theorems about NativeSched, for every instance of its constants: its    *)
(* type invariant, and the safety invariants its runs check on small       *)
(* instances.                                                              *)
EXTENDS NativeSched, TLAPS
----------------------------------------------------------------------------
(* Waits and acquisitions: the operators of SyncObjects are this module's, *)
(* so what it shows of them holds here.                                    *)
LEMMA SameWaits ==
  /\ Sync!Thread = Thread /\ Sync!NoThread = NoThread
  /\ \A o, t, c, n, f : Sync!IsReady(o, t, c, n, f) <=> IsReady(o, t, c, n, f)
  /\ \A w : Sync!ObjsOf(w) = ObjsOf(w)
  /\ \A w, t, c, n, f : Sync!CanAcquire(w, t, c, n, f) <=> CanAcquire(w, t, c, n, f)
  /\ \A w, t, c, n, f : Sync!Winner(w, t, c, n, f) = Winner(w, t, c, n, f)
  /\ \A w, i : Sync!Claimed(w, i) = Claimed(w, i)
  /\ \A S, c : Sync!CntAfter(S, c) = CntAfter(S, c)
  /\ \A S, t, n : Sync!OwnAfter(S, t, n) = OwnAfter(S, t, n)
<1>1. Sync!Thread = Thread /\ Sync!NoThread = NoThread
  BY DEF Sync!Thread, Thread, Sync!NoThread, NoThread
<1>2. \A o, t, c, n, f : Sync!IsReady(o, t, c, n, f) <=> IsReady(o, t, c, n, f)
  BY DEF Sync!IsReady, IsReady, Sync!NoThread, NoThread
<1>3. \A w : Sync!ObjsOf(w) = ObjsOf(w)
  BY DEF Sync!ObjsOf, ObjsOf
<1>4. \A w, t, c, n, f : Sync!CanAcquire(w, t, c, n, f) <=> CanAcquire(w, t, c, n, f)
  BY <1>2 DEF Sync!CanAcquire, CanAcquire
<1>5. ASSUME NEW w, NEW t, NEW c, NEW n, NEW f
      PROVE  Sync!Winner(w, t, c, n, f) = Winner(w, t, c, n, f)
  BY DEF Sync!Winner, Winner, Sync!IsReady, IsReady, Sync!NoThread, NoThread
<1>6. \A w, i : Sync!Claimed(w, i) = Claimed(w, i)
  BY DEF Sync!Claimed, Claimed, Sync!ObjsOf, ObjsOf
<1>7. \A S, c : Sync!CntAfter(S, c) = CntAfter(S, c)
  BY DEF Sync!CntAfter, CntAfter, Sync!Consume, Consume
<1>8. \A S, t, n : Sync!OwnAfter(S, t, n) = OwnAfter(S, t, n)
  BY DEF Sync!OwnAfter, OwnAfter
<1> QED  BY <1>1, <1>2, <1>3, <1>4, <1>5, <1>6, <1>7, <1>8

(* The objects of a wait are objects, and a wait is not the null wait;     *)
LEMMA WaitObjects ==
  ASSUME NEW w \in Waits
  PROVE  /\ ObjsOf(w) \subseteq Object /\ w # NoWait
         /\ DOMAIN w.objs \subseteq Nat /\ 1 \in DOMAIN w.objs
<1>1. Sync!NoWait = NoWait /\ Sync!Kinds = Kinds
  BY DEF Sync!NoWait, NoWait, Sync!Kinds, Kinds
<1> QED  BY <1>1, Sync!WaitObjects, SameWaits, GuestSyncAssumption

(* a wait that can be satisfied is satisfied by objects that are ready;    *)
LEMMA WinnerReady ==
  ASSUME NEW w \in Waits, NEW t, NEW c, NEW n, NEW f, CanAcquire(w, t, c, n, f)
  PROVE  /\ Winner(w, t, c, n, f) \in DOMAIN w.objs
         /\ \A o \in Claimed(w, Winner(w, t, c, n, f)) :
               o \in ObjsOf(w) /\ IsReady(o, t, c, n, f)
<1>1. Sync!Kinds = Kinds
  BY DEF Sync!Kinds, Kinds
<1> QED  BY <1>1, Sync!WinnerReady, SameWaits, GuestSyncAssumption

(* acquiring leaves counts natural and owners threads;                     *)
LEMMA AcquireType ==
  ASSUME NEW w \in Waits, NEW t \in Thread, NEW c \in [Object -> Nat],
         NEW n \in [Object -> Thread \cup {NoThread}], NEW f, CanAcquire(w, t, c, n, f),
         NEW S, S = Claimed(w, Winner(w, t, c, n, f))
  PROVE  /\ CntAfter(S, c) \in [Object -> Nat]
         /\ OwnAfter(S, t, n) \in [Object -> Thread \cup {NoThread}]
         /\ S \subseteq Object /\ Winner(w, t, c, n, f) \in Nat
<1>1. Sync!Kinds = Kinds /\ t \in Sync!Thread
      /\ n \in [Object -> Sync!Thread \cup {Sync!NoThread}]
      /\ Sync!CanAcquire(w, t, c, n, f) /\ S = Sync!Claimed(w, Sync!Winner(w, t, c, n, f))
  BY SameWaits DEF Sync!Kinds, Kinds
<1>2. /\ Sync!CntAfter(S, c) \in [Object -> Nat]
      /\ Sync!OwnAfter(S, t, n) \in [Object -> Sync!Thread \cup {Sync!NoThread}]
      /\ S \subseteq Object /\ Sync!Winner(w, t, c, n, f) \in Nat
  BY <1>1, Sync!AcquireType, GuestSyncAssumption
<1> QED  BY <1>2, SameWaits

(* nothing becomes ready for another thread when t acquires;               *)
LEMMA AcquireTakes ==
  ASSUME NEW t \in Thread, NEW u \in Thread, u # t,
         NEW c \in [Object -> Nat], NEW n, NEW f, NEW S, NEW o \in Object,
         IsReady(o, u, CntAfter(S, c), OwnAfter(S, t, n), f),
         \A p \in S : IsReady(p, t, c, n, f)
  PROVE  IsReady(o, u, c, n, f)
<1>1. Sync!Kinds = Kinds /\ t \in Sync!Thread /\ u \in Sync!Thread
      /\ Sync!IsReady(o, u, Sync!CntAfter(S, c), Sync!OwnAfter(S, t, n), f)
      /\ \A p \in S : Sync!IsReady(p, t, c, n, f)
  BY SameWaits DEF Sync!Kinds, Kinds
<1>2. Sync!IsReady(o, u, c, n, f)
  BY <1>1, Sync!AcquireTakes, GuestSyncAssumption
<1> QED  BY <1>2, SameWaits

(* and a wait cannot be satisfied if none of its objects became ready.     *)
LEMMA StillBlocked ==
  ASSUME NEW w \in Waits, NEW u, NEW c, NEW n, NEW f, NEW c2, NEW n2, NEW f2,
         ~CanAcquire(w, u, c, n, f),
         \A o \in ObjsOf(w) : IsReady(o, u, c2, n2, f2) => IsReady(o, u, c, n, f)
  PROVE  ~CanAcquire(w, u, c2, n2, f2)
<1>1. Sync!Kinds = Kinds
  BY DEF Sync!Kinds, Kinds
<1> QED  BY <1>1, Sync!StillBlocked, SameWaits, GuestSyncAssumption
----------------------------------------------------------------------------
(* Type correctness                                                        *)

(* What the assumptions say of the constants.                              *)
LEMMA ConstantTypes ==
  /\ Main \in Thread /\ NoThread \notin Thread /\ Thread \subseteq Nat \ {0}
  /\ Tokens \in [Object -> Nat]
  /\ StackSizes \subseteq Nat \ {0} /\ StackRegion \in Nat \ {0}
  /\ TibRegion \in Nat /\ MaxThread \in Nat
BY GuestSyncAssumption, NativeAssumption DEF Thread, Main, NoThread

(* The types hold initially.                                               *)
LEMMA TypeInit == Init => TypeOK
<1> SUFFICES ASSUME Init
             PROVE  TypeOK
  OBVIOUS
<1>1. /\ woken \in [Thread -> BOOLEAN] /\ timed \in [Thread -> BOOLEAN]
      /\ expired \in [Thread -> BOOLEAN] /\ runnerDone \in [Thread -> BOOLEAN]
      /\ shutdown \in BOOLEAN
  BY DEF Init, NewRunner
<1>2. nextId \in Nat \ {0} /\ joinAt \in Nat /\ cursor \in Nat
  BY DEF Init, NewRunner, Main
<1>3. /\ gil \in Thread \cup {NoThread} /\ state \in [Thread -> States]
      /\ pc \in [Thread -> PCs] /\ exitCode \in [Thread -> ExitCodes]
      /\ threads \subseteq Thread /\ leaked \subseteq Thread
  BY ConstantTypes DEF Init, NewRunner, States, PCs, ExitCodes
<1> QED  BY <1>1, <1>2, <1>3, ConstantTypes DEF Init, NewRunner, TypeOK

(* A broadcast moves threads between positions.                            *)
LEMMA BroadcastType ==
  ASSUME NEW p \in [Thread -> PCs]
  PROVE  Broadcast(p) \in [Thread -> PCs]
BY DEF Broadcast, PCs

(* What an acquisition on behalf of u writes has the right types.          *)
LEMMA TakeType ==
  ASSUME TypeOK, NEW u \in Thread, NEW w \in Waits, CanTake(u, w),
         NEW S, S = Claimed(w, WinnerOf(u, w))
  PROVE  /\ CntAfter(S, cnt) \in [Object -> Nat]
         /\ OwnAfter(S, u, own) \in [Object -> Thread \cup {NoThread}]
         /\ S \subseteq Object
         /\ WinnerOf(u, w) \in Nat
BY AcquireType DEF TypeOK, CanTake, WinnerOf

(* The shims that signal keep the types, and so do                         *)
LEMMA TypeSignals ==
  ASSUME TypeOK, NEW t \in Thread, Signals(t)
  PROVE  TypeOK'
<1> USE DEF TypeOK, Trap, Notify, PCs, waitVars, birthVars, finalVars
<1>1. PICK o \in Object : \/ SetEvent(t, o) \/ ResetEvent(t, o)
                          \/ ReleaseMutex(t, o) \/ ReleaseSemaphore(t, o)
                          \/ CritLeaveNested(t, o) \/ CritLeave(t, o)
  BY DEF Signals
<1>2. CASE SetEvent(t, o)         BY <1>2 DEF SetEvent
<1>3. CASE ResetEvent(t, o)       BY <1>3 DEF ResetEvent
<1>4. CASE ReleaseMutex(t, o)     BY <1>4 DEF ReleaseMutex
<1>5. CASE ReleaseSemaphore(t, o) BY <1>5 DEF ReleaseSemaphore
<1>6. CASE CritLeaveNested(t, o)  BY <1>6 DEF CritLeaveNested
<1>7. CASE CritLeave(t, o)        BY <1>7 DEF CritLeave
<1> QED  BY <1>1, <1>2, <1>3, <1>4, <1>5, <1>6, <1>7

(* the wait shims,                                                         *)
LEMMA TypeWaitCalls ==
  ASSUME TypeOK, NEW t \in Thread, WaitCalls(t)
  PROVE  TypeOK'
<1>1. CASE WaitKilled(t)
  BY <1>1 DEF WaitKilled, TypeOK, PCs, waitVars, birthVars, finalVars
<1>2. ASSUME NEW w \in Waits, WaitTake(t, w)
      PROVE  TypeOK'
  <2> DEFINE S == Claimed(w, WinnerOf(t, w))
  <2>1. CanTake(t, w)
    BY <1>2 DEF WaitTake
  <2>2. /\ cnt' = CntAfter(S, cnt)
        /\ own' = OwnAfter(S, t, own)
        /\ got' = [got EXCEPT ![t] = @ \cup (S \cap Tracked)]
    BY <1>2 DEF WaitTake
  <2>3. /\ CntAfter(S, cnt) \in [Object -> Nat]
        /\ OwnAfter(S, t, own) \in [Object -> Thread \cup {NoThread}]
    BY <2>1, TakeType
  <2> HIDE DEF S
  <2> QED  BY <1>2, <2>2, <2>3
           DEF WaitTake, TypeOK, waitVars, birthVars, finalVars
<1>3. ASSUME NEW w \in Waits, NEW finite \in BOOLEAN, WaitPark(t, w, finite)
      PROVE  TypeOK'
  BY <1>3 DEF WaitPark, TypeOK, PCs, States, birthVars, finalVars
<1> QED  BY <1>1, <1>2, <1>3 DEF WaitCalls

(* what happens to a sleeping thread,                                      *)
LEMMA TypeSleeping ==
  ASSUME TypeOK, NEW t \in Thread, Sleeping(t)
  PROVE  TypeOK'
<1> USE DEF TypeOK, PCs, States, waitVars, birthVars, finalVars
<1>1. CASE CondTimeout(t)   BY <1>1 DEF CondTimeout
<1>2. CASE CondSpurious(t)  BY <1>2 DEF CondSpurious
<1>3. CASE WaitAgain(t)     BY <1>3 DEF WaitAgain
<1>4. CASE WaitReturn(t)    BY <1>4 DEF WaitReturn
<1> QED  BY <1>1, <1>2, <1>3, <1>4 DEF Sleeping

(* the look at the objects after it,                                       *)
LEMMA TypeRepoll ==
  ASSUME TypeOK, NEW t \in Thread, Repoll(t)
  PROVE  TypeOK'
<1>1. CASE ScanDone(t)
  BY <1>1, ConstantTypes
     DEF ScanDone, TypeOK, PCs, waitVars, birthVars, finalVars
<1>2. ASSUME NEW u \in Thread, WakeOne(t, u)
      PROVE  TypeOK'
  <2> DEFINE w == waitObj[u]
             S == Claimed(w, WinnerOf(u, w))
  <2>1. w \in Waits /\ CanTake(u, w)
    BY <1>2 DEF WakeOne, Reaches, Pollable, TypeOK
  <2>2. /\ cnt' = CntAfter(S, cnt)
        /\ own' = OwnAfter(S, u, own)
        /\ delivered' = [delivered EXCEPT ![u] = WinnerOf(u, w)]
    BY <1>2 DEF WakeOne
  <2>3. /\ CntAfter(S, cnt) \in [Object -> Nat]
        /\ OwnAfter(S, u, own) \in [Object -> Thread \cup {NoThread}]
        /\ WinnerOf(u, w) \in Nat
    BY <2>1, TakeType
  <2> HIDE DEF S, w
  <2> QED  BY <1>2, <2>2, <2>3, ConstantTypes
           DEF WakeOne, TypeOK, PCs, birthVars, finalVars
<1> QED  BY <1>1, <1>2 DEF Repoll

(* (the least thread of a set is in it)                                    *)
LEMMA FirstOfMember ==
  ASSUME NEW S \in SUBSET Thread, S # {}
  PROVE  FirstOf(S) \in S
<1>1. \E u \in S : \A v \in S : u <= v
  <2>1. Sync!Kinds = Kinds /\ S \subseteq Nat
    BY ConstantTypes DEF Sync!Kinds, Kinds
  <2> QED  BY <2>1, Sync!LeastNat, GuestSyncAssumption
<1> QED  BY <1>1 DEF FirstOf

(* thread creation,                                                        *)
LEMMA TypeCreations ==
  ASSUME TypeOK, NEW t \in Thread, Creations(t)
  PROVE  TypeOK'
<1>0. PICK n \in StackSizes :
        \/ \E s \in Suspended, ok \in HostStarts : \/ CreateRecycled(t, s, n, ok)
                                                \/ CreateCarved(t, s, n, ok)
        \/ CreateRefused(t, n)
  BY DEF Creations
<1>1. n \in Nat /\ GuardUnits \in Nat
  BY ConstantTypes DEF GuardUnits
<1>2. MayCreate(t) => nextId \in Thread
  BY ConstantTypes, GuestSyncAssumption DEF MayCreate, TypeOK, Thread
<1>3. ASSUME NEW s \in Suspended, NEW ok \in HostStarts, Born(t, nextId, s, ok),
             base' \in [Thread -> Nat], size' \in [Thread -> Nat],
             stackNext' \in Nat, nextId \in Thread
      PROVE  TypeOK'
  BY <1>3 DEF Born, TypeOK, PCs, States, waitVars, finalVars
<1>4. ASSUME NEW s \in Suspended, NEW ok \in HostStarts, CreateRecycled(t, s, n, ok)
      PROVE  TypeOK'
  <2>1. nextId \in Thread /\ Born(t, nextId, s, ok) /\ stackNext' = stackNext
    BY <1>2, <1>4 DEF CreateRecycled
  <2>2. base' \in [Thread -> Nat] /\ size' \in [Thread -> Nat]
    <3>1. PICK u : u = FirstOf(Donors(n))
      OBVIOUS
    <3>2. u \in Thread
      <4>1. Donors(n) # {} /\ Donors(n) \subseteq Thread
        BY <1>4 DEF CreateRecycled, Donors, TypeOK
      <4> QED  BY <3>1, <4>1, FirstOfMember
    <3>3. /\ base' = [base EXCEPT ![nextId] = base[u], ![u] = 0]
          /\ size' = [size EXCEPT ![nextId] = n, ![u] = 0]
      BY <1>4, <3>1 DEF CreateRecycled
    <3> QED  BY <1>1, <2>1, <3>2, <3>3 DEF TypeOK
  <2> QED  BY <1>3, <2>1, <2>2 DEF TypeOK
<1>5. ASSUME NEW s \in Suspended, NEW ok \in HostStarts, CreateCarved(t, s, n, ok)
      PROVE  TypeOK'
  <2>1. nextId \in Thread /\ Born(t, nextId, s, ok)
    BY <1>2, <1>5 DEF CreateCarved
  <2>2. /\ base' \in [Thread -> Nat] /\ size' \in [Thread -> Nat]
        /\ stackNext' \in Nat
    BY <1>1, <1>5, <2>1 DEF CreateCarved, TypeOK
  <2> QED  BY <1>3, <2>1, <2>2
<1>6. CASE CreateRefused(t, n)
  BY <1>6 DEF CreateRefused, TypeOK, stackVars, waitVars, finalVars
<1> QED  BY <1>0, <1>4, <1>5, <1>6

(* the runner's start,                                                     *)
LEMMA TypeRunner ==
  ASSUME TypeOK, NEW t \in Thread, Runner(t)
  PROVE  TypeOK'
<1> USE DEF TypeOK, PCs, States, waitVars, birthVars, finalVars
<1>1. CASE RunnerPark(t)      BY <1>1 DEF RunnerPark
<1>2. CASE RunnerSpurious(t)  BY <1>2 DEF RunnerSpurious
<1>3. CASE RunnerSeed(t)      BY <1>3 DEF RunnerSeed
<1>4. CASE RunnerAbort(t)     BY <1>4 DEF RunnerAbort
<1> QED  BY <1>1, <1>2, <1>3, <1>4 DEF Runner

(* the ends of a thread,                                                   *)
LEMMA TypeEnds ==
  ASSUME TypeOK, NEW t \in Thread, Ends(t)
  PROVE  TypeOK'
<1> USE ConstantTypes DEF TypeOK, PCs, States, ExitCodes, Trap, Notify, ToReap,
        waitVars, birthVars, finalVars
<1>1. ASSUME NEW u \in Thread, Resume(t, u)
      PROVE  TypeOK'
  BY <1>1 DEF Resume
<1>2. ASSUME NEW u \in Thread, Terminate(t, u)
      PROVE  TypeOK'
  BY <1>2 DEF Terminate
<1>3. CASE ExitThread(t)       BY <1>3 DEF ExitThread
<1>4. CASE RequestShutdown(t)  BY <1>4, BroadcastType DEF RequestShutdown
<1>5. ASSUME NEW how \in {"returned", "faulted", "stopped"}, GuestExit(t, how)
      PROVE  TypeOK'
  BY <1>5 DEF GuestExit
<1>6. CASE FinishKilled(t)     BY <1>6 DEF FinishKilled
<1>7. CASE FinishNormal(t)     BY <1>7 DEF FinishNormal, Leaving, EndCode
<1>8. CASE FinishLeak(t)       BY <1>8 DEF FinishLeak
<1>9. CASE RunnerDone(t)       BY <1>9 DEF RunnerDone
<1> QED
  BY <1>1, <1>2, <1>3, <1>4, <1>5, <1>6, <1>7, <1>8, <1>9 DEF Ends

(* and the end of run.                                                     *)
LEMMA TypeRun ==
  ASSUME TypeOK, MainDone \/ JoinOne \/ RunReturns
  PROVE  TypeOK'
<1> USE ConstantTypes DEF TypeOK, PCs, waitVars, birthVars, finalVars
<1>1. CASE MainDone    BY <1>1, BroadcastType DEF MainDone
<1>2. CASE JoinOne
  <2>1. joinAt' \in Nat
    BY <1>2 DEF JoinOne
  <2>2. leaked' \subseteq Thread
    BY <1>2 DEF JoinOne
  <2> QED  BY <1>2, <2>1, <2>2 DEF JoinOne
<1>3. CASE RunReturns  BY <1>3 DEF RunReturns
<1> QED  BY <1>1, <1>2, <1>3

(* Every variable keeps its type, whatever the instance.                   *)
THEOREM TypeCorrect == Spec => []TypeOK
<1>1. TypeOK /\ [Next]_vars => TypeOK'
  <2> SUFFICES ASSUME TypeOK, [Next]_vars
               PROVE  TypeOK'
    OBVIOUS
  <2>1. CASE UNCHANGED vars
    BY <2>1 DEF vars, TypeOK
  <2>2. CASE Next
    BY <2>2, TypeSignals, TypeWaitCalls, TypeSleeping, TypeCreations,
       TypeRunner, TypeEnds, TypeRepoll, TypeRun DEF Next
  <2> QED  BY <2>1, <2>2
<1> QED  BY <1>1, TypeInit, PTL DEF Spec
----------------------------------------------------------------------------
(* No wake-up is lost                                                      *)
(*                                                                         *)
(* NoLostWakeup speaks of the states where the GIL is free.  What makes it *)
(* hold is what is true in the middle of wake_check_all: every waiter      *)
(* before the cursor has been looked at since the last change, and what    *)
(* the scan itself does can only make objects less ready for the others.   *)

Served(u) ==
  state[u] = "Blocked" /\ waitObj[u] # NoWait => ~CanTake(u, waitObj[u])

(* Only a thread inside wait_common has a wait_obj.                        *)
WaitPlace ==
  \A t \in Thread : waitObj[t] # NoWait => pc[t] \in {"wait", "wake"}

(* Ids are not reused, and a thread that is not created has no past.       *)
Fresh ==
  \A u \in Thread :
    /\ u \in threads => u < nextId
    /\ u \notin threads => /\ state[u] = "Absent" /\ pc[u] = "none"
                          /\ base[u] = 0 /\ ~runnerDone[u]

(* The thread handles that are waited for are handles of created threads.  *)
HandlesKnown ==
  \A t \in Thread : waitObj[t] # NoWait =>
    \A o \in ObjsOf(waitObj[t]) : Kind[o] = "thread" => ThreadOf[o] \in threads

Scanned ==
  ~shutdown => \A u \in Thread : gil = NoThread \/ u < cursor => Served(u)

WakeInv == WaitPlace /\ Fresh /\ HandlesKnown /\ Scanned

(* A creation touches one thread, and that thread was not created before.  *)
LEMMA CreationEffect ==
  ASSUME TypeOK, Fresh, NEW t \in Thread, Creations(t)
  PROVE  /\ UNCHANGED <<waitObj, exitCode, shutdown, joinAt, leaked>>
         /\ \/ UNCHANGED <<state, pc, threads>>
            \/ /\ nextId \in Thread \ threads /\ nextId # Main /\ ~shutdown
               /\ threads' = threads \cup {nextId}
               /\ pc'[nextId] \in {"boot", "none"}
               /\ \A u \in Thread \ {nextId} :
                     state'[u] = state[u] /\ pc'[u] = pc[u]
<1> USE ConstantTypes DEF TypeOK
<1>1. CASE \E n \in StackSizes : CreateRefused(t, n)
  BY <1>1 DEF CreateRefused, finalVars, waitVars
<1>2. ASSUME NEW s \in Suspended, NEW ok \in HostStarts, MayCreate(t),
             Born(t, nextId, s, ok)
      PROVE  /\ UNCHANGED <<waitObj, exitCode, shutdown, joinAt, leaked>>
             /\ nextId \in Thread \ threads /\ nextId # Main /\ ~shutdown
             /\ threads' = threads \cup {nextId}
             /\ pc'[nextId] \in {"boot", "none"}
             /\ \A u \in Thread \ {nextId} :
                   state'[u] = state[u] /\ pc'[u] = pc[u]
  <2>1. pc[t] = "guest" /\ ~shutdown /\ nextId <= MaxThread
    BY <1>2 DEF MayCreate, Trap
  <2>2. t \in threads /\ t < nextId
    BY <2>1 DEF Fresh
  <2>3. nextId \in Thread \ threads /\ nextId # Main
    BY <2>1, <2>2 DEF Fresh, Thread, Main
  <2>4. UNCHANGED <<waitObj, exitCode, shutdown, joinAt, leaked>>
    BY <1>2 DEF Born, finalVars, waitVars
  <2>5. /\ threads' = threads \cup {nextId}
        /\ \A u \in Thread \ {nextId} : state'[u] = state[u] /\ pc'[u] = pc[u]
    BY <1>2 DEF Born
  <2>6. pc'[nextId] \in {"boot", "none"}
    BY <1>2, <2>3 DEF Born
  <2> QED  BY <2>1, <2>3, <2>4, <2>5, <2>6
<1>3. CASE \E n \in StackSizes, s \in Suspended, ok \in HostStarts :
             CreateRecycled(t, s, n, ok) \/ CreateCarved(t, s, n, ok)
  BY <1>2, <1>3 DEF CreateRecycled, CreateCarved
<1> QED  BY <1>1, <1>3 DEF Creations

(* wait_obj is set only inside wait_common.                                *)
LEMMA WaitPlaceStep ==
  ASSUME TypeOK, Fresh, WaitPlace, [Next]_vars
  PROVE  WaitPlace'
<1> USE ConstantTypes DEF TypeOK, WaitPlace, Trap, Notify, waitVars
<1>1. CASE UNCHANGED vars
  BY <1>1 DEF vars
<1>2. ASSUME NEW t \in Thread, Signals(t)
      PROVE  WaitPlace'
  BY <1>2 DEF Signals, SetEvent, ResetEvent, ReleaseMutex, ReleaseSemaphore,
              CritLeaveNested, CritLeave
<1>3. ASSUME NEW t \in Thread, WaitCalls(t)
      PROVE  WaitPlace'
  BY <1>3 DEF WaitCalls, WaitKilled, WaitTake, WaitPark
<1>4. ASSUME NEW t \in Thread, Sleeping(t)
      PROVE  WaitPlace'
  BY <1>4 DEF Sleeping, CondTimeout, CondSpurious, WaitAgain, WaitReturn
<1>5. ASSUME NEW t \in Thread, Repoll(t)
      PROVE  WaitPlace'
  BY <1>5 DEF Repoll, ScanDone, WakeOne
<1>6. ASSUME NEW t \in Thread, Creations(t)
      PROVE  WaitPlace'
  BY <1>6, CreationEffect DEF Fresh
<1>7. ASSUME NEW t \in Thread, Runner(t)
      PROVE  WaitPlace'
  BY <1>7 DEF Runner, RunnerPark, RunnerSpurious, RunnerSeed, RunnerAbort
<1>8. ASSUME NEW t \in Thread, Ends(t)
      PROVE  WaitPlace'
  <2>1. CASE RequestShutdown(t)
    BY <2>1 DEF RequestShutdown, Broadcast
  <2>2. CASE \E u \in Thread : Resume(t, u) \/ Terminate(t, u)
    BY <2>2 DEF Resume, Terminate
  <2>3. CASE \/ ExitThread(t) \/ RunnerDone(t)
             \/ \E how \in {"returned", "faulted", "stopped"} : GuestExit(t, how)
    BY <2>3 DEF ExitThread, GuestExit, RunnerDone
  <2>4. CASE FinishKilled(t) \/ FinishNormal(t) \/ FinishLeak(t)
    BY <2>4 DEF FinishKilled, FinishNormal, FinishLeak, Leaving, ToReap
  <2> QED  BY <1>8, <2>1, <2>2, <2>3, <2>4 DEF Ends
<1>9. CASE MainDone \/ JoinOne \/ RunReturns
  BY <1>9 DEF MainDone, JoinOne, RunReturns, Broadcast
<1> QED
  BY <1>1, <1>2, <1>3, <1>4, <1>5, <1>6, <1>7, <1>8, <1>9 DEF Next

(* Ids not yet given belong to nobody.                                     *)
LEMMA FreshStep ==
  ASSUME TypeOK, Fresh, [Next]_vars
  PROVE  Fresh'
<1> USE ConstantTypes DEF TypeOK, Fresh, Trap, Notify, birthVars
<1>1. CASE UNCHANGED vars
  BY <1>1 DEF vars, birthVars
<1>2. ASSUME NEW t \in Thread, Signals(t)
      PROVE  Fresh'
  BY <1>2 DEF Signals, SetEvent, ResetEvent, ReleaseMutex, ReleaseSemaphore,
              CritLeaveNested, CritLeave
<1>3. ASSUME NEW t \in Thread, WaitCalls(t)
      PROVE  Fresh'
  BY <1>3 DEF WaitCalls, WaitKilled, WaitTake, WaitPark
<1>4. ASSUME NEW t \in Thread, Sleeping(t)
      PROVE  Fresh'
  BY <1>4 DEF Sleeping, CondTimeout, CondSpurious, WaitAgain, WaitReturn
<1>5. ASSUME NEW t \in Thread, Repoll(t)
      PROVE  Fresh'
  BY <1>5 DEF Repoll, ScanDone, WakeOne
<1>6. ASSUME NEW t \in Thread, Creations(t)
      PROVE  Fresh'
  <2>1. PICK n \in StackSizes :
          \/ \E s \in Suspended, ok \in HostStarts : \/ CreateRecycled(t, s, n, ok)
                                                  \/ CreateCarved(t, s, n, ok)
          \/ CreateRefused(t, n)
    BY <1>6 DEF Creations
  <2>2. CASE CreateRefused(t, n)
    BY <2>2 DEF CreateRefused, stackVars
  <2>3. ASSUME NEW s \in Suspended, NEW ok \in HostStarts, CreateCarved(t, s, n, ok)
        PROVE  Fresh'
    BY <2>3 DEF CreateCarved, Born, MayCreate
  <2>4. ASSUME NEW s \in Suspended, NEW ok \in HostStarts, CreateRecycled(t, s, n, ok)
        PROVE  Fresh'
    <3>1. FirstOf(Donors(n)) \in threads
      <4>1. Donors(n) # {}
        BY <2>4 DEF CreateRecycled
      <4>2. Donors(n) \subseteq threads /\ threads \subseteq Thread
        BY DEF Donors
      <4> HIDE DEF TypeOK, Fresh
      <4> QED  BY <4>1, <4>2, FirstOfMember
    <3>2. /\ threads' = threads \cup {nextId} /\ nextId' = nextId + 1
          /\ runnerDone' = runnerDone
          /\ \A u \in Thread \ {nextId} : state'[u] = state[u] /\ pc'[u] = pc[u]
      BY <2>4 DEF CreateRecycled, Born
    <3>3. base' = [base EXCEPT ![nextId] = base[FirstOf(Donors(n))],
                               ![FirstOf(Donors(n))] = 0]
      BY <2>4 DEF CreateRecycled
    <3>4. ASSUME NEW u \in Thread \ threads'
          PROVE  base'[u] = 0
      <4>1. u \notin threads /\ u # nextId
        BY <3>2
      <4> HIDE DEF TypeOK, Fresh
      <4>2. base'[u] = base[u]
        BY <3>1, <3>3, <4>1 DEF TypeOK
      <4> QED  BY <4>1, <4>2 DEF Fresh
    <3> QED  BY <3>2, <3>4
  <2> QED  BY <2>1, <2>2, <2>3, <2>4
<1>7. ASSUME NEW t \in Thread, Runner(t)
      PROVE  Fresh'
  BY <1>7 DEF Runner, RunnerPark, RunnerSpurious, RunnerSeed, RunnerAbort
<1>8. ASSUME NEW t \in Thread, Ends(t)
      PROVE  Fresh'
  <2>1. CASE RequestShutdown(t)
    BY <2>1 DEF RequestShutdown, Broadcast
  <2>2. CASE \E u \in Thread : Resume(t, u) \/ Terminate(t, u)
    <3>1. PICK u \in threads : Resume(t, u) \/ Terminate(t, u)
      BY <2>2 DEF Resume, Terminate, Known
    <3>2. CASE Resume(t, u)
      BY <3>1, <3>2 DEF Resume
    <3>3. CASE Terminate(t, u)
      BY <3>1, <3>3 DEF Terminate
    <3> QED  BY <3>1, <3>2, <3>3
  <2>3. CASE \/ ExitThread(t) \/ RunnerDone(t)
             \/ \E how \in {"returned", "faulted", "stopped"} : GuestExit(t, how)
    BY <2>3 DEF ExitThread, GuestExit, RunnerDone
  <2>4. CASE FinishKilled(t) \/ FinishNormal(t) \/ FinishLeak(t)
    BY <2>4 DEF FinishKilled, FinishNormal, FinishLeak, Leaving, ToReap
  <2> QED  BY <1>8, <2>1, <2>2, <2>3, <2>4 DEF Ends
<1>9. CASE MainDone \/ JoinOne \/ RunReturns
  BY <1>9 DEF MainDone, JoinOne, RunReturns, Broadcast
<1> QED
  BY <1>1, <1>2, <1>3, <1>4, <1>5, <1>6, <1>7, <1>8, <1>9 DEF Next

(* Every handle is of a thread that was made.                              *)
LEMMA HandlesKnownStep ==
  ASSUME TypeOK, HandlesKnown, [Next]_vars
  PROVE  HandlesKnown'
<1>1. threads \subseteq threads'
  BY DEF Next, vars, birthVars, Signals, SetEvent, ResetEvent, ReleaseMutex,
         ReleaseSemaphore, CritLeaveNested, CritLeave, WaitCalls, WaitKilled,
         WaitTake, WaitPark, Sleeping, CondTimeout, CondSpurious, WaitAgain,
         WaitReturn, Repoll, ScanDone, WakeOne, Creations, CreateRecycled,
         CreateCarved, CreateRefused, Born, Runner, RunnerPark, RunnerSpurious,
         RunnerSeed, RunnerAbort, Ends, Resume, Terminate, ExitThread,
         RequestShutdown, GuestExit, FinishKilled, FinishNormal, FinishLeak,
         ToReap, RunnerDone, MainDone, JoinOne, RunReturns
<1>2. ASSUME NEW u \in Thread
      PROVE  \/ waitObj'[u] = waitObj[u] \/ waitObj'[u] = NoWait
             \/ \E w \in Waits, finite \in BOOLEAN :
                   WaitPark(u, w, finite) /\ waitObj'[u] = w
  BY DEF TypeOK, Next, vars, waitVars, Signals, SetEvent, ResetEvent, ReleaseMutex,
         ReleaseSemaphore, CritLeaveNested, CritLeave, WaitCalls, WaitKilled,
         WaitTake, WaitPark, Sleeping, CondTimeout, CondSpurious, WaitAgain,
         WaitReturn, Repoll, ScanDone, WakeOne, Creations, CreateRecycled,
         CreateCarved, CreateRefused, Born, Runner, RunnerPark, RunnerSpurious,
         RunnerSeed, RunnerAbort, Ends, Resume, Terminate, ExitThread,
         RequestShutdown, GuestExit, FinishKilled, FinishNormal, FinishLeak,
         ToReap, RunnerDone, MainDone, JoinOne, RunReturns
<1> QED
  BY <1>1, <1>2 DEF HandlesKnown, WaitPark, MayAsk, Known

(* A waiter that was looked at stays so while nothing becomes readier.     *)
LEMMA ServedKept ==
  ASSUME TypeOK, NEW u \in Thread, Served(u),
         state'[u] = state[u] \/ state'[u] # "Blocked",
         waitObj'[u] = waitObj[u] \/ waitObj'[u] = NoWait,
         \A o \in Object : waitObj[u] # NoWait /\ o \in ObjsOf(waitObj[u]) /\
            IsReady(o, u, cnt', own', Finished') => IsReady(o, u, cnt, own, Finished)
  PROVE  Served(u)'
<1> SUFFICES ASSUME state'[u] = "Blocked", waitObj'[u] # NoWait
             PROVE  ~CanTake(u, waitObj[u])'
  BY DEF Served
<1>1. /\ waitObj'[u] = waitObj[u] /\ waitObj[u] \in Waits
      /\ ~CanAcquire(waitObj[u], u, cnt, own, Finished)
  BY DEF Served, TypeOK, CanTake
<1>2. ~CanAcquire(waitObj[u], u, cnt', own', Finished')
  BY <1>1, StillBlocked, WaitObjects
<1> QED  BY <1>1, <1>2 DEF CanTake

(* The GIL is kept and the scan starts over, or nothing a waiter depends   *)
(* on has changed.                                                         *)
LEMMA ScanRestarts ==
  ASSUME TypeOK, gil' \in Thread, cursor' = 1
  PROVE  Scanned'
BY ConstantTypes DEF Scanned

(* A step that leaves the scan alone and unserves nobody keeps it.         *)
LEMMA ScanUntouched ==
  ASSUME TypeOK, Scanned, shutdown' = shutdown, gil' = gil, cursor' = cursor,
         \A u \in Thread : Served(u) => Served(u)'
  PROVE  Scanned'
BY DEF Scanned

(* Who is served stays so if waits and objects stay.                       *)
LEMMA ServedSame ==
  ASSUME UNCHANGED <<state, waitObj, cnt, own>>, NEW u \in Thread, Served(u)
  PROVE  Served(u)'
BY DEF Served, CanTake, Finished

(* A shim that signals starts the scan at the first thread.                *)
LEMMA ScannedSignals ==
  ASSUME TypeOK, Scanned, NEW t \in Thread, Signals(t)
  PROVE  Scanned'
<1>1. PICK o \in Object : \/ SetEvent(t, o) \/ ResetEvent(t, o)
                          \/ ReleaseMutex(t, o) \/ ReleaseSemaphore(t, o)
                          \/ CritLeaveNested(t, o) \/ CritLeave(t, o)
  BY DEF Signals
<1>2. CASE \/ SetEvent(t, o) \/ ReleaseMutex(t, o) \/ ReleaseSemaphore(t, o)
           \/ CritLeave(t, o)
  BY <1>2, ScanRestarts
     DEF SetEvent, ReleaseMutex, ReleaseSemaphore, CritLeave, Notify
<1>3. CASE ResetEvent(t, o) \/ CritLeaveNested(t, o)
  <2>1. /\ UNCHANGED <<gil, cursor, shutdown, state, waitObj, own>>
        /\ \/ cnt' = [cnt EXCEPT ![o] = 0]
           \/ cnt' = [cnt EXCEPT ![o] = @ - 1] /\ Kind[o] = "crit"
    BY <1>3 DEF ResetEvent, CritLeaveNested, waitVars, finalVars
  <2>2. \A p \in Object, u \in Thread :
          IsReady(p, u, cnt', own', Finished') => IsReady(p, u, cnt, own, Finished)
    BY <2>1 DEF IsReady, Finished, TypeOK
  <2> QED  BY <2>1, <2>2, ServedKept, ScanUntouched
<1> QED  BY <1>1, <1>2, <1>3

(* A take makes nothing ready for others; who parks cannot be served.       *)
LEMMA ScannedWaitCalls ==
  ASSUME TypeOK, WaitPlace, Scanned, NEW t \in Thread, WaitCalls(t)
  PROVE  Scanned'
<1>1. CASE WaitKilled(t)
  BY <1>1, ServedSame, ScanUntouched DEF WaitKilled, waitVars, finalVars
<1>2. ASSUME NEW w \in Waits, WaitTake(t, w)
      PROVE  Scanned'
  <2> DEFINE S == Claimed(w, WinnerOf(t, w))
  <2>1. /\ UNCHANGED <<gil, cursor, shutdown, state, waitObj>>
        /\ cnt' = CntAfter(S, cnt) /\ own' = OwnAfter(S, t, own)
        /\ CanTake(t, w) /\ pc[t] = "guest"
    BY <1>2 DEF WaitTake, Trap, waitVars, finalVars
  <2>2. \A p \in S : IsReady(p, t, cnt, own, Finished)
    BY <2>1, WinnerReady DEF CanTake, WinnerOf
  <2>3. Finished' = Finished
    BY <2>1 DEF Finished
  <2> HIDE DEF S
  <2>4. ASSUME NEW u \in Thread, Served(u)
        PROVE  Served(u)'
    <3>1. CASE u = t
      <4>1. waitObj'[u] = NoWait
        BY <2>1, <3>1 DEF WaitPlace
      <4> QED  BY <4>1 DEF Served
    <3>2. CASE u # t
      <4>1. \A o \in Object :
              IsReady(o, u, cnt', own', Finished') => IsReady(o, u, cnt, own, Finished)
        BY <2>1, <2>2, <2>3, <3>2, AcquireTakes DEF TypeOK
      <4> QED  BY <2>1, <2>4, <4>1, ServedKept
    <3> QED  BY <3>1, <3>2
  <2> QED  BY <2>1, <2>4, ScanUntouched
<1>3. ASSUME NEW w \in Waits, NEW finite \in BOOLEAN, WaitPark(t, w, finite)
      PROVE  Scanned'
  <2>1. /\ UNCHANGED <<gil, cursor, shutdown, cnt, own>>
        /\ gil = NoThread /\ ~shutdown
        /\ waitObj' = [waitObj EXCEPT ![t] = w]
        /\ state' = [state EXCEPT ![t] = "Blocked"]
        /\ ~CanTake(t, w) /\ state[t] # "Finished"
    BY <1>3 DEF WaitPark, Trap, finalVars
  <2>2. Finished' = Finished
    BY <2>1 DEF Finished, TypeOK
  <2>3. ASSUME NEW u \in Thread
        PROVE  Served(u)'
    <3>1. CASE u = t
      BY <2>1, <2>2, <3>1 DEF Served, CanTake, TypeOK
    <3>2. CASE u # t
      BY <2>1, <2>2, <3>2 DEF Scanned, Served, CanTake, TypeOK
    <3> QED  BY <3>1, <3>2
  <2> QED  BY <2>3 DEF Scanned
<1> QED  BY <1>1, <1>2, <1>3 DEF WaitCalls

(* A sleeping thread changes no object.                                    *)
LEMMA ScannedSleeping ==
  ASSUME TypeOK, Scanned, NEW t \in Thread, Sleeping(t)
  PROVE  Scanned'
<1>1. CASE CondTimeout(t) \/ CondSpurious(t) \/ WaitAgain(t)
  BY <1>1, ServedSame, ScanUntouched
     DEF CondTimeout, CondSpurious, WaitAgain, waitVars, finalVars
<1>2. CASE WaitReturn(t)
  <2>1. /\ UNCHANGED <<gil, cursor, shutdown, cnt, own>>
        /\ waitObj' = [waitObj EXCEPT ![t] = NoWait]
        /\ state' = [state EXCEPT ![t] = IF @ = "Blocked" THEN "Running" ELSE @]
    BY <1>2 DEF WaitReturn, finalVars
  <2>2. Finished' = Finished
    BY <2>1 DEF Finished, TypeOK
  <2>3. \A u \in Thread : Served(u) => Served(u)'
    BY <2>1, <2>2 DEF Served, CanTake, TypeOK
  <2> QED  BY <2>1, <2>3, ScanUntouched
<1> QED  BY <1>1, <1>2 DEF Sleeping

(* A scan that has reached its end has served every waiter.                *)
LEMMA ScanEnd ==
  ASSUME TypeOK, Fresh, Scanned, ~shutdown, LoopEnds, NEW u \in Thread
  PROVE  Served(u)
<1>1. CASE u < cursor
  BY <1>1 DEF Scanned
<1>2. CASE ~(u < cursor)
  <2>1. u \in cursor..MaxThread
    BY <1>2, ConstantTypes DEF TypeOK, Thread
  <2>2. ~Pollable(u)
    BY <2>1 DEF LoopEnds
  <2> QED  BY <2>2 DEF Pollable, Served, Fresh
<1> QED  BY <1>1, <1>2

(* What it then takes makes nothing ready for the others.                  *)
LEMMA ScannedRepoll ==
  ASSUME TypeOK, Fresh, Scanned, NEW t \in Thread, Repoll(t)
  PROVE  Scanned'
<1>1. CASE ScanDone(t)
  <2>1. /\ LoopEnds
        /\ UNCHANGED <<shutdown, state, waitObj, cnt, own>>
    BY <1>1 DEF ScanDone, waitVars, finalVars
  <2> QED  BY <2>1, ScanEnd, ServedSame DEF Scanned
<1>2. ASSUME NEW u \in Thread, WakeOne(t, u)
      PROVE  Scanned'
  <2> DEFINE w == waitObj[u]
             S == Claimed(w, WinnerOf(u, w))
  <2>1. /\ UNCHANGED <<gil, shutdown, state>>
        /\ cnt' = CntAfter(S, cnt) /\ own' = OwnAfter(S, u, own)
        /\ waitObj' = [waitObj EXCEPT ![u] = NoWait]
        /\ cursor' = u + 1 /\ gil = t
        /\ w \in Waits /\ CanTake(u, w)
    BY <1>2 DEF WakeOne, Reaches, Pollable, TypeOK, finalVars
  <2>2. \A p \in S : IsReady(p, u, cnt, own, Finished)
    BY <2>1, WinnerReady DEF CanTake, WinnerOf
  <2>3. Finished' = Finished
    BY <2>1 DEF Finished
  <2> HIDE DEF S
  <2>4. ASSUME ~shutdown, NEW v \in Thread, v < cursor'
        PROVE  Served(v)'
    <3>1. CASE v = u
      <4>1. waitObj'[v] = NoWait
        BY <2>1, <3>1 DEF TypeOK
      <4> QED  BY <4>1 DEF Served
    <3>2. CASE v # u
      <4>1. v < u
        BY <2>1, <2>4, <3>2, ConstantTypes
      <4>2. Served(v)
        <5>1. CASE v < cursor
          BY <2>4, <5>1 DEF Scanned
        <5>2. CASE ~(v < cursor)
          <6>1. v \in cursor..(u - 1)
            BY <4>1, <5>2, ConstantTypes DEF TypeOK
          <6> QED  BY <1>2, <6>1 DEF WakeOne, Reaches, Pollable, Served, Fresh
        <5> QED  BY <5>1, <5>2
      <4>3. \A o \in Object :
              IsReady(o, v, cnt', own', Finished') => IsReady(o, v, cnt, own, Finished)
        BY <2>1, <2>2, <2>3, <3>2, AcquireTakes DEF TypeOK
      <4> QED  BY <2>1, <3>2, <4>2, <4>3, ServedKept
    <3> QED  BY <3>1, <3>2
  <2> QED  BY <2>1, <2>4, ConstantTypes DEF Scanned, TypeOK
<1> QED  BY <1>1, <1>2 DEF Repoll

(* A thread is born with nobody waiting for it.                            *)
LEMMA ScannedBorn ==
  ASSUME TypeOK, WaitPlace, Fresh, HandlesKnown, Scanned, NEW t \in Thread,
         NEW s \in BOOLEAN, NEW ok \in BOOLEAN, MayCreate(t),
         Born(t, nextId, s, ok)
  PROVE  Scanned'
<1>1. nextId \in Thread /\ nextId \notin threads /\ pc[nextId] = "none"
  BY ConstantTypes DEF MayCreate, TypeOK, Fresh, Thread
<1>2. /\ UNCHANGED <<gil, cursor, shutdown, waitObj, cnt, own>>
      /\ \E v \in States : state' = [state EXCEPT ![nextId] = v]
  BY DEF Born, waitVars, finalVars, States
<1>3. waitObj[nextId] = NoWait
  BY <1>1 DEF WaitPlace
<1>4. ASSUME NEW u \in Thread, Served(u)
      PROVE  Served(u)'
  <2>1. CASE waitObj[u] = NoWait
    BY <1>2, <2>1 DEF Served
  <2>2. CASE waitObj[u] # NoWait
    <3>1. u # nextId
      BY <1>3, <2>2
    <3>2. \A o \in ObjsOf(waitObj[u]) :
            Kind[o] = "thread" => ThreadOf[o] # nextId
      BY <1>1, <2>2 DEF HandlesKnown
    <3>3. \A o \in ObjsOf(waitObj[u]) :
            IsReady(o, u, cnt', own', Finished') => IsReady(o, u, cnt, own, Finished)
      BY <1>1, <1>2, <3>2 DEF IsReady, Finished, TypeOK
    <3> QED  BY <1>2, <1>4, <3>1, <3>3, ServedKept DEF TypeOK
  <2> QED  BY <2>1, <2>2
<1> QED  BY <1>2, <1>4, ScanUntouched

(* A new thread waits for nothing.                                         *)
LEMMA ScannedCreations ==
  ASSUME TypeOK, WaitPlace, Fresh, HandlesKnown, Scanned, NEW t \in Thread,
         Creations(t)
  PROVE  Scanned'
<1>1. CASE \E n \in StackSizes : CreateRefused(t, n)
  BY <1>1, ServedSame, ScanUntouched DEF CreateRefused, waitVars, finalVars
<1>2. CASE \E n \in StackSizes, s \in Suspended, ok \in HostStarts :
             CreateRecycled(t, s, n, ok) \/ CreateCarved(t, s, n, ok)
  <2>1. PICK s \in Suspended, ok \in HostStarts :
          MayCreate(t) /\ Born(t, nextId, s, ok)
    BY <1>2 DEF CreateRecycled, CreateCarved
  <2>2. s \in BOOLEAN /\ ok \in BOOLEAN
    BY NativeAssumption
  <2> QED  BY <2>1, <2>2, ScannedBorn
<1> QED  BY <1>1, <1>2 DEF Creations

(* Nor does one that starts.                                               *)
LEMMA ScannedRunner ==
  ASSUME TypeOK, Scanned, NEW t \in Thread, Runner(t)
  PROVE  Scanned'
<1>1. CASE RunnerPark(t) \/ RunnerSpurious(t)
  BY <1>1, ServedSame, ScanUntouched
     DEF RunnerPark, RunnerSpurious, waitVars, finalVars
<1>2. CASE RunnerAbort(t)
  BY <1>2 DEF RunnerAbort, Scanned, finalVars
<1>3. CASE RunnerSeed(t)
  <2>1. /\ UNCHANGED <<gil, cursor, shutdown, waitObj, cnt, own>>
        /\ state' = [state EXCEPT ![t] = "Running"]
    BY <1>3 DEF RunnerSeed, waitVars, finalVars
  <2>2. \A u \in Thread, o \in Object :
          IsReady(o, u, cnt', own', Finished') => IsReady(o, u, cnt, own, Finished)
    BY <2>1 DEF IsReady, Finished, TypeOK
  <2>3. \A u \in Thread : state'[u] = state[u] \/ state'[u] # "Blocked"
    BY <2>1 DEF TypeOK
  <2> QED  BY <2>1, <2>2, <2>3, ServedKept, ScanUntouched
<1> QED  BY <1>1, <1>2, <1>3 DEF Runner

(* An end is scanned for like a signal.                                    *)
LEMMA ScannedEnds ==
  ASSUME TypeOK, Fresh, Scanned, NEW t \in Thread, Ends(t)
  PROVE  Scanned'
<1>1. ASSUME NEW u \in Thread, Resume(t, u)
      PROVE  Scanned'
  <2>1. /\ UNCHANGED <<gil, cursor, shutdown, waitObj, cnt, own>>
        /\ state[u] = "New" /\ state' = [state EXCEPT ![u] = "Ready"]
    BY <1>1 DEF Resume, waitVars, finalVars
  <2>2. Finished' = Finished
    BY <2>1 DEF Finished, TypeOK
  <2>3. \A v \in Thread : state'[v] = state[v] \/ state'[v] # "Blocked"
    BY <2>1 DEF TypeOK
  <2> QED  BY <2>1, <2>2, <2>3, ServedKept, ScanUntouched
<1>2. CASE \/ \E u \in Thread : Terminate(t, u)
           \/ FinishKilled(t) \/ FinishNormal(t)
  BY <1>2, ScanRestarts
     DEF Terminate, Notify, FinishKilled, FinishNormal, ToReap
<1>3. CASE ExitThread(t)
  BY <1>3, ServedSame, ScanUntouched DEF ExitThread, waitVars, finalVars
<1>4. ASSUME NEW how \in {"returned", "faulted", "stopped"}, GuestExit(t, how)
      PROVE  Scanned'
  BY <1>4, ServedSame, ScanUntouched DEF GuestExit, waitVars, finalVars
<1>5. CASE RequestShutdown(t)
  BY <1>5 DEF RequestShutdown, Scanned
<1>6. CASE FinishLeak(t)
  BY <1>6, ServedSame DEF FinishLeak, ToReap, Scanned, waitVars, finalVars
<1>7. CASE RunnerDone(t)
  <2>1. /\ LoopEnds
        /\ UNCHANGED <<shutdown, state, waitObj, cnt, own>>
    BY <1>7 DEF RunnerDone, waitVars, finalVars
  <2> QED  BY <2>1, ScanEnd, ServedSame DEF Scanned
<1> QED  BY <1>1, <1>2, <1>3, <1>4, <1>5, <1>6, <1>7 DEF Ends

(* The end of run keeps what was scanned.                                  *)
LEMMA ScannedRun ==
  ASSUME TypeOK, Scanned, MainDone \/ JoinOne \/ RunReturns
  PROVE  Scanned'
<1>1. CASE MainDone
  BY <1>1 DEF MainDone, Scanned
<1>2. CASE JoinOne \/ RunReturns
  BY <1>2, ServedSame, ScanUntouched
     DEF JoinOne, RunReturns, waitVars, finalVars
<1> QED  BY <1>1, <1>2

(* The scan invariant holds initially,                                     *)
LEMMA WakeInvInit == Init => WakeInv
BY ConstantTypes
   DEF Init, NewRunner, WakeInv, WaitPlace, Fresh, HandlesKnown, Scanned, Served

(* and every step keeps it.                                                *)
LEMMA WakeInvStep ==
  ASSUME TypeOK, WakeInv, [Next]_vars
  PROVE  WakeInv'
<1> USE DEF WakeInv
<1>1. WaitPlace' /\ Fresh' /\ HandlesKnown'
  BY WaitPlaceStep, FreshStep, HandlesKnownStep
<1>2. Scanned'
  <2>1. CASE UNCHANGED vars
    BY <2>1, ServedSame, ScanUntouched DEF vars
  <2>2. CASE Next
    BY <2>2, ScannedSignals, ScannedWaitCalls, ScannedSleeping,
       ScannedRepoll, ScannedCreations, ScannedRunner, ScannedEnds,
       ScannedRun DEF Next
  <2> QED  BY <2>1, <2>2
<1> QED  BY <1>1, <1>2

(* The invariant of wake_check_all, for the proofs that build on it.       *)
THEOREM WakeCorrect == Spec => []WakeInv
<1>1. TypeOK /\ WakeInv /\ [Next]_vars => WakeInv'
  BY WakeInvStep
<1> QED  BY <1>1, WakeInvInit, TypeCorrect, PTL DEF Spec

(* Every notify is enough: with the GIL free, no thread of any instance is *)
(* blocked on a wait that could succeed.                                   *)
THEOREM NothingLost == Spec => []NoLostWakeup
<1>1. WakeInv => NoLostWakeup
  BY DEF WakeInv, Scanned, Served, NoLostWakeup
<1> QED  BY <1>1, WakeCorrect, PTL
----------------------------------------------------------------------------
(* A granted thread is awake                                               *)

(* A grant wakes whom it grants.                                           *)
LEMMA AwakeStep ==
  ASSUME TypeOK, GrantedIsAwake, [Next]_vars
  PROVE  GrantedIsAwake'
<1> USE ConstantTypes
    DEF TypeOK, GrantedIsAwake, Trap, Notify, waitVars, finalVars
<1>1. CASE UNCHANGED vars
  BY <1>1 DEF vars
<1>2. ASSUME NEW t \in Thread, Signals(t)
      PROVE  GrantedIsAwake'
  BY <1>2 DEF Signals, SetEvent, ResetEvent, ReleaseMutex, ReleaseSemaphore,
              CritLeaveNested, CritLeave
<1>3. ASSUME NEW t \in Thread, WaitCalls(t)
      PROVE  GrantedIsAwake'
  BY <1>3 DEF WaitCalls, WaitKilled, WaitTake, WaitPark
<1>4. ASSUME NEW t \in Thread, Sleeping(t)
      PROVE  GrantedIsAwake'
  BY <1>4 DEF Sleeping, CondTimeout, CondSpurious, WaitAgain, WaitReturn,
              LeavesWait
<1>5. ASSUME NEW t \in Thread, Repoll(t)
      PROVE  GrantedIsAwake'
  BY <1>5 DEF Repoll, ScanDone, WakeOne
<1>6. ASSUME NEW t \in Thread, Creations(t)
      PROVE  GrantedIsAwake'
  <2>1. /\ UNCHANGED <<woken, shutdown>>
        /\ \A u \in Thread : pc'[u] = "wait" => pc[u] = "wait"
    BY <1>6 DEF Creations, CreateRecycled, CreateCarved, CreateRefused, Born
  <2> QED  BY <2>1
<1>7. ASSUME NEW t \in Thread, Runner(t)
      PROVE  GrantedIsAwake'
  BY <1>7 DEF Runner, RunnerPark, RunnerSpurious, RunnerSeed, RunnerAbort
<1>8. ASSUME NEW t \in Thread, Ends(t)
      PROVE  GrantedIsAwake'
  <2>1. CASE RequestShutdown(t)
    BY <2>1 DEF RequestShutdown, Broadcast
  <2>2. CASE \E u \in Thread : Resume(t, u) \/ Terminate(t, u)
    BY <2>2 DEF Resume, Terminate
  <2>3. CASE \/ ExitThread(t) \/ RunnerDone(t)
             \/ \E how \in {"returned", "faulted", "stopped"} : GuestExit(t, how)
    BY <2>3 DEF ExitThread, GuestExit, RunnerDone
  <2>4. CASE FinishKilled(t) \/ FinishNormal(t) \/ FinishLeak(t)
    BY <2>4 DEF FinishKilled, FinishNormal, FinishLeak, Leaving, ToReap
  <2> QED  BY <1>8, <2>1, <2>2, <2>3, <2>4 DEF Ends
<1>9. CASE MainDone \/ JoinOne \/ RunReturns
  BY <1>9 DEF MainDone, JoinOne, RunReturns, Broadcast
<1> QED
  BY <1>1, <1>2, <1>3, <1>4, <1>5, <1>6, <1>7, <1>8, <1>9 DEF Next

(* No thread sleeps on a wait that wake_check_all has granted, nor through *)
(* a shutdown.                                                             *)
THEOREM GrantsWake == Spec => []GrantedIsAwake
<1>1. Init => GrantedIsAwake
  BY ConstantTypes DEF Init, NewRunner, GrantedIsAwake
<1>2. TypeOK /\ GrantedIsAwake /\ [Next]_vars => GrantedIsAwake'
  BY AwakeStep
<1> QED  BY <1>1, <1>2, TypeCorrect, PTL DEF Spec
----------------------------------------------------------------------------
(* What every step does to the positions and the stacks                    *)

(* Only create_thread touches the stacks or gives a thread without a host  *)
(* a position, and only with the GIL free and no shutdown.                 *)
LEMMA Positions ==
  ASSUME TypeOK, Fresh, [Next]_vars
  PROVE  \/ /\ UNCHANGED <<threads, nextId, base, size, stackNext>>
            /\ \A t \in Thread : pc[t] \in {"none", "gone"} => pc'[t] = pc[t]
         \/ \E t \in Thread : Creations(t)
<1> USE ConstantTypes DEF TypeOK, Trap, Notify, birthVars, stackVars
<1>1. CASE UNCHANGED vars
  BY <1>1 DEF vars
<1>2. ASSUME NEW t \in Thread,
             Signals(t) \/ WaitCalls(t) \/ Sleeping(t) \/ Repoll(t) \/ Runner(t)
      PROVE  /\ UNCHANGED <<threads, nextId, base, size, stackNext>>
             /\ \A u \in Thread : pc[u] \in {"none", "gone"} => pc'[u] = pc[u]
  <2>1. CASE Signals(t)
    BY <2>1 DEF Signals, SetEvent, ResetEvent, ReleaseMutex, ReleaseSemaphore,
                CritLeaveNested, CritLeave
  <2>2. CASE WaitCalls(t)
    BY <2>2 DEF WaitCalls, WaitKilled, WaitTake, WaitPark
  <2>3. CASE Sleeping(t)
    BY <2>3 DEF Sleeping, CondTimeout, CondSpurious, WaitAgain, WaitReturn
  <2>4. CASE Repoll(t)
    BY <2>4 DEF Repoll, ScanDone, WakeOne
  <2>5. CASE Runner(t)
    BY <2>5 DEF Runner, RunnerPark, RunnerSpurious, RunnerSeed, RunnerAbort
  <2> QED  BY <1>2, <2>1, <2>2, <2>3, <2>4, <2>5
<1>3. ASSUME NEW t \in Thread, Ends(t)
      PROVE  /\ UNCHANGED <<threads, nextId, base, size, stackNext>>
             /\ \A u \in Thread : pc[u] \in {"none", "gone"} => pc'[u] = pc[u]
  <2>1. CASE RequestShutdown(t)
    BY <2>1 DEF RequestShutdown, Broadcast
  <2>2. CASE \E u \in Thread : Resume(t, u) \/ Terminate(t, u)
    BY <2>2 DEF Resume, Terminate
  <2>3. CASE \/ ExitThread(t) \/ RunnerDone(t)
             \/ \E how \in {"returned", "faulted", "stopped"} : GuestExit(t, how)
    BY <2>3 DEF ExitThread, GuestExit, RunnerDone
  <2>4. CASE FinishKilled(t) \/ FinishNormal(t) \/ FinishLeak(t)
    BY <2>4 DEF FinishKilled, FinishNormal, FinishLeak, Leaving, ToReap
  <2> QED  BY <1>3, <2>1, <2>2, <2>3, <2>4 DEF Ends
<1>4. CASE MainDone \/ JoinOne \/ RunReturns
  BY <1>4 DEF MainDone, JoinOne, RunReturns, Broadcast
<1> QED  BY <1>1, <1>2, <1>3, <1>4 DEF Next
----------------------------------------------------------------------------
(* Stacks                                                                  *)

(* A runner that said it is done is gone, so its stack has no user; and    *)
(* what is carved next lies past every stack in use.                       *)
DoneIsGone == \A t \in Thread : runnerDone[t] => pc[t] = "gone"

CarvedBelow ==
  /\ stackNext # 0
  /\ \A t \in Thread : base[t] # 0 => base[t] + size[t] <= stackNext

StackInv == DoneIsGone /\ CarvedBelow /\ StackOwned

(* A runner that is done has left the host thread.                         *)
LEMMA DoneStep ==
  ASSUME TypeOK, Fresh, DoneIsGone, [Next]_vars
  PROVE  DoneIsGone'
<1> USE ConstantTypes DEF TypeOK, DoneIsGone
<1>1. CASE UNCHANGED runnerDone
  <2>1. \A t \in Thread : pc[t] = "gone" => pc'[t] = "gone"
    <3>1. CASE \E t \in Thread : Creations(t)
      BY <3>1 DEF Creations, CreateRecycled, CreateCarved, CreateRefused, Born,
                  MayCreate, Fresh, Thread
    <3> QED  BY <3>1, Positions
  <2> QED  BY <1>1, <2>1
<1>2. CASE \E t \in Thread : RunnerDone(t) \/ RunnerAbort(t)
  <2>1. PICK t \in Thread : RunnerDone(t) \/ RunnerAbort(t)
    BY <1>2
  <2>2. pc'[t] = "gone"
    BY <2>1 DEF RunnerDone, RunnerAbort
  <2>3. ASSUME NEW u \in Thread, u # t
        PROVE  pc'[u] = pc[u] /\ runnerDone'[u] = runnerDone[u]
    BY <2>1, <2>3 DEF RunnerDone, RunnerAbort
  <2> QED  BY <2>2, <2>3
<1>3. CASE UNCHANGED vars \/ MainDone \/ JoinOne \/ RunReturns
  BY <1>1, <1>3 DEF vars, MainDone, JoinOne, RunReturns
<1>4. ASSUME NEW t \in Thread,
             Signals(t) \/ WaitCalls(t) \/ Sleeping(t) \/ Creations(t) \/ Repoll(t)
      PROVE  UNCHANGED runnerDone
  BY <1>4 DEF Signals, SetEvent, ResetEvent, ReleaseMutex,
         ReleaseSemaphore, CritLeaveNested, CritLeave, WaitCalls, WaitKilled,
         WaitTake, WaitPark, Sleeping, CondTimeout, CondSpurious, WaitAgain,
         WaitReturn, Repoll, ScanDone, WakeOne, Creations, CreateRecycled,
         CreateCarved, CreateRefused, Born
<1>5. ASSUME NEW t \in Thread, Runner(t) \/ Ends(t)
      PROVE  UNCHANGED runnerDone \/ RunnerDone(t) \/ RunnerAbort(t)
  BY <1>5 DEF Runner, RunnerPark, RunnerSpurious,
         RunnerSeed, Ends, Resume, Terminate, ExitThread, RequestShutdown,
         GuestExit, FinishKilled, FinishNormal, FinishLeak, ToReap
<1> QED  BY <1>1, <1>2, <1>3, <1>4, <1>5 DEF Next

(* A stack is given again only when its runner is done.                    *)
LEMMA StackStep ==
  ASSUME TypeOK, Fresh, StackInv, [Next]_vars
  PROVE  StackInv'
<1> USE ConstantTypes
<1>1. DoneIsGone'
  BY DoneStep DEF StackInv
<1>2. CASE /\ UNCHANGED <<threads, nextId, base, size, stackNext>>
           /\ \A t \in Thread : pc[t] \in {"none", "gone"} => pc'[t] = pc[t]
  BY <1>1, <1>2 DEF StackInv, CarvedBelow, StackOwned, TypeOK
<1>3. ASSUME NEW t \in Thread, NEW n \in StackSizes, CreateRefused(t, n)
      PROVE  StackInv'
  BY <1>1, <1>3 DEF CreateRefused, stackVars, StackInv, CarvedBelow, StackOwned
<1>4. ASSUME NEW t \in Thread, NEW n \in StackSizes, NEW s \in Suspended,
             NEW ok \in HostStarts, CreateCarved(t, s, n, ok)
      PROVE  StackInv'
  <2>1. /\ nextId \in Thread \ threads /\ nextId # Main
        /\ stackNext + n <= TibRegion
        /\ base' = [base EXCEPT ![nextId] = stackNext]
        /\ size' = [size EXCEPT ![nextId] = n]
        /\ stackNext' = stackNext + n + GuardUnits
        /\ \A u \in Thread \ {nextId} : pc'[u] = pc[u]
    BY <1>4 DEF CreateCarved, MayCreate, Born, TypeOK, Fresh, Thread, Main, Trap
  <2>2. n \in Nat \ {0} /\ GuardUnits = 1
    BY DEF GuardUnits
  <2>3. CarvedBelow'
    BY <2>1, <2>2 DEF StackInv, CarvedBelow, TypeOK
  <2>4. StackOwned'
    <3>1. \A u \in Thread \ {Main} : pc'[u] \notin {"none", "gone"} => base'[u] # 0
      BY <2>1, <2>2 DEF StackInv, CarvedBelow, StackOwned, TypeOK
    <3>2. ASSUME NEW u \in Thread, NEW v \in Thread, u # v,
                 base'[u] # 0, base'[v] # 0
          PROVE  base'[u] + size'[u] <= base'[v] \/ base'[v] + size'[v] <= base'[u]
      BY <2>1, <2>2, <3>2 DEF StackInv, CarvedBelow, StackOwned, TypeOK
    <3>3. \A u \in Thread : base'[u] # 0 => base'[u] + size'[u] <= TibRegion
      BY <2>1, <2>2 DEF StackInv, StackOwned, TypeOK
    <3> QED  BY <3>1, <3>2, <3>3 DEF StackOwned
  <2> QED  BY <1>1, <2>3, <2>4 DEF StackInv
<1>5. ASSUME NEW t \in Thread, NEW n \in StackSizes, NEW s \in Suspended,
             NEW ok \in HostStarts, CreateRecycled(t, s, n, ok)
      PROVE  StackInv'
  <2>1. PICK u \in Donors(n) : u = FirstOf(Donors(n))
    <3>1. Donors(n) # {} /\ Donors(n) \subseteq Thread
      BY <1>5 DEF CreateRecycled, Donors, TypeOK
    <3> QED  BY <3>1, FirstOfMember
  <2>2. /\ nextId \in Thread \ threads /\ nextId # Main
        /\ base' = [base EXCEPT ![nextId] = base[u], ![u] = 0]
        /\ size' = [size EXCEPT ![nextId] = n, ![u] = 0]
        /\ stackNext' = stackNext
        /\ \A v \in Thread \ {nextId} : pc'[v] = pc[v]
    BY <1>5, <2>1
       DEF CreateRecycled, MayCreate, Born, TypeOK, Fresh, Thread, Main, Trap
  <2>3. /\ u \in Thread /\ u # nextId /\ pc[u] = "gone"
        /\ base[u] # 0 /\ size[u] = n
    BY <2>1, <2>2 DEF Donors, TypeOK, StackInv, DoneIsGone
  <2>4. /\ base'[nextId] = base[u] /\ size'[nextId] = size[u] /\ base'[u] = 0
        /\ \A v \in Thread \ {nextId, u} : base'[v] = base[v] /\ size'[v] = size[v]
    BY <2>2, <2>3 DEF TypeOK
  <2>5. CarvedBelow'
    <3>1. base'[nextId] + size'[nextId] <= stackNext
      BY <2>3, <2>4 DEF StackInv, CarvedBelow
    <3>2. \A v \in Thread \ {nextId, u} :
            base'[v] # 0 => base'[v] + size'[v] <= stackNext
      BY <2>4 DEF StackInv, CarvedBelow
    <3> QED  BY <2>2, <2>4, <3>1, <3>2 DEF StackInv, CarvedBelow
  <2>6. StackOwned'
    <3>1. \A v \in Thread \ {Main} : pc'[v] \notin {"none", "gone"} => base'[v] # 0
      BY <2>2, <2>3, <2>4 DEF StackInv, StackOwned
    <3>2. ASSUME NEW v \in Thread, NEW x \in Thread, v # x,
                 base'[v] # 0, base'[x] # 0
          PROVE  base'[v] + size'[v] <= base'[x] \/ base'[x] + size'[x] <= base'[v]
      BY <2>2, <2>3, <2>4, <3>2 DEF StackInv, StackOwned
    <3>3. \A v \in Thread : base'[v] # 0 => base'[v] + size'[v] <= TibRegion
      BY <2>2, <2>3, <2>4 DEF StackInv, StackOwned
    <3> QED  BY <3>1, <3>2, <3>3 DEF StackOwned
  <2> QED  BY <1>1, <2>5, <2>6 DEF StackInv
<1> QED
  BY <1>2, <1>3, <1>4, <1>5, Positions DEF Creations

(* A thread's stack is never given away under it, and no two stacks meet.  *)
THEOREM StacksDisjoint == Spec => []StackOwned
<1>1. Init => StackInv
  BY ConstantTypes
     DEF Init, NewRunner, StackInv, DoneIsGone, CarvedBelow, StackOwned
<1>2. TypeOK /\ WakeInv /\ StackInv /\ [Next]_vars => StackInv'
  BY StackStep DEF WakeInv
<1>3. StackInv => StackOwned
  BY DEF StackInv
<1> QED  BY <1>1, <1>2, <1>3, TypeCorrect, WakeCorrect, PTL DEF Spec
----------------------------------------------------------------------------
(* Terminated threads                                                      *)

(* What a step may do to a thread that is Finished and past its seeding.   *)
KeepsFinished(t) ==
  state[t] = "Finished" /\ pc[t] \notin {"boot", "parked"}
    => /\ state'[t] = "Finished"
       /\ exitCode'[t] # exitCode[t] => exitCode'[t] = "exit"

(* No step but the thread's own revives it or rewrites its code.           *)
LEMMA KilledStep ==
  ASSUME TypeOK, Fresh, [Next]_vars, NEW u \in Thread
  PROVE  KeepsFinished(u)
<1> USE ConstantTypes DEF TypeOK, KeepsFinished
<1>1. CASE UNCHANGED vars \/ MainDone \/ JoinOne \/ RunReturns
  BY <1>1 DEF vars, MainDone, JoinOne, RunReturns
<1>2. ASSUME NEW t \in Thread, Signals(t) \/ Repoll(t)
      PROVE  KeepsFinished(u)
  BY <1>2 DEF Signals, SetEvent, ResetEvent, ReleaseMutex, ReleaseSemaphore,
              CritLeaveNested, CritLeave, Repoll, ScanDone, WakeOne
<1>3. ASSUME NEW t \in Thread, WaitCalls(t) \/ Sleeping(t)
      PROVE  KeepsFinished(u)
  BY <1>3 DEF WaitCalls, WaitKilled, WaitTake, WaitPark, Sleeping, CondTimeout,
              CondSpurious, WaitAgain, WaitReturn
<1>4. ASSUME NEW t \in Thread, Creations(t)
      PROVE  KeepsFinished(u)
  BY <1>4, CreationEffect DEF Fresh
<1>5. ASSUME NEW t \in Thread, Runner(t)
      PROVE  KeepsFinished(u)
  BY <1>5 DEF Runner, RunnerPark, RunnerSpurious, RunnerSeed, RunnerAbort
<1>6. ASSUME NEW t \in Thread, Ends(t)
      PROVE  KeepsFinished(u)
  <2>1. CASE RequestShutdown(t) \/ RunnerDone(t) \/ FinishKilled(t) \/ FinishLeak(t)
             \/ \E how \in {"returned", "faulted", "stopped"} : GuestExit(t, how)
    BY <2>1 DEF RequestShutdown, RunnerDone, FinishKilled, FinishLeak, GuestExit
  <2>2. CASE \E v \in Thread : Resume(t, v) \/ Terminate(t, v)
    BY <2>2 DEF Resume, Terminate
  <2>3. CASE ExitThread(t)
    BY <2>3 DEF ExitThread
  <2>4. CASE FinishNormal(t)
    BY <2>4 DEF FinishNormal
  <2> QED  BY <1>6, <2>1, <2>2, <2>3, <2>4 DEF Ends
<1> QED  BY <1>1, <1>2, <1>3, <1>4, <1>5, <1>6 DEF Next

(* A thread that is Finished and past its seeding stays Finished, and only *)
(* its own ExitThread can still change its exit code.                      *)
THEOREM KilledIsFinal == Spec => KilledStaysFinished
<1>1. TypeOK /\ WakeInv /\ [Next]_vars =>
        \A t \in Thread : KeepsFinished(t)
  BY KilledStep DEF WakeInv
<1>2. TypeOK /\ WakeInv /\ [Next]_vars =>
        [\A t \in Thread :
           state[t] = "Finished" /\ pc[t] \notin {"boot", "parked"}
             => /\ state'[t] = "Finished"
                /\ exitCode'[t] # exitCode[t] => exitCode'[t] = "exit"]_vars
  BY <1>1 DEF KeepsFinished
<1> QED
  BY <1>2, TypeCorrect, WakeCorrect, PTL DEF Spec, KilledStaysFinished
----------------------------------------------------------------------------
(* Teardown                                                                *)

(* The join loop runs once, after the shutdown, and every thread it has    *)
(* passed is gone or was reported.                                         *)
JoinInv ==
  /\ pc[Main] \in {"join", "gone"} => shutdown
  /\ pc[Main] \notin {"join", "gone"} => joinAt = 1
  /\ pc[Main] = "gone" => joinAt > MaxThread
  /\ \A t \in threads \ leaked :
        t < joinAt /\ t # Main => pc[t] \in {"none", "gone"}

(* Outside the teardown itself, nothing enters or leaves it.               *)
MainStays ==
  /\ UNCHANGED <<joinAt, leaked>>
  /\ shutdown => shutdown'
  /\ pc[Main] \in {"join", "gone"} => pc'[Main] = pc[Main]
  /\ pc[Main] \notin {"join", "gone"} => pc'[Main] \notin {"join", "gone"}

(* Until it ends, main is not in the teardown.                             *)
LEMMA MainPlace ==
  ASSUME TypeOK, Fresh, [Next]_vars, ~(MainDone \/ JoinOne \/ RunReturns)
  PROVE  MainStays
<1> USE ConstantTypes DEF TypeOK, MainStays, Trap, Notify, finalVars
<1>1. CASE UNCHANGED vars
  BY <1>1 DEF vars
<1>2. ASSUME NEW t \in Thread, Signals(t)
      PROVE  MainStays
  BY <1>2 DEF Signals, SetEvent, ResetEvent, ReleaseMutex, ReleaseSemaphore,
              CritLeaveNested, CritLeave
<1>3. ASSUME NEW t \in Thread, WaitCalls(t) \/ Sleeping(t)
      PROVE  MainStays
  BY <1>3 DEF WaitCalls, WaitKilled, WaitTake, WaitPark, Sleeping, CondTimeout,
              CondSpurious, WaitAgain, WaitReturn
<1>4. ASSUME NEW t \in Thread, Repoll(t)
      PROVE  MainStays
  BY <1>4 DEF Repoll, ScanDone, WakeOne
<1>5. ASSUME NEW t \in Thread, Creations(t)
      PROVE  MainStays
  BY <1>5, CreationEffect
<1>6. ASSUME NEW t \in Thread, Runner(t)
      PROVE  MainStays
  BY <1>6 DEF Runner, RunnerPark, RunnerSpurious, RunnerSeed, RunnerAbort
<1>7. ASSUME NEW t \in Thread, Ends(t)
      PROVE  MainStays
  <2>1. CASE RequestShutdown(t)
    BY <2>1 DEF RequestShutdown, Broadcast
  <2>2. CASE \E u \in Thread : Resume(t, u) \/ Terminate(t, u)
    BY <2>2 DEF Resume, Terminate
  <2>3. CASE \/ ExitThread(t) \/ RunnerDone(t)
             \/ \E how \in {"returned", "faulted", "stopped"} : GuestExit(t, how)
    BY <2>3 DEF ExitThread, GuestExit, RunnerDone
  <2>4. CASE FinishKilled(t) \/ FinishNormal(t) \/ FinishLeak(t)
    BY <2>4 DEF FinishKilled, FinishNormal, FinishLeak, Leaving, ToReap
  <2> QED  BY <1>7, <2>1, <2>2, <2>3, <2>4 DEF Ends
<1> QED  BY <1>1, <1>2, <1>3, <1>4, <1>5, <1>6, <1>7 DEF Next

(* The join goes over the threads in order and counts whom it leaves.      *)
LEMMA JoinStep ==
  ASSUME TypeOK, Fresh, JoinInv, [Next]_vars
  PROVE  JoinInv'
<1> USE ConstantTypes
<1>1. CASE MainDone
  <2>1. /\ shutdown' /\ UNCHANGED <<joinAt, leaked, threads>>
        /\ pc'[Main] = "join" /\ joinAt = 1
    BY <1>1 DEF MainDone, Broadcast, JoinInv, TypeOK, birthVars
  <2>2. \A t \in Thread : ~(t < joinAt')
    BY <2>1
  <2> QED  BY <2>1, <2>2 DEF JoinInv, TypeOK
<1>2. CASE JoinOne
  <2>1. /\ pc[Main] = "join" /\ UNCHANGED <<pc, shutdown, threads>>
        /\ joinAt' = joinAt + 1 /\ joinAt \in Nat
        /\ leaked \subseteq leaked'
        /\ joinAt \in threads \ leaked' /\ joinAt # Main
             => pc[joinAt] \in {"none", "gone"}
    BY <1>2 DEF JoinOne, birthVars, TypeOK
  <2>2. ASSUME NEW t \in threads' \ leaked', t < joinAt', t # Main
        PROVE  pc'[t] \in {"none", "gone"}
    <3>1. t < joinAt \/ t = joinAt
      BY <2>1, <2>2 DEF TypeOK
    <3> QED  BY <2>1, <2>2, <3>1 DEF JoinInv
  <2> QED  BY <2>1, <2>2 DEF JoinInv
<1>3. CASE RunReturns
  BY <1>3 DEF RunReturns, JoinInv, TypeOK, finalVars, birthVars
<1>4. CASE ~(MainDone \/ JoinOne \/ RunReturns)
  <2>1. MainStays
    BY <1>4, MainPlace
  <2>2. ASSUME NEW t \in threads' \ leaked', t < joinAt', t # Main
        PROVE  pc'[t] \in {"none", "gone"}
    <3>0. t \in Thread
      BY <2>2, Positions, CreationEffect DEF TypeOK
    <3>1. joinAt # 1
      BY <2>1, <2>2, <3>0 DEF MainStays, TypeOK
    <3>2. shutdown
      BY <3>1 DEF JoinInv
    <3>3. t \in threads /\ pc[t] \in {"none", "gone"} => pc'[t] = pc[t]
      <4>1. CASE \A u \in Thread : pc[u] \in {"none", "gone"} => pc'[u] = pc[u]
        BY <4>1 DEF TypeOK
      <4>2. CASE \E u \in Thread : Creations(u)
        <5>1. pc' = pc
          BY <3>2, <4>2, CreationEffect
        <5> QED  BY <5>1
      <4> QED  BY <4>1, <4>2, Positions
    <3>4. t \in threads
      BY <2>2, <3>2, Positions, CreationEffect
    <3> QED  BY <2>1, <2>2, <3>3, <3>4 DEF JoinInv, MainStays
  <2> QED  BY <2>1, <2>2 DEF JoinInv, MainStays
<1> QED  BY <1>1, <1>2, <1>3, <1>4

(* When run() returns, every runner has given up its host thread or was    *)
(* reported as leaked.                                                     *)
THEOREM RunnersAreGone == Spec => []NoRunnerOutlivesRun
<1>1. Init => JoinInv
  BY ConstantTypes DEF Init, NewRunner, JoinInv
<1>2. TypeOK /\ WakeInv /\ JoinInv /\ [Next]_vars => JoinInv'
  BY JoinStep DEF WakeInv
<1>3. TypeOK /\ JoinInv => NoRunnerOutlivesRun
  BY ConstantTypes DEF JoinInv, NoRunnerOutlivesRun, TypeOK, Thread
<1> QED  BY <1>1, <1>2, <1>3, TypeCorrect, WakeCorrect, PTL DEF Spec
----------------------------------------------------------------------------
(* The objects serve the guest as SyncObjects promises                     *)
(*                                                                         *)
(* A grant is an acquisition of SyncObjects at the step that makes it      *)
(* (wake_check_all's), although the thread it is for only returns later:   *)
(* until then the thread holds what was delivered to it.  This needs a     *)
(* waiter that was not granted to have nothing delivered, to be waiting    *)
(* for what it asked, and not to have got a lock of Pool it asks for.      *)

Asking ==
  \A t \in Thread : waitObj[t] # NoWait =>
    /\ ~woken[t] /\ request[t] = waitObj[t]
    /\ ObjsOf(request[t]) \cap Pool \cap got[t] = {}

(* A step outside the objects and wait_common.                             *)
WaitsAlone == UNCHANGED <<waitObj, request, woken, got>>

(* What a thread asks stays while its waits are left alone.                *)
LEMMA AskingKept ==
  ASSUME Asking, WaitsAlone
  PROVE  Asking'
BY DEF Asking, WaitsAlone

(* Every step keeps what the threads ask consistent with pc.               *)
LEMMA AskingStep ==
  ASSUME TypeOK, WaitPlace, Asking, [Next]_vars
  PROVE  Asking'
<1>1. CASE UNCHANGED vars
  BY <1>1, AskingKept DEF vars, WaitsAlone
<1>2. ASSUME NEW t \in Thread, Signals(t)
      PROVE  Asking'
  <2>1. /\ UNCHANGED <<waitObj, request, woken>>
        /\ \A u \in Thread : got'[u] \subseteq got[u]
    BY <1>2 DEF TypeOK, waitVars, Signals, SetEvent, ResetEvent, ReleaseMutex,
                ReleaseSemaphore, CritLeaveNested, CritLeave
  <2> QED  BY <2>1 DEF Asking
<1>3. ASSUME NEW t \in Thread, WaitCalls(t)
      PROVE  Asking'
  <2>1. CASE WaitKilled(t)
    BY <2>1, AskingKept DEF WaitKilled, waitVars, WaitsAlone
  <2>2. ASSUME NEW w \in Waits, WaitTake(t, w)
        PROVE  Asking'
    <3>1. /\ UNCHANGED <<waitObj, request, woken>> /\ waitObj[t] = NoWait
          /\ \A u \in Thread \ {t} : got'[u] = got[u]
      BY <2>2 DEF WaitTake, Trap, waitVars, WaitPlace, TypeOK
    <3> QED  BY <3>1 DEF Asking
  <2>3. ASSUME NEW w \in Waits, NEW finite \in BOOLEAN, WaitPark(t, w, finite)
        PROVE  Asking'
    <3>1. /\ waitObj' = [waitObj EXCEPT ![t] = w]
          /\ request' = [request EXCEPT ![t] = w]
          /\ woken' = [woken EXCEPT ![t] = FALSE]
          /\ got' = got /\ ObjsOf(w) \cap Pool \cap got[t] = {}
      BY <2>3 DEF WaitPark, MayAsk
    <3> QED  BY <3>1 DEF Asking, TypeOK
  <2> QED  BY <1>3, <2>1, <2>2, <2>3 DEF WaitCalls
<1>4. ASSUME NEW t \in Thread, Sleeping(t)
      PROVE  Asking'
  <2>1. CASE CondTimeout(t) \/ CondSpurious(t) \/ WaitAgain(t)
    BY <2>1, AskingKept
       DEF CondTimeout, CondSpurious, WaitAgain, waitVars, WaitsAlone
  <2>2. CASE WaitReturn(t)
    <3>1. /\ waitObj' = [waitObj EXCEPT ![t] = NoWait]
          /\ request' = [request EXCEPT ![t] = NoWait] /\ woken' = woken
          /\ \A u \in Thread \ {t} : got'[u] = got[u]
      BY <2>2 DEF WaitReturn, TypeOK
    <3> QED  BY <3>1 DEF Asking, TypeOK
  <2> QED  BY <1>4, <2>1, <2>2 DEF Sleeping
<1>5. ASSUME NEW t \in Thread, Repoll(t)
      PROVE  Asking'
  <2>1. CASE ScanDone(t)
    BY <2>1, AskingKept DEF ScanDone, waitVars, WaitsAlone
  <2>2. ASSUME NEW u \in Thread, WakeOne(t, u)
        PROVE  Asking'
    <3>1. /\ waitObj' = [waitObj EXCEPT ![u] = NoWait]
          /\ woken' = [woken EXCEPT ![u] = TRUE]
          /\ UNCHANGED <<request, got>>
      BY <2>2 DEF WakeOne
    <3> QED  BY <3>1 DEF Asking, TypeOK
  <2> QED  BY <1>5, <2>1, <2>2 DEF Repoll
<1>6. ASSUME NEW t \in Thread, Creations(t) \/ Runner(t) \/ Ends(t)
      PROVE  Asking'
  BY <1>6, AskingKept
     DEF WaitsAlone, waitVars, Creations, CreateRecycled, CreateCarved,
         CreateRefused, Born, Runner, RunnerPark, RunnerSpurious, RunnerSeed,
         RunnerAbort, Ends, Resume, Terminate, ExitThread, RequestShutdown,
         GuestExit, FinishKilled, FinishNormal, FinishLeak, ToReap, RunnerDone
<1>7. CASE MainDone \/ JoinOne \/ RunReturns
  BY <1>7, AskingKept DEF MainDone, JoinOne, RunReturns, waitVars, WaitsAlone
<1> QED  BY <1>1, <1>2, <1>3, <1>4, <1>5, <1>6, <1>7 DEF Next

Inside(p) == p \in {"wait", "wake"}

(* Nothing that decides what a thread holds has changed.                   *)
LEMMA HoldsSame ==
  ASSUME UNCHANGED <<got, request, woken, delivered>>,
         \A t \in Thread : Inside(pc'[t]) <=> Inside(pc[t])
  PROVE  Holds' = Holds
BY DEF Holds, Outcome, Inside

(* Who is granted holds tracked objects only.                              *)
LEMMA HoldsType == TypeOK => Holds \in [Thread -> SUBSET Tracked]
BY DEF TypeOK, Holds

(* The abstract operators are the detailed ones.                           *)
LEMMA SameObjects ==
  /\ Sync!Tracked = Tracked /\ Sync!Thread = Thread /\ Sync!NoThread = NoThread
  /\ \A w, t : Sync!CanAcquire(w, t, cnt, own, Finished) <=> CanTake(t, w)
  /\ \A w, t : Sync!Winner(w, t, cnt, own, Finished) = WinnerOf(t, w)
  /\ \A w, i : Sync!Claimed(w, i) = Claimed(w, i)
  /\ \A S : Sync!CntAfter(S, cnt) = CntAfter(S, cnt)
  /\ \A S, t : Sync!OwnAfter(S, t, own) = OwnAfter(S, t, own)
<1>1. /\ Sync!Thread = Thread /\ Sync!NoThread = NoThread
      /\ Sync!Tracked = Tracked
  BY DEF Sync!Thread, Thread, Sync!NoThread, NoThread, Sync!Tracked, Tracked
<1>2. \A o, t : Sync!IsReady(o, t, cnt, own, Finished)
                  <=> IsReady(o, t, cnt, own, Finished)
  BY DEF Sync!IsReady, IsReady, Sync!NoThread, NoThread
<1>3. \A w, t : Sync!CanAcquire(w, t, cnt, own, Finished) <=> CanTake(t, w)
  BY <1>2 DEF Sync!CanAcquire, CanTake, CanAcquire
<1>4. ASSUME NEW w, NEW t
      PROVE  Sync!Winner(w, t, cnt, own, Finished) = WinnerOf(t, w)
  BY DEF Sync!Winner, WinnerOf, Winner, Sync!IsReady, IsReady, Sync!NoThread, NoThread
<1>5. \A w, i : Sync!Claimed(w, i) = Claimed(w, i)
  BY DEF Sync!Claimed, Claimed, Sync!ObjsOf, ObjsOf
<1>6. \A S : Sync!CntAfter(S, cnt) = CntAfter(S, cnt)
  BY DEF Sync!CntAfter, CntAfter, Sync!Consume, Consume
<1>7. \A S, t : Sync!OwnAfter(S, t, own) = OwnAfter(S, t, own)
  BY DEF Sync!OwnAfter, OwnAfter
<1> QED  BY <1>1, <1>3, <1>4, <1>5, <1>6, <1>7

(* The objects stand still: whatever threads do then is their own matter.  *)
LEMMA Idle ==
  ASSUME UNCHANGED <<cnt, own, Holds>>
  PROVE  Sync!Next
<1>1. Finished' \in SUBSET Sync!Thread
  BY SameObjects DEF Finished
<1> QED  BY <1>1 DEF Sync!Next, Sync!Lifecycle

(* What SyncObjects proves of a mutex that somebody holds.                 *)
LEMMA MutexTaken ==
  ASSUME Sync!Inv, NEW t \in Thread, NEW o \in Pool, o \in Holds[t],
         Kind[o] = "auto"
  PROVE  cnt[o] = 0
<1>1. Sync!Kinds = Kinds /\ t \in Sync!Thread
  BY SameObjects DEF Sync!Kinds, Kinds
<1> QED  BY <1>1, Sync!HeldIsTaken, GuestSyncAssumption

(* Outside a wait a thread holds what it got.                              *)
LEMMA HoldsOutside ==
  ASSUME NEW t \in Thread, ~Inside(pc[t])
  PROVE  Holds[t] = got[t]
BY DEF Holds, Inside

(* What each signalling shim is to the objects.                            *)
LEMMA ServesSignals ==
  ASSUME TypeOK, Sync!Inv, NEW t \in Thread, Signals(t)
  PROVE  Sync!Next
<1>0. PICK o \in Object : \/ SetEvent(t, o) \/ ResetEvent(t, o)
                          \/ ReleaseMutex(t, o) \/ ReleaseSemaphore(t, o)
                          \/ CritLeaveNested(t, o) \/ CritLeave(t, o)
  BY DEF Signals
<1>1. /\ UNCHANGED <<request, woken, delivered, state>> /\ pc[t] = "guest"
      /\ pc' \in {pc, [pc EXCEPT ![t] = "scan"]}
  BY <1>0 DEF SetEvent, ResetEvent, ReleaseMutex, ReleaseSemaphore,
              CritLeaveNested, CritLeave, Trap, Notify, waitVars
<1>2. /\ Finished' = Finished /\ Holds[t] = got[t]
      /\ \A u \in Thread : Inside(pc'[u]) <=> Inside(pc[u])
  BY <1>1, HoldsOutside DEF Finished, Inside, TypeOK
<1>3. ASSUME NEW S, got' = [got EXCEPT ![t] = @ \ S]
      PROVE  Holds' = [Holds EXCEPT ![t] = @ \ S]
  <2>1. Holds' = [u \in Thread |-> IF u = t THEN got'[t] ELSE Holds[u]]
    BY <1>1, <1>2, <1>3 DEF Holds, Outcome, Inside, TypeOK
  <2>2. got'[t] = got[t] \ S
    BY <1>3 DEF TypeOK
  <2> QED  BY <1>2, <2>1, <2>2 DEF Holds
<1>4. got' = got => Holds' = Holds
  BY <1>1, <1>2, HoldsSame
<1> USE SameObjects
<1>5. CASE SetEvent(t, o)
  <2>1. Sync!Signal(o)
    BY <1>2, <1>4, <1>5 DEF SetEvent, Sync!Signal
  <2> QED  BY <2>1 DEF Sync!Next
<1>6. CASE ResetEvent(t, o)
  <2>1. Sync!Clear(o)
    BY <1>2, <1>4, <1>6 DEF ResetEvent, Sync!Clear
  <2> QED  BY <2>1 DEF Sync!Next
<1>7. CASE ReleaseMutex(t, o)
  <2>1. o \in Pool /\ o \in got[t] /\ cnt' = [cnt EXCEPT ![o] = 1]
    BY <1>7 DEF ReleaseMutex, TypeOK, Tracked
  <2>2. cnt[o] = 0
    BY <1>2, <1>7, <2>1, MutexTaken DEF ReleaseMutex
  <2>3. cnt' = [cnt EXCEPT ![o] = @ + 1]
    BY <2>1, <2>2
  <2>4. Sync!Return(t, o)
    BY <1>2, <1>3, <1>7, <2>1, <2>3 DEF ReleaseMutex, Sync!Return
  <2> QED  BY <2>4 DEF Sync!Next
<1>8. CASE ReleaseSemaphore(t, o)
  <2>1. CASE o \in Pool
    <3>1. Sync!Return(t, o)
      BY <1>2, <1>3, <1>8, <2>1 DEF ReleaseSemaphore, Sync!Return
    <3> QED  BY <3>1 DEF Sync!Next
  <2>2. CASE o \notin Pool
    <3>1. o \notin got[t] /\ got' = got
      BY <1>8, <2>2 DEF ReleaseSemaphore, TypeOK, Tracked
    <3>2. cnt[o] + 1 \in (cnt[o] + 1)..MaxCount[o]
      BY <1>8, GuestSyncAssumption DEF ReleaseSemaphore, TypeOK
    <3>3. Sync!Signal(o)
      BY <1>2, <1>4, <1>8, <2>2, <3>1, <3>2 DEF ReleaseSemaphore, Sync!Signal
    <3> QED  BY <3>3 DEF Sync!Next
  <2> QED  BY <2>1, <2>2
<1>9. CASE CritLeaveNested(t, o)
  <2>1. Sync!Leave(t, o)
    BY <1>2, <1>4, <1>9 DEF CritLeaveNested, Sync!Leave, TypeOK
  <2> QED  BY <2>1 DEF Sync!Next
<1>10. CASE CritLeave(t, o)
  <2>1. /\ Kind[o] = "crit" /\ o \in got[t] /\ cnt[o] = 1
        /\ cnt' = [cnt EXCEPT ![o] = @ - 1]
        /\ own' = [own EXCEPT ![o] = NoThread]
        /\ got' = [got EXCEPT ![t] = @ \ {o}]
    BY <1>10 DEF CritLeave
  <2>2. Sync!Leave(t, o)
    BY <1>2, <1>3, <2>1 DEF Sync!Leave
  <2> QED  BY <2>2 DEF Sync!Next
<1> QED  BY <1>0, <1>5, <1>6, <1>7, <1>8, <1>9, <1>10

(* An acquisition for a thread that holds nothing it asks for.             *)
LEMMA Acquires ==
  ASSUME NEW t \in Thread, NEW w \in Waits, CanTake(t, w),
         NEW S, S = Claimed(w, WinnerOf(t, w)), ObjsOf(w) \cap Pool \cap Holds[t] = {},
         cnt' = CntAfter(S, cnt), own' = OwnAfter(S, t, own), state' = state,
         Holds' = [Holds EXCEPT ![t] = @ \cup (S \cap Tracked)]
  PROVE  Sync!Next
<1>1. S \cap Pool \cap Holds[t] = {}
  BY WinnerReady DEF CanTake, WinnerOf
<1>2. Finished' = Finished
  BY DEF Finished
<1>3. /\ Sync!CanAcquire(w, t, cnt, own, Finished)
      /\ Sync!Claimed(w, Sync!Winner(w, t, cnt, own, Finished)) = S
      /\ cnt' = Sync!CntAfter(S, cnt) /\ own' = Sync!OwnAfter(S, t, own)
      /\ Sync!Tracked = Tracked /\ t \in Sync!Thread
  BY SameObjects
<1>4. Sync!Acquire(t, w)
  BY <1>1, <1>2, <1>3 DEF Sync!Acquire
<1> QED  BY <1>3, <1>4 DEF Sync!Next

(* A wait shim is an acquisition, or nothing.                              *)
LEMMA ServesWaitCalls ==
  ASSUME TypeOK, WaitPlace, NEW t \in Thread, WaitCalls(t)
  PROVE  Sync!Next
<1>1. CASE WaitKilled(t)
  <2>1. /\ UNCHANGED <<cnt, own, got, request, woken, delivered>>
        /\ \A u \in Thread : Inside(pc'[u]) <=> Inside(pc[u])
    BY <1>1 DEF WaitKilled, Trap, Inside, waitVars, TypeOK
  <2> QED  BY <2>1, HoldsSame, Idle
<1>2. ASSUME NEW w \in Waits, WaitTake(t, w)
      PROVE  Sync!Next
  <2> DEFINE S == Claimed(w, WinnerOf(t, w))
  <2>1. /\ UNCHANGED <<state, pc, request, woken, delivered>>
        /\ CanTake(t, w) /\ pc[t] = "guest"
        /\ ObjsOf(w) \cap Pool \cap got[t] = {}
        /\ cnt' = CntAfter(S, cnt) /\ own' = OwnAfter(S, t, own)
        /\ got' = [got EXCEPT ![t] = @ \cup (S \cap Tracked)]
    BY <1>2 DEF WaitTake, Trap, MayAsk, waitVars
  <2> HIDE DEF S
  <2>2. Holds[t] = got[t]
    BY <2>1, HoldsOutside DEF Inside
  <2>3. Holds' = [Holds EXCEPT ![t] = @ \cup (S \cap Tracked)]
    BY <2>1, <2>2 DEF Holds, Outcome, TypeOK
  <2>4. S = Claimed(w, WinnerOf(t, w))
    BY DEF S
  <2> QED  BY <2>1, <2>2, <2>3, <2>4, Acquires
<1>3. ASSUME NEW w \in Waits, NEW finite \in BOOLEAN, WaitPark(t, w, finite)
      PROVE  Sync!Next
  <2>1. /\ UNCHANGED <<cnt, own, got, delivered>> /\ pc[t] = "guest"
        /\ request' = [request EXCEPT ![t] = w]
        /\ woken' = [woken EXCEPT ![t] = FALSE]
        /\ pc' = [pc EXCEPT ![t] = "wait"]
    BY <1>3 DEF WaitPark, Trap
  <2>2. Holds' = Holds
    BY <2>1 DEF Holds, Outcome, TypeOK
  <2> QED  BY <2>1, <2>2, Idle
<1> QED  BY <1>1, <1>2, <1>3 DEF WaitCalls

(* Timing out, going round the loop and returning give and take nothing:   *)
(* what a return hands to the guest was held for it since the grant.       *)
LEMMA ServesSleeping ==
  ASSUME TypeOK, NEW t \in Thread, Sleeping(t)
  PROVE  Sync!Next
<1>1. CASE CondTimeout(t) \/ CondSpurious(t) \/ WaitAgain(t)
  <2>1. /\ UNCHANGED <<cnt, own, got, request, woken, delivered>>
        /\ \A u \in Thread : Inside(pc'[u]) <=> Inside(pc[u])
    BY <1>1 DEF CondTimeout, CondSpurious, WaitAgain, Inside, waitVars, TypeOK
  <2> QED  BY <2>1, HoldsSame, Idle
<1>2. CASE WaitReturn(t)
  <2>1. /\ UNCHANGED <<cnt, own, woken, delivered>> /\ pc[t] = "wake"
        /\ request' = [request EXCEPT ![t] = NoWait]
        /\ got' = [got EXCEPT ![t] = @ \cup (Outcome(t) \cap Tracked)]
        /\ pc' = [pc EXCEPT ![t] = "guest"]
    BY <1>2 DEF WaitReturn
  <2>2. ASSUME NEW u \in Thread
        PROVE  Holds'[u] = Holds[u]
    BY <2>1 DEF Holds, Outcome, TypeOK
  <2>3. Holds' = Holds
    BY <2>2 DEF Holds
  <2> QED  BY <2>1, <2>3, Idle
<1> QED  BY <1>1, <1>2 DEF Sleeping

(* A grant of wake_check_all.                                              *)
LEMMA ServesRepoll ==
  ASSUME TypeOK, WaitPlace, Asking, NEW t \in Thread, Repoll(t)
  PROVE  Sync!Next
<1>1. CASE ScanDone(t)
  <2>1. /\ UNCHANGED <<cnt, own, got, request, woken, delivered>>
        /\ \A u \in Thread : Inside(pc'[u]) <=> Inside(pc[u])
    BY <1>1 DEF ScanDone, Inside, waitVars, TypeOK
  <2> QED  BY <2>1, HoldsSame, Idle
<1>2. ASSUME NEW u \in Thread, WakeOne(t, u)
      PROVE  Sync!Next
  <2> DEFINE w == waitObj[u]
             S == Claimed(w, WinnerOf(u, w))
  <2>1. /\ UNCHANGED <<state, got, request>> /\ w # NoWait /\ CanTake(u, w)
        /\ cnt' = CntAfter(S, cnt) /\ own' = OwnAfter(S, u, own)
        /\ delivered' = [delivered EXCEPT ![u] = WinnerOf(u, w)]
        /\ woken' = [woken EXCEPT ![u] = TRUE]
        /\ pc' = [pc EXCEPT ![u] = IF @ = "wait" THEN "wake" ELSE @]
    BY <1>2 DEF WakeOne, Reaches, Pollable
  <2>2. /\ w \in Waits /\ Inside(pc[u]) /\ ~woken[u] /\ request[u] = w
        /\ ObjsOf(w) \cap Pool \cap got[u] = {}
    BY <2>1 DEF TypeOK, WaitPlace, Asking, Inside
  <2>3. S = Claimed(w, WinnerOf(u, w)) /\ S = Claimed(request[u], WinnerOf(u, w))
    BY <2>2
  <2> HIDE DEF w, S
  <2>4. Holds[u] = got[u]
    BY <2>2 DEF Holds, Outcome
  <2>5. Holds'[u] = got[u] \cup (S \cap Tracked)
    BY <2>1, <2>2, <2>3 DEF Holds, Outcome, Inside, TypeOK
  <2>6. ASSUME NEW v \in Thread, v # u
        PROVE  Holds'[v] = Holds[v]
    BY <2>1, <2>6 DEF Holds, Outcome, TypeOK
  <2>7. Holds' = [Holds EXCEPT ![u] = @ \cup (S \cap Tracked)]
    BY <2>4, <2>5, <2>6 DEF Holds
  <2> QED  BY <2>1, <2>2, <2>3, <2>4, <2>7, Acquires
<1> QED  BY <1>1, <1>2 DEF Repoll

(* Threads come and go without touching the objects: one that is killed    *)
(* keeps what it holds.                                                    *)
LEMMA ServesLives ==
  ASSUME TypeOK, Fresh,
         \/ \E t \in Thread : Creations(t) \/ Runner(t) \/ Ends(t)
         \/ MainDone \/ JoinOne \/ RunReturns
  PROVE  Sync!Next
<1> USE ConstantTypes
<1>1. UNCHANGED <<cnt, own, got, request, woken, delivered>>
  BY DEF waitVars, Creations, CreateRecycled, CreateCarved, CreateRefused, Born,
         Runner, RunnerPark, RunnerSpurious, RunnerSeed, RunnerAbort, Ends,
         Resume, Terminate, ExitThread, RequestShutdown, GuestExit, FinishKilled,
         FinishNormal, FinishLeak, ToReap, RunnerDone, MainDone, JoinOne, RunReturns
<1>2. ASSUME NEW t \in Thread, Creations(t), NEW u \in Thread
      PROVE  Inside(pc'[u]) <=> Inside(pc[u])
  BY <1>2, CreationEffect DEF Fresh, Inside
<1>3. ASSUME NEW t \in Thread, Runner(t), NEW u \in Thread
      PROVE  Inside(pc'[u]) <=> Inside(pc[u])
  BY <1>3 DEF Runner, RunnerPark, RunnerSpurious, RunnerSeed, RunnerAbort,
              Inside, TypeOK
<1>4. ASSUME NEW t \in Thread, Ends(t), NEW u \in Thread
      PROVE  Inside(pc'[u]) <=> Inside(pc[u])
  <2> USE DEF Inside, TypeOK, Trap, Notify
  <2>1. CASE RequestShutdown(t)
    BY <2>1 DEF RequestShutdown, Broadcast
  <2>2. CASE \E v \in Thread : Resume(t, v) \/ Terminate(t, v)
    BY <2>2 DEF Resume, Terminate
  <2>3. CASE \/ ExitThread(t) \/ RunnerDone(t)
             \/ \E how \in {"returned", "faulted", "stopped"} : GuestExit(t, how)
    BY <2>3 DEF ExitThread, GuestExit, RunnerDone
  <2>4. CASE FinishKilled(t) \/ FinishNormal(t) \/ FinishLeak(t)
    BY <2>4 DEF FinishKilled, FinishNormal, FinishLeak, Leaving, ToReap
  <2> QED  BY <1>4, <2>1, <2>2, <2>3, <2>4 DEF Ends
<1>5. ASSUME MainDone \/ JoinOne \/ RunReturns, NEW u \in Thread
      PROVE  Inside(pc'[u]) <=> Inside(pc[u])
  BY <1>5 DEF MainDone, JoinOne, RunReturns, Broadcast, Inside, TypeOK
<1> QED  BY <1>1, <1>2, <1>3, <1>4, <1>5, HoldsSame, Idle

(* Every step of the scheduler is one of the objects', or none.            *)
LEMMA Serves ==
  ASSUME TypeOK, WakeInv, Asking, Sync!Inv, [Next]_vars
  PROVE  [Sync!Next]_(Sync!vars)
<1>1. CASE UNCHANGED vars
  <2>1. UNCHANGED <<cnt, own, state, got, request, woken, delivered, pc>>
    BY <1>1 DEF vars
  <2> QED  BY <2>1, HoldsSame, Idle
<1>2. CASE Next
  BY <1>2, ServesSignals, ServesWaitCalls, ServesSleeping, ServesRepoll, ServesLives
     DEF Next, WakeInv
<1> QED  BY <1>1, <1>2

(* Initial states are initial states of the objects.                       *)
LEMMA ServesInit == Init => Sync!Init
<1> SUFFICES ASSUME Init
             PROVE  Sync!Init
  OBVIOUS
<1>1. Holds = [t \in Thread |-> {}] /\ Finished = {}
  BY ConstantTypes DEF Init, NewRunner, Holds, Finished
<1> QED  BY <1>1, SameObjects DEF Init, Sync!Init

(* What SyncObjects proves of its steps, for the detailed ones.            *)
LEMMA SyncInvStep ==
  ASSUME TypeOK, WakeInv, Asking, Sync!Inv, [Next]_vars
  PROVE  Sync!Inv'
<1>1. Sync!Kinds = Kinds
  BY DEF Sync!Kinds, Kinds
<1> QED  BY <1>1, Serves, Sync!InvStep, GuestSyncAssumption

(* The objects' invariant holds initially.                                 *)
LEMMA SyncInvInit == Init => Sync!Inv
<1>1. Sync!Kinds = Kinds
  BY DEF Sync!Kinds, Kinds
<1> QED  BY <1>1, ServesInit, Sync!InvInit, GuestSyncAssumption

ServeInv == Asking /\ Sync!Inv

(* Everything the argument needs holds in every state of every instance.   *)
THEOREM ServesInductively == Spec => []ServeInv
<1>1. Init => ServeInv
  BY SyncInvInit DEF Init, ServeInv, Asking
<1>2. TypeOK /\ WakeInv /\ ServeInv /\ [Next]_vars => ServeInv'
  BY AskingStep, SyncInvStep DEF ServeInv, WakeInv
<1> QED  BY <1>1, <1>2, TypeCorrect, WakeCorrect, PTL DEF Spec

(* wait_common and wake_check_all serve the guest exactly as the abstract  *)
(* objects do, for any number of threads and any objects: every step is a  *)
(* step of SyncObjects, the grants being the acquisitions.                 *)
THEOREM Refinement == Spec => ImplementsSync
<1>1. TypeOK /\ WakeInv /\ ServeInv /\ [Next]_vars => [Sync!Next]_(Sync!vars)
  BY Serves DEF ServeInv
<1> QED
  BY <1>1, ServesInit, TypeCorrect, WakeCorrect, ServesInductively, PTL
     DEF Spec, ImplementsSync, Sync!Spec

(* No signal is lost or counted twice: a lock's count and its holders add  *)
(* up to what it was created with, whatever races with whatever.           *)
THEOREM TokensAddUp == Spec => []TokensConserved
<1>1. \A S : Sync!Cardinality(S) = Cardinality(S)
  BY DEF Sync!Cardinality, Cardinality
<1>2. ServeInv => TokensConserved
  BY <1>1, SameObjects
     DEF ServeInv, TokensConserved, Sync!Inv, Sync!TokensKept, Sync!HoldersOf
<1> QED  BY <1>2, ServesInductively, PTL

(* A critical section is held by the thread its owner field names, and by  *)
(* no other, exactly while its recursion count is not zero.                *)
THEOREM SectionsOwned == Spec => []CritOwned
<1>1. ServeInv => CritOwned
  BY SameObjects DEF ServeInv, CritOwned, Sync!Inv, Sync!OwnerHolds
<1> QED  BY <1>1, ServesInductively, PTL
============================================================================
