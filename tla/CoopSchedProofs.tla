-------------------------- MODULE CoopSchedProofs --------------------------
(* Theorems about CoopSched, for every instance of its constants: its type *)
(* invariant, the invariants and the action property its run checks on a   *)
(* small instance, and that it implements SyncObjects.                     *)
EXTENDS CoopSched, FiniteSetTheorems, TLAPS
----------------------------------------------------------------------------
(* Waits and acquisitions: the operators of SyncObjects are this module's, *)
(* so what it shows of them holds here.                                    *)
LEMMA SameWaits ==
  /\ Sync!Thread = Thread /\ Sync!NoThread = NoThread
  /\ \A o, t, c, n, f : Sync!IsReady(o, t, c, n, f) <=> IsReady(o, t, c, n, f)
  /\ \A w : Sync!ObjsOf(w) = ObjsOf(w)
  /\ \A w, t, c, n, f : Sync!CanAcquire(w, t, c, n, f) <=> CanAcquire(w, t, c, n, f)
  /\ \A w, t, c, n, f : Sync!Winner(w, t, c, n, f) = Winner(w, t, c, n, f)
  /\ \A w, i : Sync!Claimed(w, i) = Claimed(w, i)
  /\ \A S, c : Sync!CntAfter(S, c) = CntAfter(S, c)
  /\ \A S, t, n : Sync!OwnAfter(S, t, n) = OwnAfter(S, t, n)
<1>1. Sync!Thread = Thread /\ Sync!NoThread = NoThread
  BY DEF Sync!Thread, Thread, Sync!NoThread, NoThread
<1>2. \A o, t, c, n, f : Sync!IsReady(o, t, c, n, f) <=> IsReady(o, t, c, n, f)
  BY DEF Sync!IsReady, IsReady, Sync!NoThread, NoThread
<1>3. \A w : Sync!ObjsOf(w) = ObjsOf(w)
  BY DEF Sync!ObjsOf, ObjsOf
<1>4. \A w, t, c, n, f : Sync!CanAcquire(w, t, c, n, f) <=> CanAcquire(w, t, c, n, f)
  BY <1>2 DEF Sync!CanAcquire, CanAcquire
<1>5. ASSUME NEW w, NEW t, NEW c, NEW n, NEW f
      PROVE  Sync!Winner(w, t, c, n, f) = Winner(w, t, c, n, f)
  BY DEF Sync!Winner, Winner, Sync!IsReady, IsReady, Sync!NoThread, NoThread
<1>6. \A w, i : Sync!Claimed(w, i) = Claimed(w, i)
  BY DEF Sync!Claimed, Claimed, Sync!ObjsOf, ObjsOf
<1>7. \A S, c : Sync!CntAfter(S, c) = CntAfter(S, c)
  BY DEF Sync!CntAfter, CntAfter, Sync!Consume, Consume
<1>8. \A S, t, n : Sync!OwnAfter(S, t, n) = OwnAfter(S, t, n)
  BY DEF Sync!OwnAfter, OwnAfter
<1> QED  BY <1>1, <1>2, <1>3, <1>4, <1>5, <1>6, <1>7, <1>8

(* The objects of a wait are objects, and a wait is not the null wait;     *)
LEMMA WaitObjects ==
  ASSUME NEW w \in Waits
  PROVE  /\ ObjsOf(w) \subseteq Object /\ w # NoWait
         /\ DOMAIN w.objs \subseteq Nat /\ 1 \in DOMAIN w.objs
<1>1. Sync!NoWait = NoWait /\ Sync!Kinds = Kinds
  BY DEF Sync!NoWait, NoWait, Sync!Kinds, Kinds
<1> QED  BY <1>1, Sync!WaitObjects, SameWaits, GuestSyncAssumption

(* a wait that can be satisfied is satisfied by objects that are ready;    *)
LEMMA WinnerReady ==
  ASSUME NEW w \in Waits, NEW t, NEW c, NEW n, NEW f, CanAcquire(w, t, c, n, f)
  PROVE  /\ Winner(w, t, c, n, f) \in DOMAIN w.objs
         /\ \A o \in Claimed(w, Winner(w, t, c, n, f)) :
               o \in ObjsOf(w) /\ IsReady(o, t, c, n, f)
<1>1. Sync!Kinds = Kinds
  BY DEF Sync!Kinds, Kinds
<1> QED  BY <1>1, Sync!WinnerReady, SameWaits, GuestSyncAssumption

(* acquiring leaves counts natural and owners threads;                     *)
LEMMA AcquireType ==
  ASSUME NEW w \in Waits, NEW t \in Thread, NEW c \in [Object -> Nat],
         NEW n \in [Object -> Thread \cup {NoThread}], NEW f, CanAcquire(w, t, c, n, f),
         NEW S, S = Claimed(w, Winner(w, t, c, n, f))
  PROVE  /\ CntAfter(S, c) \in [Object -> Nat]
         /\ OwnAfter(S, t, n) \in [Object -> Thread \cup {NoThread}]
         /\ S \subseteq Object /\ Winner(w, t, c, n, f) \in Nat
<1>1. Sync!Kinds = Kinds /\ t \in Sync!Thread
      /\ n \in [Object -> Sync!Thread \cup {Sync!NoThread}]
      /\ Sync!CanAcquire(w, t, c, n, f) /\ S = Sync!Claimed(w, Sync!Winner(w, t, c, n, f))
  BY SameWaits DEF Sync!Kinds, Kinds
<1>2. /\ Sync!CntAfter(S, c) \in [Object -> Nat]
      /\ Sync!OwnAfter(S, t, n) \in [Object -> Sync!Thread \cup {Sync!NoThread}]
      /\ S \subseteq Object /\ Sync!Winner(w, t, c, n, f) \in Nat
  BY <1>1, Sync!AcquireType, GuestSyncAssumption
<1> QED  BY <1>2, SameWaits

(* nothing becomes ready for another thread when t acquires;               *)
LEMMA AcquireTakes ==
  ASSUME NEW t \in Thread, NEW u \in Thread, u # t,
         NEW c \in [Object -> Nat], NEW n, NEW f, NEW S, NEW o \in Object,
         IsReady(o, u, CntAfter(S, c), OwnAfter(S, t, n), f),
         \A p \in S : IsReady(p, t, c, n, f)
  PROVE  IsReady(o, u, c, n, f)
<1>1. Sync!Kinds = Kinds /\ t \in Sync!Thread /\ u \in Sync!Thread
      /\ Sync!IsReady(o, u, Sync!CntAfter(S, c), Sync!OwnAfter(S, t, n), f)
      /\ \A p \in S : Sync!IsReady(p, t, c, n, f)
  BY SameWaits DEF Sync!Kinds, Kinds
<1>2. Sync!IsReady(o, u, c, n, f)
  BY <1>1, Sync!AcquireTakes, GuestSyncAssumption
<1> QED  BY <1>2, SameWaits

(* and a wait cannot be satisfied if none of its objects became ready.     *)
LEMMA StillBlocked ==
  ASSUME NEW w \in Waits, NEW u, NEW c, NEW n, NEW f, NEW c2, NEW n2, NEW f2,
         ~CanAcquire(w, u, c, n, f),
         \A o \in ObjsOf(w) : IsReady(o, u, c2, n2, f2) => IsReady(o, u, c, n, f)
  PROVE  ~CanAcquire(w, u, c2, n2, f2)
<1>1. Sync!Kinds = Kinds
  BY DEF Sync!Kinds, Kinds
<1> QED  BY <1>1, Sync!StillBlocked, SameWaits, GuestSyncAssumption
----------------------------------------------------------------------------
(* Type correctness                                                        *)

(* What the assumptions say of the constants.                              *)
LEMMA ConstantTypes ==
  /\ Main \in Thread /\ NoThread \notin Thread /\ Thread \subseteq Nat \ {0}
  /\ MaxThread \in Nat /\ MaxTick \in Nat /\ Timeouts \subseteq Nat
  /\ Tokens \in [Object -> Nat]
  /\ StackSizes \subseteq Nat \ {0} /\ StackRegion \in Nat \ {0}
  /\ MainStack.base \in Nat \ {0} /\ MainStack.size \in Nat \ {0}
  /\ MainStack.base + MainStack.size <= StackRegion
  /\ Answers \subseteq {"code", "bool", "none"}
  /\ Forever \notin Nat /\ GuardUnits \in Nat
BY GuestSyncAssumption, CoopAssumption DEF Thread, Main, NoThread, Forever, GuardUnits

(* The types hold initially.                                               *)
LEMMA TypeInit == Init => TypeOK
<1> SUFFICES ASSUME Init
             PROVE  TypeOK
  OBVIOUS
<1>1. /\ writesEax \in [Thread -> BOOLEAN] /\ shutdown \in BOOLEAN
  BY DEF Init, Unstarted
<1>2. /\ base \in [Thread -> Nat] /\ size \in [Thread -> Nat] /\ stackNext \in Nat
      /\ cursor \in Nat /\ rr \in Thread
  BY ConstantTypes DEF Init, Unstarted
<1>3. /\ state \in [Thread -> States] /\ reply \in [Thread -> Replies]
      /\ exitCode \in [Thread -> ExitCodes] /\ reason \in Reasons
      /\ threads \subseteq Thread
  BY ConstantTypes DEF Init, Unstarted, States, Replies, ExitCodes, Reasons
<1>4. left \in [Thread -> Nat \cup {Forever}]
  BY DEF Init
<1> QED  BY <1>1, <1>2, <1>3, <1>4, ConstantTypes DEF Init, Unstarted, TypeOK

(* What is left of a deadline is a natural, however much time passes.      *)
LEMMA AfterType ==
  ASSUME NEW d \in Nat, left \in [Thread -> Nat \cup {Forever}]
  PROVE  After(d) \in [Thread -> Nat \cup {Forever}]
BY DEF After, Forever

(* A tick is a number of milliseconds.                                     *)
LEMMA TicksNat == Ticks \subseteq Nat
BY ConstantTypes DEF Ticks

(* What the acquisition of a wait by t writes has the right types.         *)
LEMMA TakeType ==
  ASSUME TypeOK, NEW t \in Thread, NEW w \in Waits, CanTake(t, w),
         NEW S, S = Claimed(w, Winner(w, t, cnt, own, Finished))
  PROVE  /\ CntAfter(S, cnt) \in [Object -> Nat]
         /\ OwnAfter(S, t, own) \in [Object -> Thread \cup {NoThread}]
         /\ S \subseteq ObjsOf(w)
         /\ \A o \in S : IsReady(o, t, cnt, own, Finished)
<1>1. cnt \in [Object -> Nat] /\ own \in [Object -> Thread \cup {NoThread}]
  BY DEF TypeOK
<1> QED  BY <1>1, AcquireType, WinnerReady DEF CanTake

(* What a wake-up writes to the thread it wakes has the right types.       *)
LEMMA DeliverType ==
  ASSUME TypeOK, NEW u \in Thread, NEW r \in Replies, Deliver(u, r)
  PROVE  /\ waitObj' \in [Thread -> Waits \cup {NoWait}]
         /\ reply' \in [Thread -> Replies]
         /\ writesEax' \in [Thread -> BOOLEAN]
         /\ timeoutEax' \in [Thread -> {"timeout", "false"}]
         /\ asked' \in [Thread -> {"code", "bool", "none"}]
BY DEF Deliver, TypeOK

(* The steps of run and pick_ready keep the types,                         *)
LEMMA TypeHost ==
  ASSUME TypeOK, Host
  PROVE  TypeOK'
<1> USE DEF States, Reasons
<1>1. CASE RunPinned
  <2>1. pin \in Thread
    BY <1>1 DEF RunPinned, Pinned, TypeOK
  <2>2. left' \in [Thread -> Nat \cup {Forever}]
    <3>1. PICK d \in Ticks : left' = After(d)
      BY <1>1 DEF RunPinned
    <3> QED  BY <3>1, AfterType, TicksNat DEF TypeOK
  <2>3. state' \in [Thread -> States]
    BY <1>1 DEF RunPinned, BeginSlice, TypeOK
  <2> QED  BY <1>1, <2>1, <2>2, <2>3
           DEF RunPinned, BeginSlice, TypeOK, objVars, birthVars, pinVars, endVars
<1>2. CASE StartPoll
  <2>1. left' \in [Thread -> Nat \cup {Forever}]
    <3>1. PICK d \in Ticks : left' = After(d)
      BY <1>2 DEF StartPoll
    <3> QED  BY <3>1, AfterType, TicksNat DEF TypeOK
  <2> QED  BY <1>2, <2>1 DEF StartPoll, TypeOK, objVars, birthVars, pinVars, endVars
<1>3. CASE StopsAtTop
  BY <1>3 DEF StopsAtTop, RunStops, TypeOK, waitVars, objVars, birthVars, pinVars
<1>4. CASE PickNext
  <2>1. PICK u \in Thread : rr' = u /\ BeginSlice(u)
    BY <1>4 DEF PickNext, ReadySet, TypeOK
  <2>2. state' \in [Thread -> States]
    BY <2>1 DEF BeginSlice, TypeOK
  <2> QED  BY <1>4, <2>1, <2>2
           DEF PickNext, BeginSlice, TypeOK, waitVars, objVars, birthVars, pinVars, endVars
<1>5. CASE PickIdle
  <2>1. PICK u \in Timed, d \in Ticks :
           left' = [After(left[u] + d) EXCEPT ![u] = Forever]
           /\ Deliver(u, timeoutEax[u]) /\ BeginSlice(u)
    BY <1>5 DEF PickIdle
  <2>2. u \in Thread /\ left[u] \in Nat /\ d \in Nat /\ timeoutEax[u] \in Replies
    BY <2>1, TicksNat DEF Timed, TypeOK, Replies
  <2>3. left' \in [Thread -> Nat \cup {Forever}]
    <3>1. left[u] + d \in Nat
      BY <2>2
    <3>2. After(left[u] + d) \in [Thread -> Nat \cup {Forever}]
      BY <3>1, AfterType DEF TypeOK
    <3> QED  BY <2>1, <3>2
  <2>4. state' \in [Thread -> States]
    BY <2>1, <2>2 DEF BeginSlice, TypeOK
  <2> QED  BY <1>5, <2>1, <2>2, <2>3, <2>4, DeliverType
           DEF PickIdle, BeginSlice, TypeOK, objVars, birthVars, pinVars, endVars
<1>6. CASE PickNone
  BY <1>6 DEF PickNone, RunStops, TypeOK, waitVars, objVars, birthVars, pinVars
<1>7. ASSUME NEW u \in Thread, WakeSignal(u)
      PROVE  TypeOK'
  <2> DEFINE S == Claimed(waitObj[u], Winner(waitObj[u], u, cnt, own, Finished))
  <2>1. waitObj[u] \in Waits /\ CanTake(u, waitObj[u])
    BY <1>7 DEF WakeSignal, Takes, Waiting, TypeOK
  <2>2. /\ cnt' = CntAfter(S, cnt) /\ own' = OwnAfter(S, u, own)
        /\ got' = [got EXCEPT ![u] = @ \cup (S \cap Tracked)]
        /\ Deliver(u, "taken")
    BY <1>7 DEF WakeSignal
  <2>3. cnt' \in [Object -> Nat] /\ own' \in [Object -> Thread \cup {NoThread}]
    BY <2>1, <2>2, TakeType
  <2> HIDE DEF S
  <2>4. got' \in [Thread -> SUBSET Tracked]
    BY <2>2 DEF TypeOK
  <2>5. "taken" \in Replies
    BY DEF Replies
  <2>6. /\ left' \in [Thread -> Nat \cup {Forever}] /\ state' \in [Thread -> States]
        /\ cursor' \in Nat
    <3>1. u + 1 \in Nat
      BY ConstantTypes
    <3> QED  BY <1>7, <3>1 DEF WakeSignal, TypeOK
  <2> QED  BY <1>7, <2>2, <2>3, <2>4, <2>5, <2>6, DeliverType
           DEF WakeSignal, TypeOK, birthVars, pinVars, endVars
<1>8. ASSUME NEW u \in Thread, WakeExpired(u)
      PROVE  TypeOK'
  <2>1. timeoutEax[u] \in Replies /\ Deliver(u, timeoutEax[u])
    BY <1>8 DEF WakeExpired, TypeOK, Replies
  <2>2. /\ left' \in [Thread -> Nat \cup {Forever}] /\ state' \in [Thread -> States]
        /\ cursor' \in Nat
    <3>1. u + 1 \in Nat
      BY ConstantTypes
    <3> QED  BY <1>8, <3>1 DEF WakeExpired, TypeOK
  <2> QED  BY <1>8, <2>1, <2>2, DeliverType
           DEF WakeExpired, TypeOK, objVars, birthVars, pinVars, endVars
<1> QED  BY <1>1, <1>2, <1>3, <1>4, <1>5, <1>6, <1>7, <1>8 DEF Host

(* What SyncObjects proves of a section somebody holds, and what the type  *)
(* of its count rests on.                                                  *)
SectionsHeld ==
  \A t \in Thread, o \in Object : Kind[o] = "crit" /\ o \in got[t] => cnt[o] > 0

(* and so do the shims that signal: a section is left by its owner,        *)
LEMMA TypeSignals ==
  ASSUME TypeOK, SectionsHeld, NEW t \in Thread, Signals(t)
  PROVE  TypeOK'
<1> USE DEF TypeOK, ShimFrame, waitVars, birthVars, pinVars, endVars
<1>1. PICK o \in Object : \/ SetEvent(t, o) \/ ResetEvent(t, o)
                          \/ ReleaseMutex(t, o) \/ ReleaseSemaphore(t, o)
                          \/ CritLeave(t, o)
  BY DEF Signals
<1>2. CASE SetEvent(t, o)         BY <1>2 DEF SetEvent
<1>3. CASE ResetEvent(t, o)       BY <1>3 DEF ResetEvent
<1>4. CASE ReleaseMutex(t, o)     BY <1>4 DEF ReleaseMutex
<1>5. CASE ReleaseSemaphore(t, o) BY <1>5 DEF ReleaseSemaphore
<1>6. CASE CritLeave(t, o)        BY <1>6 DEF CritLeave, SectionsHeld
<1> QED  BY <1>1, <1>2, <1>3, <1>4, <1>5, <1>6

(* the wait shims,                                                         *)
LEMMA TypeWaitCalls ==
  ASSUME TypeOK, NEW t \in Thread, WaitCalls(t)
  PROVE  TypeOK'
<1>0. PICK w \in Waits, kind \in Answers :
         \/ WaitTake(t, w, kind)
         \/ \E ms \in Timeouts \cup {Forever} : WaitBlock(t, w, kind, ms)
  BY DEF WaitCalls
<1>1. kind \in {"code", "bool", "none"} /\ asked[t] \in {"code", "bool", "none"}
  BY ConstantTypes DEF TypeOK
<1>2. CASE WaitTake(t, w, kind)
  <2> DEFINE S == Claimed(w, Winner(w, t, cnt, own, Finished))
  <2>1. /\ CanTake(t, w) /\ cnt' = CntAfter(S, cnt) /\ own' = OwnAfter(S, t, own)
        /\ got' = [got EXCEPT ![t] = @ \cup (S \cap Tracked)]
    BY <1>2 DEF WaitTake
  <2>2. cnt' \in [Object -> Nat] /\ own' \in [Object -> Thread \cup {NoThread}]
    BY <2>1, TakeType
  <2> HIDE DEF S
  <2>3. got' \in [Thread -> SUBSET Tracked]
    BY <2>1 DEF TypeOK
  <2>4. reply' \in [Thread -> Replies] /\ asked' \in [Thread -> {"code", "bool", "none"}]
    BY <1>1, <1>2 DEF WaitTake, Direct, Replies, TypeOK
  <2> QED  BY <1>2, <2>2, <2>3, <2>4
           DEF WaitTake, TypeOK, birthVars, pinVars, endVars
<1>3. ASSUME NEW ms \in Timeouts \cup {Forever}, WaitBlock(t, w, kind, ms)
      PROVE  TypeOK'
  <2>1. /\ waitObj' \in [Thread -> Waits \cup {NoWait}]
        /\ left' \in [Thread -> Nat \cup {Forever}]
        /\ state' \in [Thread -> States]
    BY <1>3, ConstantTypes DEF WaitBlock, TypeOK, States
  <2>2. writesEax' \in [Thread -> BOOLEAN]
    BY <1>3 DEF WaitBlock, TypeOK
  <2>3. /\ timeoutEax' \in [Thread -> {"timeout", "false"}]
        /\ reply' \in [Thread -> Replies] /\ asked' \in [Thread -> {"code", "bool", "none"}]
    BY <1>1, <1>3 DEF WaitBlock, Placed, Replies, TypeOK
  <2> QED  BY <1>3, <2>1, <2>2, <2>3
           DEF WaitBlock, Boundary, TypeOK, objVars, birthVars, endVars
<1> QED  BY <1>0, <1>2, <1>3

(* the ends of a slice,                                                    *)
LEMMA TypeSliceEnds ==
  ASSUME TypeOK, NEW t \in Thread, SliceEnds(t)
  PROVE  TypeOK'
<1> USE DEF TypeOK, States, Boundary, Ends, waitVars, objVars, birthVars, pinVars, endVars
<1>1. CASE Preempt(t)       BY <1>1 DEF Preempt
<1>2. CASE Yield(t)         BY <1>2 DEF Yield
<1>3. CASE ExitThread(t)    BY <1>3 DEF ExitThread, ExitCodes
<1>4. CASE Returns(t)       BY <1>4 DEF Returns, ExitCodes
<1>5. CASE Faults(t)        BY <1>5 DEF Faults, ExitCodes
<1>6. CASE FaultResumed(t)  BY <1>6 DEF FaultResumed
<1> QED  BY <1>1, <1>2, <1>3, <1>4, <1>5, <1>6 DEF SliceEnds

(* the other shims,                                                        *)
LEMMA TypeOtherShims ==
  ASSUME TypeOK, NEW t \in Thread, OtherShims(t)
  PROVE  TypeOK'
<1> USE DEF TypeOK, ShimFrame, waitVars, objVars, birthVars, pinVars, endVars
<1>1. CASE PinOn(t)            BY <1>1 DEF PinOn
<1>2. CASE PinOff(t)           BY <1>2 DEF PinOff
<1>3. CASE RequestShutdown(t)  BY <1>3 DEF RequestShutdown
<1>4. ASSUME NEW u \in Thread, Terminate(t, u) \/ Resume(t, u)
      PROVE  TypeOK'
  BY <1>4 DEF Terminate, Resume, States, ExitCodes
<1> QED  BY <1>1, <1>2, <1>3, <1>4 DEF OtherShims

(* Ids are handed out in order; the next one is nobody's.                  *)
LEMMA NewestId ==
  ASSUME NEW n \in 0..MaxThread, threads = 1..n
  PROVE  Newest = n + 1 /\ Newest \notin threads
<1>1. n \in Nat
  BY ConstantTypes
<1>2. Cardinality(1..n) = n
  BY <1>1, FS_Interval
<1>3. Newest = n + 1
  BY <1>2 DEF Newest
<1> QED  BY <1>1, <1>3

(* A new thread's stack is carved, or taken from one that ended.           *)
LEMMA StackOfNew ==
  ASSUME NEW t, NEW s, NEW k, Create(t, s, k)
  PROVE  \/ /\ base' = [base EXCEPT ![Newest] = stackNext]
            /\ size' = [size EXCEPT ![Newest] = k]
            /\ stackNext' = stackNext + k + GuardUnits
         \/ \E u \in threads :
               /\ state[u] = "Finished" /\ base[u] # 0 /\ size[u] = k
               /\ base' = [base EXCEPT ![Newest] = base[u], ![u] = 0]
               /\ size' = [size EXCEPT ![Newest] = k, ![u] = 0]
               /\ stackNext' = stackNext
<1>1. CASE stackNext' = stackNext + k + GuardUnits /\ Donors(k) = {}
             /\ base' = [base EXCEPT ![Newest] = stackNext]
             /\ size' = [size EXCEPT ![Newest] = k]
  BY <1>1
<1>2. ASSUME NEW u \in Donors(k), stackNext' = stackNext,
             base' = [base EXCEPT ![Newest] = base[u], ![u] = 0],
             size' = [size EXCEPT ![Newest] = k, ![u] = 0]
      PROVE  \E v \in threads :
               /\ state[v] = "Finished" /\ base[v] # 0 /\ size[v] = k
               /\ base' = [base EXCEPT ![Newest] = base[v], ![v] = 0]
               /\ size' = [size EXCEPT ![Newest] = k, ![v] = 0]
               /\ stackNext' = stackNext
  <2>1. u \in threads /\ state[u] = "Finished" /\ base[u] # 0 /\ size[u] = k
    BY DEF Donors
  <2> QED  BY <1>2, <2>1, Zenon
<1> QED  BY <1>1, <1>2, Zenon DEF Create

(* and thread creation, which may carve a stack.                           *)
LEMMA TypeCreate ==
  ASSUME TypeOK, NEW n \in 0..MaxThread, threads = 1..n, NEW t \in Thread,
         NEW s, NEW k \in StackSizes, Create(t, s, k)
  PROVE  TypeOK'
<1>1. Newest \in Thread /\ k \in Nat
  BY NewestId, ConstantTypes DEF Create, Thread
<1>2. base' \in [Thread -> Nat] /\ size' \in [Thread -> Nat] /\ stackNext' \in Nat
  <2>1. ASSUME NEW u \in threads, stackNext' = stackNext,
               base' = [base EXCEPT ![Newest] = base[u], ![u] = 0],
               size' = [size EXCEPT ![Newest] = k, ![u] = 0]
        PROVE  base' \in [Thread -> Nat] /\ size' \in [Thread -> Nat]
    <3>1. u \in Thread /\ base[u] \in Nat
      BY <2>1 DEF TypeOK
    <3>2. base' \in [Thread -> Nat]
      BY <1>1, <2>1, <3>1 DEF TypeOK
    <3>3. size' \in [Thread -> Nat]
      BY <1>1, <2>1, <3>1 DEF TypeOK
    <3> QED  BY <3>2, <3>3
  <2>2. CASE /\ base' = [base EXCEPT ![Newest] = stackNext]
             /\ size' = [size EXCEPT ![Newest] = k]
             /\ stackNext' = stackNext + k + GuardUnits
    <3>1. stackNext \in Nat /\ base \in [Thread -> Nat] /\ size \in [Thread -> Nat]
      BY DEF TypeOK
    <3> QED  BY <1>1, <2>2, <3>1, ConstantTypes
  <2>3. stackNext \in Nat
    BY DEF TypeOK
  <2> QED  BY <2>1, <2>2, <2>3, StackOfNew
<1>3. state' \in [Thread -> States] /\ threads' \subseteq Thread
  BY <1>1 DEF Create, States, TypeOK
<1> QED  BY <1>1, <1>2, <1>3 DEF Create, TypeOK, ShimFrame, waitVars, objVars, pinVars, endVars
----------------------------------------------------------------------------
(* The inductive invariant                                                 *)

(* Ids are handed out in order, the running thread is the one the host     *)
(* runs, and run() gives its reason when it returns.                       *)
Lives ==
  /\ \E n \in 0..MaxThread : threads = 1..n
  /\ \A t \in Thread : t \in threads <=> state[t] # "Absent"
  /\ \A t \in Thread : state[t] = "Running" <=> phase = "run" /\ cur = t
  /\ phase # "done" => reason = "none"

(* A blocked thread asks for objects, none of them a lock it holds, and    *)
(* its two flags are those of the kind of its wait; every other thread     *)
(* that lives has the flags of the next wait and a fitting answer.         *)
Asking(t) ==
  /\ waitObj[t] \in Waits /\ ObjsOf(waitObj[t]) \cap Pool \cap got[t] = {}
  /\ writesEax[t] = (asked[t] # "none")
  /\ timeoutEax[t] = (IF asked[t] = "bool" THEN "false" ELSE "timeout")
  /\ asked[t] = "none" => reply[t] = "own"
  /\ t \notin midway

Answered(t) ==
  writesEax[t] = TRUE /\ timeoutEax[t] = "timeout" /\ reply[t] \in Fits[asked[t]]

WaitsKept ==
  \A t \in Thread :
    /\ state[t] = "Blocked" => Asking(t)
    /\ state[t] \notin {"Blocked", "Finished"} => Answered(t)

(* Stacks are carved below stackNext, one after the other, and every one   *)
(* has at most one owner.                                                  *)
Carved ==
  /\ stackNext # 0
  /\ \A t \in Thread :
       /\ t \in threads /\ state[t] # "Finished" => base[t] # 0
       /\ t \notin threads => base[t] = 0
       /\ base[t] # 0 => base[t] + size[t] <= stackNext

(* The wake-up loop leaves nobody behind it that could be served: what it  *)
(* gives to one thread makes nothing available to another.                 *)
PassedBy == phase = "wake" => \A v \in Thread : v < cursor => ~Takes(v)
----------------------------------------------------------------------------
(* What each step is to the objects                                        *)

(* The objects of SyncObjects are this scheduler's own.                    *)
LEMMA SameObjects ==
  /\ Sync!Tracked = Tracked /\ Sync!Thread = Thread /\ Sync!NoThread = NoThread
  /\ Sync!Kinds = Kinds
  /\ \A w, t : Sync!CanAcquire(w, t, cnt, own, Finished) <=> CanTake(t, w)
  /\ \A w, t : Sync!Claimed(w, Sync!Winner(w, t, cnt, own, Finished))
                = Claimed(w, Winner(w, t, cnt, own, Finished))
  /\ \A S : Sync!CntAfter(S, cnt) = CntAfter(S, cnt)
  /\ \A S, t : Sync!OwnAfter(S, t, own) = OwnAfter(S, t, own)
<1>1. /\ Sync!Thread = Thread /\ Sync!NoThread = NoThread
      /\ Sync!Tracked = Tracked /\ Sync!Kinds = Kinds
  BY DEF Sync!Thread, Thread, Sync!NoThread, NoThread, Sync!Tracked, Tracked,
         Sync!Kinds, Kinds
<1>2. \A o, t : Sync!IsReady(o, t, cnt, own, Finished)
                  <=> IsReady(o, t, cnt, own, Finished)
  BY DEF Sync!IsReady, IsReady, Sync!NoThread, NoThread
<1>3. \A w, t : Sync!CanAcquire(w, t, cnt, own, Finished) <=> CanTake(t, w)
  BY <1>2 DEF Sync!CanAcquire, CanTake, CanAcquire
<1>4. ASSUME NEW w, NEW t
      PROVE  Sync!Winner(w, t, cnt, own, Finished) = Winner(w, t, cnt, own, Finished)
  BY DEF Sync!Winner, Winner, Sync!IsReady, IsReady, Sync!NoThread, NoThread
<1>5. \A w, i : Sync!Claimed(w, i) = Claimed(w, i)
  BY DEF Sync!Claimed, Claimed, Sync!ObjsOf, ObjsOf
<1>6. \A S : Sync!CntAfter(S, cnt) = CntAfter(S, cnt)
  BY DEF Sync!CntAfter, CntAfter, Sync!Consume, Consume
<1>7. \A S, t : Sync!OwnAfter(S, t, own) = OwnAfter(S, t, own)
  BY DEF Sync!OwnAfter, OwnAfter
<1> QED  BY <1>1, <1>3, <1>4, <1>5, <1>6, <1>7

(* The objects stand still: whatever threads do then is their own matter.  *)
LEMMA Idle ==
  ASSUME UNCHANGED objVars
  PROVE  Sync!Next
<1>1. Finished' \in SUBSET Sync!Thread
  BY SameObjects DEF Finished
<1> QED  BY <1>1 DEF Sync!Next, Sync!Lifecycle, objVars

(* What SyncObjects proves of a mutex, and of a section, somebody holds.   *)
LEMMA MutexTaken ==
  ASSUME Sync!Inv, NEW t \in Thread, NEW o \in Pool, o \in got[t],
         Kind[o] = "auto"
  PROVE  cnt[o] = 0
<1>1. t \in Sync!Thread
  BY SameObjects
<1> QED  BY <1>1, SameObjects, Sync!HeldIsTaken, GuestSyncAssumption

(* A section somebody holds has a count of one at least.                   *)
LEMMA SectionsCounted == Sync!Inv => SectionsHeld
<1> SUFFICES ASSUME Sync!Inv, NEW t \in Thread, NEW o \in Object,
                    Kind[o] = "crit", o \in got[t]
             PROVE  cnt[o] > 0
  BY DEF SectionsHeld
<1>1. own[o] = t /\ (own[o] = NoThread <=> cnt[o] = 0) /\ cnt[o] \in Nat
  BY SameObjects DEF Sync!Inv, Sync!TypeOK, Sync!OwnerHolds
<1> QED  BY <1>1, ConstantTypes

(* A shim that signals is one step of the objects.                         *)
LEMMA ServesSignals ==
  ASSUME TypeOK, Sync!Inv, NEW t \in Thread, Signals(t)
  PROVE  Sync!Next
<1>0. PICK o \in Object : \/ SetEvent(t, o) \/ ResetEvent(t, o)
                          \/ ReleaseMutex(t, o) \/ ReleaseSemaphore(t, o)
                          \/ CritLeave(t, o)
  BY DEF Signals
<1>1. Finished' = Finished
  BY <1>0 DEF SetEvent, ResetEvent, ReleaseMutex, ReleaseSemaphore, CritLeave, Finished
<1> USE SameObjects
<1>2. CASE SetEvent(t, o)
  <2>1. Sync!Signal(o)
    BY <1>1, <1>2 DEF SetEvent, Sync!Signal
  <2> QED  BY <2>1 DEF Sync!Next
<1>3. CASE ResetEvent(t, o)
  <2>1. Sync!Clear(o)
    BY <1>1, <1>3 DEF ResetEvent, Sync!Clear
  <2> QED  BY <2>1 DEF Sync!Next
<1>4. CASE ReleaseMutex(t, o)
  <2>1. o \in Pool /\ o \in got[t] /\ cnt' = [cnt EXCEPT ![o] = 1]
    BY <1>4 DEF ReleaseMutex, TypeOK, Tracked
  <2>2. cnt[o] = 0
    BY <1>4, <2>1, MutexTaken DEF ReleaseMutex
  <2>3. cnt' = [cnt EXCEPT ![o] = @ + 1]
    BY <2>1, <2>2
  <2>4. Sync!Return(t, o)
    BY <1>1, <1>4, <2>1, <2>3 DEF ReleaseMutex, Sync!Return
  <2> QED  BY <2>4 DEF Sync!Next
<1>5. CASE ReleaseSemaphore(t, o)
  <2>1. CASE o \in Pool
    <3>1. Sync!Return(t, o)
      BY <1>1, <1>5, <2>1 DEF ReleaseSemaphore, Sync!Return
    <3> QED  BY <3>1 DEF Sync!Next
  <2>2. CASE o \notin Pool
    <3>1. o \notin got[t] /\ got' = got
      BY <1>5, <2>2 DEF ReleaseSemaphore, TypeOK, Tracked
    <3>2. cnt[o] + 1 \in (cnt[o] + 1)..MaxCount[o]
      BY <1>5, GuestSyncAssumption DEF ReleaseSemaphore, TypeOK
    <3>3. Sync!Signal(o)
      BY <1>1, <1>5, <2>2, <3>1, <3>2 DEF ReleaseSemaphore, Sync!Signal
    <3> QED  BY <3>3 DEF Sync!Next
  <2> QED  BY <2>1, <2>2
<1>6. CASE CritLeave(t, o)
  <2>1. Sync!Leave(t, o)
    BY <1>1, <1>6 DEF CritLeave, Sync!Leave
  <2> QED  BY <2>1 DEF Sync!Next
<1> QED  BY <1>0, <1>2, <1>3, <1>4, <1>5, <1>6

(* An acquisition for a thread that holds nothing it asks for.             *)
LEMMA Acquires ==
  ASSUME NEW t \in Thread, NEW w \in Waits, CanTake(t, w),
         NEW S, S = Claimed(w, Winner(w, t, cnt, own, Finished)),
         ObjsOf(w) \cap Pool \cap got[t] = {},
         cnt' = CntAfter(S, cnt), own' = OwnAfter(S, t, own), Finished' = Finished,
         got' = [got EXCEPT ![t] = @ \cup (S \cap Tracked)]
  PROVE  Sync!Next
<1>1. S \cap Pool \cap got[t] = {}
  BY WinnerReady DEF CanTake
<1>2. /\ Sync!CanAcquire(w, t, cnt, own, Finished)
      /\ Sync!Claimed(w, Sync!Winner(w, t, cnt, own, Finished)) = S
      /\ cnt' = Sync!CntAfter(S, cnt) /\ own' = Sync!OwnAfter(S, t, own)
      /\ Sync!Tracked = Tracked /\ t \in Sync!Thread
  BY SameObjects
<1>3. Sync!Acquire(t, w)
  BY <1>1, <1>2 DEF Sync!Acquire
<1> QED  BY <1>2, <1>3 DEF Sync!Next

(* So is a wait shim: an acquisition, or nothing.                          *)
LEMMA ServesWaitCalls ==
  ASSUME TypeOK, NEW t \in Thread, WaitCalls(t)
  PROVE  Sync!Next
<1>0. PICK w \in Waits, kind \in Answers :
         \/ WaitTake(t, w, kind)
         \/ \E ms \in Timeouts \cup {Forever} : WaitBlock(t, w, kind, ms)
  BY DEF WaitCalls
<1>1. CASE WaitTake(t, w, kind)
  <2> DEFINE S == Claimed(w, Winner(w, t, cnt, own, Finished))
  <2>1. /\ CanTake(t, w) /\ ObjsOf(w) \cap Pool \cap got[t] = {}
        /\ cnt' = CntAfter(S, cnt) /\ own' = OwnAfter(S, t, own)
        /\ got' = [got EXCEPT ![t] = @ \cup (S \cap Tracked)]
    BY <1>1 DEF WaitTake, MayAsk
  <2>2. Finished' = Finished
    BY <1>1 DEF WaitTake, Finished
  <2> QED  BY <2>1, <2>2, Acquires
<1>2. ASSUME NEW ms, WaitBlock(t, w, kind, ms)
      PROVE  Sync!Next
  BY <1>2, Idle DEF WaitBlock
<1> QED  BY <1>0, <1>1, <1>2

(* A wake-up of pick_ready is the acquisition its waiter asked for.        *)
LEMMA ServesWake ==
  ASSUME TypeOK, WaitsKept, NEW u \in Thread, WakeSignal(u)
  PROVE  Sync!Next
<1> DEFINE S == Claimed(waitObj[u], Winner(waitObj[u], u, cnt, own, Finished))
<1>1. /\ state[u] = "Blocked" /\ CanTake(u, waitObj[u])
      /\ cnt' = CntAfter(S, cnt) /\ own' = OwnAfter(S, u, own)
      /\ got' = [got EXCEPT ![u] = @ \cup (S \cap Tracked)]
      /\ state' = [state EXCEPT ![u] = "Ready"]
  BY DEF WakeSignal, Takes, Waiting
<1>2. waitObj[u] \in Waits /\ ObjsOf(waitObj[u]) \cap Pool \cap got[u] = {}
  BY <1>1 DEF WaitsKept, Asking
<1>3. Finished' = Finished
  BY <1>1 DEF Finished, TypeOK
<1> QED  BY <1>1, <1>2, <1>3, Acquires

(* Every step of the scheduler is one of the objects', or none.            *)
LEMMA Serves ==
  ASSUME TypeOK, WaitsKept, Sync!Inv, [Next]_vars
  PROVE  [Sync!Next]_(Sync!vars)
<1>1. CASE UNCHANGED vars
  BY <1>1, Idle DEF vars, objVars
<1>2. CASE Host
  <2>1. CASE \E u \in Thread : WakeSignal(u)
    BY <2>1, ServesWake
  <2>2. CASE ~\E u \in Thread : WakeSignal(u)
    BY <1>2, <2>2, Idle DEF Host, RunPinned, StartPoll, StopsAtTop, RunStops, PickNext,
                            PickIdle, PickNone, WakeExpired
  <2> QED  BY <2>1, <2>2
<1>3. ASSUME NEW t \in Thread, Guest(t)
      PROVE  Sync!Next
  <2>1. CASE SliceEnds(t)
    BY <2>1, Idle DEF SliceEnds, Preempt, Yield, ExitThread, Returns, Faults, FaultResumed, Ends
  <2>2. CASE OtherShims(t)
    BY <2>2, Idle DEF OtherShims, PinOn, PinOff, RequestShutdown, Terminate, Resume
  <2>3. CASE \E s \in Suspended, n \in StackSizes : Create(t, s, n)
    BY <2>3, Idle DEF Create
  <2> QED  BY <1>3, <2>1, <2>2, <2>3, ServesSignals, ServesWaitCalls DEF Guest
<1> QED  BY <1>1, <1>2, <1>3 DEF Next

(* Initial states are initial states of the objects.                       *)
LEMMA ServesInit == Init => Sync!Init
<1> SUFFICES ASSUME Init
             PROVE  Sync!Init
  OBVIOUS
<1>1. Finished = {}
  BY DEF Init, Finished
<1> QED  BY <1>1, SameObjects DEF Init, Sync!Init

(* What SyncObjects proves of its steps, for the scheduler's.              *)
LEMMA SyncInvStep ==
  ASSUME TypeOK, WaitsKept, Sync!Inv, [Next]_vars
  PROVE  Sync!Inv'
BY Serves, SameObjects, Sync!InvStep, GuestSyncAssumption

(* The objects' invariant holds initially.                                 *)
LEMMA SyncInvInit == Init => Sync!Inv
BY ServesInit, SameObjects, Sync!InvInit, GuestSyncAssumption
----------------------------------------------------------------------------
(* The lives of the threads                                                *)

(* Only main lives initially.                                              *)
LEMMA LivesInit == Init => Lives
<1> SUFFICES ASSUME Init
             PROVE  Lives
  OBVIOUS
<1>1. 1 \in 0..MaxThread /\ threads = 1..1
  BY ConstantTypes DEF Init, Main, Thread
<1>2. /\ \A t \in Thread : t \in threads <=> state[t] # "Absent"
      /\ \A t \in Thread : state[t] = "Running" <=> phase = "run" /\ cur = t
      /\ reason = "none"
  BY DEF Init, Unstarted
<1> QED  BY <1>1, <1>2 DEF Lives

(* run and pick_ready keep the ids, and run one thread at a time.          *)
LEMMA LivesHost ==
  ASSUME TypeOK, Lives, Host
  PROVE  Lives'
<1> USE DEF Lives, TypeOK, BeginSlice, RunStops, waitVars, objVars, birthVars, pinVars, endVars
<1>1. CASE RunPinned
  BY <1>1 DEF RunPinned, Pinned
<1>2. CASE StartPoll
  BY <1>2 DEF StartPoll
<1>3. CASE StopsAtTop
  BY <1>3 DEF StopsAtTop
<1>4. CASE PickNext
  <2>1. PICK u \in threads : state[u] = "Ready" /\ BeginSlice(u)
    BY <1>4, Zenon DEF PickNext, ReadySet
  <2>2. phase = "wake" /\ UNCHANGED <<threads, reason>>
    BY <1>4 DEF PickNext, Polled
  <2> QED  BY <2>1, <2>2
<1>5. CASE PickIdle
  <2>1. PICK u \in Timed : BeginSlice(u)
    BY <1>5, Zenon DEF PickIdle
  <2>2. phase = "wake" /\ UNCHANGED <<threads, reason>>
    BY <1>5 DEF PickIdle, Polled
  <2>3. u \in Thread /\ state[u] = "Blocked"
    BY <2>1 DEF Timed
  <2> QED  BY <2>1, <2>2, <2>3
<1>6. CASE PickNone
  BY <1>6 DEF PickNone, Polled
<1>7. ASSUME NEW u \in Thread, WakeSignal(u) \/ WakeExpired(u)
      PROVE  Lives'
  <2>1. /\ state[u] = "Blocked" /\ state' = [state EXCEPT ![u] = "Ready"]
        /\ UNCHANGED <<threads, reason, phase, cur>>
    BY <1>7 DEF WakeSignal, WakeExpired, Takes, Expires, Waiting
  <2> QED  BY <2>1
<1> QED  BY <1>1, <1>2, <1>3, <1>4, <1>5, <1>6, <1>7 DEF Host

(* So does the thread that runs.                                           *)
LEMMA LivesGuest ==
  ASSUME TypeOK, Lives, NEW t \in Thread, Guest(t)
  PROVE  Lives'
<1> USE DEF Lives, TypeOK, Runs, ShimFrame, waitVars, objVars, birthVars, pinVars, endVars
<1>1. CASE SliceEnds(t)
  <2>1. /\ phase = "run" /\ cur = t /\ phase' = "loop" /\ UNCHANGED <<threads, reason>>
        /\ \E x \in {"Ready", "Finished"} : state' = [state EXCEPT ![t] = x]
    BY <1>1 DEF SliceEnds, Preempt, Yield, ExitThread, Returns, Faults, FaultResumed, Ends
  <2> QED  BY <2>1
<1>2. CASE Signals(t)
  <2>1. UNCHANGED <<state, phase, cur, threads, reason>>
    BY <1>2 DEF Signals, SetEvent, ResetEvent, ReleaseMutex, ReleaseSemaphore, CritLeave
  <2> QED  BY <2>1
<1>3. CASE WaitCalls(t)
  <2>1. /\ phase = "run" /\ cur = t /\ UNCHANGED <<threads, reason>>
        /\ \/ UNCHANGED <<state, phase, cur>>
           \/ phase' = "loop" /\ state' = [state EXCEPT ![t] = "Blocked"]
    BY <1>3 DEF WaitCalls, WaitTake, WaitBlock
  <2> QED  BY <2>1
<1>4. CASE OtherShims(t)
  <2>1. CASE PinOn(t) \/ PinOff(t) \/ RequestShutdown(t)
    BY <2>1 DEF PinOn, PinOff, RequestShutdown
  <2>2. ASSUME NEW u \in Thread, Terminate(t, u)
        PROVE  Lives'
    BY <2>2 DEF Terminate, Known
  <2>3. ASSUME NEW u \in Thread, Resume(t, u)
        PROVE  Lives'
    BY <2>3 DEF Resume, Known
  <2> QED  BY <1>4, <2>1, <2>2, <2>3 DEF OtherShims
<1>5. ASSUME NEW s \in Suspended, NEW k \in StackSizes, Create(t, s, k)
      PROVE  Lives'
  <2>1. PICK n \in 0..MaxThread : threads = 1..n
    OBVIOUS
  <2>2. Newest = n + 1 /\ Newest \notin threads
    BY <2>1, NewestId
  <2>3. /\ Newest <= MaxThread /\ threads' = threads \cup {Newest}
        /\ \E x \in {"New", "Ready"} : state' = [state EXCEPT ![Newest] = x]
        /\ UNCHANGED <<phase, cur, reason>> /\ phase = "run" /\ cur = t
    BY <1>5 DEF Create
  <2>4. n + 1 \in 0..MaxThread /\ threads' = 1..(n + 1) /\ Newest \in Thread
    BY <2>1, <2>2, <2>3, ConstantTypes DEF Thread
  <2>5. state[Newest] = "Absent"
    BY <2>2, <2>4
  <2>6. PICK x \in {"New", "Ready"} : state' = [state EXCEPT ![Newest] = x]
    BY <2>3
  <2>7. \A u \in Thread : state'[u] = IF u = Newest THEN x ELSE state[u]
    BY <2>4, <2>6
  <2>8. x \notin {"Absent", "Running"}
    OBVIOUS
  <2>9. \A u \in Thread : u \in threads' <=> state'[u] # "Absent"
    BY <2>3, <2>7, <2>8
  <2>10. \A u \in Thread : state'[u] = "Running" <=> phase' = "run" /\ cur' = u
    BY <2>3, <2>5, <2>7, <2>8
  <2>11. \E m \in 0..MaxThread : threads' = 1..m
    BY <2>4
  <2> QED  BY <2>3, <2>9, <2>10, <2>11
<1> QED  BY <1>1, <1>2, <1>3, <1>4, <1>5 DEF Guest
----------------------------------------------------------------------------
(* The waits                                                               *)

(* What a step leaves alone of the wait of u.                              *)
SameWait(u) ==
  /\ state'[u] = state[u] /\ waitObj'[u] = waitObj[u]
  /\ writesEax'[u] = writesEax[u] /\ timeoutEax'[u] = timeoutEax[u]
  /\ reply'[u] = reply[u] /\ asked'[u] = asked[u]
  /\ got'[u] \subseteq got[u] /\ (u \in midway' => u \in midway)

(* A step changes the wait of one thread at most.                          *)
LEMMA OneWait ==
  ASSUME WaitsKept, NEW t \in Thread, \A u \in Thread \ {t} : SameWait(u),
         state'[t] = "Blocked" => Asking(t)',
         state'[t] \notin {"Blocked", "Finished"} => Answered(t)'
  PROVE  WaitsKept'
<1>1. ASSUME NEW u \in Thread, u # t
      PROVE  /\ state'[u] = "Blocked" => Asking(u)'
             /\ state'[u] \notin {"Blocked", "Finished"} => Answered(u)'
  <2>1. SameWait(u)
    BY <1>1
  <2> QED  BY <2>1 DEF WaitsKept, SameWait, Asking, Answered
<1> QED  BY <1>1 DEF WaitsKept

(* The answers each wait flavour allows, spelled out.                      *)
LEMMA FitsEach ==
  /\ Fits["code"] = {"taken", "timeout"} /\ Fits["bool"] = {"taken", "false"}
  /\ Fits["none"] = {"own"}
BY DEF Fits

(* Whichever of the three paths ends a wait, its answer fits.              *)
LEMMA Delivered ==
  ASSUME TypeOK, WaitsKept, NEW u \in Thread, state[u] = "Blocked",
         NEW r \in {"taken", timeoutEax[u]}, Deliver(u, r)
  PROVE  /\ Answered(u)'
         /\ \A v \in Thread \ {u} :
               /\ waitObj'[v] = waitObj[v] /\ writesEax'[v] = writesEax[v]
               /\ timeoutEax'[v] = timeoutEax[v] /\ reply'[v] = reply[v]
               /\ asked'[v] = asked[v]
<1>1. Asking(u)
  BY DEF WaitsKept
<1>2. asked[u] \in {"code", "bool", "none"} /\ asked' = asked
  BY DEF TypeOK, Deliver
<1>3. reply'[u] = IF writesEax[u] THEN r ELSE reply[u]
  BY DEF Deliver, TypeOK
<1>4. writesEax'[u] = TRUE /\ timeoutEax'[u] = "timeout"
  BY DEF Deliver, TypeOK
<1>5. reply'[u] \in Fits[asked[u]]
  <2>1. CASE asked[u] = "none"
    <3>1. writesEax[u] = FALSE /\ reply[u] = "own"
      BY <1>1, <2>1 DEF Asking
    <3> QED  BY <1>3, <2>1, <3>1, FitsEach
  <2>2. CASE asked[u] # "none"
    <3>1. writesEax[u] = TRUE
      BY <1>1, <2>2 DEF Asking
    <3>2. timeoutEax[u] = IF asked[u] = "bool" THEN "false" ELSE "timeout"
      BY <1>1 DEF Asking
    <3> QED  BY <1>2, <1>3, <2>2, <3>1, <3>2, FitsEach
  <2> QED  BY <2>1, <2>2
<1>6. \A v \in Thread \ {u} :
         /\ waitObj'[v] = waitObj[v] /\ writesEax'[v] = writesEax[v]
         /\ timeoutEax'[v] = timeoutEax[v] /\ reply'[v] = reply[v]
  BY DEF Deliver, TypeOK
<1> QED  BY <1>2, <1>4, <1>5, <1>6 DEF Answered

(* Nobody waits initially.                                                 *)
LEMMA WaitsInit == Init => WaitsKept
<1> SUFFICES ASSUME Init
             PROVE  WaitsKept
  OBVIOUS
<1>1. \A t \in Thread : state[t] # "Blocked" /\ asked[t] = "none" /\ reply[t] = "own"
                         /\ timeoutEax[t] = "timeout"
  BY DEF Init
<1>2. \A t \in Thread : writesEax[t] = TRUE
  BY DEF Init
<1> QED  BY <1>1, <1>2 DEF WaitsKept, Answered, Fits

(* A wake-up answers in the words that were asked for.                     *)
LEMMA WaitsHost ==
  ASSUME TypeOK, WaitsKept, Host
  PROVE  WaitsKept'
<1>1. ASSUME NEW u \in Thread, state[u] = "Ready", state' = [state EXCEPT ![u] = "Running"],
             UNCHANGED <<waitObj, writesEax, timeoutEax, reply, asked, got, midway>>
      PROVE  WaitsKept'
  <2>1. \A v \in Thread \ {u} : SameWait(v)
    BY <1>1 DEF SameWait, TypeOK
  <2>2. state'[u] # "Blocked" /\ Answered(u)'
    BY <1>1 DEF TypeOK, WaitsKept, Answered
  <2> QED  BY <2>1, <2>2, OneWait
<1>2. ASSUME NEW u \in Thread, NEW x \in {"Ready", "Running"}, state[u] = "Blocked",
             NEW r \in {"taken", timeoutEax[u]}, Deliver(u, r),
             state' = [state EXCEPT ![u] = x],
             \A v \in Thread \ {u} : got'[v] = got[v], midway' = midway
      PROVE  WaitsKept'
  <2>1. \A v \in Thread \ {u} : state'[v] = state[v]
    BY <1>2 DEF TypeOK
  <2>2. Answered(u)' /\ \A v \in Thread \ {u} : SameWait(v)
    BY <1>2, <2>1, Delivered DEF SameWait
  <2>3. state'[u] # "Blocked"
    BY <1>2 DEF TypeOK
  <2> QED  BY <2>2, <2>3, OneWait
<1>3. ASSUME UNCHANGED <<state, waitObj, writesEax, timeoutEax, reply, asked, got, midway>>
      PROVE  WaitsKept'
  BY <1>3 DEF WaitsKept, Asking, Answered
<1>4. CASE RunPinned
  BY <1>1, <1>4 DEF RunPinned, Pinned, BeginSlice, TypeOK, objVars, pinVars
<1>5. CASE StartPoll \/ StopsAtTop \/ PickNone
  BY <1>3, <1>5 DEF StartPoll, StopsAtTop, PickNone, RunStops, waitVars, objVars, pinVars
<1>6. CASE PickNext
  <2>1. PICK u \in ReadySet : BeginSlice(u)
    BY <1>6, Zenon DEF PickNext
  <2>2. u \in Thread /\ state[u] = "Ready"
    BY <2>1 DEF ReadySet, TypeOK
  <2> QED  BY <1>1, <1>6, <2>1, <2>2 DEF PickNext, BeginSlice, waitVars, objVars, pinVars
<1>7. CASE PickIdle
  <2>1. PICK u \in Timed : Deliver(u, timeoutEax[u]) /\ BeginSlice(u)
    BY <1>7, Zenon DEF PickIdle
  <2>2. u \in Thread /\ state[u] = "Blocked"
    BY <2>1 DEF Timed, TypeOK
  <2> QED  BY <1>2, <1>7, <2>1, <2>2 DEF PickIdle, BeginSlice, objVars, pinVars
<1>8. ASSUME NEW u \in Thread, WakeSignal(u)
      PROVE  WaitsKept'
  <2>1. /\ state[u] = "Blocked" /\ Deliver(u, "taken") /\ state' = [state EXCEPT ![u] = "Ready"]
        /\ \E S : got' = [got EXCEPT ![u] = @ \cup (S \cap Tracked)]
        /\ midway' = midway
    BY <1>8 DEF WakeSignal, Takes, Waiting, pinVars
  <2>2. \A v \in Thread \ {u} : got'[v] = got[v]
    BY <2>1 DEF TypeOK
  <2> QED  BY <1>2, <2>1, <2>2
<1>9. ASSUME NEW u \in Thread, WakeExpired(u)
      PROVE  WaitsKept'
  BY <1>2, <1>9 DEF WakeExpired, Expires, Waiting, objVars, pinVars
<1> QED  BY <1>4, <1>5, <1>6, <1>7, <1>8, <1>9 DEF Host

(* A wait shim answers so at once, or blocks with its flags set.           *)
LEMMA WaitsGuest ==
  ASSUME TypeOK, Lives, WaitsKept, NEW t \in Thread, Guest(t)
  PROVE  WaitsKept'
<1>1. ASSUME phase = "run", cur = t
      PROVE  state[t] = "Running" /\ Answered(t)
  BY <1>1 DEF Lives, WaitsKept
<1>2. CASE SliceEnds(t)
  <2>1. /\ phase = "run" /\ cur = t /\ midway' \subseteq midway \cup {t}
        /\ \E x \in {"Ready", "Finished"} : state' = [state EXCEPT ![t] = x]
        /\ UNCHANGED <<waitObj, writesEax, timeoutEax, reply, asked, got>>
    BY <1>2 DEF SliceEnds, Preempt, Yield, ExitThread, Returns, Faults, FaultResumed, Ends,
                Runs, Boundary, waitVars, objVars, pinVars
  <2>2. \A u \in Thread \ {t} : SameWait(u)
    BY <2>1 DEF SameWait, TypeOK
  <2>3. state'[t] # "Blocked" /\ Answered(t)'
    BY <1>1, <2>1 DEF TypeOK, Answered
  <2> QED  BY <2>2, <2>3, OneWait
<1>3. CASE Signals(t)
  <2>0. PICK o \in Object : \/ SetEvent(t, o) \/ ResetEvent(t, o)
                            \/ ReleaseMutex(t, o) \/ ReleaseSemaphore(t, o)
                            \/ CritLeave(t, o)
    BY <1>3 DEF Signals
  <2>1. UNCHANGED <<state, waitObj, writesEax, timeoutEax, reply, asked, midway>>
    BY <2>0 DEF SetEvent, ResetEvent, ReleaseMutex, ReleaseSemaphore, CritLeave,
                ShimFrame, waitVars, pinVars
  <2>2. \A u \in Thread : got'[u] \subseteq got[u]
    <3>1. got' = got \/ got' = [got EXCEPT ![t] = @ \ {o}]
      BY <2>0 DEF SetEvent, ResetEvent, ReleaseMutex, ReleaseSemaphore, CritLeave
    <3> QED  BY <3>1 DEF TypeOK
  <2> QED  BY <2>1, <2>2 DEF WaitsKept, Asking, Answered
<1>4. ASSUME NEW w \in Waits, NEW kind \in Answers, WaitTake(t, w, kind)
      PROVE  WaitsKept'
  <2>1. /\ phase = "run" /\ cur = t
        /\ UNCHANGED <<state, waitObj, writesEax, timeoutEax, midway>>
        /\ \E S : got' = [got EXCEPT ![t] = @ \cup (S \cap Tracked)]
        /\ reply' = [reply EXCEPT ![t] = Direct[kind]]
        /\ asked' = [asked EXCEPT ![t] = kind]
    BY <1>4 DEF WaitTake, Runs, pinVars
  <2>2. \A u \in Thread \ {t} : SameWait(u)
    BY <2>1 DEF SameWait, TypeOK
  <2>3. Direct[kind] \in Fits[kind]
    BY ConstantTypes DEF Direct, Fits
  <2>4. state'[t] # "Blocked" /\ Answered(t)'
    BY <1>1, <2>1, <2>3 DEF TypeOK, Answered
  <2> QED  BY <2>2, <2>4, OneWait
<1>5. ASSUME NEW w \in Waits, NEW kind \in Answers, NEW ms, WaitBlock(t, w, kind, ms)
      PROVE  WaitsKept'
  <2>1. /\ phase = "run" /\ cur = t /\ ObjsOf(w) \cap Pool \cap got[t] = {}
        /\ waitObj' = [waitObj EXCEPT ![t] = w]
        /\ state' = [state EXCEPT ![t] = "Blocked"]
        /\ writesEax' = [writesEax EXCEPT ![t] = IF kind = "none" THEN FALSE ELSE @]
        /\ timeoutEax' = [timeoutEax EXCEPT ![t] = IF kind = "bool" THEN "false" ELSE @]
        /\ reply' = [reply EXCEPT ![t] = Placed[kind]]
        /\ asked' = [asked EXCEPT ![t] = kind]
        /\ midway' = midway \ {t} /\ got' = got
    BY <1>5 DEF WaitBlock, MayAsk, Boundary, Runs, objVars
  <2>2. \A u \in Thread \ {t} : SameWait(u)
    BY <2>1 DEF SameWait, TypeOK
  <2>3. writesEax[t] = TRUE /\ timeoutEax[t] = "timeout"
    BY <1>1, <2>1 DEF Answered
  <2>4. kind = "none" => Placed[kind] = "own"
    BY DEF Placed
  <2>5. /\ waitObj'[t] = w /\ asked'[t] = kind /\ reply'[t] = Placed[kind]
        /\ timeoutEax'[t] = (IF kind = "bool" THEN "false" ELSE "timeout")
    BY <2>1, <2>3 DEF TypeOK
  <2>6. writesEax'[t] = (kind # "none")
    BY <2>1, <2>3 DEF TypeOK
  <2>7. state'[t] = "Blocked" /\ Asking(t)'
    BY <2>1, <2>4, <2>5, <2>6 DEF TypeOK, Asking
  <2> QED  BY <2>2, <2>7, OneWait
<1>6. CASE OtherShims(t)
  <2>1. CASE PinOn(t) \/ PinOff(t) \/ RequestShutdown(t)
    BY <2>1 DEF PinOn, PinOff, RequestShutdown, ShimFrame, waitVars, objVars, pinVars,
                WaitsKept, Asking, Answered
  <2>2. ASSUME NEW u \in Thread, Terminate(t, u)
        PROVE  WaitsKept'
    <3>1. /\ \A v \in Thread \ {u} : SameWait(v)
          /\ state'[u] = "Finished"
      BY <2>2 DEF Terminate, SameWait, TypeOK, waitVars, objVars
    <3> QED  BY <3>1, OneWait
  <2>3. ASSUME NEW u \in Thread, Resume(t, u)
        PROVE  WaitsKept'
    <3>1. /\ \A v \in Thread \ {u} : SameWait(v)
          /\ state[u] = "New" /\ state'[u] = "Ready"
          /\ UNCHANGED <<writesEax, timeoutEax, reply, asked>>
      BY <2>3 DEF Resume, ShimFrame, SameWait, TypeOK, waitVars, objVars, pinVars
    <3>2. Answered(u)'
      BY <3>1 DEF WaitsKept, Answered
    <3> QED  BY <3>1, <3>2, OneWait
  <2> QED  BY <1>6, <2>1, <2>2, <2>3 DEF OtherShims
<1>7. ASSUME NEW s \in Suspended, NEW k \in StackSizes, Create(t, s, k)
      PROVE  WaitsKept'
  <2>1. PICK n \in 0..MaxThread : threads = 1..n
    BY DEF Lives
  <2>2. PICK u \in Thread : u = Newest /\ state[u] = "Absent"
    BY <1>7, <2>1, NewestId, ConstantTypes DEF Create, Thread, Lives
  <2>3. /\ \E x \in {"New", "Ready"} : state' = [state EXCEPT ![u] = x]
        /\ UNCHANGED <<waitObj, writesEax, timeoutEax, reply, asked, got, midway>>
    BY <1>7, <2>2 DEF Create, ShimFrame, waitVars, objVars, pinVars
  <2>4. \A v \in Thread \ {u} : SameWait(v)
    BY <2>3 DEF SameWait, TypeOK
  <2>5. state'[u] # "Blocked" /\ Answered(u)'
    BY <2>2, <2>3 DEF WaitsKept, Answered, TypeOK
  <2> QED  BY <2>4, <2>5, OneWait
<1> QED  BY <1>2, <1>3, <1>4, <1>5, <1>6, <1>7 DEF Guest, WaitCalls
----------------------------------------------------------------------------
(* Ends and stacks                                                         *)

(* The scheduler's own steps end nobody twice and make nobody.             *)
LEMMA EndsHost ==
  ASSUME TypeOK, Host
  PROVE  FinishedStays /\ UNCHANGED birthVars
<1>1. ASSUME NEW u \in Thread, state[u] # "Finished", NEW x, state' = [state EXCEPT ![u] = x],
             UNCHANGED exitCode
      PROVE  FinishedStays
  BY <1>1 DEF FinishedStays, TypeOK
<1>2. CASE RunPinned
  BY <1>1, <1>2 DEF RunPinned, Pinned, BeginSlice, TypeOK, birthVars
<1>3. CASE StartPoll \/ StopsAtTop \/ PickNone
  BY <1>3 DEF StartPoll, StopsAtTop, PickNone, RunStops, FinishedStays, birthVars
<1>4. CASE PickNext
  <2>1. PICK u \in ReadySet : BeginSlice(u)
    BY <1>4, Zenon DEF PickNext
  <2>2. u \in Thread /\ state[u] = "Ready"
    BY <2>1 DEF ReadySet, TypeOK
  <2> QED  BY <1>1, <1>4, <2>1, <2>2 DEF PickNext, BeginSlice, birthVars
<1>5. CASE PickIdle
  <2>1. PICK u \in Timed : BeginSlice(u)
    BY <1>5, Zenon DEF PickIdle
  <2>2. u \in Thread /\ state[u] = "Blocked"
    BY <2>1 DEF Timed, TypeOK
  <2> QED  BY <1>1, <1>5, <2>1, <2>2 DEF PickIdle, BeginSlice, birthVars
<1>6. ASSUME NEW u \in Thread, WakeSignal(u) \/ WakeExpired(u)
      PROVE  FinishedStays /\ UNCHANGED birthVars
  BY <1>1, <1>6 DEF WakeSignal, WakeExpired, Takes, Expires, Waiting, birthVars
<1> QED  BY <1>2, <1>3, <1>4, <1>5, <1>6 DEF Host

(* A shim ends threads for good, and makes one by Create only.             *)
LEMMA EndsGuest ==
  ASSUME TypeOK, Lives, NEW t \in Thread, Guest(t)
  PROVE  /\ FinishedStays
         /\ \/ UNCHANGED birthVars
            \/ \E s \in Suspended, k \in StackSizes : Create(t, s, k)
<1>1. phase = "run" /\ cur = t => state[t] = "Running"
  BY DEF Lives
<1>2. CASE SliceEnds(t)
  <2>1. /\ phase = "run" /\ cur = t
        /\ \E x : state' = [state EXCEPT ![t] = x]
        /\ \/ UNCHANGED exitCode
           \/ \E x : exitCode' = [exitCode EXCEPT ![t] = x]
        /\ UNCHANGED birthVars
    BY <1>2, Zenon DEF SliceEnds, Preempt, Yield, ExitThread, Returns, Faults, FaultResumed, Ends,
                Runs, birthVars
  <2> QED  BY <1>1, <2>1 DEF FinishedStays, TypeOK
<1>3. CASE Signals(t)
  BY <1>3 DEF Signals, SetEvent, ResetEvent, ReleaseMutex, ReleaseSemaphore, CritLeave,
              ShimFrame, birthVars, FinishedStays
<1>4. CASE WaitCalls(t)
  <2>1. /\ phase = "run" /\ cur = t /\ UNCHANGED <<exitCode, birthVars>>
        /\ state' = state \/ state' = [state EXCEPT ![t] = "Blocked"]
    BY <1>4 DEF WaitCalls, WaitTake, WaitBlock, Runs, birthVars
  <2> QED  BY <1>1, <2>1 DEF FinishedStays, TypeOK
<1>5. CASE OtherShims(t)
  <2>1. CASE PinOn(t) \/ PinOff(t) \/ RequestShutdown(t)
    BY <2>1 DEF PinOn, PinOff, RequestShutdown, ShimFrame, birthVars, FinishedStays
  <2>2. ASSUME NEW u \in Thread, Terminate(t, u) \/ Resume(t, u)
        PROVE  FinishedStays /\ UNCHANGED birthVars
    BY <2>2 DEF Terminate, Resume, ShimFrame, birthVars, FinishedStays, TypeOK
  <2> QED  BY <1>5, <2>1, <2>2 DEF OtherShims
<1>6. ASSUME NEW s \in Suspended, NEW k \in StackSizes, Create(t, s, k)
      PROVE  FinishedStays
  <2>1. PICK n \in 0..MaxThread : threads = 1..n
    BY DEF Lives
  <2>2. PICK u \in Thread : u = Newest /\ state[u] = "Absent"
    BY <1>6, <2>1, NewestId, ConstantTypes DEF Create, Thread, Lives
  <2>3. /\ \E x : state' = [state EXCEPT ![u] = x]
        /\ UNCHANGED exitCode
    BY <1>6, <2>2 DEF Create, ShimFrame
  <2> QED  BY <2>2, <2>3 DEF FinishedStays, TypeOK
<1> QED  BY <1>2, <1>3, <1>4, <1>5, <1>6 DEF Guest

Stacks == Carved /\ StackOwned

(* Main's stack is all that is carved initially.                           *)
LEMMA StacksInit == Init => Stacks
<1> SUFFICES ASSUME Init
             PROVE  Stacks
  OBVIOUS
<1>1. /\ stackNext = StackRegion /\ threads = {Main}
      /\ base = [t \in Thread |-> IF t = Main THEN MainStack.base ELSE 0]
      /\ size = [t \in Thread |-> IF t = Main THEN MainStack.size ELSE 0]
  BY DEF Init, Unstarted
<1> DEFINE b == MainStack.base
           z == MainStack.size
<1>2. b \in Nat \ {0} /\ z \in Nat \ {0} /\ b + z <= StackRegion /\ StackRegion \in Nat \ {0}
  BY ConstantTypes
<1> HIDE DEF b, z
<1>3. /\ base = [t \in Thread |-> IF t = Main THEN b ELSE 0]
      /\ size = [t \in Thread |-> IF t = Main THEN z ELSE 0]
  BY <1>1 DEF b, z
<1>4. \A t \in Thread : IF t = Main THEN base[t] = b /\ size[t] = z ELSE base[t] = 0
  BY <1>3
<1>5. Carved
  BY <1>1, <1>2, <1>4 DEF Carved
<1>6. \A t \in threads : state[t] # "Finished" => base[t] # 0
  BY <1>1, <1>2, <1>4, ConstantTypes
<1> QED  BY <1>4, <1>5, <1>6 DEF Stacks, StackOwned

(* A created thread's stack is fresh, or one whose owner has ended.        *)
LEMMA StacksStep ==
  ASSUME TypeOK, Lives, Stacks, Next
  PROVE  Stacks'
<1>1. FinishedStays
  BY EndsHost, EndsGuest DEF Next
<1>2. CASE UNCHANGED birthVars
  <2>1. UNCHANGED <<threads, base, size, stackNext>>
    BY <1>2 DEF birthVars
  <2>2. \A t \in Thread : state'[t] # "Finished" => state[t] # "Finished"
    BY <1>1 DEF FinishedStays
  <2>3. threads \subseteq Thread
    BY DEF TypeOK
  <2> QED  BY <2>1, <2>2, <2>3 DEF Stacks, Carved, StackOwned
<1>3. ASSUME NEW t \in Thread, NEW s \in Suspended, NEW k \in StackSizes, Create(t, s, k)
      PROVE  Stacks'
  <2>1. PICK n \in 0..MaxThread : threads = 1..n
    BY DEF Lives
  <2>2. PICK x \in Thread : x = Newest /\ x \notin threads
    BY <1>3, <2>1, NewestId, ConstantTypes DEF Create, Thread
  <2>3. /\ threads' = threads \cup {x}
        /\ \A u \in Thread \ {x} : state'[u] = state[u]
    BY <1>3, <2>2 DEF Create, TypeOK
  <2>4. /\ base \in [Thread -> Nat] /\ size \in [Thread -> Nat] /\ stackNext \in Nat \ {0}
        /\ k \in Nat \ {0} /\ GuardUnits \in Nat /\ threads \subseteq Thread
        /\ base[x] = 0
    BY <2>2, ConstantTypes DEF TypeOK, Stacks, Carved
  <2>5. CASE /\ base' = [base EXCEPT ![Newest] = stackNext]
             /\ size' = [size EXCEPT ![Newest] = k]
             /\ stackNext' = stackNext + k + GuardUnits
    <3>1. /\ base'[x] = stackNext /\ size'[x] = k
          /\ \A u \in Thread \ {x} : base'[u] = base[u] /\ size'[u] = size[u]
      BY <2>2, <2>4, <2>5
    <3>2. \A u \in Thread : base[u] \in Nat /\ size[u] \in Nat
      BY <2>4
    <3>3. stackNext' \in Nat /\ stackNext' # 0 /\ stackNext + k <= stackNext'
          /\ stackNext <= stackNext'
      BY <2>4, <2>5
    <3>4. Carved'
      <4>1. ASSUME NEW u \in Thread, base'[u] # 0
            PROVE  base'[u] + size'[u] <= stackNext'
        <5>1. CASE u = x
          BY <3>1, <3>3, <5>1
        <5>2. CASE u # x
          BY <3>1, <3>2, <3>3, <4>1, <5>2, <2>4 DEF Stacks, Carved
        <5> QED  BY <5>1, <5>2
      <4>2. \A u \in Thread : u \in threads' /\ state'[u] # "Finished" => base'[u] # 0
        BY <2>3, <2>4, <3>1 DEF Stacks, Carved
      <4>3. \A u \in Thread : u \notin threads' => base'[u] = 0
        BY <2>3, <3>1 DEF Stacks, Carved
      <4> QED  BY <3>3, <4>1, <4>2, <4>3 DEF Carved
    <3>5. StackOwned'
      <4>1. \A u \in threads' : state'[u] # "Finished" => base'[u] # 0
        BY <2>3, <2>4, <3>1 DEF Stacks, Carved
      <4>2. ASSUME NEW u \in Thread, NEW v \in Thread, u # v, base'[u] # 0, base'[v] # 0
            PROVE  base'[u] + size'[u] <= base'[v] \/ base'[v] + size'[v] <= base'[u]
        <5>1. CASE u # x /\ v # x
          BY <3>1, <4>2, <5>1 DEF Stacks, StackOwned
        <5>2. CASE u = x /\ v # x
          BY <3>1, <4>2, <5>2 DEF Stacks, Carved
        <5>3. CASE u # x /\ v = x
          BY <3>1, <4>2, <5>3 DEF Stacks, Carved
        <5> QED  BY <4>2, <5>1, <5>2, <5>3
      <4> QED  BY <4>1, <4>2 DEF StackOwned
    <3> QED  BY <3>4, <3>5 DEF Stacks
  <2>6. ASSUME NEW y \in threads, state[y] = "Finished", base[y] # 0, size[y] = k,
               base' = [base EXCEPT ![Newest] = base[y], ![y] = 0],
               size' = [size EXCEPT ![Newest] = k, ![y] = 0],
               stackNext' = stackNext
        PROVE  Stacks'
    <3>1. y \in Thread /\ y # x
      BY <2>2, <2>4
    <3>2. /\ base'[x] = base[y] /\ size'[x] = size[y] /\ base'[y] = 0
          /\ \A u \in Thread \ {x, y} : base'[u] = base[u] /\ size'[u] = size[u]
      BY <2>2, <2>4, <2>6, <3>1
    <3>3. Carved'
      <4>1. ASSUME NEW u \in Thread, base'[u] # 0
            PROVE  base'[u] + size'[u] <= stackNext'
        <5>1. CASE u = x
          BY <2>6, <3>1, <3>2, <5>1 DEF Stacks, Carved
        <5>2. CASE u # x
          <6>1. u # y /\ base'[u] = base[u] /\ size'[u] = size[u]
            BY <3>2, <4>1, <5>2
          <6> QED  BY <2>6, <4>1, <6>1 DEF Stacks, Carved
        <5> QED  BY <5>1, <5>2
      <4>2. \A u \in Thread : u \in threads' /\ state'[u] # "Finished" => base'[u] # 0
        BY <2>3, <2>6, <3>1, <3>2 DEF Stacks, Carved
      <4>3. \A u \in Thread : u \notin threads' => base'[u] = 0
        BY <2>3, <3>1, <3>2 DEF Stacks, Carved
      <4> QED  BY <2>4, <2>6, <4>1, <4>2, <4>3 DEF Carved
    <3>4. StackOwned'
      <4>1. \A u \in threads' : state'[u] # "Finished" => base'[u] # 0
        BY <2>3, <2>4, <2>6, <3>1, <3>2 DEF Stacks, Carved
      <4>2. ASSUME NEW u \in Thread, NEW v \in Thread, u # v, base'[u] # 0, base'[v] # 0
            PROVE  base'[u] + size'[u] <= base'[v] \/ base'[v] + size'[v] <= base'[u]
        <5>1. u # y /\ v # y
          BY <3>2, <4>2
        <5>2. CASE u # x /\ v # x
          BY <3>2, <4>2, <5>1, <5>2 DEF Stacks, StackOwned
        <5>3. CASE u = x /\ v # x
          BY <2>6, <3>1, <3>2, <4>2, <5>1, <5>3 DEF Stacks, StackOwned
        <5>4. CASE u # x /\ v = x
          BY <2>6, <3>1, <3>2, <4>2, <5>1, <5>4 DEF Stacks, StackOwned
        <5> QED  BY <4>2, <5>2, <5>3, <5>4
      <4> QED  BY <4>1, <4>2 DEF StackOwned
    <3> QED  BY <3>3, <3>4 DEF Stacks
  <2> QED  BY <1>3, <2>5, <2>6, StackOfNew
<1> QED  BY <1>2, <1>3, EndsHost, EndsGuest DEF Next
----------------------------------------------------------------------------
(* The wake-up loop and the end of run()                                   *)

(* Who was passed stays unservable while the others are served.            *)
LEMMA PassedByStep ==
  ASSUME TypeOK, PassedBy, Next
  PROVE  PassedBy'
<1>1. ASSUME NEW u \in Thread, Reaches(u), NEW v \in Thread, v < u
      PROVE  ~Takes(v)
  <2>1. phase = "wake" /\ \A x \in cursor..(u - 1) : ~Servable(x)
    BY <1>1 DEF Reaches
  <2>2. v < cursor \/ v \in cursor..(u - 1)
    BY <1>1, ConstantTypes DEF TypeOK
  <2> QED  BY <2>1, <2>2 DEF PassedBy, Servable
<1>2. ASSUME NEW u \in Thread, WakeSignal(u)
      PROVE  PassedBy'
  <2> DEFINE S == Claimed(waitObj[u], Winner(waitObj[u], u, cnt, own, Finished))
  <2>1. /\ Reaches(u) /\ Waiting(u) /\ CanTake(u, waitObj[u]) /\ cursor' = u + 1
        /\ cnt' = CntAfter(S, cnt) /\ own' = OwnAfter(S, u, own)
        /\ waitObj' = [waitObj EXCEPT ![u] = NoWait]
        /\ state' = [state EXCEPT ![u] = "Ready"] /\ threads' = threads
    BY <1>2 DEF WakeSignal, Takes, Deliver, birthVars
  <2>2. state[u] = "Blocked" /\ waitObj[u] \in Waits
    BY <2>1 DEF Waiting, TypeOK
  <2>3. \A o \in S : IsReady(o, u, cnt, own, Finished)
    BY <2>1, <2>2, TakeType
  <2> HIDE DEF S
  <2>4. Finished' = Finished
    BY <2>1, <2>2 DEF Finished, TypeOK
  <2>5. ~Takes(u)'
    BY <2>1 DEF Takes, Waiting, TypeOK
  <2>6. ASSUME NEW v \in Thread, v < u
        PROVE  ~Takes(v)'
    <3>1. ~Takes(v) /\ v # u
      BY <1>1, <2>1, <2>6, ConstantTypes
    <3>2. waitObj'[v] = waitObj[v] /\ (Waiting(v)' <=> Waiting(v))
      BY <2>1, <3>1 DEF Waiting, TypeOK
    <3>3. CASE Waiting(v)
      <4>1. waitObj[v] \in Waits /\ ~CanAcquire(waitObj[v], v, cnt, own, Finished)
        BY <3>1, <3>3 DEF Takes, Waiting, CanTake, TypeOK
      <4>2. ASSUME NEW o \in ObjsOf(waitObj[v]), IsReady(o, v, cnt', own', Finished)
            PROVE  IsReady(o, v, cnt, own, Finished)
        <5>1. o \in Object /\ cnt \in [Object -> Nat]
          BY <4>1, WaitObjects DEF TypeOK
        <5> QED  BY <2>1, <2>3, <3>1, <4>2, <5>1, AcquireTakes
      <4>3. ~CanAcquire(waitObj[v], v, cnt', own', Finished)
        BY <4>1, <4>2, StillBlocked
      <4> QED  BY <2>4, <3>2, <4>3 DEF Takes, CanTake
    <3> QED  BY <3>2, <3>3 DEF Takes
  <2>7. \A v \in Thread : v < u + 1 => v = u \/ v < u
    BY ConstantTypes
  <2> QED  BY <2>1, <2>5, <2>6, <2>7 DEF PassedBy
<1>3. ASSUME NEW u \in Thread, WakeExpired(u)
      PROVE  PassedBy'
  <2>1. /\ Reaches(u) /\ Waiting(u) /\ cursor' = u + 1
        /\ waitObj' = [waitObj EXCEPT ![u] = NoWait]
        /\ state' = [state EXCEPT ![u] = "Ready"] /\ UNCHANGED <<threads, cnt, own>>
    BY <1>3 DEF WakeExpired, Expires, Deliver, birthVars, objVars
  <2>2. Finished' = Finished
    BY <2>1 DEF Finished, Waiting, TypeOK
  <2>3. ~Takes(u)'
    BY <2>1 DEF Takes, Waiting, TypeOK
  <2>4. ASSUME NEW v \in Thread, v < u
        PROVE  ~Takes(v)'
    <3>1. ~Takes(v) /\ v # u
      BY <1>1, <2>1, <2>4, ConstantTypes
    <3>2. waitObj'[v] = waitObj[v] /\ (Waiting(v)' <=> Waiting(v))
      BY <2>1, <3>1 DEF Waiting, TypeOK
    <3> QED  BY <2>1, <2>2, <3>1, <3>2 DEF Takes, CanTake
  <2>5. \A v \in Thread : v < u + 1 => v = u \/ v < u
    BY ConstantTypes
  <2> QED  BY <2>1, <2>3, <2>4, <2>5 DEF PassedBy
<1>4. CASE StartPoll
  <2>1. cursor' = 1 /\ \A v \in Thread : ~(v < 1)
    BY <1>4, ConstantTypes DEF StartPoll
  <2> QED  BY <2>1 DEF PassedBy
<1>5. CASE RunPinned \/ StopsAtTop \/ PickNext \/ PickIdle \/ PickNone
  <2>1. phase' # "wake"
    BY <1>5 DEF RunPinned, StopsAtTop, PickNext, PickIdle, PickNone, RunStops, BeginSlice
  <2> QED  BY <2>1 DEF PassedBy
<1>6. ASSUME NEW t \in Thread, Guest(t)
      PROVE  PassedBy'
  <2>1. phase' # "wake"
    BY <1>6 DEF Guest, SliceEnds, Preempt, Yield, ExitThread, Returns, Faults, FaultResumed, Ends,
                Signals, SetEvent, ResetEvent, ReleaseMutex, ReleaseSemaphore, CritLeave,
                WaitCalls, WaitTake, WaitBlock, OtherShims, PinOn, PinOff, RequestShutdown,
                Terminate, Resume, Create, ShimFrame, Runs
  <2> QED  BY <2>1 DEF PassedBy
<1> QED  BY <1>2, <1>3, <1>4, <1>5, <1>6 DEF Next, Host

(* run() is out of its loop for good, and only four returns give a reason. *)
LEMMA ReasonStep ==
  ASSUME Lives, Next
  PROVE  reason = "none" /\ (reason' = reason \/ StopsAtTop \/ PickNone)
<1>1. CASE Host
  <2>1. phase # "done"
    BY <1>1 DEF Host, RunPinned, StartPoll, StopsAtTop, PickNext, PickIdle, PickNone, Polled,
                WakeSignal, WakeExpired, Reaches
  <2>2. reason' = reason \/ StopsAtTop \/ PickNone
    BY <1>1 DEF Host, RunPinned, StartPoll, PickNext, PickIdle, WakeSignal, WakeExpired, endVars
  <2> QED  BY <2>1, <2>2 DEF Lives
<1>2. ASSUME NEW t \in Thread, Guest(t)
      PROVE  reason = "none" /\ reason' = reason
  <2>1. phase = "run" /\ reason' = reason
    BY <1>2 DEF Guest, SliceEnds, Preempt, Yield, ExitThread, Returns, Faults, FaultResumed, Ends,
                Signals, SetEvent, ResetEvent, ReleaseMutex, ReleaseSemaphore, CritLeave,
                WaitCalls, WaitTake, WaitBlock, OtherShims, PinOn, PinOff, RequestShutdown,
                Terminate, Resume, Create, ShimFrame, Runs, endVars
  <2> QED  BY <2>1 DEF Lives
<1> QED  BY <1>1, <1>2 DEF Next

(* When nobody can be picked nobody can ever go on: the loop has passed    *)
(* every waiter by, no deadline is pending, and nobody else is left to     *)
(* give anything.                                                          *)
LEMMA StuckStep ==
  ASSUME TypeOK, Lives, WaitsKept, PassedBy, Next
  PROVE  StopsWhenStuck'
<1>1. CASE PickNone
  <2>1. /\ phase = "wake" /\ \A v \in cursor..MaxThread : ~Servable(v)
        /\ \A v \in threads : state[v] # "Ready"
        /\ \A v \in threads : state[v] = "Blocked" => left[v] = Forever
        /\ UNCHANGED <<state, left, waitObj, threads, cnt, own>>
        /\ reason' = IF threads \subseteq Finished THEN "all finished" ELSE "deadlock"
    BY <1>1 DEF PickNone, Polled, ReadySet, Timed, RunStops, waitVars, objVars, birthVars
  <2>2. ASSUME NEW t \in threads, state[t] \notin {"Finished", "New"}
        PROVE  /\ state[t] = "Blocked" /\ left[t] = Forever /\ ~CanTake(t, waitObj[t])
               /\ reason' = "deadlock"
    <3>1. t \in Thread
      BY DEF TypeOK
    <3>2. state[t] = "Blocked"
      BY <2>1, <2>2, <3>1 DEF Lives, TypeOK, States
    <3>3. ~Takes(t)
      <4>1. t < cursor \/ t \in cursor..MaxThread
        BY <3>1, ConstantTypes DEF TypeOK, Thread
      <4> QED  BY <2>1, <3>1, <4>1 DEF PassedBy, Servable
    <3>4. waitObj[t] # NoWait
      BY <3>1, <3>2, WaitObjects DEF WaitsKept, Asking
    <3>5. ~CanTake(t, waitObj[t])
      BY <3>2, <3>3, <3>4 DEF Takes, Waiting
    <3>6. t \notin Finished
      BY <2>2 DEF Finished
    <3> QED  BY <2>1, <3>2, <3>5, <3>6
  <2>3. \A t : CanTake(t, waitObj[t])' <=> CanTake(t, waitObj[t])
    BY <2>1 DEF CanTake, Finished
  <2> QED  BY <2>1, <2>2, <2>3 DEF StopsWhenStuck
<1>2. CASE ~PickNone
  <2>1. reason' \notin {"deadlock", "all finished"}
    BY <1>2, ReasonStep DEF StopsAtTop, RunStops
  <2> QED  BY <2>1 DEF StopsWhenStuck
<1> QED  BY <1>1, <1>2
----------------------------------------------------------------------------
(* Every instance                                                          *)

CoopInv ==
  /\ TypeOK /\ Lives /\ WaitsKept /\ Sync!Inv
  /\ Stacks /\ PassedBy /\ StopsWhenStuck

(* Every step keeps the types, given that sections have owners.            *)
LEMMA TypeStep ==
  ASSUME TypeOK, Lives, Sync!Inv, [Next]_vars
  PROVE  TypeOK'
<1>1. CASE UNCHANGED vars
  BY <1>1 DEF vars, TypeOK
<1>2. ASSUME NEW t \in Thread, Guest(t)
      PROVE  TypeOK'
  <2>1. PICK n \in 0..MaxThread : threads = 1..n
    BY DEF Lives
  <2> QED  BY <1>2, <2>1, SectionsCounted, TypeSliceEnds, TypeSignals, TypeWaitCalls,
              TypeOtherShims, TypeCreate DEF Guest
<1> QED  BY <1>1, <1>2, TypeHost DEF Next

(* The invariant holds initially,                                          *)
LEMMA CoopInit == Init => CoopInv
<1>1. Init => PassedBy /\ StopsWhenStuck
  BY DEF Init, Unstarted, PassedBy, StopsWhenStuck
<1> QED  BY <1>1, TypeInit, LivesInit, WaitsInit, SyncInvInit, StacksInit DEF CoopInv

(* and every step keeps it.                                                *)
LEMMA CoopStep == CoopInv /\ [Next]_vars => CoopInv'
<1> SUFFICES ASSUME CoopInv, [Next]_vars
             PROVE  CoopInv'
  OBVIOUS
<1> USE DEF CoopInv
<1>1. TypeOK' /\ Sync!Inv'
  BY TypeStep, SyncInvStep
<1>2. CASE UNCHANGED vars
  <2>1. Lives' /\ PassedBy' /\ Stacks'
    BY <1>2 DEF vars, Lives, PassedBy, Takes, Waiting, CanTake, Finished,
                Stacks, Carved, StackOwned
  <2>2. WaitsKept' /\ StopsWhenStuck'
    BY <1>2 DEF vars, WaitsKept, Asking, Answered, StopsWhenStuck, CanTake, Finished
  <2> QED  BY <1>1, <2>1, <2>2
<1>3. CASE Next
  <2>1. Lives' /\ WaitsKept'
    BY <1>3, LivesHost, LivesGuest, WaitsHost, WaitsGuest DEF Next
  <2> QED  BY <1>1, <1>3, <2>1, StacksStep, PassedByStep, StuckStep
<1> QED  BY <1>2, <1>3

(* The invariant of the argument holds in every state of every instance.   *)
THEOREM CoopSound == Spec => []CoopInv
BY CoopInit, CoopStep, PTL DEF Spec

(* The variables keep their types.                                         *)
THEOREM CoopTypes == Spec => []TypeOK
<1>1. CoopInv => TypeOK
  BY DEF CoopInv
<1> QED  BY <1>1, CoopSound, PTL

(* Every wait returns a value its caller may be told, whichever of the     *)
(* three wake-up paths of pick_ready ends it.                              *)
THEOREM RepliesFit == Spec => []ReplyFits
<1>1. CoopInv => ReplyFits
  BY DEF CoopInv, TypeOK, WaitsKept, Answered, ReplyFits
<1> QED  BY <1>1, CoopSound, PTL

(* Stacks are recycled among the threads that ended and never shared.      *)
THEOREM StacksDisjoint == Spec => []StackOwned
<1>1. CoopInv => StackOwned
  BY DEF CoopInv, Stacks
<1> QED  BY <1>1, CoopSound, PTL

(* run() speaks of a deadlock, or of an end, only when nobody can go on.   *)
THEOREM VerdictTrue == Spec => []StopsWhenStuck
<1>1. CoopInv => StopsWhenStuck
  BY DEF CoopInv
<1> QED  BY <1>1, CoopSound, PTL

(* The cooperative backend serves the guest exactly as the abstract        *)
(* objects do: what a wake-up takes is what its waiter asked for.          *)
THEOREM Refinement == Spec => ImplementsSync
<1>1. CoopInv /\ [Next]_vars => [Sync!Next]_(Sync!vars)
  BY Serves DEF CoopInv
<1> QED  BY <1>1, ServesInit, CoopSound, PTL DEF Spec, ImplementsSync, Sync!Spec
----------------------------------------------------------------------------
(* The pin                                                                 *)

(* One thread at a time is in a DllMain, as the loader lock has it: there  *)
(* is one no_preempt_thread_, which a second caller would take from the    *)
(* first.                                                                  *)
OneLoader == \A t, u \in inDllMain : t = u

(* The pin is of the thread in its DllMain; and while the others are       *)
(* polled, that thread is not waiting for its turn after a time slice.     *)
PinState ==
  /\ \A t \in inDllMain : pin = t
  /\ phase = "wake" /\ cur \in inDllMain \cap midway => state[cur] # "Ready"

(* Every step keeps PinState while one thread is in a DllMain.             *)
LEMMA PinStep ==
  ASSUME OneLoader, OneLoader', TypeOK, WaitsKept, PinState, [Next]_vars
  PROVE  PinState'
<1>1. CASE UNCHANGED vars
  BY <1>1 DEF vars, PinState
<1>2. ASSUME UNCHANGED <<pin, inDllMain>>, phase' # "wake"
      PROVE  PinState'
  BY <1>2 DEF PinState
<1>3. CASE RunPinned \/ StopsAtTop \/ PickNext \/ PickIdle \/ PickNone
  BY <1>2, <1>3 DEF RunPinned, StopsAtTop, PickNext, PickIdle, PickNone, RunStops, BeginSlice,
                    pinVars
<1>4. CASE StartPoll
  <2>1. UNCHANGED <<pin, inDllMain, midway, cur, state>> /\ ~Pinned
    BY <1>4 DEF StartPoll, pinVars
  <2>2. cur \in inDllMain => state[cur] # "Ready"
    BY <2>1, ConstantTypes DEF PinState, Pinned, TypeOK
  <2> QED  BY <2>1, <2>2 DEF PinState
<1>5. ASSUME NEW u \in Thread, WakeSignal(u) \/ WakeExpired(u)
      PROVE  PinState'
  <2>1. /\ phase = "wake" /\ state[u] = "Blocked" /\ state' = [state EXCEPT ![u] = "Ready"]
        /\ UNCHANGED <<pin, inDllMain, midway, cur>>
    BY <1>5 DEF WakeSignal, WakeExpired, Reaches, Takes, Expires, Waiting, pinVars
  <2>2. u \notin midway
    BY <2>1 DEF WaitsKept, Asking
  <2>3. cur \in inDllMain \cap midway => state'[cur] # "Ready"
    BY <2>1, <2>2 DEF PinState, TypeOK
  <2> QED  BY <2>1, <2>3 DEF PinState
<1>6. ASSUME NEW t \in Thread, Guest(t)
      PROVE  PinState'
  <2>1. phase' # "wake"
    BY <1>6 DEF Guest, SliceEnds, Preempt, Yield, ExitThread, Returns, Faults, FaultResumed, Ends,
                Signals, SetEvent, ResetEvent, ReleaseMutex, ReleaseSemaphore, CritLeave,
                WaitCalls, WaitTake, WaitBlock, OtherShims, PinOn, PinOff, RequestShutdown,
                Terminate, Resume, Create, ShimFrame, Runs
  <2>2. CASE PinOn(t)
    <3>1. pin' = t /\ inDllMain' = inDllMain \cup {t}
      BY <2>2 DEF PinOn
    <3>2. \A u \in inDllMain' : u = t
      BY <3>1 DEF OneLoader
    <3> QED  BY <2>1, <3>1, <3>2 DEF PinState
  <2>3. CASE PinOff(t)
    <3>1. t \in inDllMain /\ inDllMain' = inDllMain \ {t}
      BY <2>3 DEF PinOff
    <3>2. inDllMain' = {}
      BY <3>1 DEF OneLoader
    <3> QED  BY <2>1, <3>2 DEF PinState
  <2>4. CASE ~PinOn(t) /\ ~PinOff(t)
    <3>1. pin' = pin /\ inDllMain' \subseteq inDllMain
      BY <1>6, <2>4
         DEF Guest, SliceEnds, Preempt, Yield, ExitThread, Returns, Faults, FaultResumed, Ends,
             Signals, SetEvent, ResetEvent, ReleaseMutex, ReleaseSemaphore, CritLeave,
             WaitCalls, WaitTake, WaitBlock, OtherShims, RequestShutdown, Terminate, Resume,
             Create, Boundary, pinVars
    <3> QED  BY <2>1, <3>1 DEF PinState
  <2> QED  BY <2>2, <2>3, <2>4
<1> QED  BY <1>1, <1>3, <1>4, <1>5, <1>6 DEF Next, Host

(* A thread that ended stays so and keeps its code, for any threads.       *)
THEOREM EndsAreFinal == Spec => [][FinishedStays]_vars
<1>1. CoopInv /\ [Next]_vars => [FinishedStays]_vars
  BY EndsHost, EndsGuest DEF CoopInv, Next
<1> QED  BY <1>1, CoopSound, PTL DEF Spec

(* As long as one thread at a time is in a DllMain, one that its time      *)
(* slice cuts there is the next to run (set_no_preempt, pick_ready).       *)
THEOREM PinIsKept == Spec /\ []OneLoader => EndedAndPinned
<1>1. Init => PinState
  BY DEF Init, PinState
<1>2. CoopInv /\ OneLoader /\ OneLoader' /\ PinState /\ [Next]_vars => PinState'
  BY PinStep DEF CoopInv
<1>3. CoopInv /\ PinState /\ [Next]_vars => [FinishedStays /\ PinKept]_vars
  <2> SUFFICES ASSUME CoopInv, PinState, Next
               PROVE  FinishedStays /\ PinKept
    OBVIOUS
  <2>1. FinishedStays
    BY EndsHost, EndsGuest DEF CoopInv, Next
  <2>2. ASSUME NEW t \in inDllMain \cap midway, phase # "run", phase' = "run", cur = t,
               state[t] = "Ready"
        PROVE  cur' = t
    <3>1. phase # "wake" /\ pin = t
      BY <2>2 DEF PinState
    <3>2. RunPinned
      BY <2>2, <3>1 DEF Next, Host, StartPoll, StopsAtTop, PickNext, PickIdle, PickNone, Polled,
                RunStops, WakeSignal, WakeExpired, Reaches,
                Guest, SliceEnds, Preempt, Yield, ExitThread, Returns, Faults, FaultResumed, Ends,
                Signals, SetEvent, ResetEvent, ReleaseMutex, ReleaseSemaphore, CritLeave,
                WaitCalls, WaitTake, WaitBlock, OtherShims, PinOn, PinOff, RequestShutdown,
                Terminate, Resume, Create, Runs
    <3> QED  BY <3>1, <3>2 DEF RunPinned, BeginSlice
  <2> QED  BY <2>1, <2>2 DEF PinKept
<1> QED  BY <1>1, <1>2, <1>3, CoopSound, PTL DEF Spec, EndedAndPinned
============================================================================
