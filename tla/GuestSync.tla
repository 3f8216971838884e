----------------------------- MODULE GuestSync -----------------------------
(***************************************************************************)
(* The Win32 waitable objects of src/runtime/guest_sync.h: what makes an   *)
(* object ready for a thread, and what acquiring it consumes.  Both        *)
(* scheduler backends decide every wait through these two questions        *)
(* (Waitable::ready and Waitable::try_acquire), always inside one critical *)
(* section, so they are modelled as operators on the objects' state.       *)
(*                                                                         *)
(* The state of an object is its entry in two functions:                   *)
(*   cnt[o]  an event's `signaled' (0 or 1), a semaphore's `count', a      *)
(*           critical section's recursion `count'; 0 for the other kinds   *)
(*   own[o]  a critical section's `owner', NoThread when free              *)
(* and a thread object reads the set `fin' of the threads whose            *)
(* GuestThread::state is Finished.                                         *)
(*                                                                         *)
(* A wait is a record [objs, all]: a single-object wait is a sequence of   *)
(* length one.  WxMultiWait runs the same code on every element, and its   *)
(* result() is the index of the element acquired (0 for bWaitAll), which   *)
(* for a one-element wait is the 0 a single object returns.                *)
(***************************************************************************)
EXTENDS Integers, Sequences, FiniteSets

CONSTANTS
  MaxThread,  \* ids handed out by next_id_ are 1..MaxThread
  Object,     \* the handles the guest may use
  Kind,       \* [Object -> Kinds]
  ThreadOf,   \* [Object -> 0..MaxThread]: gt of a WxThread, 0 for other kinds
  Waits,      \* the waits the guest may ask for
  Pool,       \* mutexes (auto-reset events) and semaphores used as locks
  Tokens,     \* [Object -> Nat]: the count each object is created with
  MaxCount    \* [Object -> Nat]: a semaphore's maxc

Kinds == {"auto", "manual", "sema", "thread", "crit", "never"}

Thread   == 1..MaxThread
NoThread == 0

NoWait == [objs |-> <<>>, all |-> FALSE]     \* a null Waitable*

(* No wait lists the same handle twice: Win32 refuses such a call.         *)
ASSUME GuestSyncAssumption ==
  /\ MaxThread \in Nat \ {0}
  /\ Kind \in [Object -> Kinds]
  /\ ThreadOf \in [Object -> 0..MaxThread]
  /\ \A w \in Waits :
        /\ w \in [objs : Seq(Object), all : BOOLEAN]
        /\ w.objs # <<>>
        /\ \A i, j \in DOMAIN w.objs : w.objs[i] = w.objs[j] => i = j
  /\ Pool \subseteq {o \in Object : Kind[o] \in {"auto", "sema"}}
  /\ Tokens \in [Object -> Nat]
  /\ MaxCount \in [Object -> Nat]
  /\ \A o \in Object : Kind[o] \in {"auto", "manual"} => Tokens[o] \in {0, 1}
  /\ \A o \in Object : Kind[o] = "sema" => Tokens[o] <= MaxCount[o]
  /\ \A o \in Object : Kind[o] \in {"crit", "thread", "never"} => Tokens[o] = 0

(* The objects used under a lock discipline: critical sections, and the    *)
(* locks of Pool, which only a holder gives back.                          *)
Tracked == Pool \cup {o \in Object : Kind[o] = "crit"}
----------------------------------------------------------------------------
(* Waitable::ready of the concrete object.                                 *)
IsReady(o, t, cnt, own, fin) ==
  \/ Kind[o] \in {"auto", "manual", "sema"} /\ cnt[o] > 0
  \/ Kind[o] = "thread" /\ ThreadOf[o] \in fin
  \/ Kind[o] = "crit" /\ own[o] \in {NoThread, t}

ObjsOf(w) == {w.objs[i] : i \in DOMAIN w.objs}

(* WxMultiWait::ready.                                                     *)
CanAcquire(w, t, cnt, own, fin) ==
  IF w.all
  THEN \A i \in DOMAIN w.objs : IsReady(w.objs[i], t, cnt, own, fin)
  ELSE \E i \in DOMAIN w.objs : IsReady(w.objs[i], t, cnt, own, fin)

(* WxMultiWait::last after a successful try_acquire, as an index from 1:   *)
(* the first ready element of a wait-any; wait-all leaves last = 0.        *)
Winner(w, t, cnt, own, fin) ==
  IF w.all THEN 1
  ELSE CHOOSE i \in DOMAIN w.objs :
         /\ IsReady(w.objs[i], t, cnt, own, fin)
         /\ \A j \in DOMAIN w.objs :
               IsReady(w.objs[j], t, cnt, own, fin) => i <= j

(* What a guest that reads `i' in EAX believes it has acquired.            *)
Claimed(w, i) == IF w.all THEN ObjsOf(w) ELSE {w.objs[i]}

(* Fault: a thread's handle counts down like a semaphore.                  *)
ConsumeJoined(n, k) == IF k = "auto" THEN 0
                       ELSE IF k \in {"sema", "thread"} THEN n - 1
                       ELSE IF k = "crit" THEN n + 1
                       ELSE n

(* try_acquire of every object of S: what it does to the object's state.   *)
Consume(n, k) == IF k = "auto" THEN 0
                 ELSE IF k = "sema" THEN n - 1
                 ELSE IF k = "crit" THEN n + 1
                 ELSE n

CntAfter(S, cnt) ==
  [o \in Object |-> IF o \in S THEN Consume(cnt[o], Kind[o]) ELSE cnt[o]]

OwnAfter(S, t, own) ==
  [o \in Object |-> IF o \in S /\ Kind[o] = "crit" THEN t ELSE own[o]]
============================================================================
