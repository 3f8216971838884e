---------------------------- MODULE SyncObjects ----------------------------
(***************************************************************************)
(* What the wait functions promise to the guest, whichever scheduler       *)
(* backend serves them (guest_thread.h: "Two backends, ONE API"): an       *)
(* acquisition consumes all the objects of a wait at once, only when they  *)
(* are all available, on behalf of a thread that then holds them; nothing  *)
(* else consumes, and a wait that gives up consumes nothing.               *)
(*                                                                         *)
(* `holds' is the tracked objects each guest thread may believe it owns.   *)
(***************************************************************************)
EXTENDS GuestSync, FiniteSetTheorems, WellFoundedInduction, TLAPS

VARIABLES cnt, own, holds, fin
vars == <<cnt, own, holds, fin>>

Init ==
  /\ cnt = Tokens
  /\ own = [o \in Object |-> NoThread]
  /\ holds = [t \in Thread |-> {}]
  /\ fin = {}

(* A wait of t succeeds.                                                   *)
Acquire(t, w) ==
  /\ CanAcquire(w, t, cnt, own, fin)
  /\ LET S == Claimed(w, Winner(w, t, cnt, own, fin))
     IN /\ S \cap Pool \cap holds[t] = {}
        /\ cnt' = CntAfter(S, cnt)
        /\ own' = OwnAfter(S, t, own)
        /\ holds' = [holds EXCEPT ![t] = @ \cup (S \cap Tracked)]
  /\ UNCHANGED fin

(* SetEvent, and ReleaseSemaphore on a semaphore anyone may post.          *)
Signal(o) ==
  /\ o \notin Pool
  /\ \/ Kind[o] \in {"auto", "manual"} /\ cnt' = [cnt EXCEPT ![o] = 1]
     \/ /\ Kind[o] = "sema"
        /\ \E n \in (cnt[o] + 1)..MaxCount[o] : cnt' = [cnt EXCEPT ![o] = n]
  /\ UNCHANGED <<own, holds, fin>>

(* ResetEvent and PulseEvent.                                              *)
Clear(o) ==
  /\ o \notin Pool
  /\ Kind[o] \in {"auto", "manual"}
  /\ cnt' = [cnt EXCEPT ![o] = 0]
  /\ UNCHANGED <<own, holds, fin>>

(* A holder gives back a lock of Pool.                                     *)
Return(t, o) ==
  /\ o \in Pool \cap holds[t]
  /\ cnt' = [cnt EXCEPT ![o] = @ + 1]
  /\ holds' = [holds EXCEPT ![t] = @ \ {o}]
  /\ UNCHANGED <<own, fin>>

(* LeaveCriticalSection by the owner.                                      *)
Leave(t, o) ==
  /\ Kind[o] = "crit" /\ o \in holds[t]
  /\ cnt' = [cnt EXCEPT ![o] = @ - 1]
  /\ IF cnt[o] = 1
     THEN /\ own' = [own EXCEPT ![o] = NoThread]
          /\ holds' = [holds EXCEPT ![t] = @ \ {o}]
     ELSE UNCHANGED <<own, holds>>
  /\ UNCHANGED fin

(* Threads end; the promise says nothing about when.                       *)
Lifecycle ==
  /\ fin' \in SUBSET Thread
  /\ UNCHANGED <<cnt, own, holds>>

Next ==
  \/ \E t \in Thread, w \in Waits : Acquire(t, w)
  \/ \E o \in Object : Signal(o) \/ Clear(o)
  \/ \E t \in Thread, o \in Object : Return(t, o) \/ Leave(t, o)
  \/ Lifecycle

Spec == Init /\ [][Next]_vars
----------------------------------------------------------------------------
(* What the promise amounts to                                             *)

TypeOK ==
  /\ cnt \in [Object -> Nat]
  /\ own \in [Object -> Thread \cup {NoThread}]
  /\ holds \in [Thread -> SUBSET Tracked]
  /\ fin \subseteq Thread

(* Who holds o.                                                            *)
HoldersOf(o) == {t \in Thread : o \in holds[t]}

(* What is available and what is held add up to what there was.           *)
TokensKept == \A o \in Pool : cnt[o] + Cardinality(HoldersOf(o)) = Tokens[o]

(* A section is held by its owner alone, and counted while it has one.     *)
OwnerHolds ==
  \A o \in Object : Kind[o] = "crit" =>
    /\ \A t \in Thread : o \in holds[t] <=> own[o] = t
    /\ own[o] = NoThread <=> cnt[o] = 0

Inv == TypeOK /\ TokensKept /\ OwnerHolds
----------------------------------------------------------------------------
(* Waits and acquisitions, which the proofs about the schedulers rest on   *)
(* too                                                                     *)

(* A non-empty set of naturals has a least element.                        *)
LEMMA LeastNat ==
  ASSUME NEW S \in SUBSET Nat, S # {}
  PROVE  \E x \in S : \A y \in S : x <= y
<1> DEFINE R == {ss \in Nat \X Nat : ss[1] < ss[2]}
<1>0. IsWellFoundedOn(R, Nat)
  BY NatLessThanWellFounded DEF OpToRel
<1> HIDE DEF R
<1>1. PICK x \in S : \A y \in S : ~(<<y, x>> \in R)
  BY <1>0, WFMin
<1>2. \A y \in S : ~ (y < x)
  BY <1>1 DEF R
<1> QED  BY <1>2

(* The objects of a wait are objects, and a wait is not the null wait.     *)
LEMMA WaitObjects ==
  ASSUME NEW w \in Waits
  PROVE  /\ ObjsOf(w) \subseteq Object
         /\ w # NoWait
         /\ DOMAIN w.objs \subseteq Nat
         /\ 1 \in DOMAIN w.objs
<1>1. w \in [objs : Seq(Object), all : BOOLEAN] /\ w.objs # <<>>
  BY GuestSyncAssumption
<1>2. w.objs \in Seq(Object)
  BY <1>1
<1>3. DOMAIN w.objs = 1..Len(w.objs) /\ Len(w.objs) \in Nat /\ Len(w.objs) # 0
  BY <1>1, <1>2
<1>4. \A i \in DOMAIN w.objs : w.objs[i] \in Object
  BY <1>2, <1>3
<1>5. w # NoWait
  BY <1>1 DEF NoWait
<1> QED  BY <1>3, <1>4, <1>5 DEF ObjsOf

(* A wait that can be satisfied is satisfied by objects that are ready.    *)
LEMMA WinnerReady ==
  ASSUME NEW w \in Waits, NEW t, NEW cs, NEW os, NEW fs,
         CanAcquire(w, t, cs, os, fs)
  PROVE  /\ Winner(w, t, cs, os, fs) \in DOMAIN w.objs
         /\ \A o \in Claimed(w, Winner(w, t, cs, os, fs)) :
               o \in ObjsOf(w) /\ IsReady(o, t, cs, os, fs)
<1> DEFINE D == {i \in DOMAIN w.objs : IsReady(w.objs[i], t, cs, os, fs)}
           P(i) == /\ IsReady(w.objs[i], t, cs, os, fs)
                   /\ \A j \in DOMAIN w.objs :
                         IsReady(w.objs[j], t, cs, os, fs) => i <= j
<1>1. CASE w.all
  <2>1. Winner(w, t, cs, os, fs) = 1
    BY <1>1 DEF Winner
  <2>2. Claimed(w, Winner(w, t, cs, os, fs)) = ObjsOf(w)
    BY <1>1 DEF Claimed
  <2> QED  BY <1>1, <2>1, <2>2, WaitObjects DEF CanAcquire, ObjsOf
<1>2. CASE ~w.all
  <2>1. D \subseteq Nat /\ D # {}
    BY <1>2, WaitObjects DEF CanAcquire
  <2>2. PICK x \in D : \A y \in D : x <= y
    BY <2>1, LeastNat
  <2>3. \E i \in DOMAIN w.objs : P(i)
    BY <2>2
  <2>4. Winner(w, t, cs, os, fs) = CHOOSE i \in DOMAIN w.objs : P(i)
    BY <1>2 DEF Winner
  <2> HIDE DEF P
  <2>5. /\ Winner(w, t, cs, os, fs) \in DOMAIN w.objs
        /\ P(Winner(w, t, cs, os, fs))
    BY <2>3, <2>4
  <2>6. Claimed(w, Winner(w, t, cs, os, fs))
          = {w.objs[Winner(w, t, cs, os, fs)]}
    BY <1>2 DEF Claimed
  <2> QED  BY <2>5, <2>6 DEF ObjsOf, P
<1> QED  BY <1>1, <1>2

(* Acquiring leaves counts natural and owners threads.                     *)
LEMMA AcquireType ==
  ASSUME NEW w \in Waits, NEW t \in Thread, NEW cs \in [Object -> Nat],
         NEW os \in [Object -> Thread \cup {NoThread}], NEW fs,
         CanAcquire(w, t, cs, os, fs),
         NEW S, S = Claimed(w, Winner(w, t, cs, os, fs))
  PROVE  /\ CntAfter(S, cs) \in [Object -> Nat]
         /\ OwnAfter(S, t, os) \in [Object -> Thread \cup {NoThread}]
         /\ S \subseteq Object
         /\ Winner(w, t, cs, os, fs) \in Nat
<1>1. \A o \in S : o \in Object /\ IsReady(o, t, cs, os, fs)
  BY WinnerReady, WaitObjects
<1>2. \A o \in S : Consume(cs[o], Kind[o]) \in Nat
  BY <1>1 DEF IsReady, Consume
<1>3. CntAfter(S, cs) \in [Object -> Nat]
  BY <1>2 DEF CntAfter
<1>4. OwnAfter(S, t, os) \in [Object -> Thread \cup {NoThread}]
  BY DEF OwnAfter
<1> QED  BY <1>1, <1>3, <1>4, WinnerReady, WaitObjects

(* Nothing becomes ready for another thread when t acquires.               *)
LEMMA AcquireTakes ==
  ASSUME NEW t \in Thread, NEW u \in Thread, u # t,
         NEW cs \in [Object -> Nat], NEW os, NEW fs, NEW S, NEW o \in Object,
         IsReady(o, u, CntAfter(S, cs), OwnAfter(S, t, os), fs),
         \A p \in S : IsReady(p, t, cs, os, fs)
  PROVE  IsReady(o, u, cs, os, fs)
<1>1. u # NoThread /\ t # NoThread
  BY GuestSyncAssumption DEF Thread, NoThread
<1>2. CASE o \in S
  BY <1>1, <1>2 DEF IsReady, CntAfter, OwnAfter, Consume
<1>3. CASE o \notin S
  BY <1>3 DEF IsReady, CntAfter, OwnAfter
<1> QED  BY <1>2, <1>3

(* A wait cannot be satisfied if none of its objects became ready.         *)
LEMMA StillBlocked ==
  ASSUME NEW w \in Waits, NEW u, NEW cs, NEW os, NEW fs,
         NEW cnt2, NEW own2, NEW fin2,
         ~CanAcquire(w, u, cs, os, fs),
         \A o \in ObjsOf(w) :
            IsReady(o, u, cnt2, own2, fin2) => IsReady(o, u, cs, os, fs)
  PROVE  ~CanAcquire(w, u, cnt2, own2, fin2)
BY DEF CanAcquire, ObjsOf

(* The promise                                                             *)

(* There are finitely many threads, so holders can be counted.             *)
LEMMA HoldersCounted ==
  ASSUME NEW S \in SUBSET Thread
  PROVE  /\ IsFiniteSet(S) /\ Cardinality(S) \in Nat
         /\ \A t \in Thread \ S : Cardinality(S \cup {t}) = Cardinality(S) + 1
         /\ \A t \in S : Cardinality(S \ {t}) = Cardinality(S) - 1
<1>1. IsFiniteSet(Thread)
  BY GuestSyncAssumption, FS_Interval DEF Thread
<1>2. IsFiniteSet(S)
  BY <1>1, FS_Subset
<1>3. Cardinality(S) \in Nat
  BY <1>2, FS_CardinalityType
<1>4. ASSUME NEW t \in Thread \ S
      PROVE  Cardinality(S \cup {t}) = Cardinality(S) + 1
  BY <1>2, FS_AddElement
<1>5. ASSUME NEW t \in S
      PROVE  Cardinality(S \ {t}) = Cardinality(S) - 1
  BY <1>2, FS_RemoveElement
<1> QED  BY <1>2, <1>3, <1>4, <1>5

(* What the assumption says of the constants, in the form used below.      *)
LEMMA Constants ==
  /\ NoThread \notin Thread
  /\ Tokens \in [Object -> Nat] /\ MaxCount \in [Object -> Nat]
  /\ Pool \subseteq Object /\ Pool \subseteq Tracked /\ Tracked \subseteq Object
  /\ \A o \in Pool : Kind[o] \in {"auto", "sema"}
  /\ \A o \in Pool : Kind[o] = "auto" => Tokens[o] \in {0, 1}
  /\ \A o \in Object : Kind[o] = "crit" => o \in Tracked \ Pool /\ Tokens[o] = 0
<1>1. NoThread \notin Thread
  BY GuestSyncAssumption DEF Thread, NoThread
<1>2. /\ Tokens \in [Object -> Nat] /\ MaxCount \in [Object -> Nat]
      /\ Pool \subseteq Object /\ \A o \in Pool : Kind[o] \in {"auto", "sema"}
  BY GuestSyncAssumption
<1>3. /\ \A o \in Object : Kind[o] = "auto" => Tokens[o] \in {0, 1}
      /\ \A o \in Object : Kind[o] = "crit" => Tokens[o] = 0
  BY GuestSyncAssumption
<1> QED  BY <1>1, <1>2, <1>3 DEF Tracked

(* Initially nobody holds anything.                                        *)
LEMMA InvInit == Init => Inv
<1> SUFFICES ASSUME Init
             PROVE  Inv
  OBVIOUS
<1>1. TypeOK
  BY Constants DEF Init, TypeOK
<1>2. TokensKept
  <2>1. \A o \in Pool : HoldersOf(o) = {}
    BY DEF Init, HoldersOf
  <2>2. Cardinality({}) = 0
    BY FS_EmptySet
  <2> QED  BY <2>1, <2>2, Constants DEF Init, TokensKept
<1>3. OwnerHolds
  BY Constants DEF Init, OwnerHolds
<1> QED  BY <1>1, <1>2, <1>3 DEF Inv

(* A lock of Pool that t takes was free, and t is one more holder of it.   *)
LEMMA AcquireKeeps ==
  ASSUME Inv, NEW t \in Thread, NEW w \in Waits, Acquire(t, w)
  PROVE  Inv'
<1> DEFINE S == Claimed(w, Winner(w, t, cnt, own, fin))
<1>1. /\ S \cap Pool \cap holds[t] = {}
      /\ cnt' = CntAfter(S, cnt) /\ own' = OwnAfter(S, t, own)
      /\ holds' = [holds EXCEPT ![t] = @ \cup (S \cap Tracked)]
      /\ fin' = fin
  BY DEF Acquire
<1>2. /\ S \subseteq Object /\ cnt' \in [Object -> Nat]
      /\ own' \in [Object -> Thread \cup {NoThread}]
  BY <1>1, AcquireType DEF Acquire, Inv, TypeOK
<1>3. \A o \in S : IsReady(o, t, cnt, own, fin)
  BY WinnerReady DEF Acquire
<1> HIDE DEF S
<1>4. TypeOK'
  BY <1>1, <1>2 DEF Inv, TypeOK
<1>5. ASSUME NEW o \in Pool
      PROVE  cnt'[o] + Cardinality(HoldersOf(o)') = Tokens[o]
  <2>1. /\ o \in Object /\ o \in Tracked /\ Tokens[o] \in Nat /\ cnt[o] \in Nat
        /\ HoldersOf(o) \in SUBSET Thread
        /\ cnt[o] + Cardinality(HoldersOf(o)) = Tokens[o]
    BY Constants DEF Inv, TypeOK, TokensKept, HoldersOf
  <2>2. CASE o \notin S
    <3>1. cnt'[o] = cnt[o]
      BY <1>1, <2>1, <2>2 DEF CntAfter
    <3>2. HoldersOf(o)' = HoldersOf(o)
      BY <1>1, <2>2 DEF HoldersOf, Inv, TypeOK
    <3> QED  BY <2>1, <3>1, <3>2
  <2>3. CASE o \in S
    <3>1. t \notin HoldersOf(o) /\ HoldersOf(o)' = HoldersOf(o) \cup {t}
      BY <1>1, <2>1, <2>3 DEF HoldersOf, Inv, TypeOK
    <3>2. Cardinality(HoldersOf(o)') = Cardinality(HoldersOf(o)) + 1
      BY <2>1, <3>1, HoldersCounted
    <3>3. Cardinality(HoldersOf(o)) \in Nat
      BY <2>1, HoldersCounted
    <3>4. cnt[o] > 0
      BY <1>3, <2>3, Constants DEF IsReady
    <3>5. cnt'[o] = cnt[o] - 1
      <4>1. cnt'[o] = Consume(cnt[o], Kind[o])
        BY <1>1, <2>1, <2>3 DEF CntAfter
      <4>2. CASE Kind[o] = "sema"
        BY <4>1, <4>2 DEF Consume
      <4>3. CASE Kind[o] = "auto"
        <5>1. Tokens[o] \in {0, 1}
          BY <4>3, Constants
        <5> QED  BY <2>1, <3>3, <3>4, <4>1, <4>3, <5>1 DEF Consume
      <4> QED  BY <4>2, <4>3, Constants
    <3> QED  BY <2>1, <3>2, <3>3, <3>5
  <2> QED  BY <2>2, <2>3
<1>6. ASSUME NEW o \in Object, Kind[o] = "crit"
      PROVE  /\ \A u \in Thread : o \in holds'[u] <=> own'[o] = u
             /\ own'[o] = NoThread <=> cnt'[o] = 0
  <2>1. o \in Tracked /\ cnt[o] \in Nat
    BY <1>6, Constants DEF Inv, TypeOK
  <2>2. CASE o \in S
    <3>1. own[o] \in {NoThread, t} /\ own'[o] = t /\ cnt'[o] = cnt[o] + 1
      BY <1>1, <1>3, <1>6, <2>2 DEF IsReady, OwnAfter, CntAfter, Consume
    <3> QED  BY <1>1, <1>6, <2>1, <2>2, <3>1, Constants
             DEF Inv, TypeOK, OwnerHolds
  <2>3. CASE o \notin S
    BY <1>1, <1>6, <2>3 DEF Inv, TypeOK, OwnerHolds, OwnAfter, CntAfter
  <2> QED  BY <2>2, <2>3
<1> QED  BY <1>4, <1>5, <1>6 DEF Inv, TokensKept, OwnerHolds

(* A lock of Pool that t gives back has one holder less.                   *)
LEMMA ReturnKeeps ==
  ASSUME Inv, NEW t \in Thread, NEW o \in Object, Return(t, o)
  PROVE  Inv'
<1>1. /\ o \in Pool /\ o \in holds[t] /\ own' = own /\ fin' = fin
      /\ cnt' = [cnt EXCEPT ![o] = @ + 1]
      /\ holds' = [holds EXCEPT ![t] = @ \ {o}]
  BY DEF Return
<1>2. TypeOK'
  BY <1>1 DEF Inv, TypeOK
<1>3. ASSUME NEW p \in Pool
      PROVE  cnt'[p] + Cardinality(HoldersOf(p)') = Tokens[p]
  <2>1. /\ p \in Object /\ cnt[p] \in Nat /\ HoldersOf(p) \in SUBSET Thread
        /\ cnt[p] + Cardinality(HoldersOf(p)) = Tokens[p]
    BY Constants DEF Inv, TypeOK, TokensKept, HoldersOf
  <2>2. CASE p = o
    <3>1. t \in HoldersOf(p) /\ HoldersOf(p)' = HoldersOf(p) \ {t}
      BY <1>1, <2>2 DEF HoldersOf, Inv, TypeOK
    <3>2. /\ Cardinality(HoldersOf(p)') = Cardinality(HoldersOf(p)) - 1
          /\ Cardinality(HoldersOf(p)) \in Nat
      BY <2>1, <3>1, HoldersCounted
    <3>3. cnt'[p] = cnt[p] + 1
      BY <1>1, <2>2 DEF Inv, TypeOK
    <3> QED  BY <2>1, <3>2, <3>3
  <2>3. CASE p # o
    <3>1. cnt'[p] = cnt[p] /\ HoldersOf(p)' = HoldersOf(p)
      BY <1>1, <2>3 DEF HoldersOf, Inv, TypeOK
    <3> QED  BY <2>1, <3>1
  <2> QED  BY <2>2, <2>3
<1>4. OwnerHolds'
  BY <1>1, Constants DEF Inv, TypeOK, OwnerHolds
<1> QED  BY <1>2, <1>3, <1>4 DEF Inv, TokensKept

(* A mutex of Pool that somebody holds is not signalled.                   *)
LEMMA HeldIsTaken ==
  ASSUME Inv, NEW t \in Thread, NEW o \in Pool, o \in holds[t], Kind[o] = "auto"
  PROVE  cnt[o] = 0
<1>1. /\ o \in Object /\ cnt[o] \in Nat /\ HoldersOf(o) \in SUBSET Thread
      /\ cnt[o] + Cardinality(HoldersOf(o)) = Tokens[o] /\ Tokens[o] \in {0, 1}
  BY Constants DEF Inv, TypeOK, TokensKept, HoldersOf
<1>2. /\ Cardinality(HoldersOf(o) \ {t}) = Cardinality(HoldersOf(o)) - 1
      /\ Cardinality(HoldersOf(o) \ {t}) \in Nat /\ Cardinality(HoldersOf(o)) \in Nat
  <2>1. t \in HoldersOf(o) /\ HoldersOf(o) \ {t} \in SUBSET Thread
    BY DEF HoldersOf
  <2> QED  BY <1>1, <2>1, HoldersCounted
<1> QED  BY <1>1, <1>2

(* What is neither in Pool nor a critical section is nobody's.             *)
LEMMA OthersKeep ==
  ASSUME Inv, UNCHANGED <<own, holds>>, fin' \in SUBSET Thread,
         cnt' \in [Object -> Nat],
         \A o \in Object : cnt'[o] # cnt[o] => o \notin Pool /\ Kind[o] # "crit"
  PROVE  Inv'
<1>1. TypeOK' /\ OwnerHolds'
  BY DEF Inv, TypeOK, OwnerHolds
<1>2. \A o \in Pool : cnt'[o] = cnt[o] /\ HoldersOf(o)' = HoldersOf(o)
  BY Constants DEF HoldersOf
<1> QED  BY <1>1, <1>2 DEF Inv, TokensKept

(* A critical section is left by the thread it names, and by no other.     *)
LEMMA LeaveKeeps ==
  ASSUME Inv, NEW t \in Thread, NEW o \in Object, Leave(t, o)
  PROVE  Inv'
<1>1. /\ Kind[o] = "crit" /\ o \in holds[t] /\ fin' = fin
      /\ cnt' = [cnt EXCEPT ![o] = @ - 1]
  BY DEF Leave
<1>2. own[o] = t /\ cnt[o] \in Nat \ {0} /\ o \notin Pool
  BY <1>1, Constants DEF Inv, TypeOK, OwnerHolds
<1>3. CASE cnt[o] = 1
  <2>1. /\ own' = [own EXCEPT ![o] = NoThread]
        /\ holds' = [holds EXCEPT ![t] = @ \ {o}]
    BY <1>3 DEF Leave
  <2>2. TypeOK'
    BY <1>1, <1>2, <2>1 DEF Inv, TypeOK
  <2>3. OwnerHolds'
    BY <1>1, <1>2, <1>3, <2>1, Constants DEF Inv, TypeOK, OwnerHolds
  <2>4. \A p \in Pool : cnt'[p] = cnt[p] /\ HoldersOf(p)' = HoldersOf(p)
    BY <1>1, <1>2, <2>1 DEF HoldersOf, Inv, TypeOK
  <2> QED  BY <2>2, <2>3, <2>4 DEF Inv, TokensKept
<1>4. CASE cnt[o] # 1
  <2>1. UNCHANGED <<own, holds>>
    BY <1>4 DEF Leave
  <2>2. TypeOK'
    BY <1>1, <1>2, <2>1 DEF Inv, TypeOK
  <2>3. OwnerHolds'
    BY <1>1, <1>2, <1>4, <2>1, Constants DEF Inv, TypeOK, OwnerHolds
  <2>4. \A p \in Pool : cnt'[p] = cnt[p] /\ HoldersOf(p)' = HoldersOf(p)
    BY <1>1, <1>2, <2>1 DEF HoldersOf, Inv, TypeOK
  <2> QED  BY <2>2, <2>3, <2>4 DEF Inv, TokensKept
<1> QED  BY <1>3, <1>4

(* Every step keeps the three of them.                                     *)
LEMMA InvStep ==
  ASSUME Inv, [Next]_vars
  PROVE  Inv'
<1>1. ASSUME NEW t \in Thread, NEW w \in Waits, Acquire(t, w)
      PROVE  Inv'
  BY <1>1, AcquireKeeps
<1>2. ASSUME NEW o \in Object, Signal(o) \/ Clear(o)
      PROVE  Inv'
  <2>1. /\ UNCHANGED <<own, holds, fin>> /\ o \notin Pool /\ Kind[o] # "crit"
        /\ \E n \in Nat : cnt' = [cnt EXCEPT ![o] = n]
    BY <1>2, Constants DEF Signal, Clear, Inv, TypeOK
  <2> QED  BY <2>1, OthersKeep DEF Inv, TypeOK
<1>3. ASSUME NEW t \in Thread, NEW o \in Object, Return(t, o) \/ Leave(t, o)
      PROVE  Inv'
  BY <1>3, ReturnKeeps, LeaveKeeps
<1>4. CASE Lifecycle
  BY <1>4, OthersKeep DEF Lifecycle, Inv, TypeOK
<1>5. CASE UNCHANGED vars
  BY <1>5, OthersKeep DEF vars, Inv, TypeOK
<1> QED  BY <1>1, <1>2, <1>3, <1>4, <1>5 DEF Next

(* The promise keeps the count of every lock of Pool equal to what it was  *)
(* created with less its holders, and every critical section with the one  *)
(* thread its owner field names.                                           *)
THEOREM PromiseSound == Spec => []Inv
BY InvInit, InvStep, PTL DEF Spec
============================================================================
