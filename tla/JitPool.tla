------------------------------ MODULE JitPool ------------------------------
(***************************************************************************)
(* The mmap façade of the console build (dynarec86/shim/vita/mman_vita.c): *)
(* executable memory comes from a pool of VM segments that only grows,     *)
(* small plain memory from one reserved pool, everything else from the     *)
(* kernel block by block; a registry of fixed size tells munmap and the    *)
(* cache synchronisation which kernel block an address belongs to.         *)
(*                                                                         *)
(* An address is a kernel block and an offset in it.  VM sizes are in MiB, *)
(* plain ones in pages, as the façade rounds them.  Everything done under  *)
(* g_blk_mx is one action; what munmap and clear_cache do after giving the *)
(* lock back is a second one.  The kernel may refuse any request.          *)
(***************************************************************************)
EXTENDS Integers, FiniteSets
LOCAL INSTANCE TLC

CONSTANTS
  Thread,      \* the host threads that translate
  Uid,         \* the kernel's block ids: how many blocks it can give at once
  NoUid,
  MaxBlk,      \* DYN86_MAXBLK
  MaxSegs,     \* g_jitseg_max
  Ladder,      \* sizes a segment is asked in: g_jitseg_cap_mb and its halves
  Threshold,   \* g_jitthresh_pct
  CodeSizes,   \* sizes of executable requests
  RwLadder,    \* sizes the RW pool is asked in
  DataSizes,   \* sizes of plain requests
  MaxServe,    \* RWPOOL_MAX_SERVE
  MaxGauge     \* bound: sceKernelGetMemBlockBase fails only up to this gauge

ASSUME JitAssumption ==
  /\ NoUid \notin Uid
  /\ MaxBlk \in Nat /\ MaxSegs \in Nat \ {0} /\ Threshold \in 0..100
  /\ Ladder \subseteq Nat \ {0} /\ RwLadder \subseteq Nat \ {0}
  /\ CodeSizes \subseteq Nat \ {0} /\ DataSizes \subseteq Nat \ {0}
  /\ MaxServe \in Nat /\ MaxGauge \in Nat

(* For TLC: blocks of the kernel are interchangeable, and threads are.     *)
Symmetric == Permutations(Uid) \cup Permutations(Thread)

Slot == 1..MaxBlk
Seg == 1..MaxSegs

VARIABLES
  pool,      \* the VM pool (a record, below)
  rw,        \* the RW pool: [tried, uid, size, used]
  kernel,    \* Uid -> size of the block, 0 when not allocated
  blk,       \* g_blk
  jitCur,    \* dyn86_jit_cur
  rwCur,     \* dyn86_rw_cur
  freeing,   \* the uid munmap has taken out of the registry and not freed yet
  syncing    \* the uid of clear_cache's copy, lock given back

vars == <<pool, rw, kernel, blk, jitCur, rwCur, freeing, syncing>>

Free == [uid |-> NoUid, off |-> 0, size |-> 0, vm |-> FALSE, pool |-> FALSE]
NoSeg == [uid |-> NoUid, size |-> 0, used |-> 0]
Used(s) == blk[s].uid # NoUid

Init ==
  /\ pool = [seg |-> [i \in Seg |-> NoSeg], n |-> 0, size |-> 0, used |-> 0,
             refused |-> FALSE, full |-> FALSE, mark |-> 0]
  /\ rw = [tried |-> FALSE, uid |-> NoUid, size |-> 0, used |-> 0]
  /\ kernel = [u \in Uid |-> 0]
  /\ blk = [s \in Slot |-> Free]
  /\ jitCur = 0 /\ rwCur = 0
  /\ freeing = [t \in Thread |-> NoUid]
  /\ syncing = [t \in Thread |-> NoUid]

Idle(t) == freeing[t] = NoUid /\ syncing[t] = NoUid
----------------------------------------------------------------------------
(* The VM pool.  p is its record, k the kernel's blocks; growing has       *)
(* several outcomes, the pairs [p, k].                                     *)

Available(k) == {u \in Uid : k[u] = 0}

(* Fault: only the segment opened last is considered.                      *)
HasRoomLast(p, i, n) == i = p.n /\ p.seg[i].used + n <= p.seg[i].size

HasRoom(p, i, n) == i <= p.n /\ p.seg[i].used + n <= p.seg[i].size
Fits(p, n) == \E i \in Seg : HasRoom(p, i, n)
FirstFit(p, i, n) == HasRoom(p, i, n) /\ \A j \in Seg : HasRoom(p, j, n) => i <= j

(* p with a new segment, of w MiB in the kernel's block u.                 *)
Opened(p, u, w) ==
  [p EXCEPT !.seg = [p.seg EXCEPT ![p.n + 1] = [uid |-> u, size |-> w, used |-> 0]],
            !.n = p.n + 1,
            !.size = p.size + w,
            !.full = p.full \/ p.n + 1 >= MaxSegs]

(* Fault: any refusal freezes the pool.                                    *)
RefusalFreezes(p, eager) == [p EXCEPT !.refused = TRUE]

(* Who asked decides what a refusal stops: growth altogether, or only the  *)
(* anticipation.                                                           *)
Refusal(p, eager) ==
  IF eager THEN [p EXCEPT !.full = TRUE] ELSE [p EXCEPT !.refused = TRUE]

Grown(p, k, eager) ==
  IF p.refused THEN {[p |-> p, k |-> k]}
  ELSE IF p.n >= MaxSegs THEN {[p |-> [p EXCEPT !.full = TRUE], k |-> k]}
  ELSE {[p |-> Refusal(p, eager), k |-> k]}
         \cup {[p |-> Opened(p, u, w), k |-> [k EXCEPT ![u] = w]] :
                 u \in Available(k), w \in Ladder}

(* The pool is full enough to ask early, and has grown since it last did.  *)
Crosses(p) ==
  /\ ~p.full /\ ~p.refused /\ Threshold # 0 /\ p.size # 0
  /\ p.used * 100 >= p.size * Threshold
  /\ p.mark = 0 \/ p.used >= p.mark + 1

Anticipated(p, k) ==
  IF ~p.full /\ ~p.refused /\ Threshold # 0 /\ p.n >= MaxSegs
  THEN {[p |-> [p EXCEPT !.full = TRUE], k |-> k]}
  ELSE IF Crosses(p) THEN Grown([p EXCEPT !.mark = p.used], k, TRUE)
  ELSE {[p |-> p, k |-> k]}

Served(p, i, n) ==
  [p EXCEPT !.seg = [p.seg EXCEPT ![i] = [p.seg[i] EXCEPT !.used = p.seg[i].used + n]],
            !.used = p.used + n]

(* The pool as the request finds it: grown on demand if nothing fits.      *)
Demanded(n) ==
  IF Fits(pool, n) THEN {[p |-> pool, k |-> kernel]} ELSE Grown(pool, kernel, FALSE)
----------------------------------------------------------------------------
(* mmap                                                                    *)

FreeSlot(s) == ~Used(s) /\ \A r \in Slot : r < s => Used(r)

MapCode(t, s, n) ==
  /\ Idle(t) /\ FreeSlot(s)
  /\ \E d \in Demanded(n), i \in Seg :
       /\ FirstFit(d.p, i, n)
       /\ blk' = [blk EXCEPT ![s] =
            [uid |-> d.p.seg[i].uid, off |-> d.p.seg[i].used, size |-> n,
             vm |-> TRUE, pool |-> TRUE]]
       /\ \E a \in Anticipated(Served(d.p, i, n), d.k) : pool' = a.p /\ kernel' = a.k
  /\ jitCur' = jitCur + n
  /\ UNCHANGED <<rw, rwCur, freeing, syncing>>

(* A kernel block of its own.  The gauge is raised before the façade asks  *)
(* where the block is: if the kernel cannot say, the block is freed (after *)
(* the unlock, like munmap's) and the gauge stays.                         *)
Alone(u, n, vm) == [uid |-> u, off |-> 0, size |-> n, vm |-> vm, pool |-> FALSE]

Placed(s, k, n, vm) ==
  \E u \in Available(k) :
    /\ kernel' = [k EXCEPT ![u] = n]
    /\ blk' = [blk EXCEPT ![s] = Alone(u, n, vm)]
    /\ UNCHANGED freeing

Unplaced(t, k, n) ==
  \E u \in Available(k) :
    /\ kernel' = [k EXCEPT ![u] = n]
    /\ freeing' = [freeing EXCEPT ![t] = u]
    /\ UNCHANGED blk

MapFails(k) == kernel' = k /\ UNCHANGED <<blk, freeing>>

MapCodeAlone(t, s, n) ==
  /\ Idle(t) /\ FreeSlot(s)
  /\ \E d \in Demanded(n) :
       /\ ~Fits(d.p, n) /\ pool' = d.p
       /\ \/ Placed(s, d.k, n, TRUE) /\ jitCur' = jitCur + n
          \/ jitCur + n <= MaxGauge /\ Unplaced(t, d.k, n) /\ jitCur' = jitCur + n
          \/ MapFails(d.k) /\ UNCHANGED jitCur
  /\ UNCHANGED <<rw, rwCur, syncing>>

(* The RW pool once it has been asked for, with the kernel's blocks.       *)
Reserved ==
  IF rw.tried THEN {[r |-> rw, k |-> kernel]}
  ELSE {[r |-> [rw EXCEPT !.tried = TRUE], k |-> kernel]}
         \cup {[r |-> [tried |-> TRUE, uid |-> u, size |-> w, used |-> 0],
                k |-> [kernel EXCEPT ![u] = w]] : u \in Available(kernel), w \in RwLadder}

RwHolds(r, n) == r.uid # NoUid /\ r.used + n <= r.size

MapData(t, s, n) ==
  /\ Idle(t) /\ FreeSlot(s) /\ n <= MaxServe
  /\ \E d \in Reserved :
       /\ RwHolds(d.r, n)
       /\ rw' = [d.r EXCEPT !.used = d.r.used + n]
       /\ kernel' = d.k
       /\ blk' = [blk EXCEPT ![s] = [uid |-> d.r.uid, off |-> d.r.used, size |-> n,
                                     vm |-> FALSE, pool |-> TRUE]]
  /\ rwCur' = rwCur + n
  /\ UNCHANGED <<pool, jitCur, freeing, syncing>>

MapDataAlone(t, s, n) ==
  /\ Idle(t) /\ FreeSlot(s)
  /\ \E d \in IF n <= MaxServe THEN Reserved ELSE {[r |-> rw, k |-> kernel]} :
       /\ n <= MaxServe => ~RwHolds(d.r, n)
       /\ rw' = d.r
       /\ \/ Placed(s, d.k, n, FALSE) /\ rwCur' = rwCur + n
          \/ rwCur + n <= MaxGauge /\ Unplaced(t, d.k, n) /\ rwCur' = rwCur + n
          \/ MapFails(d.k) /\ UNCHANGED rwCur
  /\ UNCHANGED <<pool, jitCur, syncing>>
----------------------------------------------------------------------------
(* munmap: the entry under the lock, the kernel's block after it.  Blocks  *)
(* of code are given back at teardown only, when nobody translates.        *)
Lowered(cur, n) == IF cur >= n THEN cur - n ELSE cur

(* Fault: the kernel's block is freed although it is a pool's.             *)
UnmapPool(t, s) ==
  /\ Idle(t) /\ Used(s)
  /\ blk[s].vm => \A u \in Thread : Idle(u)
  /\ jitCur' = IF blk[s].vm THEN Lowered(jitCur, blk[s].size) ELSE jitCur
  /\ rwCur' = IF blk[s].vm THEN rwCur ELSE Lowered(rwCur, blk[s].size)
  /\ blk' = [blk EXCEPT ![s] = Free]
  /\ freeing' = [freeing EXCEPT ![t] = blk[s].uid]
  /\ UNCHANGED <<pool, rw, kernel, syncing>>

(* Fault: plain blocks are taken off the gauge of code, unchecked.         *)
UnmapOneGauge(t, s) ==
  /\ Idle(t) /\ Used(s)
  /\ blk[s].vm => \A u \in Thread : Idle(u)
  /\ jitCur' = jitCur - blk[s].size
  /\ blk' = [blk EXCEPT ![s] = Free]
  /\ freeing' = [freeing EXCEPT ![t] = IF blk[s].pool THEN NoUid ELSE blk[s].uid]
  /\ UNCHANGED <<pool, rw, kernel, rwCur, syncing>>

Unmap(t, s) ==
  /\ Idle(t) /\ Used(s)
  /\ blk[s].vm => \A u \in Thread : Idle(u)
  /\ jitCur' = IF blk[s].vm THEN Lowered(jitCur, blk[s].size) ELSE jitCur
  /\ rwCur' = IF blk[s].vm THEN rwCur ELSE Lowered(rwCur, blk[s].size)
  /\ blk' = [blk EXCEPT ![s] = Free]
  /\ freeing' = [freeing EXCEPT ![t] = IF blk[s].pool THEN NoUid ELSE blk[s].uid]
  /\ UNCHANGED <<pool, rw, kernel, syncing>>

FreeMemBlock(t) ==
  /\ freeing[t] # NoUid
  /\ kernel' = [kernel EXCEPT ![freeing[t]] = 0]
  /\ freeing' = [freeing EXCEPT ![t] = NoUid]
  /\ UNCHANGED <<pool, rw, blk, jitCur, rwCur, syncing>>

(* clear_cache: a copy of the entry under the lock, the synchronisation    *)
(* without it.                                                             *)
ClearCache(t, s) ==
  /\ Idle(t) /\ Used(s) /\ blk[s].vm
  /\ syncing' = [syncing EXCEPT ![t] = blk[s].uid]
  /\ UNCHANGED <<pool, rw, kernel, blk, jitCur, rwCur, freeing>>

SyncVMDomain(t) ==
  /\ syncing[t] # NoUid
  /\ syncing' = [syncing EXCEPT ![t] = NoUid]
  /\ UNCHANGED <<pool, rw, kernel, blk, jitCur, rwCur, freeing>>
----------------------------------------------------------------------------
Next ==
  \E t \in Thread :
    \/ \E s \in Slot : \/ \E n \in CodeSizes : MapCode(t, s, n) \/ MapCodeAlone(t, s, n)
                       \/ \E n \in DataSizes : MapData(t, s, n) \/ MapDataAlone(t, s, n)
                       \/ Unmap(t, s) \/ ClearCache(t, s)
    \/ FreeMemBlock(t) \/ SyncVMDomain(t)

Spec == Init /\ [][Next]_vars
----------------------------------------------------------------------------
(* Properties                                                              *)

Pools == [seg : [Seg -> [uid : Uid \cup {NoUid}, size : Nat, used : Nat]],
          n : 0..MaxSegs, size : Nat, used : Nat,
          refused : BOOLEAN, full : BOOLEAN, mark : Nat]

(* The variables keep their types.                                         *)
TypeOK ==
  /\ pool \in Pools
  /\ rw \in [tried : BOOLEAN, uid : Uid \cup {NoUid}, size : Nat, used : Nat]
  /\ kernel \in [Uid -> Nat]
  /\ blk \in [Slot -> [uid : Uid \cup {NoUid}, off : Nat, size : Nat,
                       vm : BOOLEAN, pool : BOOLEAN]]
  /\ jitCur \in Nat /\ rwCur \in Nat
  /\ freeing \in [Thread -> Uid \cup {NoUid}]
  /\ syncing \in [Thread -> Uid \cup {NoUid}]

(* What a caller was given is live memory of the kernel's, and no two      *)
(* callers were given the same byte: whatever was served from a pool, or   *)
(* from the kernel, given back, and given again.                           *)
BlocksSound ==
  /\ \A s \in Slot : Used(s) =>
        kernel[blk[s].uid] > 0 /\ blk[s].off + blk[s].size <= kernel[blk[s].uid]
  /\ \A r, s \in Slot : r # s /\ Used(r) /\ Used(s) /\ blk[r].uid = blk[s].uid =>
        \/ blk[r].off + blk[r].size <= blk[s].off
        \/ blk[s].off + blk[s].size <= blk[r].off

(* The kernel is asked to synchronise a block that still exists, although  *)
(* the request leaves after the registry's lock was given back.            *)
SyncOnLive == \A t \in Thread : syncing[t] # NoUid => kernel[syncing[t]] > 0

(* "Latching it would ROB the demand path of the single attempt": growth   *)
(* is frozen only by a request that the pool has no room for.              *)
FrozenOnDemand ==
  [][pool'.refused /\ ~pool.refused =>
       pool'.used = pool.used /\ \E n \in CodeSizes : ~Fits(pool, n)]_vars

(* Code gets a kernel block of its own only if no open segment has room    *)
(* for it: a segment opened early must not strand the one before.          *)
NothingStranded ==
  [][\A s \in Slot : ~Used(s) /\ blk'[s].uid # NoUid /\ blk'[s].vm /\ ~blk'[s].pool
        => \A i \in 1..pool'.n :
             pool'.seg[i].used + blk'[s].size > pool'.seg[i].size]_vars

(* What the blocks of S hold, unit by unit.                                *)
SizeOf(S) == Cardinality(UNION {{s} \X (1..blk[s].size) : s \in S})
Code == {s \in Slot : Used(s) /\ blk[s].vm}
Data == {s \in Slot : Used(s) /\ ~blk[s].vm}

(* The footprint shown to the watchdog is never less than what is held.    *)
GaugesCover == jitCur >= SizeOf(Code) /\ rwCur >= SizeOf(Data)

(* "Live JIT (VM) and RW bytes held by this façade": once no block is on   *)
(* its way back to the kernel, the gauges add up to the registry.  A block *)
(* granted and not placed stays on its gauge.                              *)
GaugesExact ==
  freeing = [t \in Thread |-> NoUid] =>
    jitCur = SizeOf(Code) /\ rwCur = SizeOf(Data)
============================================================================
