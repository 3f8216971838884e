--------------------------- MODULE JitPoolProofs ---------------------------
(***************************************************************************)
(* The memory façade never hands out a byte twice, nor one the kernel does *)
(* not hold for it: proofs about JitPool.                                  *)
(*                                                                         *)
(* Every kernel block has one of three roles, and keeps it until it is     *)
(* freed: a segment of the VM pool, the RW pool, or a block of its own     *)
(* (Lone).  Segments are bump allocators, so a block served from one lies  *)
(* below its `used' mark, where nothing is served again; a lone block      *)
(* fills its kernel block, so no other entry can share it.                 *)
(***************************************************************************)
EXTENDS JitPool, FiniteSetTheorems, TLAPS

InPool(p, u) == \E i \in Seg : i <= p.n /\ p.seg[i].uid = u

(* The open segments are live kernel blocks, one each, filled in order.    *)
PoolOK(p, k) ==
  /\ p \in Pools
  /\ \A i \in Seg : i <= p.n =>
        /\ p.seg[i].uid \in Uid
        /\ k[p.seg[i].uid] = p.seg[i].size /\ p.seg[i].size > 0
        /\ p.seg[i].used <= p.seg[i].size
  /\ \A i, j \in Seg : i <= p.n /\ j <= p.n /\ p.seg[i].uid = p.seg[j].uid => i = j

(* q and l come from p and k by opening segments in fresh kernel blocks.   *)
Extends(p, k, q, l) ==
  /\ l \in [Uid -> Nat]
  /\ p.n <= q.n /\ q.used = p.used
  /\ \A i \in Seg : i <= p.n => q.seg[i] = p.seg[i]
  /\ \A i \in Seg : i <= q.n /\ i > p.n => k[q.seg[i].uid] = 0
  /\ \A u \in Uid : k[u] > 0 => l[u] = k[u]
  /\ \A u \in Uid : k[u] = 0 /\ l[u] > 0 => InPool(q, u)

Lone(u) == u \in Uid /\ kernel[u] > 0 /\ ~InPool(pool, u) /\ u # rw.uid

(* The RW pool is asked for once, and is no segment.                       *)
RwHeld(r, p, k) ==
  r.uid # NoUid => /\ r.tried /\ k[r.uid] = r.size /\ r.size > 0
                   /\ r.used <= r.size /\ ~InPool(p, r.uid)

RwOK == RwHeld(rw, pool, kernel)

(* A registered block lies in what its kernel block has served.            *)
Owned(b) ==
  /\ b.size > 0
  /\ b.vm /\ b.pool => \E i \in Seg : /\ i <= pool.n /\ b.uid = pool.seg[i].uid
                                      /\ b.off + b.size <= pool.seg[i].used
  /\ ~b.vm /\ b.pool => b.uid = rw.uid /\ b.off + b.size <= rw.used
  /\ ~b.pool => Lone(b.uid) /\ b.off = 0 /\ b.size = kernel[b.uid]

Apart(b, c) ==
  b.uid = c.uid => b.off + b.size <= c.off \/ c.off + c.size <= b.off

FreeingOK ==
  /\ \A t \in Thread : freeing[t] # NoUid =>
        Lone(freeing[t]) /\ \A s \in Slot : blk[s].uid # freeing[t]
  /\ \A t, u \in Thread : freeing[t] # NoUid /\ freeing[t] = freeing[u] => t = u

SyncingOK ==
  \A t \in Thread : syncing[t] # NoUid =>
    \/ InPool(pool, syncing[t])
    \/ \E s \in Slot : blk[s].vm /\ ~blk[s].pool /\ blk[s].uid = syncing[t]

JInv ==
  /\ TypeOK /\ PoolOK(pool, kernel) /\ RwOK
  /\ \A s \in Slot : Used(s) => Owned(blk[s])
  /\ \A r, s \in Slot : r # s /\ Used(r) /\ Used(s) => Apart(blk[r], blk[s])
  /\ FreeingOK /\ SyncingOK
----------------------------------------------------------------------------
(* Growing the pool opens segments in fresh kernel blocks and changes      *)
(* nothing else.                                                           *)
LEMMA OpenedSound ==
  ASSUME NEW p, NEW k \in [Uid -> Nat], PoolOK(p, k), p.n < MaxSegs,
         NEW u \in Uid, k[u] = 0, NEW w \in Nat, w > 0
  PROVE  /\ PoolOK(Opened(p, u, w), [k EXCEPT ![u] = w])
         /\ Extends(p, k, Opened(p, u, w), [k EXCEPT ![u] = w])
<1> DEFINE q == Opened(p, u, w)
           l == [k EXCEPT ![u] = w]
<1>0. p \in Pools
  BY DEF PoolOK
<1>1. p.n \in 0..MaxSegs /\ MaxSegs \in Nat \ {0}
  BY <1>0, JitAssumption DEF Pools
<1>2. /\ q.n = p.n + 1 /\ q.used = p.used
      /\ q.seg = [p.seg EXCEPT ![p.n + 1] = [uid |-> u, size |-> w, used |-> 0]]
  BY <1>0 DEF Opened, Pools
<1>3. /\ p.n + 1 \in Seg
      /\ q.seg[p.n + 1] = [uid |-> u, size |-> w, used |-> 0]
      /\ \A i \in Seg : i # p.n + 1 => q.seg[i] = p.seg[i]
  BY <1>0, <1>1, <1>2 DEF Pools, Seg
<1>4. q \in Pools
  <2> DEFINE new == [uid |-> u, size |-> w, used |-> 0]
             Segs == [uid : Uid \cup {NoUid}, size : Nat, used : Nat]
  <2>1. new \in Segs /\ p.seg \in [Seg -> Segs]
    BY <1>0 DEF Pools
  <2>2. [p.seg EXCEPT ![p.n + 1] = new] \in [Seg -> Segs]
    BY <2>1
  <2>3. p.n + 1 \in 0..MaxSegs /\ p.size + w \in Nat
    BY <1>0, <1>1 DEF Pools
  <2>4. (p.full \/ p.n + 1 >= MaxSegs) \in BOOLEAN
    BY <1>0 DEF Pools
  <2> HIDE DEF new, Segs
  <2> DEFINE seg2 == [p.seg EXCEPT ![p.n + 1] = new]
             full2 == p.full \/ p.n + 1 >= MaxSegs
  <2>5. q = [p EXCEPT !.seg = seg2, !.n = p.n + 1, !.size = p.size + w, !.full = full2]
    BY <1>0, Zenon DEF Opened, new
  <2> HIDE DEF seg2, full2, q
  <2> QED BY <1>0, <2>2, <2>3, <2>4, <2>5 DEF Pools, Segs, seg2, full2
<1>5. l \in [Uid -> Nat] /\ l[u] = w /\ \A v \in Uid : v # u => l[v] = k[v]
  OBVIOUS
<1>6. \A i \in Seg : i <= p.n => q.seg[i] = p.seg[i] /\ p.seg[i].uid # u
  BY <1>1, <1>3 DEF PoolOK
<1>7. \A i \in Seg : i <= q.n => i <= p.n \/ i = p.n + 1
  BY <1>1, <1>2 DEF Seg
<1>8. PoolOK(q, l)
  <2>1. ASSUME NEW i \in Seg, i <= q.n
        PROVE  /\ q.seg[i].uid \in Uid
               /\ l[q.seg[i].uid] = q.seg[i].size /\ q.seg[i].size > 0
               /\ q.seg[i].used <= q.seg[i].size
    <3>1. CASE i <= p.n
      BY <2>1, <3>1, <1>5, <1>6 DEF PoolOK
    <3>2. CASE i = p.n + 1
      BY <3>2, <1>3, <1>5
    <3> QED BY <2>1, <3>1, <3>2, <1>7
  <2>2. ASSUME NEW i \in Seg, NEW j \in Seg, i <= q.n, j <= q.n,
               q.seg[i].uid = q.seg[j].uid
        PROVE  i = j
    <3>1. (i = p.n + 1 \/ i <= p.n) /\ (j = p.n + 1 \/ j <= p.n)
      BY <2>2, <1>7
    <3> QED BY <2>2, <3>1, <1>3, <1>6 DEF PoolOK
  <2> QED BY <1>4, <2>1, <2>2 DEF PoolOK
<1>9. Extends(p, k, q, l)
  <2>1. InPool(q, u)
    BY <1>1, <1>2, <1>3 DEF InPool, Seg
  <2>2. \A i \in Seg : i <= q.n /\ i > p.n => k[q.seg[i].uid] = 0
    BY <1>1, <1>3, <1>7 DEF Seg
  <2> QED BY <1>1, <1>2, <1>5, <1>6, <2>1, <2>2 DEF Extends
<1> QED BY <1>8, <1>9

(* A pool extends itself,                                                  *)
LEMMA ExtendsRefl ==
  ASSUME NEW p \in Pools, NEW k \in [Uid -> Nat]
  PROVE  Extends(p, k, p, k)
BY JitAssumption DEF Extends, Pools, Seg

(* Flags and marks are not part of what PoolOK and Extends look at.        *)
LEMMA FlagsAside ==
  ASSUME NEW p \in Pools, NEW q \in Pools, NEW k \in [Uid -> Nat],
         q.n = p.n, q.used = p.used, q.seg = p.seg
  PROVE  /\ PoolOK(p, k) => PoolOK(q, k)
         /\ Extends(p, k, q, k)
         /\ \A r, l : Extends(q, k, r, l) => Extends(p, k, r, l)
<1>1. p.n \in Nat
  BY JitAssumption DEF Pools
<1>2. PoolOK(p, k) => PoolOK(q, k)
  BY DEF PoolOK
<1>3. Extends(p, k, q, k)
  BY <1>1 DEF Extends, Seg
<1>4. \A r, l : Extends(q, k, r, l) => Extends(p, k, r, l)
  BY DEF Extends
<1> QED BY <1>2, <1>3, <1>4

(* growing it extends it,                                                  *)
LEMMA GrownSound ==
  ASSUME NEW p, NEW k \in [Uid -> Nat], PoolOK(p, k), NEW e \in BOOLEAN,
         NEW d \in Grown(p, k, e)
  PROVE  PoolOK(d.p, d.k) /\ Extends(p, k, d.p, d.k)
<1>0. p \in Pools
  BY DEF PoolOK
<1>1. p.n \in 0..MaxSegs /\ MaxSegs \in Nat
  BY <1>0, JitAssumption DEF Pools
<1>2. CASE d = [p |-> p, k |-> k]
  BY <1>0, <1>2, ExtendsRefl
<1>3. CASE d = [p |-> [p EXCEPT !.full = TRUE], k |-> k]
  <2>1. [p EXCEPT !.full = TRUE] \in Pools
    BY <1>0 DEF Pools
  <2>2. /\ d.p \in Pools /\ d.k = k
        /\ d.p.n = p.n /\ d.p.used = p.used /\ d.p.seg = p.seg
    BY <1>0, <1>3, <2>1 DEF Pools
  <2> QED BY <1>0, <2>2, FlagsAside
<1>4. CASE d = [p |-> Refusal(p, e), k |-> k]
  <2>1. Refusal(p, e) \in Pools
    BY <1>0 DEF Pools, Refusal
  <2>2. /\ d.p \in Pools /\ d.k = k
        /\ d.p.n = p.n /\ d.p.used = p.used /\ d.p.seg = p.seg
    BY <1>0, <1>4, <2>1 DEF Pools, Refusal
  <2> QED BY <1>0, <2>2, FlagsAside
<1>5. CASE p.n < MaxSegs /\ \E u \in Available(k), w \in Ladder :
             d = [p |-> Opened(p, u, w), k |-> [k EXCEPT ![u] = w]]
  <2>1. PICK u \in Available(k), w \in Ladder :
          d = [p |-> Opened(p, u, w), k |-> [k EXCEPT ![u] = w]]
    BY <1>5
  <2>2. u \in Uid /\ k[u] = 0 /\ w \in Nat /\ w > 0
    BY JitAssumption DEF Available
  <2>3. d.p = Opened(p, u, w) /\ d.k = [k EXCEPT ![u] = w]
    BY <2>1
  <2>4. PoolOK(Opened(p, u, w), [k EXCEPT ![u] = w])
        /\ Extends(p, k, Opened(p, u, w), [k EXCEPT ![u] = w])
    BY <1>5, <2>2, OpenedSound
  <2> QED BY <2>3, <2>4
<1>6. \/ d = [p |-> p, k |-> k]
      \/ d = [p |-> [p EXCEPT !.full = TRUE], k |-> k]
      \/ d = [p |-> Refusal(p, e), k |-> k]
      \/ p.n < MaxSegs /\ \E u \in Available(k), w \in Ladder :
             d = [p |-> Opened(p, u, w), k |-> [k EXCEPT ![u] = w]]
  BY <1>1 DEF Grown
<1> QED BY <1>2, <1>3, <1>4, <1>5, <1>6

(* early                                                                   *)
LEMMA AnticipatedSound ==
  ASSUME NEW p, NEW k \in [Uid -> Nat], PoolOK(p, k), NEW a \in Anticipated(p, k)
  PROVE  PoolOK(a.p, a.k) /\ Extends(p, k, a.p, a.k)
<1>0. p \in Pools
  BY DEF PoolOK
<1> DEFINE full == [p EXCEPT !.full = TRUE]
           marked == [p EXCEPT !.mark = p.used]
<1>1. /\ full \in Pools /\ full.n = p.n /\ full.used = p.used /\ full.seg = p.seg
      /\ marked \in Pools /\ marked.n = p.n /\ marked.used = p.used /\ marked.seg = p.seg
  BY <1>0 DEF Pools
<1>2. CASE a = [p |-> full, k |-> k]
  <2>1. PoolOK(full, k) /\ Extends(p, k, full, k)
    BY <1>0, <1>1, FlagsAside
  <2> QED BY <1>2, <2>1
<1>3. CASE a \in Grown(marked, k, TRUE)
  <2>1. PoolOK(marked, k)
    BY <1>0, <1>1, FlagsAside
  <2>2. PoolOK(a.p, a.k) /\ Extends(marked, k, a.p, a.k)
    BY <1>3, <2>1, GrownSound
  <2> QED BY <1>0, <1>1, <2>2, FlagsAside
<1>4. CASE a = [p |-> p, k |-> k]
  BY <1>0, <1>4, ExtendsRefl
<1> QED BY <1>2, <1>3, <1>4 DEF Anticipated

(* or on demand.                                                           *)
LEMMA DemandedSound ==
  ASSUME PoolOK(pool, kernel), kernel \in [Uid -> Nat], NEW n, NEW d \in Demanded(n)
  PROVE  PoolOK(d.p, d.k) /\ Extends(pool, kernel, d.p, d.k)
<1>1. CASE d = [p |-> pool, k |-> kernel]
  BY <1>1, ExtendsRefl DEF PoolOK
<1>2. CASE d \in Grown(pool, kernel, FALSE)
  BY <1>2, GrownSound
<1> QED BY <1>1, <1>2 DEF Demanded
----------------------------------------------------------------------------
(* What a step of the pool and the kernel leaves as it was.                *)

(* A block that existed stays, in the pool or out of it.                   *)
LEMMA ExtendsKeeps ==
  ASSUME NEW p, NEW k, NEW q, NEW l, p.n \in Nat, q.n \in Nat,
         k \in [Uid -> Nat], Extends(p, k, q, l), NEW u \in Uid, k[u] > 0
  PROVE  l[u] = k[u] /\ (InPool(q, u) <=> InPool(p, u))
<1>1. l[u] = k[u]
  BY DEF Extends
<1>2. ASSUME NEW i \in Seg, i <= p.n, p.seg[i].uid = u
      PROVE  InPool(q, u)
  BY <1>2 DEF Extends, InPool, Seg
<1>3. ASSUME NEW i \in Seg, i <= q.n, q.seg[i].uid = u
      PROVE  InPool(p, u)
  <2>1. ~(i > p.n)
    BY <1>3 DEF Extends
  <2>2. i <= p.n
    BY <2>1 DEF Seg
  <2> QED BY <1>3, <2>2 DEF Extends, InPool
<1> QED BY <1>1, <1>2, <1>3 DEF InPool

(* Two extensions are one.                                                 *)
LEMMA ExtendsTrans ==
  ASSUME NEW p \in Pools, NEW q \in Pools, NEW r \in Pools,
         NEW k \in [Uid -> Nat], NEW l \in [Uid -> Nat], NEW m,
         PoolOK(q, l), PoolOK(r, m),
         Extends(p, k, q, l), Extends(q, l, r, m)
  PROVE  Extends(p, k, r, m)
<1>1. p.n \in Nat /\ q.n \in Nat /\ r.n \in Nat
  BY JitAssumption DEF Pools
<1>2. \A u \in Uid : k[u] > 0 => m[u] = k[u]
  BY DEF Extends
<1>3. \A i \in Seg : i <= p.n => r.seg[i] = p.seg[i]
  BY <1>1 DEF Extends, Seg
<1>4. ASSUME NEW i \in Seg, i <= r.n, i > p.n
      PROVE  k[r.seg[i].uid] = 0
  <2>1. CASE i <= q.n
    BY <1>4, <2>1 DEF Extends
  <2>2. CASE ~(i <= q.n)
    <3>1. l[r.seg[i].uid] = 0 /\ r.seg[i].uid \in Uid
      BY <1>1, <1>4, <2>2 DEF Extends, PoolOK, Seg
    <3> QED BY <3>1 DEF Extends
  <2> QED BY <2>1, <2>2
<1>5. ASSUME NEW u \in Uid, k[u] = 0, m[u] > 0
      PROVE  InPool(r, u)
  <2>1. CASE l[u] = 0
    BY <1>5, <2>1 DEF Extends
  <2>2. CASE l[u] > 0
    BY <1>1, <1>5, <2>2, ExtendsKeeps DEF Extends
  <2> QED BY <2>1, <2>2
<1> QED BY <1>1, <1>2, <1>3, <1>4, <1>5 DEF Extends
----------------------------------------------------------------------------
(* A registered block is inside a live kernel block.                       *)
LEMMA UsedLive ==
  ASSUME JInv, NEW s \in Slot, Used(s)
  PROVE  /\ blk[s].uid \in Uid /\ kernel[blk[s].uid] > 0
         /\ blk[s].off + blk[s].size <= kernel[blk[s].uid]
<1> DEFINE b == blk[s]
<1>1. /\ b \in [uid : Uid \cup {NoUid}, off : Nat, size : Nat, vm : BOOLEAN, pool : BOOLEAN]
      /\ b.uid # NoUid /\ kernel \in [Uid -> Nat] /\ Owned(b)
  BY DEF JInv, TypeOK, Used
<1>2. CASE b.vm /\ b.pool
  <2>1. PICK i \in Seg : /\ i <= pool.n /\ b.uid = pool.seg[i].uid
                         /\ b.off + b.size <= pool.seg[i].used
    BY <1>1, <1>2 DEF Owned
  <2>2. /\ kernel[b.uid] = pool.seg[i].size /\ pool.seg[i].size > 0
        /\ pool.seg[i].used <= pool.seg[i].size
        /\ pool.seg[i].used \in Nat /\ pool.seg[i].size \in Nat
    BY <2>1 DEF JInv, PoolOK, Pools
  <2> QED BY <1>1, <2>1, <2>2
<1>3. CASE ~b.vm /\ b.pool
  <2>1. b.uid = rw.uid /\ b.off + b.size <= rw.used
    BY <1>1, <1>3 DEF Owned
  <2>2. kernel[b.uid] = rw.size /\ rw.size > 0 /\ rw.used <= rw.size
    BY <1>1, <2>1 DEF JInv, RwOK, RwHeld
  <2>3. rw.used \in Nat /\ rw.size \in Nat
    BY DEF JInv, TypeOK
  <2> QED BY <1>1, <2>1, <2>2, <2>3
<1>4. CASE ~b.pool
  BY <1>1, <1>4 DEF Owned, Lone
<1> QED BY <1>1, <1>2, <1>3, <1>4

(* What a step may do to the pools without disturbing what was given out.  *)
Keeps(q, l) ==
  /\ pool.n <= q.n
  /\ \A i \in Seg : i <= pool.n => /\ q.seg[i].uid = pool.seg[i].uid
                                  /\ q.seg[i].used >= pool.seg[i].used
  /\ \A u \in Uid : kernel[u] > 0 =>
        l[u] = kernel[u] /\ (InPool(q, u) <=> InPool(pool, u))

Grows == Keeps(pool', kernel')

RwGrows ==
  \/ rw'.uid = rw.uid /\ rw'.used >= rw.used
  \/ rw.uid = NoUid /\ rw'.uid \in Uid /\ kernel[rw'.uid] = 0

(* A lone block stays lone while the pool grows,                           *)
LEMMA LoneStays ==
  ASSUME JInv, TypeOK', Grows, RwGrows, NEW u \in Uid, Lone(u)
  PROVE  Lone(u)'
<1>1. kernel[u] > 0 /\ ~InPool(pool, u) /\ u # rw.uid
  BY DEF Lone
<1>2. kernel'[u] > 0 /\ ~InPool(pool', u)
  BY <1>1 DEF Grows, Keeps
<1>3. u # rw'.uid
  BY <1>1 DEF RwGrows
<1>4. InPool(pool, u)' <=> InPool(pool', u)
  BY DEF InPool
<1> QED BY <1>2, <1>3, <1>4 DEF Lone

(* a registered one owned,                                                 *)
LEMMA OwnedStays ==
  ASSUME JInv, TypeOK', Grows, RwGrows, NEW s \in Slot, Used(s), NEW b, b = blk[s]
  PROVE  Owned(b)'
<1>1. b.uid \in Uid /\ kernel[b.uid] > 0 /\ Owned(b) /\ b.uid # NoUid
  BY UsedLive DEF JInv, Used
<1>2. b.off \in Nat /\ b.size \in Nat /\ b.vm \in BOOLEAN /\ b.pool \in BOOLEAN
  BY DEF JInv, TypeOK
<1>3. ASSUME b.vm, b.pool
      PROVE  \E i \in Seg : /\ i <= pool'.n /\ b.uid = pool'.seg[i].uid
                            /\ b.off + b.size <= pool'.seg[i].used
  <2>1. PICK i \in Seg : /\ i <= pool.n /\ b.uid = pool.seg[i].uid
                         /\ b.off + b.size <= pool.seg[i].used
    BY <1>1, <1>3 DEF Owned
  <2>2. /\ pool \in Pools /\ pool' \in Pools
        /\ i \in Nat /\ MaxSegs \in Nat
    BY JitAssumption DEF TypeOK, JInv, Seg
  <2>4. pool'.n \in Nat /\ pool.n \in Nat
    BY <2>2 DEF Pools
  <2>5. pool'.seg[i].used \in Nat /\ pool.seg[i].used \in Nat
    BY <2>2 DEF Pools
  <2>3. /\ i <= pool'.n /\ b.uid = pool'.seg[i].uid
        /\ b.off + b.size <= pool'.seg[i].used
    BY <1>2, <2>1, <2>2, <2>4, <2>5 DEF Grows, Keeps
  <2> QED BY <2>3
<1>4. ASSUME ~b.vm, b.pool
      PROVE  b.uid = rw'.uid /\ b.off + b.size <= rw'.used
  <2>1. b.uid = rw.uid /\ b.off + b.size <= rw.used
    BY <1>1, <1>4 DEF Owned
  <2>2. rw'.uid = rw.uid /\ rw'.used >= rw.used
    BY <1>1, <2>1 DEF RwGrows
  <2>3. rw.used \in Nat /\ rw'.used \in Nat
    BY DEF TypeOK, JInv
  <2> QED BY <1>2, <2>1, <2>2, <2>3
<1>5. ASSUME ~b.pool
      PROVE  Lone(b.uid)' /\ b.off = 0 /\ b.size = kernel'[b.uid]
  BY <1>1, <1>5, LoneStays DEF Owned, Grows, Keeps
<1>6. b.size > 0
  BY <1>1 DEF Owned
<1> QED BY <1>3, <1>4, <1>5, <1>6 DEF Owned

(* and a segment being synchronised a segment.                             *)
LEMMA SyncingStays ==
  ASSUME JInv, Grows, NEW u \in Uid, InPool(pool, u)
  PROVE  InPool(pool, u)'
<1>1. PICK i \in Seg : i <= pool.n /\ pool.seg[i].uid = u
  BY DEF InPool
<1>2. kernel[u] > 0
  BY <1>1 DEF JInv, PoolOK
<1>3. InPool(pool', u)
  BY <1>2 DEF Grows, Keeps
<1> QED BY <1>3 DEF InPool

(* A new entry, sound and apart from the others, keeps the invariant.      *)
LEMMA EntryAdded ==
  ASSUME JInv, TypeOK', PoolOK(pool, kernel)', RwOK', Grows, RwGrows,
         NEW s \in Slot, ~Used(s), NEW b, blk' = [blk EXCEPT ![s] = b],
         Owned(b)', \A r \in Slot : Used(r) => Apart(blk[r], b),
         \A t \in Thread : freeing[t] # NoUid => freeing[t] # b.uid,
         UNCHANGED <<freeing, syncing>>
  PROVE  JInv'
<1>0. blk \in [Slot -> [uid : Uid \cup {NoUid}, off : Nat, size : Nat,
                       vm : BOOLEAN, pool : BOOLEAN]]
      /\ freeing \in [Thread -> Uid \cup {NoUid}]
      /\ syncing \in [Thread -> Uid \cup {NoUid}]
  BY DEF JInv, TypeOK
<1>1. blk'[s] = b /\ \A r \in Slot : r # s => blk'[r] = blk[r]
  BY <1>0
<1>2. b.off \in Nat /\ b.size \in Nat
  BY <1>1 DEF TypeOK
<1>3. ASSUME NEW r \in Slot, Used(r)'
      PROVE  Owned(blk[r])'
  <2>1. CASE r = s
    BY <1>1, <2>1
  <2>2. CASE r # s
    <3> DEFINE c == blk[r]
    <3>1. Used(r) /\ blk'[r] = blk[r]
      BY <1>1, <1>3, <2>2 DEF Used
    <3>2. ASSUME NEW e, e = blk[r]
          PROVE  Owned(e)'
      BY <3>1, <3>2, OwnedStays
    <3>3. PICK e : e = blk[r]
      OBVIOUS
    <3>4. Owned(e)' /\ blk'[r] = e
      BY <3>1, <3>2, <3>3
    <3> QED BY <3>4
  <2> QED BY <2>1, <2>2
<1>4. ASSUME NEW q \in Slot, NEW r \in Slot, q # r, Used(q)', Used(r)'
      PROVE  Apart(blk[q], blk[r])'
  <2>1. CASE q # s /\ r # s
    BY <1>1, <1>4, <2>1 DEF Used, JInv, Apart
  <2>2. CASE q = s
    BY <1>0, <1>1, <1>2, <1>4, <2>2 DEF Used, Apart
  <2>3. CASE r = s
    BY <1>0, <1>1, <1>2, <1>4, <2>3 DEF Used, Apart
  <2> QED BY <2>1, <2>2, <2>3
<1>5. FreeingOK'
  <2>1. ASSUME NEW t \in Thread, freeing[t] # NoUid
        PROVE  Lone(freeing[t])' /\ \A r \in Slot : blk'[r].uid # freeing[t]
    <3>1. freeing[t] \in Uid /\ Lone(freeing[t])
          /\ \A r \in Slot : blk[r].uid # freeing[t]
      BY <1>0, <2>1 DEF JInv, FreeingOK
    <3>2. ASSUME NEW u \in Uid, u = freeing[t]
          PROVE  Lone(u)'
      BY <3>1, <3>2, LoneStays
    <3> QED BY <1>1, <2>1, <3>1, <3>2 DEF Lone
  <2> QED BY <2>1 DEF JInv, FreeingOK
<1>6. SyncingOK'
  <2>1. ASSUME NEW t \in Thread, syncing[t] # NoUid
        PROVE  \/ InPool(pool, syncing[t])'
               \/ \E r \in Slot : blk'[r].vm /\ ~blk'[r].pool /\ blk'[r].uid = syncing[t]
    <3>1. CASE InPool(pool, syncing[t])
      <4>1. ASSUME NEW u \in Uid, u = syncing[t]
            PROVE  InPool(pool, u)'
        BY <3>1, <4>1, SyncingStays
      <4> QED BY <1>0, <2>1, <4>1
    <3>2. CASE \E r \in Slot : blk[r].vm /\ ~blk[r].pool /\ blk[r].uid = syncing[t]
      <4>1. PICK r \in Slot : blk[r].vm /\ ~blk[r].pool /\ blk[r].uid = syncing[t]
        BY <3>2
      <4>2. r # s
        BY <2>1, <4>1 DEF Used
      <4> QED BY <1>1, <4>1, <4>2
    <3> QED BY <2>1, <3>1, <3>2 DEF JInv, SyncingOK
  <2> QED BY <2>1 DEF SyncingOK
<1> QED BY <1>3, <1>4, <1>5, <1>6 DEF JInv

(* Pools and kernel blocks move on under the entries; at most, a block     *)
(* just taken from the kernel is on its way back.                          *)
LEMMA PoolsMove ==
  ASSUME JInv, TypeOK', PoolOK(pool, kernel)', RwOK', Grows, RwGrows,
         UNCHANGED <<blk, syncing>>,
         \/ UNCHANGED freeing
         \/ \E t \in Thread, u \in Uid :
              /\ freeing[t] = NoUid /\ freeing' = [freeing EXCEPT ![t] = u]
              /\ kernel[u] = 0 /\ Lone(u)'
  PROVE  JInv'
<1>0. /\ freeing \in [Thread -> Uid \cup {NoUid}]
      /\ syncing \in [Thread -> Uid \cup {NoUid}]
  BY DEF JInv, TypeOK
<1>1. ASSUME NEW r \in Slot, Used(r)'
      PROVE  Owned(blk[r])'
  <2>1. ASSUME NEW e, e = blk[r]
        PROVE  Owned(e)'
    BY <1>1, <2>1, OwnedStays DEF Used
  <2>2. PICK e : e = blk[r]
    OBVIOUS
  <2>3. Owned(e)' /\ blk'[r] = e
    BY <2>1, <2>2
  <2> QED BY <2>3
<1>2. ASSUME NEW q \in Slot, NEW r \in Slot, q # r, Used(q)', Used(r)'
      PROVE  Apart(blk[q], blk[r])'
  BY <1>2 DEF Used, JInv, Apart
<1>3. FreeingOK'
  <2>1. ASSUME NEW t \in Thread, freeing[t] # NoUid, NEW u, u = freeing[t]
        PROVE  Lone(u)' /\ kernel[u] > 0 /\ \A r \in Slot : blk'[r].uid # u
    <3>1. u \in Uid /\ Lone(u) /\ \A r \in Slot : blk[r].uid # u
      BY <1>0, <2>1 DEF JInv, FreeingOK
    <3>2. Lone(u)'
      BY <3>1, LoneStays
    <3> QED BY <3>1, <3>2 DEF Lone
  <2>2. CASE UNCHANGED freeing
    <3>1. ASSUME NEW t \in Thread, freeing'[t] # NoUid
          PROVE  Lone(freeing[t])' /\ \A r \in Slot : blk'[r].uid # freeing'[t]
      <4>1. PICK u : u = freeing[t]
        OBVIOUS
      <4>2. Lone(u)' /\ (\A r \in Slot : blk'[r].uid # u) /\ freeing'[t] = u
        BY <2>1, <2>2, <3>1, <4>1
      <4> QED BY <4>2
    <3> QED BY <2>2, <3>1 DEF JInv, FreeingOK
  <2>3. ASSUME NEW t \in Thread, NEW u \in Uid, freeing[t] = NoUid,
               freeing' = [freeing EXCEPT ![t] = u], kernel[u] = 0, Lone(u)'
        PROVE  FreeingOK'
    <3>1. freeing'[t] = u /\ \A x \in Thread : x # t => freeing'[x] = freeing[x]
      BY <1>0, <2>3
    <3>2. \A r \in Slot : blk'[r].uid # u
      <4>1. \A r \in Slot : Used(r) => kernel[blk[r].uid] > 0
        BY UsedLive
      <4> QED BY <2>3, <4>1, JitAssumption DEF Used
    <3>3. ASSUME NEW x \in Thread, freeing'[x] # NoUid
          PROVE  Lone(freeing[x])' /\ \A r \in Slot : blk'[r].uid # freeing'[x]
      <4>1. CASE x = t
        <5>1. Lone(u)' /\ freeing'[x] = u
          BY <2>3, <3>1, <4>1
        <5> QED BY <3>2, <5>1
      <4>2. CASE x # t
        <5>1. PICK v : v = freeing[x]
          OBVIOUS
        <5>2. freeing'[x] = v
          BY <3>1, <4>2, <5>1
        <5>3. Lone(v)' /\ \A r \in Slot : blk'[r].uid # v
          BY <2>1, <3>3, <5>1, <5>2
        <5> QED BY <5>2, <5>3
      <4> QED BY <4>1, <4>2
    <3>4. ASSUME NEW x \in Thread, NEW y \in Thread, freeing'[x] # NoUid,
                 freeing'[x] = freeing'[y]
          PROVE  x = y
      <4>1. \A z \in Thread : freeing[z] # NoUid => freeing[z] # u
        BY <2>1, <2>3
      <4> QED BY <3>1, <3>4, <4>1, <2>3, JitAssumption DEF JInv, FreeingOK
    <3> QED BY <3>3, <3>4 DEF FreeingOK
  <2> QED BY <2>2, <2>3
<1>4. SyncingOK'
  <2>1. ASSUME NEW t \in Thread, syncing[t] # NoUid, InPool(pool, syncing[t])
        PROVE  InPool(pool, syncing[t])'
    <3>1. ASSUME NEW u \in Uid, u = syncing[t]
          PROVE  InPool(pool, u)'
      BY <2>1, <3>1, SyncingStays
    <3> QED BY <1>0, <2>1, <3>1
  <2> QED BY <2>1 DEF JInv, SyncingOK
<1> QED BY <1>1, <1>2, <1>3, <1>4 DEF JInv
----------------------------------------------------------------------------
(* Serving n moves the mark of one segment.                                *)
LEMMA ServedSound ==
  ASSUME NEW p, NEW k \in [Uid -> Nat], PoolOK(p, k), NEW n \in Nat,
         NEW i \in Seg, HasRoom(p, i, n)
  PROVE  /\ PoolOK(Served(p, i, n), k) /\ Served(p, i, n).n = p.n
         /\ Served(p, i, n).seg[i].used = p.seg[i].used + n
         /\ \A j \in Seg : /\ Served(p, i, n).seg[j].uid = p.seg[j].uid
                           /\ Served(p, i, n).seg[j].used >= p.seg[j].used
<1> DEFINE q == Served(p, i, n)
           Segs == [uid : Uid \cup {NoUid}, size : Nat, used : Nat]
           new == [p.seg[i] EXCEPT !.used = p.seg[i].used + n]
<1>1. p \in Pools
  BY DEF PoolOK
<1>2. p.seg \in [Seg -> Segs] /\ p.used \in Nat
  BY <1>1 DEF Pools
<1>3. /\ new \in Segs /\ new.uid = p.seg[i].uid /\ new.size = p.seg[i].size
      /\ new.used = p.seg[i].used + n
  BY <1>2
<1> DEFINE seg2 == [p.seg EXCEPT ![i] = new]
           used2 == p.used + n
<1>4. q = [p EXCEPT !.seg = seg2, !.used = used2]
  BY <1>1, Zenon DEF Served, Pools
<1>5. seg2 \in [Seg -> Segs] /\ used2 \in Nat
  BY <1>2, <1>3
<1>6. seg2[i] = new /\ \A j \in Seg : j # i => seg2[j] = p.seg[j]
  BY <1>2
<1> HIDE DEF q, new, seg2, used2
<1>7. q \in Pools /\ q.n = p.n /\ q.seg = seg2
  BY <1>1, <1>4, <1>5 DEF Pools
<1>8. /\ q.seg[i].used = p.seg[i].used + n
      /\ \A j \in Seg : q.seg[j].uid = p.seg[j].uid /\ q.seg[j].size = p.seg[j].size
      /\ \A j \in Seg : j # i => q.seg[j].used = p.seg[j].used
  BY <1>3, <1>6, <1>7
<1>9. \A j \in Seg : q.seg[j].used >= p.seg[j].used
  BY <1>2, <1>8
<1>10. PoolOK(q, k)
  <2>1. q.seg[i].used <= q.seg[i].size
    BY <1>8 DEF HasRoom
  <2>2. \A j \in Seg : j <= q.n => q.seg[j].used <= q.seg[j].size
    BY <1>7, <1>8, <2>1 DEF PoolOK
  <2> QED BY <1>7, <1>8, <2>2 DEF PoolOK
<1> QED BY <1>7, <1>8, <1>9, <1>10 DEF q
----------------------------------------------------------------------------
(* mmap from the pools.                                                    *)
LEMMA MapCodeKeeps ==
  ASSUME JInv, NEW t \in Thread, NEW s \in Slot, NEW n \in CodeSizes, MapCode(t, s, n)
  PROVE  JInv'
<1>0. /\ kernel \in [Uid -> Nat] /\ pool \in Pools /\ PoolOK(pool, kernel)
      /\ n \in Nat /\ n > 0 /\ jitCur \in Nat /\ MaxSegs \in Nat
      /\ rw.uid \in Uid \cup {NoUid} /\ rw.used \in Nat
      /\ blk \in [Slot -> [uid : Uid \cup {NoUid}, off : Nat, size : Nat,
                           vm : BOOLEAN, pool : BOOLEAN]]
  BY JitAssumption DEF JInv, TypeOK
<1>1. PICK d \in Demanded(n), i \in Seg :
        /\ FirstFit(d.p, i, n)
        /\ blk' = [blk EXCEPT ![s] =
             [uid |-> d.p.seg[i].uid, off |-> d.p.seg[i].used, size |-> n,
              vm |-> TRUE, pool |-> TRUE]]
        /\ \E a \in Anticipated(Served(d.p, i, n), d.k) : pool' = a.p /\ kernel' = a.k
  BY Zenon DEF MapCode
<1>2. PoolOK(d.p, d.k) /\ Extends(pool, kernel, d.p, d.k)
  BY <1>0, DemandedSound
<1>3. d.k \in [Uid -> Nat] /\ d.p \in Pools
  BY <1>2 DEF Extends, PoolOK
<1>4. HasRoom(d.p, i, n)
  BY <1>1 DEF FirstFit
<1> DEFINE q == Served(d.p, i, n)
           b == [uid |-> d.p.seg[i].uid, off |-> d.p.seg[i].used, size |-> n,
                 vm |-> TRUE, pool |-> TRUE]
<1>5. PICK a \in Anticipated(q, d.k) : pool' = a.p /\ kernel' = a.k
  BY <1>1
<1>6. blk' = [blk EXCEPT ![s] = b]
  BY <1>1
<1>7. /\ PoolOK(q, d.k) /\ q.n = d.p.n /\ q.seg[i].used = d.p.seg[i].used + n
      /\ \A j \in Seg : q.seg[j].uid = d.p.seg[j].uid /\ q.seg[j].used >= d.p.seg[j].used
  BY <1>0, <1>2, <1>3, <1>4, ServedSound
<1>70. i \in Seg /\ i <= d.p.n /\ d.p.seg[i].uid \in Uid
  BY <1>2, <1>4 DEF HasRoom, PoolOK
<1> HIDE DEF q
<1>8. PoolOK(pool', kernel') /\ Extends(q, d.k, pool', kernel')
  BY <1>3, <1>5, <1>7, AnticipatedSound
<1>9. /\ pool.n \in Nat /\ d.p.n \in Nat /\ q.n \in Nat /\ pool'.n \in Nat
      /\ q \in Pools /\ pool' \in Pools /\ kernel' \in [Uid -> Nat]
  <2>1. q \in Pools /\ pool' \in Pools
    BY <1>7, <1>8 DEF PoolOK
  <2> QED BY <2>1, <1>0, <1>3, <1>8 DEF Pools, Extends
<1>10. Grows
  <2>1. pool.n <= pool'.n
    BY <1>2, <1>7, <1>8, <1>9 DEF Extends
  <2>2. ASSUME NEW j \in Seg, j <= pool.n
        PROVE  pool'.seg[j].uid = pool.seg[j].uid /\ pool'.seg[j].used >= pool.seg[j].used
    <3>1. j <= d.p.n /\ d.p.seg[j] = pool.seg[j]
      BY <1>2, <1>9, <2>2 DEF Extends, Seg
    <3>2. pool'.seg[j] = q.seg[j]
      BY <1>7, <1>8, <3>1 DEF Extends
    <3> QED BY <1>7, <3>1, <3>2
  <2>3. ASSUME NEW u \in Uid, kernel[u] > 0
        PROVE  kernel'[u] = kernel[u] /\ (InPool(pool', u) <=> InPool(pool, u))
    <3>1. d.k[u] = kernel[u] /\ (InPool(d.p, u) <=> InPool(pool, u))
      BY <1>0, <1>2, <1>9, <2>3, ExtendsKeeps
    <3>2. InPool(q, u) <=> InPool(d.p, u)
      BY <1>7 DEF InPool
    <3>3. kernel'[u] = d.k[u] /\ (InPool(pool', u) <=> InPool(q, u))
      BY <1>3, <1>8, <1>9, <2>3, <3>1, ExtendsKeeps
    <3> QED BY <3>1, <3>2, <3>3
  <2> QED BY <2>1, <2>2, <2>3 DEF Grows, Keeps
<1>11. rw' = rw /\ RwGrows
  BY <1>0 DEF MapCode, RwGrows
<1>12. RwOK'
  BY <1>0, <1>10, <1>11 DEF JInv, RwOK, RwHeld, Grows, Keeps
<1>13. b \in [uid : Uid \cup {NoUid}, off : Nat, size : Nat,
              vm : BOOLEAN, pool : BOOLEAN]
  BY <1>0, <1>3, <1>70 DEF Pools
<1>14. TypeOK'
  <2>1. blk' \in [Slot -> [uid : Uid \cup {NoUid}, off : Nat, size : Nat,
                           vm : BOOLEAN, pool : BOOLEAN]]
    BY <1>0, <1>6, <1>13
  <2>2. jitCur' \in Nat
    BY <1>0 DEF MapCode
  <2> QED BY <1>9, <2>1, <2>2 DEF JInv, TypeOK, MapCode
<1>15. Owned(b)'
  <2>1. pool'.seg[i] = q.seg[i] /\ i <= pool'.n
    BY <1>7, <1>8, <1>9, <1>70 DEF Extends, Seg
  <2>2. b.uid = pool'.seg[i].uid /\ b.off + b.size <= pool'.seg[i].used
    BY <1>3, <1>7, <1>9, <1>70, <2>1 DEF Pools
  <2> HIDE DEF b
  <2>3. b.vm /\ b.pool /\ b.size > 0
    BY <1>0 DEF b
  <2> QED BY <1>70, <2>1, <2>2, <2>3 DEF Owned
<1>16. ASSUME NEW r \in Slot, Used(r)
       PROVE  Apart(blk[r], b)
  <2>1. blk[r].uid \in Uid /\ kernel[blk[r].uid] > 0 /\ Owned(blk[r])
    BY <1>16, UsedLive DEF JInv
  <2>2. ASSUME blk[r].uid = b.uid
        PROVE  blk[r].off + blk[r].size <= b.off
    <3>1. i <= pool.n /\ d.p.seg[i] = pool.seg[i]
      BY <1>2, <1>9, <1>70, <2>1, <2>2 DEF Extends, Seg
    <3>2. InPool(pool, b.uid)
      BY <1>70, <3>1 DEF InPool
    <3>3. blk[r].vm /\ blk[r].pool
      BY <1>16, <2>1, <2>2, <3>2 DEF Owned, Lone, JInv, RwOK, RwHeld, Used
    <3>4. PICK j \in Seg : /\ j <= pool.n /\ blk[r].uid = pool.seg[j].uid
                           /\ blk[r].off + blk[r].size <= pool.seg[j].used
      BY <2>1, <3>3 DEF Owned
    <3>5. i = j
      BY <1>0, <1>70, <2>2, <3>1, <3>4 DEF PoolOK
    <3> QED BY <3>1, <3>4, <3>5
  <2> QED BY <2>2 DEF Apart
<1>17. ASSUME NEW x \in Thread, freeing[x] # NoUid
       PROVE  freeing[x] # b.uid
  <2>1. freeing[x] \in Uid /\ kernel[freeing[x]] > 0 /\ ~InPool(pool, freeing[x])
    BY <1>17 DEF JInv, FreeingOK, Lone
  <2>2. CASE i <= pool.n
    <3>1. d.p.seg[i] = pool.seg[i]
      BY <1>2, <1>70, <2>2 DEF Extends
    <3> QED BY <1>70, <2>1, <2>2, <3>1 DEF InPool
  <2>3. CASE ~(i <= pool.n)
    BY <1>2, <1>9, <1>70, <2>1, <2>3 DEF Extends, Seg
  <2> QED BY <2>2, <2>3
<1>18. ~Used(s) /\ UNCHANGED <<freeing, syncing>>
  BY DEF MapCode, FreeSlot
<1> HIDE DEF b
<1> QED BY <1>6, <1>8, <1>10, <1>11, <1>12, <1>14, <1>15, <1>16, <1>17, <1>18, EntryAdded
----------------------------------------------------------------------------
(* mmap from the kernel.  A block just taken is no pool's.                 *)
LEMMA KernelTakes ==
  ASSUME NEW p, NEW r, NEW l \in [Uid -> Nat], NEW u \in Uid, l[u] = 0, NEW n \in Nat,
         PoolOK(p, l), RwHeld(r, p, l), r.uid \in Uid \cup {NoUid}
  PROVE  /\ PoolOK(p, [l EXCEPT ![u] = n]) /\ ~InPool(p, u)
         /\ RwHeld(r, p, [l EXCEPT ![u] = n]) /\ r.uid # u
<1> DEFINE m == [l EXCEPT ![u] = n]
<1>1. m[u] = n /\ \A v \in Uid : v # u => m[v] = l[v]
  OBVIOUS
<1>2. \A i \in Seg : i <= p.n => p.seg[i].uid # u
  BY DEF PoolOK
<1>3. r.uid # u
  BY JitAssumption DEF RwHeld
<1> HIDE DEF m
<1>4. PoolOK(p, m)
  BY <1>1, <1>2 DEF PoolOK
<1>5. RwHeld(r, p, m)
  BY <1>1, <1>3 DEF RwHeld
<1> QED BY <1>2, <1>3, <1>4, <1>5 DEF m, InPool

(* A request the kernel answers keeps the invariant:                       *)
LEMMA AloneKeeps ==
  ASSUME JInv, NEW l \in [Uid -> Nat], NEW t \in Thread, NEW s \in Slot,
         NEW n \in Nat, n > 0, NEW vm \in BOOLEAN,
         PoolOK(pool', l), RwHeld(rw', pool', l), Keeps(pool', l), RwGrows,
         rw' \in [tried : BOOLEAN, uid : Uid \cup {NoUid}, size : Nat, used : Nat],
         jitCur' \in Nat, rwCur' \in Nat, UNCHANGED syncing,
         freeing[t] = NoUid, ~Used(s),
         Placed(s, l, n, vm) \/ Unplaced(t, l, n) \/ MapFails(l)
  PROVE  JInv'
<1> DEFINE Blocks == [uid : Uid \cup {NoUid}, off : Nat, size : Nat,
                      vm : BOOLEAN, pool : BOOLEAN]
<1>0. /\ blk \in [Slot -> Blocks] /\ freeing \in [Thread -> Uid \cup {NoUid}]
      /\ syncing' \in [Thread -> Uid \cup {NoUid}] /\ pool' \in Pools
      /\ rw'.uid \in Uid \cup {NoUid}
  BY DEF JInv, TypeOK, PoolOK
<1>1. \A v \in Uid : l[v] = 0 => kernel[v] = 0
  BY DEF Keeps, JInv, TypeOK
<1>2. ASSUME NEW u \in Uid, l[u] = 0, kernel' = [l EXCEPT ![u] = n]
      PROVE  /\ kernel' \in [Uid -> Nat] /\ kernel'[u] = n
             /\ PoolOK(pool, kernel)' /\ RwOK' /\ Grows /\ Lone(u)'
  <2>1. /\ PoolOK(pool', kernel') /\ ~InPool(pool', u)
        /\ RwHeld(rw', pool', kernel') /\ rw'.uid # u
    BY <1>0, <1>2, KernelTakes
  <2>2. kernel' \in [Uid -> Nat] /\ kernel'[u] = n /\ kernel[u] = 0
        /\ \A v \in Uid : v # u => kernel'[v] = l[v]
    BY <1>1, <1>2
  <2>3. Grows
    BY <2>2 DEF Grows, Keeps
  <2>4. Lone(u)'
    BY <2>1, <2>2 DEF Lone, InPool
  <2> QED BY <2>1, <2>2, <2>3, <2>4 DEF RwOK
<1>3. CASE Placed(s, l, n, vm)
  <2>1. PICK u \in Available(l) : kernel' = [l EXCEPT ![u] = n]
                               /\ blk' = [blk EXCEPT ![s] = Alone(u, n, vm)]
    BY <1>3 DEF Placed
  <2>2. u \in Uid /\ l[u] = 0 /\ freeing' = freeing
    BY <1>3 DEF Available, Placed
  <2> DEFINE b == Alone(u, n, vm)
  <2>3. /\ b \in Blocks /\ b.uid = u /\ b.off = 0 /\ b.size = n
        /\ ~b.pool
    BY <2>2 DEF Alone
  <2>4. blk' = [blk EXCEPT ![s] = b]
    BY <2>1
  <2> HIDE DEF b
  <2>5. /\ kernel' \in [Uid -> Nat] /\ kernel'[u] = n
        /\ PoolOK(pool, kernel)' /\ RwOK' /\ Grows /\ Lone(u)'
    BY <1>2, <2>1, <2>2
  <2>6. TypeOK'
    BY <1>0, <2>2, <2>3, <2>4, <2>5 DEF TypeOK
  <2>7. Owned(b)'
    BY <2>3, <2>5 DEF Owned
  <2>8. ASSUME NEW r \in Slot, Used(r)
        PROVE  Apart(blk[r], b)
    BY <1>1, <2>2, <2>3, <2>8, UsedLive DEF Apart
  <2>9. ASSUME NEW x \in Thread, freeing[x] # NoUid
        PROVE  freeing[x] # b.uid
    BY <1>1, <2>2, <2>3, <2>9 DEF JInv, FreeingOK, Lone
  <2>10. UNCHANGED <<freeing, syncing>>
    BY <2>2
  <2> QED BY <2>4, <2>5, <2>6, <2>7, <2>8, <2>9, <2>10, EntryAdded
<1>4. CASE Unplaced(t, l, n)
  <2>1. PICK u \in Available(l) : kernel' = [l EXCEPT ![u] = n]
                               /\ freeing' = [freeing EXCEPT ![t] = u]
    BY <1>4 DEF Unplaced
  <2>2. u \in Uid /\ l[u] = 0 /\ blk' = blk
    BY <1>4 DEF Available, Unplaced
  <2>3. /\ kernel' \in [Uid -> Nat]
        /\ PoolOK(pool, kernel)' /\ RwOK' /\ Grows /\ Lone(u)'
    BY <1>2, <2>1, <2>2
  <2>4. TypeOK'
    BY <1>0, <2>1, <2>2, <2>3 DEF TypeOK
  <2>5. UNCHANGED <<blk, syncing>> /\ kernel[u] = 0
    BY <1>1, <2>2
  <2> QED BY <2>1, <2>2, <2>3, <2>4, <2>5, PoolsMove
<1>5. CASE MapFails(l)
  <2>1. kernel' = l /\ UNCHANGED <<blk, freeing>>
    BY <1>5 DEF MapFails
  <2>2. PoolOK(pool, kernel)' /\ RwOK' /\ Grows
    BY <2>1 DEF RwOK, Grows
  <2>3. TypeOK'
    BY <1>0, <2>1 DEF TypeOK
  <2> QED BY <2>1, <2>2, <2>3, PoolsMove
<1> QED BY <1>3, <1>4, <1>5

(* for code,                                                               *)
LEMMA MapCodeAloneKeeps ==
  ASSUME JInv, NEW t \in Thread, NEW s \in Slot, NEW n \in CodeSizes,
         MapCodeAlone(t, s, n)
  PROVE  JInv'
<1>0. /\ kernel \in [Uid -> Nat] /\ pool \in Pools /\ PoolOK(pool, kernel)
      /\ n \in Nat /\ n > 0 /\ jitCur \in Nat /\ rwCur \in Nat
      /\ rw \in [tried : BOOLEAN, uid : Uid \cup {NoUid}, size : Nat, used : Nat]
  BY JitAssumption DEF JInv, TypeOK
<1>1. PICK d \in Demanded(n) :
        /\ pool' = d.p
        /\ \/ Placed(s, d.k, n, TRUE) /\ jitCur' = jitCur + n
           \/ jitCur + n <= MaxGauge /\ Unplaced(t, d.k, n) /\ jitCur' = jitCur + n
           \/ MapFails(d.k) /\ UNCHANGED jitCur
  BY Zenon DEF MapCodeAlone
<1>2. PoolOK(d.p, d.k) /\ Extends(pool, kernel, d.p, d.k)
  BY <1>0, DemandedSound
<1>3. d.k \in [Uid -> Nat] /\ pool.n \in Nat /\ d.p.n \in Nat /\ d.p \in Pools
  BY <1>0, <1>2, JitAssumption DEF Extends, PoolOK, Pools
<1>4. Keeps(pool', d.k)
  <2>1. ASSUME NEW i \in Seg, i <= pool.n
        PROVE  d.p.seg[i].uid = pool.seg[i].uid /\ d.p.seg[i].used >= pool.seg[i].used
    <3>1. d.p.seg[i] = pool.seg[i] /\ pool.seg[i].used \in Nat
      BY <1>0, <1>2, <2>1 DEF Extends, Pools
    <3> QED BY <3>1
  <2>2. ASSUME NEW u \in Uid, kernel[u] > 0
        PROVE  d.k[u] = kernel[u] /\ (InPool(d.p, u) <=> InPool(pool, u))
    BY <1>0, <1>2, <1>3, <2>2, ExtendsKeeps
  <2> QED BY <1>1, <1>2, <2>1, <2>2 DEF Keeps, Extends
<1>5. rw' = rw /\ RwGrows
  BY <1>0 DEF MapCodeAlone, RwGrows
<1>6. RwHeld(rw', pool', d.k)
  BY <1>0, <1>4, <1>5 DEF JInv, RwOK, RwHeld, Keeps
<1>7. jitCur' \in Nat /\ rwCur' \in Nat /\ UNCHANGED syncing
  <2>1. jitCur' = jitCur + n \/ jitCur' = jitCur
    BY <1>1, Zenon
  <2>2. rwCur' = rwCur /\ UNCHANGED syncing
    BY DEF MapCodeAlone
  <2> QED BY <1>0, <2>1, <2>2
<1>8. freeing[t] = NoUid /\ ~Used(s)
  BY DEF MapCodeAlone, Idle, FreeSlot
<1>9. PoolOK(pool', d.k)
        /\ (Placed(s, d.k, n, TRUE) \/ Unplaced(t, d.k, n) \/ MapFails(d.k))
  BY <1>1, <1>2
<1> QED BY <1>0, <1>3, <1>4, <1>5, <1>6, <1>7, <1>8, <1>9, AloneKeeps
----------------------------------------------------------------------------
(* (nothing granted keeps everything)                                      *)
LEMMA KeepsItself ==
  ASSUME JInv
  PROVE  Keeps(pool, kernel)
<1>1. pool \in Pools
  BY DEF JInv, TypeOK
<1>2. pool.n \in Nat /\ \A i \in Seg : pool.seg[i].used \in Nat
  BY <1>1, JitAssumption DEF Pools
<1> QED BY <1>2 DEF Keeps

(* The RW pool is asked for at most once, in a fresh kernel block.         *)
LEMMA ReservedSound ==
  ASSUME JInv, NEW d \in Reserved
  PROVE  /\ d.k \in [Uid -> Nat]
         /\ d.r \in [tried : BOOLEAN, uid : Uid \cup {NoUid}, size : Nat, used : Nat]
         /\ PoolOK(pool, d.k) /\ RwHeld(d.r, pool, d.k) /\ Keeps(pool, d.k)
         /\ \/ d.r.uid = rw.uid /\ d.r.used = rw.used
            \/ rw.uid = NoUid /\ d.r.uid \in Uid /\ kernel[d.r.uid] = 0 /\ d.r.used = 0
<1>0. /\ kernel \in [Uid -> Nat] /\ pool \in Pools /\ PoolOK(pool, kernel)
      /\ rw \in [tried : BOOLEAN, uid : Uid \cup {NoUid}, size : Nat, used : Nat]
      /\ RwHeld(rw, pool, kernel)
  BY DEF JInv, TypeOK, RwOK
<1>1. Keeps(pool, kernel)
  BY KeepsItself
<1>2. CASE d = [r |-> rw, k |-> kernel]
  BY <1>0, <1>1, <1>2
<1>3. CASE d = [r |-> [rw EXCEPT !.tried = TRUE], k |-> kernel]
  <2> DEFINE r == [rw EXCEPT !.tried = TRUE]
  <2>1. /\ r \in [tried : BOOLEAN, uid : Uid \cup {NoUid}, size : Nat, used : Nat]
        /\ r.tried /\ r.uid = rw.uid /\ r.size = rw.size /\ r.used = rw.used
    BY <1>0
  <2> HIDE DEF r
  <2>2. RwHeld(r, pool, kernel)
    BY <1>0, <2>1 DEF RwHeld
  <2>3. d.r = r /\ d.k = kernel
    BY <1>3 DEF r
  <2> QED BY <1>0, <1>1, <2>1, <2>2, <2>3
<1>4. CASE ~rw.tried /\ \E u \in Available(kernel), w \in RwLadder :
             d = [r |-> [tried |-> TRUE, uid |-> u, size |-> w, used |-> 0],
                  k |-> [kernel EXCEPT ![u] = w]]
  <2>1. PICK u \in Available(kernel), w \in RwLadder :
          d = [r |-> [tried |-> TRUE, uid |-> u, size |-> w, used |-> 0],
               k |-> [kernel EXCEPT ![u] = w]]
    BY <1>4
  <2>2. u \in Uid /\ kernel[u] = 0 /\ w \in Nat /\ w > 0
    BY JitAssumption DEF Available
  <2> DEFINE r == [tried |-> TRUE, uid |-> u, size |-> w, used |-> 0]
             m == [kernel EXCEPT ![u] = w]
  <2>3. d.r = r /\ d.k = m
    BY <2>1
  <2>4. rw.uid = NoUid
    BY <1>0, <1>4 DEF RwHeld
  <2>5. PoolOK(pool, m) /\ ~InPool(pool, u)
    BY <1>0, <2>2, KernelTakes
  <2>6. m \in [Uid -> Nat] /\ m[u] = w /\ \A v \in Uid : v # u => m[v] = kernel[v]
    BY <1>0, <2>2
  <2>7. /\ r \in [tried : BOOLEAN, uid : Uid \cup {NoUid}, size : Nat, used : Nat]
        /\ r.tried /\ r.uid = u /\ r.size = w /\ r.used = 0
    BY <2>2
  <2> HIDE DEF r, m
  <2>8. RwHeld(r, pool, m)
    BY <2>2, <2>5, <2>6, <2>7 DEF RwHeld
  <2>9. Keeps(pool, m)
    BY <1>1, <2>2, <2>6 DEF Keeps
  <2> QED BY <2>2, <2>3, <2>4, <2>5, <2>6, <2>7, <2>8, <2>9
<1> QED BY <1>2, <1>3, <1>4 DEF Reserved

(* for data from the RW pool,                                              *)
LEMMA MapDataKeeps ==
  ASSUME JInv, NEW t \in Thread, NEW s \in Slot, NEW n \in DataSizes, MapData(t, s, n)
  PROVE  JInv'
<1> DEFINE Blocks == [uid : Uid \cup {NoUid}, off : Nat, size : Nat,
                      vm : BOOLEAN, pool : BOOLEAN]
           Rws == [tried : BOOLEAN, uid : Uid \cup {NoUid}, size : Nat, used : Nat]
<1>0. n \in Nat /\ n > 0 /\ blk \in [Slot -> Blocks] /\ rwCur \in Nat
      /\ rw \in Rws
  BY JitAssumption DEF JInv, TypeOK
<1>1. PICK d \in Reserved :
        /\ RwHolds(d.r, n)
        /\ rw' = [d.r EXCEPT !.used = d.r.used + n]
        /\ kernel' = d.k
        /\ blk' = [blk EXCEPT ![s] = [uid |-> d.r.uid, off |-> d.r.used, size |-> n,
                                      vm |-> FALSE, pool |-> TRUE]]
  BY DEF MapData
<1>2. /\ d.k \in [Uid -> Nat] /\ d.r \in Rws
      /\ PoolOK(pool, d.k) /\ RwHeld(d.r, pool, d.k) /\ Keeps(pool, d.k)
      /\ \/ d.r.uid = rw.uid /\ d.r.used = rw.used
         \/ rw.uid = NoUid /\ d.r.uid \in Uid /\ kernel[d.r.uid] = 0 /\ d.r.used = 0
  BY ReservedSound
<1>3. /\ rw' \in Rws /\ rw'.uid = d.r.uid /\ rw'.used = d.r.used + n
      /\ rw'.size = d.r.size /\ rw'.tried = d.r.tried
      /\ d.r.uid \in Uid /\ d.r.used + n <= d.r.size /\ d.r.used \in Nat
  BY <1>0, <1>1, <1>2 DEF RwHolds
<1>4. /\ pool' = pool /\ freeing' = freeing /\ syncing' = syncing /\ jitCur' = jitCur
      /\ rwCur' = rwCur + n /\ ~Used(s)
  BY DEF MapData, FreeSlot
<1> DEFINE b == [uid |-> d.r.uid, off |-> d.r.used, size |-> n,
                 vm |-> FALSE, pool |-> TRUE]
<1>5. /\ blk' = [blk EXCEPT ![s] = b] /\ b \in Blocks
      /\ b.uid = rw'.uid /\ b.off = d.r.used /\ b.size = n
      /\ b.pool /\ ~b.vm
  BY <1>0, <1>1, <1>2, <1>3
<1> HIDE DEF b
<1>6. PoolOK(pool, kernel)' /\ Grows
  BY <1>1, <1>2, <1>4 DEF Grows
<1>7. RwGrows
  BY <1>0, <1>2, <1>3 DEF RwGrows
<1>8. RwOK'
  BY <1>1, <1>2, <1>3, <1>4 DEF RwOK, RwHeld
<1>9. TypeOK'
  BY <1>0, <1>1, <1>2, <1>3, <1>4, <1>5 DEF JInv, TypeOK
<1>10. Owned(b)'
  BY <1>0, <1>3, <1>5 DEF Owned
<1>11. ASSUME NEW r \in Slot, Used(r)
       PROVE  Apart(blk[r], b)
  <2>1. blk[r].uid \in Uid /\ kernel[blk[r].uid] > 0 /\ Owned(blk[r])
    BY <1>11, UsedLive DEF JInv
  <2>2. ASSUME blk[r].uid = b.uid
        PROVE  blk[r].off + blk[r].size <= b.off
    <3>1. rw.uid = b.uid /\ b.off = rw.used /\ rw.uid # NoUid
      BY <1>2, <1>3, <1>5, <2>1, <2>2, JitAssumption
    <3>2. ~InPool(pool, rw.uid)
      BY <3>1 DEF JInv, RwOK, RwHeld
    <3>3. ~blk[r].vm /\ blk[r].pool
      BY <2>1, <2>2, <3>1, <3>2 DEF Owned, InPool, Lone
    <3> QED BY <2>1, <3>1, <3>3 DEF Owned
  <2> QED BY <2>2 DEF Apart
<1>12. ASSUME NEW x \in Thread, freeing[x] # NoUid
       PROVE  freeing[x] # b.uid
  BY <1>2, <1>3, <1>5, <1>12 DEF JInv, FreeingOK, Lone
<1>13. UNCHANGED <<freeing, syncing>>
  BY <1>4
<1> QED BY <1>4, <1>5, <1>6, <1>7, <1>8, <1>9, <1>10, <1>11, <1>12, <1>13, EntryAdded

(* and for data on its own.                                                *)
LEMMA MapDataAloneKeeps ==
  ASSUME JInv, NEW t \in Thread, NEW s \in Slot, NEW n \in DataSizes,
         MapDataAlone(t, s, n)
  PROVE  JInv'
<1> DEFINE Rws == [tried : BOOLEAN, uid : Uid \cup {NoUid}, size : Nat, used : Nat]
<1>0. /\ n \in Nat /\ n > 0 /\ rwCur \in Nat /\ jitCur \in Nat
      /\ rw \in Rws /\ kernel \in [Uid -> Nat]
      /\ PoolOK(pool, kernel) /\ RwHeld(rw, pool, kernel)
  BY JitAssumption DEF JInv, TypeOK, RwOK
<1>1. PICK d \in IF n <= MaxServe THEN Reserved ELSE {[r |-> rw, k |-> kernel]} :
        /\ rw' = d.r
        /\ \/ Placed(s, d.k, n, FALSE) /\ rwCur' = rwCur + n
           \/ rwCur + n <= MaxGauge /\ Unplaced(t, d.k, n) /\ rwCur' = rwCur + n
           \/ MapFails(d.k) /\ UNCHANGED rwCur
  BY Zenon DEF MapDataAlone
<1>2. /\ d.k \in [Uid -> Nat] /\ d.r \in Rws
      /\ PoolOK(pool, d.k) /\ RwHeld(d.r, pool, d.k) /\ Keeps(pool, d.k)
      /\ \/ d.r.uid = rw.uid /\ d.r.used = rw.used
         \/ rw.uid = NoUid /\ d.r.uid \in Uid /\ kernel[d.r.uid] = 0 /\ d.r.used = 0
  <2>1. CASE d \in Reserved
    BY <2>1, ReservedSound
  <2>2. CASE d = [r |-> rw, k |-> kernel]
    <3>1. Keeps(pool, kernel)
      BY KeepsItself
    <3> QED BY <1>0, <2>2, <3>1
  <2> QED BY <1>1, <2>1, <2>2
<1>3. pool' = pool /\ UNCHANGED syncing /\ jitCur' = jitCur
  BY DEF MapDataAlone
<1>4. freeing[t] = NoUid /\ ~Used(s)
  BY DEF MapDataAlone, Idle, FreeSlot
<1>5. rwCur' \in Nat /\ jitCur' \in Nat
  <2>1. rwCur' = rwCur + n \/ rwCur' = rwCur
    BY <1>1, Zenon
  <2> QED BY <1>0, <1>3, <2>1
<1>6. RwGrows
  BY <1>0, <1>1, <1>2 DEF RwGrows
<1>7. PoolOK(pool', d.k) /\ RwHeld(rw', pool', d.k) /\ Keeps(pool', d.k) /\ rw' \in Rws
  BY <1>1, <1>2, <1>3
<1>8. Placed(s, d.k, n, FALSE) \/ Unplaced(t, d.k, n) \/ MapFails(d.k)
  BY <1>1
<1> QED BY <1>0, <1>2, <1>3, <1>4, <1>5, <1>6, <1>7, <1>8, AloneKeeps
----------------------------------------------------------------------------
(* munmap and clear_cache.                                                 *)

(* A lone block's entry shares its kernel block with no other entry.       *)
LEMMA UnmapKeeps ==
  ASSUME JInv, NEW t \in Thread, NEW s \in Slot, Unmap(t, s)
  PROVE  JInv'
<1> DEFINE Blocks == [uid : Uid \cup {NoUid}, off : Nat, size : Nat,
                      vm : BOOLEAN, pool : BOOLEAN]
           out == IF blk[s].pool THEN NoUid ELSE blk[s].uid
<1>0. /\ blk \in [Slot -> Blocks] /\ kernel \in [Uid -> Nat]
      /\ freeing \in [Thread -> Uid \cup {NoUid}]
      /\ syncing \in [Thread -> Uid \cup {NoUid}]
      /\ jitCur \in Nat /\ rwCur \in Nat
  BY DEF JInv, TypeOK
<1>1. /\ Used(s) /\ freeing[t] = NoUid /\ UNCHANGED <<pool, rw, kernel, syncing>>
      /\ blk' = [blk EXCEPT ![s] = Free] /\ freeing' = [freeing EXCEPT ![t] = out]
      /\ blk[s].vm => \A x \in Thread : syncing[x] = NoUid
  BY DEF Unmap, Idle
<1>2. Owned(blk[s]) /\ blk[s].uid \in Uid
  BY <1>1, UsedLive DEF JInv
<1>3. out \in Uid \cup {NoUid} /\ Free \in Blocks /\ Free.uid = NoUid
  BY <1>2 DEF Free
<1> HIDE DEF out
<1>4. blk'[s] = Free /\ \A r \in Slot : r # s => blk'[r] = blk[r]
  BY <1>0, <1>1
<1>5. freeing'[t] = out /\ \A x \in Thread : x # t => freeing'[x] = freeing[x]
  BY <1>0, <1>1
<1>6. TypeOK'
  <2>1. jitCur' \in Nat /\ rwCur' \in Nat
    BY <1>0 DEF Unmap, Lowered
  <2>2. blk' \in [Slot -> Blocks] /\ freeing' \in [Thread -> Uid \cup {NoUid}]
    BY <1>0, <1>1, <1>3
  <2> QED BY <1>1, <2>1, <2>2 DEF JInv, TypeOK
<1>7. ASSUME NEW r \in Slot, Used(r)'
      PROVE  r # s /\ Used(r) /\ Owned(blk[r])'
  <2>1. r # s /\ blk'[r] = blk[r]
    BY <1>3, <1>4, <1>7 DEF Used
  <2>2. Used(r) /\ Owned(blk[r])
    BY <1>7, <2>1 DEF Used, JInv
  <2> QED BY <1>1, <2>1, <2>2 DEF Owned, Lone, InPool
<1>8. ASSUME NEW q \in Slot, NEW r \in Slot, q # r, Used(q)', Used(r)'
      PROVE  Apart(blk[q], blk[r])'
  BY <1>4, <1>7, <1>8 DEF JInv, Apart
<1>9. ASSUME NEW v, v = out, v # NoUid
      PROVE  /\ Lone(v)' /\ \A r \in Slot : blk'[r].uid # v
             /\ \A x \in Thread : freeing[x] # v
  <2>1. ~blk[s].pool /\ v = blk[s].uid
    BY <1>9 DEF out
  <2>2. Lone(v) /\ blk[s].off = 0 /\ blk[s].size = kernel[v] /\ kernel[v] > 0
    BY <1>2, <2>1 DEF Owned, Lone
  <2>3. Lone(v)'
    BY <1>1, <2>2 DEF Lone, InPool
  <2>4. ASSUME NEW r \in Slot, r # s
        PROVE  blk[r].uid # v
    <3>1. SUFFICES ASSUME blk[r].uid = v PROVE FALSE
      OBVIOUS
    <3>2. Used(r)
      BY <1>9, <3>1 DEF Used
    <3>3. /\ blk[r].off + blk[r].size <= kernel[v] /\ blk[r].size > 0
          /\ Apart(blk[r], blk[s])
      BY <1>1, <2>4, <3>1, <3>2, UsedLive DEF JInv, Owned
    <3>4. blk[r].off \in Nat /\ blk[r].size \in Nat /\ kernel[v] \in Nat
      BY <1>0, <1>2, <2>1
    <3> QED BY <2>1, <2>2, <3>1, <3>3, <3>4 DEF Apart
  <2>5. \A x \in Thread : freeing[x] # v
    BY <1>1, <1>9, <2>1 DEF JInv, FreeingOK
  <2> QED BY <1>3, <1>4, <1>9, <2>3, <2>4, <2>5
<1>10. FreeingOK'
  <2>1. ASSUME NEW x \in Thread, freeing'[x] # NoUid
        PROVE  Lone(freeing[x])' /\ \A r \in Slot : blk'[r].uid # freeing'[x]
    <3>1. CASE x = t
      <4>1. PICK v : v = out
        OBVIOUS
      <4>2. Lone(v)' /\ freeing'[x] = v /\ \A r \in Slot : blk'[r].uid # v
        BY <1>5, <1>9, <2>1, <3>1, <4>1
      <4> QED BY <4>2
    <3>2. CASE x # t
      <4>1. /\ freeing'[x] = freeing[x] /\ Lone(freeing[x])
            /\ \A r \in Slot : blk[r].uid # freeing[x]
        BY <1>5, <2>1, <3>2 DEF JInv, FreeingOK
      <4> QED BY <1>1, <1>3, <1>4, <2>1, <4>1 DEF Lone, InPool
    <3> QED BY <3>1, <3>2
  <2>2. ASSUME NEW x \in Thread, NEW y \in Thread, freeing'[x] # NoUid,
               freeing'[x] = freeing'[y]
        PROVE  x = y
    BY <1>1, <1>5, <1>9, <2>2 DEF JInv, FreeingOK
  <2> QED BY <2>1, <2>2 DEF FreeingOK
<1>11. SyncingOK'
  <2>1. ASSUME NEW x \in Thread, syncing[x] # NoUid, ~InPool(pool, syncing[x])
        PROVE  \E r \in Slot : blk'[r].vm /\ ~blk'[r].pool /\ blk'[r].uid = syncing[x]
    <3>1. PICK r \in Slot : blk[r].vm /\ ~blk[r].pool /\ blk[r].uid = syncing[x]
      BY <2>1 DEF JInv, SyncingOK
    <3>2. r # s
      BY <1>1, <2>1, <3>1
    <3> QED BY <1>4, <3>1, <3>2
  <2> QED BY <1>1, <2>1 DEF SyncingOK, InPool
<1>12. PoolOK(pool, kernel)' /\ RwOK'
  BY <1>1 DEF JInv, PoolOK, RwOK, RwHeld, InPool
<1> QED BY <1>6, <1>7, <1>8, <1>10, <1>11, <1>12 DEF JInv

(* So does giving back a lone block nobody has registered.                 *)
LEMMA FreeMemBlockKeeps ==
  ASSUME JInv, NEW t \in Thread, FreeMemBlock(t)
  PROVE  JInv'
<1> DEFINE u == freeing[t]
<1>0. /\ kernel \in [Uid -> Nat] /\ freeing \in [Thread -> Uid \cup {NoUid}]
  BY DEF JInv, TypeOK
<1>1. /\ u # NoUid /\ kernel' = [kernel EXCEPT ![u] = 0]
      /\ freeing' = [freeing EXCEPT ![t] = NoUid]
      /\ UNCHANGED <<pool, rw, blk, jitCur, rwCur, syncing>>
  BY DEF FreeMemBlock
<1>2. /\ u \in Uid /\ Lone(u) /\ (\A r \in Slot : blk[r].uid # u)
      /\ \A x \in Thread : x # t => freeing[x] # u
  BY <1>0, <1>1 DEF JInv, FreeingOK
<1> HIDE DEF u
<1>3. kernel' \in [Uid -> Nat] /\ \A v \in Uid : v # u => kernel'[v] = kernel[v]
  BY <1>0, <1>1, <1>2
<1>4. freeing'[t] = NoUid /\ \A x \in Thread : x # t => freeing'[x] = freeing[x]
  BY <1>0, <1>1
<1>5. TypeOK'
  BY <1>0, <1>1, <1>3 DEF JInv, TypeOK
<1>6. PoolOK(pool, kernel)'
  <2>1. \A i \in Seg : i <= pool.n => pool.seg[i].uid # u
    BY <1>2 DEF Lone, InPool
  <2>2. PoolOK(pool, kernel')
    BY <1>3, <2>1 DEF JInv, PoolOK
  <2> QED BY <1>1, <2>2
<1>7. RwOK'
  BY <1>1, <1>2, <1>3 DEF JInv, TypeOK, RwOK, RwHeld, Lone, InPool
<1>8. ASSUME NEW v, v # u, Lone(v)
      PROVE  Lone(v)' /\ kernel'[v] = kernel[v]
  BY <1>1, <1>3, <1>8 DEF Lone, InPool
<1>9. ASSUME NEW r \in Slot, Used(r)'
      PROVE  Used(r) /\ Owned(blk[r])'
  <2>1. Used(r) /\ Owned(blk[r]) /\ blk[r].uid # u
    BY <1>1, <1>2, <1>9 DEF Used, JInv
  <2>2. PICK b : b = blk[r]
    OBVIOUS
  <2>3. Owned(b) /\ b.uid # u /\ b = blk'[r]
    BY <1>1, <2>1, <2>2
  <2>4. ASSUME ~b.pool
        PROVE  Lone(b.uid)' /\ kernel'[b.uid] = kernel[b.uid]
    <3>1. PICK v : v = b.uid
      OBVIOUS
    <3>2. v # u /\ Lone(v)
      BY <2>3, <2>4, <3>1 DEF Owned
    <3>3. Lone(v)' /\ kernel'[v] = kernel[v]
      BY <1>8, <3>2
    <3> QED BY <3>1, <3>3
  <2>5. Owned(b)'
    BY <1>1, <2>3, <2>4 DEF Owned
  <2> QED BY <2>1, <2>3, <2>5
<1>10. ASSUME NEW q \in Slot, NEW r \in Slot, q # r, Used(q)', Used(r)'
       PROVE  Apart(blk[q], blk[r])'
  BY <1>1, <1>9, <1>10 DEF JInv, Apart
<1>11. FreeingOK'
  <2>1. ASSUME NEW x \in Thread, freeing'[x] # NoUid
        PROVE  Lone(freeing[x])' /\ \A r \in Slot : blk'[r].uid # freeing'[x]
    <3>1. x # t /\ freeing'[x] = freeing[x]
      BY <1>4, <2>1
    <3>2. PICK v : v = freeing[x]
      OBVIOUS
    <3>3. v # u /\ Lone(v) /\ \A r \in Slot : blk[r].uid # v
      BY <1>2, <2>1, <3>1, <3>2 DEF JInv, FreeingOK
    <3>4. Lone(v)' /\ freeing'[x] = v
      BY <1>8, <3>1, <3>2, <3>3
    <3> QED BY <1>1, <3>3, <3>4
  <2>2. ASSUME NEW x \in Thread, NEW y \in Thread, freeing'[x] # NoUid,
               freeing'[x] = freeing'[y]
        PROVE  x = y
    BY <1>4, <2>2 DEF JInv, FreeingOK
  <2> QED BY <2>1, <2>2 DEF FreeingOK
<1>12. SyncingOK'
  BY <1>1 DEF JInv, SyncingOK, InPool
<1> QED BY <1>5, <1>6, <1>7, <1>9, <1>10, <1>11, <1>12 DEF JInv

(* Steps of syncing alone.                                                 *)
LEMMA SyncingMoves ==
  ASSUME JInv, UNCHANGED <<pool, rw, kernel, blk, jitCur, rwCur, freeing>>,
         syncing' \in [Thread -> Uid \cup {NoUid}],
         \A x \in Thread : syncing'[x] # NoUid =>
           \/ syncing'[x] = syncing[x]
           \/ \E s \in Slot : Used(s) /\ blk[s].vm /\ syncing'[x] = blk[s].uid
  PROVE  JInv'
<1>1. SyncingOK'
  <2>1. ASSUME NEW x \in Thread, syncing'[x] # NoUid
        PROVE  \/ InPool(pool, syncing'[x])
               \/ \E s \in Slot : blk[s].vm /\ ~blk[s].pool /\ blk[s].uid = syncing'[x]
    <3>1. CASE syncing'[x] = syncing[x]
      BY <2>1, <3>1 DEF JInv, SyncingOK
    <3>2. ASSUME NEW s \in Slot, Used(s), blk[s].vm, syncing'[x] = blk[s].uid
          PROVE  InPool(pool, syncing'[x])
                 \/ \E r \in Slot : blk[r].vm /\ ~blk[r].pool /\ blk[r].uid = syncing'[x]
      BY <3>2 DEF JInv, Owned, InPool
    <3> QED BY <2>1, <3>1, <3>2
  <2> QED BY <2>1 DEF SyncingOK, InPool
<1>2. TypeOK' /\ PoolOK(pool, kernel)' /\ RwOK' /\ FreeingOK'
  BY DEF JInv, TypeOK, PoolOK, RwOK, RwHeld, FreeingOK, Lone, InPool
<1>3. /\ (\A s \in Slot : Used(s) => Owned(blk[s]))'
      /\ (\A r, s \in Slot : r # s /\ Used(r) /\ Used(s) => Apart(blk[r], blk[s]))'
  BY DEF JInv, Used, Owned, Apart, Lone, InPool
<1> QED BY <1>1, <1>2, <1>3 DEF JInv
----------------------------------------------------------------------------
(* The invariant holds initially,                                          *)
LEMMA InitJInv == Init => JInv
<1> SUFFICES ASSUME Init PROVE JInv
  OBVIOUS
<1>1. pool \in Pools /\ pool.n = 0
  <2>1. NoSeg \in [uid : Uid \cup {NoUid}, size : Nat, used : Nat]
    BY DEF NoSeg
  <2> QED BY <2>1, JitAssumption DEF Init, Pools
<1>2. TypeOK
  <2>1. Free \in [uid : Uid \cup {NoUid}, off : Nat, size : Nat,
                  vm : BOOLEAN, pool : BOOLEAN]
    BY DEF Free
  <2> QED BY <1>1, <2>1 DEF Init, TypeOK
<1>3. PoolOK(pool, kernel)
  BY <1>1, JitAssumption DEF PoolOK, Seg
<1>4. RwOK /\ FreeingOK /\ SyncingOK
  BY DEF Init, RwOK, RwHeld, FreeingOK, SyncingOK
<1>5. \A s \in Slot : ~Used(s)
  BY DEF Init, Used, Free
<1> QED BY <1>2, <1>3, <1>4, <1>5 DEF JInv

(* and every step keeps it.                                                *)
LEMMA NextJInv == JInv /\ [Next]_vars => JInv'
<1> SUFFICES ASSUME JInv, [Next]_vars PROVE JInv'
  OBVIOUS
<1>0. syncing \in [Thread -> Uid \cup {NoUid}]
  BY DEF JInv, TypeOK
<1>1. ASSUME NEW t \in Thread, NEW s \in Slot, NEW n \in CodeSizes, MapCode(t, s, n)
      PROVE  JInv'
  BY <1>1, MapCodeKeeps
<1>2. ASSUME NEW t \in Thread, NEW s \in Slot, NEW n \in CodeSizes, MapCodeAlone(t, s, n)
      PROVE  JInv'
  BY <1>2, MapCodeAloneKeeps
<1>3. ASSUME NEW t \in Thread, NEW s \in Slot, NEW n \in DataSizes, MapData(t, s, n)
      PROVE  JInv'
  BY <1>3, MapDataKeeps
<1>4. ASSUME NEW t \in Thread, NEW s \in Slot, NEW n \in DataSizes, MapDataAlone(t, s, n)
      PROVE  JInv'
  BY <1>4, MapDataAloneKeeps
<1>5. ASSUME NEW t \in Thread, NEW s \in Slot, Unmap(t, s)
      PROVE  JInv'
  BY <1>5, UnmapKeeps
<1>6. ASSUME NEW t \in Thread, NEW s \in Slot, ClearCache(t, s)
      PROVE  JInv'
  <2>1. /\ Used(s) /\ blk[s].vm /\ syncing' = [syncing EXCEPT ![t] = blk[s].uid]
        /\ UNCHANGED <<pool, rw, kernel, blk, jitCur, rwCur, freeing>>
    BY <1>6 DEF ClearCache
  <2>2. blk[s].uid \in Uid
    BY <2>1, UsedLive
  <2>3. syncing' \in [Thread -> Uid \cup {NoUid}]
    BY <1>0, <2>1, <2>2
  <2>4. \A x \in Thread : syncing'[x] = syncing[x] \/ syncing'[x] = blk[s].uid
    BY <1>0, <2>1
  <2> QED BY <2>1, <2>3, <2>4, SyncingMoves
<1>7. ASSUME NEW t \in Thread, FreeMemBlock(t)
      PROVE  JInv'
  BY <1>7, FreeMemBlockKeeps
<1>8. ASSUME NEW t \in Thread, SyncVMDomain(t)
      PROVE  JInv'
  <2>1. /\ syncing' = [syncing EXCEPT ![t] = NoUid]
        /\ UNCHANGED <<pool, rw, kernel, blk, jitCur, rwCur, freeing>>
    BY <1>8 DEF SyncVMDomain
  <2>2. /\ syncing' \in [Thread -> Uid \cup {NoUid}]
        /\ \A x \in Thread : syncing'[x] = syncing[x] \/ syncing'[x] = NoUid
    BY <1>0, <2>1
  <2> QED BY <2>1, <2>2, SyncingMoves
<1>9. CASE UNCHANGED vars
  <2>1. UNCHANGED <<pool, rw, kernel, blk, jitCur, rwCur, freeing>> /\ syncing' = syncing
    BY <1>9 DEF vars
  <2> QED BY <1>0, <2>1, SyncingMoves
<1> QED BY <1>1, <1>2, <1>3, <1>4, <1>5, <1>6, <1>7, <1>8, <1>9 DEF Next
----------------------------------------------------------------------------
(* The growth policy: what a refusal stops, and what a request may leave.  *)

(* Growing gives nothing out, and only a request made on demand can be the *)
(* one whose refusal is latched; it opens no segment then.                 *)
LEMMA GrownRefused ==
  ASSUME NEW p \in Pools, NEW k, NEW e \in BOOLEAN, NEW d \in Grown(p, k, e)
  PROVE  /\ d.p.used = p.used
         /\ \/ d.p.refused = p.refused
            \/ e = FALSE /\ d.p = [p EXCEPT !.refused = TRUE]
<1>1. CASE d = [p |-> p, k |-> k]
  BY <1>1
<1>2. CASE d = [p |-> [p EXCEPT !.full = TRUE], k |-> k]
  BY <1>2 DEF Pools
<1>3. CASE d = [p |-> Refusal(p, e), k |-> k]
  BY <1>3 DEF Pools, Refusal
<1>4. CASE \E u \in Available(k), w \in Ladder :
             d = [p |-> Opened(p, u, w), k |-> [k EXCEPT ![u] = w]]
  <2>1. PICK u \in Available(k), w \in Ladder :
          d = [p |-> Opened(p, u, w), k |-> [k EXCEPT ![u] = w]]
    BY <1>4
  <2> DEFINE seg2 == [p.seg EXCEPT ![p.n + 1] = [uid |-> u, size |-> w, used |-> 0]]
             n2 == p.n + 1
             size2 == p.size + w
             full2 == p.full \/ p.n + 1 >= MaxSegs
  <2>2. Opened(p, u, w) = [p EXCEPT !.seg = seg2, !.n = n2, !.size = size2, !.full = full2]
    BY Zenon DEF Opened
  <2> HIDE DEF seg2, n2, size2, full2
  <2>3. d.p = [p EXCEPT !.seg = seg2, !.n = n2, !.size = size2, !.full = full2]
    BY <2>1, <2>2
  <2>4. d.p.used = p.used /\ d.p.refused = p.refused
    BY <2>3 DEF Pools
  <2> QED BY <2>4
<1>5. \/ d = [p |-> p, k |-> k]
      \/ d = [p |-> [p EXCEPT !.full = TRUE], k |-> k]
      \/ d = [p |-> Refusal(p, e), k |-> k]
      \/ \E u \in Available(k), w \in Ladder :
             d = [p |-> Opened(p, u, w), k |-> [k EXCEPT ![u] = w]]
  BY DEF Grown
<1> QED BY <1>1, <1>2, <1>3, <1>4, <1>5

(* The early request never latches a refusal.                              *)
LEMMA AnticipatedRefused ==
  ASSUME NEW p \in Pools, NEW k, NEW a \in Anticipated(p, k)
  PROVE  a.p.refused = p.refused
<1> DEFINE marked == [p EXCEPT !.mark = p.used]
<1>1. CASE a = [p |-> [p EXCEPT !.full = TRUE], k |-> k]
  BY <1>1 DEF Pools
<1>2. CASE a \in Grown(marked, k, TRUE)
  <2>1. marked \in Pools /\ marked.refused = p.refused
    BY DEF Pools
  <2> HIDE DEF marked
  <2>2. a.p.refused = marked.refused
    BY <1>2, <2>1, GrownRefused
  <2> QED BY <2>1, <2>2
<1>3. CASE a = [p |-> p, k |-> k]
  BY <1>3
<1> QED BY <1>1, <1>2, <1>3 DEF Anticipated

(* What a request finds: nothing given out, a refusal latched only if the  *)
(* pool had no room, and then no room either.                              *)
LEMMA DemandedRefused ==
  ASSUME pool \in Pools, NEW n, NEW d \in Demanded(n)
  PROVE  /\ d.p.used = pool.used
         /\ d.p.refused = pool.refused \/ (~Fits(pool, n) /\ ~Fits(d.p, n))
<1>1. CASE d = [p |-> pool, k |-> kernel]
  <2>1. d.p = pool
    BY <1>1
  <2> QED BY <2>1, Zenon
<1>2. CASE ~Fits(pool, n) /\ d \in Grown(pool, kernel, FALSE)
  <2>1. /\ d.p.used = pool.used
        /\ d.p.refused = pool.refused \/ d.p = [pool EXCEPT !.refused = TRUE]
    BY <1>2, GrownRefused, ZenonT(30)
  <2>2. ASSUME d.p = [pool EXCEPT !.refused = TRUE]
        PROVE  ~Fits(d.p, n)
    <3>1. d.p.n = pool.n /\ d.p.seg = pool.seg
      BY <2>2 DEF Pools
    <3> QED BY <1>2, <3>1 DEF Fits, HasRoom
  <2> QED BY <1>2, <2>1, <2>2, Zenon
<1> QED BY <1>1, <1>2 DEF Demanded

(* Serving refuses nothing.                                                *)
LEMMA ServedRefused ==
  ASSUME NEW p \in Pools, NEW i \in Seg, NEW n \in Nat
  PROVE  Served(p, i, n).refused = p.refused
<1> DEFINE seg2 == [p.seg EXCEPT ![i] = [p.seg[i] EXCEPT !.used = p.seg[i].used + n]]
           used2 == p.used + n
<1>1. Served(p, i, n) = [p EXCEPT !.seg = seg2, !.used = used2]
  BY Zenon DEF Served
<1> HIDE DEF seg2, used2
<1> QED BY <1>1 DEF Pools

(* What mmap finds when it serves a request from the pool, and when it     *)
(* does not.                                                               *)
LEMMA MapCodeRefuses ==
  ASSUME JInv, NEW t \in Thread, NEW s \in Slot, NEW n \in CodeSizes, MapCode(t, s, n)
  PROVE  pool'.refused = pool.refused
<1>0. n \in Nat /\ pool \in Pools /\ kernel \in [Uid -> Nat] /\ PoolOK(pool, kernel)
  BY JitAssumption DEF JInv, TypeOK
<1>1. PICK d \in Demanded(n), i \in Seg :
        /\ FirstFit(d.p, i, n)
        /\ \E a \in Anticipated(Served(d.p, i, n), d.k) : pool' = a.p /\ kernel' = a.k
  BY Zenon DEF MapCode
<1>2. PoolOK(d.p, d.k) /\ Extends(pool, kernel, d.p, d.k) /\ HasRoom(d.p, i, n)
  BY <1>0, <1>1, DemandedSound DEF FirstFit
<1>3. d.p.refused = pool.refused
  BY <1>0, <1>2, DemandedRefused DEF Fits
<1> DEFINE q == Served(d.p, i, n)
<1>4. q \in Pools /\ q.refused = d.p.refused
  <2>1. d.p \in Pools /\ d.k \in [Uid -> Nat]
    BY <1>2 DEF PoolOK, Extends
  <2>2. PoolOK(q, d.k)
    BY <1>0, <1>2, <2>1, ServedSound
  <2>3. q.refused = d.p.refused
    BY <1>0, <2>1, ServedRefused
  <2> QED BY <2>2, <2>3 DEF PoolOK
<1>5. PICK a \in Anticipated(q, d.k) : pool' = a.p /\ kernel' = a.k
  BY <1>1
<1> HIDE DEF q
<1>6. a.p.refused = q.refused
  BY <1>4, <1>5, AnticipatedRefused
<1> QED BY <1>3, <1>4, <1>5, <1>6

(* Code goes to the kernel when the grown pool has no room.                *)
LEMMA MapCodeAloneFinds ==
  ASSUME JInv, NEW t \in Thread, NEW s \in Slot, NEW n \in CodeSizes,
         MapCodeAlone(t, s, n)
  PROVE  /\ pool' \in Pools /\ pool'.used = pool.used /\ ~Fits(pool', n)
         /\ pool'.refused = pool.refused \/ ~Fits(pool, n)
         /\ \/ \E u : blk' = [blk EXCEPT ![s] = Alone(u, n, TRUE)]
            \/ blk' = blk
<1>0. pool \in Pools /\ kernel \in [Uid -> Nat] /\ PoolOK(pool, kernel)
  BY DEF JInv, TypeOK
<1>1. PICK d \in Demanded(n) :
        /\ ~Fits(d.p, n) /\ pool' = d.p
        /\ \/ Placed(s, d.k, n, TRUE) /\ jitCur' = jitCur + n
           \/ jitCur + n <= MaxGauge /\ Unplaced(t, d.k, n) /\ jitCur' = jitCur + n
           \/ MapFails(d.k) /\ UNCHANGED jitCur
  BY Zenon DEF MapCodeAlone
<1>2. PoolOK(d.p, d.k)
  BY <1>0, DemandedSound
<1>3. d.p.used = pool.used /\ (d.p.refused = pool.refused \/ ~Fits(pool, n))
  BY <1>0, DemandedRefused
<1>4. (\E u : blk' = [blk EXCEPT ![s] = Alone(u, n, TRUE)]) \/ blk' = blk
  <2>1. CASE Placed(s, d.k, n, TRUE)
    BY <2>1 DEF Placed
  <2>2. CASE Unplaced(t, d.k, n) \/ MapFails(d.k)
    BY <2>2 DEF Unplaced, MapFails
  <2> QED BY <1>1, <2>1, <2>2
<1> QED BY <1>1, <1>2, <1>3, <1>4 DEF PoolOK
----------------------------------------------------------------------------
(* The gauges.  They are sums; counting the units that blocks hold spares  *)
(* an induction over the registry: a step adds or takes the units of one.  *)

UnitsOf(B, S) == UNION {{s} \X (1..B[s].size) : s \in S}

Covers(g, B, S) ==
  IsFiniteSet(UnitsOf(B, S)) /\ g >= Cardinality(UnitsOf(B, S))

GaugeInv == Covers(jitCur, blk, Code) /\ Covers(rwCur, blk, Data)

(* One block more is as many units more as it has;                         *)
LEMMA UnitsApart ==
  ASSUME NEW B, NEW S, NEW s, s \notin S, B[s].size \in Nat,
         IsFiniteSet(UnitsOf(B, S))
  PROVE  /\ IsFiniteSet(UnitsOf(B, S \cup {s}))
         /\ Cardinality(UnitsOf(B, S \cup {s}))
              = Cardinality(UnitsOf(B, S)) + B[s].size
<1> DEFINE U == UnitsOf(B, S)
           n == B[s].size
           N == {s} \X (1..n)
<1>1. UnitsOf(B, S \cup {s}) = U \cup N
  BY DEF UnitsOf
<1>2. U \cap N = {}
  BY DEF UnitsOf
<1>3. IsFiniteSet({s}) /\ Cardinality({s}) = 1
  BY FS_Singleton
<1>4. IsFiniteSet(1..n) /\ Cardinality(1..n) = n
  <2>1. n \in Nat /\ 1 \in Int /\ n \in Int
    OBVIOUS
  <2> HIDE DEF n
  <2>2. /\ IsFiniteSet(1..n)
        /\ Cardinality(1..n) = IF 1 > n THEN 0 ELSE n - 1 + 1
    BY <2>1, FS_Interval
  <2> QED BY <2>1, <2>2
<1>5. IsFiniteSet(N) /\ Cardinality(N) = 1 * n
  <2>1. IsFiniteSet(N) /\ Cardinality(N) = Cardinality({s}) * Cardinality(1..n)
    BY <1>3, <1>4, FS_Product, ZenonT(30)
  <2> QED BY <1>3, <1>4, <2>1
<1>6. Cardinality(U \cap N) = 0
  BY <1>2, FS_EmptySet
<1>7. Cardinality(U) \in Nat
  BY FS_CardinalityType, Zenon
<1> HIDE DEF U, N, n
<1>8. /\ IsFiniteSet(U \cup N)
      /\ Cardinality(U \cup N) = Cardinality(U) + Cardinality(N) - Cardinality(U \cap N)
  BY <1>5, FS_Union DEF U
<1>9. n \in Nat
  BY DEF n
<1>10. Cardinality(U \cup N) = Cardinality(U) + n
  BY <1>5, <1>6, <1>7, <1>8, <1>9
<1> QED BY <1>1, <1>8, <1>10 DEF U, n

(* units depend on the sizes only.                                         *)
LEMMA UnitsSame ==
  ASSUME NEW B, NEW C, NEW S, \A r \in S : C[r].size = B[r].size
  PROVE  UnitsOf(C, S) = UnitsOf(B, S)
BY DEF UnitsOf

(* A gauge raised by a block's size covers it too,                         *)
LEMMA CoversMore ==
  ASSUME NEW B, NEW C, NEW S, NEW s, s \notin S, C[s].size \in Nat,
         \A r \in S : C[r].size = B[r].size,
         NEW g \in Nat, Covers(g, B, S)
  PROVE  Covers(g + C[s].size, C, S \cup {s})
<1>1. UnitsOf(C, S) = UnitsOf(B, S)
  BY UnitsSame
<1>2. /\ IsFiniteSet(UnitsOf(C, S \cup {s}))
      /\ Cardinality(UnitsOf(C, S \cup {s})) = Cardinality(UnitsOf(C, S)) + C[s].size
  BY <1>1, UnitsApart DEF Covers
<1>3. Cardinality(UnitsOf(C, S)) \in Nat /\ g >= Cardinality(UnitsOf(C, S))
  BY <1>1, FS_CardinalityType DEF Covers
<1> QED BY <1>2, <1>3 DEF Covers

(* lowered, with saturation, it covers the rest,                           *)
LEMMA CoversLess ==
  ASSUME NEW B, NEW C, NEW S, NEW s \in S, B[s].size \in Nat,
         \A r \in S \ {s} : C[r].size = B[r].size,
         NEW g \in Nat, Covers(g, B, S)
  PROVE  Covers(Lowered(g, B[s].size), C, S \ {s})
<1> DEFINE R == S \ {s}
<1>1. UnitsOf(C, R) = UnitsOf(B, R)
  BY UnitsSame
<1>2. UnitsOf(B, R) \in SUBSET UnitsOf(B, S) /\ R \cup {s} = S /\ s \notin R
  BY DEF UnitsOf
<1>3. IsFiniteSet(UnitsOf(B, R))
  BY <1>2, FS_Subset DEF Covers
<1> HIDE DEF R
<1>4. Cardinality(UnitsOf(B, S)) = Cardinality(UnitsOf(B, R)) + B[s].size
  BY <1>2, <1>3, UnitsApart
<1>5. Cardinality(UnitsOf(B, R)) \in Nat
  BY <1>3, FS_CardinalityType
<1>6. Lowered(g, B[s].size) >= Cardinality(UnitsOf(B, R))
  BY <1>4, <1>5 DEF Covers, Lowered
<1> QED BY <1>1, <1>3, <1>6 DEF Covers, R

(* and one not lowered covers what it did.                                 *)
LEMMA CoversSame ==
  ASSUME NEW B, NEW C, NEW S, \A r \in S : C[r].size = B[r].size,
         NEW g \in Nat, NEW h \in Nat, h >= g, Covers(g, B, S)
  PROVE  Covers(h, C, S)
<1>1. UnitsOf(C, S) = UnitsOf(B, S)
  BY UnitsSame
<1>2. Cardinality(UnitsOf(B, S)) \in Nat
  BY FS_CardinalityType DEF Covers
<1> QED BY <1>1, <1>2 DEF Covers

(* The registry as it was, or with one more block on its gauge.            *)
LEMMA GaugeKept ==
  ASSUME TypeOK, TypeOK', GaugeInv, blk' = blk, jitCur' >= jitCur, rwCur' >= rwCur
  PROVE  GaugeInv'
<1>1. Code' = Code /\ Data' = Data
  BY DEF Code, Data, Used
<1>2. jitCur \in Nat /\ jitCur' \in Nat /\ rwCur \in Nat /\ rwCur' \in Nat
  BY DEF TypeOK
<1>3. Covers(jitCur', blk, Code) /\ Covers(rwCur', blk, Data)
  BY <1>2, CoversSame DEF GaugeInv
<1> QED BY <1>1, <1>3 DEF GaugeInv

(* A block registered raises its gauge,                                    *)
LEMMA GaugeRaised ==
  ASSUME TypeOK, TypeOK', GaugeInv, NEW s \in Slot, ~Used(s), Used(s)',
         \A r \in Slot : r # s => blk'[r] = blk[r],
         IF blk'[s].vm THEN jitCur' = jitCur + blk'[s].size /\ rwCur' = rwCur
                       ELSE jitCur' = jitCur /\ rwCur' = rwCur + blk'[s].size
  PROVE  GaugeInv'
<1>1. /\ s \notin Code /\ s \notin Data
      /\ Code' = (IF blk'[s].vm THEN Code \cup {s} ELSE Code)
      /\ Data' = (IF blk'[s].vm THEN Data ELSE Data \cup {s})
  BY DEF Code, Data, Used
<1>2. /\ jitCur \in Nat /\ rwCur \in Nat /\ blk'[s].size \in Nat
      /\ \A r \in Code \cup Data : blk'[r].size = blk[r].size
  BY <1>1 DEF TypeOK, Code, Data
<1>3. CASE blk'[s].vm
  <2>1. Covers(jitCur + blk'[s].size, blk', Code \cup {s})
    BY <1>1, <1>2, CoversMore DEF GaugeInv
  <2>2. Covers(rwCur, blk', Data)
    BY <1>2, CoversSame DEF GaugeInv
  <2> QED BY <1>1, <1>3, <2>1, <2>2 DEF GaugeInv
<1>4. CASE ~blk'[s].vm
  <2>1. Covers(rwCur + blk'[s].size, blk', Data \cup {s})
    BY <1>1, <1>2, CoversMore DEF GaugeInv
  <2>2. Covers(jitCur, blk', Code)
    BY <1>2, CoversSame DEF GaugeInv
  <2> QED BY <1>1, <1>4, <2>1, <2>2 DEF GaugeInv
<1> QED BY <1>3, <1>4

(* one unmapped lowers it,                                                 *)
LEMMA GaugeLowered ==
  ASSUME TypeOK, TypeOK', GaugeInv, NEW t \in Thread, NEW s \in Slot, Unmap(t, s)
  PROVE  GaugeInv'
<1> DEFINE n == blk[s].size
<1>1. /\ Used(s) /\ ~Used(s)' /\ \A r \in Slot : r # s => blk'[r] = blk[r]
      /\ jitCur' = IF blk[s].vm THEN Lowered(jitCur, n) ELSE jitCur
      /\ rwCur' = IF blk[s].vm THEN rwCur ELSE Lowered(rwCur, n)
  BY DEF Unmap, Used, TypeOK, Free
<1>2. /\ Code' = Code \ {s} /\ Data' = Data \ {s}
      /\ IF blk[s].vm THEN s \in Code /\ s \notin Data ELSE s \in Data /\ s \notin Code
  BY <1>1 DEF Code, Data, Used
<1>3. /\ jitCur \in Nat /\ rwCur \in Nat /\ n \in Nat
      /\ \A r \in (Code \cup Data) \ {s} : blk'[r].size = blk[r].size
  BY <1>1 DEF TypeOK, Code, Data
<1>4. CASE blk[s].vm
  <2>1. Covers(Lowered(jitCur, n), blk', Code \ {s})
    BY <1>2, <1>3, <1>4, CoversLess DEF GaugeInv
  <2>2. Covers(rwCur, blk', Data)
    BY <1>2, <1>3, <1>4, CoversSame DEF GaugeInv
  <2>3. Data' = Data /\ jitCur' = Lowered(jitCur, n) /\ rwCur' = rwCur
    BY <1>1, <1>2, <1>4
  <2> QED BY <1>2, <2>1, <2>2, <2>3 DEF GaugeInv
<1>5. CASE ~blk[s].vm
  <2>1. Covers(Lowered(rwCur, n), blk', Data \ {s})
    BY <1>2, <1>3, <1>5, CoversLess DEF GaugeInv
  <2>2. Covers(jitCur, blk', Code)
    BY <1>2, <1>3, <1>5, CoversSame DEF GaugeInv
  <2>3. Code' = Code /\ rwCur' = Lowered(rwCur, n) /\ jitCur' = jitCur
    BY <1>1, <1>2, <1>5
  <2> QED BY <1>2, <2>1, <2>2, <2>3 DEF GaugeInv
<1> QED BY <1>4, <1>5

(* A kernel block of its own: on its gauge, whether it is placed or not.   *)
LEMMA GaugeAlone ==
  ASSUME TypeOK, TypeOK', GaugeInv, NEW t \in Thread, NEW s \in Slot, ~Used(s),
         NEW k, NEW n \in Nat, NEW vm \in BOOLEAN,
         \/ /\ Placed(s, k, n, vm) \/ Unplaced(t, k, n)
            /\ IF vm THEN jitCur' = jitCur + n /\ rwCur' = rwCur
                     ELSE jitCur' = jitCur /\ rwCur' = rwCur + n
         \/ MapFails(k) /\ UNCHANGED <<jitCur, rwCur>>
  PROVE  GaugeInv'
<1>0. /\ jitCur \in Nat /\ rwCur \in Nat
      /\ blk \in [Slot -> [uid : Uid \cup {NoUid}, off : Nat, size : Nat,
                           vm : BOOLEAN, pool : BOOLEAN]]
  BY DEF TypeOK
<1>1. CASE Unplaced(t, k, n) \/ MapFails(k)
  <2>1. blk' = blk
    BY <1>1 DEF Unplaced, MapFails
  <2>2. jitCur' >= jitCur /\ rwCur' >= rwCur
    BY <1>0, <1>1
  <2> QED BY <2>1, <2>2, GaugeKept
<1>2. CASE Placed(s, k, n, vm) /\ ~(Unplaced(t, k, n) \/ MapFails(k))
  <2>1. PICK u \in Uid : blk' = [blk EXCEPT ![s] = Alone(u, n, vm)]
    BY <1>2 DEF Placed, Available
  <2>2. blk'[s] = Alone(u, n, vm) /\ \A r \in Slot : r # s => blk'[r] = blk[r]
    BY <1>0, <2>1
  <2>3. /\ Used(s)' /\ blk'[s].size = n /\ blk'[s].vm = vm
    BY <2>2, JitAssumption DEF Used, Alone
  <2>4. IF blk'[s].vm THEN jitCur' = jitCur + blk'[s].size /\ rwCur' = rwCur
                      ELSE jitCur' = jitCur /\ rwCur' = rwCur + blk'[s].size
    BY <1>2, <2>3
  <2> QED BY <2>2, <2>3, <2>4, GaugeRaised
<1> QED BY <1>1, <1>2

(* and one served from a pool raises it all the same.                      *)
LEMMA GaugeServes ==
  ASSUME JInv, TypeOK', GaugeInv, NEW t \in Thread, NEW s \in Slot,
         \/ \E n \in CodeSizes : MapCode(t, s, n)
         \/ \E n \in DataSizes : MapData(t, s, n)
  PROVE  GaugeInv'
<1>0. /\ TypeOK /\ kernel \in [Uid -> Nat] /\ PoolOK(pool, kernel)
      /\ blk \in [Slot -> [uid : Uid \cup {NoUid}, off : Nat, size : Nat,
                           vm : BOOLEAN, pool : BOOLEAN]]
  BY DEF JInv, TypeOK
<1>1. ASSUME NEW b, blk' = [blk EXCEPT ![s] = b], b.uid # NoUid, ~Used(s),
             IF b.vm THEN jitCur' = jitCur + b.size /\ rwCur' = rwCur
                     ELSE jitCur' = jitCur /\ rwCur' = rwCur + b.size
      PROVE  GaugeInv'
  <2>1. blk'[s] = b /\ \A r \in Slot : r # s => blk'[r] = blk[r]
    BY <1>0, <1>1
  <2>2. Used(s)'
    BY <1>1, <2>1 DEF Used
  <2> QED BY <1>0, <1>1, <2>1, <2>2, GaugeRaised
<1>2. ASSUME NEW n \in CodeSizes, MapCode(t, s, n)
      PROVE  GaugeInv'
  <2>1. PICK d \in Demanded(n), i \in Seg :
          /\ FirstFit(d.p, i, n)
          /\ blk' = [blk EXCEPT ![s] =
               [uid |-> d.p.seg[i].uid, off |-> d.p.seg[i].used, size |-> n,
                vm |-> TRUE, pool |-> TRUE]]
    BY <1>2, Zenon DEF MapCode
  <2>2. d.p.seg[i].uid \in Uid
    BY <1>0, <2>1, DemandedSound DEF FirstFit, HasRoom, PoolOK
  <2> DEFINE b == [uid |-> d.p.seg[i].uid, off |-> d.p.seg[i].used, size |-> n,
                   vm |-> TRUE, pool |-> TRUE]
  <2>3. /\ blk' = [blk EXCEPT ![s] = b] /\ b.uid # NoUid /\ b.vm /\ b.size = n
    BY <2>1, <2>2, JitAssumption
  <2> HIDE DEF b
  <2>4. jitCur' = jitCur + n /\ rwCur' = rwCur /\ ~Used(s)
    BY <1>2 DEF MapCode, FreeSlot
  <2> QED BY <1>1, <2>3, <2>4
<1>3. ASSUME NEW n \in DataSizes, MapData(t, s, n)
      PROVE  GaugeInv'
  <2>1. PICK d \in Reserved :
          /\ RwHolds(d.r, n)
          /\ blk' = [blk EXCEPT ![s] = [uid |-> d.r.uid, off |-> d.r.used, size |-> n,
                                        vm |-> FALSE, pool |-> TRUE]]
    BY <1>3, Zenon DEF MapData
  <2> DEFINE b == [uid |-> d.r.uid, off |-> d.r.used, size |-> n,
                   vm |-> FALSE, pool |-> TRUE]
  <2>2. blk' = [blk EXCEPT ![s] = b] /\ b.uid # NoUid /\ ~b.vm /\ b.size = n
    BY <2>1 DEF RwHolds
  <2> HIDE DEF b
  <2>3. rwCur' = rwCur + n /\ jitCur' = jitCur /\ ~Used(s)
    BY <1>3 DEF MapData, FreeSlot
  <2> QED BY <1>1, <2>2, <2>3
<1> QED BY <1>2, <1>3

(* The gauges cover the empty registry,                                    *)
LEMMA GaugeInit == Init => GaugeInv
<1> SUFFICES ASSUME Init PROVE GaugeInv
  OBVIOUS
<1>1. Code = {} /\ Data = {}
  BY DEF Init, Code, Data, Used, Free
<1>2. UnitsOf(blk, {}) = {}
  BY DEF UnitsOf
<1> QED BY <1>1, <1>2, FS_EmptySet DEF Init, GaugeInv, Covers

(* and every step keeps them covering it.                                  *)
LEMMA GaugeStep == JInv /\ JInv' /\ GaugeInv /\ [Next]_vars => GaugeInv'
<1> SUFFICES ASSUME JInv, JInv', GaugeInv, [Next]_vars PROVE GaugeInv'
  OBVIOUS
<1>0. TypeOK /\ TypeOK' /\ jitCur \in Nat /\ rwCur \in Nat
  BY DEF JInv, TypeOK
<1>1. ASSUME NEW t \in Thread, NEW s \in Slot,
             \/ \E n \in CodeSizes : MapCode(t, s, n)
             \/ \E n \in DataSizes : MapData(t, s, n)
      PROVE  GaugeInv'
  BY <1>0, <1>1, GaugeServes
<1>2. ASSUME NEW t \in Thread, NEW s \in Slot, NEW n \in CodeSizes,
             MapCodeAlone(t, s, n)
      PROVE  GaugeInv'
  <2>1. PICK d \in Demanded(n) :
          \/ Placed(s, d.k, n, TRUE) /\ jitCur' = jitCur + n
          \/ jitCur + n <= MaxGauge /\ Unplaced(t, d.k, n) /\ jitCur' = jitCur + n
          \/ MapFails(d.k) /\ UNCHANGED jitCur
    BY <1>2, Zenon DEF MapCodeAlone
  <2>2. ~Used(s) /\ rwCur' = rwCur /\ n \in Nat
    BY <1>2, JitAssumption DEF MapCodeAlone, FreeSlot
  <2>3. \/ /\ Placed(s, d.k, n, TRUE) \/ Unplaced(t, d.k, n)
           /\ IF TRUE THEN jitCur' = jitCur + n /\ rwCur' = rwCur
                      ELSE jitCur' = jitCur /\ rwCur' = rwCur + n
        \/ MapFails(d.k) /\ UNCHANGED <<jitCur, rwCur>>
    BY <2>1, <2>2
  <2> QED BY <1>0, <2>2, <2>3, GaugeAlone
<1>3. ASSUME NEW t \in Thread, NEW s \in Slot, NEW n \in DataSizes,
             MapDataAlone(t, s, n)
      PROVE  GaugeInv'
  <2>1. PICK k :
          \/ Placed(s, k, n, FALSE) /\ rwCur' = rwCur + n
          \/ Unplaced(t, k, n) /\ rwCur' = rwCur + n
          \/ MapFails(k) /\ UNCHANGED rwCur
    BY <1>3, Zenon DEF MapDataAlone
  <2>2. ~Used(s) /\ jitCur' = jitCur /\ n \in Nat
    BY <1>3, JitAssumption DEF MapDataAlone, FreeSlot
  <2>3. \/ /\ Placed(s, k, n, FALSE) \/ Unplaced(t, k, n)
           /\ IF FALSE THEN jitCur' = jitCur + n /\ rwCur' = rwCur
                       ELSE jitCur' = jitCur /\ rwCur' = rwCur + n
        \/ MapFails(k) /\ UNCHANGED <<jitCur, rwCur>>
    BY <2>1, <2>2
  <2> QED BY <1>0, <2>2, <2>3, GaugeAlone
<1>4. ASSUME NEW t \in Thread, NEW s \in Slot, Unmap(t, s)
      PROVE  GaugeInv'
  BY <1>0, <1>4, GaugeLowered
<1>5. ASSUME \/ UNCHANGED vars
             \/ \E t \in Thread : \/ \E s \in Slot : ClearCache(t, s)
                                  \/ FreeMemBlock(t) \/ SyncVMDomain(t)
      PROVE  GaugeInv'
  <2>1. UNCHANGED <<blk, jitCur, rwCur>>
    BY <1>5 DEF vars, ClearCache, FreeMemBlock, SyncVMDomain
  <2> QED BY <1>0, <2>1, GaugeKept
<1> QED BY <1>1, <1>2, <1>3, <1>4, <1>5 DEF Next
----------------------------------------------------------------------------
(* Every reachable state of the façade satisfies the invariant.            *)
THEOREM Inductive == Spec => []JInv
<1> QED BY InitJInv, NextJInv, PTL DEF Spec

(* The variables keep their types.                                         *)
THEOREM TypeCorrect == Spec => []TypeOK
<1>1. JInv => TypeOK
  BY DEF JInv
<1> QED BY <1>1, Inductive, PTL

(* No two callers of mmap hold the same byte, and what a caller holds is   *)
(* inside a block the kernel still has for the façade (shim_mmap and       *)
(* shim_munmap, with the pools growing and blocks freed after the unlock). *)
THEOREM BlocksAreSound == Spec => []BlocksSound
<1>1. JInv => BlocksSound
  <2> SUFFICES ASSUME JInv PROVE BlocksSound
    OBVIOUS
  <2>1. \A s \in Slot : Used(s) =>
          kernel[blk[s].uid] > 0 /\ blk[s].off + blk[s].size <= kernel[blk[s].uid]
    BY UsedLive
  <2>2. ASSUME NEW r \in Slot, NEW s \in Slot, r # s, Used(r), Used(s),
               blk[r].uid = blk[s].uid
        PROVE  \/ blk[r].off + blk[r].size <= blk[s].off
               \/ blk[s].off + blk[s].size <= blk[r].off
    <3>1. Apart(blk[r], blk[s])
      BY <2>2 DEF JInv
    <3> QED BY <2>2, <3>1 DEF Apart
  <2> QED BY <2>1, <2>2 DEF BlocksSound
<1> QED BY <1>1, Inductive, PTL

(* The synchronisation that clear_cache asks for after giving the lock     *)
(* back names a kernel block that still exists.                            *)
THEOREM SyncsLive == Spec => []SyncOnLive
<1>1. JInv => SyncOnLive
  <2> SUFFICES ASSUME JInv, NEW t \in Thread, syncing[t] # NoUid
               PROVE  kernel[syncing[t]] > 0
    BY DEF SyncOnLive
  <2>1. CASE InPool(pool, syncing[t])
    BY <2>1 DEF JInv, PoolOK, InPool
  <2>2. CASE \E s \in Slot : blk[s].vm /\ ~blk[s].pool /\ blk[s].uid = syncing[t]
    <3>1. PICK s \in Slot : blk[s].vm /\ ~blk[s].pool /\ blk[s].uid = syncing[t]
      BY <2>2
    <3>2. Used(s)
      BY <3>1 DEF Used
    <3> QED BY <3>1, <3>2, UsedLive
  <2> QED BY <2>1, <2>2 DEF JInv, SyncingOK
<1> QED BY <1>1, Inductive, PTL

(* Growth is frozen for good only by a request that the open segments had  *)
(* no room for, and that was given nothing (jitpool_grow_locked: latching  *)
(* a refusal of the early request would rob the one on demand).            *)
THEOREM FrozenOnlyOnDemand == Spec => FrozenOnDemand
<1> DEFINE P == pool'.refused /\ ~pool.refused =>
                  pool'.used = pool.used /\ \E n \in CodeSizes : ~Fits(pool, n)
<1>1. JInv /\ [Next]_vars => P
  <2> SUFFICES ASSUME JInv, Next PROVE P
    BY DEF vars
  <2>1. ASSUME NEW t \in Thread, NEW s \in Slot, NEW n \in CodeSizes, MapCode(t, s, n)
        PROVE  P
    BY <2>1, MapCodeRefuses
  <2>2. ASSUME NEW t \in Thread, NEW s \in Slot, NEW n \in CodeSizes,
               MapCodeAlone(t, s, n)
        PROVE  P
    BY <2>2, MapCodeAloneFinds
  <2>3. ASSUME NEW t \in Thread, NEW s \in Slot, NEW n \in DataSizes,
               MapData(t, s, n) \/ MapDataAlone(t, s, n)
        PROVE  pool' = pool
    BY <2>3 DEF MapData, MapDataAlone
  <2>4. ASSUME NEW t \in Thread,
               \/ \E s \in Slot : Unmap(t, s) \/ ClearCache(t, s)
               \/ FreeMemBlock(t) \/ SyncVMDomain(t)
        PROVE  pool' = pool
    BY <2>4 DEF Unmap, ClearCache, FreeMemBlock, SyncVMDomain
  <2>5. pool' = pool => P
    OBVIOUS
  <2> HIDE DEF P
  <2> QED BY <2>1, <2>2, <2>3, <2>4, <2>5 DEF Next
<1>2. JInv /\ [Next]_vars =>
        [pool'.refused /\ ~pool.refused =>
           pool'.used = pool.used /\ \E n \in CodeSizes : ~Fits(pool, n)]_vars
  BY <1>1
<1> QED BY <1>2, Inductive, PTL DEF Spec, FrozenOnDemand

(* Code is given a kernel block of its own only when no open segment has   *)
(* room for it: opening a segment early strands none of those before it.   *)
THEOREM NoSegmentStranded == Spec => NothingStranded
<1> DEFINE NewAlone(s) == ~Used(s) /\ blk'[s].uid # NoUid /\ blk'[s].vm /\ ~blk'[s].pool
           P == \A s \in Slot : NewAlone(s) =>
                  \A i \in 1..pool'.n :
                    pool'.seg[i].used + blk'[s].size > pool'.seg[i].size
<1>1. JInv /\ [Next]_vars => P
  <2> SUFFICES ASSUME JInv, [Next]_vars, NEW r \in Slot, NewAlone(r),
                      NEW i \in 1..pool'.n
               PROVE  pool'.seg[i].used + blk'[r].size > pool'.seg[i].size
    OBVIOUS
  <2> DEFINE Blocks == [uid : Uid \cup {NoUid}, off : Nat, size : Nat,
                        vm : BOOLEAN, pool : BOOLEAN]
  <2>0. blk \in [Slot -> Blocks]
    BY DEF JInv, TypeOK
  <2>1. blk' # blk
    BY DEF Used
  <2>2. ASSUME NEW b, NEW s \in Slot, blk' = [blk EXCEPT ![s] = b]
        PROVE  r = s /\ blk'[r] = b
    BY <2>0, <2>2 DEF Used
  <2>3. ASSUME NEW t \in Thread, NEW s \in Slot, NEW n \in CodeSizes, MapCode(t, s, n)
        PROVE  FALSE
    <3>1. PICK d \in Demanded(n), j \in Seg :
            blk' = [blk EXCEPT ![s] =
              [uid |-> d.p.seg[j].uid, off |-> d.p.seg[j].used, size |-> n,
               vm |-> TRUE, pool |-> TRUE]]
      BY <2>3, Zenon DEF MapCode
    <3> DEFINE b == [uid |-> d.p.seg[j].uid, off |-> d.p.seg[j].used, size |-> n,
                     vm |-> TRUE, pool |-> TRUE]
    <3>2. blk' = [blk EXCEPT ![s] = b] /\ b.pool
      BY <3>1
    <3> HIDE DEF b
    <3>3. blk'[r] = b
      BY <2>2, <3>2
    <3> QED BY <3>2, <3>3
  <2>3a. ASSUME NEW t \in Thread, NEW s \in Slot, NEW n \in DataSizes,
                MapData(t, s, n)
         PROVE  FALSE
    <3>1. PICK d \in Reserved :
            blk' = [blk EXCEPT ![s] = [uid |-> d.r.uid, off |-> d.r.used, size |-> n,
                                       vm |-> FALSE, pool |-> TRUE]]
      BY <2>3a, Zenon DEF MapData
    <3> DEFINE b == [uid |-> d.r.uid, off |-> d.r.used, size |-> n,
                     vm |-> FALSE, pool |-> TRUE]
    <3>2. blk' = [blk EXCEPT ![s] = b] /\ ~b.vm
      BY <3>1
    <3> HIDE DEF b
    <3>3. blk'[r] = b
      BY <2>2, <3>2
    <3> QED BY <3>2, <3>3
  <2>4. ASSUME NEW t \in Thread, NEW s \in Slot, NEW n \in DataSizes,
               MapDataAlone(t, s, n)
        PROVE  FALSE
    <3>1. \E k : Placed(s, k, n, FALSE)
      BY <2>1, <2>4 DEF MapDataAlone, Unplaced, MapFails
    <3>2. PICK u : blk' = [blk EXCEPT ![s] = Alone(u, n, FALSE)]
      BY <3>1 DEF Placed
    <3>3. blk'[r] = Alone(u, n, FALSE)
      BY <2>2, <3>2
    <3> QED BY <3>3 DEF Alone
  <2>5. ASSUME NEW t \in Thread, NEW s \in Slot, Unmap(t, s)
        PROVE  FALSE
    <3>1. blk' = [blk EXCEPT ![s] = Free] /\ Free.uid = NoUid
      BY <2>5 DEF Unmap, Free
    <3> QED BY <2>2, <3>1
  <2>6. ASSUME NEW t \in Thread,
               (\E s \in Slot : ClearCache(t, s)) \/ FreeMemBlock(t) \/ SyncVMDomain(t)
        PROVE  FALSE
    BY <2>1, <2>6 DEF ClearCache, FreeMemBlock, SyncVMDomain
  <2>7. PICK t \in Thread, s \in Slot, n \in CodeSizes : MapCodeAlone(t, s, n)
    BY <2>1, <2>3, <2>3a, <2>4, <2>5, <2>6 DEF Next, vars
  <2>80. /\ pool' \in Pools /\ pool'.used = pool.used /\ ~Fits(pool', n)
         /\ pool'.refused = pool.refused \/ ~Fits(pool, n)
         /\ \/ \E u : blk' = [blk EXCEPT ![s] = Alone(u, n, TRUE)]
            \/ blk' = blk
    BY <2>7, MapCodeAloneFinds, ZenonT(30)
  <2>8. /\ pool' \in Pools /\ ~Fits(pool', n)
        /\ \E u : blk' = [blk EXCEPT ![s] = Alone(u, n, TRUE)]
    BY <2>1, <2>80, Zenon
  <2>9. blk'[r].size = n
    <3>1. PICK u : blk' = [blk EXCEPT ![s] = Alone(u, n, TRUE)]
      BY <2>8
    <3>2. blk'[r] = Alone(u, n, TRUE)
      BY <2>2, <3>1
    <3> QED BY <3>2 DEF Alone
  <2>10. i \in Seg /\ i <= pool'.n /\ n \in Nat
    BY <2>8, JitAssumption DEF Pools, Seg
  <2>11. pool'.seg[i].used \in Nat /\ pool'.seg[i].size \in Nat
    BY <2>8, <2>10 DEF Pools
  <2>12. ~(pool'.seg[i].used + n <= pool'.seg[i].size)
    BY <2>8, <2>10 DEF Fits, HasRoom
  <2> QED BY <2>9, <2>10, <2>11, <2>12
<1>2. JInv /\ [Next]_vars =>
        [\A s \in Slot : ~Used(s) /\ blk'[s].uid # NoUid /\ blk'[s].vm /\ ~blk'[s].pool
           => \A i \in 1..pool'.n :
                pool'.seg[i].used + blk'[s].size > pool'.seg[i].size]_vars
  BY <1>1
<1> QED BY <1>2, Inductive, PTL DEF Spec, NothingStranded

(* The bytes the watchdog reads off dyn86_jit_cur and dyn86_rw_cur are     *)
(* never fewer than the registered blocks hold, although munmap saturates  *)
(* and a block that is granted and not placed stays on its gauge.          *)
THEOREM GaugesNeverShort == Spec => []GaugesCover
<1>1. GaugeInv => GaugesCover
  BY DEF GaugeInv, Covers, GaugesCover, SizeOf, UnitsOf
<1> QED BY <1>1, GaugeInit, GaugeStep, Inductive, PTL DEF Spec
============================================================================
