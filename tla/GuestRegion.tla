---------------------------- MODULE GuestRegion ----------------------------
(***************************************************************************)
(* The allocator of guest ranges (src/runtime/guest_region.h): one region  *)
(* is the map of its blocks in use and the map of its free blocks, from    *)
(* address to size.  Addresses count the unit the region is measured in.   *)
(***************************************************************************)
EXTENDS Naturals, FiniteSets, FiniteSetsExt

CONSTANTS
  Lo, Hi,    \* base_ and limit_
  Align      \* align_

RegionAssumption ==
  /\ Lo \in Nat \ {0} /\ Hi \in Nat /\ Lo < Hi
  /\ Align \in Nat \ {0}

Region == Lo..Hi - 1
NoBlocks == [a \in {} |-> 0]
Fresh == [used |-> NoBlocks, freeb |-> [a \in {Lo} |-> Hi - Lo], cur |-> 0]

Without(f, S) == [a \in DOMAIN f \ S |-> f[a]]
With(f, a, n) == [b \in DOMAIN f \cup {a} |-> IF b = a THEN n ELSE f[b]]

(* alloc: first fit by address; 0 stands for the refusal.                  *)
Rounded(n) == IF n = 0 THEN Align ELSE ((n + Align - 1) \div Align) * Align
Fits(r, n) == IF n > Hi - Lo THEN {} ELSE {a \in DOMAIN r.freeb : r.freeb[a] >= Rounded(n)}
Alloc(r, n) == IF Fits(r, n) = {} THEN 0 ELSE Min(Fits(r, n))
(* Fault: the free block stays whole.                                      *)
CarvedNothing(r, a, sz) == With(Without(r.freeb, {a}), a, r.freeb[a])
Carved(r, a, sz) == IF r.freeb[a] = sz THEN Without(r.freeb, {a}) ELSE With(Without(r.freeb, {a}), a + sz, r.freeb[a] - sz)
AfterAlloc(r, n) ==
  IF Alloc(r, n) = 0 THEN r
  ELSE [used |-> With(r.used, Alloc(r, n), Rounded(n)), freeb |-> Carved(r, Alloc(r, n), Rounded(n)), cur |-> r.cur + Rounded(n)]

(* free: the block joins its right neighbour, then its left one.           *)
Right(r, a) == {b \in DOMAIN r.freeb : b = a + r.used[a]}
Left(r, a) == {b \in DOMAIN r.freeb : b + r.freeb[b] = a}
FreeSize(r, S) == IF S = {} THEN 0 ELSE r.freeb[Min(S)]
(* Fault: a freed block joins its right neighbour only.                    *)
JoinedRight(r, a) == With(Without(r.freeb, Right(r, a)), a, r.used[a] + FreeSize(r, Right(r, a)))
Joined(r, a) ==
  LET start == IF Left(r, a) = {} THEN a ELSE Min(Left(r, a))
  IN With(Without(r.freeb, Right(r, a)), start, r.used[a] + FreeSize(r, Right(r, a)) + FreeSize(r, Left(r, a)))
AfterFree(r, a) ==
  IF a \notin DOMAIN r.used THEN r
  ELSE [used |-> Without(r.used, {a}), freeb |-> Joined(r, a), cur |-> r.cur - r.used[a]]

(* block_of, size_of: 0 when there is none.                                *)
Holding(r, a) == {b \in DOMAIN r.used : a >= b /\ a < b + r.used[b]}
BlockOf(r, a) == IF Holding(r, a) = {} THEN 0 ELSE Max(Holding(r, a))
SizeOf(r, a) == IF a \in DOMAIN r.used THEN r.used[a] ELSE 0

(* What a region promises: its blocks tile it, each unit in one block and  *)
(* one only; no two free blocks touch.                                     *)
Over(f, x) == \E b \in DOMAIN f : b <= x /\ x < b + f[b]
Apart(f) == \A b, c \in DOMAIN f : b < c => b + f[b] <= c
InRegion(f) == \A b \in DOMAIN f : b >= Lo /\ f[b] > 0 /\ b + f[b] <= Hi /\ (b - Lo) % Align = 0
Tiled(r) ==
  /\ InRegion(r.used) /\ InRegion(r.freeb) /\ Apart(r.used) /\ Apart(r.freeb)
  /\ \A x \in Region : Over(r.used, x) <=> ~Over(r.freeb, x)
  /\ \A b \in DOMAIN r.freeb : b + r.freeb[b] \notin DOMAIN r.freeb
Counted(r) == r.cur = Cardinality({x \in Region : Over(r.used, x)})
============================================================================
