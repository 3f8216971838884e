----------------------------- MODULE VirtualMem -----------------------------
(***************************************************************************)
(* VirtualAlloc and VirtualFree over one region, whose blocks are fully    *)
(* backed when reserved (src/runtime/win32_shims_memory.cpp).  A unit is a *)
(* page; a page holds zeros or what the guest wrote.  `want` is what Win32 *)
(* has a program find in its committed pages.                              *)
(***************************************************************************)
EXTENDS GuestRegion

CONSTANTS
  Sizes,
  MaxPages,  \* bound: pages reserved at once
  Plain      \* TRUE: the guest decommits by a size, and inside one reservation

VirtualAssumption == RegionAssumption /\ Sizes \subseteq Nat \ {0}

VARIABLES
  va,            \* g_plan.va
  decommitted,   \* g_decommitted
  mem,           \* the arena
  reserved,      \* the pages the guest asked for
  want,          \* the committed ones, and what is in them
  \* History: what Win32 has not decommitted, and what it has.
  left,          \* listed outside a reservation, or when theirs was released
  spared         \* decommitted with a size of zero, and not listed
vars == <<va, decommitted, mem, reserved, want, left, spared>>

Init ==
  /\ va = Fresh /\ decommitted = {} /\ mem = [p \in Region |-> "zero"]
  /\ reserved = {} /\ want = [p \in {} |-> "zero"] /\ left = {} /\ spared = {}

Pages(a, n) == {p \in Region : p >= a /\ p < a + n}
Zeroed(S) == mem' = [p \in Region |-> IF p \in S THEN "zero" ELSE mem[p]]
(* A commit zeroes what was not committed, and nothing else.               *)
Committed(S) == want' = [p \in DOMAIN want \cup S |-> IF p \in DOMAIN want THEN want[p] ELSE "zero"]
(* Fault: a page stays in the list once it is committed again.             *)
StillListed(S) == decommitted
Recommitted(S) == decommitted \ S
(* What Win32 commits and decommits: pages of one reservation.             *)
Inside(a, n) == BlockOf(va, a) # 0 /\ Pages(a, n) \subseteq reserved /\ BlockOf(va, a + n - 1) = BlockOf(va, a)
VirtualAllocIn(hint, n) ==
  /\ BlockOf(va, hint) # 0
  /\ Zeroed(Pages(hint, n) \cap decommitted) /\ decommitted' = Recommitted(Pages(hint, n))
  /\ IF Inside(hint, n) THEN Committed(Pages(hint, n)) ELSE UNCHANGED want
  /\ left' = left \ {p \in Pages(hint, n) \cap decommitted : p \in DOMAIN want => want[p] = "zero"}
  /\ UNCHANGED <<va, reserved, spared>>
VirtualAlloc(n, commit) ==
  /\ va' = AfterAlloc(va, n) /\ UNCHANGED <<decommitted, left>>
  /\ LET a == Alloc(va, n) IN
     IF a = 0 THEN UNCHANGED <<mem, reserved, want, spared>>
     ELSE /\ Zeroed(Pages(a, n)) /\ reserved' = reserved \cup Pages(a, n) /\ spared' = spared \ Pages(a, n)
          /\ IF commit THEN Committed(Pages(a, n)) ELSE UNCHANGED want
(* MEM_RELEASE: the base, and no size; anything else frees nothing.        *)
(* Fault: the reservation that holds the address is released.              *)
ReleasesInside(a) == BlockOf(va, a)
Releases(a) == IF a \in DOMAIN va.used THEN a ELSE 0
VirtualRelease(a, n) ==
  LET blk == Releases(a)
      gone == IF n = 0 THEN Pages(a, SizeOf(va, a)) ELSE {}
  IN /\ va' = IF n = 0 /\ blk # 0 THEN AfterFree(va, blk) ELSE va
     /\ want' = [p \in DOMAIN want \ gone |-> want[p]] /\ reserved' = reserved \ gone
     /\ left' = (left \ gone) \cup (gone \cap decommitted) /\ spared' = spared \ gone
     /\ UNCHANGED <<decommitted, mem>>
(* MEM_DECOMMIT: the pages keep their backing and are listed; of a whole   *)
(* reservation the first one is.                                           *)
VirtualDecommit(a, n) ==
  LET listed == Pages(a, IF n = 0 THEN 1 ELSE n)
      asked == Pages(a, IF n = 0 THEN SizeOf(va, a) ELSE n)
      inside == Inside(a, IF n = 0 THEN 1 ELSE n)
  IN /\ n = 0 => a \in DOMAIN va.used \/ BlockOf(va, a) = 0
     /\ Plain => n # 0 /\ inside
     /\ decommitted' = decommitted \cup listed
     /\ left' = IF inside THEN left \ listed ELSE left \cup listed
     /\ want' = [p \in DOMAIN want \ (IF inside THEN asked ELSE {}) |-> want[p]]
     /\ spared' = IF inside THEN (spared \cup {p \in asked : mem[p] = "data"}) \ listed ELSE spared
     /\ UNCHANGED <<va, mem, reserved>>
Write(p) ==
  /\ p \in DOMAIN want /\ mem' = [mem EXCEPT ![p] = "data"] /\ want' = [want EXCEPT ![p] = "data"]
  /\ left' = left \ ({p} \ decommitted) /\ spared' = spared \ {p}
  /\ UNCHANGED <<va, decommitted, reserved>>

Next ==
  \/ \E n \in Sizes : Cardinality(reserved) + n <= MaxPages /\ (VirtualAlloc(n, TRUE) \/ VirtualAlloc(n, FALSE))
  \/ \E a \in Region : \E n \in Sizes : VirtualAllocIn(a, n)
  \/ \E a \in Region : \E n \in Sizes \cup {0} : VirtualRelease(a, n) \/ VirtualDecommit(a, n)
  \/ \E p \in Region : Write(p)
Spec == Init /\ [][Next]_vars
----------------------------------------------------------------------------
(* Blocks tile the region, a committed page is one of a block, and it has  *)
(* what the guest wrote there since it was committed, zeros before, with   *)
(* the exceptions the code makes: zeroed data only where the page was      *)
(* listed by a release or outside a reservation (no claim of the code),    *)
(* old data for zeros only where a size of zero decommitted a reservation  *)
(* whose first page alone is listed (against the comments at               *)
(* win32_shims_memory.cpp:79-83 and 125-131).                              *)
PagesHonest ==
  /\ Tiled(va) /\ Counted(va)
  /\ \A p \in DOMAIN want :
       /\ BlockOf(va, p) # 0
       /\ p \in decommitted => p \in left
       /\ mem[p] # want[p] => \/ p \in left /\ mem[p] = "zero"
                              \/ p \in spared /\ want[p] = "zero"
(* What those comments say of every page: a committed page holds what the  *)
(* guest wrote there since it was committed, zeros before.                 *)
PagesKept ==
  /\ Tiled(va) /\ Counted(va)
  /\ \A p \in DOMAIN want : mem[p] = want[p] /\ BlockOf(va, p) # 0
============================================================================
