----------------------------- MODULE GuestHeap -----------------------------
(***************************************************************************)
(* The guest's heaps, all backed by one region: HeapAlloc and its kin of   *)
(* src/runtime/win32_shims_memory.cpp.  A unit of memory holds the         *)
(* allocation whose data it is, or zero.                                   *)
(***************************************************************************)
EXTENDS GuestRegion, Sequences

CONSTANTS
  Sizes,     \* request sizes
  MaxAllocs  \* bound: allocations

HeapAssumption == RegionAssumption /\ Sizes \subseteq Nat /\ MaxAllocs \in Nat

VARIABLES
  heap,      \* g_plan.heap
  mem,       \* the memory of the region
  owner      \* what the guest has: address -> the data it wrote there, from first to last unit
vars == <<heap, mem, owner>>

Init == heap = Fresh /\ mem = [x \in Region |-> 0] /\ owner = <<>>

Allocs == Len(owner)
Block(a, n, data) == [at |-> a, n |-> n, data |-> data]
Filled(a, n, data) == [x \in Region |-> IF x >= a /\ x < a + n THEN data ELSE mem[x]]
Live(a) == {i \in 1..Allocs : owner[i].at = a}

(* HeapAlloc, LocalAlloc, GlobalAlloc; the guest then writes its block.    *)
HeapAlloc(n, zero) ==
  /\ Allocs < MaxAllocs /\ heap' = AfterAlloc(heap, n)
  /\ LET a == Alloc(heap, n) IN
     IF a = 0 THEN UNCHANGED <<mem, owner>>
     ELSE /\ mem' = IF zero THEN Filled(a, n, 0) ELSE mem
          /\ owner' = Append(owner, Block(a, n, IF zero THEN [j \in 1..n |-> 0] ELSE [j \in 1..n |-> mem[a + j - 1]]))
Write(i) ==
  /\ mem' = Filled(owner[i].at, owner[i].n, i) /\ owner' = [owner EXCEPT ![i].data = [j \in 1..owner[i].n |-> i]]
  /\ UNCHANGED heap
Gone(i) == [owner EXCEPT ![i] = Block(0, 0, <<>>)]
HeapFree(i) == /\ owner[i].at # 0 /\ heap' = AfterFree(heap, owner[i].at) /\ owner' = Gone(i) /\ UNCHANGED mem

(* HeapReAlloc: a new block, the smaller of the two sizes copied, the old  *)
(* one given back.  A refusal leaves the old block as it was.              *)
Least(a, b) == IF a < b THEN a ELSE b
CopyLen(osz, n) == IF osz # 0 THEN Least(osz, n) ELSE n
(* Fault: the old block is given back whether or not the new one came.     *)
FreedAnyway(r, old, a) == AfterFree(r, old)
Freed(r, old, a) == IF a = 0 THEN r ELSE AfterFree(r, old)
HeapReAlloc(i, n) ==
  /\ owner[i].at # 0 /\ Allocs < MaxAllocs
  /\ LET old == owner[i].at
         a == Alloc(heap, n)
         cp == CopyLen(SizeOf(heap, old), n)
         copied == [x \in Region |-> IF a # 0 /\ x >= a /\ x < a + cp THEN mem[old + x - a] ELSE mem[x]]
     IN /\ heap' = Freed(AfterAlloc(heap, n), old, a) /\ mem' = copied
        /\ owner' = IF a = 0 THEN owner
                    ELSE Append(Gone(i), Block(a, n, [j \in 1..n |-> IF j <= owner[i].n THEN owner[i].data[j] ELSE copied[a + j - 1]]))

Next == \/ \E n \in Sizes : HeapAlloc(n, TRUE) \/ HeapAlloc(n, FALSE)
        \/ \E i \in 1..Allocs : Write(i) \/ HeapFree(i) \/ \E n \in Sizes : HeapReAlloc(i, n)
Spec == Init /\ [][Next]_vars
----------------------------------------------------------------------------
(* The region stays tiled, and every block the guest has is a block of its *)
(* own with the data it was left with, also through a reallocation, a      *)
(* smaller one, or one that was refused.                                   *)
BlocksKept ==
  /\ Tiled(heap) /\ Counted(heap)
  /\ \A i \in 1..Allocs : owner[i].at # 0 =>
       /\ SizeOf(heap, owner[i].at) >= owner[i].n /\ \A k \in Live(owner[i].at) : k = i
       /\ \A j \in 1..owner[i].n : mem[owner[i].at + j - 1] = owner[i].data[j]
============================================================================
