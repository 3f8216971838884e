------------------------------- MODULE GpuBlocks -------------------------------
(***************************************************************************)
(* GPU memory (platform/vita_gpumem.cpp): a block is allocated from the       *)
(* kernel, its address asked for, and mapped for the GPU; a failure at any    *)
(* step undoes the ones before, and the best-memory call tries twice.  The    *)
(* kernel's calls are external and may fail.  Sizes are in granules of        *)
(* 4 KiB; Cd of them make the granule of the video memory.                    *)
(***************************************************************************)
EXTENDS Integers, FiniteSets

CONSTANTS
    Blocks,     \* the GpuBlock records of the renderer
    Sizes,      \* the sizes it asks for
    Cd          \* granules of user memory in one of video memory (64)

GpuAssumption == Sizes \subseteq Nat /\ Cd \in Nat \ {0}

None == -1
Kinds == {"cdram", "user", "usse"}

VARIABLES
    rec,        \* the records: uid, whether the address is set, size, kind
    step,       \* the call under way: its block and how far it got, or Idle
    kernel,     \* the kernel's blocks: uid -> size, kind, mapped
    prefer      \* g_prefer_cdram
vars == <<rec, step, kernel, prefer>>

Idle == [at |-> "idle"]
Blank == [uid |-> None, p |-> FALSE, size |-> 0]
Uids == 1 .. Cardinality(Blocks)

Init == /\ rec = [b \in Blocks |-> Blank]
        /\ step = Idle
        /\ kernel = [u \in {} |-> {}]
        /\ prefer \in BOOLEAN

Granule(kind) == IF kind = "cdram" THEN Cd ELSE 1
AlignUp(n, g) == ((n + g - 1) \div g) * g
Free == {u \in Uids : u \notin DOMAIN kernel}
With(u, r) == [x \in DOMAIN kernel \cup {u} |-> IF x = u THEN r ELSE kernel[x]]
Without(u) == [x \in DOMAIN kernel \ {u} |-> kernel[x]]

\* gpu_alloc, gpu_alloc_best and usse_alloc start; the renderer passes a record
\* that holds no block.
Start(b, size, kind, retry) ==
    /\ step = Idle /\ rec[b].uid = None
    /\ step' = [at |-> "alloc", b |-> b, asked |-> size, kind |-> kind, retry |-> retry]
    /\ UNCHANGED <<rec, kernel, prefer>>
Alloc(b, size) == \/ Start(b, size, "cdram", FALSE) \/ Start(b, size, "user", FALSE)
                  \/ Start(b, size, IF prefer THEN "cdram" ELSE "user", prefer)
                  \/ Start(b, size, "usse", FALSE)
Prefer(on) == step = Idle /\ prefer' = on /\ UNCHANGED <<rec, step, kernel>>

\* What a failure does next: the best-memory call tries the user memory.
Refused == IF step.retry THEN [step EXCEPT !.at = "alloc", !.kind = "user", !.retry = FALSE]
                         ELSE Idle

\* sceKernelAllocMemBlock.
AllocBlock ==
    /\ step.at = "alloc"
    /\ LET b == step.b
           size == AlignUp(step.asked, Granule(step.kind))
       IN \/ /\ rec' = [rec EXCEPT ![b].uid = None, ![b].size = size]
             /\ step' = Refused /\ UNCHANGED kernel
          \/ \E u \in Free :
               /\ rec' = [rec EXCEPT ![b].uid = u, ![b].size = size]
               /\ kernel' = With(u, [size |-> size, kind |-> step.kind, mapped |-> FALSE])
               /\ step' = [step EXCEPT !.at = "base"]
    /\ UNCHANGED prefer

\* What a later failure leaves of the kernel's blocks.
Undone(u) == Without(u)
\* A fault: the block of a failed mapping is not given back.
Forgotten(u) == kernel
GivenBack(u) == Undone(u)
Failed(b) == /\ kernel' = GivenBack(rec[b].uid)
             /\ rec' = [rec EXCEPT ![b].uid = None, ![b].p = FALSE]
             /\ step' = Refused
\* sceKernelGetMemBlockBase, then the GPU's mapping.
GetBase ==
    /\ step.at = "base"
    /\ \/ Failed(step.b)
       \/ /\ rec' = [rec EXCEPT ![step.b].p = TRUE]
          /\ step' = [step EXCEPT !.at = "map"] /\ UNCHANGED kernel
    /\ UNCHANGED prefer
Map ==
    /\ step.at = "map"
    /\ \/ Failed(step.b)
       \/ /\ kernel' = [kernel EXCEPT ![rec[step.b].uid].mapped = TRUE]
          /\ step' = Idle /\ UNCHANGED rec
    /\ UNCHANGED prefer

\* gpu_free: a record without a block is left alone.
FreeBlock(b) ==
    /\ step = Idle
    /\ IF rec[b].uid = None THEN UNCHANGED <<rec, kernel>>
       ELSE kernel' = Without(rec[b].uid) /\ rec' = [rec EXCEPT ![b] = Blank]
    /\ UNCHANGED <<step, prefer>>

Next == \/ \E b \in Blocks : FreeBlock(b) \/ \E size \in Sizes : Alloc(b, size)
        \/ \E on \in BOOLEAN : Prefer(on)
        \/ AllocBlock \/ GetBase \/ Map

Spec == Init /\ [][Next]_vars

-----------------------------------------------------------------------------
\* Between two calls every block of the kernel is owned by exactly one record,
\* mapped, at least as large as asked and aligned to its memory's granule, and
\* a record without a block has no address: no failure leaks a block or leaves
\* a record that would free one twice.
NothingLeaks ==
    /\ \A b \in Blocks : rec[b].uid # None => rec[b].uid \in DOMAIN kernel
    /\ \A a, b \in Blocks : a # b /\ rec[a].uid # None => rec[a].uid # rec[b].uid
    /\ \A u \in DOMAIN kernel : /\ \E b \in Blocks : rec[b].uid = u /\ rec[b].size = kernel[u].size
                                /\ kernel[u].size % Granule(kernel[u].kind) = 0
    /\ step = Idle => /\ \A u \in DOMAIN kernel : kernel[u].mapped
                      /\ \A b \in Blocks : (rec[b].uid = None) = ~rec[b].p
=============================================================================
