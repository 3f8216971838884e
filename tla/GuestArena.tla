------------------------------ MODULE GuestArena ------------------------------
(***************************************************************************)
(* The one block behind the guest's memory (runtime/cpu_box86.cpp, the        *)
(* constructor, and the accesses of the shims).  The host address of guest    *)
(* address 0 must be a multiple of the granule (16 MiB on the machine), and   *)
(* the kernel chooses where a block lies: a small block is tried first to     *)
(* learn the slack the rounding costs.  Addresses and sizes are in pages.     *)
(***************************************************************************)
EXTENDS Integers

CONSTANTS
    Granule,    \* pages of the alignment of guest address 0
    Asked,      \* the sizes a user may ask for (WX86_ARENA), in pages
    Bases,      \* where the kernel may place a block
    Reach       \* bound: guest addresses and counts that shims try

\* The size a user asks for "already carries that slack": a granule of it.
ArenaAssumption ==
    /\ Granule \in Nat \ {0} /\ Bases \subseteq Nat /\ Reach \in Nat
    /\ Asked \subseteq Nat /\ \A a \in Asked : a > Granule

VARIABLES
    pc,         \* "probe", "try", "last", "run", or "exit": the process gave up
    asked,      \* sz as asked
    slack,      \* slack of the next attempt
    att,        \* attempts made
    base,       \* where the block lies
    sz,         \* its size
    access      \* the last access a shim made: [va, n, ok]
vars == <<pc, asked, slack, att, base, sz, access>>

NoAccess == [va |-> 0, n |-> 0, ok |-> FALSE]

Init == /\ pc = "probe" /\ asked \in Asked
        /\ slack = Granule /\ att = 0 /\ base = 0 /\ sz = asked /\ access = NoAccess

RoundUp(a) == ((a + Granule - 1) \div Granule) * Granule
\* need: the part of the size the guest uses, when it exceeds the granule.
Need == IF asked > Granule THEN asked - Granule ELSE asked
\* g_mb and g_arena_span.
Membase == RoundUp(base)
Span == IF base + sz > Membase THEN base + sz - Membase ELSE 0

\* A probe that answers gives the exact slack of the address it was given.
Probe ==
    /\ pc = "probe" /\ pc' = "try"
    /\ \/ \E pb \in Bases : slack' = RoundUp(pb) - pb
       \/ UNCHANGED slack
    /\ UNCHANGED <<asked, att, base, sz, access>>

\* Is the block large enough once its start is rounded?
Fits(tb, size) == tb + size - RoundUp(tb) >= Need
\* A fault: the slack the probe gave is taken for granted.
FitsAnyway(tb, size) == TRUE
Accepted(tb, size) == Fits(tb, size)

\* One attempt; a refused or too small block falls back to a whole granule.
Attempt ==
    /\ pc = "try"
    /\ att' = att + 1
    /\ LET size == Need + slack
           Next2 == pc' = IF att + 1 < 2 THEN "try" ELSE "last"
       IN \/ \E tb \in Bases :
               IF Accepted(tb, size)
                 THEN pc' = "run" /\ base' = tb /\ sz' = size /\ UNCHANGED slack
                 ELSE Next2 /\ slack' = Granule /\ UNCHANGED <<base, sz>>
          \/ Next2 /\ slack' = Granule /\ UNCHANGED <<base, sz>>
    /\ UNCHANGED <<asked, access>>

\* The last resort: the size as asked, wherever it lies; else the process exits.
LastResort ==
    /\ pc = "last"
    /\ \/ \E tb \in Bases : pc' = "run" /\ base' = tb
       \/ pc' = "exit" /\ UNCHANGED base
    /\ UNCHANGED <<asked, slack, att, sz, access>>

\* arena_check.
Inside(va, n) == Span = 0 \/ va + n <= Span

\* read, write and hostptr: refused, or done on host memory.
Access(va, n) ==
    /\ pc = "run"
    /\ access' = [va |-> va, n |-> n, ok |-> Inside(va, n)]
    /\ UNCHANGED <<pc, asked, slack, att, base, sz>>

Next == \/ Probe \/ Attempt \/ LastResort
        \/ \E va \in 0 .. Reach, n \in 1 .. 2 : Access(va, n)

Spec == Init /\ [][Next]_vars

-----------------------------------------------------------------------------
\* An access that is let through lies inside the block, wherever the kernel
\* put it and whichever attempt gave it; and the whole of the memory the size
\* promises to the guest can be accessed.
ArenaSound ==
    pc = "run" =>
      /\ Span >= Need
      /\ access.ok => Membase + access.va + access.n <= base + sz
=============================================================================
