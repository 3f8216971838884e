--------------------------- MODULE TrapIntrinsics ---------------------------
(***************************************************************************)
(* The per-slot fast path of CpuBox86 (runtime/cpu_box86.cpp): the open-    *)
(* addressed table of the traps that a native function serves without       *)
(* going through the bridge, and the direct index that is rebuilt from it   *)
(* at every registration.  A slot is the trap's address divided by 16.      *)
(***************************************************************************)
EXTENDS Integers, FiniteSetsExt

CONSTANTS
    Slots,      \* the slots a function may be registered for; 0 marks a free entry
    Fns,        \* the native functions
    Size,       \* entries of the table (64)
    Cap,        \* registrations accepted (kIntrinMax = 16)
    Window      \* widest range of slots the direct index covers (kDirectMax = 256)

TrapAssumption ==
    /\ Slots \subseteq Nat \ {0} /\ Window \in Nat
    /\ Size \in Nat /\ Cap \in Nat /\ Cap < Size
    /\ "none" \notin Fns

NoFn == "none"

VARIABLES
    ikey, ifn, count,   \* the table: slots, their functions, how many
    low, span, idir,    \* the direct index: first slot, width (0: not armed), functions
    given               \* history: the function last accepted for each slot
vars == <<ikey, ifn, count, low, span, idir, given>>

Entries == 0 .. Size - 1
Probed(va, k) == (va + k) % Size

\* Where the walk for va stops: at its own entry or at the first free one.
Stops(keys, va) == {k \in Entries : keys[Probed(va, k)] \in {va, 0}}

\* What the walk of try_intrinsic serves the slot with.
Probe(va) ==
    LET stops == Stops(ikey, va)
    IN  IF stops # {} /\ ikey[Probed(va, Min(stops))] = va
          THEN ifn[Probed(va, Min(stops))] ELSE NoFn

\* What the direct index serves it with: the difference is unsigned, so a
\* slot below the window is refused by the same comparison.
Direct(va) == IF va - low \in 0 .. span - 1 THEN idir[va - low] ELSE NoFn

-----------------------------------------------------------------------------
Init == /\ ikey = [i \in Entries |-> 0]
        /\ ifn = [i \in Entries |-> NoFn]
        /\ idir = [d \in 0 .. Window - 1 |-> NoFn]
        /\ count = 0 /\ low = 0 /\ span = 0
        /\ given = [va \in Slots |-> NoFn]

\* A fault: the registrations are not counted against the cap.
NeverFull(n) == FALSE

Full(n) == n >= Cap

\* A fault: what the last window held is left where it was.
NotEmptied(index, width) == index

\* The index after the new window was emptied.
Emptied(index, width) == [d \in DOMAIN index |-> IF d < width THEN NoFn ELSE index[d]]

\* rebuild_direct: the window from the lowest to the highest key, or no
\* index at all when that is too wide.
Rebuild(keys, fns) ==
    LET used == {i \in Entries : keys[i] # 0}
        lo == Min({keys[i] : i \in used})
        width == Max({keys[i] : i \in used}) - lo + 1
        clean == Emptied(idir, width)
    IN  IF used = {} \/ width > Window
          THEN span' = 0 /\ UNCHANGED <<low, idir>>
          ELSE /\ low' = lo /\ span' = width
               /\ idir' = [d \in DOMAIN idir |->
                             IF \E i \in used : keys[i] - lo = d
                               THEN fns[CHOOSE i \in used : keys[i] - lo = d]
                               ELSE clean[d]]

\* set_intrinsic: replaces the function of a known slot, takes the first
\* free entry for a new one, drops it when sixteen are registered.
SetIntrinsic(va, fn) ==
    /\ Stops(ikey, va) # {}
    /\ LET i == Probed(va, Min(Stops(ikey, va)))
           new == ikey[i] = 0
       IN  IF new /\ Full(count) THEN UNCHANGED vars
           ELSE /\ ikey' = [ikey EXCEPT ![i] = va]
                /\ ifn' = [ifn EXCEPT ![i] = fn]
                /\ count' = IF new THEN count + 1 ELSE count
                /\ Rebuild(ikey', ifn')
                /\ given' = [given EXCEPT ![va] = fn]

Next == \E va \in Slots, fn \in Fns : SetIntrinsic(va, fn)

Spec == Init /\ [][Next]_vars

-----------------------------------------------------------------------------
Registered == {va \in Slots : given[va] # NoFn}

\* The window of the registered slots is wider than the index.
TooWide == \E va, other \in Registered : other - va >= Window

\* The table always keeps a free entry, so that the walk for a slot that is
\* not registered ends; the walk serves every slot with the function accepted
\* last for it, and a slot that has none with none; and the direct index
\* does the same with one exception, which the code makes against its own
\* comments (cpu_box86.cpp:934, 1008-1010: "the probe path takes over", "both
\* paths serve EXACTLY the same set of slots"): when the registered slots are
\* further apart than its window it serves none, and try_intrinsic does not
\* turn to the table.
IndexHonest ==
    /\ \E i \in Entries : ikey[i] = 0
    /\ \A va \in Slots : /\ Probe(va) = given[va]
                         /\ Direct(va) = IF TooWide THEN NoFn ELSE given[va]

\* What the comments promise of the two paths ("the probe path takes over",
\* "both paths serve EXACTLY the same set of slots and the same function"):
\* whichever the build uses, a slot is served by the same function.  It fails
\* once two registered slots are further apart than the window.
PathsAgree == \A va \in Slots : Direct(va) = Probe(va)
=============================================================================
