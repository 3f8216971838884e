---------------------------- MODULE EngineParts ----------------------------
(* The parts of the engine whose promises are proved, one behaviour per    *)
(* part: the registers, which have variables of their own, and translated  *)
(* code and guest memory, which share x1, ..., x12.  MCEngine adds those   *)
(* that are only model-checked.                                            *)
EXTENDS EmuContext, Sequences, FiniteSetTheorems, WellFoundedInduction, TLAPS

CONSTANTS
  PageNos, Extents, Flushes, MaxWrites,        \* CodePages
  TrapSlots, Fns, TableSize, Cap, Window,      \* TrapIntrinsics
  Refill, Nudgers, Halts, MaxEntries, MaxExcess,  \* Slices
  ArenaGranule, Arenas, Bases, Reach,          \* GuestArena
  Lo, Hi, HeapAlign, HeapSizes, MaxAllocs, VaSizes, MaxPages,  \* GuestHeap, VirtualMem
  Records, BlockSizes, Cd                      \* GpuBlocks

VARIABLES part, x1, x2, x3, x4, x5, x6, x7, x8, x9, x10, x11, x12
rest == <<x1, x2, x3, x4, x5, x6, x7, x8, x9, x10, x11, x12>>

-----------------------------------------------------------------------------
(* What a part does not use.                                               *)
From12 == x12 = 0
From11 == x11 = 0 /\ From12
From10 == x10 = 0 /\ From11
From9  == x9 = 0 /\ From10
From8  == x8 = 0 /\ From9
From7  == x7 = 0 /\ From8
From6  == x6 = 0 /\ From7
From5  == x5 = 0 /\ From6
From4  == x4 = 0 /\ From5
From3  == x3 = 0 /\ From4
From1  == x1 = 0 /\ x2 = 0 /\ From3

Keep12 == UNCHANGED x12
Keep11 == UNCHANGED x11 /\ Keep12
Keep10 == UNCHANGED x10 /\ Keep11
Keep9  == UNCHANGED x9 /\ Keep10
Keep8  == UNCHANGED x8 /\ Keep9
Keep7  == UNCHANGED x7 /\ Keep8
Keep6  == UNCHANGED x6 /\ Keep7
Keep5  == UNCHANGED x5 /\ Keep6
Keep4  == UNCHANGED x4 /\ Keep5
Keep3  == UNCHANGED x3 /\ Keep4

-----------------------------------------------------------------------------
(* Shims between whose barrier and store translated code may run.          *)
Code == INSTANCE CodePages WITH
  Pages <- PageNos, Ranges <- Flushes,
  Runners <- TRUE, version <- x1, marked <- x2, blocks <- x3, owed <- x4, shim <- x5, missed <- x6
(* The traps that functions serve, and the index of their slots.           *)
Traps == INSTANCE TrapIntrinsics WITH
  Slots <- TrapSlots, Size <- TableSize,
  ikey <- x1, ifn <- x2, count <- x3, low <- x4, span <- x5, idir <- x6, given <- x7
(* A runner, those who poke it, and one who reads its counters.            *)
Census == INSTANCE Slices WITH
  Fresh <- Refill, Endless <- FALSE, Pokers <- Nudgers, Stops <- Halts,
  budget <- x1, armed <- x2, blocks <- x3, quit <- x4, gstop <- x5, shutdown <- x6, pc <- x7,
  seen <- x8, poke <- x9, reader <- x10, entries <- x11,
  excess <- x12

(* Guest memory: the block behind it, heaps and reservations in a region.  *)
Arena == INSTANCE GuestArena WITH
  Granule <- ArenaGranule, Asked <- Arenas, pc <- x1, asked <- x2, slack <- x3, att <- x4, base <- x5, sz <- x6, access <- x7
Heap == INSTANCE GuestHeap WITH
  Align <- HeapAlign, Sizes <- HeapSizes, heap <- x1, mem <- x2, owner <- x3
Virtual == INSTANCE VirtualMem WITH
  Align <- HeapAlign, Sizes <- VaSizes, Plain <- FALSE,
  va <- x1, decommitted <- x2, mem <- x3, reserved <- x4, want <- x5, left <- x6, spared <- x7
Gpu == INSTANCE GpuBlocks WITH
  Blocks <- Records, Sizes <- BlockSizes,
  rec <- x1, step <- x2, kernel <- x3, prefer <- x4

ASSUME CodeAssumption == Code!CodeAssumption
ASSUME StandInAssumption == Traps!TrapAssumption /\ Census!SliceAssumption
ASSUME MemoryAssumption ==
  Arena!ArenaAssumption /\ Heap!HeapAssumption /\ Virtual!VirtualAssumption /\ Gpu!GpuAssumption
-----------------------------------------------------------------------------
NoEmus == Init /\ ~native /\ \A v \in Values : base.fpu <= v
GuestInit ==
  \/ part = "registers" /\ Init /\ From1
  \/ part = "pages" /\ NoEmus /\ Code!Init /\ From7
  \/ part = "traps" /\ NoEmus /\ Traps!Init /\ From8
  \/ part = "census" /\ NoEmus /\ Census!Init
  \/ part = "arena" /\ NoEmus /\ Arena!Init /\ From8
  \/ part = "heap" /\ NoEmus /\ Heap!Init /\ From4
  \/ part = "virtual" /\ NoEmus /\ Virtual!Init /\ From8
  \/ part = "gpu" /\ NoEmus /\ Gpu!Init /\ From5
GuestSteps ==
  \/ part = "pages" /\ Code!Next /\ Keep7
  \/ part = "traps" /\ Traps!Next /\ Keep8
  \/ part = "census" /\ Census!Next
  \/ part = "arena" /\ Arena!Next /\ Keep8
  \/ part = "heap" /\ Heap!Next /\ Keep4
  \/ part = "virtual" /\ Virtual!Next /\ Keep8
  \/ part = "gpu" /\ Gpu!Next /\ Keep5
GuestNext == /\ \/ part = "registers" /\ Next /\ UNCHANGED rest
                \/ GuestSteps /\ UNCHANGED vars
             /\ UNCHANGED part

(* In a behaviour of any other part nothing is said but that it stays so:  *)
(* every behaviour of MCEngine is one of these.                            *)
Parts == {"registers", "pages", "traps", "census", "arena", "heap", "virtual", "gpu"}
Elsewhere == part \notin Parts /\ UNCHANGED part
GuestSpec == (GuestInit \/ part \notin Parts) /\ [][GuestNext \/ Elsewhere]_<<part, vars, rest>>

-----------------------------------------------------------------------------
(* Translated code runs only while the bytes it was made from are there,   *)
(* but for the pages a barrier missed (StaleOnlyWhenMissed); a trap is      *)
(* served by the function registered last for it, through the index too    *)
(* unless its window is too wide (IndexHonest); the block count runs ahead *)
(* only by what a poke that meets run()'s accounting or another poke       *)
(* counts twice (CensusHonest).                                            *)
TranslationSound == /\ part = "pages" => Code!StaleOnlyWhenMissed
                    /\ part = "traps" => Traps!IndexHonest
                    /\ part = "census" => Census!CensusHonest

(* Guest blocks and pages stay apart and keep what was written to them,    *)
(* but where a decommitted page outlived its reservation or a decommit     *)
(* without a size spared it (PagesHonest); accesses stay in the arena, and *)
(* video memory is neither lost nor freed twice, whichever call fails.     *)
MemorySound == /\ part = "heap" => Heap!BlocksKept
               /\ part = "virtual" => Virtual!PagesHonest
               /\ part = "arena" => Arena!ArenaSound
               /\ part = "gpu" => Gpu!NothingLeaks

-----------------------------------------------------------------------------
(* Whose registers a thread has                                            *)

\* Whose registers a thread that ran has, once E() is taken apart: no thread
\* has those of another, except that all share them in slices.
Reg(t) == IF native /\ t # Main THEN emus[t] ELSE base
Kept(c) == [gp |-> c.gp, flags |-> c.flags, fpu |-> c.fpu]

BoundInv ==
    /\ TypeOK /\ Main \in created
    /\ ~native => ~multi /\ \A t, u \in running : t = u
    /\ native => /\ Main \in started /\ bound[Main] = NoEmu
                 /\ \A t \in Workers \cap started : bound[t] = t /\ multi
OwnInv ==
    /\ native => \A t \in started : Seen(Reg(t)) = own[t]
    /\ \A t \in running : Seen(Reg(t)) = own[t]
    /\ \A t \in started \ running : own[t] = Kept(ctx[t]) /\ ctx[t].fpuValid
    /\ DOMAIN own = Threads

\* Materialising the flags and saving them changes nothing a thread can see;
\* loading what was saved gives it back, the FPU included.
LEMMA RoundTrip ==
    ASSUME NEW e \in Emu, NEW c \in Context
    PROVE  /\ Seen(Updated(e)) = Seen(e) /\ Updated(e) \in Emu
           /\ Saved(e) \in Context /\ Saved(e).fpuValid /\ Kept(Saved(e)) = Seen(e)
           /\ Loaded(e, c) \in Emu
           /\ c.fpuValid => Seen(Loaded(e, c)) = Kept(c)
<1>1. FlagsOf(e) \in Values
  BY DEF Emu, FlagsOf
<1>2. Updated(e) \in Emu /\ Seen(Updated(e)) = Seen(e)
  BY <1>1 DEF Emu, Updated, Seen, FlagsOf
<1>3. Saved(e) \in Context /\ Saved(e).fpuValid /\ Kept(Saved(e)) = Seen(e)
  BY <1>1 DEF Saved, SavedFpu, Context, Emu, Kept, Seen, FlagsOf
<1>4. Loaded(e, c) \in Emu /\ (c.fpuValid => Seen(Loaded(e, c)) = Kept(c))
  BY DEF Loaded, LoadedFpu, Emu, Context, Seen, Kept
<1> QED  BY <1>2, <1>3, <1>4

\* E() and what is written through it, for a thread that ran.
LEMMA Own ==
    ASSUME BoundInv, NEW t \in started
    PROVE  /\ E(t) = Reg(t) /\ E(t) \in Emu
           /\ \A e : SetE(t, e) <=> IF native /\ t # Main
                                    THEN emus' = [emus EXCEPT ![t] = e] /\ UNCHANGED base
                                    ELSE base' = e /\ UNCHANGED emus
BY ContextAssumption DEF BoundInv, TypeOK, E, Bound, Reg, SetE, Threads

(* The invariant holds initially, and is kept by                           *)
LEMMA BoundInit == Init => BoundInv /\ OwnInv
<1> SUFFICES ASSUME Init
             PROVE  BoundInv /\ OwnInv
  OBVIOUS
<1>1. Blank \in Emu /\ base \in Emu
  BY ContextAssumption DEF Init, Blank, Emu
<1>2. TypeOK
  BY <1>1, ContextAssumption DEF Init, TypeOK, Threads, Context
<1>3. BoundInv
  <2>1. started \subseteq {Main} /\ running = started /\ (native => Main \in started)
    BY DEF Init
  <2> QED  BY <1>2, <2>1, ContextAssumption DEF Init, BoundInv, Threads
<1>4. \A t \in started : Seen(Reg(t)) = own[t]
  <2>1. \A t \in started : t = Main /\ t \in Threads
    BY DEF Init, Threads
  <2>2. Reg(Main) = base /\ own[Main] = Seen(base)
    BY DEF Init, Reg, Threads
  <2> QED  BY <2>1, <2>2
<1>5. started = running /\ DOMAIN own = Threads
  BY DEF Init
<1> QED  BY <1>3, <1>4, <1>5 DEF OwnInv

\* A step that leaves the threads and their emus where they are.
Placed == UNCHANGED <<native, multi, created, bound, started>>

(* a thread's own computing,                                               *)
LEMMA ComputeStep ==
    ASSUME BoundInv, OwnInv, NEW t \in Threads, Compute(t)
    PROVE  BoundInv' /\ OwnInv'
<1>1. PICK e \in Computed(E(t)) : SetE(t, e) /\ own' = [own EXCEPT ![t] = Seen(e)]
  BY DEF Compute
<1>2. t \in running /\ t \in started /\ UNCHANGED <<ctx, running>> /\ Placed
  BY DEF Compute, BoundInv, TypeOK, Placed
<1>3. E(t) \in Emu
  BY <1>2, Own
<1>4. e \in Emu
  BY <1>1, <1>3 DEF Computed, Emu
<1>5. IF native /\ t # Main THEN emus' = [emus EXCEPT ![t] = e] /\ UNCHANGED base
                            ELSE base' = e /\ UNCHANGED emus
  BY <1>1, <1>2, Own
<1>6. base' \in Emu /\ emus' \in [Workers -> Emu]
  BY <1>4, <1>5 DEF BoundInv, TypeOK
<1>7. BoundInv'
  BY <1>2, <1>6 DEF BoundInv, TypeOK, Placed
<1>8. Reg(t)' = e /\ \A u \in started : u # t /\ native => Reg(u)' = Reg(u)
  BY <1>2, <1>5 DEF Reg, BoundInv, TypeOK, Placed, Threads
<1>9. own'[t] = Seen(e) /\ (\A u \in started : u # t => own'[u] = own[u]) /\ DOMAIN own' = Threads
  BY <1>1, <1>2 DEF OwnInv, BoundInv, TypeOK
<1>10. native => \A u \in started : Seen(Reg(u)') = own'[u]
  BY <1>8, <1>9 DEF OwnInv
<1>11. \A u \in running : Seen(Reg(u)') = own'[u]
  BY <1>2, <1>8, <1>9, <1>10 DEF BoundInv, TypeOK
<1> QED  BY <1>2, <1>7, <1>9, <1>10, <1>11 DEF OwnInv, Placed, Seen, Reg

(* the begin of a slice,                                                   *)
LEMMA SliceStep ==
    ASSUME BoundInv, OwnInv, NEW t \in Threads, BeginSlice(t)
    PROVE  BoundInv' /\ OwnInv'
<1> DEFINE e == Loaded(base, ctx[t])
<1>1. /\ ~native /\ running = {} /\ t \in created /\ base' = e
      /\ own' = IF t \in started THEN own ELSE [own EXCEPT ![t] = Seen(e)]
      /\ started' = started \cup {t} /\ running' = {t}
      /\ UNCHANGED <<native, multi, emus, created, bound, ctx>>
  BY DEF BeginSlice
<1>2. ctx[t] \in Context /\ base \in Emu
  BY DEF BoundInv, TypeOK
<1>3. e \in Emu /\ (ctx[t].fpuValid => Seen(e) = Kept(ctx[t]))
  BY <1>2, RoundTrip
<1>4. BoundInv'
  BY <1>1, <1>3 DEF BoundInv, TypeOK
<1>5. DOMAIN own' = Threads /\ \A u \in started : own'[u] = own[u]
  BY <1>1 DEF OwnInv, BoundInv, TypeOK
<1>6. own'[t] = Seen(e)
  <2>1. CASE t \in started
    BY <1>1, <1>3, <2>1 DEF OwnInv
  <2>2. CASE t \notin started
    BY <1>1, <2>2 DEF OwnInv
  <2> QED  BY <2>1, <2>2
<1>7. \A u \in running' : Reg(u)' = e
  BY <1>1 DEF Reg
<1>8. \A u \in started' \ running' : own'[u] = Kept(ctx'[u]) /\ ctx'[u].fpuValid
  BY <1>1, <1>5 DEF OwnInv
<1> QED  BY <1>1, <1>4, <1>5, <1>6, <1>7, <1>8 DEF OwnInv, Seen, Reg, Kept

\* The end of a slice and the beginning of a wait leave the same snapshot.
LEMMA SaveStep ==
    ASSUME BoundInv, OwnInv, NEW t \in Threads, EndSlice(t) \/ Park(t)
    PROVE  BoundInv' /\ OwnInv'
<1> DEFINE e == Updated(E(t))
<1>1. /\ t \in running /\ SetE(t, e) /\ ctx' = [ctx EXCEPT ![t] = Saved(E(t))]
      /\ running' = running \ {t} /\ UNCHANGED own /\ Placed
  BY DEF EndSlice, Park, BoundInv, Placed
<1>2. t \in started /\ E(t) = Reg(t) /\ E(t) \in Emu
  BY <1>1, Own DEF BoundInv, TypeOK
<1>3. /\ Seen(e) = own[t] /\ e \in Emu /\ Saved(E(t)) \in Context
      /\ Saved(E(t)).fpuValid /\ Kept(Saved(E(t))) = own[t]
  <2>1. Seen(E(t)) = own[t]
    BY <1>1, <1>2 DEF OwnInv
  <2>2. PICK c : c \in Context
    BY DEF BoundInv, TypeOK
  <2> QED  BY <1>2, <2>1, <2>2, RoundTrip
<1>4. IF native /\ t # Main THEN emus' = [emus EXCEPT ![t] = e] /\ UNCHANGED base
                            ELSE base' = e /\ UNCHANGED emus
  BY <1>1, <1>2, Own
<1>5. base' \in Emu /\ emus' \in [Workers -> Emu] /\ ctx' \in [Threads -> Context]
  BY <1>1, <1>3, <1>4 DEF BoundInv, TypeOK
<1>6. BoundInv'
  BY <1>1, <1>5 DEF BoundInv, TypeOK, Placed
<1>7. Reg(t)' = e /\ \A u \in started : u # t /\ native => Reg(u)' = Reg(u)
  BY <1>1, <1>2, <1>4 DEF Reg, BoundInv, TypeOK, Placed, Threads
<1>8. native => \A u \in started : Seen(Reg(u)') = own'[u]
  BY <1>1, <1>3, <1>7 DEF OwnInv
<1>9. \A u \in running' : Seen(Reg(u)') = own'[u]
  BY <1>1, <1>8 DEF BoundInv, TypeOK, Placed
<1>10. \A u \in started' \ running' : own'[u] = Kept(ctx'[u]) /\ ctx'[u].fpuValid
  BY <1>1, <1>3 DEF OwnInv, Placed, BoundInv, TypeOK
<1> QED  BY <1>1, <1>6, <1>8, <1>9, <1>10 DEF OwnInv, Placed, Seen, Reg, Kept

(* the creation of a thread,                                               *)
LEMMA CreateStep ==
    ASSUME BoundInv, OwnInv, NEW t \in Threads, Create(t)
    PROVE  BoundInv' /\ OwnInv'
<1>1. /\ t \in Workers \ created /\ created' = created \cup {t}
      /\ UNCHANGED <<native, base, bound, ctx, started, running, own>>
      /\ native => multi' /\ emus' = [emus EXCEPT ![t] = [Blank EXCEPT !.fpu = base.fpu]]
      /\ ~native => UNCHANGED <<multi, emus>>
  BY DEF Create
<1>2. [Blank EXCEPT !.fpu = base.fpu] \in Emu
  BY ContextAssumption DEF Blank, Emu, BoundInv, TypeOK
<1>3. emus' \in [Workers -> Emu] /\ multi' \in BOOLEAN
  BY <1>1, <1>2 DEF BoundInv, TypeOK, Create
<1>4. BoundInv'
  BY <1>1, <1>3 DEF BoundInv, TypeOK, Threads
<1>5. \A u \in started : Reg(u)' = Reg(u)
  BY <1>1 DEF Reg, BoundInv, TypeOK, Threads
<1> QED  BY <1>1, <1>4, <1>5 DEF OwnInv, BoundInv, TypeOK, Seen, Kept

(* the start of its runner                                                 *)
LEMMA StartStep ==
    ASSUME BoundInv, OwnInv, NEW t \in Threads, StartRunner(t)
    PROVE  BoundInv' /\ OwnInv'
<1>1. /\ native /\ multi /\ t \in created \ started /\ bound' = [bound EXCEPT ![t] = t]
      /\ emus' = [emus EXCEPT ![t] = Seeded(@)] /\ own' = [own EXCEPT ![t] = Seen(emus'[t])]
      /\ started' = started \cup {t} /\ running' = running \cup {t}
      /\ UNCHANGED <<native, multi, base, created, ctx>>
  BY DEF StartRunner
<1>2. t \in Workers /\ t # Main
  BY <1>1, ContextAssumption DEF BoundInv, TypeOK, Threads
<1>3. Seeded(emus[t]) \in Emu
  BY <1>2, ContextAssumption DEF BoundInv, TypeOK, Seeded, Emu
<1>4. BoundInv'
  BY <1>1, <1>2, <1>3 DEF BoundInv, TypeOK
<1>5. Reg(t)' = emus'[t] /\ \A u \in started : Reg(u)' = Reg(u)
  BY <1>1, <1>2 DEF Reg, BoundInv, TypeOK
<1>6. own'[t] = Seen(emus'[t]) /\ (\A u \in started : own'[u] = own[u]) /\ DOMAIN own' = Threads
  BY <1>1 DEF OwnInv, BoundInv, TypeOK
<1>7. \A u \in started' : Seen(Reg(u)') = own'[u]
  BY <1>1, <1>5, <1>6 DEF OwnInv
<1> QED  BY <1>1, <1>4, <1>6, <1>7 DEF OwnInv, Seen, Reg, Kept, BoundInv, TypeOK

(* and its resumption;                                                     *)
LEMMA ResumeStep ==
    ASSUME BoundInv, OwnInv, NEW t \in Threads, Resume(t)
    PROVE  BoundInv' /\ OwnInv'
BY DEF Resume, BoundInv, TypeOK, OwnInv, Reg, Seen, Kept

(* so by every step.                                                       *)
LEMMA ContextStep == BoundInv /\ OwnInv /\ [Next]_vars => BoundInv' /\ OwnInv'
<1> SUFFICES ASSUME BoundInv, OwnInv, [Next]_vars
             PROVE  BoundInv' /\ OwnInv'
  OBVIOUS
<1>1. CASE UNCHANGED vars
  BY <1>1 DEF vars, BoundInv, TypeOK, OwnInv, Reg, Seen, Kept
<1>2. CASE Next
  BY <1>2, ComputeStep, SliceStep, SaveStep, CreateStep, StartStep, ResumeStep DEF Next
<1> QED  BY <1>1, <1>2

\* Registers, flags and FPU have their types, and E() never reaches an emu
\* that was not made.
THEOREM ContextTypes == Spec => []TypeOK
<1>1. BoundInv => TypeOK
  BY DEF BoundInv
<1> QED  BY <1>1, BoundInit, ContextStep, PTL DEF Spec

\* Under either scheduler, whatever threads there are and wherever each was
\* cut, a thread goes on with its own registers, flags and FPU.
THEOREM ContextsOwned == Spec => []OwnState
<1>1. BoundInv /\ OwnInv => OwnState
  <2> SUFFICES ASSUME BoundInv, OwnInv
               PROVE  OwnState
    OBVIOUS
  <2>1. \A t \in running : Seen(E(t)) = own[t]
    BY Own DEF OwnInv, BoundInv, TypeOK
  <2> QED  BY <2>1 DEF OwnState, OwnInv, Kept
<1> QED  BY <1>1, BoundInit, ContextStep, PTL DEF Spec

-----------------------------------------------------------------------------
(* Facts of arithmetic                                                     *)

(* A non-empty set of naturals has a least element, a bounded one a        *)
(* greatest.                                                               *)
LEMMA LeastIn ==
  ASSUME NEW S \in SUBSET Nat, S # {}
  PROVE  \E x \in S : \A y \in S : x <= y
<1> DEFINE R == {ss \in Nat \X Nat : ss[1] < ss[2]}
<1>0. IsWellFoundedOn(R, Nat)
  BY NatLessThanWellFounded DEF OpToRel
<1> HIDE DEF R
<1>1. PICK x \in S : \A y \in S : ~(<<y, x>> \in R)
  BY <1>0, WFMin
<1>2. \A y \in S : ~ (y < x)
  BY <1>1 DEF R
<1> QED  BY <1>2

(* A multiple leaves nothing over.                                         *)
LEMMA Multiple ==
  ASSUME NEW g \in Nat, g > 0, NEW q \in Int
  PROVE  (q * g) % g = 0
<1> DEFINE m == q * g
           d == m \div g
           r == m % g
           e == q - d
<1>1. m \in Int
  OBVIOUS
<1>2. d \in Int /\ r \in Int /\ m = d * g + r /\ 0 <= r /\ r < g
  <2> HIDE DEF m
  <2> QED  BY <1>1, SMTT(30)
<1>3. e \in Int /\ e * g = r
  <2> HIDE DEF d, r
  <2> QED  BY <1>2, SMTT(30)
<1> HIDE DEF m, d, r, e
<1>4. ~(e >= 1) /\ ~(e <= -1)
  <2>1. e >= 1 => e * g >= g
    BY <1>3
  <2>2. e <= -1 => e * g <= -g
    BY <1>3
  <2> QED  BY <1>2, <1>3, <2>1, <2>2
<1>5. e = 0
  BY <1>3, <1>4
<1> QED  BY <1>2, <1>3, <1>5 DEF m, r

-----------------------------------------------------------------------------
(* Translated code and the bytes it was made from                          *)

Translation == [bytes : [PageNos -> Int], clean : BOOLEAN]
(* A trusted block lies in marked pages, and no change of them was missed. *)
CodeInv ==
  /\ x1 \in [PageNos -> Int] /\ x2 \subseteq PageNos /\ x4 \subseteq PageNos
  /\ x3 \in [Extents -> Translation]
  /\ x5 \in Flushes \cup {{}}
  /\ Code!StaleOnlyWhenMissed

(* Nothing is translated yet.                                              *)
LEMMA CodeStart == Code!Init => CodeInv
BY CodeAssumption DEF Code!Init, CodeInv, Code!StaleOnlyWhenMissed, Code!None, Code!Idle, Translation

(* The barrier lifts the marks of the range, and every block that had a    *)
(* byte in a marked page of it is doubted; or it does nothing, and what of *)
(* the range carries a mark was missed.                                    *)
LEMMA BarrierKeeps ==
  ASSUME CodeInv, NEW r \in Flushes, Code!Barrier(r), NEW c \in SUBSET PageNos, x6' = Code!Unseen(r, c)
  PROVE  /\ x2' \subseteq PageNos /\ x3' \in [Extents -> Translation]
         /\ \A x \in Extents : x3'[x].clean =>
              /\ x3[x].clean /\ x3'[x].bytes = x3[x].bytes /\ x \subseteq x2'
              /\ x \cap x6 \subseteq x6' /\ x \cap r \cap c \subseteq x6'
<1>2. \A x \in Extents : x3[x].clean => x \subseteq x2
  BY DEF CodeInv, Code!StaleOnlyWhenMissed
<1>3. CASE r \subseteq x2
  <2>1. x2' = x2 \ r /\ x3' = [x \in Extents |-> IF x \cap r \cap x2 # {} THEN [x3[x] EXCEPT !.clean = FALSE] ELSE x3[x]]
    BY <1>3 DEF Code!Barrier, Code!IsProtected, Code!Doubted, Code!Unprotected
  <2>2. \A x \in Extents : /\ x3'[x] \in Translation
                           /\ x3'[x].clean => x3'[x] = x3[x] /\ x \cap r = {}
    <3> SUFFICES ASSUME NEW x \in Extents
                 PROVE  x3'[x] \in Translation /\ (x3'[x].clean => x3'[x] = x3[x] /\ x \cap r = {})
      OBVIOUS
    <3>1. x3[x] \in Translation
      BY DEF CodeInv
    <3>2. CASE x \cap r \cap x2 # {}
      BY <2>1, <3>1, <3>2 DEF Translation
    <3>3. CASE x \cap r \cap x2 = {}
      BY <2>1, <3>1, <3>3, <1>3
    <3> QED  BY <3>2, <3>3
  <2>3. x3' \in [Extents -> Translation]
    BY <2>1, <2>2
  <2>4. x6' = x6 \ r
    BY <1>3 DEF Code!Unseen, Code!IsProtected
  <2> QED  BY <1>2, <2>1, <2>2, <2>3, <2>4 DEF CodeInv
<1>4. CASE ~(r \subseteq x2)
  <2>1. x2' = x2 /\ x3' = x3 /\ x6' = x6 \cup (r \cap x2 \cap c)
    BY <1>4 DEF Code!Barrier, Code!IsProtected, Code!Unseen
  <2> QED  BY <1>2, <2>1 DEF CodeInv
<1> QED  BY <1>3, <1>4

(* The steps of guest code, shims and the loader.                          *)
LEMMA CodeStep == CodeInv /\ [Code!Next]_(Code!vars) => CodeInv'
<1> SUFFICES ASSUME CodeInv, Code!Next PROVE CodeInv'
  BY DEF CodeInv, Code!vars, Code!StaleOnlyWhenMissed
<1> USE DEF CodeInv, Code!StaleOnlyWhenMissed
<1>1. ASSUME NEW x \in Extents, Code!Enter(x) PROVE CodeInv'
  <2>1. x \subseteq PageNos /\ UNCHANGED <<x1, x4, x5, x6>>
    BY <1>1, CodeAssumption DEF Code!Enter, Code!CodeAssumption
  <2>2. CASE x3[x].clean
    BY <1>1, <2>2 DEF Code!Enter
  <2>3. CASE ~x3[x].clean
    <3>1. x3' = [x3 EXCEPT ![x] = [bytes |-> x1, clean |-> TRUE]] /\ x2' = x2 \cup x
      BY <1>1, <2>3 DEF Code!Enter
    <3>2. [bytes |-> x1, clean |-> TRUE] \in Translation
      BY DEF Translation
    <3>3. x3' \in [Extents -> Translation]
      BY <3>1, <3>2
    <3> QED  BY <2>1, <3>1, <3>3
  <2> QED  BY <2>2, <2>3
<1>2. ASSUME NEW p \in PageNos, Code!GuestStore(p) PROVE CodeInv'
  <2>1. x1' \in [PageNos -> Int] /\ (\A q \in PageNos \ {p} : x1'[q] = x1[q]) /\ x4' = x4 \cup {p}
        /\ UNCHANGED <<x2, x3, x5, x6>>
    BY <1>2 DEF Code!GuestStore, Code!Changed
  <2> QED  BY <2>1, CodeAssumption DEF Code!CodeAssumption
<1>3. ASSUME NEW r \in Flushes, Code!Invalidate(r) PROVE CodeInv'
  <2>1. Code!Barrier(r) /\ x6' = Code!Unseen(r, x4) /\ x4' = x4 \ r /\ UNCHANGED <<x1, x5>>
    BY <1>3 DEF Code!Invalidate
  <2> QED  BY <2>1, BarrierKeeps
<1>4. ASSUME NEW r \in Flushes, Code!WriteBarrier(r) PROVE CodeInv'
  <2>1. Code!Barrier(r) /\ x6' = Code!Unseen(r, {}) /\ x5' = r /\ UNCHANGED <<x1, x4>>
    BY <1>4 DEF Code!WriteBarrier
  <2> QED  BY <2>1, BarrierKeeps
<1>5. ASSUME Code!WriteStore PROVE CodeInv'
  <2>1. x5 \in Flushes /\ x5' = {} /\ x6' = x6 \cup (x5 \cap x2) /\ UNCHANGED <<x2, x3, x4>>
    BY <1>5 DEF Code!WriteStore, Code!Idle
  <2>2. x1' \in [PageNos -> Int] /\ \A q \in PageNos \ x5 : x1'[q] = x1[q]
    BY <1>5 DEF Code!WriteStore, Code!Changed
  <2> QED  BY <2>1, <2>2, CodeAssumption DEF Code!CodeAssumption
<1> DEFINE None == [bytes |-> [p \in PageNos |-> -1], clean |-> FALSE]
<1>6. None \in Translation /\ ~None.clean
  BY DEF Translation
<1> HIDE DEF None
<1>7. ASSUME NEW r \in Flushes, Code!Discard(r) PROVE CodeInv'
  <2>1. /\ x3' = [x \in Extents |-> IF x \cap r # {} THEN None ELSE x3[x]]
        /\ x4' = x4 \ r /\ x6' = x6 \ r /\ UNCHANGED <<x1, x2, x5>>
    BY <1>7 DEF Code!Discard, Code!None, None
  <2>2. x3' \in [Extents -> Translation]
    BY <1>6, <2>1
  <2>3. \A x \in Extents : x3'[x].clean => x3'[x] = x3[x] /\ x \cap r = {}
    BY <1>6, <2>1
  <2> QED  BY <2>1, <2>2, <2>3
<1>8. ASSUME NEW r \in Flushes, Code!Remap(r) PROVE CodeInv'
  <2>1. /\ x3' = [x \in Extents |-> IF x \cap r # {} THEN None ELSE x3[x]]
        /\ x4' = x4 \ r /\ x2' = x2 \ r /\ x6' = x6 \ r /\ x5' = x5
    BY <1>8 DEF Code!Remap, Code!None, None
  <2>2. x3' \in [Extents -> Translation]
    BY <1>6, <2>1
  <2>3. \A x \in Extents : x3'[x].clean => x3'[x] = x3[x] /\ x \cap r = {}
    BY <1>6, <2>1
  <2>4. x1' \in [PageNos -> Int] /\ \A q \in PageNos \ r : x1'[q] = x1[q]
    BY <1>8 DEF Code!Remap, Code!Changed
  <2> QED  BY <2>1, <2>2, <2>3, <2>4, CodeAssumption DEF Code!CodeAssumption
<1> QED  BY <1>1, <1>2, <1>3, <1>4, <1>5, <1>7, <1>8 DEF Code!Next

-----------------------------------------------------------------------------
(* The traps that functions serve                                          *)

LEMMA TrapMin ==
  ASSUME NEW S \in SUBSET Nat, S # {}
  PROVE  Traps!Min(S) \in S /\ \A y \in S : Traps!Min(S) <= y
BY LeastIn DEF Traps!Min

LEMMA TrapMax ==
  ASSUME NEW S \in SUBSET Nat, S # {}, NEW b \in Nat, \A y \in S : y <= b
  PROVE  Traps!Max(S) \in S /\ \A y \in S : Traps!Max(S) >= y
<1> DEFINE T == {n \in Nat : \A y \in S : y <= n}
<1>1. PICK n \in T : \A m \in T : n <= m
  BY LeastIn
<1>2. \E y \in S : y = n
  <2> SUFFICES ASSUME n \notin S PROVE FALSE
    OBVIOUS
  <2>1. PICK y \in S : TRUE
    OBVIOUS
  <2>2. n > 0 /\ \A z \in S : z <= n - 1
    BY <2>1
  <2>3. n - 1 \in T
    BY <2>2
  <2> QED  BY <1>1, <2>2, <2>3
<1>3. n \in S /\ \A y \in S : n >= y
  BY <1>1, <1>2
<1> QED  BY <1>3 DEF Traps!Max

TableOk == TableSize \in Nat /\ TableSize > 0 /\ Cap \in Nat /\ Cap < TableSize /\ TrapSlots \subseteq Nat \ {0} /\ Window \in Nat
LEMMA TableIs == TableOk
BY StandInAssumption DEF TableOk, Traps!TrapAssumption

LEMMA KeysAre == TrapSlots \cup {0} \subseteq Nat /\ \A keys \in [Traps!Entries -> TrapSlots \cup {0}] : keys \in [Traps!Entries -> Nat]
<1>1. TrapSlots \cup {0} \subseteq Nat
  BY TableIs DEF TableOk
<1> DEFINE S == TrapSlots \cup {0}
<1> HIDE DEF S
<1>2. S \subseteq Nat
  BY <1>1 DEF S
<1>3. \A keys \in [Traps!Entries -> S] : keys \in [Traps!Entries -> Nat]
  BY <1>2
<1> QED  BY <1>1, <1>3 DEF S

LEMMA ProbedIn ==
  ASSUME NEW v \in Nat, NEW k \in Traps!Entries
  PROVE  Traps!Probed(v, k) \in Traps!Entries
<1> DEFINE n == v + k
<1>1. n \in Nat /\ TableSize \in Nat /\ TableSize > 0
  BY TableIs DEF TableOk, Traps!Entries
<1> HIDE DEF n
<1>2. n % TableSize \in 0 .. TableSize - 1
  BY <1>1
<1> QED  BY <1>2 DEF n, Traps!Probed, Traps!Entries

(* The entries of a table are bounded.                                     *)
LEMMA KeysBounded ==
  ASSUME NEW keys \in [Traps!Entries -> Nat]
  PROVE  \E b \in Nat : \A i \in Traps!Entries : keys[i] <= b
<1> DEFINE Ok(m) == \E b \in Nat : \A i \in Traps!Entries : i < m => keys[i] <= b
           B == {m \in 0 .. TableSize : ~Ok(m)}
<1>0. TableSize \in Nat
  BY TableIs DEF TableOk
<1>1. B = {}
  <2> SUFFICES ASSUME B # {} PROVE FALSE
    OBVIOUS
  <2>1. PICK m \in B : \A n \in B : m <= n
    <3> HIDE DEF Ok
    <3>1. B \subseteq Nat
      BY <1>0
    <3> HIDE DEF B
    <3> QED  BY <3>1, LeastIn
  <2>2. m \in 0 .. TableSize /\ ~Ok(m)
    OBVIOUS
  <2>3. Ok(0)
    <3>1. \A i \in Traps!Entries : ~(i < 0)
      BY DEF Traps!Entries
    <3>2. \A i \in Traps!Entries : i < 0 => keys[i] <= 0
      BY <3>1
    <3> QED  BY <3>2
  <2>4. m - 1 \in 0 .. TableSize /\ m - 1 \in Traps!Entries
    BY <1>0, <2>2, <2>3 DEF Traps!Entries
  <2>5. m - 1 \notin B
    BY <2>1, <2>4
  <2>6. PICK b \in Nat : \A i \in Traps!Entries : i < m - 1 => keys[i] <= b
    BY <2>4, <2>5
  <2> DEFINE c == IF b > keys[m - 1] THEN b ELSE keys[m - 1]
  <2>7. c \in Nat /\ c >= b /\ c >= keys[m - 1]
    BY <2>4
  <2> HIDE DEF c
  <2>8. \A i \in Traps!Entries : i < m => keys[i] <= c
    <3> SUFFICES ASSUME NEW i \in Traps!Entries, i < m PROVE keys[i] <= c
      OBVIOUS
    <3>1. i < m - 1 \/ i = m - 1
      BY <1>0, <2>2 DEF Traps!Entries
    <3> QED  BY <2>6, <2>7, <3>1
  <2> QED  BY <2>2, <2>7, <2>8
<1>2. Ok(TableSize)
  BY <1>0, <1>1
<1> QED  BY <1>0, <1>2 DEF Traps!Entries

(* The walk for the key of an entry in use comes to it.                    *)
Walks(keys, i) ==
  \E k \in Traps!Entries :
    /\ Traps!Probed(keys[i], k) = i
    /\ \A j \in Traps!Entries : j < k => keys[Traps!Probed(keys[i], j)] \notin {keys[i], 0}
InUse(keys) == {i \in Traps!Entries : keys[i] # 0}

LEMMA Found ==
  ASSUME NEW keys \in [Traps!Entries -> Nat], NEW i \in InUse(keys), Walks(keys, i)
  PROVE  /\ Traps!Stops(keys, keys[i]) # {}
         /\ Traps!Probed(keys[i], Traps!Min(Traps!Stops(keys, keys[i]))) = i
<1> DEFINE S == Traps!Stops(keys, keys[i])
<1>1. PICK k \in Traps!Entries :
        /\ Traps!Probed(keys[i], k) = i
        /\ \A j \in Traps!Entries : j < k => keys[Traps!Probed(keys[i], j)] \notin {keys[i], 0}
  BY DEF Walks
<1>2. k \in S /\ \A j \in S : ~(j < k)
  BY <1>1 DEF Traps!Stops
<1>3. S \subseteq Nat
  BY DEF Traps!Stops, Traps!Entries
<1> HIDE DEF S
<1>4. Traps!Min(S) = k
  <2> DEFINE m == Traps!Min(S)
  <2>1. m \in S /\ \A y \in S : m <= y
    BY <1>2, <1>3, TrapMin
  <2> HIDE DEF m
  <2>2. m \in Nat /\ k \in Nat /\ m <= k /\ ~(m < k)
    BY <1>2, <1>3, <2>1
  <2>3. m = k
    BY <2>2
  <2> QED  BY <2>3 DEF m
<1> QED  BY <1>1, <1>2, <1>4 DEF S

(* No two entries have one key.                                            *)
LEMMA OneEntry ==
  ASSUME NEW keys \in [Traps!Entries -> Nat], \A i \in InUse(keys) : Walks(keys, i),
         NEW i \in InUse(keys), NEW j \in InUse(keys), keys[i] = keys[j]
  PROVE  i = j
BY Found

(* A key the table does not hold is served by nothing.                     *)
LEMMA NotServed ==
  ASSUME NEW keys \in [Traps!Entries -> Nat], NEW v \in Nat, \A i \in Traps!Entries : keys[i] # v,
         Traps!Stops(keys, v) # {}
  PROVE  keys[Traps!Probed(v, Traps!Min(Traps!Stops(keys, v)))] # v
<1>1. Traps!Stops(keys, v) \subseteq Nat /\ Traps!Stops(keys, v) \subseteq Traps!Entries
  BY DEF Traps!Stops, Traps!Entries
<1> QED  BY <1>1, TrapMin, ProbedIn

(* Two registered slots lie further apart than the index is wide.          *)
Wide(keys) == \E i, j \in InUse(keys) : keys[j] - keys[i] >= Window
(* The table holds the functions that were accepted.                       *)
Given(keys, fns, g) ==
  /\ g \in [TrapSlots -> Fns \cup {Traps!NoFn}]
  /\ \A i \in InUse(keys) : fns[i] = g[keys[i]] /\ fns[i] # Traps!NoFn
  /\ \A v \in TrapSlots : (\A i \in Traps!Entries : keys[i] # v) => g[v] = Traps!NoFn

TrapInv ==
  /\ x1 \in [Traps!Entries -> TrapSlots \cup {0}] /\ x2 \in [Traps!Entries -> Fns \cup {Traps!NoFn}]
  /\ x5 \in Nat /\ x6 \in [0 .. Window - 1 -> Fns \cup {Traps!NoFn}]
  /\ x3 = Cardinality(InUse(x1)) /\ x3 <= Cap
  /\ \A i \in InUse(x1) : Walks(x1, i)
  /\ \A v \in TrapSlots : Traps!Direct(v) = IF x5 = 0 THEN Traps!NoFn ELSE Traps!Probe(v)
  /\ x5 = 0 <=> Wide(x1) \/ InUse(x1) = {}
  /\ Given(x1, x2, x7)

(* The walks serve what was accepted.                                      *)
LEMMA ProbeIs ==
  ASSUME TrapInv, NEW v \in TrapSlots
  PROVE  Traps!Probe(v) = x7[v]
<1>1. x1 \in [Traps!Entries -> Nat] /\ v \in Nat /\ v # 0
  BY KeysAre, TableIs DEF TrapInv, TableOk
<1>2. CASE \E i \in InUse(x1) : x1[i] = v
  <2>1. PICK i \in InUse(x1) : x1[i] = v
    BY <1>2
  <2>2. Walks(x1, i) /\ x7[v] = x2[i]
    BY <2>1 DEF TrapInv, Given
  <2> QED  BY <1>1, <2>1, <2>2, Found DEF Traps!Probe
<1>3. CASE ~(\E i \in InUse(x1) : x1[i] = v)
  <2>1. \A i \in Traps!Entries : x1[i] # v
    BY <1>1, <1>3 DEF InUse
  <2>2. x7[v] = Traps!NoFn
    BY <2>1 DEF TrapInv, Given
  <2> QED  BY <1>1, <2>1, <2>2, NotServed DEF Traps!Probe
<1> QED  BY <1>2, <1>3

(* Fewer entries are in use than there are.                                *)
LEMMA TrapSays == TrapInv => Traps!IndexHonest
<1> SUFFICES ASSUME TrapInv PROVE Traps!IndexHonest
  OBVIOUS
<1>1. x1 \in [Traps!Entries -> Nat]
  BY KeysAre DEF TrapInv
<1>2. \E i \in Traps!Entries : x1[i] = 0
  <2> SUFFICES ASSUME InUse(x1) = Traps!Entries PROVE FALSE
    BY DEF InUse
  <2>1. Cardinality(Traps!Entries) = TableSize
    BY TableIs, FS_Interval DEF TableOk, Traps!Entries
  <2> QED  BY <2>1, TableIs DEF TableOk, TrapInv
<1>3. \A v \in Traps!Registered : \E i \in InUse(x1) : x1[i] = v
  <2> SUFFICES ASSUME NEW v \in TrapSlots, \A i \in InUse(x1) : x1[i] # v PROVE x7[v] = Traps!NoFn
    BY DEF Traps!Registered
  <2>1. \A i \in Traps!Entries : x1[i] # v
    BY TableIs DEF InUse, TableOk
  <2> QED  BY <2>1 DEF TrapInv, Given
<1>4. \A i \in InUse(x1) : x1[i] \in Traps!Registered
  <2> SUFFICES ASSUME NEW i \in InUse(x1) PROVE x1[i] \in Traps!Registered
    OBVIOUS
  <2>1. x1[i] \in TrapSlots
    BY DEF InUse, TrapInv
  <2>2. x7[x1[i]] # Traps!NoFn
    BY DEF TrapInv, Given
  <2> QED  BY <2>1, <2>2 DEF Traps!Registered
<1>5. Traps!TooWide <=> Wide(x1)
  BY <1>3, <1>4 DEF Traps!TooWide, Wide
<1>6. ASSUME NEW v \in TrapSlots
      PROVE  Traps!Probe(v) = x7[v] /\ Traps!Direct(v) = IF Traps!TooWide THEN Traps!NoFn ELSE x7[v]
  <2>1. Traps!Probe(v) = x7[v]
    BY ProbeIs
  <2>2. InUse(x1) = {} => x7[v] = Traps!NoFn
    BY <1>3 DEF Traps!Registered
  <2>3. Traps!Direct(v) = (IF x5 = 0 THEN Traps!NoFn ELSE Traps!Probe(v)) /\ (x5 = 0 <=> Wide(x1) \/ InUse(x1) = {})
    BY DEF TrapInv
  <2> QED  BY <1>5, <2>1, <2>2, <2>3
<1> QED  BY <1>2, <1>6 DEF Traps!IndexHonest

LEMMA TrapStart == Traps!Init => TrapInv
<1> SUFFICES ASSUME Traps!Init PROVE TrapInv
  OBVIOUS
<1>1. InUse(x1) = {}
  BY DEF InUse, Traps!Init
<1>2. Cardinality(InUse(x1)) = 0
  BY <1>1, FS_EmptySet
<1>3. \A v \in TrapSlots : Traps!Direct(v) = Traps!NoFn
  BY TableIs DEF TableOk, Traps!Direct, Traps!Init
<1>4. x1 \in [Traps!Entries -> TrapSlots \cup {0}] /\ x2 \in [Traps!Entries -> Fns \cup {Traps!NoFn}] /\ x6 \in [0 .. Window - 1 -> Fns \cup {Traps!NoFn}]
      /\ x3 = 0 /\ x5 = 0
  BY DEF Traps!Init
<1>5. Given(x1, x2, x7) /\ ~Wide(x1)
  BY <1>1 DEF Given, Wide, Traps!Init
<1> QED  BY <1>1, <1>2, <1>3, <1>4, <1>5, TableIs DEF TableOk, TrapInv

(* The index that is rebuilt from a table serves what its walks do.        *)
LEMMA Rebuilt ==
  ASSUME TrapInv, x1' \in [Traps!Entries -> TrapSlots \cup {0}], x2' \in [Traps!Entries -> Fns \cup {Traps!NoFn}],
         \A i \in InUse(x1') : Walks(x1', i), InUse(x1') # {}, Traps!Rebuild(x1', x2')
  PROVE  /\ x5' \in Nat /\ x6' \in [0 .. Window - 1 -> Fns \cup {Traps!NoFn}]
         /\ \A v \in TrapSlots : Traps!Direct(v)' = IF x5' = 0 THEN Traps!NoFn ELSE Traps!Probe(v)'
         /\ x5' = 0 <=> Wide(x1')
<1> DEFINE used == InUse(x1')
           K == {x1'[i] : i \in used}
           lo == Traps!Min(K)
           width == Traps!Max(K) - lo + 1
           clean == Traps!Emptied(x6, width)
<1>1. x1' \in [Traps!Entries -> Nat] /\ TrapSlots \subseteq Nat \ {0} /\ Window \in Nat
  BY TableIs, KeysAre DEF TableOk
<1>2. K \subseteq Nat /\ K # {}
  BY <1>1 DEF InUse
<1>3. PICK b \in Nat : \A i \in Traps!Entries : x1'[i] <= b
  BY <1>1, KeysBounded
<1>4. \A y \in K : y <= b
  BY <1>3 DEF InUse
<1>5. lo \in Nat /\ lo \in K /\ (\A y \in K : lo <= y) /\ Traps!Max(K) \in Nat /\ (\A y \in K : y <= Traps!Max(K))
  <2> HIDE DEF K
  <2>1. Traps!Min(K) \in K /\ \A y \in K : Traps!Min(K) <= y
    BY <1>2, TrapMin
  <2>2. Traps!Max(K) \in K /\ \A y \in K : Traps!Max(K) >= y
    BY <1>2, <1>4, TrapMax
  <2> QED  BY <1>2, <2>1, <2>2
<1>6. width \in Nat /\ width > 0 /\ \A y \in K : y - lo \in 0 .. width - 1
  <2> HIDE DEF K
  <2> DEFINE m == Traps!Max(K)
  <2> HIDE DEF m, lo
  <2>1. width = m - lo + 1
    BY DEF m, lo
  <2>2. m \in Nat /\ lo \in Nat /\ lo \in K /\ (\A y \in K : lo <= y /\ y <= m)
    BY <1>5 DEF m, lo
  <2> HIDE DEF width
  <2> QED  BY <1>2, <2>1, <2>2
<1>7. IF width > Window
        THEN x5' = 0 /\ UNCHANGED <<x4, x6>>
        ELSE /\ x4' = lo /\ x5' = width
             /\ x6' = [d \in DOMAIN x6 |-> IF \E i \in used : x1'[i] - lo = d
                                             THEN x2'[CHOOSE i \in used : x1'[i] - lo = d] ELSE clean[d]]
  BY DEF InUse, Traps!Rebuild
<1> HIDE DEF width, lo, clean
<1>8. CASE width > Window
  <2>1. x5' = 0 /\ x6' = x6
    BY <1>7, <1>8
  <2>2. \A v \in TrapSlots : Traps!Direct(v)' = Traps!NoFn
    <3> SUFFICES ASSUME NEW v \in TrapSlots PROVE Traps!Direct(v)' = Traps!NoFn
      OBVIOUS
    <3>1. v - x4' \notin 0 .. x5' - 1
      BY <2>1
    <3> QED  BY <3>1 DEF Traps!Direct
  <2>3. Wide(x1')
    <3> DEFINE m == Traps!Max(K)
    <3>1. m \in K /\ lo \in K /\ m - lo >= Window
      <4>1. m \in K
        <5> HIDE DEF K
        <5> QED  BY <1>2, <1>4, TrapMax
      <4>2. m \in Nat /\ lo \in Nat /\ lo \in K /\ width = m - lo + 1
        BY <1>5 DEF lo, width
      <4> HIDE DEF m, K
      <4> QED  BY <1>1, <1>8, <4>1, <4>2
    <3>2. PICK i \in used : x1'[i] = m
      BY <3>1
    <3>3. PICK j \in used : x1'[j] = lo
      BY <3>1
    <3> HIDE DEF m, used
    <3>4. x1'[i] - x1'[j] >= Window
      BY <3>1, <3>2, <3>3
    <3> QED  BY <3>4 DEF Wide, used
  <2> QED  BY <2>1, <2>2, <2>3 DEF TrapInv
<1>9. CASE ~(width > Window)
  <2> DEFINE F(d) == IF \E i \in used : x1'[i] - lo = d THEN x2'[CHOOSE i \in used : x1'[i] - lo = d] ELSE clean[d]
  <2>1. x4' = lo /\ x5' = width /\ x6' = [d \in 0 .. Window - 1 |-> F(d)] /\ width <= Window
    <3>1. DOMAIN x6 = 0 .. Window - 1
      BY DEF TrapInv
    <3>2. width <= Window
      BY <1>1, <1>6, <1>9
    <3>3. x4' = lo /\ x5' = width /\ x6' = [d \in DOMAIN x6 |-> F(d)]
      BY <1>7, <1>9
    <3> HIDE DEF F
    <3> QED  BY <3>1, <3>2, <3>3
  <2>2. \A d \in 0 .. Window - 1 : clean[d] \in Fns \cup {Traps!NoFn} /\ (d < width => clean[d] = Traps!NoFn)
    BY DEF clean, Traps!Emptied, TrapInv
  <2>3. \A d \in 0 .. Window - 1 : F(d) \in Fns \cup {Traps!NoFn}
    <3> TAKE d \in 0 .. Window - 1
    <3>1. CASE \E i \in used : x1'[i] - lo = d
      <4> DEFINE c == CHOOSE i \in used : x1'[i] - lo = d
      <4>1. c \in used /\ F(d) = x2'[c]
        BY <3>1
      <4> QED  BY <4>1 DEF InUse
    <3>2. CASE ~(\E i \in used : x1'[i] - lo = d)
      BY <2>2, <3>2
    <3> QED  BY <3>1, <3>2
  <2>4. ASSUME NEW v \in TrapSlots PROVE Traps!Direct(v)' = Traps!Probe(v)'
    <3>0. v \in Nat /\ v # 0
      BY <1>1
    <3>1. CASE \E i \in used : x1'[i] = v
      <4>1. PICK i \in used : x1'[i] = v
        BY <3>1
      <4>2. Traps!Probe(v)' = x2'[i]
        <5>1. /\ Traps!Stops(x1', x1'[i]) # {}
              /\ Traps!Probed(x1'[i], Traps!Min(Traps!Stops(x1', x1'[i]))) = i
          BY <1>1, Found
        <5>2. Traps!Probe(v)' = LET stops == Traps!Stops(x1', v)
                                IN  IF stops # {} /\ x1'[Traps!Probed(v, Traps!Min(stops))] = v
                                      THEN x2'[Traps!Probed(v, Traps!Min(stops))] ELSE Traps!NoFn
          BY DEF Traps!Probe, Traps!Stops, Traps!Probed, Traps!Min
        <5> QED  BY <4>1, <5>1, <5>2
      <4>3. v - lo \in 0 .. width - 1
        BY <1>6, <4>1
      <4> DEFINE d == v - lo
      <4>4. Traps!Direct(v)' = F(d)
        <5>1. d \in 0 .. Window - 1
          BY <1>1, <1>5, <1>6, <2>1, <4>3, <3>0 DEF lo
        <5>2. Traps!Direct(v)' = x6'[v - x4']
          BY <2>1, <4>3 DEF Traps!Direct
        <5> HIDE DEF F
        <5> QED  BY <2>1, <5>1, <5>2
      <4> DEFINE c == CHOOSE j \in used : x1'[j] - lo = d
      <4>5. c \in used /\ x1'[c] - lo = d
        BY <4>1
      <4>6. x1'[c] = v
        BY <1>1, <1>5, <3>0, <4>5 DEF InUse, lo
      <4>7. F(d) = x2'[c]
        BY <4>5
      <4> HIDE DEF c, F, d
      <4>8. c = i
        BY <1>1, <4>1, <4>5, <4>6, OneEntry
      <4> QED  BY <4>2, <4>4, <4>7, <4>8
    <3>2. CASE ~(\E i \in used : x1'[i] = v)
      <4>1. \A i \in Traps!Entries : x1'[i] # v
        BY <3>0, <3>2 DEF InUse
      <4>2. Traps!Probe(v)' = Traps!NoFn
        <5>1. Traps!Probe(v)' = LET stops == Traps!Stops(x1', v)
                                IN  IF stops # {} /\ x1'[Traps!Probed(v, Traps!Min(stops))] = v
                                      THEN x2'[Traps!Probed(v, Traps!Min(stops))] ELSE Traps!NoFn
          BY DEF Traps!Probe, Traps!Stops, Traps!Probed, Traps!Min
        <5> QED  BY <1>1, <3>0, <4>1, <5>1, NotServed
      <4>3. CASE v - lo \in 0 .. width - 1
        <5> DEFINE d == v - lo
        <5>1. d \in 0 .. Window - 1 /\ d < width
          BY <1>1, <1>5, <1>6, <2>1, <4>3, <3>0 DEF lo
        <5>2. ~(\E i \in used : x1'[i] - lo = d)
          BY <1>1, <1>5, <3>0, <3>2 DEF InUse, lo
        <5>3. F(d) = Traps!NoFn
          BY <2>2, <5>1, <5>2
        <5> HIDE DEF F
        <5>4. Traps!Direct(v)' = x6'[v - x4']
          BY <2>1, <4>3 DEF Traps!Direct
        <5> QED  BY <2>1, <4>2, <5>1, <5>3, <5>4
      <4>4. CASE v - lo \notin 0 .. width - 1
        BY <2>1, <4>2, <4>4 DEF Traps!Direct
      <4> QED  BY <4>3, <4>4
    <3> QED  BY <3>1, <3>2
  <2> HIDE DEF F
  <2>5. x5' \in Nat /\ x5' # 0 /\ x6' \in [0 .. Window - 1 -> Fns \cup {Traps!NoFn}]
    BY <1>6, <2>1, <2>3
  <2>6. ~Wide(x1')
    <3> SUFFICES ASSUME NEW i \in used, NEW j \in used PROVE ~(x1'[j] - x1'[i] >= Window)
      BY DEF Wide
    <3>1. x1'[i] \in K /\ x1'[j] \in K /\ x1'[i] \in Nat /\ x1'[j] \in Nat
      BY <1>1 DEF InUse
    <3>2. x1'[j] - lo \in 0 .. width - 1 /\ x1'[i] - lo \in 0 .. width - 1
      BY <1>6, <3>1
    <3> HIDE DEF K, used
    <3> QED  BY <1>1, <1>5, <1>6, <2>1, <3>1, <3>2 DEF lo
  <2> QED  BY <2>4, <2>5, <2>6
<1> QED  BY <1>8, <1>9

(* A new key goes where its walk stopped; the entries before it, and those *)
(* the other walks passed, were in use and stay as they are.               *)
LEMMA Entered ==
  ASSUME NEW keys \in [Traps!Entries -> Nat], \A i \in InUse(keys) : Walks(keys, i),
         NEW v \in Nat, v # 0, Traps!Stops(keys, v) # {},
         NEW e, e = Traps!Probed(v, Traps!Min(Traps!Stops(keys, v))), keys[e] = 0,
         NEW new, new = [keys EXCEPT ![e] = v]
  PROVE  e \in Traps!Entries /\ InUse(new) = InUse(keys) \cup {e} /\ \A i \in InUse(new) : Walks(new, i)
<1> DEFINE m == Traps!Min(Traps!Stops(keys, v))
<1>1. Traps!Stops(keys, v) \subseteq Nat /\ Traps!Stops(keys, v) \subseteq Traps!Entries
  BY DEF Traps!Stops, Traps!Entries
<1>2. m \in Traps!Stops(keys, v) /\ \A j \in Traps!Stops(keys, v) : m <= j
  BY <1>1, TrapMin
<1> HIDE DEF m
<1>3. m \in Traps!Entries /\ e = Traps!Probed(v, m) /\ e \in Traps!Entries
  BY <1>1, <1>2, ProbedIn DEF m
<1>4. \A j \in Traps!Entries : j < m => keys[Traps!Probed(v, j)] \notin {v, 0}
  <2> SUFFICES ASSUME NEW j \in Traps!Entries, j < m PROVE j \notin Traps!Stops(keys, v)
    BY DEF Traps!Stops
  <2> QED  BY <1>1, <1>2, <1>3 DEF Traps!Entries
<1>5. new[e] = v /\ \A i \in Traps!Entries \ {e} : new[i] = keys[i]
  BY <1>3
<1>6. \A u \in Nat, j \in Traps!Entries : keys[Traps!Probed(u, j)] # 0 => new[Traps!Probed(u, j)] = keys[Traps!Probed(u, j)]
  BY <1>5, ProbedIn
<1>7. InUse(new) = InUse(keys) \cup {e}
  BY <1>3, <1>5 DEF InUse
<1>8. Walks(new, e)
  <2>1. \A j \in Traps!Entries : j < m => new[Traps!Probed(v, j)] \notin {v, 0}
    BY <1>4, <1>6
  <2> QED  BY <1>3, <1>5, <2>1 DEF Walks
<1>9. ASSUME NEW i \in InUse(keys) PROVE Walks(new, i)
  <2>1. PICK k \in Traps!Entries :
          /\ Traps!Probed(keys[i], k) = i
          /\ \A j \in Traps!Entries : j < k => keys[Traps!Probed(keys[i], j)] \notin {keys[i], 0}
    BY DEF Walks
  <2>2. i \in Traps!Entries /\ new[i] = keys[i] /\ keys[i] \in Nat
    BY <1>5 DEF InUse
  <2>3. \A j \in Traps!Entries : j < k => new[Traps!Probed(keys[i], j)] \notin {keys[i], 0}
    BY <1>6, <2>1, <2>2
  <2> QED  BY <2>1, <2>2, <2>3 DEF Walks
<1> QED  BY <1>3, <1>7, <1>8, <1>9

LEMMA TrapStep == TrapInv /\ [Traps!Next]_(Traps!vars) => TrapInv'
<1> SUFFICES ASSUME TrapInv, [Traps!Next]_(Traps!vars) PROVE TrapInv'
  OBVIOUS
<1>1. CASE UNCHANGED Traps!vars
  BY <1>1 DEF Traps!vars, TrapInv, Traps!Direct, Traps!Probe, Traps!Stops
<1>2. ASSUME NEW v \in TrapSlots, NEW fn \in Fns, Traps!SetIntrinsic(v, fn), ~UNCHANGED Traps!vars PROVE TrapInv'
  <2> DEFINE i == Traps!Probed(v, Traps!Min(Traps!Stops(x1, v)))
             new == x1[i] = 0
  <2>1. /\ Traps!Stops(x1, v) # {} /\ ~(new /\ x3 >= Cap)
        /\ x1' = [x1 EXCEPT ![i] = v] /\ x2' = [x2 EXCEPT ![i] = fn]
        /\ x3' = (IF new THEN x3 + 1 ELSE x3) /\ Traps!Rebuild(x1', x2') /\ x7' = [x7 EXCEPT ![v] = fn]
    BY <1>2 DEF Traps!SetIntrinsic, Traps!Full
  <2>2. v \in Nat /\ v # 0 /\ x1 \in [Traps!Entries -> Nat]
    BY TableIs, KeysAre DEF TableOk, TrapInv
  <2>3. Traps!Min(Traps!Stops(x1, v)) \in Traps!Stops(x1, v)
    BY <2>1, TrapMin DEF Traps!Stops, Traps!Entries
  <2>4. i \in Traps!Entries /\ x1[i] \in {v, 0}
    <3>1. Traps!Min(Traps!Stops(x1, v)) \in Traps!Entries /\ x1[Traps!Probed(v, Traps!Min(Traps!Stops(x1, v)))] \in {v, 0}
      BY <2>3 DEF Traps!Stops
    <3> QED  BY <2>2, <3>1, ProbedIn
  <2>5. InUse(x1') = InUse(x1) \cup {i} /\ \A j \in InUse(x1') : Walks(x1', j)
    <3>1. CASE new
      BY <2>1, <2>2, <3>1, Entered DEF TrapInv
    <3>2. CASE ~new
      <4>1. x1' = x1
        BY <2>1, <2>2, <2>4, <3>2
      <4> QED  BY <2>4, <3>2, <4>1 DEF TrapInv, InUse
    <3> QED  BY <3>1, <3>2
  <2> HIDE DEF i
  <2>6. x1' \in [Traps!Entries -> TrapSlots \cup {0}] /\ x2' \in [Traps!Entries -> Fns \cup {Traps!NoFn}]
    BY <2>1, <2>4 DEF TrapInv
  <2>7. x3' = Cardinality(InUse(x1')) /\ x3' <= Cap
    <3>1. IsFiniteSet(InUse(x1))
      <4>1. IsFiniteSet(Traps!Entries)
        BY TableIs, FS_Interval DEF TableOk, Traps!Entries
      <4> QED  BY <4>1, FS_Subset DEF InUse
    <3>2. Cardinality(InUse(x1')) = IF i \in InUse(x1) THEN Cardinality(InUse(x1)) ELSE Cardinality(InUse(x1)) + 1
      BY <2>5, <3>1, FS_AddElement
    <3>3. i \in InUse(x1) <=> ~new
      BY <2>4 DEF InUse
    <3>4. Cardinality(InUse(x1)) \in Nat
      BY <3>1, FS_CardinalityType
    <3> QED  BY <2>1, <3>2, <3>3, <3>4, TableIs DEF TrapInv, TableOk
  <2>8. InUse(x1') # {}
    BY <2>5
  <2>9. /\ x5' \in Nat /\ x6' \in [0 .. Window - 1 -> Fns \cup {Traps!NoFn}]
        /\ \A u \in TrapSlots : Traps!Direct(u)' = IF x5' = 0 THEN Traps!NoFn ELSE Traps!Probe(u)'
        /\ x5' = 0 <=> Wide(x1')
    BY <2>1, <2>5, <2>6, <2>8, Rebuilt
  <2>10. Given(x1', x2', x7')
    <3>1. x7' \in [TrapSlots -> Fns \cup {Traps!NoFn}] /\ x7'[v] = fn /\ \A u \in TrapSlots \ {v} : x7'[u] = x7[u]
      BY <2>1 DEF TrapInv, Given
    <3>2. x1'[i] = v /\ x2'[i] = fn /\ \A j \in Traps!Entries \ {i} : x1'[j] = x1[j] /\ x2'[j] = x2[j]
      BY <2>1, <2>4 DEF TrapInv
    <3>3. fn # Traps!NoFn
      BY StandInAssumption DEF Traps!TrapAssumption, Traps!NoFn
    <3>4. ASSUME NEW j \in InUse(x1') PROVE x2'[j] = x7'[x1'[j]] /\ x2'[j] # Traps!NoFn
      <4>1. CASE j = i
        BY <3>1, <3>2, <3>3, <4>1
      <4>2. CASE j # i
        <5>1. j \in InUse(x1) /\ x1'[j] = x1[j] /\ x2'[j] = x2[j] /\ x1[j] \in TrapSlots
          BY <3>2, <4>2 DEF InUse, TrapInv
        <5>2. x1[j] # v
          <6>1. x1' \in [Traps!Entries -> Nat] /\ i \in InUse(x1')
            BY <2>5, <2>6, KeysAre
          <6> QED  BY <2>5, <3>2, <4>2, <5>1, <6>1, OneEntry
        <5> QED  BY <3>1, <5>1, <5>2 DEF TrapInv, Given
      <4> QED  BY <4>1, <4>2
    <3>5. ASSUME NEW u \in TrapSlots, \A j \in Traps!Entries : x1'[j] # u PROVE x7'[u] = Traps!NoFn
      <4>1. u # v
        BY <2>4, <3>2, <3>5
      <4>2. \A j \in Traps!Entries : x1[j] # u
        <5>1. x1[i] # u
          BY <2>2, <2>4, <4>1, TableIs DEF TableOk
        <5> QED  BY <3>2, <3>5, <5>1
      <4> QED  BY <3>1, <4>1, <4>2 DEF TrapInv, Given
    <3> QED  BY <3>1, <3>4, <3>5 DEF Given
  <2> QED  BY <2>5, <2>6, <2>7, <2>8, <2>9, <2>10 DEF TrapInv
<1> QED  BY <1>1, <1>2 DEF Traps!Next

-----------------------------------------------------------------------------
(* The blocks a thread has executed                                        *)

(* What the counters may show: the prologues executed, and a slice for     *)
(* each sum and each zero of a poke that met another writer.               *)
MayShow == x11 + Refill * x12
Positive(n) == IF n > 0 THEN n ELSE 0

(* What is accounted for, with what the slice that runs would add now, or  *)
(* the one run() is about to add, is no more than that.                    *)
Account ==
  /\ x3 <= MayShow
  /\ x2 > 0 => x3 + x2 - Positive(x1) <= MayShow
  /\ x7 = "loaded" /\ x1 > 0 => x8.b = x1
  /\ x7 = "loaded" /\ x2 > 0 => x3 + x2 - Positive(x8.b) <= MayShow
  /\ x7 \in {"read", "disarmed"} /\ x8.a > 0 => x3 + x8.a - Positive(x8.b) <= MayShow
  /\ x7 \in {"disarmed", "saved", "charged"} => x2 = 0
  /\ x7 = "charged" => x3 + Refill - Positive(x1) <= MayShow

(* A poke that met nobody finds the slice as it was when it began, and     *)
(* adds no more than the slice would have.                                 *)
Flying(p) == x9[p].at \in {"read", "has", "disarmed", "saved"}
Alone(p) == Flying(p) /\ ~x9[p].over
AsBegun(p) ==
  /\ ~Census!Accounting /\ \A q \in Census!AllPokers \ {p} : ~Flying(q)
  /\ x9[p].at \in {"read", "has"} /\ x9[p].b > 0 => x1 <= x9[p].b /\ (x7 = "loaded" => x8.b <= x9[p].b)
  /\ x9[p].at = "has" => x9[p].a = x2
  /\ x9[p].at \in {"disarmed", "saved"} => x2 = 0
  /\ x9[p].at = "disarmed" /\ x9[p].b > 0 /\ x9[p].a >= x9[p].b => x3 + x9[p].a - x9[p].b <= MayShow
PokeInv == \A p \in Census!AllPokers : Alone(p) => AsBegun(p)

(* A reader's total is one that was accounted for when it looked, and so   *)
(* is what it would add to it now.                                         *)
ReaderInv ==
  /\ x10.at \in {"n", "a"} => x10.n <= x3
  /\ x10.at = "a" /\ x10.a > 0 /\ x1 > 0 => x10.n + x10.a - x1 <= MayShow
  /\ x10.at = "a" /\ x10.a > 0 /\ x7 = "loaded" /\ x8.b > 0 => x10.n + x10.a - x8.b <= MayShow

Reader == [at : {"idle", "n", "a"}, n : Nat, a : {0, Refill}, out : Nat]
Budget == {n \in Int : n <= Refill}
Poke == [at : {"idle", "read", "has", "disarmed", "saved", "zeroed", "done"}, a : {0, Refill}, b : Budget, over : BOOLEAN]
CensusTyped ==
  /\ x1 \in Budget /\ x2 \in {0, Refill} /\ x3 \in Nat /\ x11 \in Nat /\ x12 \in Nat
  /\ x8 \in [a : {0, Refill}, b : Budget] /\ x9 \in [Census!AllPokers -> Poke] /\ x10 \in Reader
CensusInv ==
  /\ CensusTyped /\ x10.out <= MayShow
  /\ IF MaxEntries = 0 THEN x10 = Census!Quiet /\ x3 = 0 /\ x11 = 0
                       ELSE Account /\ PokeInv /\ ReaderInv

LEMMA SlicesAre == Refill \in Nat /\ Refill > 0 /\ MaxEntries \in Nat
BY StandInAssumption DEF Census!SliceAssumption

LEMMA CensusStart == Census!Init => CensusInv
<1> SUFFICES ASSUME Census!Init PROVE CensusInv
  OBVIOUS
<1>1. x9 = [p \in Census!AllPokers |-> Census!Idle] /\ Census!Idle \in Poke
  BY SlicesAre DEF Census!Init, Census!Idle, Poke, Budget
<1>2. PokeInv
  BY <1>1 DEF PokeInv, AsBegun, Alone, Flying, Census!Idle
<1>3. MayShow = 0
  BY SlicesAre DEF MayShow, Census!Init
<1>4. x9 \in [Census!AllPokers -> Poke]
  BY <1>1
<1> HIDE DEF MayShow
<1> QED  BY <1>2, <1>3, <1>4, SlicesAre
         DEF Census!Init, Census!Quiet, CensusInv, CensusTyped, Reader, ReaderInv, Account, Budget

(* What may be shown grows with a prologue, and by a slice with a sum or a *)
(* zero that met another writer.                                           *)
LEMMA MayShowGrows ==
  ASSUME CensusTyped
  PROVE  /\ MayShow \in Nat
         /\ UNCHANGED <<x11, x12>> => MayShow' = MayShow
         /\ x11' = x11 + 1 /\ x12' = x12 => MayShow' = MayShow + 1
         /\ x11' = x11 /\ x12' = x12 + 1 => MayShow' = MayShow + Refill
<1> DEFINE R == Refill * x12
<1>1. x11 \in Nat /\ x12 \in Nat /\ Refill \in Nat
  BY SlicesAre DEF CensusTyped
<1>2. R \in Nat /\ MayShow = x11 + R
  BY <1>1 DEF MayShow
<1>3. Refill * (x12 + 1) = R + Refill
  BY <1>1
<1>4. x12' = x12 => MayShow' = x11' + R
  BY DEF MayShow
<1>5. x12' = x12 + 1 => MayShow' = x11' + (R + Refill)
  BY <1>3 DEF MayShow
<1> HIDE DEF R
<1> QED  BY <1>1, <1>2, <1>4, <1>5

(* Without counting nothing is shown.                                      *)
LEMMA CensusOff ==
  ASSUME CensusInv, MaxEntries = 0, CensusTyped', MayShow' \in Nat,
         x10' = x10, x3' = x3, x11' = x11
  PROVE  CensusInv'
BY DEF CensusInv, Census!Quiet

LEMMA MeetIs ==
  ASSUME CensusTyped
  PROVE  /\ Census!Meet \in [Census!AllPokers -> Poke]
         /\ \A p \in Census!AllPokers :
              /\ Census!Meet[p].at = x9[p].at /\ Census!Meet[p].a = x9[p].a /\ Census!Meet[p].b = x9[p].b
              /\ MaxEntries > 0 /\ Flying(p) => Census!Meet[p].over
<1>1. \A p \in Census!AllPokers : x9[p] \in Poke
  BY DEF CensusTyped
<1>2. \A p \in Census!AllPokers : [x9[p] EXCEPT !.over = TRUE] \in Poke
  BY <1>1 DEF Poke
<1> QED  BY <1>1, <1>2 DEF Census!Meet, Census!InFlight, Flying, Poke

(* The steps of the runner,                                                *)
Writes == Census!Runner \/ Census!Trap \/ Census!Funnel \/ Census!Yield
LEMMA RunnerStep == CensusInv /\ Writes => CensusInv'
<1> SUFFICES ASSUME CensusInv, Writes PROVE CensusInv'
  OBVIOUS
<1>f. CensusTyped /\ Refill \in Nat /\ Refill > 0 /\ MaxEntries \in Nat
  BY SlicesAre DEF CensusInv
<1>g. MayShow \in Nat /\ (UNCHANGED <<x11, x12>> => MayShow' = MayShow) /\ (x11' = x11 + 1 /\ x12' = x12 => MayShow' = MayShow + 1)
  BY <1>f, MayShowGrows
<1> HIDE DEF MayShow
<1>x. x10' = x10 /\ x12' = x12
  BY DEF Writes, Census!Runner, Census!Enter, Census!Disarm, Census!Save, Census!Charge, Census!Arm, Census!Turn,
         Census!Load, Census!Store, Census!Seam, Census!Trap, Census!Funnel, Census!Yield
<1> USE <1>f, <1>g, <1>x DEF Census!Step
<1>1. ASSUME Census!Enter PROVE CensusInv'
  <2>1. x7 = "seam" /\ x7' = "read" /\ x8' = [a |-> x2, b |-> x1] /\ x9' = Census!Meet /\ UNCHANGED <<x1, x2, x3, x11>>
    BY <1>1 DEF Census!Enter, Census!emu
  <2>2. CensusTyped'
    BY <2>1, MeetIs DEF CensusTyped
  <2>3. CASE MaxEntries > 0
    <3>1. \A p \in Census!AllPokers : ~Alone(p)'
      BY <2>1, <2>3, MeetIs DEF Alone, Flying
    <3> QED  BY <2>1, <2>2, <2>3, <3>1 DEF CensusInv, CensusTyped, Account, PokeInv, ReaderInv
  <2> QED  BY <2>1, <2>2, <2>3, CensusOff
<1>2. ASSUME Census!Disarm PROVE CensusInv'
  <2>1. x7 = "read" /\ x7' = "disarmed" /\ x2' = 0 /\ UNCHANGED <<x1, x3, x8, x9, x11>>
    BY <1>2 DEF Census!Disarm, Census!Does, Census!Order
  <2>2. CensusTyped'
    BY <2>1 DEF CensusTyped
  <2>3. CASE MaxEntries > 0
    <3>1. PokeInv /\ Census!Accounting
      BY <2>1, <2>3 DEF CensusInv, Census!Accounting
    <3>2. \A p \in Census!AllPokers : ~Alone(p) /\ ~Alone(p)'
      BY <2>1, <3>1 DEF PokeInv, AsBegun, Alone, Flying
    <3> QED  BY <2>1, <2>2, <2>3, <3>2 DEF CensusInv, CensusTyped, Account, PokeInv, ReaderInv
  <2> QED  BY <2>1, <2>2, <2>3, CensusOff
<1>3. ASSUME Census!Save PROVE CensusInv'
  <2>1. x7 = "disarmed" /\ x7' = "saved" /\ UNCHANGED <<x1, x2, x8, x9, x11>>
        /\ x3' = Census!Counted(x3 + (IF x8.a > 0 THEN x8.a - Census!Pos(x8.b) ELSE 0))
    BY <1>3 DEF Census!Save, Census!Does, Census!Order
  <2>2. CASE MaxEntries > 0
    <3>1. PokeInv /\ Census!Accounting /\ Account /\ ReaderInv /\ x10.out <= MayShow
      BY <2>1, <2>2 DEF CensusInv, Census!Accounting
    <3>2. \A p \in Census!AllPokers : ~Alone(p) /\ ~Alone(p)'
      BY <2>1, <3>1 DEF PokeInv, AsBegun, Alone, Flying
    <3>3. x8.a \in {0, Refill} /\ x8.b \in Int /\ x8.b <= Refill
      BY DEF CensusTyped, Budget
    <3>4. x3' = x3 + (IF x8.a > 0 THEN x8.a - Positive(x8.b) ELSE 0)
      BY <2>1, <2>2 DEF Census!Counted, Census!Pos, Positive
    <3>5. x3 \in Nat /\ x3' \in Nat /\ x3 <= x3' /\ x3' <= MayShow /\ x2 = 0
      BY <2>1, <3>1, <3>3, <3>4 DEF Account, CensusTyped, Positive
    <3>6. CensusTyped'
      BY <2>1, <3>5 DEF CensusTyped
    <3> QED  BY <2>1, <2>2, <3>1, <3>2, <3>3, <3>5, <3>6 DEF CensusInv, CensusTyped, Account, PokeInv, ReaderInv, Reader
  <2>3. CASE MaxEntries = 0
    <3>1. x3' = x3 /\ CensusTyped'
      BY <2>1, <2>3 DEF CensusInv, Census!Counted, CensusTyped
    <3> QED  BY <2>1, <2>3, <3>1, CensusOff
  <2> QED  BY <2>2, <2>3
<1>4. ASSUME Census!Charge PROVE CensusInv'
  <2>1. x7 = "saved" /\ x7' = "charged" /\ x1' = Refill /\ UNCHANGED <<x2, x3, x8, x9, x11>>
    BY <1>4 DEF Census!Charge
  <2>2. CensusTyped'
    BY <2>1 DEF CensusTyped, Budget
  <2>3. CASE MaxEntries > 0
    <3>1. PokeInv /\ Census!Accounting
      BY <2>1, <2>3 DEF CensusInv, Census!Accounting
    <3>2. \A p \in Census!AllPokers : ~Alone(p) /\ ~Alone(p)'
      BY <2>1, <3>1 DEF PokeInv, AsBegun, Alone, Flying
    <3>3. x10.n \in Nat /\ x10.a \in {0, Refill} /\ x3 \in Nat
      BY DEF CensusTyped, Reader
    <3> QED  BY <2>1, <2>2, <2>3, <3>2, <3>3 DEF CensusInv, Account, PokeInv, ReaderInv, Positive
  <2> QED  BY <2>1, <2>2, <2>3, CensusOff
<1>5. ASSUME Census!Arm PROVE CensusInv'
  <2>1. x7 = "charged" /\ x7' = "turn" /\ x2' = Refill /\ UNCHANGED <<x1, x3, x8, x9, x11>>
    BY <1>5 DEF Census!Arm
  <2>2. CensusTyped'
    BY <2>1 DEF CensusTyped
  <2>3. CASE MaxEntries > 0
    <3>1. PokeInv /\ Census!Accounting
      BY <2>1, <2>3 DEF CensusInv, Census!Accounting
    <3>2. \A p \in Census!AllPokers : ~Alone(p) /\ ~Alone(p)'
      BY <2>1, <3>1 DEF PokeInv, AsBegun, Alone, Flying
    <3> QED  BY <2>1, <2>2, <2>3, <3>2 DEF CensusInv, CensusTyped, Account, PokeInv, ReaderInv
  <2> QED  BY <2>1, <2>2, <2>3, CensusOff
<1>6. ASSUME Census!Turn \/ Census!Seam \/ Census!Trap \/ Census!Funnel \/ Census!Yield PROVE CensusInv'
  <2>1. /\ x7 \in {"turn", "expired", "clean", "body"} /\ x7' \in {"code", "out", "seam", "turn", "clean"}
        /\ UNCHANGED <<x1, x2, x3, x8, x9, x11>>
    BY <1>6 DEF Census!Turn, Census!Seam, Census!Trap, Census!Funnel, Census!Yield, Census!emu
  <2>2. CensusTyped'
    BY <2>1 DEF CensusTyped
  <2>3. CASE MaxEntries > 0
    <3>1. PokeInv'
      BY <2>1, <2>3 DEF CensusInv, PokeInv, AsBegun, Alone, Flying, Census!Accounting
    <3> QED  BY <2>1, <2>2, <2>3, <3>1 DEF CensusInv, Account, ReaderInv
  <2> QED  BY <2>1, <2>2, <2>3, CensusOff
<1>7. ASSUME Census!Load PROVE CensusInv'
  <2>1. /\ x7 \in {"code", "body"} /\ x7' = "loaded" /\ x8' = [a |-> 0, b |-> x1]
        /\ UNCHANGED <<x1, x2, x3, x9, x11>>
    BY <1>7 DEF Census!Load, Census!emu
  <2>2. CensusTyped'
    BY <2>1 DEF CensusTyped
  <2>3. CASE MaxEntries > 0
    <3>1. PokeInv'
      BY <2>1, <2>3 DEF CensusInv, PokeInv, AsBegun, Alone, Flying, Census!Accounting
    <3> QED  BY <2>1, <2>2, <2>3, <3>1 DEF CensusInv, Account, ReaderInv
  <2> QED  BY <2>1, <2>2, <2>3, CensusOff
<1>8. ASSUME Census!Store PROVE CensusInv'
  <2>1. /\ x7 = "loaded" /\ x1' = x8.b - 1 /\ x7' \in {"body", "expired"}
        /\ x11' = Census!Counted(x11 + 1) /\ UNCHANGED <<x2, x3, x8, x9>>
    BY <1>8 DEF Census!Store, Census!Less
  <2>2. x8.b \in Int /\ x8.b <= Refill /\ x8.a \in {0, Refill}
    BY DEF CensusTyped, Budget
  <2>3. CASE MaxEntries > 0
    <3>1. x11' = x11 + 1 /\ x11' \in Nat /\ MayShow' = MayShow + 1
      BY <2>1, <2>3 DEF Census!Counted, CensusTyped
    <3>2. CensusTyped'
      BY <2>1, <2>2, <3>1 DEF CensusTyped, Budget
    <3>3. PokeInv'
      <4> SUFFICES ASSUME NEW p \in Census!AllPokers, Alone(p)'
                   PROVE  AsBegun(p)'
        BY DEF PokeInv
      <4>1. Alone(p) /\ x9[p] \in Poke /\ x3 \in Nat
        BY <2>1 DEF Alone, Flying, CensusTyped
      <4> QED  BY <2>1, <2>2, <2>3, <3>1, <4>1 DEF CensusInv, PokeInv, AsBegun, Alone, Flying, Census!Accounting, Poke, Budget
    <3>4. x3 \in Nat /\ x2 \in {0, Refill} /\ x10.n \in Nat /\ x10.a \in {0, Refill} /\ x10.out \in Nat
      BY DEF CensusTyped, Reader
    <3> QED  BY <2>1, <2>2, <2>3, <3>1, <3>2, <3>3, <3>4 DEF CensusInv, Account, ReaderInv, Positive
  <2>4. CASE MaxEntries = 0
    <3>1. x11' = x11
      BY <2>1, <2>4 DEF CensusInv, Census!Counted
    <3>2. CensusTyped'
      BY <2>1, <2>2, <3>1 DEF CensusTyped, Budget
    <3> QED  BY <2>1, <2>4, <3>1, <3>2, CensusOff
  <2> QED  BY <2>3, <2>4
<1> QED  BY <1>1, <1>2, <1>3, <1>4, <1>5, <1>6, <1>7, <1>8 DEF Writes, Census!Runner

(* of those who poke it,                                                   *)
LEMMA PokeStep ==
  ASSUME CensusInv, NEW p \in Census!AllPokers, Census!PokeBegin(p) \/ Census!Poking(p) \/ (p = "stop" /\ Census!StopQuit)
  PROVE  CensusInv'
<1>f. CensusTyped /\ Refill \in Nat /\ Refill > 0 /\ MaxEntries \in Nat
  BY SlicesAre DEF CensusInv
<1>g. MayShow \in Nat /\ (UNCHANGED <<x11, x12>> => MayShow' = MayShow) /\ (x11' = x11 /\ x12' = x12 + 1 => MayShow' = MayShow + Refill)
  BY <1>f, MayShowGrows
<1>t. x9 \in [Census!AllPokers -> Poke] /\ x9[p] \in Poke
  BY <1>f DEF CensusTyped
<1> HIDE DEF MayShow
<1>x. x7' = x7 /\ x8' = x8 /\ x10' = x10 /\ x11' = x11
  BY DEF Census!PokeBegin, Census!Poking, Census!PokeArmed, Census!PokeDisarm, Census!PokeSave, Census!PokeZero, Census!StopQuit
<1> USE <1>f, <1>g, <1>x
<1>1. ASSUME Census!PokeBegin(p) PROVE CensusInv'
  <2> DEFINE new == [at |-> "read", a |-> 0, b |-> x1, over |-> MaxEntries > 0 /\ (Census!Accounting \/ Census!InFlight # {})]
  <2>1. x9[p].at = "idle" /\ x9' = [Census!Meet EXCEPT ![p] = new] /\ UNCHANGED <<x1, x2, x3, x12>>
    BY <1>1 DEF Census!PokeBegin, Census!emu
  <2>2. new \in Poke
    BY DEF Poke, CensusTyped
  <2>3. x9'[p] = new /\ \A q \in Census!AllPokers \ {p} : x9'[q] = Census!Meet[q]
    BY <2>1, MeetIs
  <2>4. CensusTyped'
    BY <2>1, <2>2, MeetIs DEF CensusTyped
  <2>5. CASE MaxEntries > 0
    <3>1. \A q \in Census!AllPokers \ {p} : ~Alone(q)' /\ (Flying(q)' <=> Flying(q))
      BY <2>3, <2>5, MeetIs DEF Alone, Flying
    <3>2. ASSUME Alone(p)' PROVE AsBegun(p)'
      <4>1. ~Census!Accounting /\ Census!InFlight = {}
        <5> DEFINE met == MaxEntries > 0 /\ (Census!Accounting \/ Census!InFlight # {})
        <5>1. ~x9'[p].over
          BY <3>2 DEF Alone
        <5> HIDE DEF met
        <5>2. [at |-> "read", a |-> 0, b |-> x1, over |-> met].over = met
          OBVIOUS
        <5>3. ~met
          BY <2>3, <5>1, <5>2 DEF met
        <5> QED  BY <2>5, <5>3 DEF met
      <4>2. \A q \in Census!AllPokers : ~Flying(q)
        BY <4>1 DEF Census!InFlight, Flying
      <4>3. x9'[p].at = "read" /\ x9'[p].b = x1
        BY <2>3
      <4>4. ~Census!Accounting' /\ \A q \in Census!AllPokers \ {p} : ~Flying(q)'
        BY <3>1, <4>1, <4>2 DEF Census!Accounting
      <4>5. x1 > 0 /\ x7 = "loaded" => x8.b = x1
        BY <2>5 DEF CensusInv, Account
      <4>6. x1' = x1 /\ x1 \in Int /\ x1 <= Refill
        BY <2>1 DEF CensusTyped, Budget
      <4> QED  BY <4>3, <4>4, <4>5, <4>6 DEF AsBegun
    <3> QED  BY <2>1, <2>4, <2>5, <3>1, <3>2 DEF CensusInv, Account, PokeInv, ReaderInv
  <2> QED  BY <2>1, <2>4, <2>5, CensusOff
<1>2. ASSUME Census!PokeArmed(p) PROVE CensusInv'
  <2> DEFINE y == [x9[p] EXCEPT !.at = "has"]
             z == [y EXCEPT !.a = x2]
  <2>1. x9[p].at = "read" /\ x9' = [x9 EXCEPT ![p] = z] /\ UNCHANGED <<x1, x2, x3, x12>>
    BY <1>2, <1>t DEF Census!PokeArmed, Census!emu, Poke
  <2>2. y \in Poke /\ y.at = "has" /\ y.b = x9[p].b /\ y.over = x9[p].over
    BY <1>t DEF Poke
  <2> HIDE DEF y
  <2>3. z \in Poke /\ z.at = "has" /\ z.b = x9[p].b /\ z.a = x2 /\ z.over = x9[p].over
    BY <2>2 DEF Poke, CensusTyped
  <2> HIDE DEF z
  <2>4. x9'[p] = z /\ \A q \in Census!AllPokers \ {p} : x9'[q] = x9[q]
    BY <1>t, <2>1
  <2>5. CensusTyped'
    BY <1>t, <2>1, <2>3 DEF CensusTyped
  <2>6. CASE MaxEntries > 0
    <3>1. \A q \in Census!AllPokers : (Flying(q)' <=> Flying(q)) /\ (Alone(q)' <=> Alone(q))
      BY <2>1, <2>3, <2>4 DEF Flying, Alone
    <3>2. ASSUME NEW q \in Census!AllPokers, Alone(q) PROVE AsBegun(q)'
      <4>1. AsBegun(q)
        BY <2>6, <3>2 DEF CensusInv, PokeInv
      <4>2. q = p
        BY <2>1, <4>1 DEF AsBegun, Flying
      <4> QED  BY <2>1, <2>3, <2>4, <3>1, <4>1, <4>2 DEF AsBegun, Census!Accounting
    <3> QED  BY <2>1, <2>5, <2>6, <3>1, <3>2 DEF CensusInv, Account, PokeInv, ReaderInv
  <2> QED  BY <2>1, <2>5, <2>6, CensusOff
<1>3. ASSUME Census!PokeDisarm(p) PROVE CensusInv'
  <2> DEFINE z == [x9[p] EXCEPT !.at = "disarmed"]
  <2>1. x9[p].at = "has" /\ x9' = [x9 EXCEPT ![p] = z] /\ x2' = 0 /\ UNCHANGED <<x1, x3, x12>>
    BY <1>3, <1>t DEF Census!PokeDisarm, Census!At
  <2>3. z \in Poke /\ z.at = "disarmed" /\ z.b = x9[p].b /\ z.a = x9[p].a /\ z.over = x9[p].over
    BY <1>t DEF Poke
  <2> HIDE DEF z
  <2>4. x9'[p] = z /\ \A q \in Census!AllPokers \ {p} : x9'[q] = x9[q]
    BY <1>t, <2>1
  <2>5. CensusTyped'
    BY <1>t, <2>1, <2>3 DEF CensusTyped
  <2>6. CASE MaxEntries > 0
    <3>1. \A q \in Census!AllPokers : (Flying(q)' <=> Flying(q)) /\ (Alone(q)' <=> Alone(q))
      BY <2>1, <2>3, <2>4 DEF Flying, Alone
    <3>2. ASSUME NEW q \in Census!AllPokers, Alone(q) PROVE AsBegun(q)'
      <4>1. AsBegun(q) /\ Account
        BY <2>6, <3>2 DEF CensusInv, PokeInv
      <4>2. q = p
        BY <2>1, <4>1 DEF AsBegun, Flying
      <4>3. x9[p].a = x2 /\ (x9[p].b > 0 => x1 <= x9[p].b) /\ x1 \in Int /\ x9[p].b \in Int /\ x2 \in {0, Refill} /\ x3 \in Nat
        BY <1>t, <2>1, <4>1, <4>2 DEF AsBegun, CensusTyped, Poke, Budget
      <4>4. x9[p].b > 0 /\ x9[p].a >= x9[p].b => x3 + x9[p].a - x9[p].b <= MayShow
        BY <4>1, <4>3 DEF Account, Positive
      <4> QED  BY <2>1, <2>3, <2>4, <3>1, <4>1, <4>2, <4>4 DEF AsBegun, Census!Accounting
    <3> QED  BY <2>1, <2>5, <2>6, <3>1, <3>2 DEF CensusInv, Account, PokeInv, ReaderInv
  <2> QED  BY <2>1, <2>5, <2>6, CensusOff
<1>4. ASSUME Census!PokeSave(p) PROVE CensusInv'
  <2> DEFINE z == [x9[p] EXCEPT !.at = "saved"]
             more == IF x9[p].b > 0 /\ x9[p].a >= x9[p].b THEN x9[p].a - x9[p].b ELSE 0
  <2>1. /\ x9[p].at = "disarmed" /\ x9' = [x9 EXCEPT ![p] = z] /\ UNCHANGED <<x1, x2>>
        /\ x3' = (IF x9[p].b > 0 /\ x9[p].a >= x9[p].b THEN Census!Counted(x3 + x9[p].a - x9[p].b) ELSE x3)
        /\ x12' = (IF x9[p].over THEN x12 + 1 ELSE x12)
    BY <1>4, <1>t DEF Census!PokeSave, Census!At, Census!Ahead
  <2>3. z \in Poke /\ z.at = "saved" /\ z.b = x9[p].b /\ z.a = x9[p].a /\ z.over = x9[p].over /\ x9[p].over \in BOOLEAN
    BY <1>t DEF Poke
  <2> HIDE DEF z
  <2>4. x9'[p] = z /\ \A q \in Census!AllPokers \ {p} : x9'[q] = x9[q]
    BY <1>t, <2>1
  <2>5. x9[p].a \in {0, Refill} /\ x9[p].b \in Int /\ more \in Nat /\ more <= Refill
    BY <1>t DEF Poke, Budget
  <2>6. x3 \in Nat /\ x12 \in Nat
    BY DEF CensusTyped
  <2>7. CASE MaxEntries > 0
    <3>1. x3' = x3 + more /\ x3' \in Nat
      BY <2>1, <2>5, <2>6, <2>7 DEF Census!Counted
    <3>2. \A q \in Census!AllPokers : (Flying(q)' <=> Flying(q)) /\ (Alone(q)' <=> Alone(q))
      BY <2>1, <2>3, <2>4 DEF Flying, Alone
    <3>3. CensusTyped'
      BY <1>t, <2>1, <2>3, <2>6, <3>1 DEF CensusTyped
    <3>4. CASE x9[p].over
      <4>1. MayShow' = MayShow + Refill
        BY <2>1, <3>4
      <4>2. \A q \in Census!AllPokers : ~Alone(q)
        <5> SUFFICES ASSUME NEW q \in Census!AllPokers, Alone(q) PROVE FALSE
          OBVIOUS
        <5>1. AsBegun(q)
          BY <2>7 DEF CensusInv, PokeInv
        <5> QED  BY <2>1, <3>4, <5>1 DEF AsBegun, Flying, Alone
      <4> HIDE DEF more
      <4>3. Account /\ ReaderInv /\ x10.out <= MayShow
        BY <2>7 DEF CensusInv
      <4>4. Account'
        BY <2>1, <2>5, <2>6, <3>1, <4>1, <4>3 DEF Account, CensusTyped, Positive, Budget
      <4>5. ReaderInv'
        BY <2>1, <2>5, <2>6, <3>1, <4>1, <4>3 DEF ReaderInv, CensusTyped, Reader, Budget
      <4> QED  BY <2>7, <3>2, <3>3, <4>1, <4>2, <4>3, <4>4, <4>5 DEF CensusInv, PokeInv, CensusTyped, Reader
    <3>5. CASE ~x9[p].over
      <4>1. MayShow' = MayShow /\ Alone(p)
        BY <2>1, <3>5 DEF Alone, Flying
      <4>2. AsBegun(p) /\ Account /\ ReaderInv /\ x10.out <= MayShow
        BY <2>7, <4>1 DEF CensusInv, PokeInv
      <4>3. x2 = 0 /\ x3' <= MayShow /\ ~Census!Accounting /\ x3 <= x3'
        BY <2>1, <2>5, <2>6, <3>1, <4>2 DEF AsBegun, Account
      <4>4. ASSUME NEW q \in Census!AllPokers, Alone(q) PROVE AsBegun(q)'
        <5>1. q = p
          BY <4>2, <4>4 DEF AsBegun, Alone
        <5> QED  BY <2>1, <2>3, <2>4, <3>2, <4>2, <4>3, <5>1 DEF AsBegun, Census!Accounting
      <4>5. Account'
        BY <2>1, <4>1, <4>2, <4>3 DEF Account, Census!Accounting
      <4>6. ReaderInv'
        BY <2>1, <2>6, <3>1, <4>1, <4>2, <4>3 DEF ReaderInv, CensusTyped, Reader
      <4> QED  BY <2>7, <3>2, <3>3, <4>1, <4>2, <4>4, <4>5, <4>6 DEF CensusInv, PokeInv
    <3> QED  BY <2>3, <3>4, <3>5
  <2>8. CASE MaxEntries = 0
    <3>1. x3' = x3
      BY <2>1, <2>8 DEF CensusInv, Census!Counted
    <3>2. CensusTyped'
      BY <1>t, <2>1, <2>3, <2>6, <3>1 DEF CensusTyped
    <3>3. MayShow' \in Nat
      BY <2>1, <2>3
    <3> QED  BY <2>8, <3>1, <3>2, <3>3, CensusOff
  <2> QED  BY <2>7, <2>8
<1>5. ASSUME Census!PokeZero(p) PROVE CensusInv'
  <2> DEFINE z == IF p = "stop" THEN [x9[p] EXCEPT !.at = "zeroed"] ELSE Census!Idle
  <2>1. /\ x9[p].at = "saved" /\ x9' = [x9 EXCEPT ![p] = z] /\ x1' = 0 /\ UNCHANGED <<x2, x3>>
        /\ x12' = (IF x9[p].over THEN x12 + 1 ELSE x12)
    BY <1>5, <1>t DEF Census!PokeZero, Census!Finish, Census!Ahead
  <2>3. z \in Poke /\ z.at \in {"zeroed", "idle"} /\ x9[p].over \in BOOLEAN
    BY <1>t DEF Poke, Census!Idle, Budget
  <2> HIDE DEF z
  <2>4. x9'[p] = z /\ \A q \in Census!AllPokers \ {p} : x9'[q] = x9[q]
    BY <1>t, <2>1
  <2>5. x3 \in Nat /\ x12 \in Nat /\ x2 \in {0, Refill} /\ x8.a \in {0, Refill} /\ x8.b \in Int /\ x10.n \in Nat /\ x10.a \in {0, Refill} /\ x10.out \in Nat
    BY DEF CensusTyped, Reader, Budget
  <2>6. CensusTyped'
    BY <1>t, <2>1, <2>3, <2>5 DEF CensusTyped, Budget
  <2>7. CASE MaxEntries > 0
    <3>1. ~Flying(p)' /\ Flying(p) /\ \A q \in Census!AllPokers \ {p} : (Flying(q)' <=> Flying(q)) /\ (Alone(q)' <=> Alone(q))
      BY <2>1, <2>3, <2>4 DEF Flying, Alone
    <3>2. \A q \in Census!AllPokers : ~Alone(q)'
      <4> SUFFICES ASSUME NEW q \in Census!AllPokers \ {p}, Alone(q) PROVE FALSE
        BY <3>1 DEF Alone
      <4>1. AsBegun(q)
        BY <2>7 DEF CensusInv, PokeInv
      <4> QED  BY <3>1, <4>1 DEF AsBegun
    <3>3. Account /\ ReaderInv /\ x10.out <= MayShow
      BY <2>7 DEF CensusInv
    <3>4. CASE x9[p].over
      <4>1. MayShow' = MayShow + Refill
        BY <2>1, <3>4
      <4>2. Account'
        BY <2>1, <2>5, <3>3, <4>1 DEF Account, Positive
      <4>3. ReaderInv'
        BY <2>1, <2>5, <3>3, <4>1 DEF ReaderInv
      <4> QED  BY <2>5, <2>6, <2>7, <3>2, <3>3, <4>1, <4>2, <4>3 DEF CensusInv, PokeInv
    <3>5. CASE ~x9[p].over
      <4>1. MayShow' = MayShow /\ AsBegun(p)
        BY <2>1, <2>7, <3>1, <3>5 DEF CensusInv, PokeInv, Alone
      <4>2. x2 = 0 /\ ~Census!Accounting
        BY <2>1, <4>1 DEF AsBegun
      <4>3. Account'
        BY <2>1, <2>5, <3>3, <4>1, <4>2 DEF Account, Positive, Census!Accounting
      <4>4. ReaderInv'
        BY <2>1, <2>5, <3>3, <4>1 DEF ReaderInv
      <4> QED  BY <2>6, <2>7, <3>2, <3>3, <4>1, <4>3, <4>4 DEF CensusInv, PokeInv
    <3> QED  BY <2>3, <3>4, <3>5
  <2>8. MayShow' \in Nat
    BY <2>1, <2>3
  <2> QED  BY <2>1, <2>6, <2>7, <2>8, CensusOff
<1>6. ASSUME p = "stop", Census!StopQuit PROVE CensusInv'
  <2> DEFINE z == [x9[p] EXCEPT !.at = "done"]
  <2>1. x9[p].at = "zeroed" /\ x9' = [x9 EXCEPT ![p] = z] /\ UNCHANGED <<x1, x2, x3, x12>>
    BY <1>6, <1>t DEF Census!StopQuit, Census!At
  <2>3. z \in Poke /\ z.at = "done" /\ z.b = x9[p].b /\ z.a = x9[p].a /\ z.over = x9[p].over
    BY <1>t DEF Poke
  <2> HIDE DEF z
  <2>4. x9'[p] = z /\ \A q \in Census!AllPokers \ {p} : x9'[q] = x9[q]
    BY <1>t, <2>1
  <2>5. CensusTyped'
    BY <1>t, <2>1, <2>3 DEF CensusTyped
  <2>6. CASE MaxEntries > 0
    <3>1. \A q \in Census!AllPokers : (Flying(q)' <=> Flying(q)) /\ (Alone(q)' <=> Alone(q))
      BY <2>1, <2>3, <2>4 DEF Flying, Alone
    <3>2. ASSUME NEW q \in Census!AllPokers, Alone(q) PROVE AsBegun(q)'
      <4>1. AsBegun(q)
        BY <2>6, <3>2 DEF CensusInv, PokeInv
      <4>2. q # p
        BY <2>1, <3>2 DEF Flying, Alone
      <4> QED  BY <2>1, <2>4, <3>1, <4>1, <4>2 DEF AsBegun, Census!Accounting
    <3> QED  BY <2>1, <2>5, <2>6, <3>1, <3>2 DEF CensusInv, Account, PokeInv, ReaderInv
  <2> QED  BY <2>1, <2>5, <2>6, CensusOff
<1> QED  BY <1>1, <1>2, <1>3, <1>4, <1>5, <1>6 DEF Census!Poking

(* and of the reader.                                                      *)
LEMMA ReaderStep ==
  ASSUME CensusInv, Census!ReadTotal \/ Census!ReadArmed \/ Census!ReadBudget
  PROVE  CensusInv'
<1>f. CensusTyped /\ Refill \in Nat /\ Refill > 0 /\ MaxEntries \in Nat
  BY SlicesAre DEF CensusInv
<1>g. MayShow \in Nat /\ (UNCHANGED <<x11, x12>> => MayShow' = MayShow)
  BY <1>f, MayShowGrows
<1> HIDE DEF MayShow
<1>x. UNCHANGED <<x1, x2, x3, x7, x8, x9, x11, x12>>
  BY DEF Census!ReadTotal, Census!ReadArmed, Census!ReadBudget, Census!emu
<1> USE <1>f, <1>g
<1>q. MaxEntries > 0 => Account' /\ PokeInv'
  BY <1>x DEF CensusInv, Account, PokeInv, AsBegun, Alone, Flying, Census!Accounting
<1>1. MaxEntries > 0 /\ x10 \in Reader
  BY DEF CensusInv, CensusTyped, Census!Quiet, Census!ReadTotal, Census!ReadArmed, Census!ReadBudget
<1>2. Account /\ ReaderInv /\ x10.out <= MayShow
  BY <1>1 DEF CensusInv
<1>t. x3 \in Nat /\ x2 \in {0, Refill} /\ x1 \in Int /\ x8.b \in Int
  BY DEF CensusTyped, Budget
<1>3. x10' \in Reader /\ ReaderInv' /\ x10'.out <= MayShow
  <2>1. CASE Census!ReadTotal
    <3> DEFINE y == [x10 EXCEPT !.at = "n"]
    <3>1. y \in Reader /\ y.at = "n" /\ y.out = x10.out
      BY <1>1 DEF Reader
    <3>2. x10' = [y EXCEPT !.n = x3]
      BY <2>1 DEF Census!ReadTotal
    <3> HIDE DEF y
    <3>3. x10' \in Reader /\ x10'.at = "n" /\ x10'.n = x3 /\ x10'.out = x10.out
      BY <1>t, <3>1, <3>2 DEF Reader
    <3> QED  BY <1>x, <1>t, <1>2, <3>3 DEF ReaderInv
  <2>2. CASE Census!ReadArmed
    <3> DEFINE y == [x10 EXCEPT !.at = "a"]
    <3>1. y \in Reader /\ y.at = "a" /\ y.out = x10.out /\ y.n = x10.n /\ x10.at = "n" /\ x10.n \in Nat
      BY <1>1, <2>2 DEF Reader, Census!ReadArmed
    <3>2. x10' = [y EXCEPT !.a = x2]
      BY <2>2 DEF Census!ReadArmed
    <3> HIDE DEF y
    <3>3. x10' \in Reader /\ x10'.at = "a" /\ x10'.n = x10.n /\ x10'.a = x2 /\ x10'.out = x10.out
      BY <1>t, <3>1, <3>2 DEF Reader
    <3>4. x10.n <= x3
      BY <1>2, <3>1 DEF ReaderInv
    <3>5. ReaderInv'
      BY <1>x, <1>t, <1>2, <3>1, <3>3, <3>4 DEF ReaderInv, Account, Positive
    <3> QED  BY <1>2, <3>3, <3>5
  <2>3. CASE Census!ReadBudget
    <3> DEFINE total == IF x1 > 0 /\ x10.a >= x1 THEN x10.n + x10.a - x1 ELSE x10.n
    <3>1. x10.at = "a" /\ x10' = [Census!Quiet EXCEPT !.out = total]
      BY <2>3 DEF Census!ReadBudget
    <3>2. x10.n \in Nat /\ x10.a \in {0, Refill} /\ x10.n <= x3
      BY <1>1, <1>2, <3>1 DEF Reader, ReaderInv
    <3>3. total \in Nat /\ total <= MayShow
      BY <1>t, <1>2, <3>1, <3>2 DEF ReaderInv, Account
    <3> HIDE DEF total
    <3>4. x10' \in Reader /\ x10'.at = "idle" /\ x10'.out = total
      BY <3>1, <3>3 DEF Reader, Census!Quiet
    <3> QED  BY <3>3, <3>4 DEF ReaderInv
  <2> QED  BY <2>1, <2>2, <2>3
<1>4. CensusTyped' /\ MayShow' = MayShow
  BY <1>x, <1>3 DEF CensusTyped
<1> QED  BY <1>1, <1>3, <1>4, <1>q DEF CensusInv

LEMMA CensusStep == CensusInv /\ [Census!Next]_(Census!vars) => CensusInv'
<1> SUFFICES ASSUME CensusInv, [Census!Next]_(Census!vars) PROVE CensusInv'
  OBVIOUS
<1>1. CASE UNCHANGED Census!vars
  <2>1. UNCHANGED <<x1, x2, x3, x7, x8, x9, x10, x11, x12>>
    BY <1>1 DEF Census!vars
  <2>2. MayShow' = MayShow
    BY <2>1 DEF MayShow
  <2> HIDE DEF MayShow
  <2> QED  BY <2>1, <2>2 DEF CensusInv, CensusTyped, Account, PokeInv, AsBegun, Alone, Flying, Census!Accounting, ReaderInv
<1>2. CASE Writes
  BY <1>2, RunnerStep
<1>3. CASE \E p \in Census!AllPokers : Census!PokeBegin(p) \/ Census!Poking(p)
  BY <1>3, PokeStep
<1>4. CASE Census!StopQuit
  <2>1. "stop" \in Census!AllPokers
    BY <1>4 DEF Census!StopQuit, Census!AllPokers
  <2> QED  BY <1>4, <2>1, PokeStep
<1>5. CASE Census!ReadTotal \/ Census!ReadArmed \/ Census!ReadBudget
  BY <1>5, ReaderStep
<1> QED  BY <1>1, <1>2, <1>3, <1>4, <1>5 DEF Census!Next, Writes

LEMMA CensusSays == CensusInv => Census!CensusHonest
BY DEF CensusInv, MayShow, Census!CensusHonest

-----------------------------------------------------------------------------
(* The block behind the guest's memory                                     *)

(* Rounding up costs less than a granule.                                  *)
LEMMA RoundedUp ==
  ASSUME NEW a \in Nat
  PROVE  Arena!RoundUp(a) \in Nat /\ a <= Arena!RoundUp(a) /\ Arena!RoundUp(a) < a + ArenaGranule
<1> DEFINE n == a + ArenaGranule - 1
           q == n \div ArenaGranule
<1>1. ArenaGranule \in Nat /\ ArenaGranule > 0
  BY MemoryAssumption DEF Arena!ArenaAssumption
<1>2. n \in Nat
  BY <1>1
<1> HIDE DEF n
<1>3. q \in Nat /\ q * ArenaGranule \in Nat /\ q * ArenaGranule <= n /\ n < q * ArenaGranule + ArenaGranule
  BY <1>1, <1>2, SMTT(60)
<1>4. Arena!RoundUp(a) = q * ArenaGranule
  BY DEF Arena!RoundUp, n
<1> HIDE DEF q
<1> DEFINE p == q * ArenaGranule
<1> HIDE DEF p
<1>5. p \in Nat /\ p <= n /\ n < p + ArenaGranule /\ Arena!RoundUp(a) = p
  BY <1>3, <1>4 DEF p
<1> QED  BY <1>1, <1>5 DEF n

ArenaInv ==
  /\ x1 \in {"probe", "try", "last", "run", "exit"}
  /\ x2 \in Arenas /\ x3 \in Nat /\ x4 \in Nat /\ x5 \in Nat /\ x6 \in Nat
  /\ x7 \in [va : Nat, n : Nat, ok : BOOLEAN]
  /\ x1 \in {"probe", "try", "last"} => x6 = x2
  /\ x1 # "run" => ~x7.ok
  /\ Arena!ArenaSound

(* What is promised of a size is the size less a granule.                  *)
LEMMA NeedGiven == x2 \in Arenas => x2 \in Nat /\ Arena!Need \in Nat /\ Arena!Need = x2 - ArenaGranule /\ Arena!Need > 0 /\ ArenaGranule \in Nat
BY MemoryAssumption DEF Arena!Need, Arena!ArenaAssumption

LEMMA ArenaStart == Arena!Init => ArenaInv
BY MemoryAssumption DEF Arena!Init, ArenaInv, Arena!ArenaSound, Arena!NoAccess, Arena!ArenaAssumption

(* A block that was taken has room for what is promised once its start is  *)
(* rounded, and what is let through ends in it.                            *)
LEMMA Taken ==
  ASSUME x2 \in Arenas, x5' \in Bases, x6' \in Nat, x2' = x2, ~x7.ok, x7' = x7,
         x5' + x6' - Arena!RoundUp(x5') >= Arena!Need
  PROVE  Arena!ArenaSound'
<1>1. x5' \in Nat /\ Arena!RoundUp(x5') \in Nat
  BY RoundedUp, MemoryAssumption DEF Arena!ArenaAssumption
<1>2. Arena!Membase' = Arena!RoundUp(x5') /\ Arena!Need' = Arena!Need
  BY DEF Arena!Membase, Arena!RoundUp, Arena!Need
<1> DEFINE m == Arena!RoundUp(x5')
<1> HIDE DEF m
<1>3. Arena!Span' = IF x5' + x6' > m THEN x5' + x6' - m ELSE 0
  BY <1>2 DEF Arena!Span, m
<1> QED  BY <1>1, <1>2, <1>3, NeedGiven DEF m, Arena!ArenaSound

LEMMA ArenaStep == ArenaInv /\ [Arena!Next]_(Arena!vars) => ArenaInv'
<1> SUFFICES ASSUME ArenaInv, [Arena!Next]_(Arena!vars) PROVE ArenaInv'
  OBVIOUS
<1>a. ArenaGranule \in Nat /\ Bases \subseteq Nat
  BY MemoryAssumption DEF Arena!ArenaAssumption
<1>n. x2 \in Nat /\ Arena!Need \in Nat /\ Arena!Need = x2 - ArenaGranule /\ Arena!Need > 0
  BY NeedGiven DEF ArenaInv
<1>1. ASSUME Arena!Probe PROVE ArenaInv'
  <2>1. x3' \in Nat
    <3>1. CASE \E pb \in Bases : x3' = Arena!RoundUp(pb) - pb
      <4>1. PICK pb \in Bases : x3' = Arena!RoundUp(pb) - pb
        BY <3>1
      <4>2. pb \in Nat /\ Arena!RoundUp(pb) \in Nat /\ Arena!RoundUp(pb) >= pb
        BY <1>a, RoundedUp
      <4> DEFINE r == Arena!RoundUp(pb)
      <4> HIDE DEF r
      <4> QED  BY <4>1, <4>2 DEF r
    <3> QED  BY <1>1, <3>1 DEF ArenaInv, Arena!Probe
  <2> QED  BY <1>1, <2>1 DEF ArenaInv, Arena!Probe, Arena!ArenaSound
<1>2. ASSUME Arena!Attempt PROVE ArenaInv'
  <2>1. x1 = "try" /\ x4' = x4 + 1 /\ x2' = x2 /\ x7' = x7 /\ ~x7.ok
    BY <1>2 DEF Arena!Attempt, ArenaInv
  <2>2. CASE \E tb \in Bases : /\ tb + (Arena!Need + x3) - Arena!RoundUp(tb) >= Arena!Need
                               /\ x1' = "run" /\ x5' = tb /\ x6' = Arena!Need + x3 /\ x3' = x3
    <3>1. x5' \in Nat /\ x6' \in Nat /\ x6' = Arena!Need + x3 /\ x5' \in Bases /\ x3' = x3 /\ x1' = "run"
      BY <2>2, <1>a, <1>n DEF ArenaInv
    <3>2. x5' + x6' - Arena!RoundUp(x5') >= Arena!Need
      BY <2>2
    <3>3. Arena!ArenaSound'
      BY <2>1, <3>1, <3>2, Taken DEF ArenaInv
    <3> QED  BY <2>1, <3>1, <3>3 DEF ArenaInv
  <2>3. CASE x1' \in {"try", "last"} /\ x3' = ArenaGranule /\ UNCHANGED <<x5, x6>>
    BY <1>a, <2>1, <2>3 DEF ArenaInv, Arena!ArenaSound
  <2> QED  BY <1>2, <2>2, <2>3 DEF Arena!Attempt, Arena!Accepted, Arena!Fits
<1>3. ASSUME Arena!LastResort PROVE ArenaInv'
  <2>1. x1 = "last" /\ x6 = x2 /\ UNCHANGED <<x2, x3, x4, x6, x7>> /\ ~x7.ok
    BY <1>3 DEF Arena!LastResort, ArenaInv
  <2>2. CASE x1' = "run" /\ x5' \in Bases
    <3>1. x5' \in Nat /\ Arena!RoundUp(x5') \in Nat /\ Arena!RoundUp(x5') < x5' + ArenaGranule
      BY <1>a, <2>2, RoundedUp
    <3> DEFINE m == Arena!RoundUp(x5')
    <3> HIDE DEF m
    <3>2. x5' + x6' - m >= Arena!Need
      BY <1>a, <1>n, <2>1, <3>1 DEF m
    <3>3. Arena!ArenaSound'
      BY <2>1, <2>2, <3>1, <3>2, Taken DEF ArenaInv, m
    <3> QED  BY <2>1, <2>2, <3>1, <3>3 DEF ArenaInv
  <2>3. CASE x1' = "exit" /\ x5' = x5
    BY <2>1, <2>3 DEF ArenaInv, Arena!ArenaSound
  <2> QED  BY <1>3, <2>2, <2>3 DEF Arena!LastResort
<1>4. ASSUME NEW a \in 0 .. Reach, NEW n \in 1 .. 2, Arena!Access(a, n) PROVE ArenaInv'
  <2>1. a \in Nat /\ n \in Nat
    BY MemoryAssumption DEF Arena!ArenaAssumption
  <2>2. x1 = "run" /\ UNCHANGED <<x1, x2, x3, x4, x5, x6>> /\ x7' = [va |-> a, n |-> n, ok |-> Arena!Inside(a, n)]
    BY <1>4 DEF Arena!Access
  <2>3. Arena!Membase' = Arena!Membase /\ Arena!Need' = Arena!Need /\ Arena!Span' = Arena!Span
    BY <2>2 DEF Arena!Membase, Arena!Need, Arena!Span, Arena!RoundUp
  <2>4. Arena!Membase \in Nat /\ Arena!Span >= Arena!Need
    BY <2>2, RoundedUp DEF ArenaInv, Arena!ArenaSound, Arena!Membase
  <2>5. Arena!Span = x5 + x6 - Arena!Membase
    <3> DEFINE m == Arena!Membase
    <3> HIDE DEF m
    <3>1. Arena!Span = IF x5 + x6 > m THEN x5 + x6 - m ELSE 0
      BY DEF Arena!Span, m
    <3>2. m \in Nat /\ Arena!Span > 0
      <4> DEFINE s == Arena!Span
      <4> HIDE DEF s
      <4>1. s \in Int
        BY <2>4, <3>1 DEF s, m, ArenaInv
      <4> QED  BY <1>n, <2>4, <4>1 DEF s, m
    <3> QED  BY <3>1, <3>2 DEF m
  <2> DEFINE s == Arena!Span
             m == Arena!Membase
  <2>6. x7' \in [va : Nat, n : Nat, ok : BOOLEAN] /\ (x7'.ok = (s = 0 \/ a + n <= s)) /\ x7'.va = a /\ x7'.n = n
    BY <2>1, <2>2 DEF Arena!Inside
  <2> HIDE DEF s, m
  <2>7. x7'.ok => m + a + n <= x5 + x6
    <3>1. s = x5 + x6 - m /\ s >= Arena!Need /\ m \in Nat
      BY <2>4, <2>5 DEF s, m
    <3> QED  BY <1>n, <2>1, <2>6, <3>1 DEF ArenaInv
  <2>8. Arena!ArenaSound'
    BY <2>2, <2>3, <2>4, <2>6, <2>7 DEF Arena!ArenaSound, m
  <2> QED  BY <2>2, <2>6, <2>8 DEF ArenaInv
<1>5. ASSUME UNCHANGED Arena!vars PROVE ArenaInv'
  BY <1>5 DEF Arena!vars, ArenaInv, Arena!ArenaSound, Arena!Span, Arena!Membase, Arena!Need, Arena!RoundUp
<1> QED  BY <1>1, <1>2, <1>3, <1>4, <1>5 DEF Arena!Next

-----------------------------------------------------------------------------
(* Video memory                                                            *)

(* What is asked of the kernel is a multiple of its granule.               *)
LEMMA Aligned ==
  ASSUME NEW n \in Nat, NEW kind \in Gpu!Kinds
  PROVE  /\ Gpu!AlignUp(n, Gpu!Granule(kind)) \in Nat
         /\ Gpu!AlignUp(n, Gpu!Granule(kind)) % Gpu!Granule(kind) = 0
<1> DEFINE g == Gpu!Granule(kind)
           m == n + g - 1
           q == m \div g
<1>1. g \in Nat /\ g > 0
  BY MemoryAssumption DEF Gpu!GpuAssumption, Gpu!Granule
<1> HIDE DEF g
<1>2. m \in Nat
  BY <1>1
<1> HIDE DEF m
<1>3. q \in Nat
  BY <1>1, <1>2, SMTT(30)
<1> HIDE DEF q
<1>4. q * g \in Nat /\ (q * g) % g = 0
  <2>1. q * g \in Nat
    BY <1>1, <1>3
  <2> QED  BY <1>1, <1>3, <2>1, Multiple
<1> QED  BY <1>4 DEF Gpu!AlignUp, g, m, q

Card == [uid : {Gpu!None} \cup Gpu!Uids, p : BOOLEAN, size : Nat]
KernelBlock == [size : Nat, kind : Gpu!Kinds, mapped : BOOLEAN]
Calls == [at : {"alloc", "base", "map"}, b : Records, asked : Nat, kind : Gpu!Kinds, retry : BOOLEAN]
Rests(b) == x2 = Gpu!Idle \/ x2.b # b
(* The record of the call under way is the only one that can hold a block  *)
(* that is not mapped, or a block without its address.                     *)
GpuInv ==
  /\ x1 \in [Records -> Card] /\ x2 \in Calls \cup {Gpu!Idle} /\ x4 \in BOOLEAN
  /\ DOMAIN x3 \subseteq Gpu!Uids /\ x3 \in [DOMAIN x3 -> KernelBlock]
  /\ \A b \in Records : x1[b].uid # Gpu!None => x1[b].uid \in DOMAIN x3 /\ x3[x1[b].uid].size = x1[b].size
  /\ \A a, b \in Records : a # b /\ x1[a].uid # Gpu!None => x1[a].uid # x1[b].uid
  /\ \A u \in DOMAIN x3 : /\ \E b \in Records : x1[b].uid = u
                          /\ x3[u].size % Gpu!Granule(x3[u].kind) = 0
  /\ \A b \in Records : Rests(b) => /\ (x1[b].uid = Gpu!None) = ~x1[b].p
                                    /\ x1[b].uid # Gpu!None => x3[x1[b].uid].mapped
  /\ x2 # Gpu!Idle =>
       /\ x2.at = "alloc" => x1[x2.b].uid = Gpu!None /\ ~x1[x2.b].p
       /\ x2.at = "base" => x1[x2.b].uid # Gpu!None /\ ~x1[x2.b].p
       /\ x2.at = "map" => x1[x2.b].uid # Gpu!None /\ x1[x2.b].p

LEMMA GpuSays == GpuInv => Gpu!NothingLeaks
<1> SUFFICES ASSUME GpuInv PROVE Gpu!NothingLeaks
  OBVIOUS
<1>1. \A u \in DOMAIN x3 : /\ \E b \in Records : x1[b].uid = u /\ x1[b].size = x3[u].size
                           /\ x3[u].size % Gpu!Granule(x3[u].kind) = 0
  <2> SUFFICES ASSUME NEW u \in DOMAIN x3 
               PROVE (\E b \in Records : x1[b].uid = u /\ x1[b].size = x3[u].size) /\ x3[u].size % Gpu!Granule(x3[u].kind) = 0
    OBVIOUS
  <2>1. PICK b \in Records : x1[b].uid = u
    BY DEF GpuInv
  <2>2. u # Gpu!None
    BY DEF GpuInv, Gpu!Uids, Gpu!None
  <2> QED  BY <2>1, <2>2 DEF GpuInv
<1>2. x2 = Gpu!Idle => /\ \A u \in DOMAIN x3 : x3[u].mapped
                       /\ \A b \in Records : (x1[b].uid = Gpu!None) = ~x1[b].p
  <2> SUFFICES ASSUME x2 = Gpu!Idle
               PROVE  /\ \A u \in DOMAIN x3 : x3[u].mapped
                      /\ \A b \in Records : (x1[b].uid = Gpu!None) = ~x1[b].p
    OBVIOUS
  <2>1. ASSUME NEW u \in DOMAIN x3 PROVE x3[u].mapped
    <3>1. PICK b \in Records : x1[b].uid = u
      BY DEF GpuInv
    <3>2. u # Gpu!None
      BY DEF GpuInv, Gpu!Uids, Gpu!None
    <3> QED  BY <3>1, <3>2 DEF GpuInv, Rests
  <2>2. \A b \in Records : (x1[b].uid = Gpu!None) = ~x1[b].p
    BY DEF GpuInv, Rests
  <2> QED  BY <2>1, <2>2
<1> QED  BY <1>1, <1>2 DEF GpuInv, Gpu!NothingLeaks

LEMMA GpuStart == Gpu!Init => GpuInv
<1> SUFFICES ASSUME Gpu!Init PROVE GpuInv
  OBVIOUS
<1>1. Gpu!Blank \in Card /\ Gpu!Blank.uid = Gpu!None /\ ~Gpu!Blank.p
  BY DEF Gpu!Blank, Card
<1>2. DOMAIN x3 = {}
  BY DEF Gpu!Init
<1> QED  BY <1>1, <1>2 DEF Gpu!Init, GpuInv, Rests

(* A record is given up: its block goes, and its address with it.          *)
LEMMA GivenUp ==
  ASSUME GpuInv, NEW b \in Records, NEW r \in Card, x1[b].uid # Gpu!None,
         r.uid = Gpu!None, ~r.p,
         x1' = [x1 EXCEPT ![b] = r], x3' = Gpu!Without(x1[b].uid),
         x2 = Gpu!Idle \/ x2.b = b,
         x2' = Gpu!Idle \/ (x2' \in Calls /\ x2'.b = b /\ x2'.at = "alloc"), x4' = x4
  PROVE  GpuInv'
<1> DEFINE u == x1[b].uid
<1>1. x1' \in [Records -> Card] /\ (\A c \in Records : x1'[c] = IF c = b THEN r ELSE x1[c])
  BY DEF GpuInv
<1>2. DOMAIN x3' = DOMAIN x3 \ {u} /\ \A v \in DOMAIN x3' : x3'[v] = x3[v]
  BY DEF Gpu!Without
<1>3. x3' \in [DOMAIN x3' -> KernelBlock]
  BY <1>2 DEF GpuInv, Gpu!Without
<1>4. \A c \in Records : c # b /\ x1[c].uid # Gpu!None => x1[c].uid # u /\ x1[c].uid \in DOMAIN x3'
  BY <1>2 DEF GpuInv
<1>5. \A v \in DOMAIN x3' : \E c \in Records : c # b /\ x1[c].uid = v
  <2> TAKE v \in DOMAIN x3'
  <2>1. PICK c \in Records : x1[c].uid = v
    BY <1>2 DEF GpuInv
  <2> QED  BY <1>2, <2>1
<1> HIDE DEF u
<1>6. \A c \in Records : x1'[c].uid # Gpu!None => x1'[c].uid \in DOMAIN x3' /\ x3'[x1'[c].uid].size = x1'[c].size
  BY <1>1, <1>2, <1>4 DEF GpuInv
<1>7. \A v \in DOMAIN x3' : (\E c \in Records : x1'[c].uid = v) /\ x3'[v].size % Gpu!Granule(x3'[v].kind) = 0
  BY <1>1, <1>2, <1>5 DEF GpuInv
<1>8. \A c \in Records : Rests(c)' => /\ (x1'[c].uid = Gpu!None) = ~x1'[c].p
                                      /\ x1'[c].uid # Gpu!None => x3'[x1'[c].uid].mapped
  <2> TAKE c \in Records
  <2>1. CASE c = b
    BY <1>1, <2>1
  <2>2. CASE c # b
    <3>1. Rests(c) /\ x1'[c] = x1[c]
      BY <1>1, <2>2 DEF Rests
    <3> QED  BY <1>2, <1>4, <2>2, <3>1 DEF GpuInv
  <2> QED  BY <2>1, <2>2
<1>9. \A a, c \in Records : a # c /\ x1'[a].uid # Gpu!None => x1'[a].uid # x1'[c].uid
  BY <1>1 DEF GpuInv
<1> QED  BY <1>1, <1>2, <1>3, <1>6, <1>7, <1>8, <1>9 DEF GpuInv

(* A step that leaves the kernel's blocks, and of the records changes at   *)
(* most what no other record is held to.                                   *)
LEMMA GpuStep == GpuInv /\ [Gpu!Next]_(Gpu!vars) => GpuInv'
<1> SUFFICES ASSUME GpuInv, [Gpu!Next]_(Gpu!vars) PROVE GpuInv'
  OBVIOUS
<1>0. x2 # Gpu!Idle => x2 \in Calls /\ x2.b \in Records
  BY DEF GpuInv, Calls
<1>i. ~(Gpu!Idle \in Calls) /\ Gpu!Idle.at = "idle"
  BY DEF Gpu!Idle, Calls
<1>1. ASSUME NEW b \in Records, Gpu!FreeBlock(b) PROVE GpuInv'
  <2>1. x2 = Gpu!Idle /\ UNCHANGED <<x2, x4>>
    BY <1>1 DEF Gpu!FreeBlock
  <2>2. CASE x1[b].uid = Gpu!None
    BY <1>1, <2>1, <2>2 DEF Gpu!FreeBlock, GpuInv, Rests
  <2>3. CASE x1[b].uid # Gpu!None
    <3>1. Gpu!Blank \in Card /\ Gpu!Blank.uid = Gpu!None /\ ~Gpu!Blank.p
      BY DEF Gpu!Blank, Card
    <3>2. x3' = Gpu!Without(x1[b].uid) /\ x1' = [x1 EXCEPT ![b] = Gpu!Blank] /\ x4' = x4
      BY <1>1, <2>1, <2>3 DEF Gpu!FreeBlock
    <3> DEFINE r == Gpu!Blank
    <3>3. r \in Card /\ r.uid = Gpu!None /\ ~r.p /\ x1' = [x1 EXCEPT ![b] = r]
      BY <3>1, <3>2
    <3> HIDE DEF r
    <3>4. (x2 = Gpu!Idle \/ x2.b = b) /\ (x2' = Gpu!Idle \/ (x2' \in Calls /\ x2'.b = b /\ x2'.at = "alloc"))
      BY <2>1
    <3> QED  BY <2>3, <3>2, <3>3, <3>4, GivenUp
  <2> QED  BY <2>2, <2>3
<1>2. ASSUME NEW b \in Records, NEW size \in BlockSizes, Gpu!Alloc(b, size) PROVE GpuInv'
  <2>1. \E kind \in Gpu!Kinds, retry \in BOOLEAN : Gpu!Start(b, size, kind, retry)
    <3>1. x4 \in BOOLEAN
      BY DEF GpuInv
    <3>2. CASE Gpu!Start(b, size, "cdram", FALSE) \/ Gpu!Start(b, size, "user", FALSE) \/ Gpu!Start(b, size, "usse", FALSE)
      BY <3>2 DEF Gpu!Kinds
    <3>3. CASE x4 = TRUE /\ Gpu!Start(b, size, IF x4 THEN "cdram" ELSE "user", x4)
      BY <3>3 DEF Gpu!Kinds
    <3>4. CASE x4 = FALSE /\ Gpu!Start(b, size, IF x4 THEN "cdram" ELSE "user", x4)
      BY <3>4 DEF Gpu!Kinds
    <3> QED  BY <1>2, <3>1, <3>2, <3>3, <3>4 DEF Gpu!Alloc
  <2>2. PICK kind \in Gpu!Kinds, retry \in BOOLEAN : Gpu!Start(b, size, kind, retry)
    BY <2>1
  <2>3. size \in Nat
    BY MemoryAssumption DEF Gpu!GpuAssumption
  <2>4. x2 = Gpu!Idle /\ x1[b].uid = Gpu!None /\ UNCHANGED <<x1, x3, x4>> /\ x2' = [at |-> "alloc", b |-> b, asked |-> size, kind |-> kind, retry |-> retry]
    BY <2>2 DEF Gpu!Start
  <2>5. x2' \in Calls /\ x2'.at = "alloc" /\ x2'.b = b
    BY <2>3, <2>4 DEF Calls
  <2>6. \A c \in Records : Rests(c)
    BY <2>4 DEF Rests
  <2> QED  BY <2>4, <2>5, <2>6 DEF GpuInv
<1>3. ASSUME NEW on \in BOOLEAN, Gpu!Prefer(on) PROVE GpuInv'
  BY <1>3 DEF Gpu!Prefer, GpuInv, Rests
(* The next step of a call, if it is not over.                             *)
<1> DEFINE NextOf == x2' = Gpu!Idle \/ (x2' \in Calls /\ x2'.b = x2.b /\ x2'.at = "alloc")
<1>4. x2 # Gpu!Idle /\ x2' = Gpu!Refused => NextOf
  <2> SUFFICES ASSUME x2 # Gpu!Idle, x2' = Gpu!Refused PROVE NextOf
    OBVIOUS
  <2>1. CASE x2.retry
    <3> DEFINE y == [x2 EXCEPT !.at = "alloc"]
               z == [y EXCEPT !.kind = "user"]
    <3>1. y \in Calls /\ y.b = x2.b /\ y.at = "alloc"
      BY <1>0 DEF Calls
    <3>2. z \in Calls /\ z.b = x2.b /\ z.at = "alloc"
      <4> HIDE DEF y
      <4> QED  BY <3>1 DEF Calls, Gpu!Kinds
    <3>3. x2' = [z EXCEPT !.retry = FALSE]
      BY <2>1 DEF Gpu!Refused
    <3> HIDE DEF z
    <3> QED  BY <3>2, <3>3 DEF Calls
  <2>2. CASE ~x2.retry
    <3>1. x2' = Gpu!Idle
      BY <2>2 DEF Gpu!Refused
    <3> QED  BY <3>1
  <2> QED  BY <2>1, <2>2
<1> HIDE DEF NextOf
<1>5. ASSUME x2 # Gpu!Idle, Gpu!Failed(x2.b), x1[x2.b].uid # Gpu!None, x4' = x4 PROVE GpuInv'
  <2> DEFINE b == x2.b
             y == [x1[b] EXCEPT !.uid = Gpu!None]
             r == [y EXCEPT !.p = FALSE]
  <2>1. b \in Records /\ x1[b] \in Card
    BY <1>0, <1>5 DEF GpuInv
  <2> HIDE DEF b
  <2>2. y \in Card /\ y.uid = Gpu!None
    BY <2>1 DEF Card
  <2>3. x1' = [x1 EXCEPT ![b] = r]
    BY <1>5, <2>1 DEF b, Gpu!Failed, GpuInv, Card
  <2> HIDE DEF y
  <2>4. r \in Card /\ r.uid = Gpu!None /\ ~r.p
    BY <2>2 DEF Card
  <2> HIDE DEF r
  <2>5. x3' = Gpu!Without(x1[b].uid) /\ NextOf
    BY <1>4, <1>5 DEF b, Gpu!Failed, Gpu!GivenBack, Gpu!Undone
  <2>6. x2' = Gpu!Idle \/ (x2' \in Calls /\ x2'.b = b /\ x2'.at = "alloc")
    BY <2>5 DEF NextOf, b
  <2>7. x1[b].uid # Gpu!None /\ x2.b = b
    BY <1>5 DEF b
  <2> QED  BY <1>5, <2>1, <2>3, <2>4, <2>5, <2>6, <2>7, GivenUp
<1>6. ASSUME Gpu!AllocBlock PROVE GpuInv'
  <2> DEFINE b == x2.b
             size == Gpu!AlignUp(x2.asked, Gpu!Granule(x2.kind))
  <2>1. x2 # Gpu!Idle /\ x2.at = "alloc" /\ b \in Records /\ x1[b] \in Card /\ x2.asked \in Nat /\ x2.kind \in Gpu!Kinds /\ x4' = x4
    <3>1. x2 # Gpu!Idle /\ x2.at = "alloc"
      BY <1>6, <1>i DEF Gpu!AllocBlock
    <3> QED  BY <1>0, <1>6, <3>1 DEF Gpu!AllocBlock, GpuInv, Calls
  <2>2. x1[b].uid = Gpu!None /\ ~x1[b].p
    BY <2>1 DEF GpuInv
  <2>3. size \in Nat /\ size % Gpu!Granule(x2.kind) = 0
    BY <2>1, Aligned
  <2>4. \/ /\ x1' = [x1 EXCEPT ![b].uid = Gpu!None, ![b].size = size]
           /\ x2' = Gpu!Refused /\ x3' = x3
        \/ \E u \in Gpu!Free :
             /\ x1' = [x1 EXCEPT ![b].uid = u, ![b].size = size]
             /\ x3' = Gpu!With(u, [size |-> size, kind |-> x2.kind, mapped |-> FALSE])
             /\ x2' = [x2 EXCEPT !.at = "base"]
    BY <1>6 DEF Gpu!AllocBlock
  <2> HIDE DEF size, b
  <2>5. ASSUME NEW u \in {Gpu!None} \cup Gpu!Uids, x1' = [x1 EXCEPT ![b].uid = u, ![b].size = size]
        PROVE  x1' \in [Records -> Card] /\ x1'[b].uid = u /\ x1'[b].size = size /\ x1'[b].p = x1[b].p /\ (\A c \in Records \ {b} : x1'[c] = x1[c])
    <3> DEFINE y == [x1[b] EXCEPT !.uid = u]
               r == [y EXCEPT !.size = size]
    <3>1. y \in Card /\ y.uid = u /\ y.p = x1[b].p
      BY <2>1 DEF Card
    <3>2. x1' = [x1 EXCEPT ![b] = r]
      BY <2>1, <2>5 DEF GpuInv
    <3> HIDE DEF y
    <3>3. r \in Card /\ r.uid = u /\ r.size = size /\ r.p = x1[b].p
      BY <2>3, <3>1 DEF Card
    <3> HIDE DEF r
    <3> QED  BY <2>1, <3>2, <3>3 DEF GpuInv
  <2>6. CASE /\ x1' = [x1 EXCEPT ![b].uid = Gpu!None, ![b].size = size]
             /\ x2' = Gpu!Refused /\ x3' = x3
    <3>1. x1' \in [Records -> Card] /\ x1'[b].uid = Gpu!None /\ x1'[b].p = x1[b].p /\ (\A c \in Records \ {b} : x1'[c] = x1[c])
      BY <2>5, <2>6
    <3>2. x2' = Gpu!Idle \/ (x2' \in Calls /\ x2'.b = b /\ x2'.at = "alloc")
      BY <1>4, <2>1, <2>6 DEF NextOf, b
    <3>3. \A c \in Records : c # b => Rests(c)
      BY DEF Rests, b
    <3>4. \A c \in Records : x1'[c].uid = x1[c].uid /\ x1'[c].p = x1[c].p /\ (c # b => x1'[c].size = x1[c].size)
      BY <2>2, <3>1
    <3>5. \A c \in Records : x1'[c].uid = Gpu!None \/ c # b
      BY <3>1
    <3>6. \A c \in Records : (x1'[c].uid = Gpu!None) = ~x1'[c].p /\ (x1'[c].uid # Gpu!None => x3'[x1'[c].uid].mapped)
      <4> TAKE c \in Records
      <4>1. CASE c = b
        BY <2>2, <3>4, <4>1
      <4>2. CASE c # b
        BY <2>6, <3>3, <3>4, <4>2 DEF GpuInv
      <4> QED  BY <4>1, <4>2
    <3>7. \A u \in DOMAIN x3' : \E c \in Records : x1'[c].uid = u
      BY <2>6, <3>4 DEF GpuInv
    <3>8. \A c \in Records : x1'[c].uid # Gpu!None => x1'[c].uid \in DOMAIN x3' /\ x3'[x1'[c].uid].size = x1'[c].size
      BY <2>6, <3>4, <3>5 DEF GpuInv
    <3>9. \A a, c \in Records : a # c /\ x1'[a].uid # Gpu!None => x1'[a].uid # x1'[c].uid
      BY <3>4 DEF GpuInv
    <3>10. x2' # Gpu!Idle =>
       /\ x2'.at = "alloc" => x1'[x2'.b].uid = Gpu!None /\ ~x1'[x2'.b].p
       /\ x2'.at = "base" => x1'[x2'.b].uid # Gpu!None /\ ~x1'[x2'.b].p
       /\ x2'.at = "map" => x1'[x2'.b].uid # Gpu!None /\ x1'[x2'.b].p
      BY <2>2, <3>1, <3>2
    <3> QED  BY <2>1, <2>6, <3>1, <3>2, <3>6, <3>7, <3>8, <3>9, <3>10 DEF GpuInv
  <2>7. ASSUME NEW u \in Gpu!Free, x1' = [x1 EXCEPT ![b].uid = u, ![b].size = size],
               x3' = Gpu!With(u, [size |-> size, kind |-> x2.kind, mapped |-> FALSE]),
               x2' = [x2 EXCEPT !.at = "base"]
        PROVE  GpuInv'
    <3> DEFINE k == [size |-> size, kind |-> x2.kind, mapped |-> FALSE]
    <3>1. u \in Gpu!Uids /\ u \notin DOMAIN x3 /\ u # Gpu!None
      BY DEF Gpu!Free, Gpu!Uids, Gpu!None
    <3>2. x1' \in [Records -> Card] /\ x1'[b].uid = u /\ x1'[b].size = size /\ x1'[b].p = x1[b].p /\ (\A c \in Records \ {b} : x1'[c] = x1[c])
      BY <2>5, <2>7, <3>1
    <3>3. k \in KernelBlock /\ k.size = size /\ k.kind = x2.kind
      BY <2>1, <2>3 DEF KernelBlock
    <3>4. x3' = Gpu!With(u, k)
      BY <2>7
    <3> HIDE DEF k
    <3>5. DOMAIN x3' = DOMAIN x3 \cup {u} /\ x3'[u] = k /\ (\A v \in DOMAIN x3 : x3'[v] = x3[v])
      BY <3>1, <3>4 DEF Gpu!With
    <3>6. x3' \in [DOMAIN x3' -> KernelBlock]
      BY <3>1, <3>3, <3>4, <3>5 DEF Gpu!With, GpuInv
    <3>7. x2' \in Calls /\ x2'.at = "base" /\ x2'.b = b
      BY <1>0, <2>1, <2>7 DEF Calls, b
    <3>8. \A c \in Records \ {b} : Rests(c) /\ (x1[c].uid # Gpu!None => x1[c].uid \in DOMAIN x3 /\ x1[c].uid # u)
      BY <3>1 DEF Rests, b, GpuInv
    <3>9. x2' # Gpu!Idle
      BY <1>i, <3>7
    <3>10. \A c \in Records : x1'[c].uid # Gpu!None => x1'[c].uid \in DOMAIN x3' /\ x3'[x1'[c].uid].size = x1'[c].size
      <4> TAKE c \in Records
      <4>1. CASE c = b
        BY <3>2, <3>3, <3>5, <4>1
      <4>2. CASE c # b
        BY <3>2, <3>5, <3>8, <4>2 DEF GpuInv
      <4> QED  BY <4>1, <4>2
    <3>11. \A a, c \in Records : a # c /\ x1'[a].uid # Gpu!None => x1'[a].uid # x1'[c].uid
      <4> SUFFICES ASSUME NEW a \in Records, NEW c \in Records, a # c, x1'[a].uid # Gpu!None PROVE x1'[a].uid # x1'[c].uid
        OBVIOUS
      <4>1. CASE a # b /\ c # b
        BY <3>2, <4>1 DEF GpuInv
      <4>2. CASE a = b
        BY <3>1, <3>2, <3>8, <4>2 DEF GpuInv
      <4>3. CASE c = b
        BY <3>1, <3>2, <3>8, <4>3 DEF GpuInv
      <4> QED  BY <4>1, <4>2, <4>3
    <3>12. \A v \in DOMAIN x3' : (\E c \in Records : x1'[c].uid = v) /\ x3'[v].size % Gpu!Granule(x3'[v].kind) = 0
      <4> SUFFICES ASSUME NEW v \in DOMAIN x3' PROVE (\E c \in Records : x1'[c].uid = v) /\ x3'[v].size % Gpu!Granule(x3'[v].kind) = 0
        OBVIOUS
      <4>1. CASE v = u
        BY <2>1, <2>3, <3>2, <3>3, <3>5, <4>1
      <4>2. CASE v # u
        <5>1. v \in DOMAIN x3 /\ x3'[v] = x3[v]
          BY <3>5, <4>2
        <5>2. PICK c \in Records : x1[c].uid = v
          BY <5>1 DEF GpuInv
        <5>3. v # Gpu!None
          BY <5>1 DEF GpuInv, Gpu!Uids, Gpu!None
        <5>4. c # b
          BY <2>2, <5>2, <5>3
        <5>5. x1'[c].uid = v
          BY <3>2, <5>2, <5>4
        <5>6. x3[v].size % Gpu!Granule(x3[v].kind) = 0
          BY <5>1 DEF GpuInv
        <5> QED  BY <5>1, <5>5, <5>6
      <4> QED  BY <4>1, <4>2
    <3>13. \A c \in Records : Rests(c)' =>
              /\ (x1'[c].uid = Gpu!None) = ~x1'[c].p
              /\ x1'[c].uid # Gpu!None => x3'[x1'[c].uid].mapped
      <4> SUFFICES ASSUME NEW c \in Records, Rests(c)'
                   PROVE  (x1'[c].uid = Gpu!None) = ~x1'[c].p /\ (x1'[c].uid # Gpu!None => x3'[x1'[c].uid].mapped)
        OBVIOUS
      <4>1. c # b
        BY <3>7, <3>9 DEF Rests
      <4> QED  BY <3>2, <3>5, <3>8, <4>1 DEF GpuInv
    <3>14. x1'[x2'.b].uid # Gpu!None /\ ~x1'[x2'.b].p
      BY <2>2, <3>1, <3>2, <3>7
    <3>15. DOMAIN x3' \subseteq Gpu!Uids
      BY <3>1, <3>5 DEF GpuInv
    <3>16. x2' # Gpu!Idle =>
       /\ x2'.at = "alloc" => x1'[x2'.b].uid = Gpu!None /\ ~x1'[x2'.b].p
       /\ x2'.at = "base" => x1'[x2'.b].uid # Gpu!None /\ ~x1'[x2'.b].p
       /\ x2'.at = "map" => x1'[x2'.b].uid # Gpu!None /\ x1'[x2'.b].p
      BY <3>7, <3>14
    <3>17. x1' \in [Records -> Card] /\ x2' \in Calls \cup {Gpu!Idle} /\ x4' \in BOOLEAN
      BY <2>1, <3>2, <3>7 DEF GpuInv
    <3> QED  BY <3>6, <3>10, <3>11, <3>12, <3>13, <3>15, <3>16, <3>17 DEF GpuInv
  <2> QED  BY <2>4, <2>6, <2>7
<1>7. ASSUME Gpu!GetBase PROVE GpuInv'
  <2> DEFINE b == x2.b
  <2>1. x2 # Gpu!Idle /\ x2.at = "base" /\ b \in Records /\ x1[b] \in Card /\ x1[b].uid # Gpu!None /\ x4' = x4
    <3>1. x2 # Gpu!Idle /\ x2.at = "base"
      BY <1>7, <1>i DEF Gpu!GetBase
    <3> QED  BY <1>0, <1>7, <3>1 DEF Gpu!GetBase, GpuInv, Calls
  <2>2. CASE Gpu!Failed(b)
    BY <1>5, <2>1, <2>2
  <2>3. CASE x1' = [x1 EXCEPT ![b].p = TRUE] /\ x2' = [x2 EXCEPT !.at = "map"] /\ x3' = x3
    <3>1. x2' \in Calls /\ x2'.at = "map" /\ x2'.b = b
      BY <1>0, <2>1, <2>3 DEF Calls
    <3>2. \A c \in Records : x1'[c].uid = x1[c].uid /\ x1'[c].size = x1[c].size /\ (c # b => x1'[c] = x1[c])
      BY <2>1, <2>3 DEF GpuInv, Card
    <3>3. x1'[b].p /\ x1' \in [Records -> Card]
      BY <2>1, <2>3 DEF GpuInv, Card
    <3>4. \A c \in Records : c # b => Rests(c)
      BY DEF Rests
    <3>5. x2' # Gpu!Idle
      BY <1>i, <3>1
    <3> HIDE DEF b
    <3>6. \A c \in Records : Rests(c)' =>
             /\ (x1'[c].uid = Gpu!None) = ~x1'[c].p
             /\ x1'[c].uid # Gpu!None => x3'[x1'[c].uid].mapped
      <4> SUFFICES ASSUME NEW c \in Records, Rests(c)'
                   PROVE  (x1'[c].uid = Gpu!None) = ~x1'[c].p /\ (x1'[c].uid # Gpu!None => x3'[x1'[c].uid].mapped)
        OBVIOUS
      <4>1. c # b
        BY <3>1, <3>5 DEF Rests
      <4> QED  BY <2>3, <3>2, <3>4, <4>1 DEF GpuInv
    <3>7. \A u \in DOMAIN x3' : \E c \in Records : x1'[c].uid = u
      BY <2>3, <3>2 DEF GpuInv
    <3>8. \A c \in Records : x1'[c].uid # Gpu!None => x1'[c].uid \in DOMAIN x3' /\ x3'[x1'[c].uid].size = x1'[c].size
      BY <2>3, <3>2 DEF GpuInv
    <3>9. \A a, c \in Records : a # c /\ x1'[a].uid # Gpu!None => x1'[a].uid # x1'[c].uid
      BY <3>2 DEF GpuInv
    <3>10. x1'[x2'.b].uid # Gpu!None /\ x1'[x2'.b].p
      BY <2>1, <3>1, <3>2, <3>3 DEF b
    <3>11. x2' # Gpu!Idle =>
       /\ x2'.at = "alloc" => x1'[x2'.b].uid = Gpu!None /\ ~x1'[x2'.b].p
       /\ x2'.at = "base" => x1'[x2'.b].uid # Gpu!None /\ ~x1'[x2'.b].p
       /\ x2'.at = "map" => x1'[x2'.b].uid # Gpu!None /\ x1'[x2'.b].p
      BY <3>1, <3>10
    <3>12. x2' \in Calls \cup {Gpu!Idle} /\ x4' \in BOOLEAN
      BY <2>1, <3>1 DEF GpuInv
    <3>13. DOMAIN x3' \subseteq Gpu!Uids /\ x3' \in [DOMAIN x3' -> KernelBlock]
           /\ \A u \in DOMAIN x3' : x3'[u].size % Gpu!Granule(x3'[u].kind) = 0
      BY <2>3 DEF GpuInv
    <3> QED  BY <3>3, <3>6, <3>7, <3>8, <3>9, <3>11, <3>12, <3>13 DEF GpuInv
  <2> QED  BY <1>7, <2>2, <2>3 DEF Gpu!GetBase
<1>8. ASSUME Gpu!Map PROVE GpuInv'
  <2> DEFINE b == x2.b
             u == x1[b].uid
  <2>1. x2 # Gpu!Idle /\ x2.at = "map" /\ b \in Records /\ x1[b] \in Card /\ u # Gpu!None /\ x1[b].p /\ x4' = x4
    <3>1. x2 # Gpu!Idle /\ x2.at = "map"
      BY <1>8, <1>i DEF Gpu!Map
    <3> QED  BY <1>0, <1>8, <3>1 DEF Gpu!Map, GpuInv, Calls
  <2>2. CASE Gpu!Failed(b)
    BY <1>5, <2>1, <2>2
  <2>3. CASE x3' = [x3 EXCEPT ![u].mapped = TRUE] /\ x2' = Gpu!Idle /\ x1' = x1
    <3>1. u \in DOMAIN x3
      BY <2>1 DEF GpuInv
    <3>2. \A c \in Records : c # b => Rests(c) /\ x1[c].uid # u
      BY <2>1 DEF Rests, GpuInv
    <3> HIDE DEF b, u
    <3>3. /\ DOMAIN x3' = DOMAIN x3 /\ x3' \in [DOMAIN x3' -> KernelBlock] /\ x3'[u].mapped
          /\ \A v \in DOMAIN x3 : x3'[v].size = x3[v].size /\ x3'[v].kind = x3[v].kind /\ (v # u => x3'[v] = x3[v])
      <4> DEFINE k == [x3[u] EXCEPT !.mapped = TRUE]
      <4>1. x3[u] \in KernelBlock
        BY <3>1 DEF GpuInv
      <4>2. k \in KernelBlock /\ k.mapped /\ k.size = x3[u].size /\ k.kind = x3[u].kind
        BY <4>1 DEF KernelBlock
      <4>3. x3' = [x3 EXCEPT ![u] = k]
        BY <2>3
      <4> HIDE DEF k
      <4> QED  BY <3>1, <4>2, <4>3 DEF GpuInv
    <3>4. \A c \in Records : (x1'[c].uid = Gpu!None) = ~x1'[c].p /\ (x1'[c].uid # Gpu!None => x3'[x1'[c].uid].mapped)
      <4> TAKE c \in Records
      <4>1. CASE c = b
        BY <2>1, <2>3, <3>3, <4>1 DEF u
      <4>2. CASE c # b
        BY <2>3, <3>2, <3>3, <4>2 DEF GpuInv
      <4> QED  BY <4>1, <4>2
    <3>5. \A c \in Records : x1'[c].uid # Gpu!None => x1'[c].uid \in DOMAIN x3' /\ x3'[x1'[c].uid].size = x1'[c].size
      BY <2>3, <3>3 DEF GpuInv
    <3> QED  BY <2>1, <2>3, <3>3, <3>4, <3>5 DEF GpuInv
  <2> QED  BY <1>8, <2>2, <2>3 DEF Gpu!Map
<1>9. ASSUME UNCHANGED Gpu!vars PROVE GpuInv'
  BY <1>9 DEF Gpu!vars, GpuInv, Rests
<1> QED  BY <1>1, <1>2, <1>3, <1>6, <1>7, <1>8, <1>9 DEF Gpu!Next

-----------------------------------------------------------------------------
(* The allocator of guest ranges                                           *)

LEMMA SpaceIs == Lo \in Nat /\ Lo > 0 /\ Hi \in Nat /\ Lo < Hi /\ HeapAlign \in Nat /\ HeapAlign > 0
BY MemoryAssumption DEF Heap!HeapAssumption, Heap!RegionAssumption

(* Multiples of the alignment add up to one.                               *)
LEMMA MultiplesAdd ==
  ASSUME NEW a \in Nat, NEW b \in Nat, a % HeapAlign = 0, b % HeapAlign = 0
  PROVE  (a + b) % HeapAlign = 0
<1> DEFINE p == a \div HeapAlign
           q == b \div HeapAlign
           r == p + q
<1>0. HeapAlign \in Nat /\ HeapAlign > 0
  BY SpaceIs
<1>1. p \in Int /\ a = p * HeapAlign
  BY <1>0, SMTT(30)
<1>2. q \in Int /\ b = q * HeapAlign
  BY <1>0, SMTT(30)
<1> HIDE DEF p, q
<1>3. r \in Int /\ a + b = r * HeapAlign
  BY <1>0, <1>1, <1>2, SMTT(30)
<1> HIDE DEF r
<1> QED  BY <1>0, <1>3, Multiple

(* What is carved for a request is enough for it, and a multiple.          *)
LEMMA RoundedIs ==
  ASSUME NEW n \in Nat
  PROVE  /\ Heap!Rounded(n) \in Nat /\ Heap!Rounded(n) > 0 /\ Heap!Rounded(n) >= n
         /\ Heap!Rounded(n) % HeapAlign = 0
<1>0. HeapAlign \in Nat /\ HeapAlign > 0
  BY SpaceIs
<1>1. CASE n = 0
  <2>1. Heap!Rounded(n) = 1 * HeapAlign
    BY <1>0, <1>1 DEF Heap!Rounded
  <2>2. (1 * HeapAlign) % HeapAlign = 0
    BY <1>0, Multiple
  <2> QED  BY <1>0, <1>1, <2>1, <2>2
<1>2. CASE n # 0
  <2> DEFINE m == n + HeapAlign - 1
             q == m \div HeapAlign
             p == q * HeapAlign
  <2>1. m \in Nat
    BY <1>0
  <2> HIDE DEF m
  <2>2. q \in Nat /\ p \in Nat /\ p <= m /\ m < p + HeapAlign
    BY <1>0, <2>1, SMTT(60)
  <2> HIDE DEF q
  <2>3. p % HeapAlign = 0
    BY <1>0, <2>2, Multiple
  <2>4. Heap!Rounded(n) = p
    BY <1>2 DEF Heap!Rounded, m, q
  <2> HIDE DEF p
  <2>5. p >= n
    BY <1>0, <2>2 DEF m
  <2> QED  BY <1>2, <2>2, <2>3, <2>4, <2>5
<1> QED  BY <1>1, <1>2

(* The maps of a region, and what they cover.                              *)
Map(f) == DOMAIN f \subseteq Heap!Region /\ f \in [DOMAIN f -> Nat]
Within(a, n) == {x \in Heap!Region : a <= x /\ x < a + n}
RegionOk(r) == /\ Map(r.used) /\ Map(r.freeb) /\ r.cur \in Nat
               /\ Heap!Tiled(r) /\ Heap!Counted(r)

LEMMA RegionNat == Heap!Region \subseteq Nat /\ IsFiniteSet(Heap!Region) /\ \A x : x \in Heap!Region <=> (x \in Nat /\ Lo <= x /\ x < Hi)
<1>1. Heap!Region = Lo .. Hi - 1
  BY DEF Heap!Region
<1>2. IsFiniteSet(Lo .. Hi - 1)
  BY SpaceIs, FS_Interval
<1> QED  BY SpaceIs, <1>1, <1>2

(* g is f with a block of n at a.                                          *)
IsWith(g, f, a, n) ==
  /\ Map(g) /\ DOMAIN g = DOMAIN f \cup {a} /\ g[a] = n /\ \A b \in DOMAIN f \ {a} : g[b] = f[b]
  /\ \A x : Heap!Over(g, x) <=> \/ a <= x /\ x < a + n
                                \/ \E b \in DOMAIN f \ {a} : b <= x /\ x < b + f[b]

LEMMA WithIs ==
  ASSUME NEW f, Map(f), NEW a \in Heap!Region, NEW n \in Nat, NEW g, g = Heap!With(f, a, n)
  PROVE  IsWith(g, f, a, n)
<1>1. DOMAIN g = DOMAIN f \cup {a} /\ g[a] = n /\ \A b \in DOMAIN f \ {a} : g[b] = f[b]
  BY DEF Heap!With
<1>2. g \in [DOMAIN g -> Nat]
  BY <1>1 DEF Heap!With, Map
<1>3. \A x : Heap!Over(g, x) <=> \/ a <= x /\ x < a + n
                                 \/ \E b \in DOMAIN f \ {a} : b <= x /\ x < b + f[b]
  BY <1>1 DEF Heap!Over
<1> QED  BY <1>1, <1>2, <1>3 DEF Map, IsWith

(* g is f without the blocks at S.                                         *)
IsWithout(g, f, S) ==
  /\ Map(g) /\ DOMAIN g = DOMAIN f \ S /\ \A b \in DOMAIN f \ S : g[b] = f[b]
  /\ \A x : Heap!Over(g, x) <=> \E b \in DOMAIN f \ S : b <= x /\ x < b + f[b]

LEMMA WithoutIs ==
  ASSUME NEW f, Map(f), NEW S, NEW g, g = Heap!Without(f, S)
  PROVE  IsWithout(g, f, S)
<1>1. DOMAIN g = DOMAIN f \ S /\ \A b \in DOMAIN f \ S : g[b] = f[b]
  BY DEF Heap!Without
<1>2. g \in [DOMAIN g -> Nat]
  BY <1>1 DEF Heap!Without, Map
<1>3. \A x : Heap!Over(g, x) <=> \E b \in DOMAIN f \ S : b <= x /\ x < b + f[b]
  BY <1>1 DEF Heap!Over
<1> QED  BY <1>1, <1>2, <1>3 DEF Map, IsWithout

(* A block's units: as many as it is long.                                 *)
LEMMA WithinCount ==
  ASSUME NEW a \in Heap!Region, NEW n \in Nat, a + n <= Hi
  PROVE  IsFiniteSet(Within(a, n)) /\ Cardinality(Within(a, n)) = n
<1>1. Within(a, n) = a .. a + n - 1
  BY RegionNat, SpaceIs DEF Within
<1>2. a \in Int /\ a + n - 1 \in Int
  BY RegionNat
<1>3. IsFiniteSet(a .. a + n - 1) /\ Cardinality(a .. a + n - 1) = IF a > a + n - 1 THEN 0 ELSE a + n - 1 - a + 1
  BY <1>2, FS_Interval
<1> QED  BY <1>1, <1>2, <1>3

LEMMA SpaceCount == \A S : Heap!Cardinality(S) = Cardinality(S)
BY DEF Heap!Cardinality, Cardinality

(* Counts of disjoint parts.                                               *)
LEMMA CountJoined ==
  ASSUME NEW S, NEW T, NEW U, S \subseteq Heap!Region, T \subseteq Heap!Region, U = S \cup T, S \cap T = {}
  PROVE  /\ Cardinality(S) \in Nat /\ Cardinality(T) \in Nat
         /\ Cardinality(U) = Cardinality(S) + Cardinality(T)
<1>1. IsFiniteSet(S) /\ IsFiniteSet(T)
  BY RegionNat, FS_Subset
<1>2. Cardinality(S) \in Nat /\ Cardinality(T) \in Nat
  BY <1>1, FS_CardinalityType
<1>3. Cardinality(S \cap T) = 0
  BY FS_EmptySet
<1>4. Cardinality(U) = Cardinality(S) + Cardinality(T) - Cardinality(S \cap T)
  BY <1>1, FS_Union
<1> QED  BY <1>2, <1>3, <1>4

(* An empty region is tiled by its one free block.                         *)
LEMMA FreshOk == RegionOk(Heap!Fresh)
<1> DEFINE r == Heap!Fresh
<1>1. r.used = [a \in {} |-> 0] /\ r.freeb = [a \in {Lo} |-> Hi - Lo] /\ r.cur = 0
  BY DEF Heap!Fresh, Heap!NoBlocks
<1>2. DOMAIN r.used = {} /\ DOMAIN r.freeb = {Lo} /\ r.freeb[Lo] = Hi - Lo
  BY <1>1
<1> HIDE DEF r
<1>3. Lo \in Heap!Region /\ Hi - Lo \in Nat /\ Hi - Lo > 0 /\ (Lo - Lo) % HeapAlign = 0
  <2>1. (0 * HeapAlign) % HeapAlign = 0
    BY SpaceIs, Multiple
  <2> QED  BY SpaceIs, RegionNat, <2>1
<1>4. Map(r.used) /\ Map(r.freeb)
  BY <1>1, <1>2, <1>3 DEF Map
<1>5. Heap!Tiled(r)
  <2>1. Heap!InRegion(r.used) /\ Heap!Apart(r.used)
    BY <1>2 DEF Heap!InRegion, Heap!Apart
  <2>2. Heap!InRegion(r.freeb) /\ Heap!Apart(r.freeb)
    BY <1>2, <1>3, SpaceIs DEF Heap!InRegion, Heap!Apart
  <2>3. \A x \in Heap!Region : ~Heap!Over(r.used, x) /\ Heap!Over(r.freeb, x)
    BY <1>2, RegionNat, SpaceIs DEF Heap!Over
  <2>4. \A b \in DOMAIN r.freeb : b + r.freeb[b] \notin DOMAIN r.freeb
    BY <1>2, SpaceIs
  <2> QED  BY <2>1, <2>2, <2>3, <2>4 DEF Heap!Tiled
<1>6. Heap!Counted(r)
  <2>1. {x \in Heap!Region : Heap!Over(r.used, x)} = {}
    BY <1>2 DEF Heap!Over
  <2>2. Cardinality({}) = 0
    BY FS_EmptySet
  <2> QED  BY <1>1, <2>1, <2>2, SpaceCount DEF Heap!Counted
<1>7. RegionOk(r)
  BY <1>1, <1>4, <1>5, <1>6 DEF RegionOk
<1> QED  BY <1>7 DEF r

(* A request is met from a free block that is large enough, or refused.    *)
LEMMA AllocIs ==
  ASSUME NEW r, RegionOk(r), NEW n \in Nat, Heap!Alloc(r, n) # 0
  PROVE  /\ Heap!Alloc(r, n) \in DOMAIN r.freeb /\ r.freeb[Heap!Alloc(r, n)] >= Heap!Rounded(n)
         /\ Heap!AfterAlloc(r, n) = [used |-> Heap!With(r.used, Heap!Alloc(r, n), Heap!Rounded(n)),
                                     freeb |-> Heap!Carved(r, Heap!Alloc(r, n), Heap!Rounded(n)),
                                     cur |-> r.cur + Heap!Rounded(n)]
<1> DEFINE S == Heap!Fits(r, n)
<1>1. S # {} /\ Heap!Alloc(r, n) = Heap!Min(S)
  BY DEF Heap!Alloc
<1>2. S \subseteq Nat /\ \A a \in S : a \in DOMAIN r.freeb /\ r.freeb[a] >= Heap!Rounded(n)
  BY RegionNat DEF Heap!Fits, RegionOk, Map
<1> HIDE DEF S
<1>3. Heap!Min(S) \in S
  BY <1>1, <1>2, LeastIn DEF Heap!Min
<1> QED  BY <1>1, <1>2, <1>3 DEF Heap!AfterAlloc

(* The start and the end of a block, and what lies between two.            *)
LEMMA BlockIs ==
  ASSUME NEW f, Map(f), Heap!InRegion(f), NEW b \in DOMAIN f
  PROVE  /\ b \in Nat /\ b \in Heap!Region /\ Lo <= b /\ f[b] \in Nat /\ f[b] > 0 /\ b + f[b] <= Hi
         /\ (b - Lo) % HeapAlign = 0 /\ b + f[b] \in Nat
         /\ \A x \in Nat : b <= x /\ x < b + f[b] => x \in Heap!Region /\ Heap!Over(f, x)
<1>1. b \in Heap!Region /\ f[b] \in Nat /\ b >= Lo /\ f[b] > 0 /\ b + f[b] <= Hi /\ (b - Lo) % HeapAlign = 0
  BY DEF Map, Heap!InRegion
<1>2. b \in Nat
  BY <1>1, RegionNat
<1>3. \A x \in Nat : b <= x /\ x < b + f[b] => x \in Heap!Region
  BY <1>1, <1>2, RegionNat, SpaceIs
<1>4. \A x \in Nat : b <= x /\ x < b + f[b] => Heap!Over(f, x)
  BY DEF Heap!Over
<1> QED  BY <1>1, <1>2, <1>3, <1>4

(* Blocks of the two maps have no unit in common.                          *)
LEMMA Disjoint ==
  ASSUME NEW r, RegionOk(r), NEW a \in DOMAIN r.freeb, NEW b \in DOMAIN r.used
  PROVE  a # b /\ (a < b => a + r.freeb[a] <= b) /\ (b < a => b + r.used[b] <= a)
<1>1. /\ Map(r.used) /\ Map(r.freeb) /\ Heap!InRegion(r.used) /\ Heap!InRegion(r.freeb)
      /\ \A x \in Heap!Region : Heap!Over(r.used, x) <=> ~Heap!Over(r.freeb, x)
  BY DEF RegionOk, Heap!Tiled
<1>2. /\ a \in Nat /\ r.freeb[a] \in Nat /\ r.freeb[a] > 0
      /\ \A x \in Nat : a <= x /\ x < a + r.freeb[a] => x \in Heap!Region /\ Heap!Over(r.freeb, x)
  BY <1>1, BlockIs
<1>3. /\ b \in Nat /\ r.used[b] \in Nat /\ r.used[b] > 0
      /\ \A x \in Nat : b <= x /\ x < b + r.used[b] => x \in Heap!Region /\ Heap!Over(r.used, x)
  BY <1>1, BlockIs
<1> DEFINE m == r.freeb[a]
           n == r.used[b]
<1> HIDE DEF m, n
<1>4. m \in Nat /\ n \in Nat /\ m > 0 /\ n > 0 /\ \A x \in Nat : ~(a <= x /\ x < a + m /\ b <= x /\ x < b + n)
  BY <1>1, <1>2, <1>3 DEF m, n
<1>5. a # b /\ (a < b => a + m <= b) /\ (b < a => b + n <= a)
  BY <1>2, <1>3, <1>4
<1> QED  BY <1>5 DEF m, n

(* A block carved from the start of a free one keeps the region tiled.     *)
LEMMA CarvedOk ==
  ASSUME NEW r, RegionOk(r), NEW a \in DOMAIN r.freeb, NEW s \in Nat, s > 0, s % HeapAlign = 0, r.freeb[a] >= s,
         NEW q, q = [used |-> Heap!With(r.used, a, s), freeb |-> Heap!Carved(r, a, s), cur |-> r.cur + s]
  PROVE  /\ RegionOk(q) /\ a \in Heap!Region /\ a + s <= Hi /\ a \notin DOMAIN r.used
         /\ q.used = Heap!With(r.used, a, s)
         /\ \A x \in Within(a, s) : ~Heap!Over(r.used, x)
<1> DEFINE u == r.used
           f == r.freeb
           m == f[a]
           v == q.used
           g == q.freeb
<1>0. q.used = Heap!With(u, a, s) /\ q.freeb = Heap!Carved(r, a, s) /\ q.cur = r.cur + s
  OBVIOUS
<1>v. v = Heap!With(u, a, s)
  OBVIOUS
<1>1. /\ Map(u) /\ Map(f) /\ Heap!InRegion(u) /\ Heap!InRegion(f) /\ Heap!Apart(u) /\ Heap!Apart(f)
      /\ \A x \in Heap!Region : Heap!Over(u, x) <=> ~Heap!Over(f, x)
      /\ \A b \in DOMAIN f : b + f[b] \notin DOMAIN f
  BY DEF RegionOk, Heap!Tiled
<1>2. /\ a \in Nat /\ a \in Heap!Region /\ Lo <= a /\ m \in Nat /\ a + m <= Hi /\ (a - Lo) % HeapAlign = 0
      /\ \A x \in Nat : a <= x /\ x < a + m => x \in Heap!Region /\ Heap!Over(f, x)
  BY <1>1, BlockIs
<1>3. \A b \in DOMAIN u : a # b /\ (a < b => a + m <= b) /\ (b < a => b + u[b] <= a)
  BY Disjoint
<1>4. \A b \in DOMAIN f : b \in Nat /\ f[b] \in Nat /\ f[b] > 0 /\ b + f[b] <= Hi /\ Lo <= b
  BY <1>1, BlockIs
<1>5. \A b \in DOMAIN u : b \in Nat /\ u[b] \in Nat /\ u[b] > 0 /\ b + u[b] <= Hi /\ Lo <= b
  BY <1>1, BlockIs
<1>6. s <= m
  OBVIOUS
<1> HIDE DEF u, f, m, v, g
<1>7. a + s \in Nat /\ a + s <= Hi /\ s \in Nat /\ m \in Nat
  BY <1>2, <1>6, SpaceIs
(* The map of the blocks in use.                                           *)
<1>8. /\ Map(v) /\ DOMAIN v = DOMAIN u \cup {a} /\ v[a] = s /\ \A b \in DOMAIN u : b # a /\ v[b] = u[b]
      /\ \A x : Heap!Over(v, x) <=> (a <= x /\ x < a + s) \/ Heap!Over(u, x)
  <2>1. /\ Map(v) /\ DOMAIN v = DOMAIN u \cup {a} /\ v[a] = s /\ \A b \in DOMAIN u \ {a} : v[b] = u[b]
        /\ \A x : Heap!Over(v, x) <=> \/ a <= x /\ x < a + s
                                      \/ \E b \in DOMAIN u \ {a} : b <= x /\ x < b + u[b]
    <3>1. IsWith(v, u, a, s)
      BY <1>v, <1>1, <1>2, WithIs
    <3> QED  BY <3>1 DEF IsWith
  <2>2. a \notin DOMAIN u
    BY <1>3
  <2>3. DOMAIN u \ {a} = DOMAIN u
    BY <2>2
  <2> QED  BY <2>1, <2>2, <2>3 DEF Heap!Over
<1>9. Heap!InRegion(v) /\ Heap!Apart(v)
  <2>1. ASSUME NEW b \in DOMAIN v PROVE b >= Lo /\ v[b] > 0 /\ b + v[b] <= Hi /\ (b - Lo) % HeapAlign = 0
    BY <1>1, <1>2, <1>7, <1>8 DEF Heap!InRegion
  <2>2. ASSUME NEW b \in DOMAIN v, NEW c \in DOMAIN v, b < c PROVE b + v[b] <= c
    <3>1. CASE b = a /\ c = a
      BY <1>2, <2>2, <3>1
    <3>2. CASE b = a /\ c \in DOMAIN u
      BY <1>2, <1>3, <1>5, <1>6, <1>7, <1>8, <2>2, <3>2
    <3>3. CASE b \in DOMAIN u /\ c = a
      BY <1>3, <1>8, <2>2, <3>3
    <3>4. CASE b \in DOMAIN u /\ c \in DOMAIN u
      BY <1>1, <1>8, <2>2, <3>4 DEF Heap!Apart
    <3> QED  BY <1>8, <3>1, <3>2, <3>3, <3>4
  <2> QED  BY <2>1, <2>2 DEF Heap!InRegion, Heap!Apart
(* The map of the free ones: what is left of the block, if anything.       *)
<1>10. /\ Map(g) /\ DOMAIN g = (DOMAIN f \ {a}) \cup (IF m = s THEN {} ELSE {a + s})
       /\ \A b \in DOMAIN f \ {a} : g[b] = f[b]
       /\ m # s => g[a + s] = m - s
       /\ \A x : Heap!Over(g, x) <=> (a + s <= x /\ x < a + m /\ m # s) \/ \E b \in DOMAIN f \ {a} : b <= x /\ x < b + f[b]
  <2> DEFINE w == Heap!Without(f, {a})
  <2>1. /\ Map(w) /\ DOMAIN w = DOMAIN f \ {a} /\ \A b \in DOMAIN f \ {a} : w[b] = f[b]
        /\ \A x : Heap!Over(w, x) <=> \E b \in DOMAIN f \ {a} : b <= x /\ x < b + f[b]
    <3>1. IsWithout(w, f, {a})
      BY <1>1, WithoutIs
    <3> HIDE DEF w
    <3> QED  BY <3>1 DEF IsWithout
  <2>2. CASE m = s
    <3>1. g = w
      BY <1>0, <2>2 DEF g, f, m, Heap!Carved
    <3> HIDE DEF w
    <3> QED  BY <2>1, <2>2, <3>1
  <2>3. CASE m # s
    <3>1. g = Heap!With(w, a + s, m - s)
      BY <1>0, <2>3 DEF g, f, m, Heap!Carved
    <3> HIDE DEF w
    <3>2. a + s \in Heap!Region /\ m - s \in Nat
      <4>1. a + s < a + m /\ a <= a + s
        BY <1>2, <1>6, <1>7, <2>3
      <4> QED  BY <1>2, <1>6, <1>7, <4>1
    <3>3. a + s \notin DOMAIN f
      <4> SUFFICES ASSUME a + s \in DOMAIN f PROVE FALSE
        OBVIOUS
      <4>1. a < a + s
        BY <1>2, <1>7
      <4>2. a + m <= a + s
        BY <1>1, <4>1 DEF Heap!Apart, f, m
      <4> QED  BY <1>2, <1>6, <1>7, <2>3, <4>2
    <3>4. /\ Map(g) /\ DOMAIN g = DOMAIN w \cup {a + s} /\ g[a + s] = m - s /\ \A b \in DOMAIN w \ {a + s} : g[b] = w[b]
          /\ \A x : Heap!Over(g, x) <=> \/ a + s <= x /\ x < (a + s) + (m - s)
                                        \/ \E b \in DOMAIN w \ {a + s} : b <= x /\ x < b + w[b]
      <4> DEFINE e == a + s
                 k == m - s
      <4>1. g = Heap!With(w, e, k) /\ e \in Heap!Region /\ k \in Nat
        BY <3>1, <3>2
      <4> HIDE DEF e, k
      <4>2. IsWith(g, w, e, k)
        BY <2>1, <4>1, WithIs
      <4> QED  BY <4>2 DEF e, k, IsWith
    <3>5. DOMAIN w \ {a + s} = DOMAIN w
      BY <2>1, <3>3
    <3>6. (a + s) + (m - s) = a + m
      BY <1>2, <1>7
    <3> QED  BY <2>1, <2>3, <3>4, <3>5, <3>6
  <2> QED  BY <2>2, <2>3
<1>11. Heap!InRegion(g)
  <2>1. \A b \in DOMAIN f \ {a} : b >= Lo /\ g[b] > 0 /\ b + g[b] <= Hi /\ (b - Lo) % HeapAlign = 0
    BY <1>1, <1>10 DEF Heap!InRegion
  <2>2. m # s => a + s >= Lo /\ g[a + s] > 0 /\ a + s + g[a + s] <= Hi /\ ((a + s) - Lo) % HeapAlign = 0
    <3> SUFFICES ASSUME m # s PROVE a + s >= Lo /\ g[a + s] > 0 /\ a + s + g[a + s] <= Hi /\ ((a + s) - Lo) % HeapAlign = 0
      OBVIOUS
    <3> DEFINE d == a - Lo
    <3>1. d \in Nat /\ d % HeapAlign = 0 /\ (a + s) - Lo = d + s
      BY <1>2, SpaceIs
    <3> HIDE DEF d
    <3>2. (d + s) % HeapAlign = 0
      BY <3>1, MultiplesAdd
    <3>3. g[a + s] = m - s
      BY <1>10
    <3> DEFINE k == g[a + s]
    <3> HIDE DEF k
    <3>4. k \in Nat /\ k > 0 /\ a + s + k = a + m /\ a + s >= Lo
      BY <1>2, <1>6, <1>7, <3>3, SpaceIs DEF k
    <3>5. a + s + k <= Hi
      BY <1>2, <3>4
    <3>6. ((a + s) - Lo) % HeapAlign = 0
      BY <3>1, <3>2
    <3> QED  BY <3>4, <3>5, <3>6 DEF k
  <2>3. CASE m = s
    BY <1>10, <2>1, <2>3 DEF Heap!InRegion
  <2>4. CASE m # s
    <3>1. \A b \in DOMAIN g : b \in DOMAIN f \ {a} \/ b = a + s
      BY <1>10, <2>4
    <3>2. ASSUME NEW b \in DOMAIN g PROVE b >= Lo /\ g[b] > 0 /\ b + g[b] <= Hi /\ (b - Lo) % HeapAlign = 0
      <4>1. CASE b \in DOMAIN f \ {a}
        BY <2>1, <4>1
      <4>2. CASE b = a + s
        <5> DEFINE e == a + s
        <5>1. e >= Lo /\ g[e] > 0 /\ e + g[e] <= Hi /\ (e - Lo) % HeapAlign = 0
          BY <2>2, <2>4
        <5>2. b = e
          BY <4>2
        <5> HIDE DEF e
        <5> QED  BY <5>1, <5>2
      <4> QED  BY <3>1, <4>1, <4>2
    <3> QED  BY <3>2 DEF Heap!InRegion
  <2> QED  BY <2>3, <2>4
<1>12. \A b \in DOMAIN f \ {a} : (b < a => b + f[b] < a) /\ (b > a => a + m < b)
  <2> TAKE b \in DOMAIN f \ {a}
  <2>1. b < a => b + f[b] <= a
    BY <1>1 DEF Heap!Apart, f
  <2>2. a < b => a + m <= b
    BY <1>1 DEF Heap!Apart, f, m
  <2>3. b + f[b] # a /\ a + m # b
    BY <1>1 DEF f, m
  <2> QED  BY <1>2, <1>4, <2>1, <2>2, <2>3
<1>13. Heap!Apart(g) /\ \A b \in DOMAIN g : b + g[b] \notin DOMAIN g
  <2>1. ASSUME NEW b \in DOMAIN g, NEW c \in DOMAIN g PROVE (b < c => b + g[b] <= c) /\ b + g[b] # c
    <3>1. CASE b \in DOMAIN f \ {a} /\ c \in DOMAIN f \ {a}
      BY <1>1, <1>10, <3>1 DEF Heap!Apart
    <3>2. CASE m # s /\ b = a + s /\ c \in DOMAIN f \ {a}
      <4>1. b + g[b] = a + m
        BY <1>2, <1>7, <1>10, <3>2
      <4>2. b < c => a < c
        BY <1>2, <1>4, <1>7, <3>2
      <4>3. a < c => a + m < c
        BY <1>12, <3>2
      <4>4. a + m # c
        BY <1>1, <3>2 DEF m, f
      <4> QED  BY <1>2, <1>4, <1>7, <3>2, <4>1, <4>2, <4>3, <4>4
    <3>3. CASE b \in DOMAIN f \ {a} /\ m # s /\ c = a + s
      <4>1. g[b] = f[b] /\ b \in Nat /\ f[b] \in Nat /\ f[b] > 0
        BY <1>4, <1>10, <3>3
      <4>2. CASE b < a
        <5>1. b + f[b] < a
          BY <1>12, <3>3, <4>2
        <5> QED  BY <1>2, <1>7, <3>3, <4>1, <5>1
      <4>3. CASE b > a
        <5>1. a + m < b
          BY <1>12, <3>3, <4>3
        <5> QED  BY <1>2, <1>6, <1>7, <3>3, <4>1, <5>1
      <4> QED  BY <1>2, <3>3, <4>1, <4>2, <4>3
    <3>4. CASE m # s /\ b = a + s /\ c = a + s
      BY <1>2, <1>6, <1>7, <1>10, <3>4
    <3> QED  BY <1>10, <3>1, <3>2, <3>3, <3>4
  <2> QED  BY <2>1 DEF Heap!Apart
<1>14. \A x \in Heap!Region : Heap!Over(v, x) <=> ~Heap!Over(g, x)
  <2> TAKE x \in Heap!Region
  <2>1. x \in Nat
    BY RegionNat
  <2>2. Heap!Over(f, x) <=> (a <= x /\ x < a + m) \/ \E b \in DOMAIN f \ {a} : b <= x /\ x < b + f[b]
    BY DEF Heap!Over, f, m
  <2>3. ~(a <= x /\ x < a + m /\ \E b \in DOMAIN f \ {a} : b <= x /\ x < b + f[b])
    BY <1>2, <1>4, <1>12, <2>1
  <2> QED  BY <1>1, <1>2, <1>6, <1>7, <1>8, <1>10, <2>1, <2>2, <2>3
<1>15. Heap!Counted(q)
  <2> DEFINE S == {x \in Heap!Region : Heap!Over(u, x)}
             T == {x \in Heap!Region : Heap!Over(v, x)}
             W == Within(a, s)
  <2>1. T = S \cup W
    BY <1>8 DEF Within
  <2>2. S \cap W = {}
    BY <1>1, <1>2, <1>6, <1>7, RegionNat DEF Within
  <2>3. Cardinality(W) = s
    BY <1>2, <1>7, WithinCount
  <2>4. r.cur = Cardinality(S)
    BY SpaceCount DEF RegionOk, Heap!Counted, u
  <2>5. S \subseteq Heap!Region /\ W \subseteq Heap!Region
    BY DEF Within
  <2> HIDE DEF S, W
  <2>6. Cardinality(T) = Cardinality(S) + Cardinality(W)
    BY <2>1, <2>2, <2>5, CountJoined
  <2> HIDE DEF T
  <2>7. q.cur = Cardinality(T)
    BY <1>0, <2>3, <2>4, <2>6
  <2> QED  BY <2>7, SpaceCount DEF T, Heap!Counted, v
<1>16. q.cur \in Nat
  BY <1>0 DEF RegionOk
<1>17. Heap!Tiled(q)
  BY <1>1, <1>8, <1>9, <1>10, <1>11, <1>13, <1>14 DEF Heap!Tiled, v, g
<1>18. RegionOk(q)
  BY <1>8, <1>10, <1>15, <1>16, <1>17 DEF RegionOk, v, g
<1>19. \A x \in Within(a, s) : ~Heap!Over(u, x)
  BY <1>1, <1>2, <1>6, <1>7, RegionNat DEF Within
<1> QED  BY <1>0, <1>2, <1>3, <1>7, <1>18, <1>19 DEF u

(* The free blocks beside a block in use: at most one on either side.      *)
LEMMA Beside ==
  ASSUME NEW r, RegionOk(r), NEW a \in DOMAIN r.used
  PROVE  /\ IF a + r.used[a] \in DOMAIN r.freeb
              THEN Heap!Right(r, a) = {a + r.used[a]} /\ Heap!FreeSize(r, Heap!Right(r, a)) = r.freeb[a + r.used[a]]
              ELSE Heap!Right(r, a) = {} /\ Heap!FreeSize(r, Heap!Right(r, a)) = 0
         /\ \/ Heap!Left(r, a) = {} /\ Heap!FreeSize(r, Heap!Left(r, a)) = 0
               /\ \A c \in DOMAIN r.freeb : c + r.freeb[c] # a
            \/ \E l \in DOMAIN r.freeb : /\ Heap!Left(r, a) = {l} /\ Heap!Min(Heap!Left(r, a)) = l
                                         /\ Heap!FreeSize(r, Heap!Left(r, a)) = r.freeb[l]
                                         /\ l + r.freeb[l] = a /\ l < a
<1> DEFINE f == r.freeb
           e == a + r.used[a]
<1>0. Map(f) /\ Heap!Apart(f) /\ Heap!InRegion(f)
  BY DEF RegionOk, Heap!Tiled
<1>1. \A x : Heap!Min({x}) = x \/ ~(x <= x)
  BY DEF Heap!Min
<1>2. \A x \in Nat : Heap!Min({x}) = x
  BY <1>1
<1>3. \A c \in DOMAIN f : c \in Nat /\ f[c] \in Nat /\ f[c] > 0
  BY <1>0, BlockIs
<1>4. ASSUME e \in DOMAIN f PROVE Heap!Right(r, a) = {e} /\ Heap!FreeSize(r, Heap!Right(r, a)) = f[e]
  <2>1. Heap!Right(r, a) = {e}
    BY <1>4 DEF Heap!Right
  <2> HIDE DEF e
  <2>2. Heap!Min({e}) = e
    BY <1>2, <1>3, <1>4
  <2> QED  BY <2>1, <2>2 DEF Heap!FreeSize
<1>5. ASSUME e \notin DOMAIN f PROVE Heap!Right(r, a) = {} /\ Heap!FreeSize(r, Heap!Right(r, a)) = 0
  BY <1>5 DEF Heap!Right, Heap!FreeSize
<1>6. CASE Heap!Left(r, a) = {}
  <2>1. \A c \in DOMAIN f : c + f[c] # a
    BY <1>6 DEF Heap!Left
  <2> QED  BY <1>4, <1>5, <1>6, <2>1 DEF Heap!FreeSize
<1>7. CASE Heap!Left(r, a) # {}
  <2>1. PICK l \in DOMAIN f : l \in Heap!Left(r, a) /\ l + f[l] = a
    BY <1>7 DEF Heap!Left
  <2>2. \A c \in DOMAIN f : c + f[c] = a => c = l
    <3> SUFFICES ASSUME NEW c \in DOMAIN f, c + f[c] = a PROVE c = l
      OBVIOUS
    <3>1. ~(c < l)
      <4> SUFFICES ASSUME c < l PROVE FALSE
        OBVIOUS
      <4>1. c + f[c] <= l
        BY <1>0 DEF Heap!Apart
      <4> QED  BY <1>3, <2>1, <4>1
    <3>2. ~(l < c)
      <4> SUFFICES ASSUME l < c PROVE FALSE
        OBVIOUS
      <4>1. l + f[l] <= c
        BY <1>0 DEF Heap!Apart
      <4> QED  BY <1>3, <2>1, <4>1
    <3> QED  BY <1>3, <3>1, <3>2
  <2>3. Heap!Left(r, a) = {l}
    BY <2>1, <2>2 DEF Heap!Left
  <2>4. Heap!Min({l}) = l /\ l < a
    BY <1>2, <1>3, <2>1
  <2>5. Heap!FreeSize(r, Heap!Left(r, a)) = f[l]
    BY <2>3, <2>4 DEF Heap!FreeSize
  <2> QED  BY <1>4, <1>5, <2>1, <2>3, <2>4, <2>5
<1> QED  BY <1>6, <1>7

(* Freed, a block and the free ones beside it become one: the region stays *)
(* tiled, and no two free blocks touch.                                    *)
LEMMA JoinedOk ==
  ASSUME NEW r, RegionOk(r), NEW a \in DOMAIN r.used,
         NEW q, q = [used |-> Heap!Without(r.used, {a}), freeb |-> Heap!Joined(r, a), cur |-> r.cur - r.used[a]]
  PROVE  RegionOk(q) /\ q.used = Heap!Without(r.used, {a})
<1> DEFINE u == r.used
           f == r.freeb
           n == u[a]
           e == a + n
           v == q.used
           g == q.freeb
           st == IF Heap!Left(r, a) = {} THEN a ELSE Heap!Min(Heap!Left(r, a))
           rb == Heap!FreeSize(r, Heap!Right(r, a))
           lb == Heap!FreeSize(r, Heap!Left(r, a))
           w == Heap!Without(f, Heap!Right(r, a))
           t == n + rb + lb
           end == e + rb
<1>0. v = Heap!Without(u, {a}) /\ g = Heap!With(w, st, t) /\ q.cur = r.cur - n
  BY DEF Heap!Joined
<1>1. /\ Map(u) /\ Map(f) /\ Heap!InRegion(u) /\ Heap!InRegion(f) /\ Heap!Apart(u) /\ Heap!Apart(f)
      /\ \A x \in Heap!Region : Heap!Over(u, x) <=> ~Heap!Over(f, x)
      /\ \A b \in DOMAIN f : b + f[b] \notin DOMAIN f
  BY DEF RegionOk, Heap!Tiled
<1>2. /\ a \in Nat /\ a \in Heap!Region /\ Lo <= a /\ n \in Nat /\ n > 0 /\ a + n <= Hi /\ (a - Lo) % HeapAlign = 0
      /\ e \in Nat
  BY <1>1, BlockIs
<1>3. \A c \in DOMAIN f : c # a /\ (c < a => c + f[c] <= a) /\ (a < c => e <= c)
  BY Disjoint
<1>4. \A c \in DOMAIN f : /\ c \in Nat /\ f[c] \in Nat /\ f[c] > 0 /\ c + f[c] <= Hi /\ Lo <= c /\ c \in Heap!Region
                          /\ (c - Lo) % HeapAlign = 0
  BY <1>1, BlockIs
<1>5. /\ e \in DOMAIN f => Heap!Right(r, a) = {e} /\ rb = f[e]
      /\ e \notin DOMAIN f => Heap!Right(r, a) = {} /\ rb = 0
  BY Beside
<1>6. \/ st = a /\ lb = 0 /\ \A c \in DOMAIN f : c + f[c] # a
      \/ st \in DOMAIN f /\ st + f[st] = a /\ lb = f[st] /\ st < a
  BY Beside
<1>7. \A b, c \in DOMAIN f : b < c => b + f[b] <= c
  BY <1>1 DEF Heap!Apart
<1>8. \A b \in DOMAIN f : b + f[b] \notin DOMAIN f
  BY <1>1
<1>a. a \in DOMAIN u /\ n = u[a]
  OBVIOUS
<1>w. DOMAIN w = DOMAIN f \ {e} /\ Map(w) /\ \A b \in DOMAIN f \ {e} : w[b] = f[b]
  <2>1. /\ Map(w) /\ DOMAIN w = DOMAIN f \ Heap!Right(r, a) /\ \A b \in DOMAIN f \ Heap!Right(r, a) : w[b] = f[b]
    <3>1. IsWithout(w, f, Heap!Right(r, a))
      BY <1>1, WithoutIs
    <3> HIDE DEF w
    <3> QED  BY <3>1 DEF IsWithout
  <2>2. DOMAIN f \ Heap!Right(r, a) = DOMAIN f \ {e}
    BY <1>5
  <2> QED  BY <2>1, <2>2
<1> HIDE DEF u, f, n, v, g, st, rb, lb, w
<1>9. rb \in Nat /\ lb \in Nat /\ st \in Nat /\ t \in Nat /\ end \in Nat /\ st + lb = a /\ st + t = end /\ t > 0 /\ st <= a /\ a < e /\ e <= end
      /\ st \in Heap!Region /\ Lo <= st /\ (st - Lo) % HeapAlign = 0
  <2>1. rb \in Nat
    BY <1>4, <1>5
  <2>2. lb \in Nat /\ st \in Nat /\ st + lb = a /\ st <= a /\ st \in Heap!Region /\ Lo <= st /\ (st - Lo) % HeapAlign = 0
    BY <1>2, <1>4, <1>6
  <2> QED  BY <1>2, <2>1, <2>2
<1>10. end <= Hi
  <2>1. CASE e \in DOMAIN f
    <3> HIDE DEF e
    <3> QED  BY <1>4, <1>5, <2>1
  <2>2. CASE e \notin DOMAIN f
    BY <1>2, <1>5, <2>2
  <2> QED  BY <2>1, <2>2
<1>11. e = a + n
  OBVIOUS
<1> HIDE DEF e
(* What is right of the joined block is well right of it, and so on the    *)
(* left.                                                                   *)
<1>12. ASSUME NEW c \in DOMAIN f \ {e, st} PROVE (c < st => c + f[c] < st) /\ (c > st => c > end)
  <2>1. c < st => c + f[c] <= st /\ c + f[c] # st
    <3> SUFFICES ASSUME c < st PROVE c + f[c] <= st /\ c + f[c] # st
      OBVIOUS
    <3>1. CASE st = a /\ \A b \in DOMAIN f : b + f[b] # a
      BY <1>3, <3>1
    <3>2. CASE st \in DOMAIN f
      BY <1>7, <1>8, <3>2
    <3> QED  BY <1>6, <3>1, <3>2
  <2>2. c > st => c > a
    <3> SUFFICES ASSUME c > st PROVE c > a
      OBVIOUS
    <3>1. CASE st = a
      BY <3>1
    <3>2. CASE st \in DOMAIN f /\ st + f[st] = a
      <4>1. a <= c
        BY <1>4, <1>7, <3>2
      <4> QED  BY <1>2, <1>3, <1>4, <4>1
    <3> QED  BY <1>6, <3>1, <3>2
  <2>3. c > a => c > e
    BY <1>2, <1>3, <1>4
  <2>4. c > e => c > end
    <3> SUFFICES ASSUME c > e PROVE c > end
      OBVIOUS
    <3>1. CASE e \in DOMAIN f
      <4>1. e + f[e] <= c /\ e + f[e] # c
        BY <1>4, <1>7, <1>8, <3>1
      <4> QED  BY <1>2, <1>4, <1>5, <1>9, <3>1, <4>1
    <3>2. CASE e \notin DOMAIN f
      BY <1>2, <1>5, <3>2
    <3> QED  BY <3>1, <3>2
  <2> QED  BY <1>4, <1>9, <2>1, <2>2, <2>3, <2>4
<1>13. end \notin DOMAIN f
  <2>1. CASE e \in DOMAIN f
    BY <1>5, <1>8, <2>1
  <2>2. CASE e \notin DOMAIN f
    BY <1>2, <1>5, <2>2
  <2> QED  BY <2>1, <2>2
<1> DEFINE D == DOMAIN f \ {e, st}
<1> HIDE DEF t, end
(* The map of the free blocks.                                             *)
<1>14. /\ Map(g) /\ DOMAIN g = D \cup {st} /\ g[st] = t /\ \A c \in D : g[c] = f[c]
       /\ \A x : Heap!Over(g, x) <=> (st <= x /\ x < st + t) \/ \E c \in D : c <= x /\ x < c + f[c]
  <2>1. IsWith(g, w, st, t)
    BY <1>0, <1>9, <1>w, WithIs
  <2>2. DOMAIN w \ {st} = D /\ \A c \in D : w[c] = f[c]
    BY <1>w
  <2>3. DOMAIN w \cup {st} = D \cup {st}
    BY <1>9, <1>w
  <2> HIDE DEF D
  <2> QED  BY <2>1, <2>2, <2>3 DEF IsWith
<1>15. Heap!InRegion(g) /\ Heap!Apart(g) /\ \A b \in DOMAIN g : b + g[b] \notin DOMAIN g
  <2>1. ASSUME NEW b \in DOMAIN g PROVE b >= Lo /\ g[b] > 0 /\ b + g[b] <= Hi /\ (b - Lo) % HeapAlign = 0
    <3>1. CASE b = st
      BY <1>9, <1>10, <1>14, <3>1
    <3>2. CASE b \in D
      BY <1>4, <1>14, <3>2
    <3> QED  BY <1>14, <3>1, <3>2
  <2>2. ASSUME NEW b \in DOMAIN g, NEW c \in DOMAIN g PROVE (b < c => b + g[b] <= c) /\ b + g[b] # c
    <3>1. CASE b \in D /\ c \in D
      <4>1. g[b] = f[b] /\ b \in DOMAIN f /\ c \in DOMAIN f
        BY <1>14, <3>1
      <4> QED  BY <1>7, <1>8, <4>1
    <3>2. CASE b = st /\ c \in D
      <4>1. c \in Nat /\ c # end /\ (c > st => c > end) /\ b + g[b] = end
        BY <1>4, <1>9, <1>12, <1>13, <1>14, <3>2
      <4> QED  BY <1>9, <3>2, <4>1
    <3>3. CASE b \in D /\ c = st
      <4>1. g[b] = f[b] /\ b \in Nat /\ f[b] \in Nat /\ (b < st => b + f[b] < st) /\ f[b] > 0 /\ b # st
        BY <1>4, <1>12, <1>14, <3>3
      <4> QED  BY <1>9, <3>3, <4>1
    <3>4. CASE b = st /\ c = st
      BY <1>9, <1>14, <3>4
    <3> QED  BY <1>14, <3>1, <3>2, <3>3, <3>4
  <2>3. \A b \in DOMAIN g : b + g[b] \notin DOMAIN g
    BY <2>2
  <2> QED  BY <2>1, <2>2, <2>3 DEF Heap!InRegion, Heap!Apart
(* The map of the blocks in use.                                           *)
<1>16. /\ Map(v) /\ DOMAIN v = DOMAIN u \ {a} /\ \A b \in DOMAIN u \ {a} : v[b] = u[b]
       /\ \A x : Heap!Over(v, x) <=> \E b \in DOMAIN u \ {a} : b <= x /\ x < b + u[b]
  <2>1. IsWithout(v, u, {a})
    BY <1>0, <1>1, WithoutIs
  <2> QED  BY <2>1 DEF IsWithout
<1>17. Heap!InRegion(v) /\ Heap!Apart(v)
  BY <1>1, <1>16 DEF Heap!InRegion, Heap!Apart
<1>u. \A b \in DOMAIN u : b \in Nat /\ u[b] \in Nat
  BY <1>1, BlockIs
<1>18. \A x \in Nat : /\ Heap!Over(u, x) <=> Heap!Over(v, x) \/ (a <= x /\ x < e)
                      /\ ~(Heap!Over(v, x) /\ a <= x /\ x < e)
  <2> TAKE x \in Nat
  <2>1. Heap!Over(u, x) <=> Heap!Over(v, x) \/ (a <= x /\ x < e)
    BY <1>a, <1>11, <1>16 DEF Heap!Over
  <2>2. ~(Heap!Over(v, x) /\ a <= x /\ x < e)
    <3> SUFFICES ASSUME NEW b \in DOMAIN u \ {a}, b <= x, x < b + u[b], a <= x, x < e PROVE FALSE
      BY <1>16
    <3>1. b < a => b + u[b] <= a
      BY <1>1, <1>a DEF Heap!Apart
    <3>2. a < b => e <= b
      BY <1>1, <1>a, <1>11 DEF Heap!Apart
    <3> QED  BY <1>2, <1>u, <3>1, <3>2
  <2> QED  BY <2>1, <2>2
<1>19. \A x \in Nat : Heap!Over(g, x) <=> Heap!Over(f, x) \/ (a <= x /\ x < e)
  <2> TAKE x \in Nat
  <2>1. Heap!Over(f, x) <=> \/ \E c \in D : c <= x /\ x < c + f[c]
                            \/ e \in DOMAIN f /\ e <= x /\ x < e + f[e]
                            \/ st \in DOMAIN f /\ st <= x /\ x < st + f[st]
    BY DEF Heap!Over
  <2>2. e \in DOMAIN f /\ e <= x /\ x < e + f[e] <=> e <= x /\ x < end
    <3>1. CASE e \in DOMAIN f
      BY <1>5, <3>1 DEF end
    <3>2. CASE e \notin DOMAIN f
      BY <1>2, <1>5, <3>2 DEF end
    <3> QED  BY <3>1, <3>2
  <2>3. st \in DOMAIN f /\ st <= x /\ x < st + f[st] <=> st <= x /\ x < a
    <3>1. CASE st = a
      BY <1>2, <1>3, <3>1
    <3>2. CASE st \in DOMAIN f /\ st + f[st] = a
      BY <3>2
    <3> QED  BY <1>6, <3>1, <3>2
  <2>4. st <= x /\ x < st + t <=> (st <= x /\ x < a) \/ (a <= x /\ x < e) \/ (e <= x /\ x < end)
    BY <1>2, <1>9
  <2>5. Heap!Over(g, x) <=> (st <= x /\ x < st + t) \/ \E c \in D : c <= x /\ x < c + f[c]
    BY <1>14
  <2> HIDE DEF D
  <2> QED  BY <2>1, <2>2, <2>3, <2>4, <2>5
<1>20. \A x \in Heap!Region : Heap!Over(v, x) <=> ~Heap!Over(g, x)
  <2> TAKE x \in Heap!Region
  <2>1. x \in Nat
    BY RegionNat
  <2>2. a <= x /\ x < e => Heap!Over(u, x)
    BY <1>18, <2>1
  <2> QED  BY <1>1, <1>18, <1>19, <2>1, <2>2
<1>21. Heap!Counted(q) /\ q.cur \in Nat
  <2> DEFINE S == {x \in Heap!Region : Heap!Over(u, x)}
             T == {x \in Heap!Region : Heap!Over(v, x)}
             W == Within(a, n)
  <2>1. S = T \cup W /\ T \cap W = {}
    BY <1>11, <1>18, RegionNat DEF Within
  <2>2. Cardinality(W) = n
    BY <1>2, <1>11, WithinCount
  <2>3. r.cur = Cardinality(S)
    BY SpaceCount DEF RegionOk, Heap!Counted, u
  <2>4. T \subseteq Heap!Region /\ W \subseteq Heap!Region
    BY DEF Within
  <2> HIDE DEF T, W
  <2>5. Cardinality(T) \in Nat /\ Cardinality(W) \in Nat /\ Cardinality(S) = Cardinality(T) + Cardinality(W)
    <3> HIDE DEF S
    <3> QED  BY <2>1, <2>4, CountJoined
  <2> HIDE DEF S
  <2>6. q.cur = Cardinality(T)
    BY <1>0, <2>2, <2>3, <2>5
  <2> QED  BY <2>5, <2>6, SpaceCount DEF T, Heap!Counted, v
<1>22. Heap!Tiled(q)
  BY <1>15, <1>17, <1>20 DEF Heap!Tiled, v, g
<1> QED  BY <1>0, <1>14, <1>16, <1>21, <1>22 DEF RegionOk, v, g, u

(* alloc and free on a region that is in order.                            *)
LEMMA AllocKeeps ==
  ASSUME NEW r, RegionOk(r), NEW n \in Nat, Heap!Alloc(r, n) # 0,
         NEW q, q = Heap!AfterAlloc(r, n), NEW a, a = Heap!Alloc(r, n), NEW s, s = Heap!Rounded(n)
  PROVE  /\ RegionOk(q) /\ a \in Heap!Region /\ a # 0 /\ s \in Nat /\ s >= n /\ s > 0 /\ a + s <= Hi
         /\ a \notin DOMAIN r.used /\ IsWith(q.used, r.used, a, s)
         /\ \A x \in Within(a, s) : ~Heap!Over(r.used, x)
<1>1. s \in Nat /\ s > 0 /\ s >= n /\ s % HeapAlign = 0
  BY RoundedIs
<1>2. /\ a \in DOMAIN r.freeb /\ r.freeb[a] >= s
      /\ q = [used |-> Heap!With(r.used, a, s), freeb |-> Heap!Carved(r, a, s), cur |-> r.cur + s]
  BY AllocIs
<1>3. /\ RegionOk(q) /\ a \in Heap!Region /\ a + s <= Hi /\ a \notin DOMAIN r.used
      /\ q.used = Heap!With(r.used, a, s)
      /\ \A x \in Within(a, s) : ~Heap!Over(r.used, x)
  BY <1>1, <1>2, CarvedOk
<1>4. Map(r.used)
  BY DEF RegionOk
<1>5. IsWith(q.used, r.used, a, s)
  BY <1>1, <1>3, <1>4, WithIs
<1> QED  BY <1>1, <1>3, <1>5

LEMMA AllocRefused ==
  ASSUME NEW r, NEW n, Heap!Alloc(r, n) = 0
  PROVE  Heap!AfterAlloc(r, n) = r
BY DEF Heap!AfterAlloc

LEMMA FreeKeeps ==
  ASSUME NEW r, RegionOk(r), NEW a \in DOMAIN r.used, NEW q, q = Heap!AfterFree(r, a)
  PROVE  RegionOk(q) /\ IsWithout(q.used, r.used, {a})
<1>1. q = [used |-> Heap!Without(r.used, {a}), freeb |-> Heap!Joined(r, a), cur |-> r.cur - r.used[a]]
  BY DEF Heap!AfterFree
<1>2. RegionOk(q) /\ q.used = Heap!Without(r.used, {a})
  BY <1>1, JoinedOk
<1>3. Map(r.used)
  BY DEF RegionOk
<1> QED  BY <1>2, <1>3, WithoutIs

(* Two blocks in use share no unit.                                        *)
LEMMA UsedApart ==
  ASSUME NEW r, RegionOk(r), NEW a \in DOMAIN r.used, NEW b \in DOMAIN r.used, a # b
  PROVE  /\ a \in Nat /\ b \in Nat /\ r.used[a] \in Nat /\ r.used[b] \in Nat
         /\ \A x \in Nat : ~(a <= x /\ x < a + r.used[a] /\ b <= x /\ x < b + r.used[b])
<1>1. Map(r.used) /\ Heap!InRegion(r.used) /\ Heap!Apart(r.used)
  BY DEF RegionOk, Heap!Tiled
<1>2. a \in Nat /\ b \in Nat /\ r.used[a] \in Nat /\ r.used[b] \in Nat
  BY <1>1, BlockIs
<1>3. (a < b => a + r.used[a] <= b) /\ (b < a => b + r.used[b] <= a)
  BY <1>1 DEF Heap!Apart
<1> QED  BY <1>2, <1>3

-----------------------------------------------------------------------------
(* The heaps                                                               *)

LEMMA Replaced ==
  ASSUME NEW S, NEW q \in Seq(S), NEW i \in 1 .. Len(q), NEW w \in S
  PROVE  /\ [q EXCEPT ![i] = w] \in Seq(S) /\ Len([q EXCEPT ![i] = w]) = Len(q)
         /\ \A k \in 1 .. Len(q) : [q EXCEPT ![i] = w][k] = IF k = i THEN w ELSE q[k]
OBVIOUS

LEMMA Appended ==
  ASSUME NEW S, NEW q \in Seq(S), NEW a \in S
  PROVE  /\ Append(q, a) \in Seq(S) /\ Len(Append(q, a)) = Len(q) + 1
         /\ \A k \in 1 .. Len(q) : Append(q, a)[k] = q[k]
         /\ Append(q, a)[Len(q) + 1] = a
OBVIOUS

Grant == [at : Nat, n : Nat, data : Seq(Nat)]
Memory == [Heap!Region -> Nat]
(* A grant that was not given back is a block in use, large enough, and    *)
(* the memory holds its data.                                              *)
Held(u, m, b) ==
  IF b.at = 0 THEN b.n = 0
  ELSE /\ b.at \in DOMAIN u /\ u[b.at] >= b.n
       /\ \A j \in 1 .. b.n : m[b.at + j - 1] = b.data[j]
Distinct(q) == \A i, k \in 1 .. Len(q) : q[i].at # 0 /\ q[i].at = q[k].at => i = k
HeapInv ==
  /\ RegionOk(x1) /\ x2 \in Memory /\ x3 \in Seq(Grant)
  /\ \A i \in 1 .. Len(x3) : Held(x1.used, x2, x3[i])
  /\ Distinct(x3)

LEMMA HeapSays == HeapInv => Heap!BlocksKept
<1> SUFFICES ASSUME HeapInv PROVE Heap!BlocksKept
  OBVIOUS
<1>1. Heap!Tiled(x1) /\ Heap!Counted(x1)
  BY DEF HeapInv, RegionOk
<1>2. ASSUME NEW i \in 1 .. Len(x3), x3[i].at # 0
      PROVE  /\ Heap!SizeOf(x1, x3[i].at) >= x3[i].n /\ \A k \in Heap!Live(x3[i].at) : k = i
             /\ \A j \in 1 .. x3[i].n : x2[x3[i].at + j - 1] = x3[i].data[j]
  <2>1. x3[i].at \in DOMAIN x1.used /\ x1.used[x3[i].at] >= x3[i].n /\ \A j \in 1 .. x3[i].n : x2[x3[i].at + j - 1] = x3[i].data[j]
    BY <1>2 DEF HeapInv, Held
  <2>2. \A k \in Heap!Live(x3[i].at) : k = i
    BY <1>2 DEF Heap!Live, Heap!Allocs, HeapInv, Distinct
  <2> QED  BY <2>1, <2>2 DEF Heap!SizeOf
<1> QED  BY <1>1, <1>2 DEF Heap!BlocksKept, Heap!Allocs

LEMMA HeapStart == Heap!Init => HeapInv
<1> SUFFICES ASSUME Heap!Init PROVE HeapInv
  OBVIOUS
<1>1. x1 = Heap!Fresh /\ x2 \in Memory /\ x3 = <<>>
  BY DEF Heap!Init, Memory
<1>2. x3 \in Seq(Grant) /\ Len(x3) = 0
  BY <1>1
<1> QED  BY <1>1, <1>2, FreshOk DEF HeapInv, Distinct

(* Data stays where nobody writes, whatever is carved or given back        *)
(* elsewhere.                                                              *)
LEMMA StillHeld ==
  ASSUME NEW r, RegionOk(r), NEW a \in DOMAIN r.used, NEW b \in Grant, NEW m \in Memory, NEW m2 \in Memory,
         Held(r.used, m, b), b.at # a,
         \A x \in Heap!Region : ~(a <= x /\ x < a + r.used[a]) => m2[x] = m[x]
  PROVE  Held(r.used, m2, b)
<1>1. CASE b.at = 0
  BY <1>1 DEF Held
<1>2. CASE b.at # 0
  <2>1. b.at \in DOMAIN r.used /\ r.used[b.at] >= b.n /\ \A j \in 1 .. b.n : m[b.at + j - 1] = b.data[j]
    BY <1>2 DEF Held
  <2>2. /\ a \in Nat /\ b.at \in Nat /\ r.used[a] \in Nat /\ r.used[b.at] \in Nat
        /\ \A x \in Nat : ~(a <= x /\ x < a + r.used[a] /\ b.at <= x /\ x < b.at + r.used[b.at])
    BY <2>1, UsedApart
  <2>3. b.at + r.used[b.at] <= Hi /\ Lo <= b.at
    BY <2>1, BlockIs DEF RegionOk, Heap!Tiled
  <2>4. ASSUME NEW j \in 1 .. b.n PROVE m2[b.at + j - 1] = b.data[j]
    <3> DEFINE x == b.at + j - 1
    <3>1. b.n \in Nat
      BY DEF Grant
    <3>2. x \in Nat /\ b.at <= x /\ x < b.at + r.used[b.at]
      BY <2>1, <2>2, <3>1
    <3>3. x \in Heap!Region
      BY <2>2, <2>3, <3>2, RegionNat, SpaceIs
    <3>4. m2[x] = m[x]
      <4> HIDE DEF x
      <4> QED  BY <2>2, <3>2, <3>3
    <3> QED  BY <2>1, <3>4
  <2> QED  BY <1>2, <2>1, <2>4 DEF Held
<1> QED  BY <1>1, <1>2

LEMMA HeldInMore ==
  ASSUME NEW u, NEW v, NEW a, NEW s, IsWith(v, u, a, s), a \notin DOMAIN u, NEW b \in Grant, NEW m, Held(u, m, b)
  PROVE  Held(v, m, b) /\ (a # 0 => b.at # a)
BY DEF Held, IsWith

LEMMA HeldInFewer ==
  ASSUME NEW u, NEW v, NEW a, IsWithout(v, u, {a}), NEW b \in Grant, b.at # a, NEW m, Held(u, m, b)
  PROVE  Held(v, m, b)
BY DEF Held, IsWithout

(* What is written where.                                                  *)
LEMMA FilledIs ==
  ASSUME NEW a \in Nat, NEW n \in Nat, NEW d \in Nat, x2 \in Memory, NEW m, m = Heap!Filled(a, n, d)
  PROVE  /\ m \in Memory
         /\ \A x \in Heap!Region : m[x] = IF x >= a /\ x < a + n THEN d ELSE x2[x]
BY DEF Heap!Filled, Memory

LEMMA HeapAllocKeeps ==
  ASSUME HeapInv, NEW n \in Nat, NEW zero \in BOOLEAN, Heap!HeapAlloc(n, zero)
  PROVE  HeapInv'
<1> DEFINE a == Heap!Alloc(x1, n)
           s == Heap!Rounded(n)
<1>1. x1' = Heap!AfterAlloc(x1, n)
  BY DEF Heap!HeapAlloc
<1>2. CASE a = 0
  <2>1. x1' = x1 /\ UNCHANGED <<x2, x3>>
    BY <1>1, <1>2, AllocRefused DEF Heap!HeapAlloc
  <2> QED  BY <2>1 DEF HeapInv, Distinct
<1>3. CASE a # 0
  <2> DEFINE data == IF zero THEN [j \in 1 .. n |-> 0] ELSE [j \in 1 .. n |-> x2[a + j - 1]]
             b == Heap!Block(a, n, data)
             u == x1.used
             v == x1'.used
  <2>1. x2' = (IF zero THEN Heap!Filled(a, n, 0) ELSE x2) /\ x3' = Append(x3, b)
    BY <1>3 DEF Heap!HeapAlloc
  <2>2. /\ RegionOk(x1') /\ a \in Heap!Region /\ a # 0 /\ s \in Nat /\ s >= n /\ s > 0 /\ a + s <= Hi
        /\ a \notin DOMAIN u /\ IsWith(v, u, a, s)
    BY <1>1, <1>3, AllocKeeps DEF HeapInv
  <2>3. a \in Nat /\ Lo <= a
    BY <2>2, RegionNat
  <2>m. x2 \in Memory
    BY DEF HeapInv
  <2> HIDE DEF a, s
  <2>4. \A j \in 1 .. n : a + j - 1 \in Heap!Region /\ a + j - 1 >= a /\ a + j - 1 < a + n
    BY <2>2, <2>3, RegionNat, SpaceIs
  <2>5. data \in Seq(Nat) /\ DOMAIN data = 1 .. n /\ \A j \in 1 .. n : data[j] = IF zero THEN 0 ELSE x2[a + j - 1]
    <3>1. \A j \in 1 .. n : x2[a + j - 1] \in Nat
      BY <2>4, <2>m DEF Memory
    <3>2. CASE zero = TRUE
      BY <3>2
    <3>3. CASE zero = FALSE
      BY <3>1, <3>3
    <3> QED  BY <3>2, <3>3
  <2> HIDE DEF data
  <2>6. b \in Grant /\ b.at = a /\ b.n = n /\ b.data = data
    BY <2>3, <2>5 DEF Heap!Block, Grant
  <2> HIDE DEF b
  <2>7. x2' \in Memory /\ \A x \in Heap!Region : x2'[x] = IF zero /\ x >= a /\ x < a + n THEN 0 ELSE x2[x]
    <3>1. CASE zero = TRUE
      <4>1. x2' = Heap!Filled(a, n, 0)
        BY <2>1, <3>1
      <4> QED  BY <2>3, <2>m, <3>1, <4>1, FilledIs
    <3>2. CASE zero = FALSE
      BY <2>1, <2>m, <3>2
    <3> QED  BY <3>1, <3>2
  <2>8. /\ x3' \in Seq(Grant) /\ Len(x3') = Len(x3) + 1 /\ x3'[Len(x3) + 1] = b
        /\ \A k \in 1 .. Len(x3) : x3'[k] = x3[k]
    BY <2>1, <2>6, Appended DEF HeapInv
  <2>9. a \in DOMAIN v /\ v[a] = s
    BY <2>2 DEF IsWith
  <2>10. Held(v, x2', b)
    <3>1. \A j \in 1 .. n : x2'[a + j - 1] = data[j]
      <4> SUFFICES ASSUME NEW j \in 1 .. n PROVE x2'[a + j - 1] = data[j]
        OBVIOUS
      <4>1. CASE zero = TRUE
        BY <2>4, <2>5, <2>7, <4>1
      <4>2. CASE zero = FALSE
        BY <2>4, <2>5, <2>7, <4>2
      <4> QED  BY <4>1, <4>2
    <3> QED  BY <2>2, <2>6, <2>9, <3>1 DEF Held
  <2>11. ASSUME NEW k \in 1 .. Len(x3) PROVE Held(v, x2', x3[k]) /\ x3[k].at # a
    <3>1. Held(u, x2, x3[k]) /\ x3[k] \in Grant
      BY DEF HeapInv
    <3>2. Held(v, x2, x3[k]) /\ x3[k].at # a
      BY <2>2, <3>1, HeldInMore
    <3>3. \A x \in Heap!Region : ~(a <= x /\ x < a + v[a]) => x2'[x] = x2[x]
      BY <2>2, <2>3, <2>7, <2>9, RegionNat
    <3> QED  BY <2>2, <2>7, <2>9, <2>m, <3>1, <3>2, <3>3, StillHeld
  <2>12. \A k \in 1 .. Len(x3') : k \in 1 .. Len(x3) \/ k = Len(x3) + 1
    BY <2>8 DEF HeapInv
  <2>13. \A k \in 1 .. Len(x3') : Held(v, x2', x3'[k])
    BY <2>8, <2>10, <2>11, <2>12
  <2>14. Distinct(x3')
    <3> SUFFICES ASSUME NEW i \in 1 .. Len(x3'), NEW k \in 1 .. Len(x3'), x3'[i].at # 0, x3'[i].at = x3'[k].at PROVE i = k
      BY DEF Distinct
    <3>1. CASE i \in 1 .. Len(x3) /\ k \in 1 .. Len(x3)
      BY <2>8, <3>1 DEF HeapInv, Distinct
    <3>2. CASE i \in 1 .. Len(x3) /\ k = Len(x3) + 1
      BY <2>6, <2>8, <2>11, <3>2
    <3>3. CASE i = Len(x3) + 1 /\ k \in 1 .. Len(x3)
      BY <2>6, <2>8, <2>11, <3>3
    <3> QED  BY <2>12, <3>1, <3>2, <3>3
  <2> QED  BY <2>2, <2>7, <2>8, <2>13, <2>14 DEF HeapInv
<1> QED  BY <1>2, <1>3

LEMMA WriteKeepsHeap ==
  ASSUME HeapInv, NEW i \in 1 .. Len(x3), Heap!Write(i)
  PROVE  HeapInv'
<1> DEFINE a == x3[i].at
           n == x3[i].n
           data == [j \in 1 .. n |-> i]
           b == [x3[i] EXCEPT !.data = data]
<1>1. x3[i] \in Grant /\ Held(x1.used, x2, x3[i]) /\ x2 \in Memory /\ RegionOk(x1)
  BY DEF HeapInv
<1>2. a \in Nat /\ n \in Nat /\ i \in Nat
  BY <1>1 DEF Grant
<1>3. x1' = x1 /\ x2' = Heap!Filled(a, n, i) /\ x3' = [x3 EXCEPT ![i].data = data]
  BY DEF Heap!Write
<1>4. x2' \in Memory /\ \A x \in Heap!Region : x2'[x] = IF x >= a /\ x < a + n THEN i ELSE x2[x]
  BY <1>1, <1>2, <1>3, FilledIs
<1>5. data \in Seq(Nat) /\ DOMAIN data = 1 .. n /\ \A j \in 1 .. n : data[j] = i
  BY <1>2
<1> HIDE DEF data
<1>6. b \in Grant /\ b.at = a /\ b.n = n /\ b.data = data
  BY <1>1, <1>5 DEF Grant
<1>7. x3' = [x3 EXCEPT ![i] = b]
  BY <1>3 DEF HeapInv
<1> HIDE DEF b
<1>8. x3' \in Seq(Grant) /\ Len(x3') = Len(x3) /\ \A k \in 1 .. Len(x3) : x3'[k] = IF k = i THEN b ELSE x3[k]
  BY <1>6, <1>7, Replaced DEF HeapInv
<1>9. \A k \in 1 .. Len(x3) : x3'[k].at = x3[k].at
  BY <1>6, <1>8
<1>10. Distinct(x3')
  BY <1>8, <1>9 DEF Distinct, HeapInv
<1>11. ASSUME NEW k \in 1 .. Len(x3) PROVE Held(x1.used, x2', x3'[k])
  <2>0. x3[k] \in Grant /\ Held(x1.used, x2, x3[k])
    BY DEF HeapInv
  <2>1. CASE a = 0
    <3>1. n = 0
      BY <1>1, <2>1 DEF Held
    <3>2. \A x \in Heap!Region : x2'[x] = x2[x]
      BY <1>4, <2>1, <3>1, RegionNat
    <3>3. x2' = x2
      BY <1>1, <1>4, <3>2 DEF Memory
    <3>4. CASE k = i
      BY <1>6, <1>8, <2>1, <3>1, <3>4 DEF Held
    <3>5. CASE k # i
      BY <1>8, <2>0, <3>3, <3>5
    <3> QED  BY <3>4, <3>5
  <2>2. CASE a # 0
    <3> DEFINE u == x1.used
    <3>1. a \in DOMAIN u /\ u[a] >= n
      BY <1>1, <2>2 DEF Held
    <3>2. u[a] \in Nat /\ Lo <= a /\ a + u[a] <= Hi
      BY <1>1, <3>1, BlockIs DEF RegionOk, Heap!Tiled
    <3>3. CASE k = i
      <4>1. \A j \in 1 .. n : a + j - 1 \in Heap!Region /\ a + j - 1 >= a /\ a + j - 1 < a + n
        <5> DEFINE cap == u[a]
        <5>1. cap \in Nat /\ n <= cap /\ a + cap <= Hi
          BY <3>1, <3>2
        <5> HIDE DEF cap, n, a
        <5> SUFFICES ASSUME NEW j \in 1 .. n PROVE a + j - 1 \in Heap!Region /\ a + j - 1 >= a /\ a + j - 1 < a + n
          OBVIOUS
        <5> DEFINE y == a + j - 1
        <5>2. y \in Nat /\ y >= a /\ y < a + n /\ y < Hi /\ Lo <= y
          BY <1>2, <3>2, <5>1, SpaceIs
        <5> HIDE DEF y
        <5>3. y \in Heap!Region
          BY <5>2, RegionNat
        <5> QED  BY <5>2, <5>3 DEF y
      <4>2. \A j \in 1 .. n : x2'[a + j - 1] = data[j]
        BY <1>4, <1>5, <4>1
      <4> QED  BY <1>6, <1>8, <2>2, <3>1, <3>3, <4>2 DEF Held
    <3>4. CASE k # i
      <4>1. x3[k].at # a
        BY <2>2, <3>4 DEF HeapInv, Distinct
      <4>2. \A x \in Heap!Region : ~(a <= x /\ x < a + u[a]) => x2'[x] = x2[x]
        BY <1>2, <1>4, <3>1, <3>2, RegionNat
      <4>3. Held(x1.used, x2', x3[k])
        BY <1>1, <1>4, <2>0, <3>1, <4>1, <4>2, StillHeld
      <4> QED  BY <1>8, <3>4, <4>3
    <3> QED  BY <3>3, <3>4
  <2> QED  BY <2>1, <2>2
<1> QED  BY <1>1, <1>3, <1>4, <1>8, <1>10, <1>11 DEF HeapInv

(* A grant that is given back, and the others with it.                     *)
LEMMA GoneIs ==
  ASSUME HeapInv, NEW i \in 1 .. Len(x3), NEW q, q = Heap!Gone(i)
  PROVE  /\ q \in Seq(Grant) /\ Len(q) = Len(x3) /\ q[i].at = 0 /\ q[i].n = 0
         /\ \A k \in 1 .. Len(x3) : k # i => q[k] = x3[k]
         /\ Distinct(q)
<1> DEFINE b == Heap!Block(0, 0, <<>>)
<1>1. b \in Grant /\ b.at = 0 /\ b.n = 0
  BY DEF Heap!Block, Grant
<1>2. q = [x3 EXCEPT ![i] = b]
  BY DEF Heap!Gone
<1> HIDE DEF b
<1>3. /\ q \in Seq(Grant) /\ Len(q) = Len(x3)
      /\ \A k \in 1 .. Len(x3) : q[k] = IF k = i THEN b ELSE x3[k]
  BY <1>1, <1>2, Replaced DEF HeapInv
<1>4. Distinct(q)
  BY <1>1, <1>3 DEF Distinct, HeapInv
<1> QED  BY <1>1, <1>3, <1>4

LEMMA FreeKeepsHeap ==
  ASSUME HeapInv, NEW i \in 1 .. Len(x3), Heap!HeapFree(i)
  PROVE  HeapInv'
<1> DEFINE a == x3[i].at
<1>1. a # 0 /\ x1' = Heap!AfterFree(x1, a) /\ x3' = Heap!Gone(i) /\ x2' = x2
  BY DEF Heap!HeapFree
<1>2. a \in DOMAIN x1.used
  BY <1>1 DEF HeapInv, Held
<1>3. RegionOk(x1') /\ IsWithout(x1'.used, x1.used, {a})
  BY <1>1, <1>2, FreeKeeps DEF HeapInv
<1>4. /\ x3' \in Seq(Grant) /\ Len(x3') = Len(x3) /\ x3'[i].at = 0 /\ x3'[i].n = 0
      /\ \A k \in 1 .. Len(x3) : k # i => x3'[k] = x3[k]
      /\ Distinct(x3')
  BY <1>1, GoneIs
<1>5. ASSUME NEW k \in 1 .. Len(x3) PROVE Held(x1'.used, x2, x3'[k])
  <2>1. CASE k = i
    BY <1>4, <2>1 DEF Held
  <2>2. CASE k # i
    <3>1. x3[k] \in Grant /\ Held(x1.used, x2, x3[k]) /\ x3[k].at # a
      BY <1>1, <2>2 DEF HeapInv, Distinct
    <3>2. Held(x1'.used, x2, x3[k])
      BY <1>3, <3>1, HeldInFewer
    <3> QED  BY <1>4, <2>2, <3>2
  <2> QED  BY <2>1, <2>2
<1> QED  BY <1>1, <1>3, <1>4, <1>5 DEF HeapInv

(* A copy of cp units from old to a.                                       *)
LEMMA CopiedIs ==
  ASSUME x2 \in Memory, NEW a \in Nat, NEW cp \in Nat, NEW old \in Nat,
         \A x \in Heap!Region : x >= a /\ x < a + cp => old + x - a \in Heap!Region,
         NEW m, m = [x \in Heap!Region |-> IF a # 0 /\ x >= a /\ x < a + cp THEN x2[old + x - a] ELSE x2[x]]
  PROVE  /\ m \in Memory
         /\ \A x \in Heap!Region : ~(a <= x /\ x < a + cp) => m[x] = x2[x]
BY DEF Memory

LEMMA ReAllocKeepsHeap ==
  ASSUME HeapInv, NEW i \in 1 .. Len(x3), NEW n \in Nat, Heap!HeapReAlloc(i, n)
  PROVE  HeapInv'
<1> DEFINE a == Heap!Alloc(x1, n)
           old == x3[i].at
           u == x1.used
           cp == Heap!CopyLen(Heap!SizeOf(x1, old), n)
           copied == [x \in Heap!Region |-> IF a # 0 /\ x >= a /\ x < a + cp THEN x2[old + x - a] ELSE x2[x]]
           data == [j \in 1 .. n |-> IF j <= x3[i].n THEN x3[i].data[j] ELSE copied[a + j - 1]]
           b == Heap!Block(a, n, data)
           r1 == Heap!AfterAlloc(x1, n)
           s == Heap!Rounded(n)
<1>1. /\ old # 0 /\ x1' = Heap!Freed(r1, old, a) /\ x2' = copied
      /\ x3' = (IF a = 0 THEN x3 ELSE Append(Heap!Gone(i), b))
  BY DEF Heap!HeapReAlloc
<1>2. RegionOk(x1) /\ x2 \in Memory /\ x3 \in Seq(Grant) /\ Distinct(x3) /\ x3[i] \in Grant /\ Held(u, x2, x3[i])
  BY DEF HeapInv
<1>3. old \in DOMAIN u /\ x3[i].n <= u[old] /\ \A j \in 1 .. x3[i].n : x2[old + j - 1] = x3[i].data[j]
  BY <1>1, <1>2 DEF Held
<1>4. old \in Nat /\ Lo <= old /\ u[old] \in Nat /\ u[old] > 0 /\ old + u[old] <= Hi /\ x3[i].n \in Nat
  BY <1>2, <1>3, BlockIs DEF RegionOk, Heap!Tiled, Grant
<1>5. cp = (IF u[old] < n THEN u[old] ELSE n)
  BY <1>3, <1>4 DEF Heap!CopyLen, Heap!Least, Heap!SizeOf
<1> HIDE DEF cp
<1>6. cp \in Nat /\ cp <= n /\ cp <= u[old]
  BY <1>4, <1>5
<1>7. CASE a = 0
  <2>1. x1' = x1 /\ x3' = x3
    BY <1>1, <1>7, AllocRefused DEF Heap!Freed
  <2>2. x2' = x2
    BY <1>1, <1>2, <1>7 DEF Memory
  <2> QED  BY <2>1, <2>2 DEF HeapInv, Distinct
<1>8. CASE a # 0
  <2>1. /\ RegionOk(r1) /\ a \in Heap!Region /\ s \in Nat /\ s >= n /\ s > 0 /\ a + s <= Hi
        /\ a \notin DOMAIN u /\ IsWith(r1.used, u, a, s)
        /\ \A x \in Within(a, s) : ~Heap!Over(u, x)
    BY <1>2, <1>8, AllocKeeps
  <2>2. a \in Nat /\ Lo <= a /\ a # old
    BY <1>3, <2>1, RegionNat
  <2>3. x1' = Heap!AfterFree(r1, old)
    BY <1>1, <1>8 DEF Heap!Freed
  <2> HIDE DEF r1, s, a
  <2>4. old \in DOMAIN r1.used /\ a \in DOMAIN r1.used /\ r1.used[a] = s /\ r1.used[old] = u[old]
    BY <1>3, <2>1, <2>2 DEF IsWith
  <2>5. RegionOk(x1') /\ IsWithout(x1'.used, r1.used, {old})
    BY <2>1, <2>3, <2>4, FreeKeeps
  <2>6. \A x \in Heap!Region : x >= a /\ x < a + cp => old + x - a \in Heap!Region
    <3> DEFINE room == u[old]
    <3>1. room \in Nat /\ old + room <= Hi /\ cp <= room
      BY <1>4, <1>6
    <3> HIDE DEF room, old
    <3> SUFFICES ASSUME NEW x \in Heap!Region, x >= a, x < a + cp PROVE old + x - a \in Heap!Region
      OBVIOUS
    <3>2. x \in Nat /\ x - a \in Nat /\ x - a < cp
      BY <1>6, <2>2, RegionNat
    <3>3. old + x - a \in Nat /\ old + x - a >= old /\ old + x - a < old + room
      BY <1>4, <1>6, <3>1, <3>2
    <3> QED  BY <1>4, <3>1, <3>3, RegionNat, SpaceIs
  <2>7. copied \in Memory /\ \A x \in Heap!Region : ~(a <= x /\ x < a + cp) => copied[x] = x2[x]
    <3> HIDE DEF old
    <3>1. a \in Nat /\ cp \in Nat /\ old \in Nat /\ x2 \in Memory
      BY <1>2, <1>4, <1>6, <2>2
    <3> QED  BY <2>6, <3>1, CopiedIs
  <2>8. \A x \in Heap!Region : x >= a /\ x < a + cp => copied[x] = x2[old + x - a]
    BY <1>8, <2>2
  <2>9. \A j \in 1 .. n : a + j - 1 \in Heap!Region
    BY <2>1, <2>2, RegionNat, SpaceIs
  <2> HIDE DEF copied
  <2>10. \A j \in 1 .. cp : copied[a + j - 1] = x2[old + j - 1]
    <3> SUFFICES ASSUME NEW j \in 1 .. cp PROVE copied[a + j - 1] = x2[old + j - 1]
      OBVIOUS
    <3> DEFINE x == a + j - 1
    <3>1. x \in Heap!Region /\ x >= a /\ x < a + cp /\ old + x - a = old + j - 1
      <4>1. x \in Heap!Region
        BY <1>6, <2>9
      <4> HIDE DEF old
      <4> QED  BY <1>4, <1>6, <2>2, <4>1
    <3> HIDE DEF x
    <3> QED  BY <2>8, <3>1 DEF x
  <2>11. data \in Seq(Nat) /\ DOMAIN data = 1 .. n /\ \A j \in 1 .. n : data[j] = copied[a + j - 1]
    <3>1. \A j \in 1 .. n : copied[a + j - 1] \in Nat
      BY <2>7, <2>9 DEF Memory
    <3>2. \A j \in 1 .. n : j <= x3[i].n => j <= cp /\ copied[a + j - 1] = x3[i].data[j]
      <4> SUFFICES ASSUME NEW j \in 1 .. n, j <= x3[i].n PROVE j <= cp /\ copied[a + j - 1] = x3[i].data[j]
        OBVIOUS
      <4>1. j <= cp /\ j \in 1 .. cp /\ j \in 1 .. x3[i].n
        BY <1>3, <1>4, <1>5, <1>6
      <4> QED  BY <1>3, <2>10, <4>1
    <3>3. DOMAIN data = 1 .. n /\ \A j \in 1 .. n : data[j] = copied[a + j - 1]
      BY <3>2
    <3>4. data \in [1 .. n -> Nat]
      BY <3>1, <3>3
    <3> QED  BY <3>3, <3>4
  <2> HIDE DEF data
  <2>12. b \in Grant /\ b.at = a /\ b.n = n /\ b.data = data
    BY <2>2, <2>11 DEF Heap!Block, Grant
  <2> HIDE DEF b
  <2> DEFINE q == Heap!Gone(i)
  <2>13. /\ q \in Seq(Grant) /\ Len(q) = Len(x3) /\ q[i].at = 0 /\ q[i].n = 0
         /\ \A k \in 1 .. Len(x3) : k # i => q[k] = x3[k]
         /\ Distinct(q)
    BY GoneIs
  <2>14. x3' = Append(q, b)
    BY <1>1, <1>8
  <2> HIDE DEF q
  <2>15. /\ x3' \in Seq(Grant) /\ Len(x3') = Len(x3) + 1 /\ x3'[Len(x3) + 1] = b
         /\ \A k \in 1 .. Len(x3) : x3'[k] = q[k]
    BY <2>12, <2>13, <2>14, Appended
  <2>16. Held(x1'.used, x2', b)
    <3>1. a \in DOMAIN x1'.used /\ x1'.used[a] = s
      BY <2>2, <2>4, <2>5 DEF IsWithout
    <3>2. \A j \in 1 .. n : x2'[a + j - 1] = data[j]
      BY <1>1, <2>11
    <3> QED  BY <1>8, <2>1, <2>12, <3>1, <3>2 DEF Held
  <2>17. ASSUME NEW k \in 1 .. Len(x3), k # i PROVE Held(x1'.used, x2', x3[k]) /\ x3[k].at # a
    <3>1. x3[k] \in Grant /\ Held(u, x2, x3[k]) /\ x3[k].at # old
      BY <1>1, <2>17 DEF HeapInv, Distinct
    <3>2. Held(r1.used, x2, x3[k]) /\ x3[k].at # a
      BY <1>8, <2>1, <3>1, HeldInMore
    <3>3. \A x \in Heap!Region : ~(a <= x /\ x < a + r1.used[a]) => copied[x] = x2[x]
      BY <1>6, <2>1, <2>2, <2>4, <2>7, RegionNat
    <3>4. Held(r1.used, copied, x3[k])
      BY <1>2, <2>1, <2>4, <2>7, <3>1, <3>2, <3>3, StillHeld
    <3>5. Held(x1'.used, copied, x3[k])
      BY <2>5, <3>1, <3>4, HeldInFewer
    <3> QED  BY <1>1, <3>2, <3>5
  <2>18. Held(x1'.used, x2', q[i])
    BY <2>13 DEF Held
  <2>19. \A k \in 1 .. Len(x3') : k \in 1 .. Len(x3) \/ k = Len(x3) + 1
    BY <1>2, <2>15
  <2>20. \A k \in 1 .. Len(x3') : Held(x1'.used, x2', x3'[k])
    BY <2>13, <2>15, <2>16, <2>17, <2>18, <2>19
  <2>21. \A k \in 1 .. Len(x3) : x3'[k].at # a
    BY <1>8, <2>13, <2>15, <2>17
  <2>22. Distinct(x3')
    <3> SUFFICES ASSUME NEW j \in 1 .. Len(x3'), NEW k \in 1 .. Len(x3'), x3'[j].at # 0, x3'[j].at = x3'[k].at PROVE j = k
      BY DEF Distinct
    <3>1. CASE j \in 1 .. Len(x3) /\ k \in 1 .. Len(x3)
      BY <2>13, <2>15, <3>1 DEF Distinct
    <3>2. CASE j \in 1 .. Len(x3) /\ k = Len(x3) + 1
      BY <2>12, <2>15, <2>21, <3>2
    <3>3. CASE j = Len(x3) + 1 /\ k \in 1 .. Len(x3)
      BY <2>12, <2>15, <2>21, <3>3
    <3> QED  BY <2>19, <3>1, <3>2, <3>3
  <2> QED  BY <1>1, <2>5, <2>7, <2>15, <2>20, <2>22 DEF HeapInv
<1> QED  BY <1>7, <1>8

LEMMA HeapStep == HeapInv /\ [Heap!Next]_(Heap!vars) => HeapInv'
<1> SUFFICES ASSUME HeapInv, [Heap!Next]_(Heap!vars) PROVE HeapInv'
  OBVIOUS
<1>0. \A n \in HeapSizes : n \in Nat
  BY MemoryAssumption DEF Heap!HeapAssumption
<1>1. ASSUME NEW n \in HeapSizes, Heap!HeapAlloc(n, TRUE) PROVE HeapInv'
  BY <1>0, <1>1, HeapAllocKeeps
<1>2. ASSUME NEW n \in HeapSizes, Heap!HeapAlloc(n, FALSE) PROVE HeapInv'
  BY <1>0, <1>2, HeapAllocKeeps
<1>3. ASSUME NEW i \in 1 .. Len(x3), Heap!Write(i) PROVE HeapInv'
  BY <1>3, WriteKeepsHeap
<1>4. ASSUME NEW i \in 1 .. Len(x3), Heap!HeapFree(i) PROVE HeapInv'
  BY <1>4, FreeKeepsHeap
<1>5. ASSUME NEW i \in 1 .. Len(x3), NEW n \in HeapSizes, Heap!HeapReAlloc(i, n) PROVE HeapInv'
  BY <1>0, <1>5, ReAllocKeepsHeap
<1>6. CASE UNCHANGED Heap!vars
  BY <1>6 DEF Heap!vars, HeapInv, Distinct
<1> QED  BY <1>1, <1>2, <1>3, <1>4, <1>5, <1>6 DEF Heap!Next, Heap!Allocs

(* Reservations are made in a region of their own, by the same allocator.  *)
LEMMA SameRegion == Virtual!Region = Heap!Region /\ Virtual!Fresh = Heap!Fresh
BY DEF Virtual!Region, Heap!Region, Virtual!Fresh, Heap!Fresh, Virtual!NoBlocks, Heap!NoBlocks
LEMMA SameAlloc == \A r, n : Virtual!Alloc(r, n) = Heap!Alloc(r, n) /\ Virtual!Rounded(n) = Heap!Rounded(n)
BY DEF Virtual!Alloc, Heap!Alloc, Virtual!Fits, Heap!Fits, Virtual!Rounded, Heap!Rounded, Virtual!Min, Heap!Min
LEMMA SameAfterAlloc == \A r, n : Virtual!AfterAlloc(r, n) = Heap!AfterAlloc(r, n)
BY DEF Virtual!AfterAlloc, Heap!AfterAlloc, Virtual!With, Heap!With, Virtual!Without, Heap!Without, Virtual!Carved, Heap!Carved,
       Virtual!Alloc, Heap!Alloc, Virtual!Fits, Heap!Fits, Virtual!Rounded, Heap!Rounded, Virtual!Min, Heap!Min
LEMMA SameAfterFree == \A r, n : Virtual!AfterFree(r, n) = Heap!AfterFree(r, n)
BY DEF Virtual!AfterFree, Heap!AfterFree, Virtual!With, Heap!With, Virtual!Without, Heap!Without, Virtual!Joined, Heap!Joined,
       Virtual!Left, Heap!Left, Virtual!Right, Heap!Right, Virtual!FreeSize, Heap!FreeSize, Virtual!Min, Heap!Min
LEMMA SameOrder == \A r : (Heap!Tiled(r) => Virtual!Tiled(r)) /\ (Heap!Counted(r) => Virtual!Counted(r))
BY DEF Virtual!Tiled, Heap!Tiled, Virtual!InRegion, Heap!InRegion, Virtual!Apart, Heap!Apart, Virtual!Over, Heap!Over,
       Virtual!Region, Heap!Region, Virtual!Counted, Heap!Counted, Virtual!Cardinality, Heap!Cardinality

PageKinds == {"zero", "data"}
(* A reserved page is one of a block in use; a listed one is not committed *)
(* but if it was left so.  What a committed page has, and what one has     *)
(* that is not and that a commit does not zero.                            *)
Listed(list, res, w, lft) == \A p \in list : (p \in res /\ p \notin DOMAIN w) \/ p \in lft
Holds(m, w, lft, spr) ==
  \A p \in DOMAIN w : m[p] = w[p] \/ (p \in lft /\ m[p] = "zero") \/ (p \in spr /\ w[p] = "zero")
Idle(list, m, res, w, spr) == \A p \in res : p \in DOMAIN w \/ p \in list \/ m[p] = "zero" \/ p \in spr
VirtInv ==
  /\ RegionOk(x1) /\ x3 \in [Heap!Region -> PageKinds]
  /\ x4 \subseteq Heap!Region /\ \A p \in x4 : Heap!Over(x1.used, p)
  /\ x5 \in [DOMAIN x5 -> PageKinds] /\ DOMAIN x5 \subseteq x4
  /\ Listed(x2, x4, x5, x6) /\ Holds(x3, x5, x6, x7) /\ Idle(x2, x3, x4, x5, x7)

LEMMA BlockFound ==
  ASSUME NEW r, RegionOk(r), NEW p \in Heap!Region, Heap!Over(r.used, p)
  PROVE  Virtual!BlockOf(r, p) # 0
<1> DEFINE u == r.used
<1>1. PICK b \in DOMAIN u : b <= p /\ p < b + u[b]
  BY DEF Heap!Over
<1>2. Map(u) /\ Heap!InRegion(u) /\ Heap!Apart(u) /\ p \in Nat
  BY RegionNat DEF RegionOk, Heap!Tiled
<1>3. b \in Nat /\ Lo <= b /\ b # 0
  BY <1>2, BlockIs, SpaceIs
<1>4. ASSUME NEW c \in DOMAIN u, p >= c, p < c + u[c] PROVE c = b
  <2>1. c \in Nat /\ u[c] \in Nat /\ u[b] \in Nat
    BY <1>2, BlockIs
  <2>2. (b < c => b + u[b] <= c) /\ (c < b => c + u[c] <= b)
    BY <1>2 DEF Heap!Apart
  <2> QED  BY <1>1, <1>2, <1>3, <1>4, <2>1, <2>2
<1>5. Virtual!Holding(r, p) = {b}
  BY <1>1, <1>2, <1>3, <1>4 DEF Virtual!Holding
<1>6. Virtual!Max({b}) = b
  BY <1>3 DEF Virtual!Max
<1> QED  BY <1>3, <1>5, <1>6 DEF Virtual!BlockOf

LEMMA VirtSays == VirtInv => Virtual!PagesHonest
<1> SUFFICES ASSUME VirtInv PROVE Virtual!PagesHonest
  OBVIOUS
<1>1. Virtual!Tiled(x1) /\ Virtual!Counted(x1)
  BY SameOrder DEF VirtInv, RegionOk
<1>2. ASSUME NEW p \in DOMAIN x5
      PROVE  /\ Virtual!BlockOf(x1, p) # 0
             /\ p \in x2 => p \in x6
             /\ x3[p] # x5[p] => (p \in x6 /\ x3[p] = "zero") \/ (p \in x7 /\ x5[p] = "zero")
  <2>1. Virtual!BlockOf(x1, p) # 0
    BY BlockFound DEF VirtInv
  <2> QED  BY <2>1 DEF VirtInv, Listed, Holds
<1> QED  BY <1>1, <1>2 DEF Virtual!PagesHonest

LEMMA VirtStart == Virtual!Init => VirtInv
<1> SUFFICES ASSUME Virtual!Init PROVE VirtInv
  OBVIOUS
<1>1. x1 = Heap!Fresh /\ x2 = {} /\ x4 = {} /\ DOMAIN x5 = {} /\ x5 \in [DOMAIN x5 -> PageKinds]
  BY SameRegion DEF Virtual!Init
<1>2. x3 \in [Heap!Region -> PageKinds]
  BY SameRegion DEF Virtual!Init, PageKinds
<1> QED  BY <1>1, <1>2, FreshOk DEF VirtInv, Listed, Holds, Idle

LEMMA ZeroedIs ==
  ASSUME NEW S, Virtual!Zeroed(S), x3 \in [Heap!Region -> PageKinds]
  PROVE  x3' \in [Heap!Region -> PageKinds] /\ \A p \in Heap!Region : x3'[p] = IF p \in S THEN "zero" ELSE x3[p]
BY SameRegion DEF Virtual!Zeroed, PageKinds

LEMMA CommittedIs ==
  ASSUME NEW S, Virtual!Committed(S), x5 \in [DOMAIN x5 -> PageKinds]
  PROVE  /\ x5' \in [DOMAIN x5' -> PageKinds] /\ DOMAIN x5' = DOMAIN x5 \cup S
         /\ \A p \in DOMAIN x5' : x5'[p] = IF p \in DOMAIN x5 THEN x5[p] ELSE "zero"
BY DEF Virtual!Committed, PageKinds

LEMMA AllocInKeeps ==
  ASSUME VirtInv, NEW a, NEW n, Virtual!VirtualAllocIn(a, n)
  PROVE  VirtInv'
<1> DEFINE S == Virtual!Pages(a, n)
           Gone == {p \in S \cap x2 : p \in DOMAIN x5 => x5[p] = "zero"}
<1>1. /\ Virtual!Zeroed(S \cap x2) /\ x2' = x2 \ S /\ x1' = x1 /\ x4' = x4 /\ x6' = x6 \ Gone /\ x7' = x7
      /\ (S \subseteq x4 /\ Virtual!Committed(S)) \/ x5' = x5
  BY DEF Virtual!VirtualAllocIn, Virtual!Recommitted, Virtual!Inside
<1>g. \A p \in x6 : p \notin x6' => p \in S /\ p \in x2 /\ (p \in DOMAIN x5 => x5[p] = "zero")
  BY <1>1
<1> HIDE DEF S, Gone
<1>2. x3' \in [Heap!Region -> PageKinds] /\ \A p \in Heap!Region : x3'[p] = IF p \in S \cap x2 THEN "zero" ELSE x3[p]
  BY <1>1, ZeroedIs DEF VirtInv
<1>k. x4 \subseteq Heap!Region /\ DOMAIN x5 \subseteq x4
  BY DEF VirtInv
<1>3. CASE S \subseteq x4 /\ Virtual!Committed(S)
  <2>1. /\ x5' \in [DOMAIN x5' -> PageKinds] /\ DOMAIN x5' = DOMAIN x5 \cup S
        /\ \A p \in DOMAIN x5' : x5'[p] = IF p \in DOMAIN x5 THEN x5[p] ELSE "zero"
    BY <1>3, CommittedIs DEF VirtInv
  <2>2. Listed(x2', x4', x5', x6')
    BY <1>1, <1>g, <2>1 DEF VirtInv, Listed
  <2>3. Holds(x3', x5', x6', x7')
    <3> SUFFICES ASSUME NEW p \in DOMAIN x5'
                 PROVE  x3'[p] = x5'[p] \/ (p \in x6' /\ x3'[p] = "zero") \/ (p \in x7 /\ x5'[p] = "zero")
      BY <1>1 DEF Holds
    <3>1. p \in x4 /\ p \in Heap!Region
      BY <1>3, <1>k, <2>1
    <3>2. CASE p \in S \cap x2 /\ p \in DOMAIN x5
      <4>1. p \in x6 /\ x3'[p] = "zero" /\ x5'[p] = x5[p]
        BY <1>2, <2>1, <3>1, <3>2 DEF VirtInv, Listed
      <4> QED  BY <1>g, <3>2, <4>1
    <3>3. CASE p \in S \cap x2 /\ p \notin DOMAIN x5
      BY <1>2, <2>1, <3>1, <3>3
    <3>4. CASE p \notin S \cap x2 /\ p \in DOMAIN x5
      BY <1>2, <1>g, <2>1, <3>1, <3>4 DEF VirtInv, Holds
    <3>5. CASE p \notin S \cap x2 /\ p \notin DOMAIN x5
      BY <1>2, <2>1, <3>1, <3>5 DEF VirtInv, Idle
    <3> QED  BY <3>2, <3>3, <3>4, <3>5
  <2>4. Idle(x2', x3', x4', x5', x7')
    BY <1>1, <1>2, <1>k, <2>1 DEF VirtInv, Idle
  <2> QED  BY <1>1, <1>2, <1>3, <1>k, <2>1, <2>2, <2>3, <2>4 DEF VirtInv
<1>4. CASE x5' = x5
  <2>2. Listed(x2', x4', x5', x6')
    BY <1>1, <1>g, <1>4 DEF VirtInv, Listed
  <2>3. Holds(x3', x5', x6', x7')
    <3> SUFFICES ASSUME NEW p \in DOMAIN x5
                 PROVE  x3'[p] = x5[p] \/ (p \in x6' /\ x3'[p] = "zero") \/ (p \in x7 /\ x5[p] = "zero")
      BY <1>1, <1>4 DEF Holds
    <3>1. p \in x4 /\ p \in Heap!Region
      BY <1>k
    <3>2. CASE p \in S \cap x2
      <4>1. p \in x6 /\ x3'[p] = "zero"
        BY <1>2, <3>1, <3>2 DEF VirtInv, Listed
      <4> QED  BY <1>g, <3>2, <4>1
    <3>4. CASE p \notin S \cap x2
      BY <1>2, <1>g, <3>1, <3>4 DEF VirtInv, Holds
    <3> QED  BY <3>2, <3>4
  <2>4. Idle(x2', x3', x4', x5', x7')
    BY <1>1, <1>2, <1>4, <1>k DEF VirtInv, Idle
  <2> QED  BY <1>1, <1>2, <1>4, <1>k, <2>2, <2>3, <2>4 DEF VirtInv
<1> QED  BY <1>1, <1>3, <1>4

LEMMA VirtAllocKeeps ==
  ASSUME VirtInv, NEW n \in Nat, NEW commit \in BOOLEAN, Virtual!VirtualAlloc(n, commit)
  PROVE  VirtInv'
<1> DEFINE a == Heap!Alloc(x1, n)
           s == Heap!Rounded(n)
           S == Virtual!Pages(a, n)
<1>1. x1' = Heap!AfterAlloc(x1, n) /\ x2' = x2 /\ x6' = x6
  BY SameAfterAlloc DEF Virtual!VirtualAlloc
<1>2. CASE a = 0
  <2>1. x1' = x1 /\ UNCHANGED <<x3, x4, x5, x7>>
    BY <1>1, <1>2, AllocRefused, SameAlloc DEF Virtual!VirtualAlloc
  <2> QED  BY <1>1, <2>1 DEF VirtInv
<1>3. CASE a # 0
  <2>1. Virtual!Zeroed(S) /\ x4' = x4 \cup S /\ x7' = x7 \ S /\ IF commit THEN Virtual!Committed(S) ELSE x5' = x5
    BY <1>3, SameAlloc DEF Virtual!VirtualAlloc
  <2>2. /\ RegionOk(x1') /\ a \in Heap!Region /\ s \in Nat /\ s >= n /\ a + s <= Hi
        /\ a \notin DOMAIN x1.used /\ IsWith(x1'.used, x1.used, a, s)
        /\ \A x \in Within(a, s) : ~Heap!Over(x1.used, x)
    BY <1>1, <1>3, AllocKeeps DEF VirtInv
  <2> HIDE DEF a, s
  <2>3. a \in Nat
    BY <2>2, RegionNat
  <2>4. S \subseteq Heap!Region /\ \A p \in S : p \in Nat /\ p >= a /\ p < a + s
    <3>1. \A p \in S : p \in Heap!Region /\ p >= a /\ p < a + n
      BY SameRegion DEF Virtual!Pages
    <3> QED  BY <2>2, <2>3, <3>1, RegionNat
  <2> HIDE DEF S
  <2>5. \A p \in S : ~Heap!Over(x1.used, p)
    BY <2>2, <2>4 DEF Within
  <2>6. S \cap x4 = {}
    BY <2>5 DEF VirtInv
  <2>7. a \in DOMAIN x1'.used /\ x1'.used[a] = s /\ \A b \in DOMAIN x1.used : b \in DOMAIN x1'.used /\ x1'.used[b] = x1.used[b]
    BY <2>2 DEF IsWith
  <2>8. \A p \in x4' : Heap!Over(x1'.used, p)
    <3>1. \A p \in x4 : Heap!Over(x1'.used, p)
      BY <2>7 DEF VirtInv, Heap!Over
    <3>2. \A p \in S : Heap!Over(x1'.used, p)
      BY <2>3, <2>4, <2>7 DEF Heap!Over
    <3> QED  BY <2>1, <3>1, <3>2
  <2>9. x3' \in [Heap!Region -> PageKinds] /\ \A p \in Heap!Region : x3'[p] = IF p \in S THEN "zero" ELSE x3[p]
    BY <2>1, ZeroedIs DEF VirtInv
  <2>k. x4 \subseteq Heap!Region /\ DOMAIN x5 \subseteq x4
    BY DEF VirtInv
  <2>10. CASE commit = TRUE
    <3>1. /\ x5' \in [DOMAIN x5' -> PageKinds] /\ DOMAIN x5' = DOMAIN x5 \cup S
          /\ \A p \in DOMAIN x5' : x5'[p] = IF p \in DOMAIN x5 THEN x5[p] ELSE "zero"
      BY <2>1, <2>10, CommittedIs DEF VirtInv
    <3>2. Holds(x3', x5', x6', x7')
      BY <1>1, <2>1, <2>4, <2>6, <2>9, <2>k, <3>1 DEF VirtInv, Holds
    <3>3. Listed(x2', x4', x5', x6') /\ Idle(x2', x3', x4', x5', x7')
      BY <1>1, <2>1, <2>4, <2>6, <2>9, <2>k, <3>1 DEF VirtInv, Listed, Idle
    <3> QED  BY <1>1, <2>1, <2>2, <2>4, <2>6, <2>8, <2>9, <2>k, <3>1, <3>2, <3>3 DEF VirtInv
  <2>11. CASE commit = FALSE
    <3>1. x5' = x5
      BY <2>1, <2>11
    <3>2. Holds(x3', x5', x6', x7')
      BY <1>1, <2>1, <2>4, <2>6, <2>9, <2>k, <3>1 DEF VirtInv, Holds
    <3>3. Listed(x2', x4', x5', x6') /\ Idle(x2', x3', x4', x5', x7')
      BY <1>1, <2>1, <2>4, <2>6, <2>9, <2>k, <3>1 DEF VirtInv, Listed, Idle
    <3> QED  BY <1>1, <2>1, <2>2, <2>4, <2>6, <2>8, <2>9, <2>k, <3>1, <3>2, <3>3 DEF VirtInv
  <2> QED  BY <2>10, <2>11
<1> QED  BY <1>2, <1>3

LEMMA ReleaseKeeps ==
  ASSUME VirtInv, NEW a \in Heap!Region, NEW n, Virtual!VirtualRelease(a, n)
  PROVE  VirtInv'
<1> DEFINE S == Virtual!Pages(a, Virtual!SizeOf(x1, a))
           T == IF n = 0 THEN S ELSE {}
<1>1. /\ x2' = x2 /\ x3' = x3 /\ x5' = [p \in DOMAIN x5 \ T |-> x5[p]] /\ x4' = x4 \ T
      /\ x6' = (x6 \ T) \cup (T \cap x2) /\ x7' = x7 \ T
  BY DEF Virtual!VirtualRelease
<1>2. a \in Nat /\ a # 0
  BY RegionNat, SpaceIs
<1>3. CASE n = 0 /\ a \in DOMAIN x1.used
  <2>1. x1' = Heap!AfterFree(x1, a) /\ T = S
    BY <1>2, <1>3, SameAfterFree DEF Virtual!VirtualRelease, Virtual!Releases
  <2>2. RegionOk(x1') /\ IsWithout(x1'.used, x1.used, {a})
    BY <1>3, <2>1, FreeKeeps DEF VirtInv
  <2>3. \A p \in Heap!Region : p \in S <=> p >= a /\ p < a + x1.used[a]
    BY <1>3, SameRegion DEF Virtual!Pages, Virtual!SizeOf
  <2> HIDE DEF S, T
  <2>4. \A p \in x4' : Heap!Over(x1'.used, p)
    <3> SUFFICES ASSUME NEW p \in x4, p \notin S PROVE Heap!Over(x1'.used, p)
      BY <1>1, <2>1
    <3>1. PICK b \in DOMAIN x1.used : b <= p /\ p < b + x1.used[b]
      BY DEF VirtInv, Heap!Over
    <3>2. b # a
      <4>1. p \in Heap!Region /\ p \in Nat
        BY RegionNat DEF VirtInv
      <4> QED  BY <1>2, <2>3, <3>1, <4>1
    <3>3. b \in DOMAIN x1'.used /\ x1'.used[b] = x1.used[b]
      BY <2>2, <3>2 DEF IsWithout
    <3> QED  BY <3>1, <3>3 DEF Heap!Over
  <2>5. DOMAIN x5' = DOMAIN x5 \ S /\ x5' \in [DOMAIN x5' -> PageKinds] /\ \A p \in DOMAIN x5' : x5'[p] = x5[p]
    BY <1>1, <2>1 DEF VirtInv
  <2>6. Listed(x2', x4', x5', x6') /\ Holds(x3', x5', x6', x7') /\ Idle(x2', x3', x4', x5', x7')
    BY <1>1, <2>1, <2>5 DEF VirtInv, Listed, Holds, Idle
  <2> QED  BY <1>1, <2>1, <2>2, <2>4, <2>5, <2>6 DEF VirtInv
<1>4. CASE ~(n = 0 /\ a \in DOMAIN x1.used)
  <2>1. x1' = x1
    BY <1>4 DEF Virtual!VirtualRelease, Virtual!Releases
  <2>2. T = {}
    <3>1. CASE n # 0
      BY <3>1
    <3>2. CASE n = 0
      <4>1. a \notin DOMAIN x1.used /\ T = S /\ Virtual!SizeOf(x1, a) = 0
        BY <1>4, <3>2 DEF Virtual!SizeOf
      <4>2. S = {}
        BY <1>2, <4>1, SameRegion, RegionNat DEF Virtual!Pages
      <4> QED  BY <4>1, <4>2
    <3> QED  BY <3>1, <3>2
  <2> HIDE DEF T
  <2>3. x4' = x4 /\ x5' = x5 /\ x6' = x6 /\ x7' = x7
    BY <1>1, <2>2 DEF VirtInv
  <2> QED  BY <1>1, <2>1, <2>3 DEF VirtInv
<1> QED  BY <1>3, <1>4

LEMMA DecommitKeeps ==
  ASSUME VirtInv, NEW a \in Heap!Region, NEW n, Virtual!VirtualDecommit(a, n)
  PROVE  VirtInv'
<1> DEFINE L == Virtual!Pages(a, IF n = 0 THEN 1 ELSE n)
           S == Virtual!Pages(a, IF n = 0 THEN Virtual!SizeOf(x1, a) ELSE n)
           In == Virtual!Inside(a, IF n = 0 THEN 1 ELSE n)
<1>1. /\ x2' = x2 \cup L /\ x1' = x1 /\ x3' = x3 /\ x4' = x4
      /\ x6' = (IF In THEN x6 \ L ELSE x6 \cup L)
      /\ x5' = [p \in DOMAIN x5 \ (IF In THEN S ELSE {}) |-> x5[p]]
      /\ x7' = (IF In THEN (x7 \cup {p \in S : x3[p] = "data"}) \ L ELSE x7)
  BY DEF Virtual!VirtualDecommit
<1>2. n = 0 => a \in DOMAIN x1.used \/ Virtual!BlockOf(x1, a) = 0
  BY DEF Virtual!VirtualDecommit
<1>3. CASE ~In
  <2> HIDE DEF L, S, In
  <2>1. x6' = x6 \cup L /\ x7' = x7 /\ x5' = [p \in DOMAIN x5 |-> x5[p]]
    BY <1>1, <1>3
  <2>2. x5' = x5
    BY <2>1 DEF VirtInv
  <2>3. Listed(x2', x4', x5', x6') /\ Holds(x3', x5', x6', x7') /\ Idle(x2', x3', x4', x5', x7')
    BY <1>1, <2>1, <2>2 DEF VirtInv, Listed, Holds, Idle
  <2> QED  BY <1>1, <2>2, <2>3 DEF VirtInv
<1>4. CASE In
  <2>1. L \subseteq x4 /\ Virtual!BlockOf(x1, a) # 0
    BY <1>4 DEF Virtual!Inside
  <2>2. L \subseteq S
    <3>1. CASE n = 0
      <4>1. a \in DOMAIN x1.used /\ Map(x1.used)
        BY <1>2, <2>1, <3>1 DEF VirtInv, RegionOk
      <4>2. x1.used[a] \in Nat /\ x1.used[a] > 0
        BY <4>1 DEF VirtInv, RegionOk, Heap!Tiled, Heap!InRegion, Map
      <4>3. Virtual!SizeOf(x1, a) = x1.used[a] /\ \A p \in Virtual!Region : p \in Nat
        BY <4>1, SameRegion, RegionNat DEF Virtual!SizeOf
      <4>4. a \in Nat
        BY RegionNat
      <4>5. \A p \in Virtual!Pages(a, 1) : p \in Virtual!Pages(a, Virtual!SizeOf(x1, a))
        BY <4>2, <4>3, <4>4 DEF Virtual!Pages
      <4> QED  BY <3>1, <4>5
    <3>2. CASE n # 0
      BY <3>2
    <3> QED  BY <3>1, <3>2
  <2> HIDE DEF L, S, In
  <2>3. x6' = x6 \ L /\ x7' = (x7 \cup {p \in S : x3[p] = "data"}) \ L /\ x5' = [p \in DOMAIN x5 \ S |-> x5[p]]
    BY <1>1, <1>4
  <2>4. DOMAIN x5' = DOMAIN x5 \ S /\ x5' \in [DOMAIN x5' -> PageKinds] /\ \A p \in DOMAIN x5' : x5'[p] = x5[p]
    BY <2>3 DEF VirtInv
  <2>5. Listed(x2', x4', x5', x6')
    BY <1>1, <2>1, <2>2, <2>3, <2>4 DEF VirtInv, Listed
  <2>6. Holds(x3', x5', x6', x7')
    BY <1>1, <2>1, <2>2, <2>3, <2>4 DEF VirtInv, Holds
  <2>7. Idle(x2', x3', x4', x5', x7')
    <3> SUFFICES ASSUME NEW p \in x4
                 PROVE  p \in DOMAIN x5' \/ p \in x2' \/ x3[p] = "zero" \/ p \in x7'
      BY <1>1 DEF Idle
    <3>1. x3[p] = "zero" \/ x3[p] = "data"
      BY DEF VirtInv, PageKinds
    <3>2. CASE p \in L
      BY <1>1, <3>2
    <3>3. CASE p \in S /\ p \notin L
      BY <2>3, <3>1, <3>3
    <3>4. CASE p \notin S /\ p \notin L
      BY <1>1, <2>3, <2>4, <3>4 DEF VirtInv, Idle
    <3> QED  BY <3>2, <3>3, <3>4
  <2> QED  BY <1>1, <2>4, <2>5, <2>6, <2>7 DEF VirtInv
<1> QED  BY <1>3, <1>4

LEMMA PageWriteKeeps ==
  ASSUME VirtInv, NEW p, Virtual!Write(p)
  PROVE  VirtInv'
<1>1. /\ p \in DOMAIN x5 /\ x3' = [x3 EXCEPT ![p] = "data"] /\ x5' = [x5 EXCEPT ![p] = "data"] /\ UNCHANGED <<x1, x2, x4>>
      /\ x6' = x6 \ ({p} \ x2) /\ x7' = x7 \ {p}
  BY DEF Virtual!Write
<1>2. p \in x4 /\ p \in Heap!Region
  BY <1>1 DEF VirtInv
<1>3. /\ DOMAIN x5' = DOMAIN x5 /\ x5' \in [DOMAIN x5' -> PageKinds]
      /\ \A y \in DOMAIN x5 : x5'[y] = IF y = p THEN "data" ELSE x5[y]
  BY <1>1 DEF VirtInv, PageKinds
<1>4. /\ x3' \in [Heap!Region -> PageKinds]
      /\ \A y \in Heap!Region : x3'[y] = IF y = p THEN "data" ELSE x3[y]
  BY <1>1, <1>2 DEF VirtInv, PageKinds
<1>k. x4 \subseteq Heap!Region /\ DOMAIN x5 \subseteq x4
  BY DEF VirtInv
<1>5. Holds(x3', x5', x6', x7')
  BY <1>1, <1>2, <1>3, <1>4, <1>k DEF VirtInv, Holds
<1>6. Listed(x2', x4', x5', x6') /\ Idle(x2', x3', x4', x5', x7')
  BY <1>1, <1>3, <1>4, <1>k DEF VirtInv, Listed, Idle
<1> QED  BY <1>1, <1>3, <1>4, <1>5, <1>6 DEF VirtInv

LEMMA VirtStep == VirtInv /\ [Virtual!Next]_(Virtual!vars) => VirtInv'
<1> SUFFICES ASSUME VirtInv, [Virtual!Next]_(Virtual!vars) PROVE VirtInv'
  OBVIOUS
<1>0. \A n \in VaSizes : n \in Nat
  BY MemoryAssumption DEF Virtual!VirtualAssumption
<1>1. ASSUME NEW n \in VaSizes, Virtual!VirtualAlloc(n, TRUE) \/ Virtual!VirtualAlloc(n, FALSE) PROVE VirtInv'
  BY <1>0, <1>1, VirtAllocKeeps
<1>2. ASSUME NEW a \in Heap!Region, NEW n \in VaSizes, Virtual!VirtualAllocIn(a, n) PROVE VirtInv'
  BY <1>2, AllocInKeeps
<1>3. ASSUME NEW a \in Heap!Region, NEW n, Virtual!VirtualRelease(a, n) PROVE VirtInv'
  BY <1>3, ReleaseKeeps
<1>4. ASSUME NEW a \in Heap!Region, NEW n, Virtual!VirtualDecommit(a, n) PROVE VirtInv'
  BY <1>4, DecommitKeeps
<1>5. ASSUME NEW p, Virtual!Write(p) PROVE VirtInv'
  BY <1>5, PageWriteKeeps
<1>6. CASE UNCHANGED Virtual!vars
  BY <1>6 DEF Virtual!vars, VirtInv, Listed, Holds, Idle
<1> QED  BY <1>1, <1>2, <1>3, <1>4, <1>5, <1>6, SameRegion DEF Virtual!Next

-----------------------------------------------------------------------------
(* The parts together                                                      *)

TranslationInv == /\ part = "pages" => CodeInv
                  /\ part = "traps" => TrapInv
                  /\ part = "census" => CensusInv
MemoryInv == /\ part = "heap" => HeapInv
             /\ part = "virtual" => VirtInv
             /\ part = "arena" => ArenaInv
             /\ part = "gpu" => GpuInv

(* A step of the behaviour is one of its part.                             *)
LEMMA PartTakes ==
  ASSUME [GuestNext \/ Elsewhere]_<<part, vars, rest>>
  PROVE  /\ part' = part
         /\ part = "pages" => [Code!Next]_(Code!vars)
         /\ part = "traps" => [Traps!Next]_(Traps!vars)
         /\ part = "census" => [Census!Next]_(Census!vars)
         /\ part = "heap" => [Heap!Next]_(Heap!vars)
         /\ part = "virtual" => [Virtual!Next]_(Virtual!vars)
         /\ part = "arena" => [Arena!Next]_(Arena!vars)
         /\ part = "gpu" => [Gpu!Next]_(Gpu!vars)
<1>1. CASE GuestSteps /\ UNCHANGED part
  BY <1>1 DEF GuestSteps
<1>2. CASE UNCHANGED rest /\ UNCHANGED part
  BY <1>2 DEF rest, Code!vars, Traps!vars, Census!vars, Heap!vars, Virtual!vars, Arena!vars, Gpu!vars
<1>3. CASE Elsewhere
  BY <1>3 DEF Elsewhere, Parts
<1> QED  BY <1>1, <1>2, <1>3 DEF GuestNext

(* Code is run only while its bytes are there or on pages a barrier        *)
(* missed, a trap is served by its function or, its window too wide, not   *)
(* through the index, and the count runs ahead only by what a poke that    *)
(* meets run()'s accounting or another poke counts twice, for any pages,   *)
(* slots, table and slice.                                                 *)
THEOREM TranslationHolds == GuestSpec => []TranslationSound
<1>1. GuestInit \/ part \notin Parts => TranslationInv
  BY CodeStart, TrapStart, CensusStart DEF GuestInit, Parts, TranslationInv
<1>2. TranslationInv /\ [GuestNext \/ Elsewhere]_<<part, vars, rest>> => TranslationInv'
  <2> SUFFICES ASSUME TranslationInv, [GuestNext \/ Elsewhere]_<<part, vars, rest>> PROVE TranslationInv'
    OBVIOUS
  <2>1. part' = part /\ (part = "pages" => [Code!Next]_(Code!vars)) /\ (part = "traps" => [Traps!Next]_(Traps!vars))
        /\ (part = "census" => [Census!Next]_(Census!vars))
    BY PartTakes
  <2>2. part = "pages" => CodeInv'
    BY <2>1, CodeStep DEF TranslationInv
  <2>3. part = "traps" => TrapInv'
    BY <2>1, TrapStep DEF TranslationInv
  <2>4. part = "census" => CensusInv'
    BY <2>1, CensusStep DEF TranslationInv
  <2> QED  BY <2>1, <2>2, <2>3, <2>4 DEF TranslationInv
<1>3. TranslationInv => TranslationSound
  BY TrapSays, CensusSays DEF TranslationInv, TranslationSound, CodeInv
<1> QED  BY <1>1, <1>2, <1>3, PTL DEF GuestSpec

(* Blocks and pages stay apart and keep what was written, but for the two  *)
(* cases PagesHonest states, accesses stay in the arena and video memory   *)
(* is given back once, for any sizes, alignment and sequence of calls,     *)
(* whichever of them fails.                                                *)
THEOREM MemoryHolds == GuestSpec => []MemorySound
<1>1. GuestInit \/ part \notin Parts => MemoryInv
  BY HeapStart, VirtStart, ArenaStart, GpuStart DEF GuestInit, Parts, MemoryInv
<1>2. MemoryInv /\ [GuestNext \/ Elsewhere]_<<part, vars, rest>> => MemoryInv'
  <2> SUFFICES ASSUME MemoryInv, [GuestNext \/ Elsewhere]_<<part, vars, rest>> PROVE MemoryInv'
    OBVIOUS
  <2>1. part' = part /\ (part = "heap" => [Heap!Next]_(Heap!vars)) /\ (part = "virtual" => [Virtual!Next]_(Virtual!vars))
        /\ (part = "arena" => [Arena!Next]_(Arena!vars)) /\ (part = "gpu" => [Gpu!Next]_(Gpu!vars))
    BY PartTakes
  <2>2. part = "heap" => HeapInv'
    BY <2>1, HeapStep DEF MemoryInv
  <2>3. part = "virtual" => VirtInv'
    BY <2>1, VirtStep DEF MemoryInv
  <2>4. part = "arena" => ArenaInv'
    BY <2>1, ArenaStep DEF MemoryInv
  <2>5. part = "gpu" => GpuInv'
    BY <2>1, GpuStep DEF MemoryInv
  <2> QED  BY <2>1, <2>2, <2>3, <2>4, <2>5 DEF MemoryInv
<1>3. MemoryInv => MemorySound
  BY HeapSays, VirtSays, GpuSays DEF MemoryInv, MemorySound, ArenaInv
<1> QED  BY <1>1, <1>2, <1>3, PTL DEF GuestSpec
=============================================================================
