------------------------------- MODULE Bridge -------------------------------
(***************************************************************************)
(* The module loader and the import traps (src/runtime/bridge.cpp, .h).    *)
(* A guest module's imports are bound to an export of another module, to   *)
(* a registered native shim, or to the catch-all shim.  A native target is *)
(* an address of the trap window, one per distinct tag, never moved: the   *)
(* guest keeps it in its import cells and wherever GetProcAddress put it.  *)
(* Addresses are in half alignment units.                                  *)
(***************************************************************************)
EXTENDS Naturals, Sequences, FiniteSets, SequencesExt

CONSTANTS
  Images,   \* what can be loaded, by key: size, whether it keeps its preferred base,
            \* exports, forwarders, imports
  Shims,    \* what can be registered under an import's name, in versions: a tag
            \* that spells that name, and arguments
  First,    \* next_base_ at the start
  Limit,    \* module_limit_, 0 for none
  MaxMods,  \* bound: modules loaded
  MaxSlots  \* bound: the trap slots of a run

VARIABLES
  mods,      \* mods_, in load order: key, base, whether it is mapped
  nextBase,  \* next_base_
  phase,     \* "loading", "committed", "linked"
  shims,     \* shims_: the names registered so far, to the version registered last
  slots,     \* slots_: tag, what it runs, what it pops
  cells,     \* the guest's import cells: by module and import, an address
  found,     \* what GetProcAddress gave the guest: by name, an address
  call,      \* the last native call: what was wanted, what ran, what it popped
  late       \* history: names registered when they had a slot already

vars == <<mods, nextBase, phase, shims, slots, cells, found, call, late>>

(* Imports name a DLL in any case; lc() is what the bridge compares.  A    *)
(* name is a DLL, the spelling used, and a symbol or an ordinal.           *)
Key(n) == <<n.dll, n.sym>>
Tag(n) == <<n.spelt, n.sym>>

Unresolved == 0
NoCall == [want |-> <<>>, ran |-> <<>>, pops |-> 0]

(* What a Bridge holds before anything was given to it.                    *)
Bare == mods = <<>> /\ shims = <<>> /\ slots = <<>> /\ phase = "loading"

Init == Bare /\ nextBase = First /\ cells = <<>> /\ found = <<>> /\ call = NoCall /\ late = {}

With(f, g) == [x \in DOMAIN f \cup DOMAIN g |-> IF x \in DOMAIN g THEN g[x] ELSE f[x]]
----------------------------------------------------------------------------
(* Placement                                                               *)

Auto(k) == ~Images[k].keep
BaseOf(k) == IF Auto(k) THEN nextBase ELSE Images[k].base

(* The module window is full.                                              *)
TooHigh(k) == Auto(k) /\ Limit > 0 /\ BaseOf(k) + Images[k].size > Limit

(* The next base is aligned, after a gap.                                  *)
Align(a) == ((a + 1) \div 2) * 2
NextAfter(k) == IF Auto(k) THEN Align(BaseOf(k) + Images[k].size) + 2 ELSE nextBase

(* add_module: placed, parsed and listed; not mapped yet.                  *)
Listed(k) == Append(mods, [key |-> k, base |-> BaseOf(k), mapped |-> FALSE])

AddModule(k) ==
  /\ phase = "loading" /\ ~TooHigh(k)
  /\ Len(mods) < MaxMods
  /\ mods' = Listed(k) /\ nextBase' = NextAfter(k)
  /\ UNCHANGED <<phase, shims, slots, cells, found, call, late>>

(* register_shim: at any time, and over what was registered before.        *)
Taken(k) == \E i \in DOMAIN slots : slots[i].for = k
RegisterShim(k, v) ==
  /\ shims' = With(shims, [j \in {k} |-> v])
  /\ late' = IF Taken(k) THEN late \cup {k} ELSE late
  /\ UNCHANGED <<mods, nextBase, phase, slots, cells, found, call>>

(* commit: every image is mapped, the trap window opens.                   *)
Commit ==
  /\ phase = "loading"
  /\ mods' = [i \in DOMAIN mods |-> [mods[i] EXCEPT !.mapped = TRUE]]
  /\ phase' = "committed"
  /\ UNCHANGED <<nextBase, shims, slots, cells, found, call, late>>
----------------------------------------------------------------------------
(* Binding                                                                 *)

SlotOf(sl, tag) == CHOOSE i \in DOMAIN sl : sl[i].tag = tag
HasSlot(sl, tag) == \E i \in DOMAIN sl : sl[i].tag = tag

(* alloc_trap: one slot per tag, appended; the address is its index.       *)
(* Fault: a slot for every call.                                           *)
AllocatedAnew(sl, s) == Append(sl, s)
Allocated(sl, s) == IF HasSlot(sl, s.tag) THEN sl ELSE Append(sl, s)

(* A shim runs the body of one version, or the catch-all with its tag.     *)
Shim(k, tag, runs, argc) == [for |-> k, tag |-> tag, runs |-> runs, pops |-> argc]
Version(k, v) == Shim(k, Shims[k][v].tag, v, Shims[k][v].args)
Native(n) ==
  IF Key(n) \in DOMAIN shims THEN Version(Key(n), shims[Key(n)])
  ELSE Shim(Key(n), Tag(n), Unresolved, 0)

(* The first module of that name answers, or nobody does; a forwarder is   *)
(* an export without an address.                                           *)
Provider(list, n) == SelectInSeq(list, LAMBDA m : m.key = n.dll)
Exported(list, n) ==
  LET p == Provider(list, n)
  IN p # 0 /\ n.sym \in Images[list[p].key].exports \ Images[list[p].key].forwards

(* The imports of some modules, in order, over the modules listed.         *)
Wanted(list, from) ==
  FlattenSeq([i \in DOMAIN list |->
    IF i < from THEN <<>>
    ELSE [j \in DOMAIN Images[list[i].key].imports |-> [at |-> <<i, j>>, n |-> Images[list[i].key].imports[j]]]])
SlotsFor(list, want) ==
  FoldLeft(LAMBDA sl, w : IF Exported(list, w.n) THEN sl ELSE Allocated(sl, Native(w.n)), slots, want)
Target(list, sl, n) ==
  IF Exported(list, n) THEN [kind |-> "export", mod |-> Provider(list, n), sym |-> n.sym]
  ELSE [kind |-> "trap", slot |-> SlotOf(sl, Native(n).tag)]

Bind(list, from) ==
  LET want == Wanted(list, from)
      sl == SlotsFor(list, want)
  IN /\ Len(sl) <= MaxSlots
     /\ slots' = sl
     /\ cells' = With(cells, [a \in {want[i].at : i \in DOMAIN want} |->
                   Target(list, sl, want[CHOOSE i \in DOMAIN want : want[i].at = a].n)])

Link ==
  /\ phase = "committed" /\ Bind(mods, 1)
  /\ phase' = "linked"
  /\ UNCHANGED <<mods, nextBase, shims, found, call, late>>

(* load_library_runtime, from a shim's body: a failed mapping leaves the   *)
(* module listed, with its cells unbound.                                  *)
LoadLibrary(k, maps) ==
  /\ phase = "linked" /\ ~TooHigh(k)
  /\ Len(mods) < MaxMods
  /\ nextBase' = NextAfter(k)
  /\ IF maps
     THEN LET list == [Listed(k) EXCEPT ![Len(mods) + 1].mapped = TRUE]
          IN mods' = list /\ Bind(list, Len(list))
     ELSE mods' = Listed(k) /\ UNCHANGED <<slots, cells>>
  /\ UNCHANGED <<phase, shims, found, call, late>>

(* shim_trap, for GetProcAddress: a name nobody registered is not found.   *)
ShimTrap(n) ==
  /\ phase = "linked" /\ Key(n) \in DOMAIN shims
  /\ LET sl == Allocated(slots, Native(n))
     IN /\ Len(sl) <= MaxSlots
        /\ slots' = sl
        /\ found' = With(found, [k \in {Key(n)} |-> SlotOf(sl, Native(n).tag)])
  /\ UNCHANGED <<mods, nextBase, phase, shims, cells, call, late>>

(* repatch_import: every module's cell for that import now points at guest *)
(* code.                                                                   *)
Repatch(n) ==
  /\ phase = "linked"
  /\ cells' = [a \in DOMAIN cells |->
                 LET w == Images[mods[a[1]].key].imports[a[2]]
                 IN IF Key(w) = Key(n) THEN [kind |-> "stub", of |-> Key(n)] ELSE cells[a]]
  /\ UNCHANGED <<mods, nextBase, phase, shims, slots, found, call, late>>
----------------------------------------------------------------------------
(* trap_handler: the slot at the trapped address runs; its epilogue pops.  *)

Trap(want, i) ==
  /\ i \in DOMAIN slots
  /\ call' = [want |-> want, ran |-> <<slots[i].for, slots[i].runs>>, pops |-> slots[i].pops]
  /\ UNCHANGED <<mods, nextBase, phase, shims, slots, cells, found, late>>
CallImport(a) == cells[a].kind = "trap" /\ Trap(Key(Images[mods[a[1]].key].imports[a[2]]), cells[a].slot)
CallFound(k)  == Trap(k, found[k])

Names == UNION {ToSet(Images[k].imports) : k \in DOMAIN Images}
Next ==
  \/ \E k \in DOMAIN Images : AddModule(k) \/ \E b \in BOOLEAN : LoadLibrary(k, b)
  \/ \E k \in DOMAIN Shims : \E v \in DOMAIN Shims[k] : RegisterShim(k, v)
  \/ \E n \in Names : ShimTrap(n) \/ Repatch(n)
  \/ \E a \in DOMAIN cells : CallImport(a)
  \/ \E k \in DOMAIN found : CallFound(k)
  \/ Commit \/ Link

Spec == Init /\ [][Next]_vars
----------------------------------------------------------------------------
(* Auto-placed images share no address with one another and stay in the    *)
(* module window, whatever was loaded, refused or failed to map before.    *)
ModulesApart ==
  LET End(i) == mods[i].base + Images[mods[i].key].size
      Placed == {i \in DOMAIN mods : Auto(mods[i].key)}
  IN /\ \A i, j \in Placed : i # j => End(i) <= mods[j].base \/ End(j) <= mods[i].base
     /\ \A i \in Placed : Limit > 0 => End(i) <= Limit

(* A native call runs what was registered last under the name the guest    *)
(* wanted, the catch-all under that name if nothing was, through a cell or *)
(* through GetProcAddress, and pops that shim's arguments.  A name that    *)
(* had a slot when it was registered once more keeps it (bridge.cpp:256-264*)
(* writes the map, 282-284 answer from the slots): calls run a version of  *)
(* it or the catch-all, and the arguments popped are still of what ran.    *)
Runs(k, what) == IF what = Unresolved THEN 0 ELSE Shims[k][what].args
CallsWhatItNames ==
  call # NoCall =>
    LET k == call.want
        what == call.ran[2]
    IN /\ call.ran[1] = k /\ call.pops = Runs(k, what)
       /\ k \notin late => what = IF k \in DOMAIN shims THEN shims[k] ELSE Unresolved

(* A target has one address: import cells and GetProcAddress agree on it,  *)
(* and the guest may compare them; but for a name registered late, perhaps *)
(* under another tag.                                                      *)
OneAddress ==
  /\ \A i, j \in DOMAIN slots : slots[i].tag = slots[j].tag => i = j
  /\ \A a \in DOMAIN cells : LET k == Key(Images[mods[a[1]].key].imports[a[2]])
                             IN cells[a].kind = "trap" /\ k \in DOMAIN found /\ k \notin late => cells[a].slot = found[k]

BridgeSound == ModulesApart /\ CallsWhatItNames /\ OneAddress
============================================================================
