------------------------------ MODULE CodePages ------------------------------
(***************************************************************************)
(* When a translation is looked at again (runtime/cpu_box86.cpp: write,      *)
(* invalidate_code, discard_code, map, protect).  A page whose code was      *)
(* translated carries a mark (PROT_DYNAREC); lifting the mark makes the next *)
(* entry of its blocks compare their bytes.  Guest code that stores into     *)
(* its own pages is not seen at all: it must ask for the flush.  The page    *)
(* table and the block lookup are box86's, external to src/.                 *)
(***************************************************************************)
EXTENDS Integers, FiniteSets

CONSTANTS
    Pages,      \* the pages of the guest, a range of integers
    Extents,    \* the blocks, each the set of the pages its bytes lie in
    Ranges,     \* the sets of pages that a shim or a flush may name
    Runners,    \* TRUE: translated code runs between two steps of a shim
    MaxWrites   \* bound: changes of a page

CodeAssumption ==
    /\ Extents \subseteq SUBSET Pages /\ Ranges \subseteq SUBSET Pages
    /\ MaxWrites \in Nat

None == [bytes |-> [p \in Pages |-> -1], clean |-> FALSE]

VARIABLES
    version,    \* how often each page changed
    marked,     \* the pages under PROT_DYNAREC
    blocks,     \* the translations: the bytes each was made from, trusted or not
    owed,       \* pages guest code changed and has not flushed yet
    shim,       \* the pages a shim has cleared for its store, or {}
    missed      \* history: pages that changed although their mark stayed
vars == <<version, marked, blocks, owed, shim, missed>>

Idle == {}

Init == /\ version = [p \in Pages |-> 0]
        /\ marked = {} /\ owed = {} /\ missed = {} /\ shim = Idle
        /\ blocks = [x \in Extents |-> None]

Changed(v, range) == [p \in Pages |-> IF p \in range THEN v[p] + 1 ELSE v[p]]
Room(range) == \A p \in range : version[p] + (IF p \in shim THEN 1 ELSE 0) < MaxWrites

\* isprotectedDB: every page of the range is marked.
IsProtected(range) == range \subseteq marked

\* unprotectDB with mark: the marks go, and every block with a byte in one of
\* the pages that had a mark must be looked at again.
Unprotected(bs, range) ==
    [x \in Extents |-> IF x \cap range \cap marked # {}
                         THEN [bs[x] EXCEPT !.clean = FALSE] ELSE bs[x]]

\* A fault: only the blocks that lie wholly in the range.
WhollyInside(bs, range) ==
    [x \in Extents |-> IF x \subseteq range \cap marked
                         THEN [bs[x] EXCEPT !.clean = FALSE] ELSE bs[x]]

\* The blocks of the range that are to be looked at again.
Doubted(bs, range) == Unprotected(bs, range)

\* The barrier of write() and invalidate_code().
Barrier(range) ==
    IF IsProtected(range)
      THEN marked' = marked \ range /\ blocks' = Doubted(blocks, range)
      ELSE UNCHANGED <<marked, blocks>>

\* What the barrier leaves unseen: where one page of the range has no mark
\* it does nothing, and the marks of the others, on pages whose bytes are
\* `changed', stay.
Unseen(range, changed) ==
    IF IsProtected(range) THEN missed \ range
                          ELSE missed \cup (range \cap marked \cap changed)

-----------------------------------------------------------------------------
\* Guest code enters a block: a new one is translated, a doubted one is
\* compared and translated again when its bytes changed, a trusted one runs.
Enter(x) ==
    /\ shim = Idle \/ Runners
    /\ IF blocks[x].clean THEN UNCHANGED <<marked, blocks>>
       ELSE /\ blocks' = [blocks EXCEPT ![x] = [bytes |-> version, clean |-> TRUE]]
            /\ marked' = marked \cup x
    /\ UNCHANGED <<version, owed, shim, missed>>

\* Guest code stores into a page: no page is write-protected by default, so
\* nothing notices.
GuestStore(p) ==
    /\ shim = Idle \/ Runners
    /\ Room({p})
    /\ version' = Changed(version, {p})
    /\ owed' = owed \cup {p}
    /\ UNCHANGED <<marked, blocks, shim, missed>>

\* FlushInstructionCache and VirtualProtect: invalidate_code on the range.
Invalidate(range) ==
    /\ shim = Idle
    /\ Barrier(range)
    /\ missed' = Unseen(range, owed)
    /\ owed' = owed \ range
    /\ UNCHANGED <<version, shim>>

\* write(): the barrier, then the store; a runner may be scheduled between.
WriteBarrier(range) ==
    /\ shim = Idle /\ Room(range)
    /\ Barrier(range)
    /\ missed' = Unseen(range, {})
    /\ shim' = range
    /\ UNCHANGED <<version, owed>>
WriteStore ==
    /\ shim # Idle
    /\ version' = Changed(version, shim)
    /\ missed' = missed \cup (shim \cap marked)
    /\ shim' = Idle
    /\ UNCHANGED <<marked, blocks, owed>>

\* discard_code: the blocks of the range are destroyed, whatever the marks.
Discard(range) ==
    /\ shim = Idle
    /\ blocks' = [x \in Extents |-> IF x \cap range # {} THEN None ELSE blocks[x]]
    /\ owed' = owed \ range /\ missed' = missed \ range
    /\ UNCHANGED <<version, marked, shim>>

\* The pages of a module that was unloaded are mapped again: the record of
\* the range is written anew, marks included, its code discarded before.
Remap(range) ==
    /\ shim = Idle /\ Room(range)
    /\ version' = Changed(version, range)
    /\ marked' = marked \ range
    /\ blocks' = [x \in Extents |-> IF x \cap range # {} THEN None ELSE blocks[x]]
    /\ owed' = owed \ range /\ missed' = missed \ range
    /\ UNCHANGED shim

Next == \/ \E x \in Extents : Enter(x)
        \/ \E p \in Pages : GuestStore(p)
        \/ \E range \in Ranges : Invalidate(range) \/ WriteBarrier(range)
                                   \/ Discard(range) \/ Remap(range)
        \/ WriteStore

Spec == Init /\ [][Next]_vars

-----------------------------------------------------------------------------
TypeOK == /\ version \in [Pages -> 0 .. MaxWrites]
          /\ marked \subseteq Pages /\ owed \subseteq Pages /\ missed \subseteq Pages
          /\ shim \in Ranges \cup {Idle}

\* A translation that runs unexamined was made from the bytes that are in
\* memory now, except in pages that guest code changed and did not flush, and
\* every page it lies in carries the mark, so that the next change is seen.
NeverStale ==
    \A x \in Extents : blocks[x].clean =>
        /\ x \subseteq marked
        /\ \A p \in x \ owed : blocks[x].bytes[p] = version[p]

\* What the code keeps of it (cpu_box86.cpp:1173-1200): a translation that
\* runs unexamined lies in marked pages, and its bytes are old only in pages
\* that guest code has not flushed, or that a shim or a flush reached in one
\* of two ways: along with a page without a mark, so that the barrier did
\* nothing at all, or by a store before which a runner entered the block
\* anew.  A store or a flush of one page, not interrupted, is always seen.
StaleOnlyWhenMissed ==
    \A x \in Extents : blocks[x].clean =>
        /\ x \subseteq marked
        /\ \A p \in x \ (owed \cup missed) : blocks[x].bytes[p] = version[p]
=============================================================================
