------------------------------ MODULE GilIdent ------------------------------
(***************************************************************************)
(* The global lock of the native scheduler and what is published of its    *)
(* holder (src/runtime/gil.cpp): a mark on the holder's stack, the shim it *)
(* is in, and a table of stacks that gives the mark a name.  A reader that *)
(* never takes the lock loads those fields one at a time, while holders    *)
(* change and stacks are recycled.                                         *)
(***************************************************************************)
EXTENDS Naturals, FiniteSets

CONSTANTS
  Thread,     \* the host threads
  Unnamed,    \* those that never register
  Stacks,     \* the stacks, given again to another thread after a death
  Slots,      \* slots of the identity table (kStackSlots)
  Depths,     \* 1: inside the declared interval of a stack; 2: below it
  MaxAcq      \* bound: acquisitions

VARIABLES
  mu, owned,           \* the mutex, g_owned
  held, mark, acq,     \* g_pub_held, g_pub_owner_mark, g_pub_acq
  shimOwner, shimVa,   \* g_shim_owner, g_shim_va with its tag
  table, reserved,     \* g_slots, g_slot_res
  th,                  \* each thread: at, stack, slot, depth, todo
  probe,               \* the reader's registers, and what it said
  last,                \* gil_field: last_acq, last_held, and the acquisition `since` was set in
  seen                 \* during a probe: who held, who was in a shim, which stacks changed hands

lock == <<mu, owned>>
pub == <<held, mark, acq>>
shim == <<shimOwner, shimVa>>
reader == <<probe, last>>
vars == <<mu, owned, held, mark, acq, shimOwner, shimVa, table, reserved, th, probe, last, seen>>

Nobody == "nobody"
(* No stack is at address 0, which an empty slot has.                      *)
NamesAssumption ==
  /\ Nobody \notin Thread /\ 0 \notin Stacks /\ Slots \in Nat
  /\ Depths \subseteq Nat \ {0}

NoMark == [stack |-> 0, depth |-> 0]
Empty == [lo |-> 0, hi |-> 0, tag |-> Nobody]
Unborn == [at |-> "none", stack |-> 0, slot |-> 0, depth |-> 0, todo |-> {}, shim |-> FALSE]
Silent == [at |-> "idle", held |-> FALSE, om |-> NoMark, so |-> NoMark, acq |-> 0, n |-> 0, i |-> 0, tag |-> Nobody,
           lo |-> 0, om_by |-> {}, so_by |-> {}, inShim |-> FALSE, va |-> Nobody]
Unseen == [holders |-> {}, shims |-> {}, stacks |-> {}]

Init ==
  /\ mu = Nobody /\ owned = FALSE /\ held = FALSE /\ mark = NoMark /\ acq = 0
  /\ shimOwner = NoMark /\ shimVa = Nobody
  /\ table = [i \in 1..Slots |-> Empty] /\ reserved = 0
  /\ th = [t \in Thread |-> Unborn]
  /\ probe = Silent /\ last = [acq |-> 0, held |-> FALSE, since |-> 0]
  /\ seen = Unseen
----------------------------------------------------------------------------
(* What happens while a reader is at work.                                 *)
Notes(f, x) == seen' = IF probe.at = "idle" THEN seen ELSE [seen EXCEPT ![f] = @ \cup {x}]

(* A thread's life: it registers its stack first and turns its slot off    *)
(* last.  A reader may see the stores to a slot in any order.              *)
Goes(t, from, to) == th[t].at = from /\ th' = [th EXCEPT ![t].at = to]
Born(t, s) ==
  /\ th[t].at = "none" /\ \A u \in Thread : th[u].stack # s
  /\ th' = [th EXCEPT ![t] = [Unborn EXCEPT !.at = IF t \in Unnamed THEN "out" ELSE "born", !.stack = s]]
  /\ Notes("stacks", s)
  /\ UNCHANGED <<lock, pub, shim, table, reserved, reader>>
RegisterStack(t) ==
  /\ th[t].at = "born" /\ reserved' = reserved + 1
  /\ th' = [th EXCEPT ![t] = IF reserved < Slots
                             THEN [@ EXCEPT !.at = "reg", !.slot = reserved + 1, !.todo = {"hi", "lo", "tag"}]
                             ELSE [@ EXCEPT !.at = "out"]]
  /\ UNCHANGED <<lock, pub, shim, table, reader, seen>>
Put(slot, f, t) ==
  table' = [table EXCEPT ![slot] = CASE f = "hi" -> [@ EXCEPT !.hi = th[t].stack]
                                     [] f = "lo" -> [@ EXCEPT !.lo = th[t].stack]
                                     [] f = "tag" -> [@ EXCEPT !.tag = t]
                                     [] f = "nolo" -> [@ EXCEPT !.lo = 0]
                                     [] f = "notag" -> [@ EXCEPT !.tag = Nobody]]
Store(t, f) ==
  /\ th[t].at \in {"reg", "unreg"} /\ f \in th[t].todo /\ Put(th[t].slot, f, t)
  /\ th' = [th EXCEPT ![t].todo = @ \ {f}]
  /\ UNCHANGED <<lock, pub, shim, reserved, reader, seen>>
Registered(t) == /\ Goes(t, "reg", "out") /\ th[t].todo = {}
                 /\ UNCHANGED <<lock, pub, shim, table, reserved, reader, seen>>
(* Fault: the slot keeps its interval and its name.                        *)
ClearedNothing == {}
Cleared == {"nolo", "notag"}
UnregisterStack(t) ==
  /\ th[t].at = "out"
  /\ th' = [th EXCEPT ![t] = [@ EXCEPT !.at = "unreg", !.todo = IF th[t].slot = 0 THEN {} ELSE Cleared]]
  /\ UNCHANGED <<lock, pub, shim, table, reserved, reader, seen>>
Dies(t) == /\ th[t].at = "unreg" /\ th[t].todo = {} /\ th' = [th EXCEPT ![t] = [Unborn EXCEPT !.at = "dead"]]
           /\ Notes("stacks", th[t].stack)
           /\ UNCHANGED <<lock, pub, shim, table, reserved, reader>>
----------------------------------------------------------------------------
(* lock, try_lock and mark_owned: the counter, then the mark, then "held". *)
Take(t, d) ==
  /\ th[t].at \in {"out", "away"} /\ mu = Nobody /\ acq < MaxAcq
  /\ mu' = t /\ owned' = TRUE /\ acq' = acq + 1
  /\ th' = [th EXCEPT ![t].at = "marks", ![t].depth = d] /\ Notes("holders", t)
  /\ UNCHANGED <<held, mark, shim, table, reserved, reader>>
Marks(t) == /\ Goes(t, "marks", "holds") /\ mark' = [stack |-> th[t].stack, depth |-> th[t].depth]
            /\ UNCHANGED <<lock, held, acq, shim, table, reserved, reader, seen>>
Holds(t) == /\ Goes(t, "holds", "in") /\ held' = TRUE
            /\ UNCHANGED <<lock, mark, acq, shim, table, reserved, reader, seen>>
(* unlock, and the wait that gives the mutex up behind its back.           *)
Drop(t) ==
  /\ Goes(t, "in", IF th[t].shim THEN "away" ELSE "out") /\ held' = FALSE /\ mu' = Nobody
  /\ owned' \in IF th[t].shim THEN {owned, FALSE} ELSE {FALSE}
  /\ UNCHANGED <<mark, acq, shim, table, reserved, reader, seen>>

NoteShimVa(t) == /\ Goes(t, "in", "shim") /\ ~th[t].shim /\ shimVa' = t /\ Notes("shims", t)
                 /\ UNCHANGED <<lock, pub, shimOwner, table, reserved, reader>>
NoteShimEnter(t) ==
  /\ th[t].at = "shim" /\ shimOwner' = mark /\ th' = [th EXCEPT ![t].at = "in", ![t].shim = TRUE]
  /\ UNCHANGED <<lock, pub, shimVa, table, reserved, reader, seen>>
NoteShimExit(t) ==
  /\ th[t].at = "in" /\ th[t].shim /\ shimOwner' = NoMark /\ th' = [th EXCEPT ![t].shim = FALSE]
  /\ UNCHANGED <<lock, pub, shimVa, table, reserved, reader, seen>>
----------------------------------------------------------------------------
(* probe: the published fields, a scan of the table, and the shim if its   *)
(* owner's name is the holder's.                                           *)
Within(m, lo, hi) == m.stack = lo /\ m.stack = hi /\ m.depth = 1
Loads(from, p) == probe.at = from /\ probe' = p /\ UNCHANGED <<lock, pub, shim, table, reserved, th>>
ProbeHeld ==
  /\ Loads("idle", [Silent EXCEPT !.at = "om", !.held = held]) /\ UNCHANGED last
  /\ seen' = [holders |-> {mu} \ {Nobody}, shims |-> {t \in Thread : th[t].shim \/ th[t].at = "shim"}, stacks |-> {}]
ProbeMark == Loads("om", [probe EXCEPT !.at = "so", !.om = mark]) /\ UNCHANGED <<last, seen>>
ProbeShim == Loads("so", [probe EXCEPT !.at = "acq", !.so = shimOwner]) /\ UNCHANGED <<last, seen>>
ProbeAcq == Loads("acq", [probe EXCEPT !.at = "tag", !.acq = acq, !.n = IF reserved > Slots THEN Slots ELSE reserved, !.i = 1])
            /\ UNCHANGED <<last, seen>>
NextSlot == [probe EXCEPT !.at = "tag", !.i = @ + 1, !.tag = Nobody, !.lo = 0]
ScanTag == /\ probe.i <= probe.n /\ UNCHANGED <<last, seen>>
           /\ Loads("tag", IF table[probe.i].tag = Nobody THEN NextSlot ELSE [probe EXCEPT !.at = "lo", !.tag = table[probe.i].tag])
ScanLo == /\ UNCHANGED <<last, seen>>
          /\ Loads("lo", IF table[probe.i].lo = 0 THEN NextSlot ELSE [probe EXCEPT !.at = "hi", !.lo = table[probe.i].lo])
ScanHi == LET hit(m) == IF Within(m, probe.lo, table[probe.i].hi) THEN {<<probe.i, probe.tag>>} ELSE {}
          IN /\ UNCHANGED <<last, seen>>
             /\ Loads("hi", [NextSlot EXCEPT !.om_by = @ \cup hit(probe.om), !.so_by = @ \cup hit(probe.so)])
Name(hits) == IF Cardinality(hits) = 1 THEN (CHOOSE h \in hits : TRUE)[2] ELSE Nobody
(* Fault: two threads nobody knows are taken for one.                      *)
SameAny(p) == p.so # NoMark /\ (p.so = p.om \/ Name(p.so_by) = Name(p.om_by))
Same(p) == p.so # NoMark /\ (p.so = p.om \/ (Name(p.om_by) # Nobody /\ Name(p.so_by) = Name(p.om_by)))
Attribute == /\ probe.i > probe.n /\ UNCHANGED <<last, seen>>
             /\ Loads("tag", IF probe.held /\ Same(probe) THEN [probe EXCEPT !.at = "va", !.inShim = TRUE] ELSE [probe EXCEPT !.at = "field"])
ProbeVa == Loads("va", [probe EXCEPT !.at = "field", !.va = shimVa]) /\ UNCHANGED <<last, seen>>
(* gil_field: how long the acquisition has lasted, from the samples.       *)
(* Fault: any two samples that found the lock held are one acquisition.    *)
StillAny == probe.held /\ last.held
Still == probe.held /\ last.held /\ probe.acq = last.acq
GilField == /\ Loads("field", Silent) /\ seen' = Unseen
            /\ last' = [acq |-> probe.acq, held |-> probe.held, since |-> IF Still THEN last.since ELSE probe.acq]

Next ==
  \/ \E t \in Thread :
       \/ \E s \in Stacks : Born(t, s)
       \/ RegisterStack(t) \/ Registered(t) \/ UnregisterStack(t) \/ Dies(t)
       \/ \E f \in th[t].todo : Store(t, f)
       \/ \E d \in Depths : Take(t, d)
       \/ Marks(t) \/ Holds(t) \/ Drop(t) \/ NoteShimVa(t) \/ NoteShimEnter(t) \/ NoteShimExit(t)
  \/ ProbeHeld \/ ProbeMark \/ ProbeShim \/ ProbeAcq \/ ScanTag \/ ScanLo \/ ScanHi \/ Attribute \/ ProbeVa \/ GilField
Spec == Init /\ [][Next]_vars
----------------------------------------------------------------------------
(* A name is that of a thread that had the lock during the probe, unless   *)
(* its stack changed hands meanwhile.                                      *)
NameHonest == probe.at = "field" /\ probe.held /\ Name(probe.om_by) # Nobody /\ probe.om.stack \notin seen.stacks
              => Name(probe.om_by) \in seen.holders
(* The shim is one that someone was in during the probe, and that someone  *)
(* had the lock during it, unless a stack changed hands meanwhile.         *)
ShimHonest == probe.at = "field" /\ probe.inShim /\ seen.stacks = {}
              => probe.va \in seen.shims \cap seen.holders
(* The age reported is counted within one acquisition.                     *)
AgeHonest == last.held => last.since = last.acq
(* assert_held never fails in a thread that has the lock: it finds its own *)
(* name or none, at the depth of its lock or below.                        *)
Names(m) == LET hits == {i \in 1..Slots : table[i].tag # Nobody /\ Within(m, table[i].lo, table[i].hi)}
            IN IF Cardinality(hits) = 1 THEN table[CHOOSE i \in hits : TRUE].tag ELSE Nobody
AssertHeldQuiet ==
  \A t \in Thread : th[t].at \in {"in", "shim"} =>
    owned /\ \A d \in Depths : d >= th[t].depth =>
               LET me == Names([stack |-> th[t].stack, depth |-> d]) IN me # Nobody => me = t /\ Names(mark) = me

GilHonest == NameHonest /\ ShimHonest /\ AgeHonest /\ AssertHeldQuiet
============================================================================
