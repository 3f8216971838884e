------------------------------- MODULE Slices -------------------------------
(***************************************************************************)
(* One runner's slices of translated code (src/runtime/cpu_box86.cpp): the *)
(* block budget its prologues count down, the counters a reader without a  *)
(* lock derives "blocks executed" from, and those who zero the budget from *)
(* another host thread: the anti-starvation net, the code reclaimer, the   *)
(* shutdown.  Each access to a shared field is a step of its own; only the *)
(* total is added to in one, since losing one of two sums would lower it.  *)
(***************************************************************************)
EXTENDS Integers, FiniteSets

CONSTANTS
  Fresh,      \* the budget of a slice (0x7FFFFFFF on this backend)
  Endless,    \* TRUE: a slice's budget is so large that it never runs out by itself
  Pokers,     \* host threads that nudge: the heartbeat, the reclaimer
  Stops,      \* TRUE: the process shuts down at some point
  MaxEntries, \* bound: prologues executed (0: no counting, for liveness)
  MaxExcess   \* bound: what `excess' is when no other poke begins

SliceAssumption == Fresh \in Nat \ {0} /\ MaxEntries \in Nat /\ MaxExcess \in Nat

VARIABLES
  budget, armed, blocks,  \* emu->dyn86_budget, dyn86_armed, dyn86_blocks
  quit,       \* emu->quit
  gstop,      \* dyn86 g_stop
  shutdown,   \* NativeScheduler::shutdown_
  pc,         \* where the runner is
  seen,       \* what it read: a, b in run(), the budget in a prologue
  poke,       \* each poker: where it is in save_slice, what it read, and whom it met
  reader,     \* a lock-free reader of the counter
  entries,    \* prologues executed: the truth the counter reports
  excess      \* history: sums and zeroes of pokes that met another writer

emu == <<budget, armed, blocks, quit>>
vars == <<budget, armed, blocks, quit, gstop, shutdown, pc, seen, poke, reader, entries, excess>>

Idle == [at |-> "idle", a |-> 0, b |-> 0, over |-> FALSE]
AllPokers == Pokers \cup (IF Stops THEN {"stop"} ELSE {})
Quiet == [at |-> "idle", n |-> 0, a |-> 0, out |-> 0]

Init ==
  /\ budget = 0 /\ armed = 0 /\ blocks = 0 /\ quit = FALSE /\ gstop = FALSE /\ shutdown = FALSE
  /\ pc = "seam" /\ seen = [a |-> 0, b |-> 0]
  /\ poke = [p \in AllPokers |-> Idle] /\ reader = Quiet /\ entries = 0 /\ excess = 0

Pos(x) == IF x > 0 THEN x ELSE 0
Counted(n) == IF MaxEntries = 0 THEN 0 ELSE n

(* The pokes between their first load and their zero; the runner between   *)
(* the two ends of its own accounting.                                     *)
InFlight == {p \in AllPokers : poke[p].at \in {"read", "has", "disarmed", "saved"}}
Accounting == pc \in {"read", "disarmed", "saved", "charged"}
(* History: the pokes in flight have met another that writes the counters. *)
Meet == [p \in AllPokers |-> IF p \in InFlight /\ MaxEntries > 0 THEN [poke[p] EXCEPT !.over = TRUE] ELSE poke[p]]
Ahead(p) == IF poke[p].over THEN excess + 1 ELSE excess
----------------------------------------------------------------------------
(* run(): the slice that ended is accounted for, disarmed first, then the  *)
(* next one is charged.                                                    *)
Step(from, to) == pc = from /\ pc' = to
Enter == /\ Step("seam", "read") /\ seen' = [a |-> armed, b |-> budget] /\ poke' = Meet
         /\ UNCHANGED <<emu, gstop, shutdown, reader, entries, excess>>
(* Fault: accumulated first, disarmed after.                               *)
SavesFirst == [first |-> "save", second |-> "disarm"]
Order == [first |-> "disarm", second |-> "save"]
Does(what) ==
  IF what = "disarm" THEN armed' = 0 /\ UNCHANGED blocks
  ELSE blocks' = Counted(blocks + (IF seen.a > 0 THEN seen.a - Pos(seen.b) ELSE 0)) /\ UNCHANGED armed
Disarm == /\ Step("read", "disarmed") /\ Does(Order.first)
          /\ UNCHANGED <<budget, quit, gstop, shutdown, seen, poke, reader, entries, excess>>
Save == /\ Step("disarmed", "saved") /\ Does(Order.second)
        /\ UNCHANGED <<budget, quit, gstop, shutdown, seen, poke, reader, entries, excess>>
Charge == /\ Step("saved", "charged") /\ budget' = Fresh
          /\ UNCHANGED <<armed, blocks, quit, gstop, shutdown, seen, poke, reader, entries, excess>>
Arm == /\ Step("charged", "turn") /\ armed' = Fresh
       /\ UNCHANGED <<budget, blocks, quit, gstop, shutdown, seen, poke, reader, entries, excess>>
(* The loop around DynaRun clears quit before each turn.                   *)
Turn == /\ Step("turn", "code") /\ quit' = FALSE
        /\ UNCHANGED <<budget, armed, blocks, gstop, shutdown, seen, poke, reader, entries, excess>>

(* A block's prologue, after a turn or linked from another block: load,    *)
(* decrement, store, and out at zero or below.                             *)
Less(b) == IF Endless /\ b = Fresh THEN Fresh ELSE b - 1
Load == /\ pc \in {"code", "body"} /\ pc' = "loaded" /\ (MaxEntries > 0 => entries < MaxEntries)
        /\ seen' = [a |-> 0, b |-> budget]
        /\ UNCHANGED <<emu, gstop, shutdown, poke, reader, entries, excess>>
Store == /\ pc = "loaded" /\ budget' = Less(seen.b) /\ pc' = IF Less(seen.b) > 0 THEN "body" ELSE "expired"
         /\ entries' = Counted(entries + 1)
         /\ UNCHANGED <<armed, blocks, quit, gstop, shutdown, seen, poke, reader, excess>>

(* Other ways out of a block: a trap (back for another turn), a    *)
(* yield or a clean stop (back to run_guest), and a jump that is not       *)
(* linked yet: dyn86_should_break, or DynaRun's own look at quit.          *)
Trap == Step("body", "turn") /\ UNCHANGED <<emu, gstop, shutdown, seen, poke, reader, entries, excess>>
(* The link and jump helpers ask it between two blocks.                    *)
ShouldBreak == gstop
Funnel == /\ pc = "body" /\ (ShouldBreak \/ quit) /\ pc' = "clean"
          /\ UNCHANGED <<emu, gstop, shutdown, seen, poke, reader, entries, excess>>
Yield == Step("body", "seam") /\ UNCHANGED <<emu, gstop, shutdown, seen, poke, reader, entries, excess>>

(* run_guest: out when the shutdown has begun, resumed otherwise.          *)
Seam == /\ pc \in {"expired", "clean"} /\ pc' = IF shutdown THEN "out" ELSE "seam"
        /\ UNCHANGED <<emu, gstop, shutdown, seen, poke, reader, entries, excess>>
----------------------------------------------------------------------------
(* save_slice, then the zero: nudge_thread_budget, dyn86_emu_nudge and     *)
(* request_stop, which says so first and sets quit last.  The heartbeat    *)
(* ends with the shutdown.                                                 *)
At(p, from, to) == poke[p].at = from /\ poke' = [poke EXCEPT ![p].at = to]
PokeBegin(p) ==
  /\ poke[p].at = "idle" /\ (p \in {"stop", "beat"} => ~shutdown)
  /\ MaxEntries > 0 => excess < MaxExcess
  /\ poke' = [Meet EXCEPT ![p] = [at |-> "read", a |-> 0, b |-> budget,
                                  over |-> MaxEntries > 0 /\ (Accounting \/ InFlight # {})]]
  /\ IF p = "stop" THEN shutdown' = TRUE /\ gstop' = TRUE ELSE UNCHANGED <<shutdown, gstop>>
  /\ UNCHANGED <<emu, pc, seen, reader, entries, excess>>
PokeArmed(p) ==
  /\ poke[p].at = "read" /\ poke' = [poke EXCEPT ![p].at = "has", ![p].a = armed]
  /\ UNCHANGED <<emu, gstop, shutdown, pc, seen, reader, entries, excess>>
PokeDisarm(p) == /\ At(p, "has", "disarmed") /\ armed' = 0
                 /\ UNCHANGED <<budget, blocks, quit, gstop, shutdown, pc, seen, reader, entries, excess>>
PokeSave(p) ==
  /\ At(p, "disarmed", "saved")
  /\ blocks' = IF poke[p].b > 0 /\ poke[p].a >= poke[p].b THEN Counted(blocks + poke[p].a - poke[p].b) ELSE blocks
  /\ excess' = Ahead(p)
  /\ UNCHANGED <<budget, armed, quit, gstop, shutdown, pc, seen, reader, entries>>
(* Only the stop goes on to quit.                                          *)
Finish(p) == poke[p].at = "saved" /\ poke' = [poke EXCEPT ![p] = IF p = "stop" THEN [@ EXCEPT !.at = "zeroed"] ELSE Idle]
(* Fault: a slice that was accounted for already is not poked again.       *)
PokeZeroArmed(p) == /\ Finish(p)
                    /\ budget' = IF poke[p].a > 0 THEN 0 ELSE budget
                    /\ excess' = Ahead(p)
                    /\ UNCHANGED <<armed, blocks, quit, gstop, shutdown, pc, seen, reader, entries>>
PokeZero(p) == /\ Finish(p) /\ budget' = 0
               /\ excess' = Ahead(p)
               /\ UNCHANGED <<armed, blocks, quit, gstop, shutdown, pc, seen, reader, entries>>
StopQuit == /\ Stops /\ At("stop", "zeroed", "done") /\ quit' = TRUE
            /\ UNCHANGED <<budget, armed, blocks, gstop, shutdown, pc, seen, reader, entries, excess>>

(* thread_emu_blocks: the total, then what was armed, then the budget.     *)
ReadTotal == /\ reader.at = "idle" /\ MaxEntries > 0 /\ reader' = [reader EXCEPT !.at = "n", !.n = blocks]
             /\ UNCHANGED <<emu, gstop, shutdown, pc, seen, poke, entries, excess>>
ReadArmed == /\ reader.at = "n" /\ reader' = [reader EXCEPT !.at = "a", !.a = armed]
             /\ UNCHANGED <<emu, gstop, shutdown, pc, seen, poke, entries, excess>>
ReadBudget ==
  /\ reader.at = "a"
  /\ reader' = [Quiet EXCEPT !.out = IF budget > 0 /\ reader.a >= budget THEN reader.n + reader.a - budget ELSE reader.n]
  /\ UNCHANGED <<emu, gstop, shutdown, pc, seen, poke, entries, excess>>

Runner == Enter \/ Disarm \/ Save \/ Charge \/ Arm \/ Turn \/ Load \/ Store \/ Seam
Poking(p) == PokeArmed(p) \/ PokeDisarm(p) \/ PokeSave(p) \/ PokeZero(p)
Next == \/ Runner \/ Trap \/ Funnel \/ Yield
        \/ \E p \in AllPokers : PokeBegin(p) \/ Poking(p)
        \/ StopQuit
        \/ ReadTotal \/ ReadArmed \/ ReadBudget
        \/ pc = "out" /\ UNCHANGED vars
Spec == Init /\ [][Next]_vars
(* The runner and a poker that has begun go on; the heartbeat pokes again  *)
(* and again, and does not always hit the window of a prologue.            *)
LiveSpec ==
  /\ Spec /\ WF_vars(Runner) /\ WF_vars(StopQuit) /\ WF_vars("beat" \in Pokers /\ PokeBegin("beat"))
  /\ \A p \in AllPokers : /\ WF_vars(Poking(p)) /\ SF_vars(PokeZero(p) /\ pc # "loaded")
                           /\ SF_vars(Store /\ poke[p].at = "saved")
----------------------------------------------------------------------------
(* thread_emu_blocks never runs ahead of the blocks the thread entered,    *)
(* whatever the runner was doing between the reader's three loads, as long *)
(* as a poke meets neither run()'s accounting, which holds no lock, nor    *)
(* another poke.  One that does may count a slice twice when it sums, and  *)
(* make a slice that has just begun count in full when it zeroes: each by  *)
(* no more than a slice, against cpu_box86.cpp:1103-1106 ("no ordering     *)
(* here can produce a +2^31 jump").                                        *)
CensusHonest == reader.out <= entries + Fresh * excess

(* A thread that computes without a trap leaves its code: a poke may be    *)
(* lost in a prologue or overwritten by the charge of a slice, but not     *)
(* every poke can.                                                         *)
NudgedLeaves == pc \in {"code", "loaded", "body"} ~> (pc \in {"seam", "expired", "turn"} \/ shutdown)

(* A shutdown reaches the runner.                                          *)
StopLands == (Stops /\ poke["stop"].at = "done") ~> (pc = "out")
============================================================================
