------------------------------- MODULE Famine -------------------------------
(***************************************************************************)
(* The anti-starvation net (src/runtime/sched_native.cpp: arm_famine,      *)
(* fam_beat, fam_nap and the seam of run_guest).  The runners share one    *)
(* core, where a thread runs until it blocks; the heartbeat has another.   *)
(* Main draws frames and rests between them; the others compute without  *)
(* ever waiting, trapping into the engine now and then.                    *)
(***************************************************************************)
EXTENDS Naturals, Sequences, FiniteSets, SequencesExt, TLAPS

CONSTANTS MainThread, Spinners

Threads == {MainThread} \cup Spinners
Beat == "beat"
Nobody == "nobody"

VARIABLES
  core,     \* who is on the core
  ready,    \* who waits for it, in order
  pc,       \* run, code, trap (wants the GIL), shim (has it), seam (left its code), nap, rest
  zeroed,   \* its block budget is zero
  unacked,  \* fam_epoch_ # fam_ack
  moved,    \* a frame or a wake since the last window
  gil,      \* who has the GIL
  beat,     \* the heartbeat: sleep, epoch, poke, unlock
  topoke,   \* the runners it has still to poke
  napped,   \* has napped since the last detection began
  owed      \* was poked, and has not napped for that detection

vars == <<core, ready, pc, zeroed, unacked, moved, gil, beat, topoke, napped, owed>>

Init ==
  /\ core = Nobody /\ ready = SetToSeq(Threads)
  /\ pc = [t \in Threads |-> "code"] /\ zeroed = [t \in Threads |-> FALSE] 
  /\ unacked = [t \in Threads |-> FALSE] /\ moved = TRUE /\ gil = Nobody
  /\ beat = "sleep" /\ topoke = {} /\ napped = [t \in Threads |-> TRUE]
  /\ owed = [t \in Threads |-> FALSE]

(* The kernel: the first of the ready threads takes a free core, and keeps *)
(* it until it blocks.                                                     *)
Dispatch == /\ core = Nobody /\ ready # <<>> /\ core' = Head(ready) /\ ready' = SubSeq(ready, 2, Len(ready))
            /\ UNCHANGED <<pc, zeroed, unacked, moved, gil, beat, topoke, napped, owed>>
Goes(t, from, to) == core = t /\ pc[t] = from /\ pc' = [pc EXCEPT ![t] = to]
Blocks(t) == core' = Nobody /\ UNCHANGED ready
----------------------------------------------------------------------------
Expire(t) == /\ Goes(t, "code", "seam") /\ zeroed[t]
             /\ UNCHANGED <<core, ready, zeroed, unacked, moved, gil, beat, topoke, napped, owed>>

(* run_guest's seam after the budget ran out: one nap per epoch, without   *)
(* the GIL, otherwise straight back; run() charges the budget again.       *)
Nap(t) == /\ Goes(t, "seam", "nap") /\ unacked[t] /\ unacked' = [unacked EXCEPT ![t] = FALSE]
          /\ napped' = [napped EXCEPT ![t] = TRUE] /\ owed' = [owed EXCEPT ![t] = FALSE] /\ Blocks(t)
          /\ UNCHANGED <<zeroed, moved, gil, beat, topoke>>
Resume(t) == /\ Goes(t, "seam", "run") /\ ~unacked[t]
             /\ UNCHANGED <<core, ready, zeroed, unacked, moved, gil, beat, topoke, napped, owed>>
NapEnds(t) == /\ pc[t] = "nap" /\ pc' = [pc EXCEPT ![t] = "run"] /\ ready' = Append(ready, t)
              /\ UNCHANGED <<core, zeroed, unacked, moved, gil, beat, topoke, napped, owed>>
Run(t) == /\ Goes(t, "run", "code") /\ zeroed' = [zeroed EXCEPT ![t] = FALSE]
          /\ UNCHANGED <<core, ready, unacked, moved, gil, beat, topoke, napped, owed>>

(* A trap takes the GIL; it waits off the core if another has it.          *)
Trap(t) == /\ Goes(t, "code", IF gil = Nobody THEN "shim" ELSE "trap")
           /\ IF gil = Nobody THEN gil' = t /\ UNCHANGED <<core, ready>> ELSE Blocks(t) /\ UNCHANGED gil
           /\ UNCHANGED <<zeroed, unacked, moved, beat, topoke, napped, owed>>
GilComes(t) == /\ pc[t] = "trap" /\ gil = Nobody /\ gil' = t /\ pc' = [pc EXCEPT ![t] = "shim"]
               /\ ready' = Append(ready, t)
               /\ UNCHANGED <<core, zeroed, unacked, moved, beat, topoke, napped, owed>>
ShimEnds(t) == /\ Goes(t, "shim", "code") /\ gil' = Nobody
               /\ UNCHANGED <<core, ready, zeroed, unacked, moved, beat, topoke, napped, owed>>
(* Main's shim draws a frame and sleeps until the next.                  *)
Rest == /\ Goes(MainThread, "shim", "rest") /\ gil' = Nobody /\ moved' = TRUE /\ Blocks(MainThread)
        /\ UNCHANGED <<zeroed, unacked, beat, topoke, napped, owed>>
RestEnds == /\ pc[MainThread] = "rest" /\ pc' = [pc EXCEPT ![MainThread] = "code"] /\ ready' = Append(ready, MainThread) /\ moved' = TRUE
            /\ UNCHANGED <<core, zeroed, unacked, gil, beat, topoke, napped, owed>>
----------------------------------------------------------------------------
(* fam_beat: at each window, suspicion only if nothing moved; a GIL that   *)
(* is busy skips the window, which changes nothing here.                   *)
(* The end of a window.                                                     *)
WindowOver == beat = "sleep"
Window == /\ WindowOver /\ moved /\ moved' = FALSE
          /\ UNCHANGED <<core, ready, pc, zeroed, unacked, gil, beat, topoke, napped, owed>>
(* Fault: the budgets first, the epoch last.                               *)
PokesFirst == <<"poke", "epoch">>
Plan == <<"epoch", "poke">>
(* Fault: the runners that wait are poked, not those that run.             *)
PokesWaiters == {t \in Threads : pc[t] = "rest"}
Poked == {t \in Threads : pc[t] # "rest"}
Lock == /\ WindowOver /\ ~moved /\ gil = Nobody /\ gil' = Beat /\ beat' = Plan[1]
        /\ topoke' = Poked /\ napped' = [t \in Threads |-> FALSE]
        /\ UNCHANGED <<core, ready, pc, zeroed, unacked, moved, owed>>
After(part) == IF Plan[1] = part THEN Plan[2] ELSE "unlock"
Publish == /\ beat = "epoch" /\ beat' = After("epoch")
           /\ unacked' = [t \in Threads |-> TRUE]
           /\ UNCHANGED <<core, ready, pc, zeroed, moved, gil, topoke, napped, owed>>
(* A poke that falls between the load and the store of a block's prologue  *)
(* is lost: Slices has that window instruction by instruction.             *)
Pokes(t, z) == /\ beat = "poke" /\ t \in topoke /\ topoke' = topoke \ {t} /\ zeroed' = [zeroed EXCEPT ![t] = z]
               /\ beat' = IF topoke = {t} THEN After("poke") ELSE beat
               /\ owed' = [owed EXCEPT ![t] = ~napped[t]]
               /\ UNCHANGED <<core, ready, pc, unacked, moved, gil, napped>>
Poke(t) == Pokes(t, TRUE)
PokeLost(t) == core = t /\ pc[t] = "code" /\ Pokes(t, zeroed[t])
Unlock == /\ beat = "unlock" /\ gil' = Nobody /\ beat' = "sleep"
          /\ UNCHANGED <<core, ready, pc, zeroed, unacked, moved, topoke, napped, owed>>

Runs(t) == Expire(t) \/ Nap(t) \/ Resume(t) \/ NapEnds(t) \/ Run(t) \/ GilComes(t) \/ ShimEnds(t)
Next == \/ Dispatch
        \/ \E t \in Threads : Runs(t) \/ Trap(t) \/ Poke(t) \/ PokeLost(t)
        \/ Rest \/ RestEnds
        \/ Window \/ Lock \/ Publish \/ Unlock

Spec == Init /\ [][Next]_vars
----------------------------------------------------------------------------
(* A detection costs each runner it pokes a nap: one that left its         *)
(* translated code is not sent straight back while it owes one.            *)
PokeMeansNap == [][\A t \in Threads : Resume(t) => ~owed[t]]_vars

(* Main, back from its rest and ready behind a thread that computes, gets*)
(* the core, unless someone who is not running keeps the GIL: the net      *)
(* cannot help then, and says so in its log.                               *)
Asleep == gil \in Threads /\ gil # core
StarvedRuns == (\E i \in DOMAIN ready : ready[i] = MainThread) ~> (core = MainThread \/ Asleep)
----------------------------------------------------------------------------
(* A runner's debt is backed by the epoch it has not acknowledged: the     *)
(* epoch is raised before the first poke, so a runner poked without having *)
(* napped since cannot find it acknowledged.                               *)
NapInv ==
  /\ beat \in {"sleep", "epoch", "poke", "unlock"}
  /\ unacked \in [Threads -> BOOLEAN] /\ napped \in [Threads -> BOOLEAN]
  /\ owed \in [Threads -> BOOLEAN]
  /\ \A t \in Threads : owed[t] => unacked[t]
  /\ beat = "poke" => \A t \in Threads : unacked[t] \/ napped[t]

(* The invariant holds initially,                                          *)
LEMMA NapInit == Init => NapInv
BY DEF Init, NapInv

(* and every step keeps it.                                                *)
LEMMA NapStep == NapInv /\ [Next]_vars => NapInv'
<1> SUFFICES ASSUME NapInv, [Next]_vars
             PROVE  NapInv'
  OBVIOUS
<1> USE DEF NapInv
<1>1. CASE Lock
  BY <1>1 DEF Lock, Plan
<1>2. CASE Publish
  BY <1>2 DEF Publish, After, Plan
<1>3. ASSUME NEW t \in Threads, NEW z, Pokes(t, z)
      PROVE  NapInv'
  <2>1. /\ beat = "poke" /\ UNCHANGED <<unacked, napped>>
        /\ beat' \in {"poke", "unlock"}
        /\ owed' = [owed EXCEPT ![t] = ~napped[t]]
    BY <1>3 DEF Pokes, After, Plan
  <2>2. owed' \in [Threads -> BOOLEAN]
    BY <2>1
  <2>3. \A u \in Threads : owed'[u] => unacked'[u]
    BY <2>1
  <2> QED  BY <2>1, <2>2, <2>3
<1>4. ASSUME NEW t \in Threads, Nap(t)
      PROVE  NapInv'
  BY <1>4 DEF Nap, Goes, Blocks
<1>5. CASE beat' = "sleep" /\ UNCHANGED <<unacked, napped, owed>>
  BY <1>5
<1>6. CASE UNCHANGED <<beat, unacked, napped, owed>>
  BY <1>6
<1>7. \/ Lock \/ Publish \/ \E t \in Threads : Nap(t) \/ \E z : Pokes(t, z)
      \/ beat' = "sleep" /\ UNCHANGED <<unacked, napped, owed>>
      \/ UNCHANGED <<beat, unacked, napped, owed>>
  <2>1. CASE Window \/ Unlock \/ Dispatch \/ Rest \/ RestEnds \/ UNCHANGED vars
    BY <2>1 DEF Window, Unlock, Dispatch, Rest, RestEnds, vars
  <2>2. ASSUME NEW t \in Threads, Trap(t) \/ Poke(t) \/ PokeLost(t)
        PROVE  UNCHANGED <<beat, unacked, napped, owed>> \/ \E z : Pokes(t, z)
    BY <2>2 DEF Trap, Poke, PokeLost
  <2>3. ASSUME NEW t \in Threads, Runs(t), ~Nap(t)
        PROVE  UNCHANGED <<beat, unacked, napped, owed>>
    BY <2>3 DEF Runs, Expire, Resume, NapEnds, Run, GilComes, ShimEnds
  <2> QED  BY <2>1, <2>2, <2>3 DEF Next, Runs
<1> QED  BY <1>1, <1>2, <1>3, <1>4, <1>5, <1>6, <1>7

(* Whatever the order of the runners on the core, a runner that was poked  *)
(* naps before its code goes on.                                           *)
THEOREM PokedNaps == Spec => PokeMeansNap
<1>1. NapInv => \A t \in Threads : Resume(t) => ~owed[t]
  BY DEF NapInv, Resume
<1> QED  BY <1>1, NapInit, NapStep, PTL DEF Spec, PokeMeansNap
============================================================================
