------------------------------- MODULE MCFair -------------------------------
(* What must eventually happen when guest threads compute without ever     *)
(* waiting: the net that gives main its core, the poke that takes a thread *)
(* out of its code, and the turns of the cooperative scheduler.  A         *)
(* behaviour is one part's; the net's variables are Famine's own.          *)
EXTENDS Famine

VARIABLES
  part,
  y1, y2, y3, y4, y5, y6, y7, y8, y9, y10, y11, y12,
  phase, cur, cursor, rr, state, waitObj, left, writesEax, timeoutEax, reply, asked,
  got, cnt, own, exitCode, threads, base, size, stackNext, pin, preempted, midway,
  inDllMain, shutdown, reason

(* One runner, a budget too large to run out by itself, the heartbeat and  *)
(* a shutdown.                                                             *)
Slice == INSTANCE Slices WITH
  Fresh <- 3, Endless <- TRUE, Pokers <- {"beat"}, Stops <- TRUE, MaxEntries <- 0, MaxExcess <- 0,
  budget <- y1, armed <- y2, blocks <- y3, quit <- y4, gstop <- y5, shutdown <- y6, pc <- y7,
  seen <- y8, poke <- y9, reader <- y10, entries <- y11, excess <- y12

(* A pool semaphore of one unit and an event anyone sets, waited for       *)
(* together or either alone.                                               *)
SignalObjects == {"s", "e"}
SignalKinds   == [o \in SignalObjects |-> IF o = "s" THEN "sema" ELSE "auto"]
SignalThreads == [o \in SignalObjects |-> 0]
SignalTokens  == [o \in SignalObjects |-> IF o = "s" THEN 1 ELSE 0]
SignalCounts  == [o \in SignalObjects |-> 1]
SignalPool    == {"s"}
SignalWaits   == {[objs |-> <<"e", "s">>, all |-> every] : every \in BOOLEAN}

(* Two threads, the two objects, and a clock that moves by itself. *)
OneUnit == [base |-> 1, size |-> 1]
Coop == INSTANCE CoopSched WITH
  MaxThread <- 2, Object <- SignalObjects, Kind <- SignalKinds, ThreadOf <- SignalThreads,
  Waits <- SignalWaits, Pool <- SignalPool, Tokens <- SignalTokens, MaxCount <- SignalCounts,
  RealClock <- TRUE, RealExpire <- TRUE, DeferWake <- FALSE, Timeouts <- {1}, MaxTick <- 1,
  Answers <- {"code"}, PinCallers <- {}, Killable <- {}, ExitCallers <- {}, Faulting <- {},
  MayStop <- FALSE, SwitchCap <- FALSE, Suspended <- {FALSE}, StackSizes <- {1},
  StackRegion <- 16, MainStack <- OneUnit

ASSUME Coop!CoopAssumption

slice == <<y1, y2, y3, y4, y5, y6, y7, y8, y9, y10, y11, y12>>
turns == <<phase, cur, cursor, rr, state, waitObj, left, writesEax, timeoutEax, reply, asked,
           got, cnt, own, exitCode, threads, base, size, stackNext, pin, preempted, midway,
           inDllMain, shutdown, reason>>
all == <<part, vars, slice, turns>>
OfNet(A)   == part = "net" /\ A /\ UNCHANGED <<part, slice, turns>>
OfSlice(A) == part = "slice" /\ A /\ UNCHANGED <<part, vars, turns>>
OfCoop(A)  == part = "coop" /\ A /\ UNCHANGED <<part, vars, slice>>

FairInit == part \in {"net", "slice", "coop"} /\ Init /\ Slice!Init /\ Coop!Init
FairNext == OfNet(Next) \/ OfSlice(Slice!Next) \/ OfCoop(Coop!Next)

-----------------------------------------------------------------------------
(* The poker that shares its strong fairness conditions with a thread's.    *)
Host(t) == IF t = MainThread THEN "beat" ELSE "stop"

(* Each part's fairness: every thread that can go on does.  A behaviour is *)
(* of one part, so a strong fairness condition may name an action of each. *)
Weak ==
  /\ WF_all(OfNet(Dispatch)) /\ WF_all(OfNet(Window)) /\ WF_all(OfNet(Publish))
  /\ WF_all(OfNet(Unlock))
  /\ \A t \in Threads : WF_all(OfNet(Runs(t))) /\ WF_all(OfNet(Poke(t) \/ PokeLost(t)))
  /\ WF_all(OfSlice(Slice!Runner)) /\ WF_all(OfSlice(Slice!StopQuit))
  /\ WF_all(OfSlice(Slice!PokeBegin("beat")))
  /\ \A p \in Slice!AllPokers : WF_all(OfSlice(Slice!Poking(p)))
  /\ WF_all(OfCoop(Coop!Host)) /\ \A t \in Coop!Thread : WF_all(OfCoop(Coop!Preempt(t)))

(* The heartbeat finds the GIL free now and then, the GIL goes round, not  *)
(* every poke falls in the two instructions of a prologue and the next     *)
(* prologue sees an expired budget; a poker between two of its stores      *)
(* does not stop the prologue; and a real clock moves on between slices.   *)
Strong ==
  /\ SF_all(OfNet(Lock) \/ OfCoop(Coop!TimePasses))
  /\ \A t \in Threads : SF_all(OfNet(GilComes(t)))
  /\ \A t \in Threads :
       /\ SF_all(OfNet(Poke(t)) \/ OfSlice(Slice!PokeZero(Host(t)) /\ y7 # "loaded"))
       /\ SF_all(OfNet(Expire(t)) \/ OfSlice(Slice!Store /\ y9[Host(t)].at = "saved"))

FairSpec == FairInit /\ [][FairNext]_all /\ Weak /\ Strong

-----------------------------------------------------------------------------
(* Main, back from its rest and ready behind a thread that computes, gets  *)
(* the core, unless one that is not running keeps the GIL (StarvedRuns).   *)
MainGetsItsTurn == part = "net" => StarvedRuns

(* A thread that computes without a trap leaves its code in the end,       *)
(* although a poke may be lost.                                            *)
NudgeLands == part = "slice" => Slice!NudgedLeaves

(* Every ready thread runs and every timed wait ends, although the others  *)
(* never block.                                                            *)
TurnsCome == part = "coop" => Coop!ReadyRuns /\ Coop!TimedWaitEnds
=============================================================================
