--------------------------- MODULE MCCoopSafety ---------------------------
(* CoopSched over one set of objects, a behaviour keeping to one of two    *)
(* restrictions of it: the waits of two threads, and the lives of three.   *)
(* Each step of either is a step of CoopSched.                             *)
EXTENDS CoopSched

VARIABLE part

One(o)       == [objs |-> <<o>>, all |-> FALSE]
Either(o, p) == [objs |-> <<o, p>>, all |-> FALSE]
Both(o, p)   == [objs |-> <<o, p>>, all |-> TRUE]

(* A critical section, entered up to twice, beside a pool semaphore of one *)
(* unit and an event anyone sets; a critical section has no handle, so it  *)
(* is never part of a wait for several objects.                            *)
MixedObjects == {"c", "s", "e"}
MixedKinds   ==
  [o \in MixedObjects |-> CASE o = "c" -> "crit" [] o = "s" -> "sema" [] o = "e" -> "auto"]
MixedThreads == [o \in MixedObjects |-> 0]
MixedTokens  == [o \in MixedObjects |-> IF o = "s" THEN 1 ELSE 0]
MixedCounts  == [o \in MixedObjects |-> IF o = "c" THEN 2 ELSE 1]
MixedPool    == {"s"}
MixedWaits   == {One("c"), Both("e", "s"), Either("e", "s")}

(* Thread handles to join on, and a mutex a terminated thread may hold.    *)
JoinObjects == {"h2", "h3", "m"}
JoinKinds   == [o \in JoinObjects |-> IF o = "m" THEN "auto" ELSE "thread"]
JoinThreads == [o \in JoinObjects |-> CASE o = "h2" -> 2 [] o = "h3" -> 3 [] o = "m" -> 0]
JoinTokens  == [o \in JoinObjects |-> IF o = "m" THEN 1 ELSE 0]
JoinCounts  == [o \in JoinObjects |-> 1]
JoinPool    == {"m"}
JoinWaits   == {One("h2"), Both("h3", "m")}

(* Main's stack, as large as the ones carved for workers: it is recycled   *)
(* like theirs when main ends.                                             *)
OneUnit == [base |-> 1, size |-> 1]

AllObjects == MixedObjects \cup JoinObjects
OfEither(mixed, join) == [o \in AllObjects |-> IF o \in MixedObjects THEN mixed[o] ELSE join[o]]
AllKinds   == OfEither(MixedKinds, JoinKinds)
AllThreads == OfEither(MixedThreads, JoinThreads)
AllTokens  == OfEither(MixedTokens, JoinTokens)
AllCounts  == OfEither(MixedCounts, JoinCounts)
AllPool    == MixedPool \cup JoinPool
AllWaits   == MixedWaits \cup JoinWaits

Pair == INSTANCE CoopSched WITH
  Waits <- MixedWaits, PinCallers <- {}, Killable <- {}, ExitCallers <- {}, Faulting <- {},
  MayStop <- FALSE, SwitchCap <- FALSE, Suspended <- {FALSE}
Trio == INSTANCE CoopSched WITH Waits <- JoinWaits, Timeouts <- {}, Answers <- {"code"}

MCInit == Init /\ part \in {"waits", "lives"}
MCNext ==
  /\ \/ part = "waits" /\ Pair!Next /\ threads' \subseteq {1, 2}
     \/ part = "lives" /\ Trio!Next /\ cnt'["e"] = cnt["e"]
  /\ UNCHANGED part
MCSpec == MCInit /\ [][MCNext]_<<part, vars>>
============================================================================
