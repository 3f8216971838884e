--------------------------- MODULE MCNativeSched ---------------------------
(* Small instances of NativeSched for TLC: families of guest objects, each *)
(* of which gives an instance its object constants.                        *)
EXTENDS NativeSched

One(o)     == [objs |-> <<o>>, all |-> FALSE]
Both(o, p) == [objs |-> <<o, p>>, all |-> TRUE]

(* A critical section, entered up to twice, beside a pool semaphore of one *)
(* unit and an event anyone sets; a critical section has no handle, so it  *)
(* is never part of a wait for several objects.                            *)
MixedObjects == {"c", "s", "e"}
MixedKinds   ==
  [o \in MixedObjects |-> CASE o = "c" -> "crit" [] o = "s" -> "sema" [] o = "e" -> "auto"]
MixedThreads == [o \in MixedObjects |-> 0]
MixedTokens  == [o \in MixedObjects |-> IF o = "s" THEN 1 ELSE 0]
MixedCounts  == [o \in MixedObjects |-> IF o = "c" THEN 2 ELSE 1]
MixedPool    == {"s"}
MixedWaits   == {One("c"), Both("e", "s")}

(* One mutex.                                                              *)
MutexObjects == {"m"}
MutexKinds   == [o \in MutexObjects |-> "auto"]
MutexThreads == [o \in MutexObjects |-> 0]
MutexTokens  == [o \in MutexObjects |-> 1]
MutexCounts  == [o \in MutexObjects |-> 1]
MutexPool    == {"m"}
MutexWaits   == {One("m")}

(* Thread handles to join on, and a mutex a terminated thread may hold.    *)
JoinObjects == {"h2", "h3", "m"}
JoinKinds   == [o \in JoinObjects |-> IF o = "m" THEN "auto" ELSE "thread"]
JoinThreads == [o \in JoinObjects |-> CASE o = "h2" -> 2 [] o = "h3" -> 3 [] o = "m" -> 0]
JoinTokens  == [o \in JoinObjects |-> IF o = "m" THEN 1 ELSE 0]
JoinCounts  == [o \in JoinObjects |-> 1]
JoinPool    == {"m"}
JoinWaits   == {One("h2"), Both("h3", "m")}

(* Nothing to wait on: thread creation alone.                              *)
NoObjects == {}
NoKinds   == [o \in {} |-> "never"]
NoOwners  == [o \in {} |-> 0]
NoTokens  == [o \in {} |-> 0]
NoCounts  == [o \in {} |-> 1]
NoWaits   == {}
============================================================================
