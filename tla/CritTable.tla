------------------------------ MODULE CritTable ------------------------------
(***************************************************************************)
(* The table of critical sections (runtime/guest_sync.cpp): guest address  *)
(* to section, with the last one used kept beside it.  The threads come    *)
(* from the embedder's shims, one call at a time under the lock of the     *)
(* schedulers: enter, leave, and delete when nobody is inside or waits.    *)
(***************************************************************************)
EXTENDS Naturals, TLAPS

CONSTANTS
  Threads, Addresses,
  MaxSections,   \* bound: sections ever made
  MaxDepth       \* bound: entries of one thread into one section

VARIABLES
  g_crits,   \* per address, its section; None without one
  last,      \* g_csLastVa and g_csLastK: an address and its section
  made,      \* sections made so far: they are numbered, and none is freed
  crit,      \* per section, its owner and count
  parked,    \* per thread, the address and section it waits for
  inside     \* per thread and address, the entries it has not left

vars == <<g_crits, last, made, crit, parked, inside>>

None == 0
NoLast == [va |-> None, k |-> None]
Free == [owner |-> None, count |-> 0]

Init == /\ g_crits = [a \in Addresses |-> None] /\ last = NoLast /\ made = 0
        /\ crit = [k \in 1..MaxSections |-> Free]
        /\ parked = [t \in Threads |-> NoLast]
        /\ inside = [t \in Threads |-> [a \in Addresses |-> 0]]

(* wx86_crit_lookup: the cache answers for its address while it is set.    *)
Hit(a) == last.va = a /\ last.k # None
Lookup(a) == IF Hit(a) THEN last.k ELSE g_crits[a]
Remembers(a, k) == last' = IF k = None THEN last ELSE [va |-> a, k |-> k]

(* wx86_crit_for makes the section that is missing.                        *)
CritFor(a, k) ==
  /\ \/ Lookup(a) # None /\ k = Lookup(a) /\ UNCHANGED <<g_crits, made>>
     \/ /\ Lookup(a) = None /\ made < MaxSections
        /\ k = made + 1 /\ made' = k /\ g_crits' = [g_crits EXCEPT ![a] = k]
  /\ Remembers(a, k)

(* WxCrit::try_acquire by the thread t.                                    *)
CanAcquire(t, k) == crit[k].owner \in {None, t}
Acquired(t, k, a) ==
  /\ crit' = [crit EXCEPT ![k] = [owner |-> t, count |-> @.count + 1]]
  /\ inside' = [inside EXCEPT ![t][a] = @ + 1]

Enter(t, a) ==
  /\ parked[t] = NoLast /\ inside[t][a] < MaxDepth
  /\ \E k \in 1..MaxSections :
       /\ CritFor(a, k)
       /\ IF CanAcquire(t, k) THEN Acquired(t, k, a) /\ UNCHANGED parked
          ELSE parked' = [parked EXCEPT ![t] = [va |-> a, k |-> k]] /\ UNCHANGED <<crit, inside>>

(* The scheduler retries for a parked thread, on the section it parked on. *)
Retry(t) ==
  /\ parked[t] # NoLast /\ CanAcquire(t, parked[t].k)
  /\ Acquired(t, parked[t].k, parked[t].va) /\ parked' = [parked EXCEPT ![t] = NoLast]
  /\ UNCHANGED <<g_crits, last, made>>

(* wx86_crit_leave: an unknown address is nothing, and the last exit frees.*)
Released(c) == IF c.count = 1 THEN Free ELSE [c EXCEPT !.count = @ - 1]
Leave(t, a) ==
  /\ parked[t] = NoLast /\ inside[t][a] > 0
  /\ LET k == Lookup(a)
     IN /\ Remembers(a, k)
        /\ crit' = IF k = None \/ crit[k].count = 0 THEN crit ELSE [crit EXCEPT ![k] = Released(@)]
  /\ inside' = [inside EXCEPT ![t][a] = @ - 1]
  /\ UNCHANGED <<g_crits, made, parked>>

(* wx86_crit_forget: the address, and the cache if it holds it.  Fault:    *)
(* the cache keeps it.                                                     *)
KeptLast(a) == last
Unless(a) == IF last.va = a THEN NoLast ELSE last
Forget(a) ==
  /\ \A t \in Threads : inside[t][a] = 0 /\ parked[t].va # a
  /\ g_crits' = [g_crits EXCEPT ![a] = None] /\ last' = Unless(a)
  /\ UNCHANGED <<made, crit, parked, inside>>

Next == \/ \E t \in Threads : Retry(t) \/ \E a \in Addresses : Enter(t, a) \/ Leave(t, a)
        \/ \E a \in Addresses : Forget(a)
Spec == Init /\ [][Next]_vars
-----------------------------------------------------------------------------
(* wx86_crit_each_held                                                     *)
EachHeld == {<<a, crit[g_crits[a]].owner, crit[g_crits[a]].count>> :
               a \in {b \in Addresses : g_crits[b] # None /\ crit[g_crits[b]].owner # None}}

(* At most one thread is inside the section of an address; what is held is *)
(* what the guest's threads have entered and not left, also where a section*)
(* was deleted and one made anew at its address; and the cache never       *)
(* answers other than the table (wx86_crit_for, wx86_crit_forget).         *)
OneInside ==
  /\ EachHeld = {<<p[2], p[1], inside[p[1]][p[2]]>> :
                   p \in {q \in Threads \X Addresses : inside[q[1]][q[2]] > 0}}
  /\ \A a \in Addresses, t, u \in Threads : inside[t][a] > 0 /\ inside[u][a] > 0 => t = u
  /\ \A a \in Addresses : Lookup(a) = g_crits[a]
-----------------------------------------------------------------------------
(* The proof that OneInside always holds.  Sections are numbered as they   *)
(* are made, so the one an address gets anew is nobody's.                  *)

TypeOK ==
  /\ g_crits \in [Addresses -> 0..MaxSections] /\ made \in 0..MaxSections
  /\ last \in [va : Addresses \cup {None}, k : 0..MaxSections]
  /\ crit \in [1..MaxSections -> [owner : Threads \cup {None}, count : Nat]]
  /\ parked \in [Threads -> [va : Addresses \cup {None}, k : 0..MaxSections]]
  /\ inside \in [Threads -> [Addresses -> Nat]]

(* No two addresses have one section, and none has one not made yet.       *)
Distinct ==
  /\ \A a \in Addresses : g_crits[a] <= made
  /\ \A a, b \in Addresses : g_crits[a] = g_crits[b] /\ g_crits[a] # None => a = b

(* What the cache and the parked threads remember is in the table.         *)
Remembered ==
  /\ last.k # None => last.va \in Addresses /\ g_crits[last.va] = last.k
  /\ \A t \in Threads : parked[t] # NoLast =>
       parked[t].va \in Addresses /\ parked[t].k # None /\ g_crits[parked[t].va] = parked[t].k

(* A section is its owner's, who entered it by the address that has it.    *)
Owned ==
  /\ \A t \in Threads, a \in Addresses : inside[t][a] > 0 =>
       g_crits[a] # None /\ crit[g_crits[a]] = [owner |-> t, count |-> inside[t][a]]
  /\ \A k \in 1..MaxSections :
       \/ crit[k] = Free
       \/ \E a \in Addresses : g_crits[a] = k /\ crit[k].owner # None /\ inside[crit[k].owner][a] > 0

CritInv == TypeOK /\ Distinct /\ Remembered /\ Owned

(* Guest thread ids start at 1; sections are counted.                      *)
LEMMA InitOwned == ASSUME MaxSections \in Nat PROVE Init => CritInv
  BY DEF Init, CritInv, TypeOK, Distinct, Remembered, Owned, NoLast, Free, None

(* The cache answers as the table does.                                    *)
LEMMA CacheTrue == ASSUME CritInv, NEW a \in Addresses
                   PROVE Lookup(a) = g_crits[a]
  BY DEF CritInv, Remembered, Lookup, Hit

(* What wx86_crit_for returns is the section the table then has, and is    *)
(* Free if it was made just now.                                           *)
LEMMA ForIsInTable ==
  ASSUME MaxSections \in Nat, CritInv, NEW a \in Addresses, NEW k \in 1..MaxSections, CritFor(a, k)
  PROVE /\ g_crits' \in [Addresses -> 0..MaxSections] /\ made' \in 0..MaxSections
        /\ last' \in [va : Addresses \cup {None}, k : 0..MaxSections]
        /\ Distinct' /\ g_crits'[a] = k
        /\ last'.k # None => last'.va \in Addresses /\ g_crits'[last'.va] = last'.k
        /\ \A b \in Addresses : g_crits[b] # None => g_crits'[b] = g_crits[b]
        /\ \A b \in Addresses : g_crits'[b] # g_crits[b] =>
             b = a /\ k = made + 1 /\ \A c \in Addresses : g_crits[c] # k
<1> USE DEF CritInv, TypeOK, None
<1>1. Lookup(a) = g_crits[a]
  BY CacheTrue
<1>2. last' = [va |-> a, k |-> k]
  BY DEF CritFor, Remembers
<1>3. CASE g_crits[a] # None /\ k = g_crits[a] /\ UNCHANGED <<g_crits, made>>
  <2>1. g_crits' = g_crits /\ made' = made
    BY <1>3
  <2>2. Distinct'
    BY <2>1 DEF Distinct
  <2>3. last'.va = a /\ last'.k = k /\ last' \in [va : Addresses \cup {None}, k : 0..MaxSections]
    BY <1>2
  <2> QED
    BY <1>3, <2>1, <2>2, <2>3
<1>4. CASE /\ g_crits[a] = None /\ made < MaxSections
           /\ k = made + 1 /\ made' = k /\ g_crits' = [g_crits EXCEPT ![a] = k]
  <2>1. \A b \in Addresses : g_crits'[b] = IF b = a THEN k ELSE g_crits[b]
    BY <1>4
  <2>2. \A b \in Addresses : g_crits[b] # k
    BY <1>4 DEF Distinct
  <2>3. Distinct'
    <3>1. \A b \in Addresses : g_crits'[b] <= made'
      BY <1>4, <2>1 DEF Distinct
    <3>2. \A b, c \in Addresses : g_crits'[b] = g_crits'[c] /\ g_crits'[b] # None => b = c
      BY <2>1, <2>2 DEF Distinct
    <3> QED
      BY <3>1, <3>2 DEF Distinct
  <2>4. last'.va = a /\ last'.k = k /\ last' \in [va : Addresses \cup {None}, k : 0..MaxSections]
    BY <1>2
  <2> QED
    BY <1>4, <2>1, <2>2, <2>3, <2>4
<1> QED
  BY <1>1, <1>3, <1>4 DEF CritFor

(* An acquisition by the section an address has.                           *)
LEMMA AcquireOwned ==
  ASSUME MaxSections \in Nat, CritInv, NEW t \in Threads, NEW a \in Addresses,
         NEW k \in 1..MaxSections, None \notin Threads,
         g_crits' \in [Addresses -> 0..MaxSections], Distinct', g_crits'[a] = k,
         \A b \in Addresses : g_crits[b] # None => g_crits'[b] = g_crits[b],
         CanAcquire(t, k), Acquired(t, k, a)
  PROVE /\ Owned'
        /\ crit' \in [1..MaxSections -> [owner : Threads \cup {None}, count : Nat]]
        /\ inside' \in [Threads -> [Addresses -> Nat]]
<1> USE DEF CritInv, TypeOK
<1>1. /\ crit' \in [1..MaxSections -> [owner : Threads \cup {None}, count : Nat]]
      /\ inside' \in [Threads -> [Addresses -> Nat]]
  <2>1. crit[k].count + 1 \in Nat /\ inside[t][a] + 1 \in Nat
    <3>1. crit[k] \in [owner : Threads \cup {None}, count : Nat] /\ inside[t] \in [Addresses -> Nat]
      OBVIOUS
    <3> HIDE DEF CritInv, TypeOK
    <3> QED
      BY <3>1
  <2>2. [owner |-> t, count |-> crit[k].count + 1] \in [owner : Threads \cup {None}, count : Nat]
    BY <2>1
  <2>3. [inside[t] EXCEPT ![a] = @ + 1] \in [Addresses -> Nat]
    BY <2>1
  <2> QED
    BY <2>2, <2>3 DEF Acquired
<1>2. \A u \in Threads, b \in Addresses :
        inside'[u][b] = IF u = t /\ b = a THEN inside[t][a] + 1 ELSE inside[u][b]
  BY DEF Acquired
<1>3. \A j \in 1..MaxSections :
        crit'[j] = IF j = k THEN [owner |-> t, count |-> crit[k].count + 1] ELSE crit[j]
  BY DEF Acquired
<1>4. crit[k].count = inside[t][a]
  <2>1. CASE inside[t][a] > 0
    <3>1. g_crits[a] # None /\ crit[g_crits[a]] = [owner |-> t, count |-> inside[t][a]]
      BY <2>1 DEF Owned
    <3> QED
      BY <3>1
  <2>2. CASE inside[t][a] = 0
    <3>1. CASE crit[k] = Free
      BY <2>2, <3>1 DEF Free
    <3>2. ASSUME NEW b \in Addresses, g_crits[b] = k, crit[k].owner # None,
                 inside[crit[k].owner][b] > 0
          PROVE FALSE
      <4>1. g_crits[b] # None
        BY <3>2 DEF None
      <4>2. g_crits'[b] = g_crits'[a] /\ g_crits'[b] # None
        BY <3>2, <4>1
      <4>3. b = a
        BY <4>2 DEF Distinct
      <4>4. crit[k].owner = t
        BY <3>2 DEF CanAcquire
      <4> QED
        BY <2>2, <3>2, <4>3, <4>4
    <3> QED
      BY <3>1, <3>2 DEF Owned
  <2> QED
    BY <2>1, <2>2
<1>5. \A u \in Threads, b \in Addresses : inside'[u][b] > 0 =>
        g_crits'[b] # None /\ crit'[g_crits'[b]] = [owner |-> u, count |-> inside'[u][b]]
  <2> TAKE u \in Threads, b \in Addresses
  <2> HAVE inside'[u][b] > 0
  <2>1. CASE u = t /\ b = a
    <3>1. inside'[u][b] = inside[t][a] + 1 /\ crit'[k] = [owner |-> t, count |-> inside[t][a] + 1]
      BY <1>2, <1>3, <1>4, <2>1
    <3>2. g_crits'[b] = k /\ k # None
      BY <2>1 DEF None
    <3> QED
      BY <2>1, <3>1, <3>2
  <2>2. CASE ~(u = t /\ b = a)
    <3>1. inside'[u][b] = inside[u][b] /\ inside[u][b] > 0
      BY <1>2, <2>2
    <3>2. /\ g_crits[b] # None /\ g_crits'[b] = g_crits[b]
          /\ crit[g_crits[b]] = [owner |-> u, count |-> inside[u][b]]
      BY <3>1 DEF Owned
    <3>3. g_crits[b] # k
      <4>1. SUFFICES ASSUME g_crits[b] = k PROVE FALSE
        OBVIOUS
      <4>2. b = a /\ u # t
        <5>1. g_crits'[b] = g_crits'[a] /\ g_crits'[b] # None
          BY <3>2, <4>1
        <5>2. b = a
          BY <5>1 DEF Distinct
        <5> QED
          BY <2>2, <5>2
      <4>3. crit[k].owner = u
        BY <3>2, <4>1
      <4>4. u = None
        BY <4>2, <4>3 DEF CanAcquire
      <4> QED
        BY <4>4
    <3>4. g_crits[b] \in 1..MaxSections /\ crit'[g_crits[b]] = crit[g_crits[b]]
      BY <1>3, <3>2, <3>3 DEF None
    <3> QED
      BY <3>1, <3>2, <3>4
  <2> QED
    BY <2>1, <2>2
<1>6. \A j \in 1..MaxSections :
        \/ crit'[j] = Free
        \/ \E b \in Addresses : g_crits'[b] = j /\ crit'[j].owner # None /\ inside'[crit'[j].owner][b] > 0
  <2> TAKE j \in 1..MaxSections
  <2>1. CASE j = k
    <3>1. crit'[j].owner = t /\ inside'[t][a] = inside[t][a] + 1
      BY <1>2, <1>3, <2>1
    <3>2. crit'[j].owner # None /\ inside'[crit'[j].owner][a] > 0
      BY <3>1 DEF None
    <3>3. g_crits'[a] = j
      BY <2>1
    <3> HIDE DEF CritInv, TypeOK
    <3> QED
      BY <3>2, <3>3, Zenon
  <2>2. CASE j # k /\ crit[j] # Free
    <3>1. PICK b \in Addresses :
            g_crits[b] = j /\ crit[j].owner # None /\ inside[crit[j].owner][b] > 0
      BY <2>2, Zenon DEF Owned
    <3>2. crit[j].owner \in Threads
      BY <3>1
    <3>3. crit'[j] = crit[j]
      BY <1>3, <2>2
    <3>4. g_crits[b] # None
      BY <3>1 DEF None
    <3>5. g_crits'[b] = j
      BY <3>1, <3>4
    <3>6. b # a
      BY <2>2, <3>5
    <3>7. inside'[crit[j].owner][b] > 0
      BY <1>2, <3>1, <3>2, <3>6
    <3> QED
      BY <3>1, <3>3, <3>5, <3>7
  <2>3. CASE j # k /\ crit[j] = Free
    BY <1>3, <2>3
  <2> QED
    BY <2>1, <2>2, <2>3
<1> QED
  BY <1>1, <1>5, <1>6 DEF Owned

(* Each call keeps the invariant: enter, which may make the section and   *)
(* may have to wait,                                                       *)
LEMMA EnterKeeps ==
  ASSUME MaxSections \in Nat, None \notin Threads, CritInv,
         NEW t \in Threads, NEW a \in Addresses, Enter(t, a)
  PROVE CritInv'
<1>1. PICK k \in 1..MaxSections :
        /\ CritFor(a, k)
        /\ IF CanAcquire(t, k) THEN Acquired(t, k, a) /\ UNCHANGED parked
           ELSE parked' = [parked EXCEPT ![t] = [va |-> a, k |-> k]] /\ UNCHANGED <<crit, inside>>
  BY Zenon DEF Enter
<1>2. /\ g_crits' \in [Addresses -> 0..MaxSections] /\ made' \in 0..MaxSections
      /\ last' \in [va : Addresses \cup {None}, k : 0..MaxSections]
      /\ Distinct' /\ g_crits'[a] = k
      /\ last'.k # None => last'.va \in Addresses /\ g_crits'[last'.va] = last'.k
  BY <1>1, ForIsInTable
<1>3. \A b \in Addresses : g_crits[b] # None => g_crits'[b] = g_crits[b]
  BY <1>1, ForIsInTable
<1>4. CASE CanAcquire(t, k)
  <2>1. Acquired(t, k, a) /\ parked' = parked
    BY <1>1, <1>4
  <2>2. /\ Owned'
        /\ crit' \in [1..MaxSections -> [owner : Threads \cup {None}, count : Nat]]
        /\ inside' \in [Threads -> [Addresses -> Nat]]
    BY <1>2, <1>3, <1>4, <2>1, AcquireOwned
  <2>3. TypeOK'
    BY <1>2, <2>1, <2>2 DEF TypeOK, CritInv
  <2>4. Remembered'
    BY <1>2, <1>3, <2>1 DEF Remembered, CritInv
  <2> QED
    BY <1>2, <2>2, <2>3, <2>4 DEF CritInv
<1>5. CASE ~CanAcquire(t, k)
  <2>1. parked' = [parked EXCEPT ![t] = [va |-> a, k |-> k]] /\ crit' = crit /\ inside' = inside
    BY <1>1, <1>5
  <2>2. TypeOK'
    BY <1>2, <2>1 DEF TypeOK, CritInv
  <2>3. \A u \in Threads : parked'[u] = IF u = t THEN [va |-> a, k |-> k] ELSE parked[u]
    BY <2>1 DEF CritInv, TypeOK
  <2>4. Remembered'
    <3> SUFFICES ASSUME NEW u \in Threads, parked'[u] # NoLast
                 PROVE parked'[u].va \in Addresses /\ parked'[u].k # None
                       /\ g_crits'[parked'[u].va] = parked'[u].k
      BY <1>2 DEF Remembered
    <3>1. CASE u = t
      BY <1>2, <2>3, <3>1 DEF None
    <3>2. CASE u # t
      BY <1>3, <2>3, <3>2 DEF Remembered, CritInv
    <3> QED
      BY <3>1, <3>2
  <2>5. Owned'
    <3>1. \A u \in Threads, b \in Addresses : inside'[u][b] > 0 =>
            g_crits'[b] # None /\ crit'[g_crits'[b]] = [owner |-> u, count |-> inside'[u][b]]
      BY <1>3, <2>1 DEF Owned, CritInv
    <3>2. ASSUME NEW j \in 1..MaxSections, crit'[j] # Free
          PROVE \E b \in Addresses :
                  g_crits'[b] = j /\ crit'[j].owner # None /\ inside'[crit'[j].owner][b] > 0
      <4>1. PICK b \in Addresses :
              g_crits[b] = j /\ crit[j].owner # None /\ inside[crit[j].owner][b] > 0
        BY <2>1, <3>2, Zenon DEF Owned, CritInv
      <4>2. g_crits[b] # None
        BY <4>1 DEF None
      <4> QED
        BY <1>3, <2>1, <4>1, <4>2
    <3> QED
      BY <3>1, <3>2 DEF Owned
  <2> QED
    BY <1>2, <2>2, <2>4, <2>5 DEF CritInv
<1> QED
  BY <1>4, <1>5

(* a retry, on the section that was parked on,                             *)
LEMMA RetryKeeps ==
  ASSUME MaxSections \in Nat, None \notin Threads, CritInv, NEW t \in Threads, Retry(t)
  PROVE CritInv'
<1> DEFINE a == parked[t].va
           k == parked[t].k
<1>1. a \in Addresses /\ k \in 1..MaxSections /\ g_crits[a] = k
  BY DEF Retry, CritInv, Remembered, TypeOK, None
<1>2. /\ CanAcquire(t, k) /\ Acquired(t, k, a) /\ parked' = [parked EXCEPT ![t] = NoLast]
      /\ g_crits' = g_crits /\ last' = last /\ made' = made
  BY DEF Retry
<1>3. g_crits' \in [Addresses -> 0..MaxSections] /\ Distinct' /\ g_crits'[a] = k
  BY <1>1, <1>2 DEF CritInv, TypeOK, Distinct
<1>4. /\ Owned'
      /\ crit' \in [1..MaxSections -> [owner : Threads \cup {None}, count : Nat]]
      /\ inside' \in [Threads -> [Addresses -> Nat]]
  <2> HIDE DEF a, k
  <2> QED
    BY <1>1, <1>2, <1>3, AcquireOwned
<1>5. TypeOK'
  <2>1. NoLast \in [va : Addresses \cup {None}, k : 0..MaxSections]
    BY DEF NoLast, None
  <2>2. parked' \in [Threads -> [va : Addresses \cup {None}, k : 0..MaxSections]]
    BY <1>2, <2>1 DEF TypeOK, CritInv
  <2> QED
    BY <1>2, <1>3, <1>4, <2>2 DEF TypeOK, CritInv
<1>6. Remembered'
  BY <1>2 DEF Remembered, CritInv, TypeOK
<1> QED
  BY <1>3, <1>4, <1>5, <1>6 DEF CritInv

(* leave, which frees at the last exit,                                    *)
LEMMA LeaveKeeps ==
  ASSUME MaxSections \in Nat, None \notin Threads, CritInv,
         NEW t \in Threads, NEW a \in Addresses, Leave(t, a)
  PROVE CritInv'
<1> DEFINE k == g_crits[a]
           n == inside[t][a]
<1>1. k \in 1..MaxSections /\ n \in Nat /\ n > 0 /\ crit[k] = [owner |-> t, count |-> n]
  BY DEF Leave, CritInv, TypeOK, Owned, None
<1>2. Lookup(a) = k
  BY CacheTrue
<1>3. /\ g_crits' = g_crits /\ made' = made /\ parked' = parked
      /\ last' = [va |-> a, k |-> k]
      /\ crit' = [crit EXCEPT ![k] = Released(@)]
      /\ inside' = [inside EXCEPT ![t][a] = n - 1]
  <2> HIDE DEF k
  <2>1. k # None /\ crit[k].count # 0
    BY <1>1 DEF None
  <2> QED
    BY <1>2, <2>1 DEF Leave, Remembers, k
<1>4. Released(crit[k]) = IF n = 1 THEN Free ELSE [owner |-> t, count |-> n - 1]
  BY <1>1 DEF Released
<1>5. \A j \in 1..MaxSections :
        crit'[j] = IF j = k THEN (IF n = 1 THEN Free ELSE [owner |-> t, count |-> n - 1]) ELSE crit[j]
  BY <1>1, <1>3, <1>4 DEF CritInv, TypeOK
<1>6. \A u \in Threads, b \in Addresses :
        inside'[u][b] = IF u = t /\ b = a THEN n - 1 ELSE inside[u][b]
  BY <1>3 DEF CritInv, TypeOK
<1>7. TypeOK'
  <2>1. crit' \in [1..MaxSections -> [owner : Threads \cup {None}, count : Nat]]
    <3>1. Released(crit[k]) \in [owner : Threads \cup {None}, count : Nat]
      BY <1>1, <1>4 DEF Free
    <3> QED
      BY <1>3, <3>1 DEF CritInv, TypeOK
  <2>2. inside' \in [Threads -> [Addresses -> Nat]]
    <3>1. [inside[t] EXCEPT ![a] = n - 1] \in [Addresses -> Nat]
      BY <1>1 DEF CritInv, TypeOK
    <3> QED
      BY <1>3, <3>1 DEF CritInv, TypeOK
  <2>3. last' \in [va : Addresses \cup {None}, k : 0..MaxSections]
    BY <1>1, <1>3
  <2> QED
    BY <1>3, <2>1, <2>2, <2>3 DEF CritInv, TypeOK
<1>8. Distinct' /\ Remembered'
  BY <1>3 DEF CritInv, Distinct, Remembered
<1>9. ASSUME NEW u \in Threads, NEW b \in Addresses, inside'[u][b] > 0
      PROVE  g_crits'[b] # None /\ crit'[g_crits'[b]] = [owner |-> u, count |-> inside'[u][b]]
  <2>1. CASE u = t /\ b = a
    BY <1>1, <1>3, <1>5, <1>6, <1>9, <2>1 DEF None
  <2>2. CASE ~(u = t /\ b = a)
    <3>1. inside[u][b] > 0 /\ inside'[u][b] = inside[u][b]
      BY <1>6, <1>9, <2>2
    <3>2. g_crits[b] # None /\ crit[g_crits[b]] = [owner |-> u, count |-> inside[u][b]]
      BY <3>1 DEF CritInv, Owned
    <3>3. g_crits[b] # k
      <4>1. SUFFICES ASSUME g_crits[b] = k PROVE FALSE
        OBVIOUS
      <4>2. u = t
        BY <1>1, <3>2, <4>1
      <4>3. b = a
        BY <3>2, <4>1 DEF CritInv, Distinct
      <4> QED
        BY <2>2, <4>2, <4>3
    <3>4. g_crits[b] \in 1..MaxSections
      BY <3>2 DEF CritInv, TypeOK, None
    <3> QED
      BY <1>3, <1>5, <3>1, <3>2, <3>3, <3>4
  <2> QED
    BY <2>1, <2>2
<1>10. ASSUME NEW j \in 1..MaxSections, crit'[j] # Free
       PROVE  \E b \in Addresses :
                g_crits'[b] = j /\ crit'[j].owner # None /\ inside'[crit'[j].owner][b] > 0
  <2>1. CASE j = k
    <3>1. n # 1 /\ crit'[j] = [owner |-> t, count |-> n - 1]
      BY <1>5, <1>10, <2>1
    <3>2. inside'[t][a] = n - 1 /\ n - 1 > 0 /\ crit'[j].owner = t
      BY <1>1, <1>6, <3>1
    <3> QED
      BY <1>3, <2>1, <3>2
  <2>2. CASE j # k
    <3>1. crit'[j] = crit[j]
      BY <1>5, <2>2
    <3>2. PICK b \in Addresses :
            g_crits[b] = j /\ crit[j].owner # None /\ inside[crit[j].owner][b] > 0
      BY <1>10, <3>1, Zenon DEF CritInv, Owned
    <3>3. b # a /\ crit[j].owner \in Threads
      BY <2>2, <3>2 DEF CritInv, TypeOK
    <3> QED
      BY <1>3, <1>6, <3>1, <3>2, <3>3
  <2> QED
    BY <2>1, <2>2
<1> QED
  <2>1. Owned'
    BY <1>9, <1>10 DEF Owned
  <2> QED
    BY <1>7, <1>8, <2>1 DEF CritInv

(* and forget: nobody is inside, so the section is Free by then.           *)
LEMMA ForgetKeeps ==
  ASSUME MaxSections \in Nat, None \notin Threads, CritInv, NEW a \in Addresses, Forget(a)
  PROVE CritInv'
<1>1. /\ \A t \in Threads : inside[t][a] = 0 /\ parked[t].va # a
      /\ g_crits' = [g_crits EXCEPT ![a] = None]
      /\ last' = IF last.va = a THEN NoLast ELSE last
      /\ made' = made /\ crit' = crit /\ parked' = parked /\ inside' = inside
  BY DEF Forget, Unless
<1>2. \A b \in Addresses : g_crits'[b] = IF b = a THEN None ELSE g_crits[b]
  BY <1>1 DEF CritInv, TypeOK
<1>3. TypeOK'
  BY <1>1 DEF CritInv, TypeOK, None, NoLast
<1>4. Distinct'
  <2>1. \A b \in Addresses : g_crits'[b] <= made'
    BY <1>1, <1>2 DEF CritInv, Distinct, TypeOK, None
  <2>2. \A b, c \in Addresses : g_crits'[b] = g_crits'[c] /\ g_crits'[b] # None => b = c
    BY <1>2 DEF CritInv, Distinct
  <2> QED
    BY <2>1, <2>2 DEF Distinct
<1>5. Remembered'
  BY <1>1, <1>2 DEF CritInv, Remembered, NoLast
<1>6. ASSUME NEW u \in Threads, NEW b \in Addresses, inside'[u][b] > 0
      PROVE  g_crits'[b] # None /\ crit'[g_crits'[b]] = [owner |-> u, count |-> inside'[u][b]]
  <2>1. b # a /\ inside[u][b] > 0
    BY <1>1, <1>6
  <2> QED
    BY <1>1, <1>2, <2>1 DEF CritInv, Owned
<1>7. ASSUME NEW j \in 1..MaxSections, crit'[j] # Free
      PROVE  \E b \in Addresses :
               g_crits'[b] = j /\ crit'[j].owner # None /\ inside'[crit'[j].owner][b] > 0
  <2>1. PICK b \in Addresses :
          g_crits[b] = j /\ crit[j].owner # None /\ inside[crit[j].owner][b] > 0
    BY <1>1, <1>7, Zenon DEF CritInv, Owned
  <2>2. crit[j].owner \in Threads
    BY <2>1 DEF CritInv, TypeOK
  <2>3. b # a
    BY <1>1, <2>1, <2>2
  <2> QED
    BY <1>1, <1>2, <2>1, <2>3
<1> QED
  <2>1. Owned'
    BY <1>6, <1>7 DEF Owned
  <2> QED
    BY <1>3, <1>4, <1>5, <2>1 DEF CritInv

(* The invariant says what OneInside says.                                 *)
LEMMA InvHolds ==
  ASSUME MaxSections \in Nat, None \notin Threads, CritInv
  PROVE OneInside
<1>1. \A a \in Addresses : Lookup(a) = g_crits[a]
  BY CacheTrue
<1>2. \A a \in Addresses, t, u \in Threads : inside[t][a] > 0 /\ inside[u][a] > 0 => t = u
  <2> TAKE a \in Addresses, t, u \in Threads
  <2> HAVE inside[t][a] > 0 /\ inside[u][a] > 0
  <2>1. crit[g_crits[a]].owner = t /\ crit[g_crits[a]].owner = u
    <3>1. /\ crit[g_crits[a]] = [owner |-> t, count |-> inside[t][a]]
          /\ crit[g_crits[a]] = [owner |-> u, count |-> inside[u][a]]
      BY Zenon DEF CritInv, Owned
    <3> QED
      BY <3>1
  <2> QED
    BY <2>1
<1>3. ASSUME NEW a \in Addresses, g_crits[a] # None, crit[g_crits[a]].owner # None
      PROVE  /\ crit[g_crits[a]].owner \in Threads
             /\ inside[crit[g_crits[a]].owner][a] > 0
             /\ inside[crit[g_crits[a]].owner][a] = crit[g_crits[a]].count
  <2> DEFINE k == g_crits[a]
  <2>1. k \in 1..MaxSections /\ crit[k].owner \in Threads
    BY <1>3 DEF CritInv, TypeOK, None
  <2>2. crit[k] # Free
    BY <1>3 DEF Free
  <2>3. PICK b \in Addresses : g_crits[b] = k /\ inside[crit[k].owner][b] > 0
    BY <2>1, <2>2, Zenon DEF CritInv, Owned
  <2>4. b = a
    BY <1>3, <2>3 DEF CritInv, Distinct
  <2>5. crit[k] = [owner |-> crit[k].owner, count |-> inside[crit[k].owner][a]]
    BY <2>1, <2>3, <2>4 DEF CritInv, Owned
  <2> QED
    BY <2>1, <2>3, <2>4, <2>5
<1>4. ASSUME NEW t \in Threads, NEW a \in Addresses, inside[t][a] > 0
      PROVE  /\ g_crits[a] # None
             /\ crit[g_crits[a]].owner = t /\ t # None
             /\ crit[g_crits[a]].count = inside[t][a]
  <2>1. g_crits[a] # None /\ crit[g_crits[a]] = [owner |-> t, count |-> inside[t][a]]
    BY <1>4 DEF CritInv, Owned
  <2> QED
    BY <2>1
<1>5. EachHeld = {<<p[2], p[1], inside[p[1]][p[2]]>> :
                    p \in {q \in Threads \X Addresses : inside[q[1]][q[2]] > 0}}
  <2> DEFINE Entered == {<<p[2], p[1], inside[p[1]][p[2]]>> :
                    p \in {q \in Threads \X Addresses : inside[q[1]][q[2]] > 0}}
  <2>1. ASSUME NEW x \in EachHeld PROVE x \in Entered
    <3>1. PICK a \in Addresses : /\ g_crits[a] # None /\ crit[g_crits[a]].owner # None
                                 /\ x = <<a, crit[g_crits[a]].owner, crit[g_crits[a]].count>>
      BY <2>1 DEF EachHeld
    <3> DEFINE p == <<crit[g_crits[a]].owner, a>>
    <3>2. p \in Threads \X Addresses /\ p[1] = crit[g_crits[a]].owner /\ p[2] = a
      BY <1>3, <3>1
    <3>3. inside[p[1]][p[2]] > 0 /\ x = <<p[2], p[1], inside[p[1]][p[2]]>>
      BY <1>3, <3>1
    <3> HIDE DEF p
    <3> QED
      BY <3>2, <3>3
  <2>2. ASSUME NEW x \in Entered PROVE x \in EachHeld
    <3>1. PICK p \in Threads \X Addresses :
            inside[p[1]][p[2]] > 0 /\ x = <<p[2], p[1], inside[p[1]][p[2]]>>
      BY <2>2
    <3>2. p[1] \in Threads /\ p[2] \in Addresses
      OBVIOUS
    <3>3. /\ g_crits[p[2]] # None /\ crit[g_crits[p[2]]].owner # None
          /\ x = <<p[2], crit[g_crits[p[2]]].owner, crit[g_crits[p[2]]].count>>
      BY <1>4, <3>1, <3>2
    <3> QED
      BY <3>2, <3>3 DEF EachHeld
  <2> QED
    BY <2>1, <2>2
<1> QED
  BY <1>1, <1>2, <1>5 DEF OneInside

(* Every step keeps the invariant.                                         *)
LEMMA InvKept ==
  ASSUME MaxSections \in Nat, None \notin Threads, CritInv, [Next]_vars
  PROVE  CritInv'
<1>1. CASE \E t \in Threads : Retry(t)
  BY <1>1, RetryKeeps
<1>2. CASE \E t \in Threads, a \in Addresses : Enter(t, a)
  BY <1>2, EnterKeeps
<1>3. CASE \E t \in Threads, a \in Addresses : Leave(t, a)
  BY <1>3, LeaveKeeps
<1>4. CASE \E a \in Addresses : Forget(a)
  BY <1>4, ForgetKeeps
<1>5. CASE UNCHANGED vars
  BY <1>5 DEF vars, CritInv, TypeOK, Distinct, Remembered, Owned
<1> QED
  BY <1>1, <1>2, <1>3, <1>4, <1>5 DEF Next

(* For any threads, addresses and number of sections: the table, its cache *)
(* and the parked threads agree on whose section is whose, through deletes *)
(* and sections made anew at the same address (wx86_crit_lookup, _for,     *)
(* _leave and _forget).  0 is nobody's thread id: owner 0 means free.      *)
THEOREM SectionsSound == ASSUME MaxSections \in Nat, None \notin Threads
                         PROVE Spec => []OneInside
<1>1. Init => CritInv
  BY InitOwned
<1>2. CritInv /\ [Next]_vars => CritInv'
  BY InvKept
<1>3. CritInv => OneInside
  BY InvHolds
<1> QED
  BY <1>1, <1>2, <1>3, PTL DEF Spec
==============================================================================
