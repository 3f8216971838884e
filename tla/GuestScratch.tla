----------------------------- MODULE GuestScratch -----------------------------
(***************************************************************************)
(* Guest memory that is never given back (runtime/guest_scratch.cpp), and     *)
(* the two network calls that return structures in it: inet_ntoa and          *)
(* gethostbyname (win32_shims_wsock32.cpp, with wx86_net_resolve).  Addresses *)
(* and sizes are in units of four bytes: a request is rounded up to two.      *)
(***************************************************************************)
EXTENDS Integers, Sequences
LOCAL INSTANCE SequencesExt

CONSTANTS
    Mod,        \* addresses wrap here (2^30)
    Base, Size, \* the range the embedder grants at first; Size 0: unbounded
    Limits,     \* the bounds it may arm later
    Requests,   \* the sizes other shims ask for
    Quads,      \* addresses the guest has formatted
    Names,      \* function: the names it looks up -> their length
    Literals,   \* the names that are addresses in figures
    Text        \* the length of a formatted address

ScratchAssumption == Mod \in Nat /\ Base \in 1 .. Mod - 1 /\ Literals \subseteq DOMAIN Names

VARIABLES
    cur, limit, warned,
    reports,    \* calls of the out-of-memory handler, up to 2
    blocks,     \* the blocks given out: [at, n]
    hollow,     \* history: the last address given with no room (0: none)
    ntoa,       \* cache of inet_ntoa: address -> string
    hosts,      \* cache of gethostbyname: name -> the parts of its hostent
    locked,     \* wx86_net_private_only
    lastError   \* was the last call's failure reported (11001)?
vars == <<cur, limit, warned, reports, blocks, hollow, ntoa, hosts, locked, lastError>>

\* wx86_scratch_init, once.
Init == /\ cur = Base /\ limit = (IF Size = 0 THEN 0 ELSE (Base + Size) % Mod)
        /\ warned = FALSE /\ reports = 0 /\ blocks = {} /\ hollow = 0
        /\ ntoa = [q \in Quads |-> 0] /\ hosts = [h \in DOMAIN Names |-> <<>>]
        /\ locked \in BOOLEAN /\ lastError = FALSE

-----------------------------------------------------------------------------
\* The rounding is in 32 bits as well: a size near their end becomes 0.
Rounded(n) == 2 * (((n + 1) % Mod) \div 2)
RoundsAway(n) == Rounded(n) < n
\* A fault: the sum alone is compared.
SlipsUnder(a, sz) == limit # 0 /\ (a + sz) % Mod > limit
\* wx86_scratch_alloc's refusal: past the bound, or around the end of memory.
Refused(a, sz) == limit # 0 /\ ((a + sz) % Mod > limit \/ (a + sz) % Mod < a)

\* Requests in the order they are made, after a refusal the next all the
\* same: the addresses given (0: refused) and where the range then begins.
Given(r, n) ==
    LET sz == Rounded(n)
        no == Refused(r.cur, sz)
    IN [got |-> Append(r.got, IF no THEN 0 ELSE r.cur),
        cur |-> IF no THEN r.cur ELSE (r.cur + sz) % Mod]
Allocated(ns) == FoldLeft(Given, [got |-> <<>>, cur |-> cur], ns)

\* What the allocator keeps of these requests.
Takes(ns) ==
    LET r == Allocated(ns)
        short == \E i \in DOMAIN ns : r.got[i] = 0
    IN /\ cur' = r.cur
       /\ warned' = (warned \/ short)
       /\ reports' = IF short /\ ~warned THEN reports + 1 ELSE reports
       /\ blocks' = blocks \cup {[at |-> r.got[i], n |-> ns[i]] :
                                  i \in {j \in DOMAIN ns : r.got[j] # 0 /\ ~RoundsAway(ns[j])}}
       /\ LET none == {i \in DOMAIN ns : r.got[i] # 0 /\ RoundsAway(ns[i])}
          IN hollow' = IF none = {} THEN hollow ELSE r.got[CHOOSE i \in none : TRUE]

\* Room before addresses wrap without a bound: the embedder's to arm it.
Unwrapped(ns) == limit = 0 => Allocated(ns).cur >= cur

Request(n) ==
    /\ Unwrapped(<<n>>) /\ Takes(<<n>>)
    /\ UNCHANGED <<limit, ntoa, hosts, locked, lastError>>

\* wx86_scratch_set_limit, once the layout of guest memory is known.
SetLimit(l) ==
    /\ cur <= l /\ limit' = l
    /\ UNCHANGED <<cur, warned, reports, blocks, hollow, ntoa, hosts, locked, lastError>>

\* inet_ntoa: one string for each distinct address.
InetNtoa(q) ==
    /\ IF ntoa[q] # 0
         THEN UNCHANGED <<cur, warned, reports, blocks, hollow, ntoa>>
         ELSE /\ Unwrapped(<<Text>>) /\ Takes(<<Text>>)
              /\ ntoa' = [ntoa EXCEPT ![q] = Allocated(<<Text>>).got[1]]
    /\ UNCHANGED <<limit, hosts, locked, lastError>>

\* wx86_net_resolve: figures are answered here, a name under the exit lock
\* is refused, and the network answers what it likes.
Answers(h) == IF h \in Literals THEN {TRUE}
              ELSE IF Names[h] = 0 \/ locked THEN {FALSE}
              ELSE BOOLEAN

\* The name and its terminator, the address, the two lists, the hostent.
Parts(h) == <<Names[h] + 1, 1, 2, 1, 4>>
\* A fault: the last allocation stands for all of them.
NoHostent(got) == got[5] = 0
\* Is there a part that could not be allocated?
Incomplete(got) == \E i \in 1 .. 5 : got[i] = 0

\* gethostbyname: the cache, the answer, then all the parts or none.
GetHostByName(h) ==
    /\ IF hosts[h] # <<>>
         THEN UNCHANGED <<cur, warned, reports, blocks, hollow, hosts, lastError>>
         ELSE \E found \in Answers(h) :
                IF ~found
                  THEN lastError' = TRUE /\ UNCHANGED <<cur, warned, reports, blocks, hollow, hosts>>
                  ELSE /\ Unwrapped(Parts(h)) /\ Takes(Parts(h))
                       /\ LET got == Allocated(Parts(h)).got
                          IN IF Incomplete(got)
                               THEN lastError' = TRUE /\ UNCHANGED hosts
                               ELSE hosts' = [hosts EXCEPT ![h] = got] /\ UNCHANGED lastError
    /\ UNCHANGED <<limit, ntoa, locked>>

Next == \/ \E n \in Requests : Request(n)
        \/ \E l \in Limits : SetLimit(l)
        \/ \E q \in Quads : InetNtoa(q)
        \/ \E h \in DOMAIN Names : GetHostByName(h)

Spec == Init /\ [][Next]_vars

-----------------------------------------------------------------------------
\* What the guest is given it may write to: blocks lie apart, above the base
\* and below the bound in force since, and are reported missing once at most;
\* a host's structure leads to five parts of its own, each long enough.  But a
\* size whose rounding wraps is granted an address and no room, whatever the
\* bound, although guest_scratch.cpp:32-34 has absurd requests refused.
Apart(b, c) == b.at + b.n <= c.at \/ c.at + c.n <= b.at
ScratchSound ==
    /\ \A b \in blocks : Base <= b.at /\ b.at + b.n <= cur
    /\ \A b, c \in blocks : b # c => Apart(b, c)
    /\ hollow # 0 => Base <= hollow /\ hollow <= cur /\ \E n \in Requests : RoundsAway(n)
    /\ limit # 0 => cur <= limit
    /\ reports <= 1
    /\ \A h \in DOMAIN Names : hosts[h] # <<>> =>
         \A i \in 1 .. 5 : [at |-> hosts[h][i], n |-> Parts(h)[i]] \in blocks
=============================================================================
