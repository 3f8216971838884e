--------------------------- MODULE ServiceProofs ---------------------------
(* Theorems about the services a guest calls, for every instance of their  *)
(* constants: the sockets (Winsock, which MCServices extends).             *)
EXTENDS MCServices, SequenceTheorems, FiniteSetTheorems, WellFoundedInduction, TLAPS

States == {"new", "dgram", "listening", "dialing", "up", "hup"}
Peers == Dests \cup {"none", "caller"}
Timeo == [sec : Timeouts, by : Nat]

(* What the tables hold.                                                   *)
NetTypes ==
  /\ nextH \in Nat
  /\ Live \subseteq Nat /\ \A h \in Live : h < nextH
  /\ table \in [Live -> [fd : Fds, nonblock : BOOLEAN]]
  /\ Open \subseteq Fds
  /\ host \in [Open -> [id : Nat, state : States, data : Nat, peer : Peers]]
  /\ rcvTimeo \in [DOMAIN rcvTimeo -> Timeo]
  /\ DOMAIN thread = Threads /\ \A t \in Threads : "call" \in DOMAIN thread[t]

(* What a select w knows of its handles: it saw the own socket of each     *)
(* handle that still has the descriptor it had.  Handles are never used    *)
(* again, so nobody else can have been there.                              *)
SeenOwn(w) ==
  w.call = "select" /\ ~w.fail =>
    /\ {"fail", "fd", "watch"} \subseteq DOMAIN w
    /\ DOMAIN w.fd \subseteq {h \in Nat : h < nextH}
    /\ w.watch \subseteq DOMAIN w.fd
    /\ "seen" \in DOMAIN w =>
         /\ DOMAIN w.seen \subseteq w.watch
         /\ \A h \in DOMAIN w.seen : h \in Live /\ table[h].fd = w.fd[h] => w.seen[h].id = h

(* Nor does any other wait come back to another's descriptor while its     *)
(* handle is open.                                                         *)
Calls == {"connect", "recv", "recvfrom"}
PolledOwn(w) ==
  w.call \in Calls =>
    /\ {"h", "fd", "woken"} \subseteq DOMAIN w
    /\ w.h \in Nat /\ w.h < nextH
    /\ w.h \in Live => table[w.h].fd = w.fd
WaitsOwn == \A t \in Threads : SeenOwn(thread[t]) /\ PolledOwn(thread[t])

NetInv == NetTypes /\ WaitsOwn /\ NetSound

(* A non-empty set of naturals has a least element.                        *)
LEMMA LeastNat ==
  ASSUME NEW S \in SUBSET Nat, S # {}
  PROVE  \E x \in S : \A y \in S : x <= y
<1> DEFINE R == {ss \in Nat \X Nat : ss[1] < ss[2]}
<1>0. IsWellFoundedOn(R, Nat)
  BY NatLessThanWellFounded DEF OpToRel
<1> HIDE DEF R
<1>1. PICK x \in S : \A y \in S : ~(<<y, x>> \in R)
  BY <1>0, WFMin
<1>2. \A y \in S : ~ (y < x)
  BY <1>1 DEF R
<1> QED  BY <1>2

(* The host gives a descriptor that is not open.                           *)
LEMMA FreeFd ==
  ASSUME Fds \ Open # {}
  PROVE  Min(Fds \ Open) \in Fds \ Open
<1>1. \E x \in Fds \ Open : \A y \in Fds \ Open : x <= y
  BY WinsockAssumption, LeastNat
<1> QED  BY <1>1 DEF Min

(* A wait's handles stay its own while handles only go and new ones are    *)
(* named by new numbers.                                                   *)
LEMMA WaitKept ==
  ASSUME NetTypes, NEW t \in Threads, thread'[t] = thread[t], SeenOwn(thread[t]), PolledOwn(thread[t]),
         nextH' \in Nat, nextH <= nextH',
         \A h \in Live' : h < nextH => h \in Live /\ table'[h].fd = table[h].fd
  PROVE  SeenOwn(thread[t])' /\ PolledOwn(thread[t])'
<1>1. SeenOwn(thread[t])'
  BY DEF SeenOwn, NetTypes
<1>2. PolledOwn(thread[t])'
  BY DEF PolledOwn, NetTypes
<1> QED  BY <1>1, <1>2

(* A call that is not a select with its handles copied has nothing to say. *)
LEMMA OthersSeeNothing ==
  ASSUME NEW t \in Threads, thread'[t].call # "select" \/ thread'[t].fail
  PROVE  SeenOwn(thread[t])'
BY DEF SeenOwn

(* When the handles and the descriptors stay, so do their types.           *)
TableKept == UNCHANGED <<table, nextH, rcvTimeo>>
HostKept == /\ Open' = Open
            /\ \A fd \in Open : /\ host'[fd].id = host[fd].id
                                /\ host'[fd].peer = host[fd].peer
            /\ host' \in [Open -> [id : Nat, state : States, data : Nat, peer : Peers]]

(* The wait or the answer of one thread is the whole change.               *)
LEMMA OneThread ==
  ASSUME NetInv, NEW t \in Threads, NEW w, thread' = [thread EXCEPT ![t] = w],
         "call" \in DOMAIN w, SeenOwn(thread[t])', PolledOwn(thread[t])',
         TableKept, HostKept
  PROVE  /\ NetTypes' /\ WaitsOwn' /\ HandlesOwn'
         /\ PrivateOnly => \A fd \in Open' : host'[fd].peer # "public"
<1> USE DEF NetInv
<1>1. NetTypes'
  BY DEF NetTypes, TableKept, HostKept, Live, Open
<1>2. HandlesOwn'
  BY DEF NetSound, HandlesOwn, TableKept, HostKept, Live, Open
<1>3. ASSUME NEW u \in Threads
      PROVE  SeenOwn(thread[u])' /\ PolledOwn(thread[u])'
  <2>1. CASE u = t
    BY <2>1
  <2>2. CASE u # t
    <3>1. thread'[u] = thread[u]
      BY <2>2 DEF NetTypes
    <3> QED  BY <3>1, WaitKept DEF WaitsOwn, TableKept, NetTypes, Live
  <2> QED  BY <2>1, <2>2
<1>4. PrivateOnly => \A fd \in Open' : host'[fd].peer # "public"
  BY DEF NetSound, ExitLock, HostKept
<1> QED  BY <1>1, <1>2, <1>3, <1>4 DEF WaitsOwn

(* What an answer says: of its own socket, of nobody outside the lock but  *)
(* a plain recv's sender.                                                  *)
SaidSound == /\ SelectOwnSockets /\ AnswersOwn
             /\ PrivateOnly => (said.peer = "public" => said.call = "recv" /\ Unbound(said.got))

(* A step that answers nothing says nothing wrong.                         *)
LEMMA SilenceSound ==
  ASSUME said' = Silence
  PROVE  SaidSound'
BY DEF SaidSound, SelectOwnSockets, AnswersOwn, Silence

(* The invariant is its parts.                                             *)
LEMMA PartsMake ==
  ASSUME NetTypes', WaitsOwn', HandlesOwn', SaidSound',
         PrivateOnly => \A fd \in Open' : host'[fd].peer # "public"
  PROVE  NetInv'
BY DEF NetInv, NetSound, SaidSound, ExitLock, Open

(* A step in which nobody is told anything.                                *)
LEMMA QuietSound ==
  ASSUME NetInv, Quiet, NetTypes', HandlesOwn',
         nextH <= nextH', \A h \in Live' : h < nextH => h \in Live /\ table'[h].fd = table[h].fd,
         PrivateOnly => \A fd \in Open' : host'[fd].peer # "public"
  PROVE  NetInv'
<1>1. ASSUME NEW t \in Threads
      PROVE  SeenOwn(thread[t])' /\ PolledOwn(thread[t])'
  BY WaitKept DEF NetInv, NetTypes, WaitsOwn, Quiet
<1>2. SaidSound'
  BY SilenceSound DEF Quiet
<1> QED  BY <1>1, <1>2, PartsMake DEF WaitsOwn

(* A new socket has a descriptor nobody had and a handle nobody had.       *)
LEMMA AllocKeeps ==
  ASSUME NetInv, NEW hosts, NEW state \in States, NEW peer \in {"none", "caller"}, Alloc(hosts, state, peer),
         DOMAIN hosts = Open,
         hosts \in [Open -> [id : Nat, state : States, data : Nat, peer : Peers]],
         \A fd \in Open : hosts[fd].id = host[fd].id /\ hosts[fd].peer = host[fd].peer
  PROVE  NetInv'
<1> DEFINE fd == Min(Fds \ Open)
           new == [id |-> nextH, state |-> state, data |-> 0, peer |-> peer]
<1>1. fd \in Fds \ Open
  BY FreeFd DEF Alloc
<1>2. /\ host' = With(hosts, fd, new)
      /\ table' = With(table, nextH, [fd |-> fd, nonblock |-> FALSE])
      /\ nextH' = nextH + 1 /\ Quiet /\ rcvTimeo' = rcvTimeo /\ thread' = thread
  BY DEF Alloc, Quiet
<1> HIDE DEF fd
<1>3. /\ Open' = Open \cup {fd} /\ host'[fd] = new
      /\ \A x \in Open : host'[x] = hosts[x]
  BY <1>1, <1>2 DEF With, Open
<1>4. /\ Live' = Live \cup {nextH} /\ nextH \notin Live
      /\ table'[nextH] = [fd |-> fd, nonblock |-> FALSE]
      /\ \A h \in Live : table'[h] = table[h]
  BY <1>2 DEF With, Live, NetInv, NetTypes
<1>5. NetTypes'
  <2>1. host' \in [Open' -> [id : Nat, state : States, data : Nat, peer : Peers]]
    BY <1>2, <1>3 DEF With, NetInv, NetTypes, Open, Peers
  <2>2. table' \in [Live' -> [fd : Fds, nonblock : BOOLEAN]]
    BY <1>1, <1>2, <1>4 DEF With, NetInv, NetTypes, Live
  <2>3. nextH' \in Nat /\ Live' \subseteq Nat /\ \A h \in Live' : h < nextH'
    BY <1>2, <1>4 DEF NetInv, NetTypes
  <2>4. Open' \subseteq Fds /\ rcvTimeo' \in [DOMAIN rcvTimeo' -> Timeo]
    BY <1>1, <1>2, <1>3 DEF NetInv, NetTypes
  <2>5. DOMAIN thread' = Threads /\ \A t \in Threads : "call" \in DOMAIN thread'[t]
    BY <1>2 DEF NetInv, NetTypes
  <2> QED  BY <2>1, <2>2, <2>3, <2>4, <2>5 DEF NetTypes
<1>6. HandlesOwn'
  <2>1. ASSUME NEW h \in Live'
        PROVE  table'[h].fd \in Open' /\ host'[table'[h].fd].id = h
    <3>1. CASE h = nextH
      BY <1>3, <1>4, <3>1
    <3>2. CASE h # nextH
      <4>1. h \in Live /\ table'[h] = table[h]
        BY <1>4, <3>2
      <4>2. table[h].fd \in Open /\ host[table[h].fd].id = h
        BY <4>1 DEF NetInv, NetSound, HandlesOwn
      <4> QED  BY <1>3, <4>1, <4>2
    <3> QED  BY <3>1, <3>2
  <2>2. ASSUME NEW x \in DOMAIN rcvTimeo'
        PROVE  x \in Open' /\ host'[x].id = rcvTimeo'[x].by
    BY <1>2, <1>3 DEF NetInv, NetSound, HandlesOwn
  <2> QED  BY <2>1, <2>2 DEF HandlesOwn
<1>7. PrivateOnly => \A x \in Open' : host'[x].peer # "public"
  BY <1>1, <1>3 DEF NetInv, NetSound, ExitLock
<1>8. nextH <= nextH' /\ ~(nextH < nextH)
  BY <1>2 DEF NetInv, NetTypes
<1>9. \A h \in Live' : h < nextH => h \in Live /\ table'[h].fd = table[h].fd
  BY <1>4, <1>8
<1> QED  BY <1>2, <1>5, <1>6, <1>7, <1>8, <1>9, QuietSound

(* The calls that open and close sockets and set what is theirs.           *)
LEMMA SocketCalls ==
  ASSUME NetInv, NEW t \in Threads, NEW h \in Live,
         \/ Socket(t) \/ Accept(t, h) \/ CloseSocket(t, h)
         \/ (\E s \in Timeouts : SetRcvTimeo(t, h, s))
         \/ (\E b \in BOOLEAN : IoctlSocket(t, h, b))
  PROVE  NetInv'
<1> USE DEF NetInv, NetSound
<1>1. CASE Accept(t, h)
  <2> DEFINE fd == table[h].fd
             hosts == [host EXCEPT ![fd].data = 0]
  <2>1. Alloc(hosts, "up", "caller")
    BY <1>1 DEF Accept
  <2>2. fd \in Open /\ "up" \in States
    BY DEF HandlesOwn, States
  <2>3. /\ DOMAIN hosts = Open
        /\ hosts \in [Open -> [id : Nat, state : States, data : Nat, peer : Peers]]
        /\ \A x \in Open : hosts[x].id = host[x].id /\ hosts[x].peer = host[x].peer
    BY <2>2 DEF NetTypes, Open
  <2> HIDE DEF hosts
  <2> QED  BY <2>1, <2>2, <2>3, AllocKeeps
<1>2. CASE Socket(t)
  BY <1>2, AllocKeeps DEF Socket, NetTypes, States, Open
<1>3. CASE CloseSocket(t, h)
  <2> DEFINE fd == table[h].fd
  <2>1. /\ host' = Without(host, {fd}) /\ rcvTimeo' = Without(rcvTimeo, {fd})
        /\ table' = Without(table, {h}) /\ nextH' = nextH /\ Quiet /\ thread' = thread
    BY <1>3 DEF CloseSocket, TimeoLeft, Quiet
  <2>2. /\ Open' = Open \ {fd} /\ \A x \in Open' : host'[x] = host[x]
        /\ Live' = Live \ {h} /\ \A g \in Live' : table'[g] = table[g]
        /\ DOMAIN rcvTimeo' = DOMAIN rcvTimeo \ {fd}
        /\ \A x \in DOMAIN rcvTimeo' : rcvTimeo'[x] = rcvTimeo[x]
    BY <2>1 DEF Without, Open, Live
  <2>3. NetTypes'
    <3>1. host' \in [Open' -> [id : Nat, state : States, data : Nat, peer : Peers]]
      BY <2>1, <2>2 DEF Without, NetTypes, Open
    <3>2. table' \in [Live' -> [fd : Fds, nonblock : BOOLEAN]]
      BY <2>1, <2>2 DEF Without, NetTypes, Live
    <3>3. rcvTimeo' \in [DOMAIN rcvTimeo' -> Timeo]
      BY <2>1, <2>2 DEF Without, NetTypes
    <3> QED  BY <2>1, <2>2, <3>1, <3>2, <3>3 DEF NetTypes
  <2>4. HandlesOwn'
    <3>1. ASSUME NEW g \in Live'
          PROVE  table'[g].fd \in Open' /\ host'[table'[g].fd].id = g
      <4>1. g \in Live /\ g # h /\ table'[g] = table[g]
        BY <2>2
      <4>2. table[g].fd \in Open /\ host[table[g].fd].id = g /\ host[fd].id = h
        BY <4>1 DEF HandlesOwn
      <4> QED  BY <2>2, <4>1, <4>2
    <3>2. ASSUME NEW x \in DOMAIN rcvTimeo'
          PROVE  x \in Open' /\ host'[x].id = rcvTimeo'[x].by
      BY <2>2 DEF HandlesOwn
    <3> QED  BY <3>1, <3>2 DEF HandlesOwn
  <2>5. PrivateOnly => \A x \in Open' : host'[x].peer # "public"
    BY <2>2 DEF ExitLock
  <2>6. nextH <= nextH'
    BY <2>1 DEF NetTypes
  <2>7. \A g \in Live' : g < nextH => g \in Live /\ table'[g].fd = table[g].fd
    BY <2>2
  <2> QED  BY <2>1, <2>3, <2>4, <2>5, <2>6, <2>7, QuietSound
<1>4. ASSUME NEW s \in Timeouts, SetRcvTimeo(t, h, s)
      PROVE  NetInv'
  <2> DEFINE fd == table[h].fd
  <2>1. /\ rcvTimeo' = With(rcvTimeo, fd, [sec |-> s, by |-> h])
        /\ UNCHANGED <<table, nextH, host, thread>> /\ Quiet
    BY <1>4 DEF SetRcvTimeo, Quiet
  <2>2. fd \in Open /\ host[fd].id = h
    BY DEF HandlesOwn
  <2>3. NetTypes'
    <3>1. rcvTimeo' \in [DOMAIN rcvTimeo' -> Timeo]
      BY <2>1 DEF With, NetTypes, Timeo
    <3> QED  BY <2>1, <3>1 DEF NetTypes, Live, Open
  <2>4. HandlesOwn'
    BY <2>1, <2>2 DEF HandlesOwn, With, Live, Open
  <2> QED  BY <2>1, <2>3, <2>4, QuietSound DEF NetTypes, ExitLock, Live, Open
<1>5. ASSUME NEW b \in BOOLEAN, IoctlSocket(t, h, b)
      PROVE  NetInv'
  <2>1. /\ table' = [table EXCEPT ![h].nonblock = b]
        /\ UNCHANGED <<nextH, host, rcvTimeo, thread>> /\ Quiet
    BY <1>5 DEF IoctlSocket, Quiet
  <2>2. /\ Live' = Live /\ table' \in [Live -> [fd : Fds, nonblock : BOOLEAN]]
        /\ \A g \in Live : table'[g].fd = table[g].fd
    BY <2>1 DEF NetTypes, Live
  <2>3. NetTypes'
    BY <2>1, <2>2 DEF NetTypes, Open
  <2>4. HandlesOwn'
    BY <2>1, <2>2 DEF HandlesOwn, Open
  <2> QED  BY <2>1, <2>2, <2>3, <2>4, QuietSound DEF NetTypes, ExitLock, Open
<1> QED  BY <1>1, <1>2, <1>3, <1>4, <1>5

(* What happens to a descriptor's state or data is nobody else's concern:  *)
LEMMA HostOnly ==
  ASSUME NetInv, Quiet, TableKept, HostKept
  PROVE  NetInv'
<1>1. NetTypes'
  BY DEF NetInv, NetTypes, Quiet, TableKept, HostKept, Live, Open
<1>2. HandlesOwn'
  BY DEF NetInv, NetSound, HandlesOwn, TableKept, HostKept, Live, Open
<1>3. PrivateOnly => \A fd \in Open' : host'[fd].peer # "public"
  BY DEF NetInv, NetSound, ExitLock, HostKept
<1>4. nextH <= nextH' /\ \A h \in Live' : h < nextH => h \in Live /\ table'[h].fd = table[h].fd
  BY DEF NetInv, NetTypes, TableKept, Live
<1> QED  BY <1>1, <1>2, <1>3, <1>4, QuietSound

(* one descriptor's entry, kept but for its state or its data,            *)
LEMMA EntryKept ==
  ASSUME NetTypes, NEW fd \in Open, NEW s \in States, NEW n \in Nat,
         \/ host' = [host EXCEPT ![fd].state = s]
         \/ host' = [host EXCEPT ![fd] = [host[fd] EXCEPT !.state = s]]
         \/ host' = [host EXCEPT ![fd].data = n]
         \/ host' = [host EXCEPT ![fd] = [host[fd] EXCEPT !.data = n]]
  PROVE  HostKept
<1> DEFINE Entry == [id : Nat, state : States, data : Nat, peer : Peers]
<1>1. host \in [Open -> Entry] /\ host[fd] \in Entry
  BY DEF NetTypes
<1>2. /\ [host[fd] EXCEPT !.state = s] \in Entry /\ [host[fd] EXCEPT !.data = n] \in Entry
      /\ [host[fd] EXCEPT !.state = s].id = host[fd].id /\ [host[fd] EXCEPT !.data = n].id = host[fd].id
      /\ [host[fd] EXCEPT !.state = s].peer = host[fd].peer /\ [host[fd] EXCEPT !.data = n].peer = host[fd].peer
  BY <1>1
<1>3. PICK e \in Entry : host' = [host EXCEPT ![fd] = e] /\ e.id = host[fd].id /\ e.peer = host[fd].peer
  BY <1>2
<1> HIDE DEF Entry
<1>4. Open' = Open /\ host' \in [Open -> Entry]
  BY <1>1, <1>3 DEF Open
<1>5. \A x \in Open : host'[x].id = host[x].id /\ host'[x].peer = host[x].peer
  BY <1>1, <1>3
<1> QED  BY <1>4, <1>5 DEF HostKept, Entry

(* listening, shutting down, what the network does,                        *)
LEMMA HostSteps ==
  ASSUME NetInv,
         \/ \E t \in Threads, h \in Live : Listen(t, h) \/ Shutdown(t, h)
         \/ \E fd \in Open : Arrives(fd) \/ Settles(fd)
  PROVE  NetInv'
<1>1. \A h \in Live : table[h].fd \in Open
  BY DEF NetInv, NetSound, HandlesOwn
<1>2. \E fd \in Open : /\ Quiet /\ TableKept
                       /\ \/ \E s \in States : host' = [host EXCEPT ![fd].state = s]
                          \/ \E s \in States : host' = [host EXCEPT ![fd] = [host[fd] EXCEPT !.state = s]]
                          \/ \E n \in Nat : host' = [host EXCEPT ![fd] = [host[fd] EXCEPT !.data = n]]
  <2>1. ASSUME NEW t \in Threads, NEW h \in Live, Listen(t, h) \/ Shutdown(t, h)
        PROVE  /\ Quiet /\ TableKept
               /\ \E s \in States : host' = [host EXCEPT ![table[h].fd].state = s]
    BY <2>1 DEF Listen, Shutdown, TableKept, States
  <2>2. ASSUME NEW fd \in Open, Arrives(fd) \/ Settles(fd)
        PROVE  /\ Quiet /\ TableKept
               /\ \/ \E s \in States : host' = [host EXCEPT ![fd] = [host[fd] EXCEPT !.state = s]]
                  \/ \E n \in Nat : host' = [host EXCEPT ![fd] = [host[fd] EXCEPT !.data = n]]
    BY <2>2 DEF Arrives, Settles, Network, TableKept, States
  <2> QED  BY <1>1, <2>1, <2>2
<1>3. PICK fd \in Open : /\ Quiet /\ TableKept
                         /\ \/ \E s \in States : host' = [host EXCEPT ![fd].state = s]
                            \/ \E s \in States : host' = [host EXCEPT ![fd] = [host[fd] EXCEPT !.state = s]]
                            \/ \E n \in Nat : host' = [host EXCEPT ![fd] = [host[fd] EXCEPT !.data = n]]
  BY <1>2
<1>4. HostKept
  BY <1>3, EntryKept DEF NetInv, States
<1> QED  BY <1>3, <1>4, HostOnly

(* the embedder and the clock.                                             *)
LEMMA OutsideSteps ==
  ASSUME NetInv, NetOff \/ Leaving \/ Tick \/ UNCHANGED vars
  PROVE  NetInv'
<1>1. TableKept /\ host' = host
  BY DEF NetOff, Leaving, Tick, Embedder, TableKept, vars
<1>2. HostKept
  BY <1>1 DEF HostKept, Open, NetInv, NetTypes
<1>3. CASE Quiet
  BY <1>1, <1>2, <1>3, HostOnly
<1>4. CASE UNCHANGED vars
  <2>1. NetTypes'
    BY <1>4 DEF vars, NetInv, NetTypes, Live, Open
  <2>2. \A t \in Threads : SeenOwn(thread[t])' /\ PolledOwn(thread[t])'
    BY <1>4 DEF vars, NetInv, WaitsOwn, SeenOwn, PolledOwn, Live, Open
  <2>3. NetSound'
    BY <1>4 DEF vars, NetInv, NetSound, HandlesOwn, SelectOwnSockets, AnswersOwn, ExitLock, Unbound, Live, Open
  <2> QED  BY <2>1, <2>2, <2>3 DEF NetInv, WaitsOwn
<1> QED  BY <1>3, <1>4 DEF NetOff, Leaving, Tick, Embedder

(* A thread that is answered, or that waits in anything but a poll of its  *)
(* select, is right about its sockets if its answer is.                    *)
LEMMA AnswerKeeps ==
  ASSUME NetInv, NEW t \in Threads, NEW call, NEW h, NEW got, NEW peer,
         Answer(t, call, h, got, peer), TableKept, HostKept,
         call = "select" => got = h,
         call \in Calls /\ h \in Live => got \in {0, h},
         PrivateOnly /\ peer = "public" => call = "recv" /\ \E x \in Open' : host'[x].id = got /\ host'[x].state = "dgram"
  PROVE  NetInv'
<1>1. thread' = [thread EXCEPT ![t] = Idle] /\ said' = [call |-> call, h |-> h, got |-> got, peer |-> peer]
  BY DEF Answer
<1>2. SeenOwn(thread[t])' /\ PolledOwn(thread[t])' /\ "call" \in DOMAIN Idle
  BY <1>1, OthersSeeNothing DEF Idle, NetInv, NetTypes, PolledOwn, Calls
<1>3. /\ NetTypes' /\ WaitsOwn' /\ HandlesOwn'
      /\ PrivateOnly => \A fd \in Open' : host'[fd].peer # "public"
  BY <1>1, <1>2, OneThread
<1>4. SaidSound'
  <2>1. Live' = Live
    BY DEF TableKept, Live
  <2>2. /\ said'.call = call /\ said'.h = h /\ said'.got = got /\ said'.peer = peer
    BY <1>1
  <2>3. SelectOwnSockets' /\ AnswersOwn'
    BY <2>1, <2>2 DEF SelectOwnSockets, AnswersOwn, Calls
  <2>4. PrivateOnly => (said'.peer = "public" => said'.call = "recv" /\ Unbound(said.got)')
    BY <2>2 DEF Unbound
  <2> QED  BY <2>3, <2>4 DEF SaidSound
<1> QED  BY <1>3, <1>4, PartsMake

(* So does one that waits, if what it knows of its handles is right:       *)
LEMMA WaitKeeps ==
  ASSUME NetInv, NEW t \in Threads, NEW w, Wait(t, w), "call" \in DOMAIN w,
         SeenOwn(thread[t])', PolledOwn(thread[t])', TableKept, HostKept
  PROVE  NetInv'
<1>1. thread' = [thread EXCEPT ![t] = w] /\ said' = Silence
  BY DEF Wait
<1>2. /\ NetTypes' /\ WaitsOwn' /\ HandlesOwn'
      /\ PrivateOnly => \A fd \in Open' : host'[fd].peer # "public"
  BY <1>1, OneThread
<1>3. SaidSound'
  BY <1>1, SilenceSound
<1> QED  BY <1>2, <1>3, PartsMake

(* a wait that is not a select knows nothing of them but its own.          *)
LEMMA OtherWaitKeeps ==
  ASSUME NetInv, NEW t \in Threads, NEW w, Wait(t, w), "call" \in DOMAIN w,
         w.call # "select" \/ w.fail, PolledOwn(w), TableKept, HostKept
  PROVE  NetInv'
<1>1. thread'[t] = w
  BY DEF Wait, NetInv, NetTypes
<1>2. SeenOwn(thread[t])'
  BY <1>1, OthersSeeNothing
<1>3. PolledOwn(thread[t])'
  BY <1>1 DEF PolledOwn, TableKept, Live
<1> QED  BY <1>2, <1>3, WaitKeeps

(* Nothing of a descriptor changes.                                        *)
LEMMA SameHost ==
  ASSUME NetInv, host' = host
  PROVE  HostKept
BY DEF NetInv, NetTypes, HostKept, Open

(* The redirection leads out of the lock only if the lock says so.         *)
LEMMA RoutedAllowed ==
  ASSUME NEW d \in Dests
  PROVE  /\ Routed(d) \in Dests
         /\ PrivateOnly /\ Judged(d) => Routed(d) # "public"
BY WinsockAssumption DEF Routed, Judged, Allowed, Dests

(* An open handle has the descriptor it waited on, or waits on, still.     *)
LEMMA OwnFd ==
  ASSUME NetInv, NEW h \in Live
  PROVE  /\ table[h].fd \in Open /\ host[table[h].fd].id = h
         /\ h \in Nat /\ h < nextH
BY DEF NetInv, NetTypes, NetSound, HandlesOwn

LEMMA OwnPoll ==
  ASSUME NetInv, NEW t \in Threads, thread[t].call \in Calls
  PROVE  /\ PolledOwn(thread[t])
         /\ thread[t].h \in Live => thread[t].fd \in Open /\ host[thread[t].fd].id = thread[t].h
<1>1. PolledOwn(thread[t])
  BY DEF NetInv, WaitsOwn
<1> QED  BY <1>1, OwnFd DEF PolledOwn

(* connect,                                                                *)
LEMMA ConnectKeeps ==
  ASSUME NetInv, NEW t \in Threads, NEW h \in Live, NEW d \in Dests, Connect(t, h, d)
  PROVE  NetInv'
<1> DEFINE fd == table[h].fd
           w == [call |-> "connect", h |-> h, fd |-> fd, woken |-> FALSE, until |-> now + ConnectWait]
<1>0. TableKept
  BY DEF Connect, TableKept
<1>1. CASE Answer(t, "connect", h, 0, "nowhere") /\ host' = host
  BY <1>0, <1>1, SameHost, AnswerKeeps
<1>2. ASSUME NEW state \in {"up", "dialing"}, Judged(d),
             host' = [host EXCEPT ![fd].state = state, ![fd].peer = Routed(d)],
             \/ Answer(t, "connect", h, h, Routed(d))
             \/ Wait(t, w)
      PROVE  NetInv'
  <2>1. fd \in Open /\ host[fd].id = h /\ state \in States
    BY OwnFd DEF States
  <2>2. /\ Open' = Open
        /\ \A x \in Open : host'[x].id = host[x].id
        /\ \A x \in Open : host'[x].peer = IF x = fd THEN Routed(d) ELSE host[x].peer
        /\ host' \in [Open -> [id : Nat, state : States, data : Nat, peer : Peers]]
    BY <1>2, <2>1, RoutedAllowed DEF NetInv, NetTypes, Open, Peers
  <2>3. PICK w2 : /\ thread' = [thread EXCEPT ![t] = w2] /\ thread'[t] = w2
                  /\ w2 \in {Idle, w}
    BY <1>2 DEF Wait, Answer, NetInv, NetTypes
  <2>4. "call" \in DOMAIN w2 /\ w2.call # "select" /\ PolledOwn(w2)
    BY <2>3, OwnFd DEF Idle, PolledOwn, Calls
  <2>5. NetTypes'
    BY <1>0, <2>2, <2>3, <2>4 DEF NetInv, NetTypes, TableKept, Live
  <2>6. HandlesOwn'
    BY <1>0, <2>2 DEF NetInv, NetSound, HandlesOwn, TableKept, Live
  <2>7. WaitsOwn'
    <3>1. ASSUME NEW u \in Threads
          PROVE  SeenOwn(thread[u])' /\ PolledOwn(thread[u])'
      <4>1. CASE u = t
        <5>1. thread'[u].call # "select"
          BY <2>3, <2>4, <4>1
        <5>2. PolledOwn(thread[u])'
          BY <1>0, <2>3, <2>4, <4>1 DEF PolledOwn, TableKept, Live
        <5> QED  BY <5>1, <5>2, OthersSeeNothing
      <4>2. CASE u # t
        <5>1. thread'[u] = thread[u]
          BY <2>3, <4>2 DEF NetInv, NetTypes
        <5> QED  BY <1>0, <5>1, WaitKept DEF NetInv, NetTypes, WaitsOwn, TableKept, Live
      <4> QED  BY <4>1, <4>2
    <3> QED  BY <3>1 DEF WaitsOwn
  <2>8. PrivateOnly => \A x \in Open' : host'[x].peer # "public"
    BY <1>2, <2>2, RoutedAllowed DEF NetInv, NetSound, ExitLock
  <2>9. SaidSound'
    <3>1. CASE said' = Silence
      BY <3>1, SilenceSound
    <3>2. CASE said' = [call |-> "connect", h |-> h, got |-> h, peer |-> Routed(d)]
      BY <1>2, <3>2, RoutedAllowed DEF SaidSound, SelectOwnSockets, AnswersOwn
    <3> QED  BY <1>2, <3>1, <3>2 DEF Answer, Wait
  <2> QED  BY <2>5, <2>6, <2>7, <2>8, <2>9, PartsMake
<1>3. \/ Answer(t, "connect", h, 0, "nowhere") /\ host' = host
      \/ \E state \in {"up", "dialing"} :
           /\ Judged(d)
           /\ host' = [host EXCEPT ![fd].state = state, ![fd].peer = Routed(d)]
           /\ Answer(t, "connect", h, h, Routed(d)) \/ Wait(t, w)
  BY DEF Connect
<1> HIDE DEF fd, w
<1> QED  BY <1>1, <1>2, <1>3

(* the ends of polls, sendto and the resolver,                             *)
LEMMA OutCalls ==
  ASSUME NetInv, NEW t \in Threads,
         \/ PollWakes(t) \/ ConnectDone(t)
         \/ \E h \in Live, d \in Dests : Connect(t, h, d) \/ SendTo(t, h, d)
         \/ \E name \in {"figures", "name"} : Resolve(t, name)
  PROVE  NetInv'
<1>1. CASE PollWakes(t)
  <2> DEFINE w == thread[t]
             w2 == [w EXCEPT !.woken = TRUE]
  <2>1. /\ Wait(t, w2) /\ TableKept /\ host' = host
        /\ w.call \in Calls
    BY <1>1 DEF PollWakes, TableKept, Calls
  <2>2. "call" \in DOMAIN w2 /\ w2.call = w.call
    BY DEF NetInv, NetTypes
  <2>3. PolledOwn(w2)
    BY <2>1, <2>2, OwnPoll DEF PolledOwn
  <2> HIDE DEF w2
  <2>4. w2.call # "select"
    BY <2>1, <2>2 DEF Calls
  <2> QED  BY <2>1, <2>2, <2>3, <2>4, SameHost, OtherWaitKeeps
<1>2. CASE ConnectDone(t)
  <2> DEFINE w == thread[t]
             got == IF w.fd \in Open /\ host[w.fd].state # "hup" THEN host[w.fd].id ELSE 0
  <2>1. /\ Answer(t, "connect", w.h, got, "nowhere")
        /\ TableKept /\ host' = host /\ w.call \in Calls
    BY <1>2 DEF ConnectDone, TableKept, Woken, Calls
  <2>2. w.h \in Live => got \in {0, w.h}
    BY <2>1, OwnPoll
  <2> HIDE DEF got
  <2> QED  BY <2>1, <2>2, SameHost, AnswerKeeps
<1>3. ASSUME NEW h \in Live, NEW d \in Dests, SendTo(t, h, d)
      PROVE  NetInv'
  <2>1. /\ Answer(t, "sendto", h, h, IF Judged(d) THEN Routed(d) ELSE "nowhere")
        /\ TableKept /\ host' = host
    BY <1>3 DEF SendTo, TableKept
  <2> QED  BY <2>1, SameHost, AnswerKeeps, RoutedAllowed DEF Calls
<1>4. ASSUME NEW name \in {"figures", "name"}, Resolve(t, name)
      PROVE  NetInv'
  <2>1. /\ Answer(t, "resolve", 0, 0, Asked(name))
        /\ TableKept /\ host' = host
    BY <1>4 DEF Resolve, TableKept
  <2>2. PrivateOnly => Asked(name) # "public"
    BY DEF Asked
  <2> QED  BY <2>1, <2>2, SameHost, AnswerKeeps DEF Calls
<1> QED  BY <1>1, <1>2, <1>3, <1>4, ConnectKeeps

(* recv and recvfrom,                                                      *)
LEMMA ReceiveKeeps ==
  ASSUME NetInv, NEW t \in Threads, NEW call \in {"recv", "recvfrom"}, NEW h, NEW fd,
         Receive(t, call, h, fd), TableKept,
         h \in Live => fd \in Open /\ host[fd].id = h
  PROVE  NetInv'
<1>1. CASE host' = host /\ (Answer(t, call, h, 0, "nowhere") \/ (fd \in Open /\ Answer(t, call, h, host[fd].id, "nowhere")))
  BY <1>1, SameHost, AnswerKeeps DEF Calls
<1>2. ASSUME Carries(fd), host[fd].data > 0, host' = [host EXCEPT ![fd].data = @ - 1],
             NEW from \in Sources(fd),
             IF call = "recv" \/ Allowed(Given(fd, from))
             THEN Answer(t, call, h, host[fd].id, from)
             ELSE Answer(t, call, h, 0, "nowhere")
      PROVE  NetInv'
  <2>1. fd \in Open /\ host[fd].data - 1 \in Nat /\ "up" \in States
    BY <1>2 DEF Carries, NetInv, NetTypes, States
  <2>2. HostKept
    <3>1. host' = [host EXCEPT ![fd].data = host[fd].data - 1]
      BY <1>2
    <3> QED  BY <2>1, <3>1, EntryKept DEF NetInv
  <2>3. CASE Answer(t, call, h, 0, "nowhere")
    BY <2>2, <2>3, AnswerKeeps
  <2>4. CASE /\ Answer(t, call, h, host[fd].id, from)
             /\ call = "recv" \/ Allowed(Given(fd, from))
    <3>1. PrivateOnly /\ from = "public" => host[fd].state = "dgram"
      BY <1>2, <2>1 DEF Sources, NetInv, NetSound, ExitLock
    <3>2. PrivateOnly /\ from = "public" => call = "recv"
      BY <2>4, <3>1 DEF Given, Allowed
    <3>3. fd \in Open' /\ host'[fd].id = host[fd].id /\ host'[fd].state = host[fd].state
      BY <1>2, <2>1 DEF NetInv, NetTypes, Open
    <3>4. PrivateOnly /\ from = "public" =>
            call = "recv" /\ \E x \in Open' : host'[x].id = host[fd].id /\ host'[x].state = "dgram"
      BY <3>1, <3>2, <3>3
    <3> QED  BY <2>2, <2>4, <3>4, AnswerKeeps DEF Calls
  <2> QED  BY <1>2, <2>3, <2>4
<1> QED  BY <1>1, <1>2 DEF Receive, Carries

LEMMA InCalls ==
  ASSUME NetInv, NEW t \in Threads,
         \/ RecvTurn(t) \/ RecvFromDone(t)
         \/ \E h \in Live : Recv(t, h) \/ RecvFrom(t, h)
  PROVE  NetInv'
<1>1. CASE RecvTurn(t)
  <2> DEFINE w == thread[t]
             w2 == [w EXCEPT !.waited = IF w.limit > 0 THEN @ + 1 ELSE 0, !.woken = FALSE, !.until = now + 1]
  <2>1. w.call = "recv" /\ TableKept /\ w.call \in Calls
    BY <1>1 DEF RecvTurn, Woken, TableKept, Calls
  <2>2. CASE ~Nothing(w.fd)
    <3>1. Receive(t, "recv", w.h, w.fd)
      BY <1>1, <2>2 DEF RecvTurn
    <3> QED  BY <2>1, <3>1, OwnPoll, ReceiveKeeps
  <2>3. CASE Nothing(w.fd)
    <3>1. host' = host /\ (Answer(t, "recv", w.h, 0, "nowhere") \/ Wait(t, w2))
      BY <1>1, <2>3 DEF RecvTurn
    <3>2. "call" \in DOMAIN w2 /\ w2.call = "recv" /\ PolledOwn(w2)
      BY <2>1, OwnPoll DEF NetInv, NetTypes, PolledOwn
    <3> HIDE DEF w2
    <3> QED  BY <2>1, <3>1, <3>2, SameHost, AnswerKeeps, OtherWaitKeeps
  <2> QED  BY <2>2, <2>3
<1>2. CASE RecvFromDone(t)
  <2> DEFINE w == thread[t]
  <2>1. /\ w.call \in Calls /\ TableKept
        /\ Receive(t, "recvfrom", w.h, w.fd)
    BY <1>2 DEF RecvFromDone, Woken, TableKept, Calls
  <2> QED  BY <2>1, OwnPoll, ReceiveKeeps
<1>3. ASSUME NEW h \in Live, Recv(t, h)
      PROVE  NetInv'
  <2> DEFINE fd == table[h].fd
             w == [call |-> "recv", h |-> h, fd |-> fd, limit |-> Limit(fd),
                   waited |-> 0, woken |-> FALSE, until |-> now + 1]
  <2>1. TableKept
    BY <1>3 DEF Recv, TableKept
  <2>2. CASE Receive(t, "recv", h, fd)
    BY <2>1, <2>2, OwnFd, ReceiveKeeps
  <2>3. CASE host' = host /\ (Answer(t, "recv", h, 0, "nowhere") \/ Wait(t, w))
    <3>1. "call" \in DOMAIN w /\ w.call = "recv" /\ PolledOwn(w)
      BY OwnFd DEF PolledOwn
    <3> HIDE DEF w
    <3> QED  BY <2>1, <2>3, <3>1, SameHost, AnswerKeeps, OtherWaitKeeps
  <2> QED  BY <1>3, <2>2, <2>3 DEF Recv
<1>4. ASSUME NEW h \in Live, RecvFrom(t, h)
      PROVE  NetInv'
  <2> DEFINE fd == table[h].fd
             w == [call |-> "recvfrom", h |-> h, fd |-> fd, woken |-> FALSE, until |-> now + FromWait]
  <2>1. TableKept
    BY <1>4 DEF RecvFrom, TableKept
  <2>2. CASE Receive(t, "recvfrom", h, fd)
    BY <2>1, <2>2, OwnFd, ReceiveKeeps
  <2>3. CASE host' = host /\ Wait(t, w)
    <3>1. "call" \in DOMAIN w /\ w.call = "recvfrom" /\ PolledOwn(w)
      BY OwnFd DEF PolledOwn
    <3> HIDE DEF w
    <3> QED  BY <2>1, <2>3, <3>1, SameHost, OtherWaitKeeps
  <2> QED  BY <1>4, <2>2, <2>3 DEF RecvFrom
<1> QED  BY <1>1, <1>2, <1>3, <1>4

(* A select that fails later, or that starts to wait.                      *)
LEMMA SelectStarts ==
  ASSUME NetInv, NEW t \in Threads, NEW R \in SUBSET (Live \cup {0}), NEW W \in SUBSET Live,
         NEW wait, Select(t, R, W, wait)
  PROVE  NetInv'
<1> DEFINE w == [call |-> "select", fail |-> FALSE, R |-> R, W |-> W, watch |-> R \cup W,
                 fd |-> [h \in R \cup W |-> table[h].fd], end |-> now + wait,
                 errAt |-> ErrorAt(wait), until |-> IF wait = 0 THEN now ELSE now + 1]
<1>1. TableKept /\ HostKept
  BY SameHost DEF Select, TableKept
<1>2. ASSUME NEW at, Fail(t, at)
      PROVE  NetInv'
  BY <1>1, <1>2, OtherWaitKeeps DEF Fail, PolledOwn, Calls
<1>3. CASE /\ R \cup W \subseteq Live
           /\ Wait(t, w)
  <2>1. /\ {"call", "fail", "fd", "watch"} \subseteq DOMAIN w /\ DOMAIN w.fd = R \cup W /\ w.watch = R \cup W
        /\ "seen" \notin DOMAIN w /\ w.call = "select"
    OBVIOUS
  <2> HIDE DEF w
  <2>2. thread'[t] = w /\ nextH' = nextH
    BY <1>1, <1>3 DEF Wait, NetInv, NetTypes, TableKept
  <2>3. DOMAIN w.fd \subseteq {h \in Nat : h < nextH'}
    BY <1>3, <2>1, <2>2 DEF NetInv, NetTypes
  <2>4. SeenOwn(thread[t])'
    BY <2>1, <2>2, <2>3 DEF SeenOwn
  <2>5. PolledOwn(thread[t])'
    BY <2>1, <2>2 DEF PolledOwn, Calls
  <2> QED  BY <1>1, <1>3, <2>1, <2>4, <2>5, WaitKeeps
<1>4. (\E at : Fail(t, at)) \/ (R \cup W \subseteq Live /\ Wait(t, w))
  BY DEF Select
<1> QED  BY <1>2, <1>3, <1>4

(* The poll of a select sees of each handle what its own socket did, or    *)
(* what another did on a descriptor the handle has lost.                   *)
LEMMA PollKeeps ==
  ASSUME NetInv, NEW t \in Threads, PollReturns(t)
  PROVE  NetInv'
<1> DEFINE w == thread[t]
           hit == {h \in w.watch : Reported(w, h)}
           s == [h \in hit |-> Occupant(w.fd[h])]
           w2 == With(w, "seen", s)
<1>1. /\ w.call = "select" /\ ~w.fail /\ Wait(t, w2)
      /\ TableKept /\ host' = host
  BY DEF PollReturns, Polling, Selecting, TableKept
<1>2. /\ "call" \in DOMAIN w /\ {"fail", "fd", "watch"} \subseteq DOMAIN w
      /\ DOMAIN w.fd \subseteq {h \in Nat : h < nextH} /\ w.watch \subseteq DOMAIN w.fd
  BY <1>1 DEF NetInv, NetTypes, WaitsOwn, SeenOwn
<1>3. /\ {"call", "fail", "fd", "watch"} \subseteq DOMAIN w2
      /\ w2.seen = s /\ w2.fd = w.fd /\ w2.watch = w.watch /\ w2.call = "select"
  BY <1>1, <1>2 DEF With
<1>4. ASSUME NEW h \in DOMAIN s, h \in Live, table[h].fd = w.fd[h]
      PROVE  s[h].id = h
  <2>1. s[h] = host[table[h].fd]
    BY <1>4 DEF Occupant, NetInv, NetSound, HandlesOwn
  <2> QED  BY <1>4, <2>1 DEF NetInv, NetSound, HandlesOwn
<1>5. DOMAIN s \subseteq w.watch
  OBVIOUS
<1> HIDE DEF s, w2, hit
<1>6. thread'[t] = w2 /\ Live' = Live /\ table' = table /\ nextH' = nextH
  BY <1>1 DEF Wait, NetInv, NetTypes, TableKept, Live
<1>7. SeenOwn(thread[t])'
  BY <1>2, <1>3, <1>4, <1>5, <1>6 DEF SeenOwn
<1>8. "call" \in DOMAIN w2 /\ HostKept /\ PolledOwn(thread[t])'
  BY <1>1, <1>3, <1>6, SameHost DEF PolledOwn, Calls
<1> QED  BY <1>1, <1>7, <1>8, WaitKeeps

(* A select answers only for handles that nobody closed, so each was seen  *)
(* as its own socket.                                                      *)
LEMMA TurnKeeps ==
  ASSUME NetInv, NEW t \in Threads, SelectTurn(t)
  PROVE  NetInv'
<1> DEFINE w == thread[t]
           r == {h \in w.R \cap DOMAIN w.seen : w.seen[h].data > 0 \/ Hung(w.seen[h])}
           x == {h \in w.W \cap DOMAIN w.seen : w.seen[h].state \in {"dgram", "up"}}
           w2 == [f \in DOMAIN w \ {"seen"} |->
                    CASE f = "watch" -> w.watch \ DOMAIN w.seen
                      [] f = "until" -> IF w.end < now + 1 THEN w.end ELSE now + 1
                      [] OTHER -> w[f]]
<1>1. /\ w.call = "select" /\ ~w.fail /\ "seen" \in DOMAIN w
      /\ TableKept /\ host' = host
  BY DEF SelectTurn, Polling, Selecting, TableKept
<1>2. /\ "call" \in DOMAIN w /\ {"fail", "fd", "watch"} \subseteq DOMAIN w
      /\ DOMAIN w.fd \subseteq {h \in Nat : h < nextH} /\ w.watch \subseteq DOMAIN w.fd
      /\ DOMAIN w.seen \subseteq w.watch
      /\ \A h \in DOMAIN w.seen : h \in Live /\ table[h].fd = w.fd[h] => w.seen[h].id = h
  BY <1>1 DEF NetInv, NetTypes, WaitsOwn, SeenOwn
<1>3. HostKept
  BY <1>1, SameHost
<1>4. \/ \E at : Fail(t, at)
      \/ ~Stale(w) /\ Answer(t, "select", r \cup x, {w.seen[h].id : h \in r \cup x}, "nowhere")
      \/ Answer(t, "select", {}, {}, "nowhere")
      \/ Wait(t, w2)
  BY DEF SelectTurn
<1>5. ASSUME NEW at, Fail(t, at)
      PROVE  NetInv'
  BY <1>1, <1>3, <1>5, OtherWaitKeeps DEF Fail, PolledOwn, Calls
<1>6. CASE ~Stale(w) /\ Answer(t, "select", r \cup x, {w.seen[h].id : h \in r \cup x}, "nowhere")
  <2>1. \A h \in DOMAIN w.seen : w.seen[h].id = h
    BY <1>2, <1>6 DEF Stale
  <2>2. r \cup x \subseteq DOMAIN w.seen
    OBVIOUS
  <2>3. {w.seen[h].id : h \in r \cup x} = r \cup x
    BY <2>1, <2>2
  <2>4. Answer(t, "select", r \cup x, r \cup x, "nowhere")
    BY <1>6, <2>3
  <2> HIDE DEF r, x
  <2>5. "select" \notin Calls
    BY DEF Calls
  <2> QED  BY <1>1, <1>3, <2>4, <2>5, AnswerKeeps
<1>7. CASE Answer(t, "select", {}, {}, "nowhere")
  BY <1>1, <1>3, <1>7, AnswerKeeps DEF Calls
<1>8. CASE Wait(t, w2)
  <2>1. /\ {"call", "fail", "fd", "watch"} \subseteq DOMAIN w2 /\ "seen" \notin DOMAIN w2
        /\ w2.fd = w.fd /\ w2.watch = w.watch \ DOMAIN w.seen /\ w2.call = "select"
    BY <1>1, <1>2
  <2> HIDE DEF w2
  <2>2. thread'[t] = w2 /\ nextH' = nextH
    BY <1>1, <1>8 DEF Wait, NetInv, NetTypes, TableKept
  <2>3. SeenOwn(thread[t])'
    BY <1>2, <2>1, <2>2 DEF SeenOwn
  <2>4. PolledOwn(thread[t])'
    BY <2>1, <2>2 DEF PolledOwn, Calls
  <2> QED  BY <1>1, <1>3, <1>8, <2>1, <2>3, <2>4, WaitKeeps
<1> QED  BY <1>4, <1>5, <1>6, <1>7, <1>8

(* A select that fails has nothing to report.                              *)
LEMMA FailKeeps ==
  ASSUME NetInv, NEW t \in Threads, SelectFails(t)
  PROVE  NetInv'
BY SameHost, AnswerKeeps DEF SelectFails, TableKept, Calls

(* In the beginning there is no socket.                                    *)
LEMMA NetStart == Init => NetInv
<1> SUFFICES ASSUME Init
             PROVE  NetInv
  OBVIOUS
<1>1. Live = {} /\ Open = {} /\ DOMAIN rcvTimeo = {}
  BY DEF Init, Live, Open
<1>2. /\ table \in [Live -> [fd : Fds, nonblock : BOOLEAN]]
      /\ host \in [Open -> [id : Nat, state : States, data : Nat, peer : Peers]]
      /\ rcvTimeo \in [DOMAIN rcvTimeo -> Timeo]
  BY <1>1 DEF Init
<1>3. NetTypes
  BY <1>1, <1>2 DEF Init, NetTypes, Idle
<1>4. WaitsOwn
  BY DEF Init, WaitsOwn, SeenOwn, PolledOwn, Calls, Idle
<1>5. NetSound
  BY <1>1 DEF Init, NetSound, HandlesOwn, AnswersOwn, SelectOwnSockets, ExitLock, Silence
<1> QED  BY <1>3, <1>4, <1>5 DEF NetInv

(* Every step keeps the invariant.                                         *)
LEMMA NetStep ==
  ASSUME NetInv, [Next]_vars
  PROVE  NetInv'
<1>1. ASSUME NEW t \in Threads,
             \/ Socket(t) \/ PollWakes(t) \/ ConnectDone(t) \/ RecvTurn(t) \/ RecvFromDone(t)
             \/ PollReturns(t) \/ SelectTurn(t) \/ SelectFails(t)
             \/ \E name \in {"figures", "name"} : Resolve(t, name)
      PROVE  NetInv'
  <2>1. CASE Socket(t)
    BY <2>1, AllocKeeps DEF Socket, NetInv, NetTypes, States, Open
  <2> QED  BY <1>1, <2>1, OutCalls, InCalls, PollKeeps, TurnKeeps, FailKeeps
<1>2. ASSUME NEW t \in Threads, NEW h \in Live,
             \/ CloseSocket(t, h) \/ Shutdown(t, h) \/ Recv(t, h) \/ RecvFrom(t, h)
             \/ Listen(t, h) \/ Accept(t, h)
             \/ \E s \in Timeouts : SetRcvTimeo(t, h, s)
             \/ \E b \in BOOLEAN : IoctlSocket(t, h, b)
             \/ \E d \in Dests : Connect(t, h, d) \/ SendTo(t, h, d)
      PROVE  NetInv'
  BY <1>2, SocketCalls, HostSteps, InCalls, OutCalls
<1>3. ASSUME NEW t \in Threads, NEW R \in SUBSET Live, NEW W \in SUBSET Live, NEW wait \in Waits, Select(t, R, W, wait)
      PROVE  NetInv'
  BY <1>3, SelectStarts
<1>4. ASSUME NEW t \in Threads, NEW h \in {0} \cup Live, Select(t, {h}, {}, IF h = 0 THEN NoLimit ELSE Invalid)
      PROVE  NetInv'
  BY <1>4, SelectStarts
<1>5. ASSUME NEW fd \in Open, Arrives(fd) \/ Settles(fd)
      PROVE  NetInv'
  BY <1>5, HostSteps
<1> QED  BY <1>1, <1>2, <1>3, <1>4, <1>5, OutsideSteps DEF Next

(* A live handle has its own descriptor and receive timeout; a select      *)
(* reports only what its own sockets did; a connect, recv or recvfrom      *)
(* whose handle is still open answers for its own socket; with the exit    *)
(* lock on nothing is dialed, sent or asked of a public address and        *)
(* recvfrom hands nothing over from one, as a recv on a datagram socket    *)
(* without a peer does (NetSound).                                         *)
THEOREM SocketsHold == Spec => []NetSound
<1>1. NetInv => NetSound
  BY DEF NetInv
<1> QED  BY <1>1, NetStart, NetStep, PTL DEF Spec
----------------------------------------------------------------------------
(* Waits on handles.  WaitShims is here with the variables the run gives   *)
(* it, by their names there, and every value of its constants.             *)
obj == x1
queue == x2
posted == x3
outp == x4
out == x5
pend == x6
multi == x7
eax == x8
held == x9
misused == x10
USE DEF obj, queue, posted, outp, out, pend, multi, eax, held, misused

(* What the tables hold.                                                   *)
Entry == [kind : Makes, n : 0 .. MaxSema]
PendTypes ==
  /\ DOMAIN pend = Threads
  /\ \A t \in Threads : pend[t].all => pend[t].expired = Handles!TimedOut
WaitTypes ==
  /\ obj \in Seq(Entry) /\ Len(obj) <= MaxObjects
  /\ posted \in Nat
  /\ queue \in Seq(Seq(1 .. posted)) /\ Len(queue) = Len(obj)
  /\ out \in [Threads -> Int]
  /\ \A t \in Threads : out[t] <= posted
  /\ outp \in [Threads -> SUBSET Handles!Handle] /\ held \in [Threads -> SUBSET Handles!Handle]
  /\ DOMAIN eax = Threads /\ DOMAIN multi = Threads /\ misused \subseteq DOMAIN obj
  /\ PendTypes

(* Of a mutex that is not misused: its holder, who is alone, or its        *)
(* signal.                                                                 *)
Held(h) == \E t \in Threads : h \in held[t]
HeldOnce ==
  /\ \A t \in Threads : \A h \in held[t] :
       /\ h \in DOMAIN obj /\ obj[h].kind = "mutex" /\ obj[h].n = 0 /\ h \notin misused
       /\ \A u \in Threads : h \in held[u] => u = t
  /\ \A h \in DOMAIN obj \ misused :
       obj[h].kind = "mutex" => obj[h].n \in {0, 1} /\ (obj[h].n = 0 => Held(h))

(* What a parked thread waits for: one port it has named, or objects that  *)
(* are no ports; a handle unknown when it was named stays unknown.         *)
Fits(on, all, port, t) ==
  /\ on \in Seq(DOMAIN obj \cup {Handles!Unknown}) /\ on # <<>> /\ port \in BOOLEAN
  /\ all => Len(on) > 1
  /\ port => Len(on) = 1 /\ on[1] \in outp[t] /\ Handles!IsKind(on[1], {"port"})
  /\ ~port => \A i \in DOMAIN on : ~Handles!IsKind(on[i], {"port"})
WaitsFit ==
  \A t \in Threads :
    ~Handles!Runs(t) => Fits(pend[t].on, pend[t].all, pend[t].port, t)

WInv == WaitTypes /\ HeldOnce /\ Handles!OnePlace /\ WaitsFit /\ Handles!AsAsked

(* A wait that can be satisfied takes objects it names, which are ready.   *)
LEMMA WonReady ==
  ASSUME WaitTypes, NEW on \in Seq(DOMAIN obj \cup {Handles!Unknown}), NEW all,
         Handles!CanTake(on, all)
  PROVE  /\ Handles!Won(on, all) \in Seq(DOMAIN obj \cup {Handles!Unknown})
         /\ \A h \in Handles!Listed(Handles!Won(on, all)) :
              h \in DOMAIN obj /\ Handles!Ready(h) /\ \E i \in DOMAIN on : h = on[i]
<1>1. ASSUME NEW i \in DOMAIN on, Handles!Ready(on[i])
      PROVE  on[i] \in DOMAIN obj
  BY <1>1 DEF Handles!Ready, Handles!Known
<1>2. CASE all
  BY <1>1, <1>2 DEF Handles!CanTake, Handles!Won, Handles!Listed
<1>3. CASE ~all
  <2> DEFINE D == {i \in DOMAIN on : Handles!Ready(on[i])}
             P(i) == Handles!Ready(on[i]) /\ \A j \in 1 .. i - 1 : ~Handles!Ready(on[j])
             first == on[Handles!First(on)]
  <2>1. DOMAIN on = 1 .. Len(on) /\ Len(on) \in Nat
    OBVIOUS
  <2>2. D \subseteq Nat /\ D # {}
    BY <1>3, <2>1 DEF Handles!CanTake
  <2>3. PICK x \in D : \A y \in D : x <= y
    BY <2>2, LeastNat
  <2>4. \A j \in 1 .. x - 1 : j \in DOMAIN on /\ ~(x <= j)
    BY <2>1, <2>3
  <2>5. \E i \in DOMAIN on : P(i)
    BY <2>3, <2>4
  <2>6. Handles!First(on) = CHOOSE i \in DOMAIN on : P(i)
    BY DEF Handles!First
  <2> HIDE DEF P
  <2>7. Handles!First(on) \in DOMAIN on /\ P(Handles!First(on))
    BY <2>5, <2>6
  <2>8. first \in DOMAIN obj /\ Handles!Ready(first) /\ \E i \in DOMAIN on : first = on[i]
    BY <1>1, <2>7 DEF P
  <2>9. Handles!Won(on, all) = <<first>>
    BY <1>3 DEF Handles!Won
  <2> HIDE DEF first
  <2>10. <<first>> \in Seq(DOMAIN obj \cup {Handles!Unknown}) /\ \A i \in DOMAIN <<first>> : <<first>>[i] = first
    BY <2>8
  <2> QED  BY <2>8, <2>9, <2>10 DEF Handles!Listed
<1> QED  BY <1>2, <1>3

(* How often an object is listed is a number, not 0 for one that is.       *)
LEMMA TimesNat ==
  ASSUME NEW S, NEW on \in Seq(S), NEW h
  PROVE  /\ Handles!Times(on, h) \in Nat
         /\ h \in Handles!Listed(on) => Handles!Times(on, h) # 0
<1> DEFINE T == {i \in DOMAIN on : on[i] = h}
<1>1. IsFiniteSet(DOMAIN on)
  BY FS_Interval
<1>2. IsFiniteSet(T)
  BY <1>1, FS_Subset
<1>3. Cardinality(T) \in Nat /\ (T # {} => Cardinality(T) # 0)
  BY <1>2, FS_CardinalityType, FS_EmptySet
<1>4. Handles!Times(on, h) = Cardinality(T)
  BY DEF Handles!Times, Handles!Cardinality, Cardinality
<1>5. h \in Handles!Listed(on) => T # {}
  BY DEF Handles!Listed
<1> HIDE DEF T
<1> QED  BY <1>3, <1>4, <1>5

(* Objects are only added, and keep their kind.                            *)
KindsKept == /\ DOMAIN obj \subseteq DOMAIN obj' /\ DOMAIN obj' \subseteq Handles!Handle
             /\ \A h \in DOMAIN obj : obj'[h].kind = obj[h].kind
AskedFor(t) ==
  /\ Len(pend[t].on) > 1 => multi[t] = [objs |-> pend[t].on, all |-> pend[t].all]
  /\ pend[t].port => out[t] = Handles!Null

(* What a thread waits for still fits.                                     *)
LEMMA StillFits ==
  ASSUME WInv, KindsKept, NEW u \in Threads, outp[u] \subseteq outp'[u], pend'[u] = pend[u],
         ~Handles!Runs(u)'
  PROVE  Fits(pend[u].on, pend[u].all, pend[u].port, u)'
<1> DEFINE w == pend[u]
<1>1. Handles!Unknown \notin Handles!Handle /\ Handles!Unknown' = Handles!Unknown
  BY WaitsAssumption DEF Handles!Unknown, Handles!Handle, Handles!WaitAssumption
<1>2. ~Handles!Runs(u) /\ w' = w
  BY DEF Handles!Runs
<1>3. Fits(w.on, w.all, w.port, u)
  BY <1>2 DEF WInv, WaitsFit
<1> HIDE DEF w
<1>4. w.on \in Seq(DOMAIN obj' \cup {Handles!Unknown})
  BY <1>3 DEF Fits, KindsKept
<1>5. \A i \in DOMAIN w.on : w.on[i] \in DOMAIN obj \cup {Handles!Unknown}
  BY <1>3 DEF Fits
<1>6. \A i \in DOMAIN w.on : Handles!IsKind(w.on[i], {"port"})' <=> Handles!IsKind(w.on[i], {"port"})
  BY <1>1, <1>2, <1>5 DEF Handles!IsKind, Handles!Known, KindsKept
<1>7. w.port => Len(w.on) = 1 /\ w.on[1] \in outp'[u] /\ 1 \in DOMAIN w.on
  BY <1>3 DEF Fits
<1>8. Fits(w.on, w.all, w.port, u)'
  BY <1>1, <1>2, <1>3, <1>4, <1>6, <1>7 DEF Fits
<1> QED  BY <1>8 DEF w

(* When one thread acts, what the others wait for still fits.              *)
LEMMA OthersFit ==
  ASSUME WInv, NEW t \in Threads, KindsKept,
         \A u \in Threads : outp[u] \subseteq outp'[u],
         \A u \in Threads \ {t} : /\ pend'[u] = pend[u] /\ multi'[u] = multi[u]
                                  /\ out'[u] = out[u],
         ~Handles!Runs(t)' => Fits(pend[t].on, pend[t].all, pend[t].port, t)',
         AskedFor(t)'
  PROVE  WaitsFit' /\ Handles!AsAsked'
<1>1. \A u \in Threads \ {t} : ~Handles!Runs(u)' => Fits(pend[u].on, pend[u].all, pend[u].port, u)'
  BY StillFits
<1>2. \A u \in Threads \ {t} : AskedFor(u)'
  BY DEF WInv, Handles!AsAsked, AskedFor
<1> QED  BY <1>1, <1>2 DEF WaitsFit, Handles!AsAsked, AskedFor

(* The first packet of a queue is handed to a thread, and is nowhere else. *)
LEMMA PacketTaken ==
  ASSUME WaitTypes, Handles!OnePlace, NEW t \in Threads, NEW h \in DOMAIN queue, queue[h] # <<>>,
         queue' = [queue EXCEPT ![h] = Tail(@)], out' = [out EXCEPT ![t] = Head(queue[h])],
         posted' = posted
  PROVE  /\ Handles!OnePlace'
         /\ queue' \in Seq(Seq(1 .. posted')) /\ Len(queue') = Len(queue)
         /\ out' \in [Threads -> Int] /\ \A u \in Threads : out'[u] <= posted'
<1>1. /\ \A g \in DOMAIN queue : queue[g] \in Seq(1 .. posted)
      /\ queue \in Seq(Seq(1 .. posted)) /\ posted \in Nat /\ out \in [Threads -> Int]
      /\ \A u \in Threads : out[u] <= posted
  BY DEF WaitTypes, PendTypes
<1>2. /\ Tail(queue[h]) \in Seq(1 .. posted)
      /\ DOMAIN Tail(queue[h]) = 1 .. Len(queue[h]) - 1 /\ Len(queue[h]) \in Nat
      /\ DOMAIN queue[h] = 1 .. Len(queue[h])
      /\ \A i \in DOMAIN Tail(queue[h]) :
           i + 1 \in DOMAIN queue[h] /\ i \in Nat /\ Tail(queue[h])[i] = queue[h][i + 1]
      /\ 1 \in DOMAIN queue[h] /\ Head(queue[h]) = queue[h][1] /\ Head(queue[h]) \in 1 .. posted
  <2>1. PICK q \in Seq(1 .. posted) : q = queue[h] /\ q # <<>>
    BY <1>1
  <2>2. /\ Tail(q) \in Seq(1 .. posted) /\ DOMAIN Tail(q) = 1 .. Len(q) - 1 /\ Len(q) \in Nat
        /\ DOMAIN q = 1 .. Len(q)
    BY <2>1
  <2>3. \A i \in DOMAIN Tail(q) : i + 1 \in DOMAIN q /\ i \in Nat /\ Tail(q)[i] = q[i + 1]
    <3> SUFFICES ASSUME NEW i \in 1 .. Len(q) - 1
                 PROVE  i + 1 \in 1 .. Len(q) /\ i \in Nat /\ Tail(q)[i] = q[i + 1]
      BY <2>2
    <3> QED  BY <2>1, <2>2
  <2>4. 1 \in DOMAIN q /\ Head(q) = q[1] /\ Head(q) \in 1 .. posted
    <3>1. Len(q) # 0
      BY <2>1
    <3>2. 1 \in 1 .. Len(q)
      BY <2>2, <3>1
    <3>3. Head(q) = q[1]
      BY <2>1
    <3>4. q \in [1 .. Len(q) -> 1 .. posted]
      BY <2>1, LenProperties, Zenon
    <3>5. q[1] \in 1 .. posted
      BY <3>2, <3>4, Zenon
    <3> QED  BY <2>2, <3>2, <3>3, <3>5, Zenon
  <2> QED  BY <2>1, <2>2, <2>3, <2>4
<1>3. DOMAIN queue' = DOMAIN queue /\ queue' \in Seq(Seq(1 .. posted)) /\ Len(queue') = Len(queue)
  BY <1>1, <1>2
<1>4. /\ queue'[h] = Tail(queue[h])
      /\ \A g \in DOMAIN queue \ {h} : queue'[g] = queue[g]
      /\ out'[t] = queue[h][1] /\ \A u \in Threads \ {t} : out'[u] = out[u]
  BY <1>1, <1>2
<1> DEFINE Old(g, i) == IF g = h THEN i + 1 ELSE i
<1>5. ASSUME NEW g \in DOMAIN queue, NEW i \in DOMAIN queue'[g]
      PROVE  /\ Old(g, i) \in DOMAIN queue[g] /\ queue'[g][i] = queue[g][Old(g, i)]
             /\ g = h => Old(g, i) # 1 /\ i \in Nat
  BY <1>1, <1>2, <1>4
<1>6. ASSUME NEW g \in DOMAIN queue, NEW k \in DOMAIN queue,
             NEW i \in DOMAIN queue'[g], NEW j \in DOMAIN queue'[k],
             queue'[g][i] = queue'[k][j]
      PROVE  g = k /\ i = j
  <2>1. g = k /\ Old(g, i) = Old(k, j)
    BY <1>5, <1>6 DEF Handles!OnePlace
  <2> QED  BY <1>5, <2>1
<1>7. ASSUME NEW u \in Threads, NEW k \in Threads, u # k, out'[u] > 0
      PROVE  out'[u] # out'[k]
  BY <1>1, <1>2, <1>4, <1>7 DEF Handles!OnePlace
<1>8. ASSUME NEW u \in Threads, NEW g \in DOMAIN queue, NEW i \in DOMAIN queue'[g], out'[u] > 0
      PROVE  out'[u] # queue'[g][i]
  <2>1. CASE u = t
    BY <1>2, <1>4, <1>5, <2>1 DEF Handles!OnePlace
  <2>2. CASE u # t
    BY <1>4, <1>5, <1>8, <2>2 DEF Handles!OnePlace
  <2> QED  BY <2>1, <2>2
<1>9. Handles!OnePlace'
  BY <1>3, <1>6, <1>7, <1>8 DEF Handles!OnePlace
<1>10. out' \in [Threads -> Int] /\ \A u \in Threads : out'[u] <= posted'
  BY <1>1, <1>2
<1> QED  BY <1>3, <1>9, <1>10

(* A mutex is held once it is taken: the signal goes when the holder comes.*)
LEMMA Mutexes ==
  ASSUME HeldOnce, DOMAIN held = Threads, DOMAIN held' = Threads, NEW t \in Threads,
         DOMAIN obj' = DOMAIN obj, misused' = misused,
         \A h \in DOMAIN obj : obj'[h].kind = obj[h].kind,
         \A u \in Threads \ {t} : held'[u] = held[u],
         NEW hs, \A h \in hs : /\ h \in DOMAIN obj /\ h \notin misused
                               /\ obj[h].kind = "mutex" /\ obj[h].n # 0,
         held'[t] = held[t] \cup hs,
         \A h \in DOMAIN obj \ misused : obj[h].kind = "mutex" =>
            obj'[h].n = IF h \in hs THEN 0 ELSE obj[h].n
  PROVE  HeldOnce'
<1>1. ASSUME NEW u \in Threads, NEW h \in held'[u]
      PROVE  /\ h \in DOMAIN obj' /\ obj'[h].kind = "mutex" /\ obj'[h].n = 0 /\ h \notin misused'
             /\ \A k \in Threads : h \in held'[k] => k = u
  <2>1. CASE h \in hs
    <3>1. \A k \in Threads : h \notin held[k]
      BY <2>1 DEF HeldOnce
    <3> QED  BY <2>1, <3>1
  <2>2. CASE h \notin hs
    <3>1. h \in held[u] /\ \A k \in Threads : h \in held'[k] => h \in held[k]
      BY <2>2
    <3>2. /\ h \in DOMAIN obj /\ h \notin misused /\ obj[h].kind = "mutex" /\ obj[h].n = 0
          /\ \A k \in Threads : h \in held[k] => k = u
      BY <3>1 DEF HeldOnce
    <3> QED  BY <2>2, <3>1, <3>2
  <2> QED  BY <2>1, <2>2
<1>2. ASSUME NEW h \in DOMAIN obj' \ misused', obj'[h].kind = "mutex"
      PROVE  obj'[h].n \in {0, 1} /\ (obj'[h].n = 0 => Held(h)')
  <2>1. CASE h \in hs
    BY <1>2, <2>1 DEF Held
  <2>2. CASE h \notin hs
    <3>1. obj'[h].n = obj[h].n /\ obj[h].kind = "mutex" /\ h \in DOMAIN obj
      BY <1>2, <2>2
    <3>2. \A u \in Threads : held[u] \subseteq held'[u]
      OBVIOUS
    <3> QED  BY <3>1, <3>2 DEF HeldOnce, Held
  <2> QED  BY <2>1, <2>2
<1> QED  BY <1>1, <1>2 DEF HeldOnce

(* A function on 1 .. n is a sequence.                                     *)
LEMMA Mapped ==
  ASSUME NEW T, NEW n \in Nat, NEW f \in [1 .. n -> T]
  PROVE  f \in Seq(T) /\ Len(f) = n
<1>1. f \in Seq(T)
  BY SeqDef
<1> QED  BY <1>1

(* Acquiring objects that are ready keeps objects, packets and mutexes.    *)
LEMMA AcquireKeeps ==
  ASSUME WInv, NEW t \in Threads, NEW won \in Seq(DOMAIN obj \cup {Handles!Unknown}), NEW hs,
         hs = Handles!Listed(won), NEW r, Handles!Acquire(t, won, r),
         \A h \in hs : h \in DOMAIN obj /\ Handles!Ready(h),
         \A h \in hs : Handles!IsKind(h, {"port"}) => hs = {h} /\ h \in outp[t],
         posted' = posted, outp' = outp, PendTypes', DOMAIN multi' = Threads
  PROVE  /\ WaitTypes' /\ HeldOnce' /\ Handles!OnePlace' /\ KindsKept
         /\ \A u \in Threads \ {t} : out'[u] = out[u]
         /\ (\A h \in hs : ~Handles!IsKind(h, {"port"})) => out' = out
<1>0. /\ obj \in Seq(Entry) /\ DOMAIN obj = 1 .. Len(obj) /\ Len(obj) \in Nat
      /\ Len(obj) <= MaxObjects /\ DOMAIN queue = DOMAIN obj /\ queue \in Seq(Seq(1 .. posted))
      /\ \A h \in DOMAIN obj : obj[h] \in Entry
      /\ out \in [Threads -> Int] /\ \A u \in Threads : out[u] <= posted
      /\ DOMAIN held = Threads /\ held \in [Threads -> SUBSET Handles!Handle]
  BY DEF WInv, WaitTypes, PendTypes
<1>1. MaxSema \in Nat \ {0} /\ MaxObjects \in Nat
  BY WaitsAssumption DEF Handles!WaitAssumption
<1> DEFINE after(h) == Handles!Taken(h, Handles!Times(won, h))
<1>2. ASSUME NEW h \in hs
      PROVE  /\ after(h) \in Entry /\ after(h).kind = obj[h].kind
             /\ obj[h].kind = "mutex" => after(h).n = 0
  <2>1. obj[h] \in Entry /\ obj[h].n \in 0 .. MaxSema
    BY <1>0 DEF Entry
  <2>2. Handles!Times(won, h) \in Nat
    BY TimesNat
  <2>3. PICK k \in Nat : after(h) = Handles!Taken(h, k)
    BY <2>2
  <2> HIDE DEF after
  <2>4. (IF obj[h].n < k THEN 0 ELSE obj[h].n - k) \in 0 .. MaxSema
    BY <1>1, <2>1
  <2> QED  BY <1>1, <2>1, <2>3, <2>4 DEF Handles!Taken, Entry
<1>3. /\ obj' = [h \in DOMAIN obj |-> IF h \in hs THEN after(h) ELSE obj[h]]
      /\ held' = [held EXCEPT ![t] = @ \cup {h \in hs : Handles!IsKind(h, {"mutex"}) /\ h \notin misused}]
      /\ eax' = [eax EXCEPT ![t] = r] /\ misused' = misused
  BY DEF Handles!Acquire
<1> HIDE DEF after
<1>4. obj' \in [DOMAIN obj -> Entry]
  BY <1>0, <1>2, <1>3
<1>5. obj' \in Seq(Entry) /\ Len(obj') = Len(obj) /\ DOMAIN obj' = DOMAIN obj
  <2>1. Len(obj) \in Nat /\ obj' \in [1 .. Len(obj) -> Entry]
    BY <1>0, <1>4
  <2>2. obj' \in Seq(Entry) /\ Len(obj') = Len(obj)
    BY <2>1, Mapped
  <2> QED  BY <1>4, <2>2
<1>6. \A h \in DOMAIN obj : obj'[h].kind = obj[h].kind
  BY <1>2, <1>3
<1>7. KindsKept
  BY <1>0, <1>1, <1>5, <1>6 DEF KindsKept, Handles!Handle
<1>8. HeldOnce'
  <2> DEFINE ms == {h \in hs : Handles!IsKind(h, {"mutex"}) /\ h \notin misused}
  <2>1. \A h \in ms : h \in DOMAIN obj /\ h \notin misused /\ obj[h].kind = "mutex" /\ obj[h].n # 0
    <3>1. \A h \in ms : h \in DOMAIN obj /\ h \notin misused /\ obj[h].kind = "mutex" /\ Handles!Ready(h)
      BY DEF Handles!IsKind
    <3>2. \A h \in DOMAIN obj : Handles!Ready(h) /\ obj[h].kind = "mutex" => obj[h].n > 0
      BY DEF Handles!Ready
    <3>3. \A h \in DOMAIN obj : obj[h].n > 0 => obj[h].n # 0
      BY <1>0 DEF Entry
    <3> QED  BY <3>1, <3>2, <3>3
  <2>2. \A h \in DOMAIN obj \ misused : obj[h].kind = "mutex" =>
            obj'[h].n = IF h \in ms THEN 0 ELSE obj[h].n
    BY <1>2, <1>3 DEF Handles!IsKind, Handles!Known
  <2>3. /\ held'[t] = held[t] \cup ms /\ DOMAIN held' = Threads
        /\ \A u \in Threads \ {t} : held'[u] = held[u]
    BY <1>0, <1>3
  <2> HIDE DEF ms
  <2> QED  BY <1>0, <1>3, <1>5, <1>6, <2>1, <2>2, <2>3, Mutexes DEF WInv
<1>9. /\ Handles!OnePlace' /\ queue' \in Seq(Seq(1 .. posted')) /\ Len(queue') = Len(queue)
      /\ out' \in [Threads -> Int] /\ \A u \in Threads : out'[u] <= posted'
      /\ \A u \in Threads \ {t} : out'[u] = out[u]
      /\ (\A h \in hs : ~Handles!IsKind(h, {"port"})) => out' = out
  <2>1. CASE \E h \in hs : Handles!IsKind(h, {"port"})
    <3>1. PICK h \in hs : Handles!IsKind(h, {"port"})
      BY <2>1
    <3>2. hs = {h} /\ h \in outp[t] /\ obj[h].kind = "port" /\ h \in DOMAIN obj
      BY <3>1 DEF Handles!IsKind
    <3>3. queue[h] # <<>>
      BY <3>2 DEF Handles!Ready
    <3>4. {g \in hs \cap outp[t] : Handles!IsKind(g, {"port"})} = {h}
      BY <3>1, <3>2
    <3>5. out' = [out EXCEPT ![t] = Head(queue[h])]
      BY <3>4 DEF Handles!Acquire
    <3>6. queue' = [queue EXCEPT ![h] = Tail(@)]
      BY <1>0, <3>2 DEF Handles!Acquire
    <3> QED  BY <1>0, <3>1, <3>2, <3>3, <3>5, <3>6, PacketTaken DEF WInv
  <2>2. CASE \A h \in hs : ~Handles!IsKind(h, {"port"})
    <3>1. {g \in hs \cap outp[t] : Handles!IsKind(g, {"port"})} = {}
      BY <2>2
    <3>2. out' = out
      BY <1>0, <3>1 DEF Handles!Acquire
    <3>3. \A h \in DOMAIN obj : ~(h \in hs /\ obj[h].kind = "port")
      BY <2>2 DEF Handles!IsKind, Handles!Known
    <3>4. queue' = queue
      BY <1>0, <3>3 DEF Handles!Acquire
    <3> QED  BY <1>0, <3>2, <3>4 DEF WInv, Handles!OnePlace
  <2> QED  BY <2>1, <2>2
<1>10. held' \in [Threads -> SUBSET Handles!Handle] /\ DOMAIN eax' = Threads
  <2>1. hs \subseteq Handles!Handle
    BY <1>0, <1>1 DEF Handles!Handle
  <2> QED  BY <1>0, <1>3, <2>1 DEF WInv, WaitTypes, PendTypes
<1>11. WaitTypes'
  BY <1>0, <1>3, <1>5, <1>9, <1>10 DEF WInv, WaitTypes, PendTypes, Entry, Handles!Handle
<1> QED  BY <1>7, <1>8, <1>9, <1>11

(* What SetTo leaves of the objects.                                       *)
LEMMA SetOne ==
  ASSUME WaitTypes, NEW h \in DOMAIN obj, NEW k \in 0 .. MaxSema, Handles!SetTo(h, k)
  PROVE  /\ obj' \in Seq(Entry) /\ Len(obj') = Len(obj) /\ DOMAIN obj' = DOMAIN obj /\ obj'[h].n = k
         /\ \A g \in DOMAIN obj : obj'[g].kind = obj[g].kind /\ (g # h => obj'[g] = obj[g])
<1>0. /\ obj \in Seq(Entry) /\ DOMAIN obj = 1 .. Len(obj) /\ Len(obj) \in Nat /\ obj[h] \in Entry
  BY DEF WaitTypes, PendTypes
<1>1. /\ obj' = [obj EXCEPT ![h].n = k] /\ [obj[h] EXCEPT !.n = k] \in Entry
      /\ [obj[h] EXCEPT !.n = k].kind = obj[h].kind /\ [obj[h] EXCEPT !.n = k].n = k
  BY <1>0 DEF Handles!SetTo, Entry
<1>2. PICK e \in Entry : obj' = [obj EXCEPT ![h] = e] /\ e.kind = obj[h].kind /\ e.n = k
  BY <1>1
<1> QED  BY <1>0, <1>2

(* What changes one object, and who holds it.                              *)
LEMMA SetKeeps ==
  ASSUME WInv, NEW h \in DOMAIN obj, NEW k \in 0 .. MaxSema, Handles!SetTo(h, k),
         UNCHANGED <<queue, posted, outp, out, pend, multi, eax>>,
         held' \in [Threads -> SUBSET Handles!Handle], misused' \subseteq DOMAIN obj, HeldOnce'
  PROVE  WInv'
<1>0. Len(obj) <= MaxObjects /\ DOMAIN obj = 1 .. Len(obj) /\ Len(obj) \in Nat
  BY DEF WInv, WaitTypes, PendTypes
<1>3. /\ obj' \in Seq(Entry) /\ Len(obj') = Len(obj) /\ DOMAIN obj' = DOMAIN obj
      /\ \A g \in DOMAIN obj : obj'[g].kind = obj[g].kind
  BY SetOne DEF WInv
<1>4. WaitTypes'
  BY <1>0, <1>3 DEF WInv, WaitTypes, PendTypes, Entry, Handles!Handle
<1>5. KindsKept
  BY <1>0, <1>3, WaitsAssumption DEF KindsKept, Handles!Handle, Handles!WaitAssumption
<1>7. Handles!OnePlace'
  BY DEF WInv, Handles!OnePlace
<1>8. WaitsFit' /\ Handles!AsAsked'
  BY <1>5, StillFits DEF WInv, WaitsFit, Handles!AsAsked
<1> QED  BY <1>4, <1>7, <1>8 DEF WInv

(* A mutex that is misused, or an object that is none and that is set,     *)
(* leaves the others their holders.                                        *)
LEMMA MisuseKeeps ==
  ASSUME WInv, NEW h \in DOMAIN obj, NEW k \in 0 .. MaxSema, Handles!SetTo(h, k), Handles!Misuse(h)
  PROVE  held' \in [Threads -> SUBSET Handles!Handle] /\ misused' \subseteq DOMAIN obj /\ HeldOnce'
<1>0. held \in [Threads -> SUBSET Handles!Handle] /\ misused \subseteq DOMAIN obj
  BY DEF WInv, WaitTypes
<1>1. /\ DOMAIN obj' = DOMAIN obj
      /\ \A g \in DOMAIN obj : obj'[g].kind = obj[g].kind /\ (g # h => obj'[g] = obj[g])
  BY SetOne DEF WInv
<1>2. CASE obj[h].kind = "mutex"
  <2>1. /\ misused' = misused \cup {h}
        /\ held' \in [Threads -> SUBSET Handles!Handle] /\ \A t \in Threads : held'[t] = held[t] \ {h}
    BY <1>0, <1>2 DEF Handles!Misuse
  <2>2. \A g : g # h /\ Held(g) => Held(g)'
    BY <2>1 DEF Held
  <2>3. HeldOnce'
    BY <1>1, <2>1, <2>2 DEF WInv, HeldOnce
  <2> QED  BY <1>0, <2>1, <2>3
<1>3. CASE obj[h].kind # "mutex"
  <2>1. UNCHANGED <<misused, held>>
    BY <1>3 DEF Handles!Misuse
  <2>2. \A g : Held(g) => Held(g)'
    BY <2>1 DEF Held
  <2>3. HeldOnce'
    BY <1>1, <1>3, <2>1, <2>2 DEF WInv, HeldOnce
  <2> QED  BY <1>0, <2>1, <2>3
<1> QED  BY <1>2, <1>3

(* The calls that make, set, reset and release objects,                    *)
LEMMA CreateKeeps ==
  ASSUME WInv, NEW t \in Threads, NEW kind \in Makes, NEW n \in {0, 1}, Handles!Create(t, kind, n)
  PROVE  WInv'
<1> DEFINE e == [kind |-> kind, n |-> n]
           h == Len(obj) + 1
<1>0. /\ obj \in Seq(Entry) /\ DOMAIN obj = 1 .. Len(obj) /\ Len(obj) \in Nat
      /\ queue \in Seq(Seq(1 .. posted)) /\ Len(queue) = Len(obj) /\ posted \in Nat
      /\ Len(obj) < MaxObjects /\ held \in [Threads -> SUBSET Handles!Handle]
      /\ DOMAIN queue = DOMAIN obj /\ misused \subseteq DOMAIN obj /\ misused' = misused
  BY DEF WInv, WaitTypes, PendTypes, Handles!Create
<1>1. e \in Entry /\ h \in Handles!Handle /\ h \notin DOMAIN obj
  BY <1>0, WaitsAssumption DEF Entry, Handles!Handle, Handles!WaitAssumption
<1>2. obj' = Append(obj, e) /\ queue' = Append(queue, <<>>)
  BY DEF Handles!Create
<1>3. e.kind = kind /\ e.n = n
  OBVIOUS
<1> HIDE DEF e
<1>4. /\ obj' \in Seq(Entry) /\ Len(obj') = Len(obj) + 1 /\ DOMAIN obj' = DOMAIN obj \cup {h}
      /\ \A g \in DOMAIN obj : obj'[g] = obj[g]
      /\ obj'[h] = e
  BY <1>0, <1>1, <1>2
<1>5. /\ queue' \in Seq(Seq(1 .. posted)) /\ Len(queue') = Len(obj) + 1
      /\ DOMAIN queue' = DOMAIN queue \cup {h}
      /\ \A g \in DOMAIN queue : queue'[g] = queue[g]
      /\ DOMAIN queue'[h] = {}
  <2>1. <<>> \in Seq(1 .. posted)
    OBVIOUS
  <2> QED  BY <1>0, <1>2, <2>1
<1>6. KindsKept
  BY <1>0, <1>1, <1>4, WaitsAssumption DEF KindsKept, Handles!Handle, Handles!WaitAssumption
<1>7. held' = IF kind = "mutex" /\ n = 0 THEN [held EXCEPT ![t] = @ \cup {h}] ELSE held
  BY DEF Handles!Create
<1>8. held' \in [Threads -> SUBSET Handles!Handle]
  BY <1>0, <1>1, <1>7
<1>9. WaitTypes'
  BY <1>0, <1>4, <1>5, <1>8, WaitsAssumption
  DEF WInv, WaitTypes, PendTypes, Handles!Create, Entry, Handles!Handle,
      Handles!WaitAssumption
<1>10. \A u \in Threads : h \notin held[u]
  BY <1>1 DEF WInv, HeldOnce
<1>11. HeldOnce'
  <2>1. ASSUME NEW u \in Threads, NEW g \in held'[u]
        PROVE  /\ g \in DOMAIN obj' /\ obj'[g].kind = "mutex" /\ obj'[g].n = 0 /\ g \notin misused'
               /\ \A k \in Threads : g \in held'[k] => k = u
    <3>1. CASE g = h
      <4>1. kind = "mutex" /\ n = 0 /\ \A k \in Threads : h \in held'[k] => k = t
        BY <1>0, <1>7, <1>10, <2>1, <3>1
      <4> QED  BY <1>0, <1>1, <1>3, <1>4, <2>1, <3>1, <4>1
    <3>2. CASE g # h
      <4>1. g \in held[u] /\ \A k \in Threads : g \in held'[k] => g \in held[k]
        BY <1>0, <1>7, <2>1, <3>2
      <4> QED  BY <1>0, <1>4, <4>1 DEF WInv, HeldOnce
    <3> QED  BY <3>1, <3>2
  <2>2. ASSUME NEW g \in DOMAIN obj' \ misused', obj'[g].kind = "mutex"
        PROVE  obj'[g].n \in {0, 1} /\ (obj'[g].n = 0 => Held(g)')
    <3>1. CASE g = h
      <4>1. n = 0 => h \in held'[t]
        BY <1>0, <1>3, <1>4, <1>7, <2>2, <3>1
      <4> QED  BY <1>3, <1>4, <3>1, <4>1 DEF Held
    <3>2. CASE g # h
      <4>1. \A u \in Threads : held[u] \subseteq held'[u]
        BY <1>0, <1>7
      <4> QED  BY <1>0, <1>4, <2>2, <3>2, <4>1 DEF WInv, HeldOnce, Held
    <3> QED  BY <3>1, <3>2
  <2> QED  BY <2>1, <2>2 DEF HeldOnce
<1>12. Handles!OnePlace'
  BY <1>5 DEF WInv, Handles!OnePlace, Handles!Create
<1>13. WaitsFit' /\ Handles!AsAsked'
  BY <1>6, StillFits DEF WInv, WaitsFit, Handles!AsAsked, Handles!Create
<1> QED  BY <1>9, <1>11, <1>12, <1>13 DEF WInv

(* Signalling an object, or clearing it, keeps the invariant of the waits. *)
LEMMA SetsKeep ==
  ASSUME WInv, NEW t \in Threads, NEW h \in Handles!Handle,
         Handles!SetEvent(t, h) \/ Handles!ResetEvent(t, h) \/ \E k \in 1 .. 2 : Handles!ReleaseSemaphore(t, h, k)
  PROVE  WInv'
<1>1. 0 \in 0 .. MaxSema /\ 1 \in 0 .. MaxSema
  BY WaitsAssumption DEF Handles!WaitAssumption
<1>2. ASSUME NEW k \in {0, 1}, Handles!Known(h), Handles!SetTo(h, k), Handles!Misuse(h),
             UNCHANGED <<queue, posted, outp, out, pend, multi, eax>>
      PROVE  WInv'
  BY <1>1, <1>2, SetKeeps, MisuseKeeps DEF Handles!Known
<1>3. CASE Handles!SetEvent(t, h) \/ Handles!ResetEvent(t, h)
  BY <1>2, <1>3 DEF Handles!SetEvent, Handles!ResetEvent, Handles!IsKind
<1>4. ASSUME NEW k \in 1 .. 2, Handles!ReleaseSemaphore(t, h, k)
      PROVE  WInv'
  <2>1. h \in DOMAIN obj /\ obj[h].kind = "sema" /\ Handles!Sum(h, k) <= MaxSema
    BY <1>4 DEF Handles!ReleaseSemaphore, Handles!IsKind, Handles!Known
  <2>2. Handles!Sum(h, k) \in 0 .. MaxSema
    <3>0. obj[h] \in Entry
      BY <2>1 DEF WInv, WaitTypes, PendTypes
    <3>1. obj[h].n \in 0 .. MaxSema
      BY <3>0 DEF Entry
    <3> QED  BY <2>1, <3>1, WaitsAssumption DEF Handles!Sum, Handles!WaitAssumption
  <2>3. Handles!SetTo(h, Handles!Sum(h, k)) /\ UNCHANGED <<queue, posted, outp, out, pend, multi, eax, held, misused>>
    BY <1>4 DEF Handles!ReleaseSemaphore
  <2>4. Handles!Misuse(h)
    BY <2>1, <2>3 DEF Handles!Misuse
  <2> HIDE DEF Handles!Sum
  <2> QED  BY <2>1, <2>2, <2>3, <2>4, SetKeeps, MisuseKeeps
<1> QED  BY <1>3, <1>4

(* Releasing a mutex keeps it: its holder gives the signal back, or it is  *)
(* misused.                                                                *)
LEMMA ReleaseKeeps ==
  ASSUME WInv, NEW t \in Threads, NEW h \in Handles!Handle, Handles!ReleaseMutex(t, h)
  PROVE  WInv'
<1>0. /\ h \in DOMAIN obj /\ 1 \in 0 .. MaxSema /\ held \in [Threads -> SUBSET Handles!Handle]
      /\ misused \subseteq DOMAIN obj
  BY WaitsAssumption
  DEF WInv, WaitTypes, Handles!ReleaseMutex, Handles!IsKind, Handles!Known, Handles!WaitAssumption
<1>1. /\ Handles!SetTo(h, 1) /\ UNCHANGED <<queue, posted, outp, out, pend, multi, eax>>
      /\ \/ h \in held[t] /\ held' = [held EXCEPT ![t] = @ \ {h}] /\ misused' = misused
         \/ h \notin held[t] /\ Handles!Misuse(h)
  BY DEF Handles!ReleaseMutex
<1>2. CASE h \in held[t] /\ held' = [held EXCEPT ![t] = @ \ {h}] /\ misused' = misused
  <2>1. /\ DOMAIN obj' = DOMAIN obj /\ obj'[h].n = 1
        /\ \A g \in DOMAIN obj : obj'[g].kind = obj[g].kind /\ (g # h => obj'[g] = obj[g])
    BY <1>0, <1>1, SetOne DEF WInv
  <2>2. /\ held' \in [Threads -> SUBSET Handles!Handle] /\ h \notin held'[t]
        /\ \A u \in Threads \ {t} : held'[u] = held[u]
        /\ \A u \in Threads : \A g : g # h => (g \in held'[u] <=> g \in held[u])
    BY <1>0, <1>2
  <2>3. \A u \in Threads : h \notin held'[u]
    BY <1>2, <2>2 DEF WInv, HeldOnce
  <2>4. \A g : g # h /\ Held(g) => Held(g)'
    BY <2>2 DEF Held
  <2>5. ASSUME NEW u \in Threads, NEW g \in held'[u]
        PROVE  /\ g \in DOMAIN obj' /\ obj'[g].kind = "mutex" /\ obj'[g].n = 0 /\ g \notin misused'
               /\ \A k \in Threads : g \in held'[k] => k = u
    BY <1>2, <2>1, <2>2, <2>3 DEF WInv, HeldOnce
  <2>6. ASSUME NEW g \in DOMAIN obj' \ misused', obj'[g].kind = "mutex"
        PROVE  obj'[g].n \in {0, 1} /\ (obj'[g].n = 0 => Held(g)')
    BY <1>2, <2>1, <2>4, <2>6 DEF WInv, HeldOnce
  <2>7. HeldOnce'
    BY <2>5, <2>6 DEF HeldOnce
  <2> QED  BY <1>0, <1>1, <1>2, <2>2, <2>7, SetKeeps
<1>3. CASE h \notin held[t] /\ Handles!Misuse(h)
  BY <1>0, <1>1, <1>3, SetKeeps, MisuseKeeps
<1> QED  BY <1>1, <1>2, <1>3

(* A wait that is satisfied at once, that only asks, or that parks.        *)
LEMMA ParkKeeps ==
  ASSUME WInv, NEW t \in Threads, Handles!Runs(t),
         NEW on \in Seq(DOMAIN obj \cup {Handles!Unknown}), on # <<>>, NEW all \in BOOLEAN,
         all => Len(on) > 1, \A i \in DOMAIN on : ~Handles!IsKind(on[i], {"port"}),
         NEW zero, Handles!Wait(t, on, all, zero, Handles!TimedOut), UNCHANGED <<posted, outp>>,
         DOMAIN multi' = Threads, \A u \in Threads \ {t} : multi'[u] = multi[u],
         pend'[t] # Handles!Awake /\ Len(on) > 1 => multi'[t] = [objs |-> on, all |-> all]
  PROVE  WInv'
<1>0. DOMAIN pend = Threads /\ DOMAIN eax = Threads /\ Len(Handles!Awake.on) = 0 /\ Handles!Awake.port = FALSE
  BY DEF WInv, WaitTypes, PendTypes, Handles!Awake
<1>1. CASE Handles!CanTake(on, all) /\ Handles!Acquire(t, Handles!Won(on, all), IF all THEN 0 ELSE Handles!First(on) - 1)
           /\ UNCHANGED pend
  <2> DEFINE won == Handles!Won(on, all)
             hs == Handles!Listed(won)
             r  == IF all THEN 0 ELSE Handles!First(on) - 1
  <2>1. /\ won \in Seq(DOMAIN obj \cup {Handles!Unknown})
        /\ \A h \in hs : h \in DOMAIN obj /\ Handles!Ready(h) /\ ~Handles!IsKind(h, {"port"})
    BY <1>1, WonReady DEF WInv
  <2>2. Handles!Acquire(t, won, r) /\ PendTypes' /\ hs = Handles!Listed(won)
    BY <1>1 DEF WInv, WaitTypes, PendTypes
  <2> HIDE DEF won, hs, r
  <2>3. WaitTypes' /\ HeldOnce' /\ Handles!OnePlace' /\ KindsKept /\ out' = out
    BY <2>1, <2>2, AcquireKeeps
  <2>4. Handles!Runs(t)' /\ AskedFor(t)'
    BY <1>0, <1>1 DEF Handles!Runs, AskedFor
  <2>5. WaitsFit' /\ Handles!AsAsked'
    BY <1>1, <2>3, <2>4, OthersFit
  <2> QED  BY <2>3, <2>5 DEF WInv
<1>2. CASE /\ UNCHANGED <<obj, queue, out, held, misused, pend>>
           /\ eax' = [eax EXCEPT ![t] = Handles!TimedOut]
  <2>1. Handles!Runs(t)' /\ AskedFor(t)'
    BY <1>0, <1>2 DEF Handles!Runs, AskedFor
  <2>2. WaitTypes' /\ HeldOnce' /\ Handles!OnePlace'
    BY <1>2 DEF WInv, WaitTypes, PendTypes, HeldOnce, Held, Handles!OnePlace
  <2>3. KindsKept
    BY <1>2, WaitsAssumption
    DEF KindsKept, WInv, WaitTypes, PendTypes, Handles!Handle, Handles!WaitAssumption
  <2>4. WaitsFit' /\ Handles!AsAsked'
    BY <1>2, <2>1, <2>3, OthersFit
  <2> QED  BY <2>2, <2>4 DEF WInv
<1>3. CASE /\ pend' = [pend EXCEPT ![t] = [on |-> on, all |-> all, expired |-> Handles!TimedOut, port |-> FALSE]]
           /\ eax' = [eax EXCEPT ![t] = 0] /\ UNCHANGED <<obj, queue, out, held, misused>>
  <2>1. /\ pend'[t].on = on /\ pend'[t].all = all /\ pend'[t].port = FALSE
        /\ pend'[t].expired = Handles!TimedOut
        /\ pend'[t] = [on |-> on, all |-> all, expired |-> Handles!TimedOut, port |-> FALSE]
        /\ \A u \in Threads \ {t} : pend'[u] = pend[u]
        /\ DOMAIN pend' = Threads
    BY <1>0, <1>3
  <2>2. WaitTypes' /\ HeldOnce' /\ Handles!OnePlace'
    BY <1>3, <2>1 DEF WInv, WaitTypes, PendTypes, HeldOnce, Held, Handles!OnePlace
  <2>3. KindsKept
    BY <1>3, WaitsAssumption
    DEF KindsKept, WInv, WaitTypes, PendTypes, Handles!Handle, Handles!WaitAssumption
  <2>4. \A i \in DOMAIN on : ~Handles!IsKind(on[i], {"port"})'
    BY <1>3 DEF Handles!IsKind, Handles!Known
  <2>5. Fits(pend[t].on, pend[t].all, pend[t].port, t)'
    BY <1>3, <2>1, <2>4 DEF Fits, Handles!Unknown
  <2>6. Len(on) > 1 => pend'[t] # Handles!Awake
    <3>1. Handles!Awake.on # on
      BY DEF Handles!Awake
    <3> QED  BY <2>1, <3>1
  <2>7. AskedFor(t)'
    BY <2>1, <2>6 DEF AskedFor
  <2>8. \A u \in Threads \ {t} : pend'[u] = pend[u] /\ multi'[u] = multi[u] /\ out'[u] = out[u]
    BY <1>3, <2>1
  <2>9. WaitsFit' /\ Handles!AsAsked'
    BY <2>3, <2>5, <2>7, <2>8, OthersFit
  <2> QED  BY <2>2, <2>9 DEF WInv
<1> QED  BY <1>1, <1>2, <1>3 DEF Handles!Wait

(* Starting a wait, for one handle or for two, keeps it.                   *)
LEMMA WaitsKeep ==
  ASSUME WInv, NEW t \in Threads
  PROVE  /\ \A h \in 1 .. Handles!Unknown, zero \in BOOLEAN : Handles!WaitSingle(t, h, zero) => WInv'
         /\ \A h \in 1 .. Handles!Unknown, g \in 1 .. Handles!Unknown, all \in BOOLEAN, zero \in BOOLEAN :
              Handles!WaitMultiple(t, <<h, g>>, all, zero) => WInv'
         /\ Handles!Sleep(t) => WInv'
<1>0. DOMAIN multi = Threads /\ DOMAIN eax = Threads /\ DOMAIN pend = Threads
      /\ obj \in Seq(Entry) /\ DOMAIN obj = 1 .. Len(obj) /\ Len(obj) \in Nat /\ Len(obj) <= MaxObjects
  BY DEF WInv, WaitTypes, PendTypes
<1>1. ASSUME NEW h \in 1 .. Handles!Unknown, NEW zero \in BOOLEAN, Handles!WaitSingle(t, h, zero)
      PROVE  WInv'
  <2>1. CASE Handles!Known(h)
    <3> DEFINE on == <<h>>
    <3>1. /\ on \in Seq(DOMAIN obj \cup {Handles!Unknown}) /\ on # <<>> /\ Len(on) = 1
          /\ \A i \in DOMAIN on : on[i] = h
      BY <2>1 DEF Handles!Known
    <3>2. /\ Handles!Runs(t) /\ ~Handles!IsKind(h, {"port"}) /\ UNCHANGED <<posted, outp, multi>>
          /\ Handles!Wait(t, on, FALSE, zero, Handles!TimedOut)
      BY <1>1, <2>1 DEF Handles!WaitSingle
    <3> HIDE DEF on
    <3>3. /\ \A i \in DOMAIN on : ~Handles!IsKind(on[i], {"port"})
          /\ UNCHANGED <<posted, outp>> /\ DOMAIN multi' = Threads
          /\ \A u \in Threads \ {t} : multi'[u] = multi[u]
          /\ pend'[t] # Handles!Awake /\ Len(on) > 1 => multi'[t] = [objs |-> on, all |-> FALSE]
      BY <1>0, <3>1, <3>2
    <3> QED  BY <3>1, <3>2, <3>3, ParkKeeps, Zenon
  <2>2. CASE ~Handles!Known(h)
    <3>1. UNCHANGED <<obj, queue, posted, outp, out, pend, held, misused, multi>> /\ eax' = [eax EXCEPT ![t] = 0]
      BY <1>1, <2>2 DEF Handles!WaitSingle
    <3>2. WaitTypes' /\ HeldOnce' /\ Handles!OnePlace' /\ Handles!AsAsked'
      BY <3>1 DEF WInv, WaitTypes, PendTypes, HeldOnce, Held, Handles!OnePlace, Handles!AsAsked
    <3>3. KindsKept
      BY <1>0, <3>1, WaitsAssumption DEF KindsKept, Handles!Handle, Handles!WaitAssumption
    <3> QED  BY <3>1, <3>2, <3>3, StillFits DEF WInv, WaitsFit
  <2> QED  BY <2>1, <2>2
<1>2. ASSUME NEW h \in 1 .. Handles!Unknown, NEW g \in 1 .. Handles!Unknown, NEW all \in BOOLEAN,
             NEW zero \in BOOLEAN, Handles!WaitMultiple(t, <<h, g>>, all, zero)
      PROVE  WInv'
  <2> DEFINE on == Handles!Resolved(<<h, g>>)
  <2>1. on = <<IF Handles!Known(h) THEN h ELSE Handles!Unknown, IF Handles!Known(g) THEN g ELSE Handles!Unknown>>
    BY DEF Handles!Resolved
  <2>2. on \in Seq(DOMAIN obj \cup {Handles!Unknown}) /\ on # <<>> /\ Len(on) = 2
    <3>1. PICK x \in DOMAIN obj \cup {Handles!Unknown}, y \in DOMAIN obj \cup {Handles!Unknown} : on = <<x, y>>
      BY <2>1 DEF Handles!Known
    <3>2. <<x, y>> \in Seq(DOMAIN obj \cup {Handles!Unknown}) /\ <<x, y>> # <<>> /\ Len(<<x, y>>) = 2
      OBVIOUS
    <3> QED  BY <3>1, <3>2
  <2>3. ~Handles!IsKind(h, {"port"}) /\ ~Handles!IsKind(g, {"port"})
    BY <1>2 DEF Handles!WaitMultiple
  <2>4. Handles!Unknown \notin DOMAIN obj
    BY <1>0, WaitsAssumption DEF Handles!Unknown, Handles!WaitAssumption
  <2>5. \A i \in DOMAIN on : ~Handles!IsKind(on[i], {"port"})
    BY <2>1, <2>3, <2>4 DEF Handles!IsKind, Handles!Known
  <2>6. /\ Handles!Runs(t) /\ Handles!Wait(t, on, all, zero, Handles!TimedOut) /\ UNCHANGED <<posted, outp>>
        /\ multi' = IF pend'[t] = Handles!Awake THEN multi
                    ELSE [multi EXCEPT ![t] = [objs |-> on, all |-> all]]
    BY <1>2 DEF Handles!WaitMultiple
  <2> HIDE DEF on
  <2>7. /\ DOMAIN multi' = Threads /\ \A u \in Threads \ {t} : multi'[u] = multi[u]
        /\ pend'[t] # Handles!Awake /\ Len(on) > 1 => multi'[t] = [objs |-> on, all |-> all]
    BY <1>0, <2>6
  <2>8. /\ on \in Seq(DOMAIN obj \cup {Handles!Unknown}) /\ on # <<>> /\ (all => Len(on) > 1)
        /\ Handles!Runs(t) /\ Handles!Wait(t, on, all, zero, Handles!TimedOut) /\ UNCHANGED <<posted, outp>>
    BY <2>2, <2>6
  <2> QED  BY <2>5, <2>7, <2>8, ParkKeeps, Zenon
<1>3. ASSUME Handles!Sleep(t)
      PROVE  WInv'
  <2>1. /\ Handles!Runs(t) /\ UNCHANGED <<obj, queue, posted, outp, out, multi, held, misused>>
        /\ eax' = [eax EXCEPT ![t] = 0]
        /\ pend' = [pend EXCEPT ![t] = [on |-> <<Handles!Unknown>>, all |-> FALSE,
                                        expired |-> Handles!TimedOut, port |-> FALSE]]
    BY <1>3 DEF Handles!Sleep
  <2>2. Handles!Unknown \notin DOMAIN obj
    BY <1>0, WaitsAssumption DEF Handles!Unknown, Handles!WaitAssumption
  <2>3. /\ <<Handles!Unknown>> \in Seq(DOMAIN obj \cup {Handles!Unknown}) /\ <<Handles!Unknown>> # <<>>
        /\ Len(<<Handles!Unknown>>) = 1 /\ \A i \in DOMAIN <<Handles!Unknown>> : <<Handles!Unknown>>[i] = Handles!Unknown
    OBVIOUS
  <2>4. /\ pend'[t].on = <<Handles!Unknown>> /\ pend'[t].all = FALSE /\ pend'[t].port = FALSE
        /\ \A u \in Threads \ {t} : pend'[u] = pend[u]
        /\ DOMAIN pend' = Threads
    BY <1>0, <2>1
  <2>5. WaitTypes' /\ HeldOnce' /\ Handles!OnePlace'
    BY <2>1, <2>4 DEF WInv, WaitTypes, PendTypes, HeldOnce, Held, Handles!OnePlace
  <2>6. KindsKept
    BY <1>0, <2>1, WaitsAssumption DEF KindsKept, Handles!Handle, Handles!WaitAssumption
  <2>7. Fits(pend[t].on, pend[t].all, pend[t].port, t)'
    BY <2>1, <2>2, <2>3, <2>4 DEF Fits, Handles!Unknown, Handles!IsKind, Handles!Known
  <2>8. AskedFor(t)'
    BY <2>3, <2>4 DEF AskedFor
  <2>9. WaitsFit' /\ Handles!AsAsked'
    BY <2>1, <2>4, <2>6, <2>7, <2>8, OthersFit
  <2> QED  BY <2>5, <2>9 DEF WInv
<1> QED  BY <1>1, <1>2, <1>3

(* A sequence of members of a set is one of members of a larger set.       *)
LEMMA SeqGrows ==
  ASSUME NEW S, NEW T, S \subseteq T, NEW s \in Seq(S)
  PROVE  s \in Seq(T)
OBVIOUS

(* The calls on a port, which park a thread on one handle or post a        *)
(* packet, keep it.                                                        *)
LEMMA QueuesKeep ==
  ASSUME WInv, NEW t \in Threads
  PROVE  /\ \A h \in 1 .. Handles!Unknown, zero \in BOOLEAN : Handles!GetQueued(t, h, zero) => WInv'
         /\ \A h \in Handles!Handle : Handles!PostQueued(t, h) => WInv'
<1>0. /\ DOMAIN eax = Threads /\ DOMAIN pend = Threads /\ DOMAIN multi = Threads
      /\ obj \in Seq(Entry) /\ DOMAIN obj = 1 .. Len(obj) /\ Len(obj) \in Nat /\ Len(obj) <= MaxObjects
      /\ queue \in Seq(Seq(1 .. posted)) /\ Len(queue) = Len(obj) /\ DOMAIN queue = DOMAIN obj
      /\ posted \in Nat /\ out \in [Threads -> Int] /\ \A u \in Threads : out[u] <= posted
      /\ outp \in [Threads -> SUBSET Handles!Handle]
  BY DEF WInv, WaitTypes, PendTypes
<1>1. ASSUME NEW h \in 1 .. Handles!Unknown, NEW zero \in BOOLEAN, Handles!GetQueued(t, h, zero)
      PROVE  WInv'
  <2>1. /\ Handles!Runs(t) /\ Handles!IsKind(h, {"port"}) /\ h \in DOMAIN obj /\ obj[h].kind = "port"
        /\ outp' = [outp EXCEPT ![t] = @ \cup {h}] /\ UNCHANGED <<posted, multi, held, misused, obj>>
    BY <1>1 DEF Handles!GetQueued, Handles!IsKind, Handles!Known
  <2>2. /\ outp' \in [Threads -> SUBSET Handles!Handle] /\ \A u \in Threads : outp[u] \subseteq outp'[u]
        /\ h \in outp'[t]
    BY <1>0, <2>1, WaitsAssumption DEF Handles!Handle, Handles!WaitAssumption
  <2>3. HeldOnce' /\ KindsKept
    BY <1>0, <2>1, WaitsAssumption
    DEF WInv, HeldOnce, Held, KindsKept, Handles!Handle, Handles!WaitAssumption
  <2>4. CASE queue[h] # <<>>
    <3>1. /\ out' = [out EXCEPT ![t] = Head(queue[h])] /\ queue' = [queue EXCEPT ![h] = Tail(@)]
          /\ eax' = [eax EXCEPT ![t] = 1] /\ pend' = pend
      BY <1>1, <2>4 DEF Handles!GetQueued
    <3>2. /\ Handles!OnePlace' /\ queue' \in Seq(Seq(1 .. posted')) /\ Len(queue') = Len(queue)
          /\ out' \in [Threads -> Int] /\ \A u \in Threads : out'[u] <= posted'
      BY <1>0, <2>1, <2>4, <3>1, PacketTaken DEF WInv
    <3>3. WaitTypes'
      BY <1>0, <2>1, <2>2, <3>1, <3>2 DEF WInv, WaitTypes, PendTypes, Entry, Handles!Handle
    <3>4. Handles!Runs(t)' /\ AskedFor(t)'
      BY <2>1, <3>1 DEF Handles!Runs, AskedFor, Handles!Awake
    <3>5. \A u \in Threads \ {t} : pend'[u] = pend[u] /\ multi'[u] = multi[u] /\ out'[u] = out[u]
      BY <1>0, <2>1, <3>1
    <3>6. WaitsFit' /\ Handles!AsAsked'
      BY <2>2, <2>3, <3>4, <3>5, OthersFit
    <3> QED  BY <2>3, <3>2, <3>3, <3>6 DEF WInv
  <2>5. CASE queue[h] = <<>>
    <3>1. /\ out' = [out EXCEPT ![t] = 0] /\ queue' = queue
          /\ eax' = [eax EXCEPT ![t] = 0]
          /\ \/ pend' = pend
             \/ pend' = [pend EXCEPT ![t] = [on |-> <<h>>, all |-> FALSE, expired |-> 0, port |-> TRUE]]
      BY <1>1, <2>5
      DEF Handles!GetQueued, Handles!WhileWaiting, Handles!PreWritten, Handles!Null
    <3>2. /\ out'[t] = 0 /\ \A u \in Threads \ {t} : out'[u] = out[u]
          /\ out' \in [Threads -> Int] /\ \A u \in Threads : out'[u] <= posted
      BY <1>0, <3>1
    <3>3. Handles!OnePlace'
      BY <3>1, <3>2 DEF WInv, Handles!OnePlace
    <3>8. PendTypes'
      <4>1. CASE pend' = pend
        BY <4>1 DEF WInv, WaitTypes, PendTypes
      <4>2. CASE pend' = [pend EXCEPT ![t] = [on |-> <<h>>, all |-> FALSE, expired |-> 0, port |-> TRUE]]
        <5> DEFINE w == [on |-> <<h>>, all |-> FALSE, expired |-> 0, port |-> TRUE]
        <5>1. pend' = [pend EXCEPT ![t] = w] /\ w.all = FALSE
          BY <4>2
        <5> HIDE DEF w
        <5>2. pend'[t] = w /\ DOMAIN pend' = Threads /\ \A u \in Threads \ {t} : pend'[u] = pend[u]
          BY <1>0, <5>1
        <5> QED  BY <5>1, <5>2 DEF WInv, WaitTypes, PendTypes
      <4> QED  BY <3>1, <4>1, <4>2
    <3>9. DOMAIN eax' = Threads
      BY <1>0, <3>1
    <3>4. WaitTypes'
      BY <1>0, <2>1, <2>2, <3>1, <3>2, <3>8, <3>9 DEF WInv, WaitTypes, Entry, Handles!Handle
    <3>5. \A u \in Threads \ {t} : pend'[u] = pend[u] /\ multi'[u] = multi[u]
      BY <1>0, <2>1, <3>1
    <3>6. (~Handles!Runs(t)' => Fits(pend[t].on, pend[t].all, pend[t].port, t)') /\ AskedFor(t)'
      <4>1. CASE pend' = pend
        BY <2>1, <4>1 DEF Handles!Runs, AskedFor, Handles!Awake
      <4>2. CASE pend' = [pend EXCEPT ![t] = [on |-> <<h>>, all |-> FALSE, expired |-> 0, port |-> TRUE]]
        <5> DEFINE on == <<h>>
        <5>1. pend'[t].on = on /\ pend'[t].all = FALSE /\ pend'[t].port = TRUE
          BY <1>0, <4>2
        <5>2. /\ on \in Seq(DOMAIN obj' \cup {Handles!Unknown'}) /\ Len(on) = 1 /\ on[1] = h
              /\ on # <<>> /\ ~(Len(on) > 1)
          BY <2>1
        <5> HIDE DEF on
        <5>3. Handles!IsKind(h, {"port"})'
          BY <2>1 DEF Handles!IsKind, Handles!Known
        <5> QED  BY <2>2, <3>2, <5>1, <5>2, <5>3 DEF Fits, AskedFor, Handles!Null
      <4> QED  BY <3>1, <4>1, <4>2
    <3>7. WaitsFit' /\ Handles!AsAsked'
      BY <2>2, <2>3, <3>2, <3>5, <3>6, OthersFit
    <3> QED  BY <2>3, <3>3, <3>4, <3>7 DEF WInv
  <2> QED  BY <2>4, <2>5
<1>2. ASSUME NEW h \in Handles!Handle, Handles!PostQueued(t, h)
      PROVE  WInv'
  <2> DEFINE p == posted + 1
  <2>1. /\ h \in DOMAIN queue /\ posted' = p /\ queue' = [queue EXCEPT ![h] = Append(@, p)]
        /\ UNCHANGED <<obj, outp, out, pend, multi, eax, held, misused>> /\ p \in Nat /\ posted < p
    BY <1>0, <1>2 DEF Handles!PostQueued, Handles!IsKind, Handles!Known
  <2> HIDE DEF p
  <2>2. /\ \A g \in DOMAIN queue : queue[g] \in Seq(1 .. posted)
        /\ \A g \in DOMAIN queue : \A i \in DOMAIN queue[g] : queue[g][i] \in 1 .. posted
        /\ queue \in Seq(Seq(1 .. p))
    <3>1. 1 .. posted \subseteq 1 .. p
      BY <1>0, <2>1
    <3>2. ASSUME NEW s \in Seq(1 .. posted)
          PROVE  s \in Seq(1 .. p)
      BY <3>1, SeqGrows
    <3> QED  BY <1>0, <3>2
  <2>3. /\ Append(queue[h], p) \in Seq(1 .. p)
        /\ DOMAIN Append(queue[h], p) = 1 .. Len(queue[h]) + 1
        /\ DOMAIN queue[h] = 1 .. Len(queue[h]) /\ Len(queue[h]) \in Nat
        /\ \A i \in DOMAIN queue[h] : Append(queue[h], p)[i] = queue[h][i]
        /\ Append(queue[h], p)[Len(queue[h]) + 1] = p
    <3>1. queue[h] \in Seq(1 .. p)
      BY <2>1, <2>2
    <3>2. p \in 1 .. p
      BY <1>0, <2>1
    <3> QED  BY <3>1, <3>2
  <2>4. /\ queue' \in Seq(Seq(1 .. p)) /\ Len(queue') = Len(queue) /\ DOMAIN queue' = DOMAIN queue
        /\ queue'[h] = Append(queue[h], p) /\ \A g \in DOMAIN queue \ {h} : queue'[g] = queue[g]
    BY <2>1, <2>2, <2>3
  <2>5. WaitTypes'
    <3>1. \A u \in Threads : out[u] <= p
      BY <1>0, <2>1
    <3> QED  BY <1>0, <2>1, <2>4, <3>1 DEF WInv, WaitTypes, PendTypes, Entry, Handles!Handle
  <2>6. ASSUME NEW g \in DOMAIN queue, NEW i \in DOMAIN queue'[g]
        PROVE  \/ i \in DOMAIN queue[g] /\ queue'[g][i] = queue[g][i]
               \/ g = h /\ i = Len(queue[h]) + 1 /\ queue'[g][i] = p
    <3>1. CASE g = h
      <4>1. i \in 1 .. Len(queue[h]) + 1 /\ queue'[g][i] = Append(queue[h], p)[i]
        BY <2>3, <2>4, <3>1
      <4>2. i \in 1 .. Len(queue[h]) \/ i = Len(queue[h]) + 1
        BY <2>3, <4>1
      <4> QED  BY <2>3, <3>1, <4>1, <4>2
    <3>2. CASE g # h
      BY <2>4, <3>2
    <3> QED  BY <3>1, <3>2
  <2>7. \A g \in DOMAIN queue : \A i \in DOMAIN queue[g] : queue[g][i] # p
    BY <1>0, <2>1, <2>2
  <2>8. \A u \in Threads : out[u] # p
    BY <1>0, <2>1
  <2>9. Handles!OnePlace'
    <3>1. ASSUME NEW g \in DOMAIN queue, NEW k \in DOMAIN queue,
                 NEW i \in DOMAIN queue'[g], NEW j \in DOMAIN queue'[k],
                 queue'[g][i] = queue'[k][j]
          PROVE  g = k /\ i = j
      BY <2>6, <2>7, <3>1 DEF WInv, Handles!OnePlace
    <3>2. ASSUME NEW u \in Threads, NEW g \in DOMAIN queue, NEW i \in DOMAIN queue'[g], out[u] > 0
          PROVE  out[u] # queue'[g][i]
      BY <2>6, <2>8, <3>2 DEF WInv, Handles!OnePlace
    <3>3. \A u \in Threads, k \in Threads : u # k /\ out[u] > 0 => out[u] # out[k]
      BY DEF WInv, Handles!OnePlace
    <3>4. out' = out /\ DOMAIN queue' = DOMAIN queue
      BY <2>1, <2>4
    <3> HIDE DEF p
    <3> QED  BY <3>1, <3>2, <3>3, <3>4 DEF Handles!OnePlace
  <2>10. HeldOnce'
    BY <2>1 DEF WInv, HeldOnce, Held
  <2>11. KindsKept
    BY <1>0, <2>1, WaitsAssumption DEF KindsKept, Handles!Handle, Handles!WaitAssumption
  <2>12. WaitsFit' /\ Handles!AsAsked'
    BY <2>1, <2>11, StillFits DEF WInv, WaitsFit, Handles!AsAsked
  <2> QED  BY <2>5, <2>9, <2>10, <2>12 DEF WInv
<1> QED  BY <1>1, <1>2

(* What a parked thread waits for is what its wait says.                   *)
LEMMA ParkedFits ==
  ASSUME WInv, NEW t \in Threads, ~Handles!Runs(t)
  PROVE  /\ Fits(pend[t].on, pend[t].all, pend[t].port, t)
         /\ Handles!Parked(t).objs = pend[t].on
         /\ Handles!Parked(t).all => pend[t].all
         /\ pend[t].all => Handles!Parked(t).all
<1>1. Fits(pend[t].on, pend[t].all, pend[t].port, t)
  BY DEF WInv, WaitsFit
<1>2. CASE Len(pend[t].on) > 1
  <2>1. multi[t] = [objs |-> pend[t].on, all |-> pend[t].all] /\ Handles!Parked(t) = multi[t]
    BY <1>2 DEF WInv, Handles!AsAsked, Handles!Parked
  <2>2. Handles!Parked(t).objs = pend[t].on /\ Handles!Parked(t).all = pend[t].all
    BY <2>1
  <2> QED  BY <1>1, <2>2
<1>3. CASE ~(Len(pend[t].on) > 1)
  BY <1>1, <1>3 DEF Handles!Parked, Fits
<1> QED  BY <1>1, <1>2, <1>3

(* Waking and expiring, which leave the thread awake.                      *)
LEMMA WakeKeeps ==
  ASSUME WInv, NEW t \in Threads
  PROVE  (Handles!Wake(t) => WInv') /\ (Handles!Expire(t) => WInv')
<1>0. DOMAIN eax = Threads /\ DOMAIN pend = Threads /\ DOMAIN multi = Threads
  BY DEF WInv, WaitTypes, PendTypes
<1>1. ASSUME pend' = [pend EXCEPT ![t] = Handles!Awake], multi' = [multi EXCEPT ![t] = Handles!NoMulti],
             WaitTypes' /\ HeldOnce' /\ Handles!OnePlace' /\ KindsKept, outp' = outp,
             \A u \in Threads \ {t} : out'[u] = out[u]
      PROVE  WInv'
  <2>1. /\ pend'[t] = Handles!Awake /\ \A u \in Threads \ {t} : pend'[u] = pend[u] /\ multi'[u] = multi[u]
    BY <1>0, <1>1
  <2>2. Handles!Runs(t)' /\ AskedFor(t)'
    BY <2>1 DEF Handles!Runs, AskedFor, Handles!Awake
  <2>3. WaitsFit' /\ Handles!AsAsked'
    BY <1>1, <2>1, <2>2, OthersFit
  <2> QED  BY <1>1, <2>3 DEF WInv
<1>2. ASSUME Handles!Wake(t)
      PROVE  WInv'
  <2> DEFINE on == Handles!Parked(t).objs
             all == Handles!Parked(t).all
             won == Handles!Won(on, all)
             hs == Handles!Listed(won)
  <2>1. /\ ~Handles!Runs(t) /\ Handles!CanTake(on, all) /\ posted' = posted /\ outp' = outp
        /\ pend' = [pend EXCEPT ![t] = Handles!Awake] /\ multi' = [multi EXCEPT ![t] = Handles!NoMulti]
    BY <1>2 DEF Handles!Wake
  <2>2. PICK r : Handles!Acquire(t, won, r)
    BY <1>2 DEF Handles!Wake
  <2>3. Fits(on, pend[t].all, pend[t].port, t)
    BY <2>1, ParkedFits
  <2>4. on \in Seq(DOMAIN obj \cup {Handles!Unknown})
    BY <2>3 DEF Fits
  <2>5. /\ won \in Seq(DOMAIN obj \cup {Handles!Unknown})
        /\ \A h \in hs : h \in DOMAIN obj /\ Handles!Ready(h) /\ \E i \in DOMAIN on : h = on[i]
    BY <2>1, <2>4, WonReady DEF WInv
  <2> HIDE DEF on, all, won
  <2>6. \A h \in hs : Handles!IsKind(h, {"port"}) => hs = {h} /\ h \in outp[t]
    <3>1. ASSUME NEW h \in hs, Handles!IsKind(h, {"port"})
          PROVE  hs = {h} /\ h \in outp[t]
      <4>1. pend[t].port
        <5>1. PICK i \in DOMAIN on : Handles!IsKind(on[i], {"port"})
          BY <2>5, <3>1
        <5> QED  BY <2>3, <5>1 DEF Fits
      <4>2. Len(on) = 1 /\ on[1] \in outp[t] /\ DOMAIN on = 1 .. Len(on)
        <5>1. Len(on) = 1 /\ on[1] \in outp[t]
          BY <2>3, <4>1, Zenon DEF Fits
        <5> QED  BY <2>4, <5>1
      <4>3. \A g \in hs : g = on[1]
        BY <2>5, <4>2
      <4> QED  BY <3>1, <4>2, <4>3
    <3> QED  BY <3>1
  <2>7. PendTypes' /\ DOMAIN multi' = Threads
    BY <1>0, <2>1 DEF WInv, WaitTypes, PendTypes, Handles!Awake
  <2>9. hs = Handles!Listed(won)
    OBVIOUS
  <2> HIDE DEF hs
  <2>8. /\ WaitTypes' /\ HeldOnce' /\ Handles!OnePlace' /\ KindsKept
        /\ \A u \in Threads \ {t} : out'[u] = out[u]
    BY <2>1, <2>2, <2>5, <2>6, <2>7, <2>9, AcquireKeeps
  <2> QED  BY <1>1, <2>1, <2>8
<1>3. ASSUME Handles!Expire(t)
      PROVE  WInv'
  <2>1. /\ UNCHANGED <<obj, queue, posted, outp, out, held, misused>> /\ eax' = [eax EXCEPT ![t] = pend[t].expired]
        /\ pend' = [pend EXCEPT ![t] = Handles!Awake] /\ multi' = [multi EXCEPT ![t] = Handles!NoMulti]
    BY <1>3 DEF Handles!Expire
  <2>2. WaitTypes' /\ HeldOnce' /\ Handles!OnePlace' /\ KindsKept
    BY <1>0, <2>1, WaitsAssumption
    DEF WInv, WaitTypes, PendTypes, Handles!Awake, HeldOnce, Held, Handles!OnePlace, KindsKept, Handles!Handle, Handles!WaitAssumption
  <2> QED  BY <1>1, <2>1, <2>2
<1> QED  BY <1>2, <1>3

(* In the beginning there is no object and nobody waits.                   *)
LEMMA WaitsStart == Handles!Init => WInv
<1> SUFFICES ASSUME Handles!Init
             PROVE  WInv
  OBVIOUS
<1>1. /\ obj = <<>> /\ queue = <<>> /\ posted = 0
      /\ outp = [t \in Threads |-> {}] /\ out = [t \in Threads |-> -1]
      /\ pend = [t \in Threads |-> Handles!Awake] /\ held = [t \in Threads |-> {}]
      /\ multi = [t \in Threads |-> Handles!NoMulti] /\ eax = [t \in Threads |-> 0] /\ misused = {}
  BY DEF Handles!Init, Handles!Nothing
<1>2. WaitTypes
  BY <1>1, WaitsAssumption DEF WaitTypes, PendTypes, Handles!Awake, Handles!WaitAssumption
<1>3. HeldOnce
  BY <1>1 DEF HeldOnce
<1>4. Handles!OnePlace
  BY <1>1 DEF Handles!OnePlace
<1>5. WaitsFit /\ Handles!AsAsked
  BY <1>1 DEF WaitsFit, Handles!AsAsked, Handles!Runs, Handles!Awake
<1> QED  BY <1>2, <1>3, <1>4, <1>5 DEF WInv

(* Every call, and every end of a wait, keeps the invariant.               *)
LEMMA WaitsStep ==
  ASSUME WInv, [Handles!Next]_(Handles!vars)
  PROVE  WInv'
<1>1. CASE UNCHANGED Handles!vars
  <2>1. WaitTypes' /\ HeldOnce' /\ Handles!OnePlace' /\ Handles!AsAsked' /\ KindsKept
    <3>1. DOMAIN obj \subseteq Handles!Handle
      BY WaitsAssumption DEF WInv, WaitTypes, PendTypes, Handles!Handle, Handles!WaitAssumption
    <3> QED  BY <1>1, <3>1
             DEF WInv, WaitTypes, PendTypes, HeldOnce, Held, Handles!OnePlace, Handles!AsAsked, KindsKept, Handles!vars
  <2>2. WaitsFit'
    BY <1>1, <2>1, StillFits DEF WInv, WaitsFit, Handles!vars
  <2> QED  BY <2>1, <2>2 DEF WInv
<1>2. ASSUME NEW t \in Threads,
             \/ \E kind \in Makes, n \in {0, 1} : Handles!Create(t, kind, n)
             \/ Handles!Sleep(t) \/ Handles!Wake(t) \/ Handles!Expire(t)
      PROVE  WInv'
  BY <1>2, CreateKeeps, WaitsKeep, WakeKeeps
<1>3. ASSUME NEW t \in Threads, NEW h \in Handles!Handle,
             \/ Handles!SetEvent(t, h) \/ Handles!ResetEvent(t, h) \/ Handles!ReleaseMutex(t, h)
             \/ \E k \in 1 .. 2 : Handles!ReleaseSemaphore(t, h, k)
             \/ Handles!PostQueued(t, h)
      PROVE  WInv'
  BY <1>3, SetsKeep, ReleaseKeeps, QueuesKeep
<1>4. ASSUME NEW t \in Threads, NEW h \in 1 .. Handles!Unknown, NEW zero \in BOOLEAN,
             Handles!WaitSingle(t, h, zero) \/ Handles!GetQueued(t, h, zero)
      PROVE  WInv'
  BY <1>4, WaitsKeep, QueuesKeep
<1>5. ASSUME NEW t \in Threads, NEW h \in 1 .. Handles!Unknown, NEW g \in 1 .. Handles!Unknown,
             NEW all \in BOOLEAN, NEW zero \in BOOLEAN, Handles!WaitMultiple(t, <<h, g>>, all, zero)
      PROVE  WInv'
  BY <1>5, WaitsKeep, Zenon
<1> QED  BY <1>1, <1>2, <1>3, <1>4, <1>5 DEF Handles!Next

(* The instance counts as this module does.                                *)
LEMMA SameCount == \A S : Handles!Cardinality(S) = Cardinality(S)
BY DEF Handles!Cardinality, Cardinality

(* The invariant is what the waits promise, and more.                      *)
LEMMA WaitsPromise == WInv => Handles!WaitsHonest
<1> SUFFICES ASSUME WInv
             PROVE  Handles!WaitsHonest
  OBVIOUS
<1>1. ASSUME NEW h \in DOMAIN obj, obj[h].kind = "mutex", h \notin misused
      PROVE  Cardinality({t \in Threads : h \in held[t]}) + obj[h].n = 1
  <2> DEFINE S == {t \in Threads : h \in held[t]}
  <2>1. CASE obj[h].n = 0
    <3>1. PICK t \in Threads : h \in held[t]
      BY <1>1, <2>1 DEF WInv, HeldOnce, Held
    <3>2. S = {t}
      BY <3>1 DEF WInv, HeldOnce
    <3>3. Cardinality(S) = 1
      BY <3>2, FS_Singleton
    <3> QED  BY <2>1, <3>3
  <2>2. CASE obj[h].n = 1
    <3>1. S = {}
      BY <2>2 DEF WInv, HeldOnce
    <3>2. Cardinality(S) = 0
      BY <3>1, FS_EmptySet
    <3> QED  BY <2>2, <3>2
  <2> QED  BY <1>1, <2>1, <2>2 DEF WInv, HeldOnce
<1>2. ASSUME NEW h \in DOMAIN obj
      PROVE  obj[h].n \in 0 .. MaxSema
  <2>1. obj[h] \in Entry
    BY DEF WInv, WaitTypes, PendTypes
  <2> QED  BY <2>1 DEF Entry
<1>3. Handles!OneHolder
  BY <1>1, SameCount DEF Handles!OneHolder
<1> QED  BY <1>2, <1>3 DEF Handles!WaitsHonest, Handles!Counts, WInv

(* A mutex that is only waited for and released by its holder has one      *)
(* holder or its signal, a packet one place, and a thread waits for what   *)
(* it asked for.                                                           *)
THEOREM WaitsHold == Handles!Spec => []Handles!WaitsHonest
BY WaitsStart, WaitsStep, WaitsPromise, PTL DEF Handles!Spec

(* A step of a thread that is parked is its wake or its expiry.            *)
LEMMA ParkedSteps ==
  ASSUME WInv, Handles!Next, NEW t \in Threads, ~Handles!Runs(t), pend'[t] = Handles!Awake
  PROVE  Handles!Wake(t) \/ Handles!Expire(t)
<1>0. DOMAIN pend = Threads
  BY DEF WInv, WaitTypes, PendTypes
<1>1. ASSUME NEW u \in Threads, u # t,
             pend' = pend \/ \E e : pend' = [pend EXCEPT ![u] = e]
      PROVE  FALSE
  BY <1>0, <1>1 DEF Handles!Runs
<1>2. PICK u \in Threads :
        \/ \E kind \in Makes, n \in {0, 1} : Handles!Create(u, kind, n)
        \/ Handles!Sleep(u) \/ Handles!Wake(u) \/ Handles!Expire(u)
        \/ \E h \in Handles!Handle : \/ Handles!SetEvent(u, h) \/ Handles!ResetEvent(u, h) \/ Handles!ReleaseMutex(u, h)
                             \/ \E k \in 1 .. 2 : Handles!ReleaseSemaphore(u, h, k)
                             \/ Handles!PostQueued(u, h)
        \/ \E h \in 1 .. Handles!Unknown, zero \in BOOLEAN : Handles!WaitSingle(u, h, zero) \/ Handles!GetQueued(u, h, zero)
        \/ \E h, g \in 1 .. Handles!Unknown, all, zero \in BOOLEAN :
               Handles!WaitMultiple(u, <<h, g>>, all, zero)
  BY DEF Handles!Next
<1>3. CASE u = t
  BY <1>2, <1>3
  DEF Handles!Create, Handles!Sleep, Handles!SetEvent, Handles!ResetEvent,
      Handles!ReleaseMutex, Handles!ReleaseSemaphore,
                    Handles!PostQueued, Handles!WaitSingle, Handles!GetQueued, Handles!WaitMultiple
<1>4. ASSUME u # t
      PROVE  pend' = pend \/ \E e : pend' = [pend EXCEPT ![u] = e]
  <2>1. \A on, all, zero, e : Handles!Wait(u, on, all, zero, e) =>
          pend' = pend \/ \E x : pend' = [pend EXCEPT ![u] = x]
    BY DEF Handles!Wait
  <2>2. ASSUME NEW h, NEW zero, Handles!GetQueued(u, h, zero)
        PROVE  pend' = pend \/ \E x : pend' = [pend EXCEPT ![u] = x]
    BY <2>2 DEF Handles!GetQueued
  <2>3. ASSUME NEW h, NEW zero, Handles!WaitSingle(u, h, zero)
        PROVE  pend' = pend \/ \E x : pend' = [pend EXCEPT ![u] = x]
    BY <2>1, <2>3 DEF Handles!WaitSingle
  <2>4. ASSUME NEW on, NEW all, NEW zero, Handles!WaitMultiple(u, on, all, zero)
        PROVE  pend' = pend \/ \E x : pend' = [pend EXCEPT ![u] = x]
    BY <2>1, <2>4, Zenon DEF Handles!WaitMultiple
  <2>5. ASSUME \/ \E kind \in Makes, n \in {0, 1} : Handles!Create(u, kind, n)
               \/ \E h \in Handles!Handle : \/ Handles!SetEvent(u, h) \/ Handles!ResetEvent(u, h) \/ Handles!ReleaseMutex(u, h)
                                    \/ \E k \in 1 .. 2 : Handles!ReleaseSemaphore(u, h, k)
                                    \/ Handles!PostQueued(u, h)
        PROVE  pend' = pend
    BY <2>5
    DEF Handles!Create, Handles!SetEvent, Handles!ResetEvent, Handles!ReleaseMutex,
        Handles!ReleaseSemaphore, Handles!PostQueued
  <2>6. ASSUME Handles!Sleep(u) \/ Handles!Wake(u) \/ Handles!Expire(u)
        PROVE  \E x : pend' = [pend EXCEPT ![u] = x]
    BY <2>6 DEF Handles!Sleep, Handles!Wake, Handles!Expire
  <2> QED  BY <1>2, <2>2, <2>3, <2>4, <2>5, <2>6
<1> QED  BY <1>1, <1>3, <1>4

(* Of a semaphore that is ready one is taken, unless it is listed again.   *)
LEMMA OneOrMore ==
  ASSUME NEW n \in Nat, n > 0, NEW k \in Nat, k # 0, NEW m, m = IF n < k THEN 0 ELSE n - k
  PROVE  m = n - 1 \/ (k > 1 /\ n > 1 /\ m < n - 1)
OBVIOUS

(* Acquiring objects that are ready and no ports takes each of them.       *)
LEMMA TakenAll ==
  ASSUME WInv, NEW t \in Threads, NEW on \in Seq(DOMAIN obj \cup {Handles!Unknown}), NEW r,
         Handles!Acquire(t, on, r), \A i \in DOMAIN on : Handles!Ready(on[i]),
         \A i \in DOMAIN on : ~Handles!IsKind(on[i], {"port"})
  PROVE  Handles!TakenBy(t, on)
<1> DEFINE hs == Handles!Listed(on)
           k(h) == Handles!Times(on, h)
<1>1. \A i \in DOMAIN on : Handles!Known(on[i]) /\ obj[on[i]].n > 0
  BY DEF Handles!Ready, Handles!IsKind, Handles!Known
<1>2. \A h \in hs : h \in DOMAIN obj /\ obj[h].n > 0
  BY <1>1 DEF Handles!Listed, Handles!Known
<1>3. \A h \in hs : k(h) \in Nat /\ k(h) # 0
  BY TimesNat
<1>4. \A h \in DOMAIN obj : obj'[h] = IF h \in hs THEN Handles!Taken(h, k(h)) ELSE obj[h]
  BY DEF Handles!Acquire
<1>5. \A h \in hs : Handles!IsKind(h, {"mutex"}) /\ h \notin misused => h \in held'[t]
  BY DEF Handles!Acquire, WInv, WaitTypes
<1>6. \A h \in DOMAIN obj : obj[h].n \in Nat /\ DOMAIN obj[h] = {"kind", "n"}
  <2>1. \A h \in DOMAIN obj : obj[h] \in Entry
    BY DEF WInv, WaitTypes
  <2> QED  BY <2>1 DEF Entry
<1> HIDE DEF hs, k
<1>7. ASSUME NEW h \in DOMAIN obj
      PROVE  /\ h \notin hs \/ obj[h].kind \notin {"auto", "mutex", "sema"} => obj'[h] = obj[h]
             /\ h \in hs /\ obj[h].kind \in {"auto", "mutex"} => obj'[h].n = 0
  BY <1>4, <1>6 DEF Handles!Taken
<1>8. ASSUME NEW h \in hs, obj[h].kind = "sema"
      PROVE  obj'[h].n = obj[h].n - 1 \/ (k(h) > 1 /\ obj[h].n > 1 /\ obj'[h].n < obj[h].n - 1)
  <2>1. obj'[h].n = IF obj[h].n < k(h) THEN 0 ELSE obj[h].n - k(h)
    BY <1>2, <1>4, <1>6, <1>8 DEF Handles!Taken
  <2> QED  BY <1>2, <1>3, <1>6, <2>1, OneOrMore
<1> QED  BY <1>1, <1>5, <1>7, <1>8 DEF Handles!TakenBy, hs, k

(* A wait for all of several objects takes them all or none: one that was  *)
(* parked,                                                                 *)
LEMMA ParkedAll ==
  ASSUME WInv, [Handles!Next]_(Handles!vars), NEW t \in Threads, ~Handles!Runs(t), pend[t].all,
         pend'[t] = Handles!Awake
  PROVE  IF eax'[t] = 0 THEN Handles!TakenBy(t, pend[t].on) ELSE obj' = obj
<1>0. DOMAIN eax = Threads
  BY DEF WInv, WaitTypes, PendTypes
<1>1. Handles!Next
  BY DEF Handles!Runs, Handles!vars
<1>2. /\ Fits(pend[t].on, pend[t].all, pend[t].port, t)
      /\ Handles!Parked(t).objs = pend[t].on /\ Handles!Parked(t).all
  BY ParkedFits
<1>3. ~pend[t].port
  <2>1. Len(pend[t].on) > 1
    BY <1>2, Zenon DEF Fits
  <2>2. pend[t].port => Len(pend[t].on) = 1
    BY <1>2, Zenon DEF Fits
  <2>3. ASSUME NEW n, n > 1
        PROVE  n # 1
    BY <2>3
  <2>4. Len(pend[t].on) # 1
    BY <2>1, <2>3, Zenon
  <2> QED  BY <2>2, <2>4, Zenon
<1>4. CASE Handles!Wake(t)
  <2>1. \A i \in DOMAIN pend[t].on : Handles!Ready(pend[t].on[i])
    BY <1>2, <1>4 DEF Handles!Wake, Handles!CanTake
  <2>2. \A i \in DOMAIN pend[t].on : ~Handles!IsKind(pend[t].on[i], {"port"})
    BY <1>2, <1>3 DEF Fits
  <2>3. Handles!Acquire(t, pend[t].on, 0)
    BY <1>2, <1>3, <1>4 DEF Handles!Wake, Handles!Won
  <2>4. pend[t].on \in Seq(DOMAIN obj \cup {Handles!Unknown})
    BY <1>2 DEF Fits
  <2>5. eax'[t] = 0
    BY <1>0, <2>3 DEF Handles!Acquire
  <2> QED  BY <2>1, <2>2, <2>3, <2>4, <2>5, TakenAll
<1>5. CASE Handles!Expire(t)
  BY <1>0, <1>5 DEF Handles!Expire, WInv, WaitTypes, PendTypes, Handles!TimedOut
<1> QED  BY <1>1, <1>4, <1>5, ParkedSteps

(* and one answered at once.                                               *)
LEMMA AtOnceAll ==
  ASSUME WInv, NEW t \in Threads, NEW h \in 1 .. Handles!Unknown, NEW g \in 1 .. Handles!Unknown,
         Handles!WaitMultiple(t, <<h, g>>, TRUE, TRUE)
  PROVE  IF eax'[t] = 0 THEN Handles!TakenBy(t, <<h, g>>) ELSE obj' = obj
<1> DEFINE on == Handles!Resolved(<<h, g>>)
<1>0. DOMAIN eax = Threads /\ Handles!Unknown \notin DOMAIN obj
  BY WaitsAssumption DEF WInv, WaitTypes, PendTypes, Handles!Unknown, Handles!WaitAssumption
<1>1. Handles!Wait(t, on, TRUE, TRUE, Handles!TimedOut) /\ ~Handles!IsKind(h, {"port"}) /\ ~Handles!IsKind(g, {"port"})
  <2> DEFINE pair == <<h, g>>
  <2>1. DOMAIN pair = {1, 2} /\ pair[1] = h /\ pair[2] = g
    OBVIOUS
  <2>2. /\ Handles!Wait(t, Handles!Resolved(pair), TRUE, TRUE, Handles!TimedOut)
        /\ \A i \in DOMAIN pair : ~Handles!IsKind(pair[i], {"port"})
    BY Zenon DEF Handles!WaitMultiple
  <2> HIDE DEF pair
  <2>3. ~Handles!IsKind(h, {"port"}) /\ ~Handles!IsKind(g, {"port"})
    BY <2>1, <2>2
  <2> QED  BY <2>2, <2>3 DEF pair
<1>2. on = <<IF Handles!Known(h) THEN h ELSE Handles!Unknown, IF Handles!Known(g) THEN g ELSE Handles!Unknown>>
  BY DEF Handles!Resolved
<1>3. DOMAIN on = {1, 2} /\ on[1] \in {h, Handles!Unknown} /\ on[2] \in {g, Handles!Unknown}
  BY <1>2
<1>4. CASE (\A i \in DOMAIN on : Handles!Ready(on[i])) /\ Handles!Acquire(t, on, 0)
  <2>1. Handles!Known(on[1]) /\ Handles!Known(on[2])
    BY <1>3, <1>4 DEF Handles!Ready
  <2>2. on[1] = h /\ on[2] = g /\ h \in DOMAIN obj /\ g \in DOMAIN obj
    BY <1>0, <1>3, <2>1 DEF Handles!Known
  <2>3. on = <<h, g>>
    BY <1>2, <2>2 DEF Handles!Known
  <2>4. <<h, g>> \in Seq(DOMAIN obj \cup {Handles!Unknown})
    BY <2>2
  <2>5. \A i \in DOMAIN on : ~Handles!IsKind(on[i], {"port"})
    BY <1>1, <1>3, <2>2
  <2>6. eax'[t] = 0
    BY <1>0, <1>4 DEF Handles!Acquire
  <2> HIDE DEF on
  <2>7. Handles!TakenBy(t, on)
    BY <1>4, <2>3, <2>4, <2>5, TakenAll
  <2> QED  BY <2>3, <2>6, <2>7
<1>5. CASE obj' = obj /\ eax' = [eax EXCEPT ![t] = Handles!TimedOut]
  BY <1>0, <1>5 DEF Handles!TimedOut
<1> HIDE DEF on
<1> QED  BY <1>1, <1>4, <1>5 DEF Handles!Wait, Handles!CanTake, Handles!Won

LEMMA AllStep ==
  ASSUME WInv, [Handles!Next]_(Handles!vars)
  PROVE  Handles!AllTaken
BY ParkedAll, AtOnceAll, Zenon DEF Handles!AllTaken

(* A packet leaves its port for the thread that is told so, in the order   *)
(* of the posts, and no thread is told of one otherwise.                   *)
LEMMA PacketsStep ==
  ASSUME WInv, [Handles!Next]_(Handles!vars)
  PROVE  Handles!PacketStep
<1>0. /\ DOMAIN eax = Threads /\ DOMAIN queue = DOMAIN obj /\ out \in [Threads -> Int]
      /\ obj \in Seq(Entry) /\ queue \in Seq(Seq(1 .. posted)) /\ posted \in Nat
  BY DEF WInv, WaitTypes
<1> DEFINE Goes(h) == \/ queue'[h] = queue[h] \/ posted' > posted
                      \/ /\ queue'[h] = Tail(queue[h])
                         /\ \E t \in Threads : eax'[t] = 1 /\ out'[t] = Head(queue[h])
<1>1. ASSUME NEW t \in Threads, NEW won, NEW hs, hs = Handles!Listed(won), NEW r, Handles!Acquire(t, won, r), NEW h \in DOMAIN obj,
             Handles!IsKind(h, {"port"}) /\ h \in hs => hs = {h} /\ h \in outp[t] /\ r = 1
      PROVE  Goes(h)
  <2>1. CASE h \in hs /\ obj[h].kind = "port"
    <3>1. Handles!IsKind(h, {"port"})
      BY <2>1 DEF Handles!IsKind, Handles!Known
    <3>2. {g \in hs \cap outp[t] : Handles!IsKind(g, {"port"})} = {h}
      BY <1>1, <2>1, <3>1
    <3>3. out'[t] = Head(queue[h]) /\ eax'[t] = 1 /\ queue'[h] = Tail(queue[h])
      BY <1>0, <1>1, <2>1, <3>1, <3>2 DEF Handles!Acquire
    <3> QED  BY <3>3
  <2>2. CASE ~(h \in hs /\ obj[h].kind = "port")
    BY <1>1, <2>2 DEF Handles!Acquire
  <2> QED  BY <2>1, <2>2
<1>2. ASSUME NEW t \in Threads, NEW on \in Seq(DOMAIN obj \cup {Handles!Unknown}), NEW all, NEW zero, NEW e,
             Handles!Wait(t, on, all, zero, e), \A i \in DOMAIN on : ~Handles!IsKind(on[i], {"port"}),
             NEW h \in DOMAIN obj
      PROVE  Goes(h)
  <2>1. CASE queue' = queue
    BY <2>1
  <2>2. CASE Handles!CanTake(on, all) /\ Handles!Acquire(t, Handles!Won(on, all), IF all THEN 0 ELSE Handles!First(on) - 1)
    <3>1. \A g \in Handles!Listed(Handles!Won(on, all)) : ~Handles!IsKind(g, {"port"})
      BY <1>2, <2>2, WonReady DEF WInv
    <3> QED  BY <1>1, <2>2, <3>1
  <2> QED  BY <1>2, <2>1, <2>2 DEF Handles!Wait
<1>3. ASSUME NEW t \in Threads, NEW h \in DOMAIN obj, Handles!Wake(t)
      PROVE  Goes(h)
  <2> DEFINE on == Handles!Parked(t).objs
             all == Handles!Parked(t).all
             r == IF pend[t].port THEN 1 ELSE IF all THEN 0 ELSE Handles!First(on) - 1
  <2>1. ~Handles!Runs(t) /\ Handles!CanTake(on, all) /\ Handles!Acquire(t, Handles!Won(on, all), r)
    BY <1>3 DEF Handles!Wake
  <2>2. Fits(on, pend[t].all, pend[t].port, t)
    BY <2>1, ParkedFits
  <2>3. on \in Seq(DOMAIN obj \cup {Handles!Unknown})
    BY <2>2 DEF Fits
  <2>4. \A g \in Handles!Listed(Handles!Won(on, all)) : g \in DOMAIN obj /\ \E i \in DOMAIN on : g = on[i]
    BY <2>1, <2>3, WonReady DEF WInv
  <2>5. ASSUME Handles!IsKind(h, {"port"}), h \in Handles!Listed(Handles!Won(on, all))
        PROVE  Handles!Listed(Handles!Won(on, all)) = {h} /\ h \in outp[t] /\ r = 1
    <3> HIDE DEF on, all
    <3>1. PICK i \in DOMAIN on : Handles!IsKind(on[i], {"port"})
      BY <2>4, <2>5
    <3>2. pend[t].port
      BY <2>2, <3>1 DEF Fits
    <3>3. Len(on) = 1 /\ on[1] \in outp[t]
      BY <2>2, <3>2, Zenon DEF Fits
    <3>4. \A g \in Handles!Listed(Handles!Won(on, all)) : g = on[1]
      BY <2>3, <2>4, <3>3
    <3> QED  BY <2>5, <3>2, <3>3, <3>4
  <2> HIDE DEF on, all, r
  <2> QED  BY <1>1, <2>1, <2>5
<1>4. ASSUME NEW t \in Threads, NEW h \in DOMAIN obj, NEW g \in 1 .. Handles!Unknown,
             NEW zero, Handles!GetQueued(t, g, zero)
      PROVE  Goes(h)
  <2>1. g \in DOMAIN obj
    BY <1>4 DEF Handles!GetQueued, Handles!IsKind, Handles!Known
  <2>2. CASE queue' = queue
    BY <2>2
  <2>3. CASE /\ out' = [out EXCEPT ![t] = Head(queue[g])]
             /\ queue' = [queue EXCEPT ![g] = Tail(@)]
             /\ eax' = [eax EXCEPT ![t] = 1]
    <3>1. out'[t] = Head(queue[g]) /\ eax'[t] = 1 /\ queue'[g] = Tail(queue[g])
      BY <1>0, <2>1, <2>3
    <3>2. h # g => queue'[h] = queue[h]
      BY <1>0, <2>3
    <3> QED  BY <3>1, <3>2
  <2> QED  BY <1>4, <2>2, <2>3 DEF Handles!GetQueued
<1>5. ASSUME NEW t \in Threads, NEW h \in DOMAIN obj, NEW kind, NEW n, Handles!Create(t, kind, n)
      PROVE  Goes(h)
  <2>1. queue' = Append(queue, <<>>) /\ DOMAIN queue = 1 .. Len(queue)
    BY <1>0, <1>5 DEF Handles!Create
  <2>2. queue'[h] = queue[h]
    BY <1>0, <2>1
  <2> QED  BY <2>2
<1>6. ASSUME NEW t \in Threads, NEW h \in DOMAIN obj, NEW g \in 1 .. Handles!Unknown, NEW k \in 1 .. Handles!Unknown,
             NEW all \in BOOLEAN, NEW zero \in BOOLEAN, Handles!WaitMultiple(t, <<g, k>>, all, zero)
      PROVE  Goes(h)
  <2> DEFINE on == Handles!Resolved(<<g, k>>)
  <2>1. on = <<IF Handles!Known(g) THEN g ELSE Handles!Unknown, IF Handles!Known(k) THEN k ELSE Handles!Unknown>>
    BY DEF Handles!Resolved
  <2>2. on \in Seq(DOMAIN obj \cup {Handles!Unknown})
    <3>1. PICK x \in DOMAIN obj \cup {Handles!Unknown}, y \in DOMAIN obj \cup {Handles!Unknown} : on = <<x, y>>
      BY <2>1 DEF Handles!Known
    <3>2. <<x, y>> \in Seq(DOMAIN obj \cup {Handles!Unknown})
      OBVIOUS
    <3> QED  BY <3>1, <3>2
  <2>3. ~Handles!IsKind(g, {"port"}) /\ ~Handles!IsKind(k, {"port"}) /\ Handles!Wait(t, on, all, zero, Handles!TimedOut)
    BY <1>6 DEF Handles!WaitMultiple
  <2>4. Handles!Unknown \notin DOMAIN obj
    BY WaitsAssumption DEF Handles!Unknown, Handles!WaitAssumption, WInv, WaitTypes
  <2>5. \A i \in DOMAIN on : ~Handles!IsKind(on[i], {"port"})
    BY <2>1, <2>3, <2>4 DEF Handles!IsKind, Handles!Known
  <2> HIDE DEF on
  <2> QED  BY <1>2, <2>2, <2>3, <2>5, Zenon
<1>7. ASSUME NEW t \in Threads, NEW h \in DOMAIN obj, NEW g \in 1 .. Handles!Unknown, NEW zero \in BOOLEAN,
             Handles!WaitSingle(t, g, zero)
      PROVE  Goes(h)
  <2>1. CASE ~Handles!Known(g)
    BY <1>7, <2>1 DEF Handles!WaitSingle
  <2>2. CASE Handles!Known(g)
    <3> DEFINE on == <<g>>
    <3>1. on \in Seq(DOMAIN obj \cup {Handles!Unknown}) /\ \A i \in DOMAIN on : on[i] = g
      BY <2>2 DEF Handles!Known
    <3>2. ~Handles!IsKind(g, {"port"}) /\ Handles!Wait(t, on, FALSE, zero, Handles!TimedOut)
      BY <1>7, <2>2 DEF Handles!WaitSingle
    <3> HIDE DEF on
    <3>3. \A i \in DOMAIN on : ~Handles!IsKind(on[i], {"port"})
      BY <3>1, <3>2
    <3> QED  BY <1>2, <3>1, <3>2, <3>3, Zenon
  <2> QED  BY <2>1, <2>2
<1>8. ASSUME NEW t \in Threads, NEW h \in DOMAIN obj, NEW g \in Handles!Handle,
             \/ Handles!SetEvent(t, g) \/ Handles!ResetEvent(t, g) \/ Handles!ReleaseMutex(t, g)
             \/ \E k \in 1 .. 2 : Handles!ReleaseSemaphore(t, g, k)
             \/ Handles!PostQueued(t, g)
      PROVE  Goes(h)
  BY <1>0, <1>8
  DEF Handles!SetEvent, Handles!ResetEvent, Handles!ReleaseMutex, Handles!ReleaseSemaphore,
      Handles!PostQueued
<1>9. ASSUME NEW t \in Threads, NEW h \in DOMAIN obj, Handles!Sleep(t) \/ Handles!Expire(t)
      PROVE  Goes(h)
  BY <1>9 DEF Handles!Sleep, Handles!Expire
<1> HIDE DEF Goes
<1>10. ASSUME Handles!Next, NEW h \in DOMAIN obj
       PROVE  Goes(h)
  <2>1. PICK t \in Threads :
        \/ \E kind \in Makes, n \in {0, 1} : Handles!Create(t, kind, n)
        \/ Handles!Sleep(t) \/ Handles!Wake(t) \/ Handles!Expire(t)
        \/ \E g \in Handles!Handle : \/ Handles!SetEvent(t, g) \/ Handles!ResetEvent(t, g) \/ Handles!ReleaseMutex(t, g)
                             \/ \E k \in 1 .. 2 : Handles!ReleaseSemaphore(t, g, k)
                             \/ Handles!PostQueued(t, g)
        \/ \E g \in 1 .. Handles!Unknown, zero \in BOOLEAN : Handles!WaitSingle(t, g, zero) \/ Handles!GetQueued(t, g, zero)
        \/ \E g, k \in 1 .. Handles!Unknown, all, zero \in BOOLEAN :
               Handles!WaitMultiple(t, <<g, k>>, all, zero)
    BY <1>10 DEF Handles!Next
  <2> QED  BY <2>1, <1>3, <1>4, <1>5, <1>6, <1>7, <1>8, <1>9, Zenon
<1>11. ASSUME UNCHANGED Handles!vars, NEW h \in DOMAIN obj
       PROVE  Goes(h)
  BY <1>11 DEF Handles!vars, Goes
<1> QED  BY <1>10, <1>11 DEF Handles!PacketStep, Goes

(* In the run: in the parts that wait, the invariant of the waits; in the  *)
(* part of the critical sections, theirs.                                  *)
PartInv == /\ Waiting => WInv
           /\ part = "crits" => Crits!CritInv

(* Each of the parts starts in its invariant.                              *)
LEMMA PartsStart == MCInit => PartInv
<1> SUFFICES ASSUME MCInit
             PROVE  PartInv
  OBVIOUS
<1>1. Waiting <=> part \in {"handles", "mixed", "ports"}
  BY DEF Waiting, Scope
<1>2. Waiting => Handles!Init
  BY <1>1 DEF MCInit
<1>3. part = "crits" => Crits!Init
  BY <1>1 DEF MCInit, Waiting
<1>4. part = "crits" => Crits!CritInv
  BY <1>3, Crits!InitOwned
<1> QED  BY <1>2, <1>4, WaitsStart DEF PartInv

(* Each step of a part keeps that part's invariant, and leaves no other    *)
(* part to keep.                                                           *)
LEMMA PartsStep ==
  ASSUME PartInv, [MCNext]_MCvars
  PROVE  PartInv'
<1>1. (Waiting <=> part \in {"handles", "mixed", "ports"}) /\ (Waiting' <=> part' \in {"handles", "mixed", "ports"})
  BY DEF Waiting, Scope
<1>2. part' = part
  BY DEF MCNext, MCvars
<1>3. Waiting => [Handles!Next]_(Handles!vars)
  BY <1>1 DEF MCNext, Steps, NetSteps, MCvars, Handles!vars, Keep1, Keep4, Keep5, Keep6, Keep7, Keep8, Keep9, Keep10
<1>4. part = "crits" => [Crits!Next]_(Crits!vars)
  BY <1>1 DEF MCNext, Steps, NetSteps, MCvars, Crits!vars
<1>5. Waiting => WInv'
  BY <1>3, WaitsStep DEF PartInv
<1>6. Crits!None \notin {1, 2}
  BY DEF Crits!None
<1>7. part = "crits" => Crits!CritInv'
  BY <1>4, <1>6, Crits!InvKept DEF PartInv
<1> QED  BY <1>1, <1>2, <1>5, <1>7 DEF PartInv

(* In every part: a mutex not misused has one holder or its signal, a      *)
(* packet one place, a parked thread what it asked for, and one thread at  *)
(* a time is in a critical section.                                        *)
THEOREM HandlesHold == MCSpec => []HandlesHonest
<1>1. PartInv => HandlesHonest
  <2>1. Crits!None \notin {1, 2}
    BY DEF Crits!None
  <2> QED  BY <2>1, WaitsPromise, Crits!InvHolds DEF PartInv, HandlesHonest
<1> QED  BY <1>1, PartsStart, PartsStep, PTL DEF MCSpec

(* A wait for all of several handles, parked or not, takes each of them    *)
(* once or none, but for a semaphore listed twice, and a packet goes, in   *)
(* the order of the posts, to the one thread that is told.                 *)
THEOREM WaitsAreServed == MCSpec => WaitsServed
<1>1. PartInv /\ [MCNext]_MCvars => [Waiting => Handles!AllTaken /\ Handles!PacketStep]_MCvars
  <2> SUFFICES ASSUME PartInv, [MCNext]_MCvars, Waiting
               PROVE  Handles!AllTaken /\ Handles!PacketStep
    OBVIOUS
  <2>1. Waiting <=> part \in {"handles", "mixed", "ports"}
    BY DEF Waiting, Scope
  <2>2. [Handles!Next]_(Handles!vars)
    BY <2>1 DEF MCNext, Steps, NetSteps, MCvars, Handles!vars, Keep1, Keep4, Keep5, Keep6, Keep7, Keep8, Keep9, Keep10
  <2> QED  BY <2>2, AllStep, PacketsStep DEF PartInv
<1> QED  BY <1>1, PartsStart, PartsStep, PTL DEF MCSpec, WaitsServed
-----------------------------------------------------------------------------
(* A voice is a ring of at least one frame, its cursor is in it, and a     *)
(* Lock's two segments are what was asked for.                             *)
VoiceInv ==
  /\ x1 \in [len : Nat, blockAlign : {2, 4}, rate : Nat, cursor : Nat, posAcc : Nat,
             playing : BOOLEAN, looping : BOOLEAN]
  /\ x1.len >= x1.blockAlign /\ x1.cursor < x1.len
  /\ x3 \in [off : Nat, b1 : Nat, b2 : Nat, want : Nat, fromWrite : BOOLEAN]
  /\ x3.b1 + x3.b2 = x3.want /\ x3.off + x3.b1 <= x1.len /\ x3.b2 <= x3.off

(* A step of less than the ring's length ends somewhere else in it.        *)
LEMMA RingMoves ==
  ASSUME NEW c \in Nat, NEW m \in Nat, NEW len \in Nat, c < len, 0 < m, m < len
  PROVE  (c + m) % len \in Nat /\ (c + m) % len < len /\ (c + m) % len # c
OBVIOUS

(* Whole frames make a ring of one frame at least.                         *)
LEMMA FramesFit ==
  ASSUME NEW n \in Nat, n # 0, NEW a \in {2, 4}
  PROVE  n * a \in Nat /\ n * a >= a
<1>1. CASE a = 2  BY <1>1
<1>2. CASE a = 4  BY <1>2
<1> QED  BY <1>1, <1>2

(* A remainder lies in the ring.                                           *)
LEMMA InRing ==
  ASSUME NEW p \in Nat, NEW len \in Nat, len > 0
  PROVE  p % len \in Nat /\ p % len < len
OBVIOUS

(* The write cursor is ahead of the read cursor, whatever the quarter of   *)
(* the ring or the two grains.                                             *)
LEMMA WriteApart ==
  ASSUME VoiceInv
  PROVE  /\ Voice!WriteCursor(x1) \in Nat /\ Voice!WriteCursor(x1) < x1.len
         /\ x1.len > x1.blockAlign => Voice!WriteCursor(x1) # x1.cursor
<1> DEFINE g == 2 * Grain * x1.blockAlign
           lead == Voice!Least(g, x1.len \div 4)
           m == Voice!Most(lead, x1.blockAlign)
<1>1. g \in Nat
  BY SoundAssumption DEF Voice!VoiceAssumption, VoiceInv
<1>2. x1.len \in Nat /\ x1.blockAlign \in Nat /\ x1.blockAlign > 0 /\ x1.cursor \in Nat /\ x1.cursor < x1.len
      /\ x1.blockAlign <= x1.len
  BY DEF VoiceInv
<1> HIDE DEF g
<1>3. lead \in Nat /\ (lead = 0 \/ lead < x1.len)
  BY <1>1, <1>2 DEF Voice!Least
<1> HIDE DEF lead
<1>4. m \in Nat /\ 0 < m /\ m <= x1.len /\ (x1.len > x1.blockAlign => m < x1.len)
  BY <1>2, <1>3 DEF Voice!Most
<1>5. Voice!WriteCursor(x1) = (x1.cursor + m) % x1.len
  BY DEF Voice!WriteCursor, lead, g
<1> HIDE DEF m
<1>6. x1.cursor + m \in Nat /\ x1.len > 0
  BY <1>2, <1>4
<1> QED  BY <1>2, <1>4, <1>5, <1>6, RingMoves, InRing

(* So the invariant gives the promise.                                     *)
LEMMA VoicePromise == VoiceInv => Voice!LocksApart
BY WriteApart DEF VoiceInv, Voice!LocksApart

(* A voice starts stopped at the start of its ring.                        *)
LEMMA VoiceStart == Voice!Init => VoiceInv
<1> SUFFICES ASSUME Voice!Init PROVE VoiceInv
  OBVIOUS
<1>1. PICK a \in Aligns, n \in Frames, f \in Freqs \cup {Rate} : x1 = Voice!Voice(n * a, a, f)
  BY DEF Voice!Init
<1>2. n \in Nat /\ n # 0 /\ a \in {2, 4} /\ f \in Nat
  BY SoundAssumption DEF Voice!VoiceAssumption
<1>3. n * a \in Nat /\ n * a >= a
  BY <1>2, FramesFit
<1> DEFINE k == n * a
<1>4. k \in Nat /\ k >= a /\ x1 = Voice!Voice(k, a, f)
  BY <1>1, <1>3
<1> HIDE DEF k
<1> QED  BY <1>2, <1>4 DEF Voice!Init, Voice!Voice, Voice!NoLock, VoiceInv

(* A cursor moved within its ring, with nothing locked.                    *)
LEMMA CursorMoves ==
  ASSUME VoiceInv, NEW c \in Nat, c < x1.len, NEW e \in Nat, x3' = Voice!NoLock,
         \/ x1' = [x1 EXCEPT !.posAcc = e, !.cursor = c]
         \/ x1' = [x1 EXCEPT !.cursor = c, !.playing = FALSE, !.posAcc = e]
  PROVE  VoiceInv'
<1>1. /\ x1' \in [len : Nat, blockAlign : {2, 4}, rate : Nat, cursor : Nat, posAcc : Nat,
                  playing : BOOLEAN, looping : BOOLEAN]
      /\ x1'.len = x1.len /\ x1'.blockAlign = x1.blockAlign /\ x1'.cursor = c
  BY DEF VoiceInv
<1>2. /\ x3'.b1 + x3'.b2 = x3'.want /\ x3'.off + x3'.b1 = 0 /\ x3'.b2 <= x3'.off
      /\ x3' \in [off : Nat, b1 : Nat, b2 : Nat, want : Nat, fromWrite : BOOLEAN]
  BY DEF Voice!NoLock
<1> QED  BY <1>1, <1>2 DEF VoiceInv

(* The cursor stays in its ring when the mixer moves it.                   *)
LEMMA CursorAdvances ==
  ASSUME VoiceInv, NEW n \in Nat, Voice!MixGrain(n)
  PROVE  VoiceInv'
<1> DEFINE total == x1.posAcc + n * x1.rate
           q == total \div Rate
           p == x1.cursor + q * x1.blockAlign
           r == total % Rate
<1>0. Rate \in Nat /\ Rate # 0
  BY SoundAssumption DEF Voice!VoiceAssumption
<1>1. total \in Nat
  BY DEF VoiceInv
<1>2. q \in Nat /\ r \in Nat
  <2> HIDE DEF total
  <2> QED  BY <1>0, <1>1
<1>3. p \in Nat
  <2> HIDE DEF q
  <2> QED  BY <1>2 DEF VoiceInv
<1>4. x1' = IF q = 0 THEN [x1 EXCEPT !.posAcc = r]
            ELSE IF x1.looping THEN [[x1 EXCEPT !.posAcc = r] EXCEPT !.cursor = p % x1.len]
            ELSE IF p < x1.len THEN [[x1 EXCEPT !.posAcc = r] EXCEPT !.cursor = p]
            ELSE [x1 EXCEPT !.cursor = x1.len - x1.blockAlign, !.playing = FALSE, !.posAcc = 0]
  BY DEF Voice!MixGrain, Voice!Advanced
<1>5. x3' = Voice!NoLock
  BY DEF Voice!MixGrain
<1> HIDE DEF total, q, p, r
<1>6. p % x1.len \in Nat /\ p % x1.len < x1.len
  BY <1>3, InRing DEF VoiceInv
<1>7. CASE q = 0
  <2>1. x1' = [x1 EXCEPT !.posAcc = r]
    BY <1>4, <1>7
  <2> QED  BY <2>1, <1>2, <1>5 DEF VoiceInv, Voice!NoLock
<1>8. CASE q # 0 /\ x1.looping
  <2> DEFINE c == p % x1.len
  <2>1. x1' = [x1 EXCEPT !.posAcc = r, !.cursor = c] /\ c \in Nat /\ c < x1.len
    BY <1>4, <1>6, <1>8
  <2> HIDE DEF c
  <2> QED  BY <2>1, <1>2, <1>5, CursorMoves
<1>9. CASE q # 0 /\ ~x1.looping /\ p < x1.len
  <2>1. x1' = [x1 EXCEPT !.posAcc = r, !.cursor = p]
    BY <1>4, <1>9
  <2> QED  BY <2>1, <1>2, <1>3, <1>9, <1>5, CursorMoves
<1>10. CASE q # 0 /\ ~x1.looping /\ ~(p < x1.len)
  <2> DEFINE c == x1.len - x1.blockAlign
  <2>1. x1' = [x1 EXCEPT !.cursor = c, !.playing = FALSE, !.posAcc = 0]
    BY <1>4, <1>10
  <2>2. c \in Nat /\ c < x1.len
    BY DEF VoiceInv
  <2> HIDE DEF c
  <2> QED  BY <2>1, <2>2, <1>5, CursorMoves
<1> QED  BY <1>7, <1>8, <1>9, <1>10

(* A Lock's segments are what was asked for, once, and lie in the ring.    *)
LEMMA LockFits ==
  ASSUME VoiceInv, NEW how \in {"entire", "write", "at"}, NEW o \in Nat, NEW b \in Nat,
         NEW second \in BOOLEAN, Voice!Lock(how, o, b, second)
  PROVE  VoiceInv'
<1> DEFINE from == CASE how = "entire" -> 0
                     [] how = "write" -> Voice!WriteCursor(x1)
                     [] how = "at" -> o
           off == from % x1.len
           want == Voice!Least(IF how = "entire" THEN x1.len ELSE b, x1.len)
           b1 == Voice!Least(want, x1.len - off)
<1>1. x1.len \in Nat /\ x1.len > 0
  BY DEF VoiceInv
<1>2. from \in Nat
  BY WriteApart
<1>3. off \in Nat /\ off < x1.len
  <2> HIDE DEF from
  <2> QED  BY <1>1, <1>2, InRing
<1>4. want \in Nat /\ want <= x1.len
  BY <1>1 DEF Voice!Least
<1>5. /\ x3' = [off |-> off, b1 |-> b1, b2 |-> IF second THEN want - b1 ELSE 0,
                want |-> IF second THEN want ELSE b1, fromWrite |-> how = "write"]
      /\ x1' = x1
  BY DEF Voice!Lock
<1> HIDE DEF from, off, want
<1>6. b1 \in Nat /\ b1 <= want /\ off + b1 <= x1.len /\ want - b1 \in Nat /\ want - b1 <= off
  BY <1>1, <1>3, <1>4 DEF Voice!Least
<1> HIDE DEF b1
<1> QED  BY <1>3, <1>4, <1>5, <1>6 DEF VoiceInv

(* Every call on the voice, and every grain, keeps the invariant.          *)
LEMMA VoiceStep ==
  ASSUME VoiceInv, [Voice!Next]_(Voice!vars)
  PROVE  VoiceInv'
<1>1. CASE UNCHANGED Voice!vars
  BY <1>1 DEF Voice!vars, VoiceInv
<1>2. CASE \E loop \in BOOLEAN : Voice!Play(loop)
  BY <1>2 DEF Voice!Play, VoiceInv
<1>3. CASE Voice!Stop
  BY <1>3 DEF Voice!Stop, VoiceInv
<1>4. CASE \E k \in 0..(x1.len \div x1.blockAlign) : Voice!SetPosition(k)
  <2>1. PICK k \in Nat : Voice!SetPosition(k)
    BY <1>4
  <2> DEFINE p == k * x1.blockAlign
  <2>2. p \in Nat /\ x1' = [x1 EXCEPT !.cursor = p % x1.len, !.posAcc = 0] /\ x3' = x3
    BY <2>1 DEF Voice!SetPosition, VoiceInv
  <2> HIDE DEF p
  <2>3. p % x1.len \in Nat /\ p % x1.len < x1.len
    BY <2>2, InRing DEF VoiceInv
  <2> QED  BY <2>2, <2>3 DEF VoiceInv
<1>5. CASE \E f \in Freqs \cup {0, Rate} : Voice!SetFrequency(f)
  BY <1>5, SoundAssumption DEF Voice!VoiceAssumption, Voice!SetFrequency, VoiceInv
<1>6. CASE \E how \in {"entire", "write", "at"}, o, b \in {0, x1.blockAlign, x1.len - 1, x1.len + 1},
              second \in BOOLEAN : Voice!Lock(how, o, b, second)
  <2>1. {0, x1.blockAlign, x1.len - 1, x1.len + 1} \subseteq Nat
    BY DEF VoiceInv
  <2> QED  BY <1>6, <2>1, LockFits
<1>7. CASE \E n \in 1..Grain : Voice!MixGrain(n)
  <2>1. 1..Grain \subseteq Nat
    BY SoundAssumption DEF Voice!VoiceAssumption
  <2> QED  BY <1>7, <2>1, CursorAdvances
<1> QED  BY <1>1, <1>2, <1>3, <1>4, <1>5, <1>6, <1>7 DEF Voice!Next

(* The parts of a sink: x1 host, x2 sinks, x3 g_sink, x4 run, x5 th,       *)
(* x6 audio, x7 guest, x8 defer, x9 pump, x10 tick, x11 leaving,           *)
(* x12 stalled.                                                            *)
Sink == [kind : Sinks!Kinds, state : {"open", "gone"}, wrote : BOOLEAN]
Opens(s) == x2[s].state = "open"
Paced(s) == x2[s].kind = "vita"

SinkTypes ==
  /\ x1 \in [want : Sinks!Kinds, console : BOOLEAN]
  /\ x2 \in Seq(Sink) /\ x3 \in 0 .. Len(x2)
  /\ x4 \in BOOLEAN /\ x5 \in BOOLEAN
  /\ x6 \in [at : {"none", "top", "mix", "write", "ended"}, sk : 0 .. Len(x2)]
  /\ x7 \in [at : {"idle", "mix", "write", "join", "unpublish", "close"}, sk : 0 .. Len(x2), owed : Int]
  /\ x8 \in [armed : BOOLEAN, left : Int, next : Nat]
  /\ x9 \in [started : BOOLEAN, t0 : Nat, produced : Int]
  /\ x10 \in Nat
  /\ x11 \in [begun : BOOLEAN, joined : BOOLEAN]

(* The host thread, and who may start one: nobody while there is one.      *)
ThreadTrue ==
  /\ x6.at \in {"top", "mix", "write"} => x5
  /\ x4 => x5 /\ x6.at \in {"top", "mix", "write"}
  /\ x8.armed => ~x5
  /\ x3 = 0 /\ ~x11.begun => ~x5 /\ ~x8.armed

(* What is published is open; a real-time sink is with its thread, until   *)
(* a shutdown lowers the flag, and any other without one.                  *)
PublishedTrue ==
  /\ x3 # 0 => Opens(x3)
  /\ x3 # 0 /\ ~Paced(x3) => ~x5
  /\ x3 # 0 /\ Paced(x3) /\ x7.at \in {"idle", "mix", "write"} => x4

(* What the host thread and the guest have in hand.                        *)
InHand ==
  /\ x6.at = "write" /\ x6.sk # 0 => Opens(x6.sk)
  /\ x7.at = "write" /\ x7.sk # 0 => Opens(x7.sk) /\ ~Paced(x7.sk)
  /\ x7.at \in {"mix", "write"} => ~x5

(* A shutdown under way: what it waits for, and what it may close.         *)
LeavingTrue ==
  /\ x7.at \in {"join", "unpublish", "close"} => x11.begun /\ ~x4
  /\ x7.at = "join" => x5
  /\ x7.at = "unpublish" /\ x11.joined /\ x3 # 0 => ~x5
  /\ x7.at = "close" => x3 = 0 /\ x7.sk # 0 /\ (x11.joined <=> ~x5)
  /\ x7.at = "unpublish" /\ ~x11.joined => x5

(* Every open sink is published, is about to be closed, or was left to a   *)
(* thread that did not join.                                               *)
Orphan(s) == x11.begun /\ x5 /\ ~x4 /\ x7.at # "join"
OpenTrue ==
  \A s \in 1 .. Len(x2) : Opens(s) => s = x3 \/ (x7.at = "close" /\ s = x7.sk) \/ Orphan(s)

PumpTrue ==
  /\ x7.owed <= Second /\ (x7.at \notin {"mix", "write"} => x7.owed <= 0)
  /\ x9.started => x9.produced + x7.owed <= (x10 - x9.t0) * PerTick /\ x9.t0 <= x10
  /\ x7.at \in {"mix", "write"} => x9.started

SinkInv == /\ SinkTypes /\ ThreadTrue /\ PublishedTrue /\ InHand /\ LeavingTrue /\ OpenTrue /\ PumpTrue
           /\ x12 = FALSE

(* What the watchdog may have loaded; until a shutdown, a sink written to  *)
(* in real time stays open.                                                *)
WatchInv ==
  /\ x13.sk \in 0 .. Len(x2)
  /\ \A s \in 1 .. Len(x2) : x2[s].wrote => Paced(s) /\ (Opens(s) \/ x11.begun)
  /\ x6.at = "write" /\ x6.sk # 0 => Paced(x6.sk)

(* What the sinks promise follows from what is kept of them.               *)
LEMMA SinkPromise == SinkInv /\ WatchInv => Sinks!SinksSafe
<1> SUFFICES ASSUME SinkInv, WatchInv PROVE Sinks!SinksSafe
  OBVIOUS
<1> USE DEF SinkInv
<1>1. Sinks!NeverGone
  <2>1. \A a \in {x6, x7} : a.at = "write" /\ a.sk # 0 => x2[a.sk].state = "open"
    BY DEF InHand, Opens
  <2>2. ASSUME x13.sk # 0, x2[x13.sk].state = "gone"
        PROVE  x13.sk # x3 /\ (x11.begun \/ ~x2[x13.sk].wrote)
    <3>1. x13.sk \in 1 .. Len(x2) /\ ~Opens(x13.sk)
      BY <2>2 DEF WatchInv, Opens, SinkTypes
    <3> QED  BY <3>1, <2>2 DEF WatchInv, PublishedTrue
  <2> QED  BY <2>1, <2>2 DEF Sinks!NeverGone
<1>2. Sinks!OneMixer
  BY DEF Sinks!OneMixer, InHand, ThreadTrue
<1>3. Sinks!NoStall
  BY DEF Sinks!NoStall, Sinks!SelfPaced, InHand, PublishedTrue, LeavingTrue, ThreadTrue, Paced, SinkTypes
<1>4. Sinks!NoneForgotten
  BY DEF Sinks!NoneForgotten, Sinks!Idle, OpenTrue, Orphan, Opens, SinkTypes
<1>5. Sinks!PumpFollowsClock
  BY DEF Sinks!PumpFollowsClock, Sinks!Target, PumpTrue
<1> QED  BY <1>1, <1>2, <1>3, <1>4, <1>5 DEF Sinks!SinksSafe

(* No sink, no thread, nothing published.                                  *)
LEMMA SinkStart == Sinks!Init => SinkInv
<1> SUFFICES ASSUME Sinks!Init PROVE SinkInv
  OBVIOUS
<1> USE DEF Sinks!Init, Sinks!NoRetry, Sinks!Unpumped
<1>1. Len(x2) = 0 /\ x2 \in Seq(Sink)
  OBVIOUS
<1>2. SinkTypes
  <2>1. /\ x6 \in [at : {"none", "top", "mix", "write", "ended"}, sk : 0 .. 0]
        /\ x7 \in [at : {"idle", "mix", "write", "join", "unpublish", "close"}, sk : 0 .. 0, owed : Int]
    OBVIOUS
  <2>2. x8 \in [armed : BOOLEAN, left : Int, next : Nat] /\ x9 \in [started : BOOLEAN, t0 : Nat, produced : Int]
    OBVIOUS
  <2>3. x11 \in [begun : BOOLEAN, joined : BOOLEAN]
    OBVIOUS
  <2> QED  BY <1>1, <2>1, <2>2, <2>3 DEF SinkTypes
<1>3. ThreadTrue /\ PublishedTrue /\ InHand /\ LeavingTrue
  BY DEF ThreadTrue, PublishedTrue, InHand, LeavingTrue
<1>4. OpenTrue
  BY <1>1 DEF OpenTrue
<1>5. PumpTrue
  BY SoundAssumption DEF Sinks!SinkAssumption, PumpTrue
<1> QED  BY <1>2, <1>3, <1>4, <1>5 DEF SinkInv

(* Steps of the host thread.                                               *)
LEMMA AudioKeeps ==
  ASSUME SinkInv, Sinks!AudioBody \/ Sinks!AudioMixes
  PROVE  SinkInv'
<1> USE DEF SinkInv, Sinks!AudioBody, Sinks!AudioMixes, Sinks!AudioStep
<1>1. SinkTypes'
  BY DEF SinkTypes
<1>2. ThreadTrue' /\ PublishedTrue' /\ InHand'
  BY DEF SinkTypes, ThreadTrue, PublishedTrue, InHand, Opens, Paced
<1>3. LeavingTrue' /\ OpenTrue' /\ PumpTrue' /\ x12' = FALSE
  BY DEF LeavingTrue, OpenTrue, Orphan, PumpTrue, Opens
<1> QED  BY <1>1, <1>2, <1>3

(* One element of a sequence replaced.                                     *)
LEMMA OneReplaced ==
  ASSUME NEW S, NEW q \in Seq(S), NEW i \in 1 .. Len(q), NEW w \in S
  PROVE  /\ [q EXCEPT ![i] = w] \in Seq(S) /\ Len([q EXCEPT ![i] = w]) = Len(q)
         /\ \A k \in 1 .. Len(q) : [q EXCEPT ![i] = w][k] = IF k = i THEN w ELSE q[k]
OBVIOUS

(* A write marks its sink; the rest of the sink stays.                     *)
LEMMA WriteKeeps ==
  ASSUME SinkInv, Sinks!AudioWrites
  PROVE  SinkInv'
<1> USE DEF SinkInv, Sinks!AudioWrites, Sinks!AudioStep
<1>1. /\ x2' \in Seq(Sink) /\ Len(x2') = Len(x2)
      /\ \A s \in 1 .. Len(x2) : x2'[s].state = x2[s].state /\ x2'[s].kind = x2[s].kind
  <2>1. CASE x2' = x2
    BY <2>1 DEF SinkTypes
  <2>2. CASE x6.sk # 0 /\ x2' = [x2 EXCEPT ![x6.sk].wrote = TRUE]
    <3>1. x6.sk \in 1 .. Len(x2) /\ x2 \in Seq(Sink)
      BY <2>2 DEF SinkTypes
    <3>2. x2[x6.sk] \in Sink
      BY <3>1
    <3>3. [x2[x6.sk] EXCEPT !.wrote = TRUE] \in Sink
      BY <3>2 DEF Sink
    <3> DEFINE w == [x2[x6.sk] EXCEPT !.wrote = TRUE]
               i == x6.sk
    <3>4. x2' \in Seq(Sink) /\ Len(x2') = Len(x2)
      <4>1. x2' = [x2 EXCEPT ![i] = w] /\ i \in 1 .. Len(x2) /\ w \in Sink
        BY <2>2, <3>1, <3>3
      <4> HIDE DEF w, i, SinkInv, Sinks!AudioWrites, Sinks!AudioStep
      <4> QED  BY <4>1, <3>1, OneReplaced
    <3>5. \A s \in 1 .. Len(x2) : x2'[s] = x2[s] \/ (s = i /\ x2'[s] = w)
      <4>1. x2' = [x2 EXCEPT ![i] = w] /\ i \in 1 .. Len(x2) /\ w \in Sink
        BY <2>2, <3>1, <3>3
      <4> HIDE DEF w, i, SinkInv, Sinks!AudioWrites, Sinks!AudioStep
      <4> QED  BY <4>1, <3>1, OneReplaced
    <3>6. \A s \in 1 .. Len(x2) : x2[s] \in Sink
      BY <3>1
    <3> QED  BY <3>4, <3>5, <3>6 DEF Sink
  <2> QED  BY <2>1, <2>2
<1>2. SinkTypes'
  BY <1>1 DEF SinkTypes
<1>3. \A s \in 1 .. Len(x2) : (Opens(s)' <=> Opens(s)) /\ (Paced(s)' <=> Paced(s))
  BY <1>1 DEF Opens, Paced
<1>4. ThreadTrue' /\ PublishedTrue' /\ InHand'
  BY <1>3 DEF SinkTypes, ThreadTrue, PublishedTrue, InHand
<1>5. LeavingTrue' /\ OpenTrue' /\ PumpTrue' /\ x12' = FALSE
  BY <1>1, <1>3 DEF LeavingTrue, OpenTrue, Orphan, PumpTrue
<1> QED  BY <1>2, <1>4, <1>5

(* Steps of the guest's mixing, and of the clock.                          *)
LEMMA MixKeeps ==
  ASSUME SinkInv, Sinks!GuestMixes \/ Sinks!GuestWrites
  PROVE  SinkInv'
<1> USE DEF SinkInv
<1>a. UNCHANGED <<x1, x2, x3, x4, x5, x6, x8, x10, x11, x12>>
  BY DEF Sinks!GuestMixes, Sinks!GuestWrites, Sinks!sound
<1>t. /\ x7 \in [at : {"idle", "mix", "write", "join", "unpublish", "close"}, sk : 0 .. Len(x2), owed : Int]
      /\ x9 \in [started : BOOLEAN, t0 : Nat, produced : Int] /\ x3 \in 0 .. Len(x2) /\ Len(x2) \in Nat
  BY DEF SinkTypes
<1>b. /\ x9' \in [started : BOOLEAN, t0 : Nat, produced : Int]
      /\ UNCHANGED <<x9.started, x9.t0>>
      /\ x7' \in [at : {"idle", "mix", "write", "join", "unpublish", "close"}, sk : 0 .. Len(x2), owed : Int]
  <2>1. CASE Sinks!GuestMixes
    <3> DEFINE k == IF x3 # 0 /\ Sinks!SelfPaced(x3) THEN 0 ELSE x3
    <3>1. k \in 0 .. Len(x2) /\ x7' = [x7 EXCEPT !.at = "write", !.sk = k] /\ x9' = x9
      BY <2>1, <1>t DEF Sinks!GuestMixes
    <3> HIDE DEF k
    <3> QED  BY <3>1, <1>t
  <2>2. CASE Sinks!GuestWrites
    BY <2>2, <1>t DEF Sinks!GuestWrites
  <2> QED  BY <2>1, <2>2
<1>c. /\ x7.at \in {"mix", "write"} /\ x7'.at \in {"idle", "mix", "write"}
      /\ x7'.at = "write" => x7'.sk = IF x3 # 0 /\ Paced(x3) THEN 0 ELSE x3
      /\ x9'.produced + x7'.owed = x9.produced + x7.owed /\ x7'.owed <= x7.owed
      /\ x7'.at = "idle" => x7'.owed <= 0
  <2>1. CASE Sinks!GuestMixes
    BY <2>1, <1>t DEF Sinks!GuestMixes, Sinks!SelfPaced, Paced
  <2>2. CASE Sinks!GuestWrites
    BY <2>2, <1>t DEF Sinks!GuestWrites
  <2> QED  BY <2>1, <2>2
<1>1. SinkTypes'
  BY <1>a, <1>b DEF SinkTypes
<1>2. ThreadTrue' /\ PublishedTrue'
  BY <1>a, <1>c DEF ThreadTrue, PublishedTrue, Opens, Paced
<1>3. InHand'
  BY <1>a, <1>c DEF InHand, PublishedTrue, Opens, Paced
<1>4. LeavingTrue' /\ OpenTrue' /\ x12' = FALSE
  BY <1>a, <1>c DEF LeavingTrue, OpenTrue, Orphan, Opens
<1>5. PumpTrue'
  <2> DEFINE now1 == (x10 - x9.t0) * PerTick
  <2>1. x9.started => x9.produced + x7.owed <= now1 /\ x9.t0 <= x10
    BY DEF PumpTrue
  <2>4. (x10' - x9'.t0) * PerTick = now1
    BY <1>a, <1>b
  <2>2. x9'.started = x9.started /\ (x9.started => x9'.produced + x7'.owed <= now1)
    <3> HIDE DEF now1
    <3> QED  BY <2>1, <1>b, <1>c
  <2>3. x7'.owed <= Second
    BY <1>b, <1>c, SoundAssumption DEF PumpTrue, SinkTypes, Sinks!SinkAssumption
  <2>5. x9'.t0 = x9.t0 /\ x10' = x10 /\ (x7'.at \notin {"mix", "write"} => x7'.owed <= 0)
        /\ (x7'.at \in {"mix", "write"} => x9'.started)
    BY <1>a, <1>b, <1>c DEF PumpTrue
  <2> HIDE DEF now1
  <2> QED  BY <2>1, <2>2, <2>3, <2>4, <2>5 DEF PumpTrue
<1> QED  BY <1>1, <1>2, <1>3, <1>4, <1>5

(* More time is more to make.                                              *)
LEMMA MoreTime ==
  ASSUME NEW a \in Nat, NEW b \in Nat, a <= b, NEW k \in Nat
  PROVE  a * k <= b * k
OBVIOUS

(* The clock moves alone: everything kept is of the rest.                  *)
LEMMA TickKeeps ==
  ASSUME SinkInv, Sinks!Tick
  PROVE  SinkInv'
<1> USE DEF SinkInv, Sinks!Tick, Sinks!sound
<1>1. SinkTypes'
  BY DEF SinkTypes
<1>2. ThreadTrue' /\ PublishedTrue' /\ InHand'
  BY DEF ThreadTrue, PublishedTrue, InHand, Opens, Paced
<1>3. LeavingTrue' /\ OpenTrue' /\ x12' = FALSE
  BY DEF LeavingTrue, OpenTrue, Orphan, Opens
<1>4. PumpTrue'
  <2> DEFINE now1 == (x10 - x9.t0) * PerTick
             now2 == (x10' - x9.t0) * PerTick
  <2>1. x9.started => now1 <= now2
    BY MoreTime, SoundAssumption DEF Sinks!SinkAssumption, PumpTrue, SinkTypes
  <2>2. now1 \in Int /\ now2 \in Int
    BY SoundAssumption DEF Sinks!SinkAssumption, SinkTypes
  <2>3. x9' = x9 /\ x7' = x7 /\ x9 \in [started : BOOLEAN, t0 : Nat, produced : Int] /\ x7.owed \in Int
    BY DEF SinkTypes
  <2>4. x9.started => x9.produced + x7.owed <= now1
    BY DEF PumpTrue
  <2>5. x9.started => x9.t0 <= x10'
    BY DEF PumpTrue, SinkTypes
  <2> HIDE DEF now1
  <2>6. x9.started => x9.produced + x7.owed <= now2
    <3> HIDE DEF now2
    <3> QED  BY <2>1, <2>2, <2>3, <2>4
  <2> QED  BY <2>3, <2>5, <2>6 DEF PumpTrue
<1> QED  BY <1>1, <1>2, <1>3, <1>4

(* Steps of a shutdown.                                                    *)
LEMMA LeavingKeeps ==
  ASSUME SinkInv, Sinks!Lower \/ Sinks!ThreadStop \/ Sinks!Unpublish
  PROVE  SinkInv'
<1> USE DEF SinkInv
<1>t. /\ x7 \in [at : {"idle", "mix", "write", "join", "unpublish", "close"}, sk : 0 .. Len(x2), owed : Int]
      /\ x11 \in [begun : BOOLEAN, joined : BOOLEAN] /\ x3 \in 0 .. Len(x2) /\ Len(x2) \in Nat
  BY DEF SinkTypes
<1>a. UNCHANGED <<x1, x2, x6, x8, x9, x10, x12>>
  BY DEF Sinks!Lower, Sinks!ThreadStop, Sinks!Unpublish
<1> DEFINE At == {"idle", "join", "unpublish", "close"}
           Guest == [at : {"idle", "mix", "write", "join", "unpublish", "close"}, sk : 0 .. Len(x2), owed : Int]
           LeavingRecs == [begun : BOOLEAN, joined : BOOLEAN]
           IsLower == /\ x7.at = "idle" /\ x4' = FALSE /\ x11'.begun /\ x11'.joined
                      /\ x7'.at = (IF x4 THEN "join" ELSE "unpublish") /\ x3' = x3 /\ x5' = x5
           IsStop == /\ x7.at = "join" /\ x7'.at = "unpublish" /\ x4' = x4 /\ x3' = x3 /\ x11'.begun = x11.begun
                     /\ IF x6.at = "ended" THEN x11'.joined /\ ~x5' ELSE ~x11'.joined /\ x5' = x5
           IsUnpublish == /\ x7.at = "unpublish" /\ x7'.at = (IF x3 = 0 THEN "idle" ELSE "close") /\ x7'.sk = x3
                          /\ x3' = 0 /\ x4' = x4 /\ x5' = x5 /\ x11' = x11
<1>b. /\ x7'.at \in At /\ x7'.sk \in 0 .. Len(x2) /\ x7'.owed = x7.owed
      /\ x7' \in Guest /\ x11' \in LeavingRecs /\ x5' \in BOOLEAN
      /\ IsLower \/ IsStop \/ IsUnpublish
  <2>1. CASE Sinks!Lower
    <3>1. x11' \in LeavingRecs /\ x11'.begun /\ x11'.joined
      BY <2>1 DEF Sinks!Lower
    <3>2. x7' \in Guest /\ x7'.at = (IF x4 THEN "join" ELSE "unpublish") /\ x7'.sk = x7.sk /\ x7'.owed = x7.owed
      BY <2>1, <1>t DEF Sinks!Lower
    <3> QED  BY <2>1, <3>1, <3>2, <1>t DEF Sinks!Lower, Sinks!Idle, SinkTypes
  <2>2. CASE Sinks!ThreadStop
    <3>1. x7' \in Guest /\ x7'.at = "unpublish" /\ x7'.sk = x7.sk /\ x7'.owed = x7.owed
      BY <2>2, <1>t DEF Sinks!ThreadStop
    <3>2. CASE x6.at = "ended"
      <4>1. x11' = [x11 EXCEPT !.joined = TRUE] /\ ~x5' /\ x5' \in BOOLEAN
        BY <2>2, <3>2 DEF Sinks!ThreadStop
      <4>2. x11' \in LeavingRecs /\ x11'.joined /\ x11'.begun = x11.begun
        BY <4>1, <1>t
      <4> QED  BY <2>2, <3>1, <3>2, <4>1, <4>2, <1>t DEF Sinks!ThreadStop
    <3>3. CASE x6.at # "ended"
      <4>1. x11' = [x11 EXCEPT !.joined = FALSE] /\ x5' = x5
        BY <2>2, <3>3 DEF Sinks!ThreadStop, SinkTypes
      <4>2. x11' \in LeavingRecs /\ ~x11'.joined /\ x11'.begun = x11.begun
        BY <4>1, <1>t
      <4> QED  BY <2>2, <3>1, <3>3, <4>1, <4>2, <1>t DEF Sinks!ThreadStop, SinkTypes
    <3> QED  BY <3>2, <3>3
  <2>3. CASE Sinks!Unpublish
    <3>1. x7' \in Guest /\ x7'.at = (IF x3 = 0 THEN "idle" ELSE "close") /\ x7'.sk = x3 /\ x7'.owed = x7.owed
      BY <2>3, <1>t DEF Sinks!Unpublish
    <3> QED  BY <2>3, <3>1, <1>t DEF Sinks!Unpublish, SinkTypes
  <2> QED  BY <2>1, <2>2, <2>3
<1>c. x4 \in BOOLEAN /\ x5 \in BOOLEAN /\ x3 \in 0 .. Len(x2) /\ x6.at \in {"none", "top", "mix", "write", "ended"}
      /\ x11.joined \in BOOLEAN /\ x11.begun \in BOOLEAN /\ x8.armed \in BOOLEAN /\ Len(x2) \in Nat
  BY DEF SinkTypes
<1>1. SinkTypes'
  <2> HIDE DEF Guest, LeavingRecs
  <2>3. x3' \in 0 .. Len(x2') /\ Len(x2') = Len(x2)
    BY <1>a, <1>b, <1>c
  <2>4. x4' \in BOOLEAN
    BY <1>b, <1>c
  <2>1. x3' \in 0 .. Len(x2') /\ x4' \in BOOLEAN /\ x5' \in BOOLEAN /\ Len(x2') = Len(x2)
    BY <1>b, <2>3, <2>4
  <2>2. x7' \in Guest /\ x11' \in LeavingRecs
    BY <1>b
  <2> QED  BY <2>1, <2>2, <1>a DEF SinkTypes, Guest, LeavingRecs
<1> HIDE DEF Guest, LeavingRecs
<1>2. ThreadTrue'
  BY <1>a, <1>b, <1>c DEF ThreadTrue, LeavingTrue
<1>3. PublishedTrue'
  BY <1>a, <1>b, <1>c DEF ThreadTrue, PublishedTrue, Opens, Paced, LeavingTrue
<1>4. InHand'
  BY <1>a, <1>b DEF InHand, Opens, Paced
<1>5. LeavingTrue'
  BY <1>a, <1>b, <1>c DEF LeavingTrue, ThreadTrue, PublishedTrue
<1>6. OpenTrue'
  BY <1>a, <1>b, <1>c DEF OpenTrue, Orphan, Opens, LeavingTrue, ThreadTrue
<1>7. PumpTrue' /\ x12' = FALSE
  BY <1>a, <1>b DEF PumpTrue
<1> QED  BY <1>1, <1>2, <1>3, <1>4, <1>5, <1>6, <1>7

(* The close: only of a sink no thread has.                                *)
LEMMA CloseKeeps ==
  ASSUME SinkInv, Sinks!Close
  PROVE  SinkInv'
<1> USE DEF SinkInv, Sinks!Close, Sinks!Closes
<1>0. x7.sk \in 1 .. Len(x2) /\ x2 \in Seq(Sink)
  BY DEF SinkTypes, LeavingTrue
<1>1. /\ x2' \in Seq(Sink) /\ Len(x2') = Len(x2)
      /\ \A s \in 1 .. Len(x2) : s # x7.sk => x2'[s] = x2[s]
      /\ x11.joined => x2'[x7.sk].state = "gone"
      /\ ~x11.joined => x2' = x2
  <2>1. x2[x7.sk] \in Sink
    BY <1>0
  <2>2. [x2[x7.sk] EXCEPT !.state = "gone"] \in Sink
        /\ [x2[x7.sk] EXCEPT !.state = "gone"].state = "gone"
    BY <2>1 DEF Sink
  <2> QED  BY <1>0, <2>2
<1>a. /\ UNCHANGED <<x1, x3, x4, x5, x6, x8, x9, x10, x11, x12>>
      /\ x7' \in [at : {"idle", "mix", "write", "join", "unpublish", "close"}, sk : 0 .. Len(x2), owed : Int]
      /\ x7.at = "close" /\ x7'.at = "idle" /\ x7'.owed = x7.owed
  <2>1. /\ x7 \in [at : {"idle", "mix", "write", "join", "unpublish", "close"}, sk : 0 .. Len(x2), owed : Int]
        /\ x7' = [x7 EXCEPT !.at = "idle", !.sk = 0] /\ Len(x2) \in Nat /\ x7.at = "close"
    BY DEF SinkTypes
  <2>2. UNCHANGED <<x1, x3, x4, x5, x6, x8, x9, x10, x11, x12>>
    OBVIOUS
  <2>3. /\ x7' \in [at : {"idle", "mix", "write", "join", "unpublish", "close"}, sk : 0 .. Len(x2), owed : Int]
        /\ x7'.at = "idle" /\ x7'.owed = x7.owed
    <3> HIDE DEF SinkInv, Sinks!Close
    <3>1. PICK g \in [at : {"idle", "mix", "write", "join", "unpublish", "close"}, sk : 0 .. Len(x2), owed : Int] :
            x7 = g
      BY <2>1
    <3>2. x7' = [g EXCEPT !.at = "idle", !.sk = 0] /\ 0 \in 0 .. Len(x2)
      BY <2>1, <3>1
    <3> QED  BY <3>1, <3>2
  <2> QED  BY <2>1, <2>2, <2>3
<1>2. SinkTypes'
  BY <1>1, <1>a DEF SinkTypes
<1>3. \A s \in 1 .. Len(x2) : s # x7.sk \/ ~x11.joined =>
        (Opens(s)' <=> Opens(s)) /\ (Paced(s)' <=> Paced(s))
  BY <1>1 DEF Opens, Paced
<1>4. ThreadTrue' /\ PublishedTrue'
  BY DEF SinkTypes, ThreadTrue, PublishedTrue, LeavingTrue
<1>5. InHand'
  BY <1>3 DEF SinkTypes, ThreadTrue, InHand, LeavingTrue
<1>6. LeavingTrue' /\ PumpTrue' /\ x12' = FALSE
  BY DEF LeavingTrue, PumpTrue, SinkTypes
<1>7. OpenTrue'
  BY <1>1, <1>3 DEF OpenTrue, Orphan, LeavingTrue, SinkTypes, Opens
<1> QED  BY <1>2, <1>4, <1>5, <1>6, <1>7

(* What the sound is while the guest is in none of its steps.              *)
Sounds ==
  /\ x2 \in Seq(Sink) /\ x3 \in 0 .. Len(x2)
  /\ x4 \in BOOLEAN /\ x5 \in BOOLEAN
  /\ x6 \in [at : {"none", "top", "mix", "write", "ended"}, sk : 0 .. Len(x2)]
  /\ x8 \in [armed : BOOLEAN, left : Int, next : Nat]
  /\ ThreadTrue
  /\ x3 # 0 => Opens(x3)
  /\ x3 # 0 /\ ~Paced(x3) => ~x5
  /\ x3 # 0 /\ Paced(x3) => x4
  /\ x6.at = "write" /\ x6.sk # 0 => Opens(x6.sk)
  /\ \A s \in 1 .. Len(x2) : Opens(s) => s = x3 \/ (x11.begun /\ x5 /\ ~x4)
  /\ x12 = FALSE

(* Between two calls: an open sink is published or left to its thread.     *)
LEMMA SoundsNow == SinkInv /\ Sinks!Idle => Sounds
BY DEF SinkInv, Sinks!Idle, Sounds, SinkTypes, PublishedTrue, InHand, OpenTrue, Orphan

(* Sinks made after those there are.                                       *)
LEMMA OneMore ==
  ASSUME NEW S, NEW q \in Seq(S), NEW a \in S
  PROVE  /\ Append(q, a) \in Seq(S) /\ Len(Append(q, a)) = Len(q) + 1
         /\ \A k \in 1 .. Len(q) : Append(q, a)[k] = q[k]
         /\ Append(q, a)[Len(q) + 1] = a
OBVIOUS

(* Appending two.                                                          *)
LEMMA TwoMore ==
  ASSUME NEW S, NEW q \in Seq(S), NEW a \in S, NEW b \in S
  PROVE  /\ q \o <<a, b>> \in Seq(S) /\ Len(q \o <<a, b>>) = Len(q) + 2
         /\ \A k \in 1 .. Len(q) : (q \o <<a, b>>)[k] = q[k]
         /\ (q \o <<a, b>>)[Len(q) + 1] = a /\ (q \o <<a, b>>)[Len(q) + 2] = b
<1>1. <<a, b>> \in Seq(S) /\ Len(<<a, b>>) = 2 /\ <<a, b>>[1] = a /\ <<a, b>>[2] = b
  OBVIOUS
<1> DEFINE r == <<a, b>>
<1> HIDE DEF r
<1>2. r \in Seq(S) /\ Len(r) = 2 /\ r[1] = a /\ r[2] = b
  BY <1>1 DEF r
<1>5. q \in Seq(S) /\ r \in Seq(S) /\ Len(q) \in Nat
  BY <1>2
<1>3. /\ q \o r \in Seq(S) /\ Len(q \o r) = Len(q) + Len(r)
      /\ \A k \in 1 .. Len(q) + Len(r) : (q \o r)[k] = IF k <= Len(q) THEN q[k] ELSE r[k - Len(q)]
  BY <1>5, ConcatProperties, Zenon
<1>4. \A k \in 1 .. Len(q) : (q \o r)[k] = q[k]
  BY <1>2, <1>3, <1>5
<1>6. (q \o r)[Len(q) + 1] = a /\ (q \o r)[Len(q) + 2] = b
  BY <1>2, <1>3, <1>5
<1> QED  BY <1>2, <1>3, <1>4, <1>6 DEF r

(* One sink more, closed: nothing published changes.                       *)
LEMMA ClosedMore ==
  ASSUME Sounds, UNCHANGED <<x3, x5, x6, x11, x12>>, x4' = x4 \/ x4' = FALSE, ~x5,
         x2' = Append(x2, Sinks!Made("vita", "gone")),
         x8' \in [armed : BOOLEAN, left : Int, next : Nat], x8'.armed => x8.armed
  PROVE  Sounds' /\ Len(x2) <= Len(x2')
<1>1. Sinks!Made("vita", "gone") \in Sink /\ Sinks!Made("vita", "gone").state = "gone"
  BY DEF Sinks!Made, Sink, Sinks!Kinds
<1>2. /\ x2' \in Seq(Sink) /\ Len(x2') = Len(x2) + 1 /\ Len(x2) \in Nat
      /\ \A k \in 1 .. Len(x2) : x2'[k] = x2[k]
      /\ x2'[Len(x2) + 1].state = "gone"
  BY <1>1, OneMore DEF Sounds
<1>a. \A k \in 1 .. Len(x2) : (x2'[k].state = "open" <=> x2[k].state = "open")
                              /\ (x2'[k].kind = "vita" <=> x2[k].kind = "vita")
  BY <1>2
<1>b. \A k \in 1 .. Len(x2) : (Opens(k)' <=> Opens(k)) /\ (Paced(k)' <=> Paced(k))
  BY <1>a DEF Opens, Paced
<1>3. /\ \A k \in 1 .. Len(x2) : (Opens(k)' <=> Opens(k)) /\ (Paced(k)' <=> Paced(k))
      /\ ~(x2'[Len(x2) + 1].state = "open")
  BY <1>2, <1>b
<1>e. x4 \in BOOLEAN
  BY DEF Sounds
<1>c. x4' \in BOOLEAN /\ (x4' => x4)
  <2>1. CASE x4' = x4
    BY <1>e, <2>1
  <2>2. CASE x4' = FALSE
    BY <2>2
  <2> QED  BY <2>1, <2>2
<1>d. x5' \in BOOLEAN /\ x12' = FALSE
  BY DEF Sounds
<1>4. ThreadTrue' /\ x4' \in BOOLEAN /\ x5' \in BOOLEAN /\ x12' = FALSE
  BY <1>c, <1>d DEF ThreadTrue, Sounds
<1>5. /\ x3' \in 0 .. Len(x2')
      /\ x6' \in [at : {"none", "top", "mix", "write", "ended"}, sk : 0 .. Len(x2')]
  BY <1>2 DEF Sounds
<1>6. /\ x3' # 0 => Opens(x3)'
      /\ x3' # 0 /\ ~Paced(x3)' => ~x5'
      /\ x3' # 0 /\ Paced(x3)' => x4'
  BY <1>3 DEF Sounds, ThreadTrue
<1>7. x6'.at = "write" /\ x6'.sk # 0 => Opens(x6.sk)'
  BY <1>3 DEF Sounds
<1>8. \A s \in 1 .. Len(x2') : Opens(s)' => s = x3' \/ (x11'.begun /\ x5' /\ ~x4')
  BY <1>2, <1>3 DEF Sounds, Opens
<1> QED  BY <1>2, <1>4, <1>5, <1>6, <1>7, <1>8 DEF Sounds

(* A real-time sink with its thread, after sinks that are all closed.      *)
LEMMA HandedOver ==
  ASSUME Sounds, NEW q \in Seq(Sink), \A k \in 1 .. Len(q) : q[k].state # "open", Len(q) = Len(x2),
         x2' = Append(q, Sinks!Made("vita", "open")), x3' = Len(x2) + 1, x4' = TRUE, x5' = TRUE,
         x6' = Sinks!Started, x12' = FALSE, x11' = x11,
         x8' \in [armed : BOOLEAN, left : Int, next : Nat], ~x8'.armed
  PROVE  Sounds' /\ Len(x2) <= Len(x2')
<1>1. Sinks!Made("vita", "open") \in Sink
      /\ Sinks!Made("vita", "open").state = "open" /\ Sinks!Made("vita", "open").kind = "vita"
  BY DEF Sinks!Made, Sink, Sinks!Kinds
<1>2. /\ x2' \in Seq(Sink) /\ Len(x2') = Len(x2) + 1 /\ Len(x2) \in Nat
      /\ \A k \in 1 .. Len(x2) : x2'[k] = q[k]
      /\ x2'[Len(x2) + 1].state = "open" /\ x2'[Len(x2) + 1].kind = "vita"
  BY <1>1, OneMore DEF Sounds
<1>3. /\ \A k \in 1 .. Len(x2) : ~Opens(k)'
      /\ Opens(x3)' /\ Paced(x3)'
  BY <1>2 DEF Opens, Paced
<1>4. ThreadTrue' /\ x4' \in BOOLEAN /\ x5' \in BOOLEAN
  BY <1>2 DEF ThreadTrue, Sinks!Started
<1>5. /\ x3' \in 0 .. Len(x2')
      /\ x6' \in [at : {"none", "top", "mix", "write", "ended"}, sk : 0 .. Len(x2')] /\ x6'.at = "top"
  BY <1>2 DEF Sinks!Started
<1>6. \A s \in 1 .. Len(x2') : Opens(s)' => s = x3'
  BY <1>2, <1>3
<1> QED  BY <1>2, <1>3, <1>4, <1>5, <1>6 DEF Sounds

(* Nothing but the retry, or nothing at all.                               *)
LEMMA RetryAlone ==
  ASSUME Sounds, UNCHANGED <<x2, x3, x4, x5, x6, x11, x12>>,
         x8' \in [armed : BOOLEAN, left : Int, next : Nat], x8'.armed => x8.armed
  PROVE  Sounds' /\ Len(x2) <= Len(x2')
<1>0. Len(x2) <= Len(x2')
  BY DEF Sounds
<1>1. ThreadTrue'
  BY DEF Sounds, ThreadTrue
<1>2. \A k \in 1 .. Len(x2) : (Opens(k)' <=> Opens(k)) /\ (Paced(k)' <=> Paced(k))
  BY DEF Opens, Paced
<1> QED  BY <1>0, <1>1, <1>2 DEF Sounds

(* A deferred attempt comes while there is no thread, so it neither drains *)
(* a sink nor leaves one to a thread.                                      *)
LEMMA AttemptKeeps ==
  ASSUME SinkInv, Sinks!Idle, x8.armed, NEW opens \in BOOLEAN, NEW starts \in BOOLEAN,
         Sinks!Attempt(opens, starts), x11' = x11
  PROVE  Sounds' /\ Len(x2) <= Len(x2')
<1>1. /\ Sounds /\ ~x5 /\ x12 = FALSE
      /\ x8 \in [armed : BOOLEAN, left : Int, next : Nat] /\ x10 \in Nat /\ Delay \in Nat
      /\ x2 \in Seq(Sink) /\ x3 \in 0 .. Len(x2)
  BY SoundsNow, SoundAssumption DEF SinkInv, SinkTypes, ThreadTrue, Sinks!SinkAssumption
<1>2. x10 + Delay \in Nat
  BY <1>1
<1>3. ~Sinks!Drains(Sinks!Made("vita", "open"))
  BY DEF Sinks!Drains, Sinks!Made
<1>4. x3 # 0 => ~Sinks!Drains(x2[x3])
  BY <1>1 DEF Sinks!Drains, Sounds, ThreadTrue, Paced
<1>5. CASE opens /\ starts
  <2> DEFINE q == [s \in DOMAIN x2 |-> IF s = x3 THEN [x2[s] EXCEPT !.state = "gone"] ELSE x2[s]]
  <2>1. DOMAIN x2 = 1 .. Len(x2) /\ Len(x2) \in Nat /\ \A k \in 1 .. Len(x2) : x2[k] \in Sink
    BY <1>1
  <2>2. \A k \in 1 .. Len(x2) : q[k] \in Sink /\ q[k].state # "open"
    <3> SUFFICES ASSUME NEW k \in 1 .. Len(x2) PROVE q[k] \in Sink /\ q[k].state # "open"
      OBVIOUS
    <3>1. CASE k = x3
      <4>1. q[k] = [x2[k] EXCEPT !.state = "gone"] /\ x2[k] \in Sink
        BY <2>1, <3>1
      <4> HIDE DEF q
      <4> QED  BY <4>1 DEF Sink
    <3>2. CASE k # x3
      <4>1. q[k] = x2[k] /\ x2[k] \in Sink
        BY <2>1, <3>2
      <4>2. ~Opens(k)
        BY <1>1, <3>2 DEF Sounds
      <4> HIDE DEF q
      <4> QED  BY <4>1, <4>2 DEF Opens
    <3> QED  BY <3>1, <3>2
  <2>3. DOMAIN q = 1 .. Len(x2)
    BY <2>1
  <2>4. q \in Seq(Sink) /\ Len(q) = Len(x2)
    <3>1. q \in [1 .. Len(x2) -> Sink]
      BY <2>1, <2>2
    <3> HIDE DEF q
    <3> QED  BY <3>1, <2>1
  <2>5. /\ x2' = Append(q, Sinks!Made("vita", "open")) /\ x3' = Len(x2) + 1
        /\ x4' = TRUE /\ x5' = TRUE /\ x6' = IF x5 THEN x6 ELSE Sinks!Started
        /\ x8' = [armed |-> FALSE, left |-> x8.left - 1, next |-> x10 + Delay]
        /\ x12' = (x12 \/ (x3 # 0 /\ Sinks!Drains(x2[x3])))
    BY <1>5, <2>1 DEF Sinks!Attempt, Sinks!HandOver
  <2>6. x6' = Sinks!Started /\ x12' = FALSE
    BY <2>5, <1>1, <1>4
  <2>7. x8' \in [armed : BOOLEAN, left : Int, next : Nat] /\ ~x8'.armed
    BY <2>5, <1>1, <1>2
  <2> HIDE DEF q
  <2> QED  BY <1>1, <2>2, <2>4, <2>5, <2>6, <2>7, HandedOver
<1>6. CASE ~(opens /\ starts)
  <2>1. /\ x2' = Append(x2, Sinks!Made("vita", "gone"))
        /\ x4' = IF opens THEN FALSE ELSE x4
        /\ x8' = [x8 EXCEPT !.left = @ - 1, !.next = x10 + Delay]
        /\ x12' = (x12 \/ Sinks!Drains(Sinks!Made("vita", "open")))
        /\ UNCHANGED <<x3, x5, x6>>
    BY <1>6 DEF Sinks!Attempt
  <2>2. x12' = FALSE /\ (x4' = x4 \/ x4' = FALSE)
    BY <2>1, <1>1, <1>3
  <2>3. x8' \in [armed : BOOLEAN, left : Int, next : Nat] /\ (x8'.armed => x8.armed)
    <3>1. x8' = [x8 EXCEPT !.left = x8.left - 1, !.next = x10 + Delay] /\ x8.left - 1 \in Int
      BY <2>1, <1>1
    <3> DEFINE l == x8.left - 1
               n == x10 + Delay
    <3>2. x8' = [x8 EXCEPT !.left = l, !.next = n] /\ l \in Int /\ n \in Nat
      BY <3>1, <1>2
    <3> HIDE DEF l, n
    <3> QED  BY <3>2, <1>1
  <2>4. UNCHANGED <<x3, x5, x6, x11, x12>>
    BY <2>1, <2>2, <1>1
  <2> QED  BY <1>1, <2>1, <2>2, <2>3, <2>4, ClosedMore
<1> QED  BY <1>5, <1>6

(* An attempt that is due, one that is not, and the last one.              *)
LEMMA DeferredKeeps ==
  ASSUME SinkInv, Sinks!Idle, Sinks!TryDeferredSink, x11' = x11
  PROVE  Sounds' /\ Len(x2) <= Len(x2')
<1>1. /\ Sounds /\ x10 \in Nat /\ Delay \in Nat
      /\ x8 \in [armed : BOOLEAN, left : Int, next : Nat]
  BY SoundsNow, SoundAssumption DEF SinkInv, SinkTypes, Sinks!SinkAssumption
<1>2. x10 + Delay \in Nat
  BY <1>1
<1>3. CASE UNCHANGED <<x8, Sinks!sound>>
  BY <1>3, <1>1, RetryAlone DEF Sinks!sound
<1>4. CASE x8' = [x8 EXCEPT !.next = x10 + Delay] /\ UNCHANGED Sinks!sound
  <2>1. x8' \in [armed : BOOLEAN, left : Int, next : Nat] /\ (x8'.armed => x8.armed)
    BY <1>1, <1>2, <1>4
  <2> QED  BY <1>4, <1>1, <2>1, RetryAlone DEF Sinks!sound
<1>5. CASE x8' = [x8 EXCEPT !.armed = FALSE, !.next = x10 + Delay] /\ UNCHANGED Sinks!sound
  <2>1. x8' \in [armed : BOOLEAN, left : Int, next : Nat] /\ (x8'.armed => x8.armed)
    BY <1>1, <1>2, <1>5
  <2> QED  BY <1>5, <1>1, <2>1, RetryAlone DEF Sinks!sound
<1>6. CASE x8.armed /\ \E opens \in BOOLEAN, starts \in Sinks!Starts : Sinks!Attempt(opens, starts)
  <2>1. Sinks!Starts \subseteq BOOLEAN
    BY DEF Sinks!Starts
  <2> QED  BY <1>6, <2>1, AttemptKeeps
<1> QED  BY <1>3, <1>4, <1>5, <1>6 DEF Sinks!TryDeferredSink, Sinks!Due

(* Opening a sink: of another kind, with its thread, or without.           *)
LEMMA OpenKeeps ==
  ASSUME SinkInv, Sinks!Idle, ~x11.begun, x3 = 0, x11' = x11,
         NEW kind \in Sinks!Kinds, NEW starts \in BOOLEAN, Sinks!OpenSink(kind, starts)
  PROVE  Sounds' /\ Len(x2) <= Len(x2')
<1>1. /\ Sounds /\ ~x5 /\ ~x8.armed /\ x12 = FALSE /\ x5 \in BOOLEAN /\ x4 \in BOOLEAN /\ ~x4
      /\ x8 \in [armed : BOOLEAN, left : Int, next : Nat] /\ Tries \in Nat
      /\ x2 \in Seq(Sink) /\ Len(x2) \in Nat
      /\ x6 \in [at : {"none", "top", "mix", "write", "ended"}, sk : 0 .. Len(x2)]
      /\ x6.at \notin {"top", "mix", "write"}
  BY SoundsNow, SoundAssumption DEF SinkInv, SinkTypes, ThreadTrue, Sinks!SinkAssumption
<1>2. \A k \in 1 .. Len(x2) : ~Opens(k)
  BY <1>1 DEF Sounds
<1>3. CASE kind # "vita"
  <2> DEFINE a == Sinks!Made(kind, "open")
  <2>1. a \in Sink /\ a.state = "open" /\ a.kind # "vita"
    BY <1>3 DEF Sinks!Made, Sink
  <2>2. /\ x2' = Append(x2, a) /\ x3' = Len(x2) + 1
        /\ UNCHANGED <<x4, x5, x6, x8, x12>>
    BY <1>3 DEF Sinks!OpenSink
  <2> HIDE DEF a
  <2>3. /\ x2' \in Seq(Sink) /\ Len(x2') = Len(x2) + 1
        /\ \A k \in 1 .. Len(x2) : x2'[k] = x2[k]
        /\ x2'[Len(x2) + 1] = a
    BY <1>1, <2>1, <2>2, OneMore
  <2>4. \A k \in 1 .. Len(x2') : Opens(k)' => k = x3'
    BY <1>1, <1>2, <2>2, <2>3 DEF Opens
  <2>5. Opens(x3)' /\ ~Paced(x3)'
    BY <2>1, <2>2, <2>3 DEF Opens, Paced
  <2>6. ThreadTrue' /\ x12' = FALSE
    BY <1>1, <2>2 DEF ThreadTrue
  <2>7. x6' \in [at : {"none", "top", "mix", "write", "ended"}, sk : 0 .. Len(x2')] /\ x6'.at # "write"
    BY <1>1, <2>2, <2>3
  <2> QED  BY <1>1, <2>2, <2>3, <2>4, <2>5, <2>6, <2>7 DEF Sounds
<1>4. CASE kind = "vita" /\ starts
  <2>1. /\ x2' = Append(x2, Sinks!Made("vita", "open")) /\ x3' = Len(x2) + 1
        /\ x4' = TRUE /\ x5' = TRUE /\ x6' = IF x5 THEN x6 ELSE Sinks!Started
        /\ x8' = x8 /\ x12' = x12
    BY <1>4 DEF Sinks!OpenSink, Sinks!HandOver
  <2>2. \A k \in 1 .. Len(x2) : x2[k].state # "open"
    BY <1>2 DEF Opens
  <2> QED  BY <1>1, <2>1, <2>2, HandedOver
<1>5. CASE kind = "vita" /\ ~starts
  <2> DEFINE a == Sinks!Made("vita", "gone")
             b == Sinks!Made("null", "open")
  <2>1. /\ a \in Sink /\ b \in Sink /\ a.state # "open" /\ b.state = "open" /\ b.kind # "vita"
        /\ ~Sinks!Drains(Sinks!Made("vita", "open"))
    BY DEF Sinks!Made, Sink, Sinks!Drains, Sinks!Kinds
  <2>2. /\ x2' = x2 \o <<a, b>> /\ x3' = Len(x2) + 1 + 1
        /\ x4' = FALSE /\ x8' = [armed |-> TRUE, left |-> Tries, next |-> 0]
        /\ x12' = (x12 \/ Sinks!Drains(Sinks!Made("vita", "open")))
        /\ UNCHANGED <<x5, x6>>
    BY <1>5 DEF Sinks!OpenSink
  <2>0. x12' = FALSE /\ x8' \in [armed : BOOLEAN, left : Int, next : Nat]
    BY <1>1, <2>1, <2>2
  <2> HIDE DEF a, b
  <2>3. /\ x2' \in Seq(Sink) /\ Len(x2') = Len(x2) + 2
        /\ \A k \in 1 .. Len(x2) : x2'[k] = x2[k]
        /\ x2'[Len(x2) + 1] = a /\ x2'[Len(x2) + 2] = b
    BY <1>1, <2>1, <2>2, TwoMore
  <2>8. x3' = Len(x2) + 2
    BY <1>1, <2>2
  <2>4. \A k \in 1 .. Len(x2') : Opens(k)' => k = x3'
    BY <1>1, <1>2, <2>1, <2>8, <2>3 DEF Opens
  <2>5. Opens(x3)' /\ ~Paced(x3)'
    BY <2>1, <2>8, <2>3 DEF Opens, Paced
  <2>6. ThreadTrue'
    BY <1>1, <2>2, <2>8 DEF ThreadTrue
  <2>7. x6' \in [at : {"none", "top", "mix", "write", "ended"}, sk : 0 .. Len(x2')] /\ x6'.at # "write"
    BY <1>1, <2>2, <2>3
  <2>9. x3' \in 0 .. Len(x2') /\ x5' = FALSE
    BY <1>1, <2>2, <2>3, <2>8
  <2>10. Sounds'
    BY <2>0, <2>2, <2>3, <2>4, <2>5, <2>6, <2>7, <2>9 DEF Sounds
  <2> QED  BY <1>1, <2>3, <2>10
<1> QED  BY <1>3, <1>4, <1>5

(* Back to the invariant, with the guest idle or about to mix.             *)
LEMMA SoundsBack ==
  ASSUME SinkInv, Sounds', x1' = x1, x10' = x10, x11' = x11,
         x7' \in [at : {"idle", "mix", "write", "join", "unpublish", "close"}, sk : 0 .. Len(x2'), owed : Int],
         x7'.at = "idle" \/ (x7'.at = "mix" /\ ~x5'),
         x9' \in [started : BOOLEAN, t0 : Nat, produced : Int], PumpTrue'
  PROVE  SinkInv'
<1>1. SinkTypes'
  BY DEF SinkInv, SinkTypes, Sounds
<1>2. ThreadTrue' /\ PublishedTrue' /\ InHand' /\ x12' = FALSE
  BY DEF Sounds, PublishedTrue, InHand
<1>3. LeavingTrue' /\ OpenTrue'
  BY DEF Sounds, LeavingTrue, OpenTrue, Orphan
<1> QED  BY <1>1, <1>2, <1>3 DEF SinkInv

(* DirectSoundCreate: a sink where none is published.                      *)
LEMMA SinkOpensKeeps ==
  ASSUME SinkInv, Sinks!DirectSoundCreate
  PROVE  SinkInv'
<1>1. /\ Sinks!Idle /\ ~x11.begun /\ x3 = 0
      /\ UNCHANGED <<x1, x7, x9, x10, x11>>
      /\ \E kind \in Sinks!Opened, starts \in Sinks!Starts : Sinks!OpenSink(kind, starts)
  BY DEF Sinks!DirectSoundCreate
<1>2. Sinks!Opened \subseteq Sinks!Kinds /\ Sinks!Starts \subseteq BOOLEAN
  BY DEF Sinks!Opened, Sinks!Starts, Sinks!Kinds, SinkInv, SinkTypes
<1>a. Sounds' /\ Len(x2) <= Len(x2')
  BY <1>1, <1>2, OpenKeeps
<1>3. Sounds' /\ Len(x2) <= Len(x2') /\ Len(x2') \in Nat /\ Len(x2) \in Nat
  BY <1>a DEF Sounds, SinkInv, SinkTypes
<1>4. /\ x7' \in [at : {"idle", "mix", "write", "join", "unpublish", "close"}, sk : 0 .. Len(x2'), owed : Int]
      /\ x7'.at = "idle" /\ x9' \in [started : BOOLEAN, t0 : Nat, produced : Int]
  BY <1>1, <1>3 DEF SinkInv, SinkTypes, Sinks!Idle
<1>5. PumpTrue'
  BY <1>1 DEF SinkInv, PumpTrue
<1> QED  BY <1>1, <1>3, <1>4, <1>5, SoundsBack

(* The frame pump: the attempt first, then what the sink is owed.          *)
LEMMA PumpKeeps ==
  ASSUME SinkInv, Sinks!FramePump
  PROVE  SinkInv'
<1>1. /\ Sinks!Idle /\ Sinks!TryDeferredSink /\ UNCHANGED <<x1, x10, x11>>
  BY DEF Sinks!FramePump
<1>a. Sounds' /\ Len(x2) <= Len(x2')
  BY <1>1, DeferredKeeps
<1>2. Sounds' /\ Len(x2) <= Len(x2') /\ Len(x2') \in Nat /\ Len(x2) \in Nat
  BY <1>a DEF Sounds, SinkInv, SinkTypes
<1>3. /\ x7 \in [at : {"idle", "mix", "write", "join", "unpublish", "close"}, sk : 0 .. Len(x2), owed : Int]
      /\ x9 \in [started : BOOLEAN, t0 : Nat, produced : Int] /\ x10 \in Nat
      /\ PerTick \in Nat /\ Second \in Nat /\ x7.at = "idle" /\ PumpTrue
  BY <1>1, SoundAssumption DEF SinkInv, SinkTypes, Sinks!Idle, Sinks!SinkAssumption
<1>4. /\ x7 \in [at : {"idle", "mix", "write", "join", "unpublish", "close"}, sk : 0 .. Len(x2'), owed : Int]
      /\ x7.owed <= 0
  BY <1>2, <1>3 DEF PumpTrue
<1>5. CASE UNCHANGED <<x7, x9>>
  <2>1. PumpTrue'
    BY <1>1, <1>3, <1>5 DEF PumpTrue
  <2> QED  BY <1>1, <1>2, <1>3, <1>4, <1>5, <2>1, SoundsBack
<1>6. CASE x9' = [started |-> TRUE, t0 |-> x10, produced |-> 0] /\ UNCHANGED x7
  <2>1. x9' \in [started : BOOLEAN, t0 : Nat, produced : Int]
        /\ x9'.started /\ x9'.t0 = x10 /\ x9'.produced = 0
    BY <1>6, <1>3
  <2>2. (x10' - x9'.t0) * PerTick = 0
    BY <1>1, <1>3, <2>1
  <2>3. PumpTrue'
    BY <1>1, <1>3, <1>4, <1>6, <2>1, <2>2 DEF PumpTrue
  <2> QED  BY <1>1, <1>2, <1>3, <1>4, <1>6, <2>1, <2>3, SoundsBack
<1>7. CASE /\ Sinks!Pulled(x3') /\ x9.started
           /\ x7' = [at |-> "mix", sk |-> 0, owed |-> Sinks!Owed]
           /\ x9' = [x9 EXCEPT !.produced = Sinks!Target - Sinks!Owed]
  <2>1. ~x5'
    BY <1>2, <1>7 DEF Sinks!Pulled, Sounds, Paced
  <2> DEFINE target == Sinks!Target
             owed == Sinks!Owed
             left == target - owed
  <2>2. target \in Int /\ owed \in Int /\ owed <= Second /\ left \in Int
    <3>1. target \in Int
      BY <1>3 DEF Sinks!Target
    <3> HIDE DEF target
    <3>2. owed = LET need == target - x9.produced IN IF need > Second THEN Second ELSE need
      BY DEF Sinks!Owed, target
    <3> HIDE DEF owed
    <3> QED  BY <3>1, <3>2, <1>3
  <2>3. target = (x10 - x9.t0) * PerTick
    BY DEF Sinks!Target
  <2>4. x7' = [at |-> "mix", sk |-> 0, owed |-> owed] /\ x9' = [x9 EXCEPT !.produced = left]
    BY <1>7
  <2> HIDE DEF owed
  <2>5. left + owed <= target
    <3> HIDE DEF target
    <3> QED  BY <2>2
  <2> HIDE DEF left, target
  <2>6. /\ x9' \in [started : BOOLEAN, t0 : Nat, produced : Int]
        /\ x9'.started = x9.started /\ x9'.t0 = x9.t0 /\ x9'.produced = left
    BY <2>2, <2>4, <1>3
  <2>7. /\ x7' \in [at : {"idle", "mix", "write", "join", "unpublish", "close"}, sk : 0 .. Len(x2'), owed : Int]
        /\ x7'.at = "mix" /\ x7'.owed = owed
    BY <2>2, <2>4, <1>2
  <2>8. x9.t0 <= x10 /\ x10' = x10
    BY <1>1, <1>3, <1>7 DEF PumpTrue
  <2>9. (x10' - x9'.t0) * PerTick = target
    BY <2>3, <2>6, <2>8
  <2>10. PumpTrue'
    BY <2>2, <2>5, <2>6, <2>7, <2>8, <2>9, <1>7 DEF PumpTrue
  <2> QED  BY <1>1, <1>2, <2>1, <2>6, <2>7, <2>10, SoundsBack
<1>8. \/ UNCHANGED <<x7, x9>>
      \/ x9' = [started |-> TRUE, t0 |-> x10, produced |-> 0] /\ UNCHANGED x7
      \/ /\ Sinks!Pulled(x3') /\ x9.started
         /\ x7' = [at |-> "mix", sk |-> 0, owed |-> Sinks!Owed]
         /\ x9' = [x9 EXCEPT !.produced = Sinks!Target - Sinks!Owed]
  <2> HIDE DEF SinkInv
  <2> QED  BY DEF Sinks!FramePump
<1> QED  BY <1>5, <1>6, <1>7, <1>8

(* What no step does to the sinks there are, and what it makes of new ones.*)
Grown ==
  /\ Len(x2) <= Len(x2') /\ (x11.begun => x11'.begun) /\ x13'.sk \in {x13.sk} \cup 0 .. Len(x2')
  /\ \A s \in 1 .. Len(x2') : s > Len(x2) => ~x2'[s].wrote
  /\ \A s \in 1 .. Len(x2) :
       /\ x2'[s].kind = x2[s].kind
       /\ x2'[s].wrote => x2[s].wrote \/ (x6.at = "write" /\ s = x6.sk)
       /\ Opens(s) /\ Paced(s) => x2'[s].state = "open" \/ x11'.begun
  /\ x6'.at = "write" /\ x6'.sk # 0 => x6' = x6 \/ (x5 /\ x6'.sk = x3)

(* That is all the watchdog's invariant needs.                             *)
LEMMA WatchKept ==
  ASSUME SinkInv, WatchInv, Grown, Len(x2') \in Nat
  PROVE  WatchInv'
<1>1. Len(x2) \in Nat /\ x3 \in 0 .. Len(x2) /\ x6.sk \in 0 .. Len(x2)
  BY DEF SinkInv, SinkTypes
<1>2. x13'.sk \in 0 .. Len(x2')
  BY <1>1 DEF WatchInv, Grown
<1>3. \A s \in 1 .. Len(x2) : Paced(s) => Paced(s)'
  BY DEF Grown, Paced
<1>4. ASSUME NEW s \in 1 .. Len(x2'), x2'[s].wrote
      PROVE  Paced(s)' /\ (Opens(s)' \/ x11'.begun)
  <2>1. s \in 1 .. Len(x2)
    BY <1>1, <1>4 DEF Grown
  <2>2. Paced(s) /\ (Opens(s) \/ x11.begun)
    <3>1. CASE x2[s].wrote
      BY <2>1, <3>1 DEF WatchInv
    <3>2. CASE x6.at = "write" /\ s = x6.sk
      <4>1. s # 0
        BY <2>1
      <4> QED  BY <4>1, <3>2 DEF WatchInv, SinkInv, InHand
    <3> QED  BY <2>1, <1>4, <3>1, <3>2 DEF Grown
  <2> QED  BY <2>1, <2>2, <1>3 DEF Grown, Opens
<1>5. ASSUME x6'.at = "write", x6'.sk # 0
      PROVE  Paced(x6.sk)'
  <2>1. CASE x6' = x6
    <3>1. x6.sk \in 1 .. Len(x2) /\ Paced(x6.sk)
      BY <2>1, <1>5, <1>1 DEF WatchInv
    <3> QED  BY <3>1, <2>1, <1>3 DEF Paced
  <2>2. CASE x5 /\ x6'.sk = x3
    <3>1. x3 \in 1 .. Len(x2) /\ Paced(x3)
      BY <2>2, <1>5, <1>1 DEF SinkInv, PublishedTrue
    <3>2. x2'[x3].kind = x2[x3].kind
      BY <3>1 DEF Grown
    <3> QED  BY <3>1, <3>2, <2>2 DEF Paced
  <2> QED  BY <1>5, <2>1, <2>2 DEF Grown
<1> QED  BY <1>2, <1>4, <1>5 DEF WatchInv

(* Steps that leave the sinks alone.                                       *)
LEMMA SameGrown ==
  ASSUME SinkInv, x2' = x2, x11.begun => x11'.begun, x13'.sk \in {x13.sk} \cup 0 .. Len(x2),
         x6'.at = "write" /\ x6'.sk # 0 => x6' = x6 \/ (x5 /\ x6'.sk = x3)
  PROVE  Grown
<1>1. Len(x2) \in Nat
  BY DEF SinkInv, SinkTypes
<1> QED  BY <1>1 DEF Grown, Opens

(* A step of the host thread or of the guest that makes no sink.           *)
LEMMA OthersGrow ==
  ASSUME SinkInv,
         \/ Sinks!AudioBody \/ Sinks!AudioMixes \/ Sinks!GuestMixes \/ Sinks!GuestWrites
         \/ Sinks!Lower \/ Sinks!ThreadStop \/ Sinks!Unpublish \/ Sinks!Tick
         \/ Sinks!StatLoads \/ Sinks!StatAsks
  PROVE  Grown
<1>1. x3 \in 0 .. Len(x2) /\ (x6.at = "mix" => x5) /\ x11 \in [begun : BOOLEAN, joined : BOOLEAN]
  BY DEF SinkInv, SinkTypes, ThreadTrue
<1>2. CASE Sinks!AudioBody
  <2>1. x6'.at # "write" /\ x2' = x2 /\ x11' = x11 /\ x13' = x13
    BY <1>2 DEF Sinks!AudioBody, Sinks!AudioStep
  <2> QED  BY <2>1, SameGrown
<1>3. CASE Sinks!AudioMixes
  <2>1. x6'.sk = x3 /\ x5 /\ x2' = x2 /\ x11' = x11 /\ x13' = x13
    BY <1>1, <1>3 DEF Sinks!AudioMixes, Sinks!AudioStep
  <2> QED  BY <2>1, SameGrown
<1>4. CASE Sinks!GuestMixes \/ Sinks!GuestWrites \/ Sinks!Tick
  <2>1. x6' = x6 /\ x2' = x2 /\ x11' = x11 /\ x13' = x13
    BY <1>4 DEF Sinks!GuestMixes, Sinks!GuestWrites, Sinks!Tick, Sinks!sound
  <2> QED  BY <2>1, SameGrown
<1>5. CASE Sinks!Lower \/ Sinks!ThreadStop \/ Sinks!Unpublish
  <2>1. x6' = x6 /\ x2' = x2 /\ x13' = x13
    BY <1>5 DEF Sinks!Lower, Sinks!ThreadStop, Sinks!Unpublish
  <2>2. x11'.begun = x11.begun \/ x11'.begun
    BY <1>1, <1>5 DEF Sinks!Lower, Sinks!ThreadStop, Sinks!Unpublish
  <2> QED  BY <2>1, <2>2, SameGrown
<1>6. CASE Sinks!StatLoads \/ Sinks!StatAsks
  <2>1. x6' = x6 /\ x2' = x2 /\ x11' = x11 /\ x13'.sk \in {0, x3}
    BY <1>6 DEF Sinks!StatLoads, Sinks!StatAsks, Sinks!Watching
  <2>2. x13'.sk \in {x13.sk} \cup 0 .. Len(x2)
    BY <1>1, <2>1 DEF SinkInv, SinkTypes
  <2> QED  BY <2>1, <2>2, SameGrown
<1> QED  BY <1>2, <1>3, <1>4, <1>5, <1>6

(* A write marks the sink the thread loaded.                               *)
LEMMA WriteGrows ==
  ASSUME SinkInv, Sinks!AudioWrites
  PROVE  Grown
<1>1. x6.at = "write" /\ x6'.at = "top" /\ x11' = x11 /\ x13' = x13 /\ x6.sk \in 0 .. Len(x2) /\ x2 \in Seq(Sink)
  BY DEF SinkInv, SinkTypes, Sinks!AudioWrites, Sinks!AudioStep
<1>2. CASE x2' = x2
  BY <1>1, <1>2, SameGrown
<1>3. CASE x6.sk # 0 /\ x2' = [x2 EXCEPT ![x6.sk].wrote = TRUE]
  <2> DEFINE i == x6.sk
             w == [x2[i] EXCEPT !.wrote = TRUE]
  <2>1. i \in 1 .. Len(x2) /\ x2[i] \in Sink /\ x2' = [x2 EXCEPT ![i] = w]
    BY <1>1, <1>3
  <2>2. w \in Sink /\ w.kind = x2[i].kind /\ w.state = x2[i].state
    BY <2>1 DEF Sink
  <2> HIDE DEF w, i
  <2>3. Len(x2') = Len(x2) /\ Len(x2) \in Nat /\ \A s \in 1 .. Len(x2) : x2'[s] = IF s = i THEN w ELSE x2[s]
    BY <1>1, <2>1, <2>2, OneReplaced
  <2>4. \A s \in 1 .. Len(x2) :
          /\ x2'[s].kind = x2[s].kind /\ x2'[s].state = x2[s].state
          /\ x2'[s].wrote => x2[s].wrote \/ s = i
    <3> SUFFICES ASSUME NEW s \in 1 .. Len(x2)
                 PROVE  /\ x2'[s].kind = x2[s].kind /\ x2'[s].state = x2[s].state
                        /\ x2'[s].wrote => x2[s].wrote \/ s = i
      OBVIOUS
    <3>1. CASE s = i
      BY <2>2, <2>3, <3>1
    <3>2. CASE s # i
      <4>1. x2'[s] = x2[s]
        BY <2>3, <3>2
      <4> QED  BY <4>1
    <3> QED  BY <3>1, <3>2
  <2> QED  BY <1>1, <2>3, <2>4 DEF Grown, Opens, i
<1> QED  BY <1>2, <1>3 DEF Sinks!AudioWrites

(* A close is a shutdown's.                                                *)
LEMMA CloseGrows ==
  ASSUME SinkInv, Sinks!Close
  PROVE  Grown
<1>1. /\ x11.begun /\ x11' = x11 /\ x13' = x13 /\ x6' = x6 /\ x7.sk \in 1 .. Len(x2)
      /\ x2 \in Seq(Sink)
  BY DEF SinkInv, SinkTypes, LeavingTrue, Sinks!Close
<1>2. CASE x2' = x2
  BY <1>1, <1>2, SameGrown
<1>3. CASE x2' = [x2 EXCEPT ![x7.sk].state = "gone"]
  <2> DEFINE i == x7.sk
             w == [x2[i] EXCEPT !.state = "gone"]
  <2>1. i \in 1 .. Len(x2) /\ x2[i] \in Sink /\ x2' = [x2 EXCEPT ![i] = w]
    BY <1>1, <1>3
  <2>2. w \in Sink /\ w.kind = x2[i].kind /\ (w.wrote <=> x2[i].wrote)
    BY <2>1 DEF Sink
  <2> HIDE DEF w, i
  <2>3. Len(x2') = Len(x2) /\ Len(x2) \in Nat /\ \A s \in 1 .. Len(x2) : x2'[s] = IF s = i THEN w ELSE x2[s]
    BY <1>1, <2>1, <2>2, OneReplaced
  <2>4. \A s \in 1 .. Len(x2) : x2'[s].kind = x2[s].kind /\ (x2'[s].wrote <=> x2[s].wrote)
    <3> SUFFICES ASSUME NEW s \in 1 .. Len(x2)
                 PROVE  x2'[s].kind = x2[s].kind /\ (x2'[s].wrote <=> x2[s].wrote)
      OBVIOUS
    <3>1. CASE s = i
      BY <2>2, <2>3, <3>1
    <3>2. CASE s # i
      <4>1. x2'[s] = x2[s]
        BY <2>3, <3>2
      <4> QED  BY <4>1
    <3> QED  BY <3>1, <3>2
  <2> QED  BY <1>1, <2>3, <2>4 DEF Grown
<1> QED  BY <1>2, <1>3 DEF Sinks!Close

(* The watchdog loads what is published meanwhile, or nothing.             *)
LEMMA WatchedIn ==
  ASSUME NEW s, Sinks!Watched(s)
  PROVE  x13'.sk \in {x13.sk, s}
BY DEF Sinks!Watched, Sinks!Watching

(* An opening makes one sink or two, that nobody wrote to.                 *)
LEMMA OpenGrows ==
  ASSUME SinkInv, ~x5, x11' = x11, NEW kind, NEW starts \in BOOLEAN, Sinks!OpenSink(kind, starts), kind \in Sinks!Kinds
  PROVE  Grown
<1>1. x2 \in Seq(Sink) /\ Len(x2) \in Nat /\ (x6'.at = "write" => x6' = x6)
  BY DEF SinkInv, SinkTypes, Sinks!OpenSink, Sinks!HandOver, Sinks!Started
<1> DEFINE a == Sinks!Made(kind, "open")
           b == Sinks!Made("vita", "gone")
           c == Sinks!Made("null", "open")
<1>2. a \in Sink /\ b \in Sink /\ c \in Sink /\ ~a.wrote /\ ~b.wrote /\ ~c.wrote
  BY DEF Sinks!Made, Sinks!Kinds, Sink
<1>3. \/ x2' = Append(x2, a) /\ x13' = x13
      \/ x2' = x2 \o <<b, c>> /\ x13'.sk \in {x13.sk, Len(x2) + 1}
  BY WatchedIn DEF Sinks!OpenSink, Sinks!HandOver
<1> HIDE DEF a, b, c
<1>4. CASE x2' = Append(x2, a) /\ x13' = x13
  <2>1. Len(x2') = Len(x2) + 1 /\ x2'[Len(x2) + 1] = a /\ \A s \in 1 .. Len(x2) : x2'[s] = x2[s]
    BY <1>1, <1>2, <1>4, OneMore
  <2>2. \A s \in 1 .. Len(x2') : s > Len(x2) => s = Len(x2) + 1
    BY <1>1, <2>1
  <2> QED  BY <1>1, <1>2, <1>4, <2>1, <2>2 DEF Grown, Opens
<1>5. CASE x2' = x2 \o <<b, c>> /\ x13'.sk \in {x13.sk, Len(x2) + 1}
  <2>1. /\ Len(x2') = Len(x2) + 2 /\ x2'[Len(x2) + 1] = b /\ x2'[Len(x2) + 2] = c
        /\ \A s \in 1 .. Len(x2) : x2'[s] = x2[s]
    BY <1>1, <1>2, <1>5, TwoMore
  <2>2. \A s \in 1 .. Len(x2') : s > Len(x2) => s = Len(x2) + 1 \/ s = Len(x2) + 2
    BY <1>1, <2>1
  <2>3. x13'.sk \in {x13.sk} \cup 0 .. Len(x2')
    BY <1>1, <1>5, <2>1
  <2>4. \A s \in 1 .. Len(x2') : s > Len(x2) => ~x2'[s].wrote
    BY <1>2, <2>1, <2>2
  <2>5. Len(x2) <= Len(x2')
    BY <1>1, <2>1
  <2> QED  BY <1>1, <2>1, <2>3, <2>4, <2>5 DEF Grown, Opens
<1> QED  BY <1>3, <1>4, <1>5

(* A deferred attempt deletes a sink that is not a real-time one.          *)
LEMMA AttemptGrows ==
  ASSUME SinkInv, Sinks!Idle, x8.armed, x11' = x11, NEW opens \in BOOLEAN, NEW starts \in BOOLEAN,
         Sinks!Attempt(opens, starts)
  PROVE  Grown
<1>0. /\ x2 \in Seq(Sink) /\ Len(x2) \in Nat /\ ~x5 /\ x3 \in 0 .. Len(x2)
      /\ x3 # 0 => ~Paced(x3)
  BY DEF SinkInv, SinkTypes, ThreadTrue, PublishedTrue, Sinks!Idle
<1>a. x6' = x6 \/ x6' = Sinks!Started
  BY <1>0 DEF Sinks!Attempt, Sinks!HandOver
<1>b. x6'.at = "write" => x6' = x6
  BY <1>a DEF Sinks!Started
<1>1. /\ x2 \in Seq(Sink) /\ Len(x2) \in Nat /\ ~x5 /\ x3 \in 0 .. Len(x2)
      /\ x3 # 0 => ~Paced(x3)
      /\ x6'.at = "write" => x6' = x6
  BY <1>0, <1>b
<1> DEFINE a == Sinks!Made("vita", "open")
           b == Sinks!Made("vita", "gone")
           q == [s \in DOMAIN x2 |-> IF s = x3 THEN [x2[s] EXCEPT !.state = "gone"] ELSE x2[s]]
<1>2. a \in Sink /\ b \in Sink /\ ~a.wrote /\ ~b.wrote
  BY DEF Sinks!Made, Sinks!Kinds, Sink
<1>3. \/ x2' = Append(q, a) /\ x13' = x13
      \/ x2' = Append(x2, b) /\ x13'.sk \in {x13.sk, Len(x2) + 1}
  BY WatchedIn DEF Sinks!Attempt, Sinks!HandOver
<1>4. /\ q \in Seq(Sink) /\ Len(q) = Len(x2)
      /\ \A s \in 1 .. Len(x2) :
           /\ q[s].kind = x2[s].kind /\ (q[s].wrote <=> x2[s].wrote)
           /\ s # x3 => q[s] = x2[s]
  <2>1. DOMAIN x2 = 1 .. Len(x2) /\ \A s \in 1 .. Len(x2) : x2[s] \in Sink
    BY <1>1
  <2>2. \A s \in 1 .. Len(x2) :
          /\ q[s] \in Sink /\ q[s].kind = x2[s].kind /\ (q[s].wrote <=> x2[s].wrote)
          /\ s # x3 => q[s] = x2[s]
    <3> SUFFICES ASSUME NEW s \in 1 .. Len(x2)
                 PROVE  /\ q[s] \in Sink /\ q[s].kind = x2[s].kind /\ (q[s].wrote <=> x2[s].wrote)
                        /\ s # x3 => q[s] = x2[s]
      OBVIOUS
    <3>1. CASE s = x3
      <4>1. q[s] = [x2[s] EXCEPT !.state = "gone"] /\ x2[s] \in Sink
        BY <2>1, <3>1
      <4> HIDE DEF q
      <4> QED  BY <4>1, <3>1 DEF Sink
    <3>2. CASE s # x3
      <4>1. q[s] = x2[s]
        BY <2>1, <3>2
      <4> HIDE DEF q
      <4> QED  BY <4>1, <2>1
    <3> QED  BY <3>1, <3>2
  <2>3. DOMAIN q = 1 .. Len(x2) /\ q = [s \in DOMAIN q |-> q[s]]
    BY <2>1
  <2> HIDE DEF q
  <2>6. \A s \in 1 .. Len(x2) : q[s] \in Sink
    BY <2>2, Zenon
  <2>4. q \in [1 .. Len(x2) -> Sink]
    BY <2>6, <2>3
  <2>5. q \in Seq(Sink) /\ Len(q) = Len(x2)
    BY <1>1, <2>4
  <2> QED  BY <2>2, <2>5, Zenon
<1> HIDE DEF a, b, q
<1>5. CASE x2' = Append(q, a) /\ x13' = x13
  <2>1. Len(x2') = Len(x2) + 1 /\ x2'[Len(x2) + 1] = a /\ \A s \in 1 .. Len(x2) : x2'[s] = q[s]
    BY <1>2, <1>4, <1>5, OneMore
  <2>2. \A s \in 1 .. Len(x2') : s > Len(x2) => s = Len(x2) + 1
    BY <1>1, <2>1
  <2>3. ASSUME NEW s \in 1 .. Len(x2)
        PROVE  /\ x2'[s].kind = x2[s].kind
               /\ x2'[s].wrote => x2[s].wrote
               /\ Opens(s) /\ Paced(s) => x2'[s].state = "open"
    <3>1. x2'[s] = q[s]
      BY <2>1
    <3>2. Paced(s) => s # x3
      BY <1>1
    <3> QED  BY <1>4, <3>1, <3>2 DEF Opens
  <2>4. \A s \in 1 .. Len(x2') : s > Len(x2) => ~x2'[s].wrote
    BY <1>2, <2>1, <2>2
  <2>5. Len(x2) <= Len(x2')
    BY <1>1, <2>1
  <2> QED  BY <1>1, <1>5, <2>3, <2>4, <2>5 DEF Grown
<1>6. CASE x2' = Append(x2, b) /\ x13'.sk \in {x13.sk, Len(x2) + 1}
  <2>1. Len(x2') = Len(x2) + 1 /\ x2'[Len(x2) + 1] = b /\ \A s \in 1 .. Len(x2) : x2'[s] = x2[s]
    BY <1>1, <1>2, <1>6, OneMore
  <2>2. \A s \in 1 .. Len(x2') : s > Len(x2) => s = Len(x2) + 1
    BY <1>1, <2>1
  <2>3. x13'.sk \in {x13.sk} \cup 0 .. Len(x2')
    BY <1>1, <1>6, <2>1
  <2>4. \A s \in 1 .. Len(x2') : s > Len(x2) => ~x2'[s].wrote
    BY <1>2, <2>1, <2>2
  <2>5. Len(x2) <= Len(x2')
    BY <1>1, <2>1
  <2> QED  BY <1>1, <2>1, <2>3, <2>4, <2>5 DEF Grown, Opens
<1> QED  BY <1>3, <1>5, <1>6

(* The pump's attempt, if one is due.                                      *)
LEMMA PumpGrows ==
  ASSUME SinkInv, Sinks!FramePump
  PROVE  Grown
<1>1. Sinks!Idle /\ Sinks!TryDeferredSink /\ x11' = x11
  BY DEF Sinks!FramePump
<1>2. CASE UNCHANGED Sinks!sound
  <2>1. x2' = x2 /\ x6' = x6 /\ x13' = x13
    BY <1>2 DEF Sinks!sound
  <2> QED  BY <1>1, <2>1, SameGrown
<1>3. CASE x8.armed /\ \E opens \in BOOLEAN, starts \in Sinks!Starts : Sinks!Attempt(opens, starts)
  <2>1. Sinks!Starts \subseteq BOOLEAN
    BY DEF Sinks!Starts
  <2> QED  BY <1>1, <1>3, <2>1, AttemptGrows
<1> QED  BY <1>1, <1>2, <1>3 DEF Sinks!TryDeferredSink, Sinks!Due

(* Opening where no sink is published.                                     *)
LEMMA CreateGrows ==
  ASSUME SinkInv, Sinks!DirectSoundCreate
  PROVE  Grown
<1>1. /\ ~x5 /\ x11' = x11
      /\ \E kind \in Sinks!Opened, starts \in Sinks!Starts : Sinks!OpenSink(kind, starts)
  BY DEF Sinks!DirectSoundCreate, SinkInv, ThreadTrue
<1>2. Sinks!Opened \subseteq Sinks!Kinds /\ Sinks!Starts \subseteq BOOLEAN
  BY DEF Sinks!Opened, Sinks!Starts, Sinks!Kinds, SinkInv, SinkTypes
<1> QED  BY <1>1, <1>2, OpenGrows

(* Every step of the sound keeps what the watchdog may meet.               *)
LEMMA WatchStep ==
  ASSUME SinkInv, SinkInv', WatchInv, [Sinks!Next]_(Sinks!vars)
  PROVE  WatchInv'
<1>1. Len(x2') \in Nat
  BY DEF SinkInv, SinkTypes
<1>2. Grown
  <2>1. CASE UNCHANGED Sinks!vars
    <3>1. x2' = x2 /\ x6' = x6 /\ x11' = x11 /\ x13' = x13
      BY <2>1 DEF Sinks!vars
    <3> QED  BY <3>1, SameGrown
  <2> QED  BY <2>1, OthersGrow, WriteGrows, CloseGrows, PumpGrows, CreateGrows DEF Sinks!Next
<1> QED  BY <1>1, <1>2, WatchKept

(* The audio side keeps its invariant.                                     *)
LEMMA SinkStep ==
  ASSUME SinkInv, [Sinks!Next]_(Sinks!vars)
  PROVE  SinkInv'
<1>1. CASE UNCHANGED Sinks!vars
  <2>1. UNCHANGED <<x1, x2, x3, x4, x5, x6, x7, x8, x9, x10, x11, x12>>
    BY <1>1 DEF Sinks!vars
  <2>2. SinkTypes' /\ ThreadTrue' /\ PublishedTrue' /\ InHand'
    BY <2>1 DEF SinkInv, SinkTypes, ThreadTrue, PublishedTrue, InHand, Opens, Paced
  <2>3. LeavingTrue' /\ OpenTrue' /\ PumpTrue' /\ x12' = FALSE
    BY <2>1 DEF SinkInv, LeavingTrue, OpenTrue, Orphan, PumpTrue, Opens
  <2> QED  BY <2>2, <2>3 DEF SinkInv
<1>2. CASE Sinks!StatLoads \/ Sinks!StatAsks
  <2>1. UNCHANGED <<x1, x2, x3, x4, x5, x6, x7, x8, x9, x10, x11, x12>>
    BY <1>2 DEF Sinks!StatLoads, Sinks!StatAsks
  <2>2. SinkTypes' /\ ThreadTrue' /\ PublishedTrue' /\ InHand'
    BY <2>1 DEF SinkInv, SinkTypes, ThreadTrue, PublishedTrue, InHand, Opens, Paced
  <2>3. LeavingTrue' /\ OpenTrue' /\ PumpTrue' /\ x12' = FALSE
    BY <2>1 DEF SinkInv, LeavingTrue, OpenTrue, Orphan, PumpTrue, Opens
  <2> QED  BY <2>2, <2>3 DEF SinkInv
<1> QED
  BY <1>1, <1>2, SinkOpensKeeps, PumpKeeps, MixKeeps, AudioKeeps, WriteKeeps, LeavingKeeps, CloseKeeps, TickKeeps
  DEF Sinks!Next

(* A list that names each element of a set once, and besides, any number   *)
(* of times, what is in another.                                           *)
Lists(list, S, C) ==
  /\ list \in Seq(Nat)
  /\ \A k \in 1 .. Len(list) : list[k] \in S \cup C
  /\ \A j, k \in 1 .. Len(list) : list[j] \in S /\ list[j] = list[k] => j = k
  /\ \A s \in S : \E k \in 1 .. Len(list) : list[k] = s

(* One put at the end, which was not there.                                *)
LEMMA ListsMore ==
  ASSUME NEW list, NEW S, NEW C, Lists(list, S, C), NEW s \in Nat, s \notin S, s \notin C
  PROVE  Lists(Append(list, s), S \cup {s}, C)
<1> DEFINE q == Append(list, s)
<1>1. /\ q \in Seq(Nat) /\ Len(q) = Len(list) + 1 /\ Len(list) \in Nat
      /\ \A k \in 1 .. Len(list) : q[k] = list[k]
      /\ q[Len(list) + 1] = s
  BY DEF Lists
<1> HIDE DEF q
<1>2. \A k \in 1 .. Len(q) : k \in 1 .. Len(list) \/ k = Len(list) + 1
  BY <1>1
<1>3. \A k \in 1 .. Len(q) : q[k] \in (S \cup {s}) \cup C
  BY <1>1, <1>2 DEF Lists
<1>4. \A j, k \in 1 .. Len(q) : q[j] \in S \cup {s} /\ q[j] = q[k] => j = k
  BY <1>1, <1>2 DEF Lists
<1>5. \A t \in S \cup {s} : \E k \in 1 .. Len(q) : q[k] = t
  <2>1. \A k \in 1 .. Len(list) : k \in 1 .. Len(q)
    BY <1>1
  <2>2. ASSUME NEW t \in S PROVE \E k \in 1 .. Len(q) : q[k] = t
    <3>1. PICK k \in 1 .. Len(list) : list[k] = t
      BY DEF Lists
    <3> QED  BY <3>1, <2>1, <1>1
  <2>3. Len(list) + 1 \in 1 .. Len(q)
    BY <1>1
  <2> QED  BY <2>2, <2>3, <1>1
<1>6. Lists(q, S \cup {s}, C)
  BY <1>1, <1>3, <1>4, <1>5 DEF Lists
<1> QED  BY <1>6 DEF q

(* One more of the others.                                                 *)
LEMMA ListsOther ==
  ASSUME NEW list, NEW S, NEW C, Lists(list, S, C), NEW s \in Nat, s \notin S, s \in C
  PROVE  Lists(Append(list, s), S, C)
<1> DEFINE q == Append(list, s)
<1>1. /\ q \in Seq(Nat) /\ Len(q) = Len(list) + 1 /\ Len(list) \in Nat
      /\ \A k \in 1 .. Len(list) : q[k] = list[k]
      /\ q[Len(list) + 1] = s
  BY DEF Lists
<1> HIDE DEF q
<1>2. \A k \in 1 .. Len(q) : k \in 1 .. Len(list) \/ k = Len(list) + 1
  BY <1>1
<1>3. \A k \in 1 .. Len(q) : q[k] \in S \cup C
  BY <1>1, <1>2 DEF Lists
<1>4. \A j, k \in 1 .. Len(q) : q[j] \in S /\ q[j] = q[k] => j = k
  BY <1>1, <1>2 DEF Lists
<1>5. \A t \in S : \E k \in 1 .. Len(q) : q[k] = t
  <2> SUFFICES ASSUME NEW t \in S PROVE \E k \in 1 .. Len(q) : q[k] = t
    OBVIOUS
  <2>1. PICK k \in 1 .. Len(list) : list[k] = t
    BY DEF Lists
  <2>2. k \in 1 .. Len(q)
    BY <1>1
  <2> QED  BY <2>1, <2>2, <1>1
<1>6. Lists(q, S, C)
  BY <1>1, <1>3, <1>4, <1>5 DEF Lists
<1> QED  BY <1>6 DEF q

(* One taken from anywhere.                                                *)
LEMMA ListsLess ==
  ASSUME NEW list, NEW S, NEW C, Lists(list, S, C), NEW k \in 1 .. Len(list), list[k] \in S
  PROVE  Lists(Buffers!RemoveAt(list, k), S \ {list[k]}, C)
<1> DEFINE q == Buffers!RemoveAt(list, k)
           n == Len(list)
           a == SubSeq(list, 1, k - 1)
           b == SubSeq(list, k + 1, n)
<1>1. /\ a \in Seq(Nat) /\ Len(a) = k - 1 /\ n \in Nat
      /\ b \in Seq(Nat) /\ Len(b) = n - k
      /\ \A j \in 1 .. k - 1 : a[j] = list[j]
      /\ \A j \in 1 .. n - k : b[j] = list[k + j]
  BY DEF Lists
<1>2. q = a \o b
  BY DEF Buffers!RemoveAt
<1> HIDE DEF q, a, b
<1>3. /\ a \o b \in Seq(Nat) /\ Len(a \o b) = Len(a) + Len(b)
      /\ \A j \in 1 .. Len(a) + Len(b) : (a \o b)[j] = IF j <= Len(a) THEN a[j] ELSE b[j - Len(a)]
  BY <1>1, ConcatProperties, Zenon
<1>4. q \in Seq(Nat) /\ Len(q) = n - 1
  BY <1>1, <1>2, <1>3
<1>5. \A j \in 1 .. n - 1 : q[j] = IF j < k THEN list[j] ELSE list[j + 1]
  <2> SUFFICES ASSUME NEW j \in 1 .. n - 1 PROVE q[j] = IF j < k THEN list[j] ELSE list[j + 1]
    OBVIOUS
  <2>1. q[j] = IF j <= k - 1 THEN a[j] ELSE b[j - (k - 1)]
    BY <1>1, <1>2, <1>3
  <2>2. CASE j < k
    BY <2>1, <2>2, <1>1
  <2>3. CASE ~(j < k)
    <3>0. k \in Int /\ j \in Int /\ n \in Int /\ j <= n - 1 /\ j >= k
      BY <2>3, <1>1
    <3> HIDE DEF n
    <3>1. j - (k - 1) \in 1 .. n - k /\ k + (j - (k - 1)) = j + 1 /\ ~(j <= k - 1)
      BY <3>0
    <3> USE DEF n
    <3>2. b[j - (k - 1)] = list[k + (j - (k - 1))]
      BY <3>1, <1>1
    <3> QED  BY <2>1, <2>3, <3>1, <3>2
  <2> QED  BY <2>2, <2>3
<1> DEFINE At(j) == IF j < k THEN j ELSE j + 1
<1>a. \A j \in 1 .. n - 1 : At(j) \in 1 .. n /\ At(j) # k /\ q[j] = list[At(j)]
  BY <1>1, <1>5
<1>b. \A i, j \in 1 .. n - 1 : At(i) = At(j) => i = j
  <2> SUFFICES ASSUME NEW i \in 1 .. n - 1, NEW j \in 1 .. n - 1, At(i) = At(j) PROVE i = j
    OBVIOUS
  <2>1. i \in Int /\ j \in Int /\ k \in Int
    BY <1>1
  <2>2. CASE i < k /\ j < k
    BY <2>1, <2>2
  <2>3. CASE i < k /\ ~(j < k)
    BY <2>1, <2>3
  <2>4. CASE ~(i < k) /\ j < k
    BY <2>1, <2>4
  <2>5. CASE ~(i < k) /\ ~(j < k)
    BY <2>1, <2>5
  <2> QED  BY <2>1, <2>2, <2>3, <2>4, <2>5
<1> HIDE DEF At
<1>6. \A j \in 1 .. n - 1 : q[j] \in (S \ {list[k]}) \cup C
  <2> SUFFICES ASSUME NEW j \in 1 .. n - 1 PROVE q[j] \in (S \ {list[k]}) \cup C
    OBVIOUS
  <2>1. PICK i \in 1 .. n : i # k /\ q[j] = list[i]
    BY <1>a
  <2>2. list[i] \in S \cup C /\ (list[k] = list[i] => k = i)
    BY DEF Lists
  <2> QED  BY <2>1, <2>2
<1>7. \A i, j \in 1 .. n - 1 : q[i] \in S \ {list[k]} /\ q[i] = q[j] => i = j
  <2> SUFFICES ASSUME NEW i \in 1 .. n - 1, NEW j \in 1 .. n - 1, q[i] \in S, q[i] = q[j] PROVE At(i) = At(j)
    BY <1>b
  <2>1. At(i) \in 1 .. n /\ At(j) \in 1 .. n /\ list[At(i)] = list[At(j)] /\ list[At(i)] \in S
    BY <1>a
  <2> QED  BY <2>1 DEF Lists
<1>8. \A s \in S \ {list[k]} : \E j \in 1 .. n - 1 : q[j] = s
  <2> SUFFICES ASSUME NEW s \in S \ {list[k]} PROVE \E j \in 1 .. n - 1 : q[j] = s
    OBVIOUS
  <2>1. PICK i \in 1 .. n : list[i] = s /\ i # k
    BY DEF Lists
  <2>2. CASE i < k
    <3>1. i \in 1 .. n - 1
      BY <2>2, <1>1
    <3> QED  BY <3>1, <2>1, <2>2, <1>5
  <2>3. CASE i > k
    <3>1. i - 1 \in 1 .. n - 1 /\ ~(i - 1 < k) /\ (i - 1) + 1 = i
      BY <2>3, <1>1
    <3>2. q[i - 1] = list[i]
      BY <3>1, <1>5
    <3> QED  BY <3>1, <3>2, <2>1
  <2> QED  BY <2>1, <2>2, <2>3
<1>9. Lists(q, S \ {list[k]}, C)
  BY <1>4, <1>6, <1>7, <1>8 DEF Lists
<1> QED  BY <1>9 DEF q

(* The last one taken.                                                     *)
LEMMA ListsLast ==
  ASSUME NEW list, NEW S, Lists(list, S, {}), list # <<>>
  PROVE  Buffers!Last(list) \in S /\ Lists(Buffers!Front(list), S \ {Buffers!Last(list)}, {})
<1> DEFINE n == Len(list)
<1>1. list \in Seq(Nat) /\ n \in 1 .. Len(list) /\ n \in Int
  BY DEF Lists
<1>2. \A i \in 1 .. n - 1 : list[i] \in Nat
  BY <1>1
<1>3. SubSeq(list, 1, n - 1) \in Seq(Nat) /\ SubSeq(list, n + 1, n) = <<>>
  BY <1>1, <1>2, SubSeqProperties, SubSeqEmpty
<1>4. Buffers!RemoveAt(list, n) = Buffers!Front(list)
  <2> DEFINE a == SubSeq(list, 1, n - 1)
  <2>1. a \o <<>> = a
    BY <1>3, ConcatEmptySeq
  <2> QED  BY <1>3, <2>1 DEF Buffers!RemoveAt, Buffers!Front
<1>5. Buffers!Last(list) = list[n]
  BY DEF Buffers!Last
<1>6. list[n] \in S
  BY <1>1 DEF Lists
<1> QED  BY <1>1, <1>4, <1>5, <1>6, ListsLess

(* The instance counts as this module does.                                *)
LEMMA BuffersCount == \A S : Buffers!Cardinality(S) = Cardinality(S)
BY DEF Buffers!Cardinality, Cardinality

(* How many times it names one.                                            *)
LEMMA ListsTimes ==
  ASSUME NEW list, NEW S, NEW C, Lists(list, S, C), NEW s, s \notin C
  PROVE  Buffers!Times(list, s) = IF s \in S THEN 1 ELSE 0
<1> DEFINE K == {k \in DOMAIN list : list[k] = s}
<1>1. Buffers!Times(list, s) = Cardinality(K)
  BY BuffersCount DEF Buffers!Times
<1>2. DOMAIN list = 1 .. Len(list)
  BY DEF Lists
<1>3. CASE s \in S
  <2>1. PICK k \in 1 .. Len(list) : list[k] = s
    BY <1>3 DEF Lists
  <2>2. K = {k}
    BY <2>1, <1>2 DEF Lists
  <2> HIDE DEF K
  <2>3. Cardinality({k}) = 1
    BY FS_Singleton
  <2> QED  BY <1>1, <1>3, <2>2, <2>3
<1>4. CASE s \notin S
  <2>1. K = {}
    BY <1>2, <1>4 DEF Lists
  <2> HIDE DEF K
  <2> QED  BY <1>1, <1>4, <2>1, FS_EmptySet
<1> QED  BY <1>3, <1>4

(* The slots of the buffers: x1 voices, x2 freeV, x3 freeDup.              *)
BufSlot == [obj : BOOLEAN, buf : Nat, cap : Sizes \cup {0}, len : Sizes, alive : BOOLEAN, primary : BOOLEAN,
         ownsBuf : BOOLEAN, shares : Int, owner : Nat, ref : Int]
SlotIds == 1 .. Len(x1)

(* An owner reads the buffer made with it; a duplicate of an owner, that   *)
(* of its owner.                                                           *)
OwnerTrue(s) == x1[s].buf = s /\ (x1[s].alive => x1[s].obj)
CopyTrue(s) ==
  /\ x1[s].obj /\ x1[s].cap = 0 /\ x1[s].owner \in SlotIds /\ x1[s].owner # s
  /\ x1[x1[s].owner].obj /\ (x1[x1[s].owner].ownsBuf => x1[s].buf = x1[s].owner)
SlotTrue == \A s \in SlotIds : IF x1[s].ownsBuf THEN OwnerTrue(s) ELSE CopyTrue(s)

(* Each slot counts its duplicates that live.                              *)
Readers(o) == {d \in SlotIds : ~x1[d].ownsBuf /\ x1[d].alive /\ x1[d].owner = o}
ReadTrue == \A o \in SlotIds : x1[o].shares = Cardinality(Readers(o))

(* What each list of free slots names.                                     *)
Reusable == {s \in SlotIds : x1[s].ownsBuf /\ ~x1[s].alive /\ x1[s].obj /\ x1[s].shares = 0}
Copies == {s \in SlotIds : ~x1[s].ownsBuf}
Spent == {s \in SlotIds : ~x1[s].ownsBuf /\ ~x1[s].alive}

BufInv == /\ x1 \in Seq(BufSlot) /\ SlotTrue /\ ReadTrue
          /\ Lists(x2, Reusable, Copies) /\ Lists(x3, Spent, {})

(* A finite set, and what one reader says of the count.                    *)
LEMMA ReadersCounted ==
  ASSUME BufInv, NEW o
  PROVE  /\ IsFiniteSet(Readers(o)) /\ Cardinality(Readers(o)) \in Nat
         /\ Readers(o) # {} => Cardinality(Readers(o)) > 0
<1>1. IsFiniteSet(SlotIds) /\ Readers(o) \subseteq SlotIds
  BY FS_Interval DEF BufInv, SlotIds, Readers
<1>2. IsFiniteSet(Readers(o))
  BY <1>1, FS_Subset
<1>3. Cardinality(Readers(o)) \in Nat /\ (Cardinality(Readers(o)) = 0 <=> Readers(o) = {})
  BY <1>2, FS_CardinalityType, FS_EmptySet
<1> QED  BY <1>2, <1>3

(* What the buffers promise follows from what is kept of them.             *)
LEMMA BufPromise == BufInv => Buffers!BuffersSafe
<1> SUFFICES ASSUME BufInv PROVE Buffers!BuffersSafe
  OBVIOUS
<1>0. /\ DOMAIN x1 = SlotIds /\ DOMAIN x2 = 1 .. Len(x2) /\ x1 \in Seq(BufSlot)
      /\ \A k \in 1 .. Len(x2) : x2[k] \in Reusable \cup Copies
  BY DEF BufInv, SlotIds, Lists
<1>1. Buffers!SharedHeld
  <2> SUFFICES ASSUME NEW k \in 1 .. Len(x2), NEW s \in SlotIds, x1[s].alive, x1[x2[k]].ownsBuf,
                      x1[s].buf = x1[x2[k]].buf
               PROVE  ~x1[s].ownsBuf /\ ~x1[x1[s].owner].ownsBuf
    BY <1>0 DEF Buffers!SharedHeld, Buffers!Indirect, Buffers!Alive, Buffers!Slots
  <2> DEFINE o == x2[k]
  <2>1. o \in SlotIds /\ x1[o].ownsBuf /\ ~x1[o].alive /\ x1[o].shares = 0 /\ x1[s].buf = x1[o].buf
    BY <1>0 DEF Reusable, Copies
  <2> HIDE DEF o
  <2>2. x1[o].buf = o /\ Cardinality(Readers(o)) = 0
    BY <2>1 DEF BufInv, SlotTrue, OwnerTrue, ReadTrue
  <2>3. s \notin Readers(o)
    BY <2>2, ReadersCounted
  <2> QED  BY <2>1, <2>2, <2>3 DEF BufInv, SlotTrue, OwnerTrue, CopyTrue, Readers
<1>2. Buffers!SlotsAccounted
  <2> SUFFICES ASSUME NEW s \in SlotIds
               PROVE  LET ready == IF x1[s].alive \/ ~x1[s].obj \/ (x1[s].ownsBuf /\ x1[s].shares > 0) THEN 0 ELSE 1
                      IN /\ x1[s].ownsBuf => Buffers!Times(x2, s) = ready /\ Buffers!Times(x3, s) = 0
                         /\ ~x1[s].ownsBuf => Buffers!Times(x3, s) = ready /\ x1[s].cap = 0
    BY <1>0 DEF Buffers!SlotsAccounted, Buffers!Alive, Buffers!Slots
  <2>1. Buffers!Times(x3, s) = IF s \in Spent THEN 1 ELSE 0
    BY ListsTimes DEF BufInv
  <2>2. s \notin Copies => Buffers!Times(x2, s) = IF s \in Reusable THEN 1 ELSE 0
    BY ListsTimes DEF BufInv
  <2>3. x1[s].shares \in Nat
    BY ReadersCounted DEF BufInv, ReadTrue
  <2>4. ~x1[s].ownsBuf => x1[s].obj /\ x1[s].cap = 0
    BY DEF BufInv, SlotTrue, CopyTrue
  <2> QED  BY <2>1, <2>2, <2>3, <2>4 DEF Reusable, Spent, Copies
<1>3. Buffers!OneOwner
  BY <1>0 DEF Buffers!OneOwner, Buffers!Alive, Buffers!Slots, BufInv, SlotTrue, OwnerTrue
<1> QED  BY <1>1, <1>2, <1>3 DEF Buffers!BuffersSafe

(* No buffer, nothing on either list.                                      *)
LEMMA BufStart == Buffers!Init => BufInv
<1> SUFFICES ASSUME x1 = <<>>, x2 = <<>>, x3 = <<>> PROVE BufInv
  BY DEF Buffers!Init
<1>1. x1 \in Seq(BufSlot) /\ SlotIds = {} /\ Len(x2) = 0 /\ x2 \in Seq(Nat) /\ Len(x3) = 0 /\ x3 \in Seq(Nat)
  BY DEF SlotIds
<1>2. Reusable = {} /\ Spent = {} /\ Copies = {}
  BY <1>1 DEF Reusable, Spent, Copies
<1>3. SlotTrue /\ ReadTrue
  BY <1>1 DEF SlotTrue, ReadTrue
<1>4. Lists(x2, {}, {}) /\ Lists(x3, {}, {})
  BY <1>1 DEF Lists
<1> QED  BY <1>1, <1>2, <1>3, <1>4 DEF BufInv

(* A slot as the invariant sees it.                                        *)
Like(v, w) ==
  /\ v.obj = w.obj /\ v.buf = w.buf /\ v.alive = w.alive /\ v.ownsBuf = w.ownsBuf
  /\ v.shares = w.shares /\ v.owner = w.owner /\ v.cap = w.cap

(* A change of a count of references is nothing to it.                     *)
LEMMA CountOnly ==
  ASSUME BufInv, NEW s \in SlotIds, NEW r \in Int, x1' = [x1 EXCEPT ![s].ref = r],
         UNCHANGED <<x2, x3>>
  PROVE  BufInv'
<1> DEFINE w == [x1[s] EXCEPT !.ref = r]
<1>1. x1 \in Seq(BufSlot) /\ x1[s] \in BufSlot /\ s \in 1 .. Len(x1)
  BY DEF BufInv, SlotIds
<1>2. w \in BufSlot /\ Like(w, x1[s])
  BY <1>1 DEF BufSlot, Like
<1>3. x1' = [x1 EXCEPT ![s] = w]
  OBVIOUS
<1> HIDE DEF w
<1>4. /\ x1' \in Seq(BufSlot) /\ Len(x1') = Len(x1)
      /\ \A t \in SlotIds : Like(x1'[t], x1[t])
  <2>1. /\ x1' \in Seq(BufSlot) /\ Len(x1') = Len(x1)
        /\ \A t \in SlotIds : x1'[t] = IF t = s THEN w ELSE x1[t]
    BY <1>1, <1>2, <1>3, OneReplaced DEF SlotIds
  <2> QED  BY <1>2, <2>1 DEF Like
<1>5. SlotIds' = SlotIds
  BY <1>4 DEF SlotIds
<1>6. Reusable' = Reusable /\ Spent' = Spent /\ Copies' = Copies /\ \A o : Readers(o)' = Readers(o)
  BY <1>4, <1>5 DEF Reusable, Spent, Copies, Readers, Like
<1>7. SlotTrue'
  BY <1>4, <1>5 DEF BufInv, SlotTrue, OwnerTrue, CopyTrue, Like
<1>8. ReadTrue'
  BY <1>4, <1>5, <1>6 DEF BufInv, ReadTrue, Like
<1> QED  BY <1>4, <1>6, <1>7, <1>8 DEF BufInv

(* A slot made an owner that nobody reads.                                 *)
OwnerMade(w, s) ==
  /\ w \in BufSlot /\ w.buf = s /\ w.ownsBuf /\ w.shares = 0 /\ (w.alive => w.obj) /\ (w.obj => w.alive)

(* A buffer of its own, and one whose object was refused.                  *)
LEMMA OwnerIsMade ==
  ASSUME NEW b \in Nat, NEW cap \in Sizes \cup {0}, NEW bytes \in Sizes, NEW primary \in BOOLEAN
  PROVE  /\ OwnerMade(Buffers!Owner(b, cap, bytes, primary), b) /\ Buffers!Owner(b, cap, bytes, primary).obj
         /\ OwnerMade([Buffers!Owner(b, cap, bytes, primary) EXCEPT !.obj = FALSE, !.alive = FALSE, !.ref = 0], b)
<1> DEFINE v == Buffers!Owner(b, cap, bytes, primary)
           w == [v EXCEPT !.obj = FALSE, !.alive = FALSE, !.ref = 0]
<1>1. v \in BufSlot
  <2>1. v = [obj |-> TRUE, buf |-> b, cap |-> cap, len |-> bytes, alive |-> TRUE, primary |-> primary,
             ownsBuf |-> TRUE, shares |-> 0, owner |-> 0, ref |-> 1]
    BY DEF Buffers!Owner, Buffers!None
  <2> HIDE DEF v
  <2>2. CASE primary = TRUE
    BY <2>1, <2>2 DEF BufSlot
  <2>3. CASE primary = FALSE
    BY <2>1, <2>3 DEF BufSlot
  <2> QED  BY <2>2, <2>3
<1>2. v.buf = b /\ v.ownsBuf /\ v.shares = 0 /\ v.alive /\ v.obj
  BY DEF Buffers!Owner
<1> HIDE DEF v
<1>3. w \in BufSlot /\ w.buf = v.buf /\ w.ownsBuf = v.ownsBuf /\ w.shares = v.shares
      /\ w.alive = FALSE /\ w.obj = FALSE
  <2>1. w.buf = v.buf /\ w.ownsBuf = v.ownsBuf /\ w.shares = v.shares
        /\ w.alive = FALSE /\ w.obj = FALSE
    BY <1>1 DEF BufSlot
  <2> DEFINE w1 == [v EXCEPT !.obj = FALSE]
             w2 == [w1 EXCEPT !.alive = FALSE]
             w3 == [w2 EXCEPT !.ref = 0]
  <2>2. w1 \in BufSlot
    BY <1>1 DEF BufSlot
  <2> HIDE DEF w1
  <2>3. w2 \in BufSlot
    BY <2>2 DEF BufSlot
  <2> HIDE DEF w2
  <2>4. w3 \in BufSlot
    BY <2>3 DEF BufSlot
  <2> HIDE DEF w3
  <2>5. w = w3
    BY DEF w1, w2, w3
  <2> QED  BY <2>1, <2>4, <2>5
<1> HIDE DEF w
<1>4. OwnerMade(v, b) /\ v.obj
  BY <1>1, <1>2 DEF OwnerMade
<1>5. OwnerMade(w, b)
  BY <1>2, <1>3 DEF OwnerMade
<1> QED  BY <1>4, <1>5 DEF v, w

(* A free slot used again, or one more: its readers are none.              *)
LEMMA OwnerComes ==
  ASSUME BufInv, NEW s \in Nat, NEW w, OwnerMade(w, s),
         x1' \in Seq(BufSlot), SlotIds' = SlotIds \cup {s}, x1'[s] = w,
         \A t \in SlotIds : t # s => x1'[t] = x1[t],
         (s \in Reusable /\ w.obj) \/ s \notin SlotIds,
         Lists(x2', Reusable \ {s}, Copies), x3' = x3
  PROVE  BufInv'
<1> USE DEF OwnerMade
<1>1. \A o : Readers(o)' = Readers(o)
  BY DEF Readers, Reusable
<1>2. Readers(s) = {}
  <2>1. CASE s \in Reusable
    BY <2>1, ReadersCounted DEF BufInv, ReadTrue, Reusable
  <2>2. CASE s \notin SlotIds
    BY <2>2 DEF BufInv, SlotTrue, CopyTrue, Readers
  <2> QED  BY <2>1, <2>2
<1>3. Reusable' = Reusable \ {s} /\ Spent' = Spent /\ Copies' = Copies
  BY DEF Reusable, Spent, Copies
<1>4. SlotTrue'
  <2> SUFFICES ASSUME NEW t \in SlotIds' PROVE (IF x1[t].ownsBuf THEN OwnerTrue(t) ELSE CopyTrue(t))'
    BY DEF SlotTrue
  <2>1. CASE t = s
    BY <2>1 DEF OwnerTrue
  <2>2. CASE t # s
    <3>1. t \in SlotIds /\ x1'[t] = x1[t]
      BY <2>2
    <3>2. CASE x1[t].ownsBuf
      BY <3>1, <3>2 DEF BufInv, SlotTrue, OwnerTrue
    <3>3. CASE ~x1[t].ownsBuf
      <4> DEFINE o == x1[t].owner
      <4>1. o \in SlotIds /\ x1[o].obj /\ CopyTrue(t)
        BY <3>1, <3>3 DEF BufInv, SlotTrue, CopyTrue
      <4> HIDE DEF o
      <4>2. (x1'[o].ownsBuf <=> x1[o].ownsBuf) /\ x1'[o].obj
        <5>1. CASE o = s
          BY <4>1, <5>1 DEF Reusable
        <5>2. CASE o # s
          BY <4>1, <5>2
        <5> QED  BY <5>1, <5>2
      <4> USE DEF o
      <4> QED  BY <3>1, <3>3, <4>1, <4>2 DEF CopyTrue
    <3> QED  BY <3>2, <3>3
  <2> QED  BY <2>1, <2>2
<1>5. ReadTrue'
  BY <1>1, <1>2, FS_EmptySet DEF BufInv, ReadTrue
<1> QED  BY <1>3, <1>4, <1>5 DEF BufInv

(* CreateSoundBuffer: the first slot large enough, or a new one.           *)
LEMMA CreateBufKeeps ==
  ASSUME BufInv, NEW bytes \in Sizes, NEW primary \in BOOLEAN, Buffers!CreateSoundBuffer(bytes, primary)
  PROVE  BufInv'
<1>1. /\ x1 \in Seq(BufSlot) /\ Len(x1) \in Nat /\ Lists(x2, Reusable, Copies)
      /\ DOMAIN x2 = 1 .. Len(x2) /\ SlotIds \subseteq Nat /\ SlotIds = 1 .. Len(x1)
  BY DEF BufInv, Lists, SlotIds
<1>2. CASE Buffers!Reuse(bytes, primary)
  <2>1. PICK k \in Buffers!Fits(bytes) :
          /\ x1' = [x1 EXCEPT ![x2[k]] = Buffers!Owner(@.buf, @.cap, bytes, primary)]
          /\ x2' = Buffers!RemoveAt(x2, k) /\ x3' = x3
    BY <1>2 DEF Buffers!Reuse
  <2>2. k \in 1 .. Len(x2)
    BY <1>1 DEF Buffers!Fits
  <2> DEFINE s == x2[k]
             w == Buffers!Owner(x1[s].buf, x1[s].cap, bytes, primary)
  <2>3. s \in Reusable /\ s \in SlotIds
    <3>1. s \in Reusable \cup Copies /\ x1[s].cap >= bytes
      BY <1>1, <2>1, <2>2 DEF Lists, Buffers!Fits
    <3>2. bytes \in Nat /\ bytes > 0
      BY SoundAssumption DEF Buffers!SizesAssumption
    <3>3. s \notin Copies
      BY <3>1, <3>2 DEF BufInv, SlotTrue, CopyTrue, Copies
    <3> QED  BY <3>1, <3>3 DEF Reusable
  <2>4. x1' = [x1 EXCEPT ![s] = w]
    BY <2>1
  <2>5. x1[s].buf = s /\ x1[s] \in BufSlot
    BY <1>1, <2>3 DEF BufInv, SlotTrue, OwnerTrue, Reusable
  <2>6. OwnerMade(w, s) /\ w.obj
    <3>1. x1[s].buf \in Nat /\ x1[s].cap \in Sizes \cup {0}
      BY <2>5 DEF BufSlot
    <3>2. OwnerMade(Buffers!Owner(x1[s].buf, x1[s].cap, bytes, primary), x1[s].buf)
          /\ Buffers!Owner(x1[s].buf, x1[s].cap, bytes, primary).obj
      <4> HIDE DEF s
      <4> QED  BY <3>1, OwnerIsMade, Zenon
    <3> HIDE DEF s
    <3> QED  BY <2>5, <3>2
  <2>7. Lists(x2', Reusable \ {s}, Copies)
    BY <1>1, <2>1, <2>2, <2>3, ListsLess
  <2> HIDE DEF s, w
  <2>8. /\ x1' \in Seq(BufSlot) /\ Len(x1') = Len(x1)
        /\ \A t \in SlotIds : x1'[t] = IF t = s THEN w ELSE x1[t]
    BY <1>1, <2>3, <2>4, <2>6, OneReplaced DEF OwnerMade
  <2>9. SlotIds' = SlotIds \cup {s} /\ s \in Nat
    BY <1>1, <2>3, <2>8 DEF SlotIds
  <2> QED  BY <2>1, <2>3, <2>6, <2>7, <2>8, <2>9, OwnerComes
<1>3. CASE Buffers!CreateNew(bytes, primary)
  <2> DEFINE s == Len(x1) + 1
  <2>1. PICK w : /\ OwnerMade(w, s) /\ x1' = Append(x1, w)
                 /\ x2' = x2 /\ x3' = x3
    <3>1. s \in Nat /\ bytes \in Sizes \cup {0}
      BY <1>1
    <3> DEFINE f == Buffers!Owner(s, bytes, bytes, primary)
    <3>2. x1' \in {Append(x1, f), Append(x1, [f EXCEPT !.obj = FALSE, !.alive = FALSE, !.ref = 0])}
          /\ x2' = x2 /\ x3' = x3
      BY <1>3 DEF Buffers!CreateNew
    <3> HIDE DEF s
    <3>3. OwnerMade(f, s) /\ OwnerMade([f EXCEPT !.obj = FALSE, !.alive = FALSE, !.ref = 0], s)
      BY <3>1, OwnerIsMade, Zenon
    <3> HIDE DEF f
    <3> QED  BY <3>2, <3>3
  <2>2. /\ x1' \in Seq(BufSlot) /\ Len(x1') = s
        /\ \A t \in SlotIds : x1'[t] = x1[t]
        /\ x1'[s] = w
    BY <1>1, <2>1, OneMore DEF OwnerMade
  <2>3. SlotIds' = SlotIds \cup {s} /\ s \in Nat /\ s \notin SlotIds
    BY <1>1, <2>2 DEF SlotIds
  <2>4. Reusable \ {s} = Reusable
    BY <2>3 DEF Reusable
  <2> HIDE DEF s
  <2> QED  BY <1>1, <2>1, <2>2, <2>3, <2>4, OwnerComes
<1> QED  BY <1>2, <1>3 DEF Buffers!CreateSoundBuffer

(* A duplicate comes, in a spent slot or one more: its owner counts it.    *)
LEMMA CopyComes ==
  ASSUME BufInv, NEW s \in SlotIds, x1[s].alive, NEW d \in Nat, d # s,
         d \in Spent \/ d \notin SlotIds,
         x1' \in Seq(BufSlot), SlotIds' = SlotIds \cup {d},
         \A t \in SlotIds : t # s /\ t # d => x1'[t] = x1[t],
         Like(x1'[s], [x1[s] EXCEPT !.shares = @ + 1]),
         x1'[d].obj, x1'[d].shares = IF d \in SlotIds THEN x1[d].shares ELSE 0, x1'[d].buf = x1[s].buf,
         x1'[d].owner = s, ~x1'[d].ownsBuf, x1'[d].alive, x1'[d].cap = 0,
         x2' = x2, Lists(x3', Spent \ {d}, {})
  PROVE  BufInv'
<1>1. x1[s] \in BufSlot /\ x1 \in Seq(BufSlot)
  BY DEF BufInv, SlotIds
<1>2. /\ x1'[s].obj = x1[s].obj /\ x1'[s].buf = x1[s].buf /\ x1'[s].alive = x1[s].alive
      /\ x1'[s].ownsBuf = x1[s].ownsBuf /\ x1'[s].shares = x1[s].shares + 1
      /\ x1'[s].cap = x1[s].cap /\ x1'[s].owner = x1[s].owner
  BY <1>1 DEF Like, BufSlot
<1>3. /\ x1[s].obj /\ (x1[s].ownsBuf => x1[s].buf = s) /\ x1[s].shares = Cardinality(Readers(s))
  BY DEF BufInv, SlotTrue, OwnerTrue, CopyTrue, ReadTrue
<1>a. \A t \in SlotIds : t # d =>
        /\ x1'[t].ownsBuf <=> x1[t].ownsBuf
        /\ x1'[t].alive <=> x1[t].alive
        /\ x1'[t].obj <=> x1[t].obj
        /\ x1'[t].owner = x1[t].owner
        /\ t # s => x1'[t].shares = x1[t].shares
  <2> SUFFICES ASSUME NEW t \in SlotIds, t # d
               PROVE  /\ x1'[t].ownsBuf <=> x1[t].ownsBuf
                      /\ x1'[t].alive <=> x1[t].alive
                      /\ x1'[t].obj <=> x1[t].obj
                      /\ x1'[t].owner = x1[t].owner
                      /\ t # s => x1'[t].shares = x1[t].shares
    OBVIOUS
  <2>1. CASE t = s
    BY <2>1, <1>2
  <2>2. CASE t # s
    <3>1. x1'[t] = x1[t]
      BY <2>2
    <3> QED  BY <3>1
  <2> QED  BY <2>1, <2>2
<1>b. d \in SlotIds => ~x1[d].ownsBuf /\ ~x1[d].alive
  BY DEF Spent
<1>4. d \notin Readers(s) /\ Readers(s)' = Readers(s) \cup {d}
  BY <1>a, <1>b DEF Readers
<1>5. \A o : o # s => Readers(o)' = Readers(o)
  BY <1>a, <1>b DEF Readers
<1>6. Reusable' = Reusable /\ Spent' = Spent \ {d} /\ Copies' = Copies \cup {d} /\ d \notin Reusable
  <2>1. \A t \in SlotIds : t # d => (t \in Reusable' <=> t \in Reusable)
    <3>1. s \notin Reusable /\ s \notin Reusable'
      BY <1>2 DEF Reusable
    <3>2. \A t \in SlotIds : t # d /\ t # s => (t \in Reusable' <=> t \in Reusable)
      BY <1>a DEF Reusable
    <3> QED  BY <3>1, <3>2
  <2>2. d \notin Reusable /\ d \notin Reusable' /\ Reusable \subseteq SlotIds /\ Reusable' \subseteq SlotIds \cup {d}
    BY <1>b DEF Reusable
  <2>3. Spent' = Spent \ {d}
    BY <1>a, <1>b DEF Spent
  <2>4. Copies' = Copies \cup {d}
    BY <1>a, <1>b DEF Copies
  <2>5. Reusable' = Reusable
    <3>1. \A t : t \in Reusable' <=> t \in Reusable
      BY <2>1, <2>2
    <3> QED  BY <3>1
  <2> QED  BY <2>2, <2>3, <2>4, <2>5
<1>7. Cardinality(Readers(s) \cup {d}) = Cardinality(Readers(s)) + 1
  <2> DEFINE R == Readers(s)
  <2>1. IsFiniteSet(R) /\ d \notin R
    BY <1>4, ReadersCounted
  <2> HIDE DEF R
  <2>2. Cardinality(R \cup {d}) = Cardinality(R) + 1
    BY <2>1, FS_AddElement
  <2> QED  BY <2>2 DEF R
<1>8. ReadTrue'
  <2> SUFFICES ASSUME NEW o \in SlotIds' PROVE x1'[o].shares = Cardinality(Readers(o)')
    BY DEF ReadTrue
  <2>1. CASE o = s
    BY <2>1, <1>2, <1>3, <1>4, <1>7
  <2>2. CASE o # s /\ o \in SlotIds
    BY <2>2, <1>5 DEF BufInv, ReadTrue
  <2>3. CASE o = d /\ d \notin SlotIds
    <3>1. Readers(d) = {}
      BY <2>3 DEF Readers, BufInv, SlotTrue, CopyTrue
    <3>2. x1'[d].shares = 0 /\ Readers(d)' = Readers(d)
      BY <2>3, <1>5
    <3> QED  BY <2>3, <3>1, <3>2, FS_EmptySet
  <2> QED  BY <2>1, <2>2, <2>3
<1>9. SlotTrue'
  <2> SUFFICES ASSUME NEW t \in SlotIds' PROVE (IF x1[t].ownsBuf THEN OwnerTrue(t) ELSE CopyTrue(t))'
    BY DEF SlotTrue
  <2>a. \A o \in SlotIds : (x1'[o].ownsBuf <=> x1[o].ownsBuf) /\ (x1[o].obj => x1'[o].obj)
    BY <1>a, <1>b
  <2>1. CASE t = s
    <3>1. CASE x1[s].ownsBuf
      BY <2>1, <3>1, <1>2, <1>3 DEF OwnerTrue
    <3>2. CASE ~x1[s].ownsBuf
      <4>1. CopyTrue(s)
        BY <3>2 DEF BufInv, SlotTrue
      <4> QED  BY <2>1, <3>2, <4>1, <2>a, <1>2 DEF CopyTrue
    <3> QED  BY <3>1, <3>2
  <2>2. CASE t = d
    BY <2>2, <1>2, <1>3 DEF CopyTrue
  <2>3. CASE t # s /\ t # d
    <3>1. t \in SlotIds /\ x1'[t] = x1[t]
      BY <2>3
    <3>2. CASE x1[t].ownsBuf
      BY <3>1, <3>2 DEF BufInv, SlotTrue, OwnerTrue
    <3>3. CASE ~x1[t].ownsBuf
      <4>1. CopyTrue(t)
        BY <3>1, <3>3 DEF BufInv, SlotTrue
      <4> QED  BY <3>1, <3>3, <4>1, <2>a DEF CopyTrue
    <3> QED  BY <3>2, <3>3
  <2> QED  BY <2>1, <2>2, <2>3
<1>10. Lists(x2', Reusable', Copies')
  <2>1. Lists(x2, Reusable, Copies) /\ x2' = x2
    BY DEF BufInv
  <2> QED  BY <2>1, <1>6 DEF Lists
<1> QED  BY <1>6, <1>8, <1>9, <1>10 DEF BufInv

(* A slot with another count is a slot.                                    *)
LEMMA CountSet ==
  ASSUME NEW v \in BufSlot, NEW r \in Int
  PROVE  [v EXCEPT !.ref = r] \in BufSlot /\ [v EXCEPT !.shares = r] \in BufSlot
<1>1. [v EXCEPT !.ref = r] \in BufSlot
  BY DEF BufSlot
<1>2. [v EXCEPT !.shares = r] \in BufSlot
  BY DEF BufSlot
<1> QED  BY <1>1, <1>2

(* A duplicate as it is made.                                              *)
LEMMA CopyIsMade ==
  ASSUME x1 \in Seq(BufSlot), NEW s \in SlotIds, x1[s].alive, x1[s].obj, NEW n \in Int
  PROVE  LET w == Buffers!DuplicateOf(s, n)
         IN /\ w \in BufSlot /\ w.obj /\ w.shares = n /\ w.buf = x1[s].buf /\ w.owner = s /\ ~w.ownsBuf
            /\ w.alive /\ w.cap = 0
<1> DEFINE v == x1[s]
           w1 == [v EXCEPT !.cap = 0]
           w2 == [w1 EXCEPT !.ownsBuf = FALSE]
           w3 == [w2 EXCEPT !.owner = s]
           w4 == [w3 EXCEPT !.primary = FALSE]
           w5 == [w4 EXCEPT !.ref = 1]
           w6 == [w5 EXCEPT !.shares = n]
           b == x1[s].buf
<1>0. v \in BufSlot
  BY DEF SlotIds
<1>1. v.buf = b /\ v.obj /\ v.alive /\ s \in Nat
  BY DEF SlotIds
<1> HIDE DEF v, b
<1>2. w1 \in BufSlot
  BY <1>0 DEF BufSlot
<1>3. w1.buf = b /\ w1.obj /\ w1.alive /\ w1.cap = 0
  BY <1>0, <1>1 DEF BufSlot
<1> HIDE DEF w1
<1>4. w2 \in BufSlot
  BY <1>2 DEF BufSlot
<1>5. w2.buf = b /\ w2.obj /\ w2.alive /\ ~w2.ownsBuf /\ w2.cap = 0
  BY <1>2, <1>3 DEF BufSlot
<1> HIDE DEF w2
<1>6. w3 \in BufSlot
  BY <1>4, <1>1 DEF BufSlot
<1>7. w3.buf = b /\ w3.obj /\ w3.alive /\ ~w3.ownsBuf /\ w3.owner = s /\ w3.cap = 0
  BY <1>4, <1>5 DEF BufSlot
<1> HIDE DEF w3
<1>8. w4 \in BufSlot
  BY <1>6 DEF BufSlot
<1>9. w4.buf = b /\ w4.obj /\ w4.alive /\ ~w4.ownsBuf /\ w4.owner = s /\ w4.cap = 0
  BY <1>6, <1>7 DEF BufSlot
<1> HIDE DEF w4
<1>a. n \in Int /\ 1 \in Int
  OBVIOUS
<1>10. w5 \in BufSlot
  BY <1>8, <1>a, CountSet, Zenon
<1>11. w5.buf = b /\ w5.obj /\ w5.alive /\ ~w5.ownsBuf /\ w5.owner = s /\ w5.cap = 0
  BY <1>8, <1>9 DEF BufSlot
<1> HIDE DEF w5
<1>12. w6 \in BufSlot
  BY <1>10, <1>a, CountSet, Zenon
<1>13. w6.buf = b /\ w6.obj /\ w6.alive /\ ~w6.ownsBuf /\ w6.owner = s /\ w6.shares = n /\ w6.cap = 0
  BY <1>10, <1>11 DEF BufSlot
<1> HIDE DEF w6
<1>14. Buffers!DuplicateOf(s, n) = w6
  BY DEF Buffers!DuplicateOf, w6, w5, w4, w3, w2, w1, v
<1> QED  BY <1>12, <1>13, <1>14 DEF b

(* DuplicateSoundBuffer: the last spent duplicate anew, or a new one.      *)
LEMMA DuplicateKeeps ==
  ASSUME BufInv, NEW s \in SlotIds, Buffers!DuplicateSoundBuffer(s)
  PROVE  BufInv'
<1>1. /\ x1 \in Seq(BufSlot) /\ Len(x1) \in Nat /\ Lists(x3, Spent, {})
      /\ SlotIds \subseteq Nat /\ SlotIds = 1 .. Len(x1)
      /\ x1[s].alive /\ x2' = x2
  BY DEF BufInv, Lists, SlotIds, Buffers!DuplicateSoundBuffer, Buffers!Alive
<1>2. x1[s].obj /\ x1[s] \in BufSlot
  BY <1>1 DEF BufInv, SlotTrue, OwnerTrue, CopyTrue
<1> DEFINE counted == [x1 EXCEPT ![s].shares = @ + 1]
           u == [x1[s] EXCEPT !.shares = @ + 1]
           b == x1[s].buf
           w(n) == Buffers!DuplicateOf(s, n)
<1>3. \A n \in Int : /\ w(n) \in BufSlot /\ w(n).obj /\ w(n).shares = n /\ w(n).buf = b /\ w(n).owner = s
                   /\ ~w(n).ownsBuf /\ w(n).alive /\ w(n).cap = 0
  BY <1>1, <1>2, CopyIsMade
<1>4. u \in BufSlot
  BY <1>2 DEF BufSlot
<1>5. /\ counted \in Seq(BufSlot) /\ Len(counted) = Len(x1)
      /\ \A t \in SlotIds : counted[t] = IF t = s THEN u ELSE x1[t]
  <2>1. counted = [x1 EXCEPT ![s] = u]
    OBVIOUS
  <2> HIDE DEF counted, u
  <2> QED  BY <1>1, <1>4, <2>1, OneReplaced
<1>6. \/ /\ x3 # <<>> /\ x3' = Buffers!Front(x3)
         /\ x1' = [counted EXCEPT ![Buffers!Last(x3)] = Buffers!DuplicateOf(s, @.shares)]
      \/ x1' = Append(counted, w(0)) /\ x3' = x3
  BY DEF Buffers!DuplicateSoundBuffer
<1> HIDE DEF counted, w, b
<1>7. CASE /\ x3 # <<>> /\ x3' = Buffers!Front(x3)
           /\ x1' = [counted EXCEPT ![Buffers!Last(x3)] = Buffers!DuplicateOf(s, @.shares)]
  <2> DEFINE d == Buffers!Last(x3)
             n == x1[d].shares
  <2>1. d \in Spent /\ Lists(x3', Spent \ {d}, {})
    BY <1>1, <1>7, ListsLast
  <2>3. x1' = [counted EXCEPT ![d] = w(n)]
    <3>0. d \in SlotIds /\ d # s
      BY <1>1, <2>1 DEF Spent
    <3>1. counted[d] = x1[d]
      BY <1>5, <3>0
    <3>2. x1' = [counted EXCEPT ![d] = Buffers!DuplicateOf(s, counted[d].shares)]
      BY <1>7
    <3> QED  BY <3>1, <3>2 DEF w
  <2> HIDE DEF d
  <2>2. d \in SlotIds /\ d # s /\ x1[d] \in BufSlot
    BY <1>1, <2>1 DEF Spent
  <2>a. n \in Int
    BY <2>2 DEF BufSlot
  <2>b. w(n) \in BufSlot
    BY <1>3, <2>a
  <2>4. /\ x1' \in Seq(BufSlot) /\ Len(x1') = Len(x1)
        /\ \A t \in SlotIds : x1'[t] = IF t = d THEN w(n) ELSE counted[t]
    BY <1>1, <1>5, <2>b, <2>2, <2>3, OneReplaced
  <2>5. SlotIds' = SlotIds \cup {d} /\ d \in Nat
    BY <1>1, <2>2, <2>4 DEF SlotIds
  <2>6. /\ \A t \in SlotIds : t # s /\ t # d => x1'[t] = x1[t]
        /\ x1'[s] = u /\ x1'[d] = w(n)
    BY <1>5, <2>2, <2>4
  <2>7. Like(x1'[s], [x1[s] EXCEPT !.shares = @ + 1])
    BY <2>6 DEF Like
  <2> HIDE DEF n
  <2>8. /\ x1'[d].obj /\ x1'[d].shares = n /\ x1'[d].buf = b /\ x1'[d].owner = s
        /\ ~x1'[d].ownsBuf /\ x1'[d].alive /\ x1'[d].cap = 0
    BY <1>3, <2>a, <2>6
  <2>9. x1'[d].shares = IF d \in SlotIds THEN x1[d].shares ELSE 0
    BY <2>2, <2>8 DEF n
  <2>10. x1'[d].buf = x1[s].buf
    BY <2>8 DEF b
  <2>11. x1' \in Seq(BufSlot)
    BY <2>4
  <2>12. x1[s].alive /\ x2' = x2
    BY <1>1
  <2> HIDE DEF u
  <2> QED  BY <2>12, <2>1, <2>2, <2>11, <2>5, <2>6, <2>7, <2>8, <2>9, <2>10, CopyComes
<1>8. CASE x1' = Append(counted, w(0)) /\ x3' = x3
  <2> DEFINE d == Len(x1) + 1
  <2>1. d \in Nat /\ d \notin SlotIds /\ d # s
    BY <1>1
  <2>b. w(0) \in BufSlot
    BY <1>3
  <2>2. /\ x1' \in Seq(BufSlot) /\ Len(x1') = Len(x1) + 1
        /\ \A t \in SlotIds : x1'[t] = counted[t]
        /\ x1'[d] = w(0)
    BY <1>1, <2>b, <1>5, <1>8, OneMore
  <2>3. SlotIds' = SlotIds \cup {d}
    BY <1>1, <2>2 DEF SlotIds
  <2> HIDE DEF d
  <2>4. /\ \A t \in SlotIds : t # s /\ t # d => x1'[t] = x1[t]
        /\ x1'[s] = u
    BY <1>5, <2>2
  <2>5. Like(x1'[s], [x1[s] EXCEPT !.shares = @ + 1])
    BY <2>4 DEF Like
  <2>a. Spent \ {d} = Spent
    BY <2>1 DEF Spent
  <2>6. Lists(x3', Spent \ {d}, {})
    BY <1>1, <1>8, <2>a
  <2> HIDE DEF u
  <2>7. x1' \in Seq(BufSlot) /\ x1'[d] = w(0)
    BY <2>2
  <2>8. x1'[d].obj /\ x1'[d].shares = 0 /\ x1'[d].buf = b /\ x1'[d].owner = s
        /\ ~x1'[d].ownsBuf /\ x1'[d].alive /\ x1'[d].cap = 0
    BY <1>3, <2>7
  <2>9. x1[s].alive /\ x2' = x2 /\ d \in Nat /\ d # s /\ d \notin SlotIds
    BY <1>1, <2>1
  <2>10. x1'[d].buf = x1[s].buf /\ x1'[d].shares = IF d \in SlotIds THEN x1[d].shares ELSE 0
    BY <2>8, <2>9 DEF b
  <2> QED  BY <2>9, <2>7, <2>3, <2>4, <2>5, <2>6, <2>8, <2>10, CopyComes
<1> QED  BY <1>6, <1>7, <1>8

(* The last reference to an owner gone: it is free once nobody reads it.   *)
LEMMA OwnerGoes ==
  ASSUME BufInv, NEW s \in SlotIds, x1[s].ownsBuf, x1[s].alive,
         x1' \in Seq(BufSlot), SlotIds' = SlotIds, \A t \in SlotIds : t # s => x1'[t] = x1[t],
         Like(x1'[s], [x1[s] EXCEPT !.alive = FALSE]),
         Lists(x2', IF x1[s].shares = 0 THEN Reusable \cup {s} ELSE Reusable, Copies), x3' = x3
  PROVE  BufInv'
<1>1. x1[s] \in BufSlot /\ x1 \in Seq(BufSlot)
  BY DEF BufInv, SlotIds
<1>2. /\ x1'[s].obj = x1[s].obj /\ x1'[s].buf = x1[s].buf /\ ~x1'[s].alive
      /\ x1'[s].ownsBuf = x1[s].ownsBuf /\ x1'[s].shares = x1[s].shares /\ x1'[s].cap = x1[s].cap
  BY <1>1 DEF Like, BufSlot
<1>3. x1[s].obj
  BY DEF BufInv, SlotTrue, OwnerTrue
<1>4. /\ Reusable' = IF x1[s].shares = 0 THEN Reusable \cup {s} ELSE Reusable
      /\ Spent' = Spent /\ Copies' = Copies /\ \A o : Readers(o)' = Readers(o)
  BY <1>2, <1>3 DEF Reusable, Spent, Copies, Readers
<1>5. SlotTrue'
  <2> SUFFICES ASSUME NEW t \in SlotIds PROVE (IF x1[t].ownsBuf THEN OwnerTrue(t) ELSE CopyTrue(t))'
    BY DEF SlotTrue
  <2>1. IF x1[t].ownsBuf THEN OwnerTrue(t) ELSE CopyTrue(t)
    BY DEF BufInv, SlotTrue
  <2>2. \A o \in SlotIds : x1'[o].ownsBuf = x1[o].ownsBuf /\ x1'[o].obj = x1[o].obj
    BY <1>2
  <2> QED  BY <1>2, <2>1, <2>2 DEF OwnerTrue, CopyTrue
<1>6. ReadTrue'
  BY <1>2, <1>4 DEF BufInv, ReadTrue
<1> QED  BY <1>4, <1>5, <1>6 DEF BufInv

(* The last reference to a duplicate gone: its owner counts it no more.    *)
LEMMA CopyGoes ==
  ASSUME BufInv, NEW s \in SlotIds, ~x1[s].ownsBuf, x1[s].alive, NEW o \in SlotIds, o = x1[s].owner,
         x1' \in Seq(BufSlot), SlotIds' = SlotIds, \A t \in SlotIds : t # s /\ t # o => x1'[t] = x1[t],
         Like(x1'[s], [x1[s] EXCEPT !.alive = FALSE]), Like(x1'[o], [x1[o] EXCEPT !.shares = @ - 1]),
         Lists(x2', IF x1[o].ownsBuf /\ x1[o].shares = 1 /\ ~x1[o].alive THEN Reusable \cup {o} ELSE Reusable,
               Copies),
         Lists(x3', Spent \cup {s}, {})
  PROVE  BufInv'
<1>1. x1[s] \in BufSlot /\ x1[o] \in BufSlot /\ x1 \in Seq(BufSlot)
  BY DEF BufInv, SlotIds
<1>2. /\ x1'[s].obj = x1[s].obj /\ x1'[s].buf = x1[s].buf /\ ~x1'[s].alive
      /\ x1'[s].ownsBuf = x1[s].ownsBuf /\ x1'[s].shares = x1[s].shares /\ x1'[s].owner = x1[s].owner
      /\ x1'[s].cap = x1[s].cap /\ x1'[o].cap = x1[o].cap /\ x1'[o].owner = x1[o].owner
      /\ x1'[o].obj = x1[o].obj /\ x1'[o].buf = x1[o].buf /\ x1'[o].alive = x1[o].alive
      /\ x1'[o].ownsBuf = x1[o].ownsBuf /\ x1'[o].shares = x1[o].shares - 1
  BY <1>1 DEF Like, BufSlot
<1>3. /\ x1[o].obj /\ o # s /\ x1[o].shares = Cardinality(Readers(o))
  BY DEF BufInv, SlotTrue, CopyTrue, ReadTrue
<1>4. s \in Readers(o) /\ Readers(o)' = Readers(o) \ {s}
  BY <1>2, <1>3 DEF Readers
<1>5. \A p : p # o => Readers(p)' = Readers(p)
  BY <1>2, <1>3 DEF Readers
<1>6. Spent' = Spent \cup {s} /\ Copies' = Copies
  BY <1>2, <1>3 DEF Spent, Copies
<1>7. Cardinality(Readers(o) \ {s}) = Cardinality(Readers(o)) - 1
  <2> DEFINE R == Readers(o)
  <2>1. IsFiniteSet(R) /\ s \in R
    BY <1>4, ReadersCounted
  <2> HIDE DEF R
  <2>2. Cardinality(R \ {s}) = Cardinality(R) - 1
    BY <2>1, FS_RemoveElement
  <2> QED  BY <2>2 DEF R
<1>8. x1[o].shares \in Nat /\ x1[o].shares > 0
  BY <1>3, <1>4, ReadersCounted
<1>9. Reusable' = IF x1[o].ownsBuf /\ x1[o].shares = 1 /\ ~x1[o].alive THEN Reusable \cup {o} ELSE Reusable
  <2>1. \A t \in SlotIds : t # o => (t \in Reusable' <=> t \in Reusable)
    BY <1>2, <1>3 DEF Reusable
  <2>2. o \notin Reusable
    BY <1>8 DEF Reusable
  <2>5. x1[o].shares - 1 = 0 <=> x1[o].shares = 1
    BY <1>8
  <2>3. o \in Reusable' <=> x1[o].ownsBuf /\ x1[o].shares = 1 /\ ~x1[o].alive
    BY <1>2, <1>3, <2>5 DEF Reusable
  <2>4. Reusable \subseteq SlotIds /\ Reusable' \subseteq SlotIds
    BY DEF Reusable
  <2> HIDE DEF Reusable
  <2>6. CASE x1[o].ownsBuf /\ x1[o].shares = 1 /\ ~x1[o].alive
    BY <2>1, <2>2, <2>3, <2>4, <2>6
  <2>7. CASE ~(x1[o].ownsBuf /\ x1[o].shares = 1 /\ ~x1[o].alive)
    <3>1. \A t : t \in Reusable' <=> t \in Reusable
      BY <2>1, <2>2, <2>3, <2>4, <2>7
    <3> QED  BY <3>1, <2>7
  <2> QED  BY <2>6, <2>7
<1>10. SlotTrue'
  <2> SUFFICES ASSUME NEW t \in SlotIds PROVE (IF x1[t].ownsBuf THEN OwnerTrue(t) ELSE CopyTrue(t))'
    BY DEF SlotTrue
  <2>1. IF x1[t].ownsBuf THEN OwnerTrue(t) ELSE CopyTrue(t)
    BY DEF BufInv, SlotTrue
  <2>2. \A p \in SlotIds : x1'[p].ownsBuf = x1[p].ownsBuf /\ x1'[p].obj = x1[p].obj
    BY <1>2
  <2> QED  BY <1>2, <1>3, <2>1, <2>2 DEF OwnerTrue, CopyTrue
<1>11. ReadTrue'
  <2> SUFFICES ASSUME NEW p \in SlotIds PROVE x1'[p].shares = Cardinality(Readers(p)')
    BY DEF ReadTrue
  <2>1. CASE p = o
    BY <2>1, <1>2, <1>3, <1>4, <1>7
  <2>2. CASE p # o
    <3>1. x1'[p].shares = x1[p].shares
      BY <2>2, <1>2
    <3> QED  BY <2>2, <3>1, <1>5 DEF BufInv, ReadTrue
  <2> QED  BY <2>1, <2>2
<1> QED  BY <1>6, <1>9, <1>10, <1>11 DEF BufInv

(* Release: an owner's last reference, a duplicate's, or any other.        *)
LEMMA BufReleaseKeeps ==
  ASSUME BufInv, NEW s \in SlotIds, Buffers!Release(s)
  PROVE  BufInv'
<1>1. /\ x1 \in Seq(BufSlot) /\ Len(x1) \in Nat /\ Lists(x2, Reusable, Copies) /\ Lists(x3, Spent, {})
      /\ SlotIds \subseteq Nat /\ SlotIds = 1 .. Len(x1) /\ x1[s] \in BufSlot /\ s \in Nat
  BY DEF BufInv, SlotIds
<1> DEFINE r == x1[s].ref - 1
           o == x1[s].owner
           left == [x1 EXCEPT ![s].ref = @ - 1]
           dead == [left EXCEPT ![s].alive = FALSE]
           u == [x1[s] EXCEPT !.ref = r]
           v == [u EXCEPT !.alive = FALSE]
<1>2. r \in Int /\ left = [x1 EXCEPT ![s].ref = r]
  BY <1>1 DEF BufSlot
<1> HIDE DEF r
<1>3. u \in BufSlot
  BY <1>1, <1>2, CountSet, Zenon
<1>4. v \in BufSlot
  <2> HIDE DEF u
  <2> QED  BY <1>3 DEF BufSlot
<1>5. /\ dead \in Seq(BufSlot) /\ Len(dead) = Len(x1)
      /\ \A t \in SlotIds : dead[t] = IF t = s THEN v ELSE x1[t]
  <2>1. dead = [x1 EXCEPT ![s] = v]
    BY <1>1, <1>2
  <2> HIDE DEF dead, v
  <2> QED  BY <1>1, <1>4, <2>1, OneReplaced
<1>6. Like(v, [x1[s] EXCEPT !.alive = FALSE])
  BY <1>1 DEF Like, BufSlot
<1>7. /\ v.owner = x1[s].owner /\ v.shares = x1[s].shares /\ v.ownsBuf = x1[s].ownsBuf
  BY <1>1 DEF BufSlot
<1>8. CASE x1' = left /\ x2' = x2 /\ x3' = x3
  BY <1>2, <1>8, CountOnly
<1>9. CASE x1[s].alive /\ x1[s].ownsBuf /\ x1' = dead /\ x2' = x2 \o Buffers!Returned(s) /\ x3' = x3
  <2>1. SlotIds' = SlotIds
    BY <1>5, <1>9 DEF SlotIds
  <2>2. x2' = IF x1[s].shares = 0 THEN Append(x2, s) ELSE x2
    <3>1. x2 \o <<s>> = Append(x2, s) /\ x2 \o <<>> = x2
      BY <1>1, ConcatEmptySeq, AppendIsConcat DEF Lists
    <3>2. Buffers!Returned(s) = IF x1[s].shares = 0 THEN <<s>> ELSE <<>>
      BY <1>9 DEF Buffers!Returned
    <3> QED  BY <1>9, <3>1, <3>2
  <2>3. s \notin Reusable /\ s \notin Copies
    BY <1>9 DEF Reusable, Copies
  <2>4. Lists(x2', IF x1[s].shares = 0 THEN Reusable \cup {s} ELSE Reusable, Copies)
    BY <1>1, <2>2, <2>3, ListsMore
  <2> HIDE DEF left, dead, u, v
  <2>5. x1' \in Seq(BufSlot) /\ x1'[s] = v /\ \A t \in SlotIds : t # s => x1'[t] = x1[t]
    BY <1>5, <1>9
  <2>6. Like(x1'[s], [x1[s] EXCEPT !.alive = FALSE])
    BY <1>6, <2>5
  <2> QED  BY <1>9, <2>1, <2>4, <2>5, <2>6, OwnerGoes
<1>10. CASE /\ x1[s].alive /\ ~x1[s].ownsBuf /\ x2' = x2 \o Buffers!Returned(s)
            /\ x1' = IF x1[o].shares > 0 THEN [dead EXCEPT ![o].shares = @ - 1] ELSE dead
            /\ x3' = Append(x3, s)
  <2>1. CopyTrue(s) /\ o \in SlotIds /\ o # s
    BY <1>10 DEF BufInv, SlotTrue, CopyTrue
  <2>a. x1[o] \in BufSlot
    BY <1>1, <2>1
  <2>b. s \in Readers(o)
    BY <1>10 DEF Readers
  <2>c. x1[o].shares = Cardinality(Readers(o))
    BY <2>1 DEF BufInv, ReadTrue
  <2>2. x1[o] \in BufSlot /\ s \in Readers(o) /\ x1[o].shares = Cardinality(Readers(o))
    BY <2>a, <2>b, <2>c
  <2>3. x1[o].shares > 0 /\ x1[o].shares \in Nat
    BY <2>2, ReadersCounted
  <2> HIDE DEF left, u, v
  <2> DEFINE n == x1[o].shares - 1
             w == [x1[o] EXCEPT !.shares = n]
  <2>4. x1' = [dead EXCEPT ![o] = w]
    <3>1. dead[o] = x1[o]
      BY <1>5, <2>1
    <3>2. x1' = [dead EXCEPT ![o].shares = @ - 1]
      BY <1>10, <2>3
    <3> HIDE DEF dead
    <3> QED  BY <3>1, <3>2
  <2>5. w \in BufSlot
    <3>1. n \in Int
      BY <2>3
    <3> HIDE DEF n
    <3> QED  BY <2>2, <3>1, CountSet, Zenon
  <2>6. Like(w, [x1[o] EXCEPT !.shares = @ - 1])
    BY DEF Like
  <2> HIDE DEF w, dead
  <2>7. /\ x1' \in Seq(BufSlot) /\ Len(x1') = Len(x1)
        /\ \A t \in SlotIds : x1'[t] = IF t = o THEN w ELSE dead[t]
    BY <1>1, <1>5, <2>1, <2>4, <2>5, OneReplaced
  <2>8. /\ SlotIds' = SlotIds /\ x1'[s] = v /\ x1'[o] = w
        /\ \A t \in SlotIds : t # s /\ t # o => x1'[t] = x1[t]
    BY <1>1, <1>5, <2>1, <2>7 DEF SlotIds
  <2>9. s \notin Spent /\ o \notin Reusable /\ o \in Nat
    BY <1>1, <1>10, <2>1, <2>3 DEF Spent, Reusable
  <2>10. Lists(x3', Spent \cup {s}, {})
    BY <1>1, <1>10, <2>9, ListsMore
  <2>11. x2' = IF x1[o].shares = 1 /\ ~x1[o].alive THEN Append(x2, o) ELSE x2
    <3>1. x2 \o <<o>> = Append(x2, o) /\ x2 \o <<>> = x2
      BY <1>1, <2>9, ConcatEmptySeq, AppendIsConcat DEF Lists
    <3>2. Buffers!Returned(s) = IF x1[o].shares = 1 /\ ~x1[o].alive THEN <<o>> ELSE <<>>
      BY <1>10 DEF Buffers!Returned
    <3> QED  BY <1>10, <3>1, <3>2
  <2>12. Lists(x2', IF x1[o].ownsBuf /\ x1[o].shares = 1 /\ ~x1[o].alive THEN Reusable \cup {o} ELSE Reusable,
               Copies)
    <3>1. x1[o].ownsBuf <=> o \notin Copies
      BY <2>1 DEF Copies
    <3>2. CASE x1[o].ownsBuf
      BY <1>1, <2>9, <2>11, <3>1, <3>2, ListsMore
    <3>3. CASE ~x1[o].ownsBuf
      BY <1>1, <2>9, <2>11, <3>1, <3>3, ListsOther
    <3> QED  BY <3>2, <3>3
  <2>13. Like(x1'[s], [x1[s] EXCEPT !.alive = FALSE]) /\ Like(x1'[o], [x1[o] EXCEPT !.shares = @ - 1])
    BY <1>6, <2>6, <2>8
  <2>14. ~x1[s].ownsBuf /\ x1[s].alive /\ o = x1[s].owner
    BY <1>10
  <2> HIDE DEF o
  <2> QED  BY <2>14, <2>1, <2>7, <2>8, <2>10, <2>12, <2>13, CopyGoes
<1> QED  BY <1>8, <1>9, <1>10 DEF Buffers!Release

(* The buffers keep their invariant.                                       *)
LEMMA BufStep ==
  ASSUME BufInv, [Buffers!Next]_(Buffers!vars)
  PROVE  BufInv'
<1>1. CASE UNCHANGED Buffers!vars
  <2>1. x1' = x1 /\ x2' = x2 /\ x3' = x3
    BY <1>1 DEF Buffers!vars
  <2>2. SlotIds' = SlotIds /\ Reusable' = Reusable /\ Spent' = Spent /\ Copies' = Copies /\ SlotTrue' = SlotTrue
    BY <2>1 DEF SlotIds, Reusable, Spent, Copies, SlotTrue, OwnerTrue, CopyTrue
  <2>3. ReadTrue'
    BY <2>1 DEF ReadTrue, BufInv, Readers, SlotIds
  <2> QED  BY <2>1, <2>2, <2>3 DEF BufInv
<1>2. CASE \E bytes \in Sizes, primary \in BOOLEAN : Buffers!CreateSoundBuffer(bytes, primary)
  BY <1>2, CreateBufKeeps
<1>3. CASE \E s \in DOMAIN x1 : Buffers!DuplicateSoundBuffer(s) \/ Buffers!AddRef(s) \/ Buffers!Release(s)
  <2>1. PICK s \in SlotIds : Buffers!DuplicateSoundBuffer(s) \/ Buffers!AddRef(s) \/ Buffers!Release(s)
    BY <1>3 DEF BufInv, SlotIds
  <2>2. CASE Buffers!AddRef(s)
    <3> DEFINE r == x1[s].ref + 1
    <3>1. x1' = [x1 EXCEPT ![s].ref = r] /\ UNCHANGED <<x2, x3>>
      BY <2>2 DEF Buffers!AddRef
    <3>2. x1[s] \in BufSlot
      BY DEF BufInv, SlotIds
    <3>3. r \in Int
      BY <3>2 DEF BufSlot
    <3> HIDE DEF r
    <3> QED  BY <3>1, <3>3, CountOnly
  <2> QED  BY <2>1, <2>2, DuplicateKeeps, BufReleaseKeeps
<1> QED  BY <1>1, <1>2, <1>3 DEF Buffers!Next, Buffers!Slots

(* The file of the sink: x1 pc, x2 closing, x3 data, x4 last, x5 held,     *)
(* x6 disk.  A piece is what the library holds.                            *)
Piece == [kind : {"header", "samples"}, n : Nat]
File == [declared : Int, samples : Nat]

(* The file after each piece of the buffer.                                *)
Run(g, d, h) ==
  /\ DOMAIN g = 0 .. Len(h) /\ g[0] = d
  /\ \A i \in 1 .. Len(h) : g[i] = Wav!Put(g[i - 1], h[i])

(* The file as a kill could leave it.                                      *)
Fine(d, closing, data, last) ==
  /\ d \in File
  /\ d.declared # -1 => d.declared <= d.samples
  /\ d.samples > 0 => d.declared # -1
  /\ d.declared <= last \/ (closing /\ d.declared = data)

(* The file with all that is held: a header, and what was counted.         *)
Serves(pc) == pc \in {"open", "seek", "head", "back"}
Whole(d, data) == d.declared # -1 /\ data <= d.samples

RunsFine == \E g : /\ Run(g, x6, x5) /\ \A i \in 0 .. Len(x5) : Fine(g[i], x2, x3, x4)
                   /\ Serves(x1) => Whole(g[Len(x5)], x3)

WavInv ==
  /\ x2 \in BOOLEAN /\ x3 \in Nat /\ x4 \in Nat /\ x4 <= x3 /\ x3 - x4 < Every
  /\ x5 \in Seq(Piece) /\ RunsFine
  /\ x1 \in {"new", "open"} => ~x2
  /\ x1 = "new" => x3 = 0 /\ x5 = <<>>
  /\ x1 \in {"seek", "head", "back"} => x2 \/ x3 = x4

(* The recursive function is that run.                                     *)
LEMMA RunIs ==
  ASSUME x5 \in Seq(Piece), NEW g, Run(g, x6, x5), NEW n \in 0 .. Len(x5)
  PROVE  Wav!OnDisk(n) = g[n]
<1> DEFINE F(f) == [i \in 0 .. n |-> IF i = 0 THEN x6 ELSE Wav!Put(f[i - 1], x5[i])]
           h == [i \in 0 .. n |-> g[i]]
           c == CHOOSE f : f = F(f)
<1>0. n \in Nat /\ Len(x5) \in Nat /\ n <= Len(x5)
  OBVIOUS
<1>1. h = F(h)
  <2>1. \A i \in 0 .. n : g[i] = IF i = 0 THEN x6 ELSE Wav!Put(h[i - 1], x5[i])
    <3> SUFFICES ASSUME NEW i \in 0 .. n, i # 0 PROVE g[i] = Wav!Put(h[i - 1], x5[i])
      BY DEF Run
    <3>1. i \in 1 .. Len(x5) /\ i - 1 \in 0 .. n
      BY <1>0
    <3>2. h[i - 1] = g[i - 1]
      BY <3>1
    <3> HIDE DEF h
    <3> QED  BY <3>1, <3>2 DEF Run
  <2> QED  BY <2>1
<1>2. c = F(c)
  <2> HIDE DEF F, h
  <2> QED  BY <1>1
<1>3. Wav!OnDisk(n) = c[n]
  BY DEF Wav!OnDisk
<1> HIDE DEF c
<1>4. \A i \in 0 .. n : c[i] = IF i = 0 THEN x6 ELSE Wav!Put(c[i - 1], x5[i])
  BY <1>2
<1>5. \A i \in 0 .. n : c[i] = g[i]
  <2> DEFINE Bad == {i \in 0 .. n : c[i] # g[i]}
  <2> SUFFICES ASSUME Bad # {} PROVE FALSE
    OBVIOUS
  <2>1. Bad \in SUBSET Nat
    OBVIOUS
  <2>2. PICK i \in Bad : \A j \in Bad : i <= j
    BY <2>1, LeastNat
  <2>3. i # 0
    BY <1>4, <2>2, <1>0 DEF Run
  <2>4. i - 1 \in 0 .. n /\ i \in 1 .. Len(x5) /\ ~(i <= i - 1)
    BY <2>2, <2>3, <1>0
  <2>5. c[i - 1] = g[i - 1]
    BY <2>2, <2>4
  <2>6. c[i] = Wav!Put(g[i - 1], x5[i])
    BY <1>4, <2>2, <2>3, <2>5
  <2> QED  BY <2>2, <2>4, <2>6 DEF Run
<1> QED  BY <1>0, <1>3, <1>5

(* A run with one piece more, and what is left of it once it is on disk.   *)
LEMMA RunMore ==
  ASSUME NEW h \in Seq(Piece), NEW g, NEW d, Run(g, d, h), NEW w \in Piece
  PROVE  \E e : /\ Run(e, d, Append(h, w)) /\ \A i \in 0 .. Len(h) : e[i] = g[i]
                /\ e[Len(h) + 1] = Wav!Put(g[Len(h)], w)
<1> DEFINE n == Len(h)
           q == Append(h, w)
           last == Wav!Put(g[n], w)
           e == [i \in 0 .. n + 1 |-> IF i = n + 1 THEN last ELSE g[i]]
<1>1. /\ Len(q) = n + 1 /\ n \in Nat /\ q[n + 1] = w
      /\ \A k \in 1 .. n : q[k] = h[k]
  BY OneMore
<1> HIDE DEF q
<1>2. \A i \in 0 .. n : i \in 0 .. n + 1 /\ i # n + 1
  BY <1>1
<1>3. (\A i \in 0 .. n : e[i] = g[i]) /\ e[n + 1] = last
  <2> HIDE DEF last
  <2> QED  BY <1>1, <1>2
<1>4. DOMAIN e = 0 .. Len(q)
  BY <1>1
<1> HIDE DEF e
<1>5. e[0] = d
  BY <1>1, <1>3 DEF Run
<1>6. \A i \in 1 .. n + 1 : e[i] = Wav!Put(e[i - 1], q[i])
  <2> SUFFICES ASSUME NEW i \in 1 .. n + 1 PROVE e[i] = Wav!Put(e[i - 1], q[i])
    OBVIOUS
  <2>1. i - 1 \in 0 .. n
    BY <1>1
  <2>2. e[i - 1] = g[i - 1]
    BY <1>3, <2>1
  <2>3. CASE i = n + 1
    <3>1. i - 1 = n
      BY <1>1, <2>3
    <3> QED  BY <1>1, <1>3, <2>2, <2>3, <3>1
  <2>4. CASE i # n + 1
    <3>1. i \in 1 .. n /\ i \in 0 .. n
      BY <1>1, <2>4
    <3> QED  BY <1>1, <1>3, <2>2, <3>1 DEF Run
  <2> QED  BY <2>3, <2>4
<1>7. Run(e, d, q)
  BY <1>1, <1>4, <1>5, <1>6 DEF Run
<1> QED  BY <1>3, <1>7 DEF q

(* A run, after its first writes, is a run over the rest of them.          *)
LEMMA RunLess ==
  ASSUME NEW h \in Seq(Piece), NEW g, NEW d, Run(g, d, h), NEW n \in 0 .. Len(h)
  PROVE  /\ SubSeq(h, n + 1, Len(h)) \in Seq(Piece) /\ Len(SubSeq(h, n + 1, Len(h))) = Len(h) - n
         /\ \E e : /\ Run(e, g[n], SubSeq(h, n + 1, Len(h)))
                   /\ \A i \in 0 .. Len(h) - n : n + i \in 0 .. Len(h) /\ e[i] = g[n + i]
<1> DEFINE q == SubSeq(h, n + 1, Len(h))
           m == Len(h) - n
           e == [i \in 0 .. m |-> g[n + i]]
<1>0. Len(h) \in Nat /\ n \in Nat /\ n <= Len(h) /\ m \in Nat /\ n + m = Len(h)
  OBVIOUS
<1>1. /\ q \in Seq(Piece) /\ Len(q) = m
      /\ \A k \in 1 .. m : q[k] = h[n + k]
  <2> DEFINE a == n + 1
             z == Len(h)
  <2>1. a \in Int /\ z \in Int /\ \A i \in a .. z : h[i] \in Piece
    BY <1>0
  <2>2. /\ SubSeq(h, a, z) \in Seq(Piece)
        /\ Len(SubSeq(h, a, z)) = IF a <= z THEN z - a + 1 ELSE 0
        /\ \A i \in 1 .. z - a + 1 : SubSeq(h, a, z)[i] = h[a + i - 1]
    <3> HIDE DEF a, z
    <3> QED  BY <2>1, SubSeqProperties
  <2>6. \A k, l \in Nat : k <= l => l - (k + 1) + 1 = l - k /\ (~(k + 1 <= l) => l - k = 0)
    OBVIOUS
  <2>5. z - a + 1 = m /\ (~(a <= z) => m = 0)
    BY <1>0, <2>6
  <2>3. z - a + 1 = m /\ (IF a <= z THEN z - a + 1 ELSE 0) = m
    <3> HIDE DEF a, z, m
    <3> QED  BY <2>5
  <2>4. \A k \in 1 .. m : a + k - 1 = n + k
    BY <1>0
  <2> HIDE DEF m
  <2> QED  BY <2>2, <2>3, <2>4
<1>2. \A i \in 0 .. m : n + i \in 0 .. Len(h) /\ e[i] = g[n + i]
  BY <1>0
<1>3. DOMAIN e = 0 .. m
  OBVIOUS
<1> HIDE DEF q, e
<1>4. e[0] = g[n]
  BY <1>0, <1>2
<1>5. \A i \in 1 .. m : e[i] = Wav!Put(e[i - 1], q[i])
  <2> SUFFICES ASSUME NEW i \in 1 .. m PROVE e[i] = Wav!Put(e[i - 1], q[i])
    OBVIOUS
  <2>1. i - 1 \in 0 .. m /\ i \in 0 .. m /\ n + i \in 1 .. Len(h) /\ (n + i) - 1 = n + (i - 1)
    BY <1>0
  <2>2. g[n + i] = Wav!Put(g[(n + i) - 1], h[n + i])
    BY <2>1 DEF Run
  <2>3. e[i] = g[n + i] /\ e[i - 1] = g[(n + i) - 1] /\ q[i] = h[n + i]
    BY <1>1, <1>2, <2>1
  <2> QED  BY <2>2, <2>3
<1>6. Run(e, g[n], q)
  BY <1>1, <1>3, <1>4, <1>5 DEF Run
<1>7. \E f : /\ Run(f, g[n], q)
            /\ \A i \in 0 .. m : n + i \in 0 .. Len(h) /\ f[i] = g[n + i]
  BY <1>2, <1>6
<1> QED  BY <1>1, <1>7 DEF q

(* A part of the buffer written out.                                       *)
LEMMA DrainKeeps ==
  ASSUME x5 \in Seq(Piece), RunsFine, NEW n \in 0 .. Len(x5), x6' = Wav!OnDisk(n),
         x5' = SubSeq(x5, n + 1, Len(x5)), UNCHANGED <<x2, x3, x4>>,
         Serves(x1') => Serves(x1)
  PROVE  RunsFine' /\ x5' \in Seq(Piece)
<1>1. PICK g : /\ Run(g, x6, x5) /\ \A i \in 0 .. Len(x5) : Fine(g[i], x2, x3, x4)
               /\ Serves(x1) => Whole(g[Len(x5)], x3)
  BY DEF RunsFine
<1>2. x6' = g[n]
  BY <1>1, RunIs
<1>3. /\ x5' \in Seq(Piece) /\ Len(x5') = Len(x5) - n
      /\ \E e : /\ Run(e, x6', x5')
                /\ \A i \in 0 .. Len(x5) - n : n + i \in 0 .. Len(x5) /\ e[i] = g[n + i]
  BY <1>1, <1>2, RunLess
<1>4. PICK e : /\ Run(e, x6', x5')
               /\ \A i \in 0 .. Len(x5) - n : n + i \in 0 .. Len(x5) /\ e[i] = g[n + i]
  BY <1>3
<1>5. \A i \in 0 .. Len(x5') : Fine(e[i], x2', x3', x4')
  BY <1>1, <1>3, <1>4
<1>6. e[Len(x5')] = g[Len(x5)]
  <2>1. Len(x5) - n \in 0 .. Len(x5) - n /\ n + (Len(x5) - n) = Len(x5)
    OBVIOUS
  <2> QED  BY <1>3, <1>4, <2>1
<1>7. Serves(x1') => Whole(e[Len(x5')], x3')
  BY <1>1, <1>6
<1>8. RunsFine'
  BY <1>4, <1>5, <1>7 DEF RunsFine
<1> QED  BY <1>3, <1>8

(* A piece put into the buffer.                                            *)
LEMMA HoldKeeps ==
  ASSUME x5 \in Seq(Piece), NEW g, Run(g, x6, x5), x6' = x6, NEW w \in Piece, x5' = Append(x5, w),
         \A i \in 0 .. Len(x5) : Fine(g[i], x2', x3', x4'),
         Fine(Wav!Put(g[Len(x5)], w), x2', x3', x4'),
         Serves(x1') => Whole(Wav!Put(g[Len(x5)], w), x3')
  PROVE  RunsFine' /\ x5' \in Seq(Piece)
<1>1. PICK e : /\ Run(e, x6, Append(x5, w)) /\ \A i \in 0 .. Len(x5) : e[i] = g[i]
               /\ e[Len(x5) + 1] = Wav!Put(g[Len(x5)], w)
  BY RunMore
<1>2. x5' \in Seq(Piece) /\ Len(x5') = Len(x5) + 1 /\ Len(x5) \in Nat
  BY OneMore
<1> DEFINE z == Wav!Put(g[Len(x5)], w)
<1>3. \A i \in 0 .. Len(x5') : i \in 0 .. Len(x5) \/ i = Len(x5) + 1
  BY <1>2
<1>4. \A i \in 0 .. Len(x5') : Fine(e[i], x2', x3', x4')
  BY <1>1, <1>3
<1>5. Serves(x1') => Whole(e[Len(x5')], x3')
  BY <1>1, <1>2
<1>6. RunsFine'
  BY <1>1, <1>4, <1>5 DEF RunsFine
<1> QED  BY <1>2, <1>6

(* A header of what the file holds, and more samples behind a header.      *)
LEMMA HeaderFine ==
  ASSUME NEW d \in File, NEW n \in Nat, n <= d.samples, NEW closing, NEW data, NEW last,
         n <= last \/ (closing /\ n = data)
  PROVE  /\ Fine(Wav!Put(d, Wav!Header(n)), closing, data, last)
         /\ Wav!Put(d, Wav!Header(n)).declared = n /\ Wav!Put(d, Wav!Header(n)).samples = d.samples
<1> DEFINE e == [d EXCEPT !.declared = n]
<1>1. Wav!Put(d, Wav!Header(n)) = e
  BY DEF Wav!Put, Wav!Header
<1>2. e \in File /\ e.declared = n /\ e.samples = d.samples
  BY DEF File
<1> HIDE DEF e
<1>3. Fine(e, closing, data, last)
  BY <1>2 DEF Fine
<1> QED  BY <1>1, <1>2, <1>3

(* More samples behind a header: the file says no more than it has.        *)
LEMMA SamplesFine ==
  ASSUME NEW d, NEW n \in Nat, NEW closing, NEW data, NEW last, Fine(d, closing, data, last), d.declared # -1
  PROVE  /\ Fine(Wav!Put(d, Wav!Samples(n)), closing, data, last)
         /\ Wav!Put(d, Wav!Samples(n)).declared = d.declared
         /\ Wav!Put(d, Wav!Samples(n)).samples = d.samples + n
<1>0. d \in File
  BY DEF Fine
<1> DEFINE m == d.samples + n
           e == [d EXCEPT !.samples = m]
<1>1. Wav!Put(d, Wav!Samples(n)) = e
  BY DEF Wav!Put, Wav!Samples
<1>2. m \in Nat /\ d.samples <= m
  BY <1>0 DEF File
<1>3. e \in File /\ e.declared = d.declared /\ e.samples = m
  <2> HIDE DEF m
  <2> QED  BY <1>0, <1>2 DEF File
<1> HIDE DEF e, m
<1>4. Fine(e, closing, data, last)
  BY <1>0, <1>2, <1>3 DEF Fine, File
<1> QED  BY <1>1, <1>3, <1>4 DEF m

(* What the file promises follows from what is kept of it.                 *)
LEMMA WavPromise == WavInv => Wav!NeverOverstated
<1> SUFFICES ASSUME WavInv PROVE Wav!NeverOverstated
  OBVIOUS
<1>1. PICK g : /\ Run(g, x6, x5) /\ \A i \in 0 .. Len(x5) : Fine(g[i], x2, x3, x4)
               /\ Serves(x1) => Whole(g[Len(x5)], x3)
  BY DEF WavInv, RunsFine
<1>2. Fine(x6, x2, x3, x4)
  BY <1>1 DEF Run, WavInv
<1>3. Wav!Largest \in Nat /\ Every \in Nat
  <2>1. \E n \in Writes : \A k \in Writes : k <= n
    BY SoundAssumption DEF Wav!WavAssumption
  <2>2. Wav!Largest \in Writes
    BY <2>1 DEF Wav!Largest
  <2> QED  BY <2>2, SoundAssumption DEF Wav!WavAssumption
<1>4. x3 - x4 < Every + Wav!Largest
  BY <1>3 DEF WavInv
<1> QED  BY <1>2, <1>4 DEF Wav!NeverOverstated, Wav!NoHeader, Fine

(* No file yet: nothing declared, nothing to write.                        *)
LEMMA WavStart == Wav!Init => WavInv
<1> SUFFICES ASSUME Wav!Init PROVE WavInv
  OBVIOUS
<1>1. /\ x5 \in Seq(Piece) /\ Len(x5) = 0 /\ x6 \in File /\ x6.declared = -1 /\ x6.samples = 0
      /\ x1 = "new" /\ x2 = FALSE /\ x3 = 0 /\ x4 = 0 /\ x5 = <<>>
  BY DEF Wav!Init, Wav!NoHeader, File
<1> DEFINE g == [i \in 0 .. 0 |-> x6]
<1>2. DOMAIN g = 0 .. 0 /\ g[0] = x6
  OBVIOUS
<1> HIDE DEF g
<1>3. Run(g, x6, x5)
  BY <1>1, <1>2 DEF Run
<1>4. Fine(x6, x2, x3, x4)
  BY <1>1 DEF Fine
<1>5. RunsFine
  BY <1>1, <1>2, <1>3, <1>4 DEF RunsFine, Serves
<1>6. Every \in Nat \ {0}
  BY SoundAssumption DEF Wav!WavAssumption
<1>7. x2 \in BOOLEAN /\ ~x2
  BY <1>1
<1>8. x3 \in Nat /\ x4 \in Nat /\ x4 <= x3 /\ x3 - x4 < Every
  BY <1>1, <1>6
<1> QED  BY <1>1, <1>5, <1>7, <1>8 DEF WavInv

(* The file as the sink leaves it, step by step.                           *)
LEMMA WavStep ==
  ASSUME WavInv, [Wav!Next]_(Wav!vars)
  PROVE  WavInv'
<1>0. /\ x2 \in BOOLEAN /\ x3 \in Nat /\ x4 \in Nat /\ x4 <= x3 /\ x3 - x4 < Every /\ x5 \in Seq(Piece)
      /\ RunsFine /\ Len(x5) \in Nat
      /\ x1 \in {"new", "open"} => ~x2
      /\ x1 = "new" => x3 = 0 /\ x5 = <<>>
      /\ x1 \in {"seek", "head", "back"} => x2 \/ x3 = x4
      /\ Every \in Nat \ {0} /\ Writes \subseteq Nat \ {0}
  BY SoundAssumption DEF WavInv, Wav!WavAssumption
<1>1. PICK g : /\ Run(g, x6, x5) /\ \A i \in 0 .. Len(x5) : Fine(g[i], x2, x3, x4)
               /\ Serves(x1) => Whole(g[Len(x5)], x3)
  BY <1>0 DEF RunsFine
<1> DEFINE all == g[Len(x5)]
<1>2. Fine(all, x2, x3, x4) /\ all \in File
  BY <1>0, <1>1 DEF Fine
<1>3. SubSeq(x5, Len(x5) + 1, Len(x5)) = <<>> /\ Len(x5) \in 0 .. Len(x5)
  BY <1>0, SubSeqEmpty
<1> HIDE DEF all
<1>4. (UNCHANGED <<x2, x3, x4, x5, x6>> /\ (Serves(x1') => Serves(x1))) => RunsFine'
  BY <1>1 DEF RunsFine
<1>5. CASE Wav!Drain
  <2>1. PICK n \in 1 .. Len(x5) : x6' = Wav!OnDisk(n) /\ x5' = SubSeq(x5, n + 1, Len(x5))
    BY <1>5 DEF Wav!Drain
  <2>2. UNCHANGED <<x1, x2, x3, x4>>
    BY <1>5 DEF Wav!Drain
  <2>3. RunsFine' /\ x5' \in Seq(Piece)
    BY <1>0, <2>1, <2>2, DrainKeeps
  <2>4. x1 # "new"
    <3>1. x5 = <<>> => Len(x5) = 0
      OBVIOUS
    <3> QED  BY <1>0, <2>1, <3>1
  <2> QED  BY <1>0, <2>2, <2>3, <2>4 DEF WavInv
<1>6. CASE Wav!Open
  <2>1. CASE x1' = "failed" /\ x5' = x5
    <3>1. UNCHANGED <<x2, x3, x4, x5, x6>> /\ ~Serves(x1')
      BY <1>6, <2>1 DEF Wav!Open, Serves
    <3> QED  BY <1>0, <1>4, <2>1, <3>1 DEF WavInv
  <2>2. CASE x1' = "open" /\ x5' = <<Wav!Header(0)>>
    <3> DEFINE w == Wav!Header(0)
    <3>1. UNCHANGED <<x2, x3, x4, x6>> /\ x5 = <<>> /\ x3 = 0 /\ ~x2
      BY <1>0, <1>6 DEF Wav!Open
    <3>2. w \in Piece /\ x5' = Append(x5, w)
      BY <2>2, <3>1 DEF Wav!Header, Piece
    <3>3. 0 \in Nat /\ 0 <= all.samples /\ 0 <= x4
      BY <1>0, <1>2 DEF File
    <3>4. /\ Fine(Wav!Put(all, w), x2, x3, x4)
          /\ Wav!Put(all, w).declared = 0 /\ Wav!Put(all, w).samples = all.samples
      BY <1>2, <3>3, HeaderFine
    <3> HIDE DEF w
    <3>5. Whole(Wav!Put(all, w), x3)
      BY <3>1, <3>3, <3>4 DEF Whole
    <3>6. RunsFine' /\ x5' \in Seq(Piece)
      BY <1>0, <1>1, <3>1, <3>2, <3>4, <3>5, HoldKeeps DEF all
    <3> QED  BY <1>0, <2>2, <3>1, <3>6 DEF WavInv
  <2> QED  BY <1>6, <2>1, <2>2 DEF Wav!Open
<1>7. CASE Wav!Seek \/ Wav!Back
  <2>1. UNCHANGED <<x2, x3, x4>>
    BY <1>7 DEF Wav!Seek, Wav!Back
  <2>2. /\ x1 \in {"seek", "back"}
        /\ x1' \in {"head", "back"} \/ (x1' = "open" /\ ~x2) \/ x1' = "closed"
        /\ x1' \in {"head", "back"} => x1 = "seek"
    BY <1>0, <1>7 DEF Wav!Seek, Wav!Back
  <2>3. Serves(x1)
    BY <2>2 DEF Serves
  <2>4. CASE UNCHANGED <<x5, x6>>
    <3>1. RunsFine'
      BY <1>4, <2>1, <2>3, <2>4
    <3> QED  BY <1>0, <2>1, <2>2, <2>4, <3>1 DEF WavInv
  <2>5. CASE Wav!Flushed
    <3> DEFINE n == Len(x5)
    <3>1. x6' = Wav!OnDisk(n) /\ x5' = SubSeq(x5, n + 1, Len(x5)) /\ n \in 0 .. Len(x5)
      BY <1>3, <2>5 DEF Wav!Flushed
    <3> HIDE DEF n
    <3>2. RunsFine' /\ x5' \in Seq(Piece)
      BY <1>0, <2>1, <2>3, <3>1, DrainKeeps
    <3> QED  BY <1>0, <2>1, <2>2, <3>2 DEF WavInv
  <2> QED  BY <1>7, <2>4, <2>5 DEF Wav!Seek, Wav!Back
<1>8. CASE Wav!Head_
  <2> DEFINE w == Wav!Header(x3)
  <2>1. /\ UNCHANGED <<x2, x3, x4, x6>> /\ x1 = "head" /\ x1' = "back" /\ x5' = Append(x5, w)
    BY <1>8 DEF Wav!Head_, Wav!Announced, Wav!Declared
  <2>2. w \in Piece
    BY <1>0 DEF Wav!Header, Piece
  <2>3. x3 <= all.samples /\ (x3 <= x4 \/ (x2 /\ x3 = x3))
    BY <1>0, <1>1, <2>1 DEF Whole, Serves, all
  <2>4. /\ Fine(Wav!Put(all, w), x2, x3, x4)
        /\ Wav!Put(all, w).declared = x3 /\ Wav!Put(all, w).samples = all.samples
    BY <1>0, <1>2, <2>3, HeaderFine
  <2> HIDE DEF w
  <2>5. Whole(Wav!Put(all, w), x3)
    BY <1>0, <2>3, <2>4 DEF Whole
  <2>6. RunsFine' /\ x5' \in Seq(Piece)
    BY <1>0, <1>1, <2>1, <2>2, <2>4, <2>5, HoldKeeps DEF all
  <2> QED  BY <1>0, <2>1, <2>6 DEF WavInv
<1>9. CASE Wav!Close
  <2>1. UNCHANGED <<x3, x4, x5, x6>> /\ x1 = "open" /\ x1' = "seek" /\ x2' = TRUE
    BY <1>9 DEF Wav!Close
  <2>2. \A i \in 0 .. Len(x5) : Fine(g[i], x2', x3', x4')
    BY <1>0, <1>1, <2>1 DEF Fine
  <2>3. RunsFine'
    BY <1>1, <2>1, <2>2 DEF RunsFine, Serves
  <2> QED  BY <1>0, <2>1, <2>3 DEF WavInv
<1>10. CASE Wav!Kill
  <2>1. UNCHANGED <<x2, x3, x4, x6>> /\ x1' = "killed" /\ x5' = <<>>
    BY <1>10 DEF Wav!Kill
  <2> DEFINE e == [i \in 0 .. 0 |-> x6]
  <2>2. DOMAIN e = 0 .. 0 /\ e[0] = x6 /\ x5' \in Seq(Piece) /\ Len(x5') = 0
    BY <2>1
  <2> HIDE DEF e
  <2>3. Run(e, x6', x5')
    BY <2>1, <2>2 DEF Run
  <2>4. Fine(x6, x2, x3, x4)
    BY <1>0, <1>1 DEF Run
  <2>5. RunsFine'
    BY <2>1, <2>2, <2>3, <2>4 DEF RunsFine, Serves
  <2> QED  BY <1>0, <2>1, <2>2, <2>5 DEF WavInv
<1>11. ASSUME NEW n \in Writes, Wav!Write(n) PROVE WavInv'
  <2>0. n \in Nat \ {0} /\ n - 1 \in Nat /\ x1 = "open" /\ ~x2 /\ UNCHANGED <<x2, x6>> /\ Serves(x1)
    BY <1>0, <1>11 DEF Wav!Write, Serves
  <2>1. all.declared # -1 /\ x3 <= all.samples /\ all.samples \in Nat
    BY <1>1, <1>2, <2>0 DEF Whole, all, File
  <2>2. \A k \in Nat : Wav!Samples(k) \in Piece
    BY DEF Wav!Samples, Piece
  <2>3. CASE /\ x5' = Append(x5, Wav!Samples(n)) /\ x3' = x3 + n
             /\ IF Wav!Due(x3', x4) THEN x4' = x3' /\ x1' = "seek" ELSE UNCHANGED <<x4, x1>>
    <3>1. /\ x3' \in Nat /\ x4' \in Nat /\ x4' <= x3' /\ x3' - x4' < Every /\ x4 <= x4'
          /\ x1' \in {"open", "seek"} /\ (x1' = "seek" => x4' = x3') /\ Serves(x1')
      BY <1>0, <2>0, <2>3 DEF Wav!Due, Serves
    <3>2. \A i \in 0 .. Len(x5) : Fine(g[i], x2', x3', x4')
      BY <1>0, <1>1, <2>0, <3>1 DEF Fine, File
    <3>3. Fine(all, x2', x3', x4')
      BY <1>0, <3>2 DEF all
    <3> DEFINE w == Wav!Samples(n)
    <3>4. /\ Fine(Wav!Put(all, w), x2', x3', x4')
          /\ Wav!Put(all, w).declared = all.declared /\ Wav!Put(all, w).samples = all.samples + n
      BY <2>0, <2>1, <3>3, SamplesFine
    <3>5. w \in Piece /\ x5' = Append(x5, w)
      BY <2>0, <2>2, <2>3
    <3> HIDE DEF w
    <3>6. Whole(Wav!Put(all, w), x3')
      BY <1>0, <2>0, <2>1, <2>3, <3>4 DEF Whole
    <3>7. RunsFine' /\ x5' \in Seq(Piece)
      BY <1>0, <1>1, <2>0, <3>2, <3>4, <3>5, <3>6, HoldKeeps DEF all
    <3> QED  BY <2>0, <3>1, <3>7 DEF WavInv
  <2>4. CASE /\ x5' = (IF n = 1 THEN x5 ELSE Append(x5, Wav!Samples(n - 1)))
             /\ UNCHANGED <<x3, x4, x1>>
    <3>1. CASE n = 1
      <4>1. RunsFine'
        BY <1>4, <2>0, <2>4, <3>1
      <4> QED  BY <1>0, <2>0, <2>4, <3>1, <4>1 DEF WavInv
    <3>2. CASE n # 1
      <4> DEFINE m == n - 1
                 w == Wav!Samples(m)
      <4>1. /\ Fine(Wav!Put(all, w), x2, x3, x4)
            /\ Wav!Put(all, w).declared = all.declared /\ Wav!Put(all, w).samples = all.samples + m
        <5>1. m \in Nat
          BY <2>0
        <5> HIDE DEF m
        <5> QED  BY <1>2, <2>1, <5>1, SamplesFine
      <4>2. w \in Piece /\ x5' = Append(x5, w) /\ m \in Nat
        BY <2>0, <2>2, <2>4, <3>2
      <4> HIDE DEF w, m
      <4>3. Whole(Wav!Put(all, w), x3)
        BY <1>0, <2>1, <4>1, <4>2 DEF Whole
      <4>4. RunsFine' /\ x5' \in Seq(Piece)
        BY <1>0, <1>1, <2>0, <2>4, <4>1, <4>2, <4>3, HoldKeeps DEF all
      <4> QED  BY <1>0, <2>0, <2>4, <4>4 DEF WavInv
    <3> QED  BY <3>1, <3>2
  <2> QED  BY <1>11, <2>3, <2>4 DEF Wav!Write
<1>12. CASE UNCHANGED Wav!vars
  <2>1. UNCHANGED <<x1, x2, x3, x4, x5, x6>>
    BY <1>12 DEF Wav!vars
  <2>2. RunsFine'
    BY <1>4, <2>1
  <2> QED  BY <1>0, <2>1, <2>2 DEF WavInv
<1> QED
  BY <1>5, <1>6, <1>7, <1>8, <1>9, <1>10, <1>11, <1>12 DEF Wav!Next

(* What the parts of the sound keep.                                       *)
SoundInv ==
  /\ part = "voice" => VoiceInv
  /\ part = "buffers" => BufInv
  /\ part = "sinks" => SinkInv /\ WatchInv
  /\ part = "wav" => WavInv

(* Every part of the sound starts so.                                      *)
LEMMA SoundStart == MCInit => SoundInv
<1> SUFFICES ASSUME MCInit
             PROVE  SoundInv
  OBVIOUS
<1>1. /\ part = "voice" => Voice!Init
      /\ part = "buffers" => Buffers!Init
      /\ part = "sinks" => Sinks!Init
      /\ part = "wav" => Wav!Init
  BY DEF MCInit, Waiting, Scope
<1>2. Sinks!Init => WatchInv
  BY DEF Sinks!Init, WatchInv
<1> QED  BY <1>1, <1>2, VoiceStart, BufStart, SinkStart, WavStart DEF SoundInv

(* And each step keeps it: of its own part, or of another.                 *)
LEMMA SoundStep ==
  ASSUME SoundInv, [MCNext]_MCvars
  PROVE  SoundInv'
<1>1. part' = part
  BY DEF MCNext, MCvars
<1>2. part = "voice" => [Voice!Next]_(Voice!vars)
  BY DEF MCNext, Steps, NetSteps, MCvars, Waiting, Scope, Voice!vars
<1>3. part = "buffers" => [Buffers!Next]_(Buffers!vars)
  BY DEF MCNext, Steps, NetSteps, MCvars, Waiting, Scope, Buffers!vars
<1>4. part = "sinks" => [Sinks!Next]_(Sinks!vars)
  BY DEF MCNext, Steps, NetSteps, MCvars, Waiting, Scope, Sinks!vars
<1>5. part = "wav" => [Wav!Next]_(Wav!vars)
  BY DEF MCNext, Steps, NetSteps, MCvars, Waiting, Scope, Wav!vars
<1>6. part = "voice" => VoiceInv'
  BY <1>2, VoiceStep DEF SoundInv
<1>7. part = "buffers" => BufInv'
  BY <1>3, BufStep DEF SoundInv
<1>8. part = "sinks" => SinkInv' /\ WatchInv'
  BY <1>4, SinkStep, WatchStep DEF SoundInv
<1>9. part = "wav" => WavInv'
  BY <1>5, WavStep DEF SoundInv
<1> QED  BY <1>1, <1>6, <1>7, <1>8, <1>9 DEF SoundInv

(* What a Lock offers is not what is about to be played; a buffer is used  *)
(* again only when nobody reads it, but for duplicates of duplicates; a    *)
(* sink is there and alone when it is written to, and what the watchdog    *)
(* asks may be gone but is then no longer published; a file promises no    *)
(* more than it holds.                                                     *)
THEOREM SoundHolds == MCSpec => []SoundSafe
<1>1. SoundInv => SoundSafe
  BY VoicePromise, BufPromise, SinkPromise, WavPromise DEF SoundInv, SoundSafe
<1> QED  BY <1>1, SoundStart, SoundStep, PTL DEF MCSpec
-----------------------------------------------------------------------------
(* The lock's holder, the table of stacks and a reader without the lock,   *)
(* by the names GilIdent gives them.                                       *)
gilMu == x1
gilOwned == x2
pubHeld == x3
mark == x4
acq == x5
shimOwner == x6
shimVa == x7
stackTable == x8
reserved == x9
th == x10
probe == x11
lastSaid == x12
seen == x13
USE DEF gilMu, gilOwned, pubHeld, mark, acq, shimOwner, shimVa, stackTable, reserved, th,
        probe, lastSaid, seen

Places == {"none", "born", "reg", "out", "unreg", "dead", "marks", "holds", "in", "shim", "away"}
Locking == {"marks", "holds", "in", "shim"}
Mark == [stack : Stacks \cup {0}, depth : Depths \cup {0}]
Life == [at : Places, stack : Stacks \cup {0}, slot : Nat, depth : Depths \cup {0},
         todo : SUBSET {"hi", "lo", "tag", "nolo", "notag"}, shim : BOOLEAN]
Slot == [lo : Stacks \cup {0}, hi : Stacks \cup {0}, tag : Takers \cup {Names!Nobody}]

NameTypes ==
  /\ th \in [Takers -> Life] /\ stackTable \in [1..IdSlots -> Slot] /\ reserved \in Nat
  /\ gilMu \in Takers \cup {Names!Nobody} /\ mark \in Mark /\ shimOwner \in Mark

(* What a thread has at each point of its life.                            *)
Lives ==
  \A t \in Takers :
    /\ th[t].at \in {"none", "dead"} <=> th[t].stack = 0
    /\ th[t].at \in {"none", "dead", "born"} => th[t].slot = 0
    /\ th[t].slot # 0 => th[t].slot <= IdSlots /\ th[t].slot <= reserved
    /\ th[t].at = "reg" => th[t].slot # 0 /\ th[t].todo \subseteq {"hi", "lo", "tag"}
    /\ th[t].at = "unreg" => th[t].todo \subseteq {"nolo", "notag"}
       /\ (th[t].todo # {} => th[t].slot # 0)
    /\ th[t].shim => th[t].at \in {"marks", "holds", "in", "away"}
    /\ th[t].at \in Locking <=> gilMu = t
    /\ th[t].at \in Locking => gilOwned /\ th[t].depth \in Depths
    /\ th[t].at \in {"holds", "in", "shim"} => mark = [stack |-> th[t].stack, depth |-> th[t].depth]
    /\ th[t].at = "shim" => shimVa = t
    /\ \A u \in Takers : t # u => (th[t].stack # th[u].stack \/ th[t].stack = 0)
                                  /\ (th[t].slot # th[u].slot \/ th[t].slot = 0)
HeldByOne == pubHeld => gilMu # Names!Nobody /\ th[gilMu].at \in {"in", "shim"}

(* A slot has its owner's stack and name, or says nothing.                 *)
SlotsTrue ==
  /\ \A t \in Takers : th[t].slot # 0 =>
       /\ stackTable[th[t].slot].tag \in {Names!Nobody, t}
       /\ stackTable[th[t].slot].lo \in {0, th[t].stack}
       /\ th[t].at = "unreg" => /\ "nolo" \notin th[t].todo => stackTable[th[t].slot].lo = 0
                                /\ "notag" \notin th[t].todo => stackTable[th[t].slot].tag = Names!Nobody
  /\ \A i \in 1..IdSlots : stackTable[i].lo # 0
     \/ stackTable[i].tag # Names!Nobody => \E t \in Takers : th[t].slot = i

(* The mark left by a shim is that of a thread still in it, and the shim   *)
(* noted is its, or that of the thread about to enter one.                 *)
ShimTrue ==
  shimOwner # Names!NoMark =>
    \E t \in Takers : /\ th[t].shim /\ th[t].stack = shimOwner.stack
                      /\ shimVa = t \/ \E u \in Takers : shimVa = u /\ th[u].at = "shim"

Stages == {"idle", "om", "so", "acq", "tag", "lo", "hi", "va", "field"}
Probe == [at : Stages, held : BOOLEAN, om : Mark, so : Mark, acq : Nat, n : Nat, i : Nat,
          tag : Takers \cup {Names!Nobody}, lo : Stacks \cup {0}, om_by : SUBSET (Nat \X Takers),
          so_by : SUBSET (Nat \X Takers), inShim : BOOLEAN, va : Takers \cup {Names!Nobody}]
Seen == [holders : SUBSET Takers, shims : SUBSET Takers, stacks : SUBSET (Stacks \cup {0})]
ProbeTypes == /\ probe \in Probe /\ seen \in Seen
              /\ acq \in Nat /\ shimVa \in Takers \cup {Names!Nobody} /\ pubHeld \in BOOLEAN

(* Those who have the lock, or are in a shim, were seen.                   *)
SeenAll ==
  probe.at # "idle" =>
    /\ gilMu # Names!Nobody => gilMu \in seen.holders
    /\ \A t \in Takers : th[t].shim \/ th[t].at = "shim" => t \in seen.shims
(* Who set a mark that was there when the lock was held.                   *)
Set(m) == m.stack \notin seen.stacks =>
            m.stack # 0 /\ \E t \in Takers : t \in seen.holders /\ th[t].stack = m.stack
MarkTrue == /\ probe.at = "om" /\ probe.held => Set(mark)
            /\ probe.at \notin {"idle", "om"} /\ probe.held => Set(probe.om)
(* Who set the shim's mark that was read, and what has become of the shim. *)
SoTrue ==
  /\ probe.at \notin {"idle", "om", "so"} /\ probe.so # Names!NoMark /\ seen.stacks = {} =>
       \E t \in Takers : /\ th[t].stack = probe.so.stack
                         /\ probe.at # "field" => shimVa \in seen.shims
                            /\ (shimVa = t \/ shimVa \in seen.holders)
                         /\ probe.at = "field" /\ probe.inShim =>
                              probe.va \in seen.shims
                              /\ (probe.va = t \/ probe.va \in seen.holders)
  /\ probe.at = "va" => probe.inShim
  /\ probe.inShim => probe.at \in {"va", "field"} /\ probe.held /\ Names!Same(probe)

(* The scan: the slot at hand, and the hits.                               *)
ScanTrue ==
  /\ probe.at \in {"tag", "lo", "hi"} => probe.n <= IdSlots /\ probe.n <= reserved /\ probe.i >= 1
  /\ probe.at \in {"lo", "hi"} => probe.i <= probe.n /\ probe.tag # Names!Nobody
  /\ probe.at = "lo" => \A t \in Takers : th[t].slot = probe.i => t = probe.tag
  /\ probe.at = "hi" => probe.lo # 0
     /\ (probe.lo \notin seen.stacks => th[probe.tag].stack = probe.lo)
Hits(m, by) == \A h \in by : m.stack # 0
               /\ (m.stack \notin seen.stacks => th[h[2]].stack = m.stack)
HitsTrue == /\ probe.at # "idle" => Hits(probe.om, probe.om_by) /\ Hits(probe.so, probe.so_by)
            /\ probe.at \in {"om", "so"} => probe.om_by = {} /\ probe.so_by = {}

AgeTrue == lastSaid.held => lastSaid.since = lastSaid.acq

NamesInv == /\ NameTypes /\ Lives /\ HeldByOne /\ SlotsTrue /\ ShimTrue
            /\ ProbeTypes /\ SeenAll /\ MarkTrue /\ SoTrue /\ ScanTrue /\ HitsTrue /\ AgeTrue

Living(t) == \/ \E s \in Stacks : Names!Born(t, s)
             \/ Names!RegisterStack(t) \/ Names!Registered(t) \/ Names!UnregisterStack(t)
             \/ Names!Dies(t)
             \/ \E f \in th[t].todo : Names!Store(t, f)
Keeping(t) == \/ \E d \in Depths : Names!Take(t, d)
              \/ Names!Marks(t) \/ Names!Holds(t) \/ Names!Drop(t) \/ Names!NoteShimVa(t)
              \/ Names!NoteShimEnter(t) \/ Names!NoteShimExit(t)
Probing == \/ Names!ProbeHeld \/ Names!ProbeMark \/ Names!ProbeShim \/ Names!ProbeAcq
           \/ Names!ScanTag \/ Names!ScanLo \/ Names!ScanHi
           \/ Names!Attribute \/ Names!ProbeVa \/ Names!GilField

(* The next-state relation, sorted by what the proof treats alike.         *)
LEMMA NameSteps == Names!Next <=> Probing \/ \E t \in Takers : Living(t) \/ Keeping(t)
BY DEF Names!Next, Probing, Living, Keeping

(* What an action makes of its thread.                                     *)
Becomes(t, a, sl, d, td, sh) ==
  /\ th' \in [Takers -> Life]
  /\ \A u \in Takers : u # t => th'[u] = th[u]
  /\ th'[t].at = a /\ th'[t].slot = sl /\ th'[t].depth = d
  /\ th'[t].todo = td /\ th'[t].shim = sh
Stays(t) == th'[t].stack = th[t].stack

(* A thread's record is replaced; the others' stay.                        *)
LEMMA OneMoves ==
  ASSUME NameTypes, NEW t \in Takers, NEW x \in Life, th' = [th EXCEPT ![t] = x]
  PROVE  Becomes(t, x.at, x.slot, x.depth, x.todo, x.shim) /\ th'[t].stack = x.stack
BY DEF NameTypes, Becomes

(* What birth, registration and death make of their thread.                *)
LEMMA LifeMoves ==
  ASSUME NameTypes, NEW t \in Takers
  PROVE  /\ \A s \in Stacks : Names!Born(t, s) =>
              /\ \E a \in {"out", "born"} : Becomes(t, a, 0, 0, {}, FALSE)
              /\ th'[t].stack = s
         /\ Names!RegisterStack(t) =>
              /\ Stays(t)
              /\ IF reserved < IdSlots
                 THEN Becomes(t, "reg", reserved + 1, th[t].depth, {"hi", "lo", "tag"}, th[t].shim)
                 ELSE Becomes(t, "out", th[t].slot, th[t].depth, th[t].todo, th[t].shim)
         /\ Names!Registered(t) => Becomes(t, "out", th[t].slot, th[t].depth, th[t].todo, th[t].shim) /\ Stays(t)
         /\ Names!UnregisterStack(t) =>
              /\ Stays(t)
              /\ Becomes(t, "unreg", th[t].slot, th[t].depth,
                         IF th[t].slot = 0 THEN {} ELSE {"nolo", "notag"}, th[t].shim)
         /\ Names!Dies(t) => Becomes(t, "dead", 0, 0, {}, FALSE) /\ th'[t].stack = 0
         /\ \A f \in th[t].todo : Names!Store(t, f) =>
              Becomes(t, th[t].at, th[t].slot, th[t].depth, th[t].todo \ {f}, th[t].shim)
              /\ Stays(t)
<1>0. th[t] \in Life /\ reserved \in Nat
  BY DEF NameTypes
<1>1. ASSUME NEW s \in Stacks, Names!Born(t, s)
      PROVE  (\E a \in {"out", "born"} : Becomes(t, a, 0, 0, {}, FALSE)) /\ th'[t].stack = s
  <2>1. PICK x : x = [Names!Unborn EXCEPT !.at = IF t \in Unnamed THEN "out" ELSE "born", !.stack = s] /\ th' = [th EXCEPT ![t] = x]
    BY <1>1 DEF Names!Born
  <2>2. x \in Life /\ x.at \in {"out", "born"} /\ x.stack = s /\ x.slot = 0 /\ x.depth = 0
        /\ x.todo = {} /\ x.shim = FALSE
    BY <1>0, <2>1 DEF Life, Places, Names!Unborn
  <2> QED  BY <2>1, <2>2, OneMoves DEF Stays
<1> DEFINE all == {"hi", "lo", "tag"}
           one == reserved + 1
<1> HIDE DEF all, one
<1>2. ASSUME Names!RegisterStack(t), reserved < IdSlots
      PROVE  Stays(t) /\ Becomes(t, "reg", one, th[t].depth, all, th[t].shim)
  <2>1. PICK x : x = [th[t] EXCEPT !.at = "reg", !.slot = one, !.todo = all]
                 /\ th' = [th EXCEPT ![t] = x]
    BY <1>2 DEF Names!RegisterStack, all, one
  <2>2. one \in Nat /\ all \in SUBSET {"hi", "lo", "tag", "nolo", "notag"}
    BY <1>0 DEF all, one
  <2>3. x \in Life /\ x.at = "reg" /\ x.stack = th[t].stack /\ x.slot = one
        /\ x.depth = th[t].depth
        /\ x.todo = all /\ x.shim = th[t].shim
    BY <1>0, <2>1, <2>2 DEF Life, Places
  <2> QED  BY <2>1, <2>3, OneMoves DEF Stays
<1>3. ASSUME Names!RegisterStack(t), ~(reserved < IdSlots)
      PROVE  Stays(t) /\ Becomes(t, "out", th[t].slot, th[t].depth, th[t].todo, th[t].shim)
  <2>1. PICK x : x = [th[t] EXCEPT !.at = "out"] /\ th' = [th EXCEPT ![t] = x]
    BY <1>3 DEF Names!RegisterStack
  <2>2. x \in Life /\ x.at = "out" /\ x.stack = th[t].stack /\ x.slot = th[t].slot
        /\ x.depth = th[t].depth /\ x.todo = th[t].todo /\ x.shim = th[t].shim
    BY <1>0, <2>1 DEF Life, Places
  <2> QED  BY <2>1, <2>2, OneMoves DEF Stays
<1>4. ASSUME Names!Registered(t)
      PROVE  Becomes(t, "out", th[t].slot, th[t].depth, th[t].todo, th[t].shim) /\ Stays(t)
  <2>1. PICK x : x = [th[t] EXCEPT !.at = "out"] /\ th' = [th EXCEPT ![t] = x]
    BY <1>4 DEF Names!Registered, Names!Goes
  <2>2. x \in Life /\ x.at = "out" /\ x.stack = th[t].stack /\ x.slot = th[t].slot
        /\ x.depth = th[t].depth /\ x.todo = th[t].todo /\ x.shim = th[t].shim
    BY <1>0, <2>1 DEF Life, Places
  <2> QED  BY <2>1, <2>2, OneMoves DEF Stays
<1> DEFINE left == IF th[t].slot = 0 THEN {} ELSE {"nolo", "notag"}
<1> HIDE DEF left
<1>5. ASSUME Names!UnregisterStack(t)
      PROVE  Stays(t) /\ Becomes(t, "unreg", th[t].slot, th[t].depth, left, th[t].shim)
  <2>1. PICK x : x = [th[t] EXCEPT !.at = "unreg", !.todo = left] /\ th' = [th EXCEPT ![t] = x]
    BY <1>5 DEF Names!UnregisterStack, Names!Cleared, left
  <2>2. x \in Life /\ x.at = "unreg" /\ x.stack = th[t].stack /\ x.slot = th[t].slot
        /\ x.depth = th[t].depth /\ x.todo = left /\ x.shim = th[t].shim
    BY <1>0, <2>1 DEF Life, Places, left
  <2> QED  BY <2>1, <2>2, OneMoves DEF Stays
<1>6. ASSUME Names!Dies(t)
      PROVE  Becomes(t, "dead", 0, 0, {}, FALSE) /\ th'[t].stack = 0
  <2>1. PICK x : x = [Names!Unborn EXCEPT !.at = "dead"] /\ th' = [th EXCEPT ![t] = x]
    BY <1>6 DEF Names!Dies
  <2>2. x \in Life /\ x.at = "dead" /\ x.stack = 0 /\ x.slot = 0 /\ x.depth = 0 /\ x.todo = {}
        /\ x.shim = FALSE
    BY <1>0, <2>1 DEF Life, Places, Names!Unborn
  <2> QED  BY <2>1, <2>2, OneMoves DEF Stays
<1>7. ASSUME NEW f \in th[t].todo, Names!Store(t, f)
      PROVE  Becomes(t, th[t].at, th[t].slot, th[t].depth, th[t].todo \ {f}, th[t].shim)
             /\ Stays(t)
  <2>1. PICK x : x = [th[t] EXCEPT !.todo = th[t].todo \ {f}] /\ th' = [th EXCEPT ![t] = x]
    BY <1>7 DEF Names!Store
  <2>2. x \in Life /\ x.at = th[t].at /\ x.stack = th[t].stack /\ x.slot = th[t].slot
        /\ x.depth = th[t].depth /\ x.todo = th[t].todo \ {f} /\ x.shim = th[t].shim
    BY <1>0, <2>1 DEF Life, Places
  <2> QED  BY <2>1, <2>2, OneMoves DEF Stays
<1> QED  BY <1>1, <1>2, <1>3, <1>4, <1>5, <1>6, <1>7 DEF left, all, one

(* What taking, marking and dropping the lock, and a shim's marks, make of *)
(* their thread.                                                           *)
LEMMA LockMoves ==
  ASSUME NameTypes, NEW t \in Takers
  PROVE  /\ \A d \in Depths : Names!Take(t, d) => Becomes(t, "marks", th[t].slot, d, th[t].todo, th[t].shim) /\ Stays(t)
         /\ Names!Marks(t) => Becomes(t, "holds", th[t].slot, th[t].depth, th[t].todo, th[t].shim) /\ Stays(t)
         /\ Names!Holds(t) => Becomes(t, "in", th[t].slot, th[t].depth, th[t].todo, th[t].shim)
            /\ Stays(t)
         /\ Names!Drop(t) => /\ Stays(t)
                             /\ Becomes(t, IF th[t].shim THEN "away" ELSE "out", th[t].slot, th[t].depth, th[t].todo,
                                        th[t].shim)
         /\ Names!NoteShimVa(t) => Becomes(t, "shim", th[t].slot, th[t].depth, th[t].todo, th[t].shim) /\ Stays(t)
         /\ Names!NoteShimEnter(t) => Becomes(t, "in", th[t].slot, th[t].depth, th[t].todo, TRUE)
            /\ Stays(t)
         /\ Names!NoteShimExit(t) => Becomes(t, th[t].at, th[t].slot, th[t].depth, th[t].todo, FALSE) /\ Stays(t)
<1>0. th[t] \in Life
  BY DEF NameTypes
<1>1. ASSUME NEW d \in Depths, Names!Take(t, d)
      PROVE  Becomes(t, "marks", th[t].slot, d, th[t].todo, th[t].shim) /\ Stays(t)
  <2>1. PICK x : x = [th[t] EXCEPT !.at = "marks", !.depth = d] /\ th' = [th EXCEPT ![t] = x]
    BY <1>1 DEF Names!Take
  <2>2. x \in Life /\ x.at = "marks" /\ x.stack = th[t].stack /\ x.slot = th[t].slot
        /\ x.depth = d /\ x.todo = th[t].todo /\ x.shim = th[t].shim
    BY <1>0, <2>1 DEF Life, Places
  <2> QED  BY <2>1, <2>2, OneMoves DEF Stays
<1>2. ASSUME Names!Marks(t)
      PROVE  Becomes(t, "holds", th[t].slot, th[t].depth, th[t].todo, th[t].shim) /\ Stays(t)
  <2>1. PICK x : x = [th[t] EXCEPT !.at = "holds"] /\ th' = [th EXCEPT ![t] = x]
    BY <1>2 DEF Names!Marks, Names!Goes
  <2>2. x \in Life /\ x.at = "holds" /\ x.stack = th[t].stack /\ x.slot = th[t].slot
        /\ x.depth = th[t].depth /\ x.todo = th[t].todo /\ x.shim = th[t].shim
    BY <1>0, <2>1 DEF Life, Places
  <2> QED  BY <2>1, <2>2, OneMoves DEF Stays
<1>3. ASSUME Names!Holds(t)
      PROVE  Becomes(t, "in", th[t].slot, th[t].depth, th[t].todo, th[t].shim) /\ Stays(t)
  <2>1. PICK x : x = [th[t] EXCEPT !.at = "in"] /\ th' = [th EXCEPT ![t] = x]
    BY <1>3 DEF Names!Holds, Names!Goes
  <2>2. x \in Life /\ x.at = "in" /\ x.stack = th[t].stack /\ x.slot = th[t].slot
        /\ x.depth = th[t].depth /\ x.todo = th[t].todo /\ x.shim = th[t].shim
    BY <1>0, <2>1 DEF Life, Places
  <2> QED  BY <2>1, <2>2, OneMoves DEF Stays
<1> DEFINE left == IF th[t].shim THEN "away" ELSE "out"
<1> HIDE DEF left
<1>4. ASSUME Names!Drop(t)
      PROVE  Becomes(t, left, th[t].slot, th[t].depth, th[t].todo, th[t].shim) /\ Stays(t)
  <2>1. PICK x : x = [th[t] EXCEPT !.at = left] /\ th' = [th EXCEPT ![t] = x]
    BY <1>4 DEF Names!Drop, Names!Goes, left
  <2>2. x \in Life /\ x.at = left /\ x.stack = th[t].stack /\ x.slot = th[t].slot
        /\ x.depth = th[t].depth /\ x.todo = th[t].todo /\ x.shim = th[t].shim
    BY <1>0, <2>1 DEF Life, Places, left
  <2> QED  BY <2>1, <2>2, OneMoves DEF Stays
<1>5. ASSUME Names!NoteShimVa(t)
      PROVE  Becomes(t, "shim", th[t].slot, th[t].depth, th[t].todo, th[t].shim) /\ Stays(t)
  <2>1. PICK x : x = [th[t] EXCEPT !.at = "shim"] /\ th' = [th EXCEPT ![t] = x]
    BY <1>5 DEF Names!NoteShimVa, Names!Goes
  <2>2. x \in Life /\ x.at = "shim" /\ x.stack = th[t].stack /\ x.slot = th[t].slot
        /\ x.depth = th[t].depth /\ x.todo = th[t].todo /\ x.shim = th[t].shim
    BY <1>0, <2>1 DEF Life, Places
  <2> QED  BY <2>1, <2>2, OneMoves DEF Stays
<1>6. ASSUME Names!NoteShimEnter(t)
      PROVE  Becomes(t, "in", th[t].slot, th[t].depth, th[t].todo, TRUE) /\ Stays(t)
  <2>1. PICK x : x = [th[t] EXCEPT !.at = "in", !.shim = TRUE] /\ th' = [th EXCEPT ![t] = x]
    BY <1>6 DEF Names!NoteShimEnter
  <2>2. x \in Life /\ x.at = "in" /\ x.stack = th[t].stack /\ x.slot = th[t].slot
        /\ x.depth = th[t].depth /\ x.todo = th[t].todo /\ x.shim = TRUE
    BY <1>0, <2>1 DEF Life, Places
  <2> QED  BY <2>1, <2>2, OneMoves DEF Stays
<1>7. ASSUME Names!NoteShimExit(t)
      PROVE  Becomes(t, th[t].at, th[t].slot, th[t].depth, th[t].todo, FALSE) /\ Stays(t)
  <2>1. PICK x : x = [th[t] EXCEPT !.shim = FALSE] /\ th' = [th EXCEPT ![t] = x]
    BY <1>7 DEF Names!NoteShimExit
  <2>2. x \in Life /\ x.at = th[t].at /\ x.stack = th[t].stack /\ x.slot = th[t].slot
        /\ x.depth = th[t].depth /\ x.todo = th[t].todo /\ x.shim = FALSE
    BY <1>0, <2>1 DEF Life, Places
  <2> QED  BY <2>1, <2>2, OneMoves DEF Stays
<1> QED  BY <1>1, <1>2, <1>3, <1>4, <1>5, <1>6, <1>7 DEF left

(* Every step keeps the types.                                             *)
LEMMA TypesKept ==
  ASSUME NameTypes, [Names!Next]_(Names!vars)
  PROVE  NameTypes'
<1> USE ThreadsAssumption DEF Names!NamesAssumption
<1>1. Names!NoMark \in Mark
  BY DEF Names!NoMark, Mark
<1>2. ASSUME NEW t \in Takers, Living(t)
      PROVE  NameTypes'
  <2>0. UNCHANGED <<gilMu, mark, shimOwner>>
    BY <1>2
    DEF Living, Names!Born, Names!RegisterStack, Names!Registered, Names!UnregisterStack,
        Names!Dies, Names!Store, Names!lock, Names!pub, Names!shim
  <2>1. th' \in [Takers -> Life]
    BY <1>2, LifeMoves DEF Living, Becomes
  <2>2. reserved' \in Nat
    <3>1. reserved' = reserved \/ reserved' = reserved + 1
      BY <1>2
      DEF Living, Names!Born, Names!RegisterStack, Names!Registered, Names!UnregisterStack,
          Names!Dies, Names!Store
    <3> QED  BY <3>1 DEF NameTypes
  <2>3. ASSUME NEW f \in th[t].todo, Names!Store(t, f)
        PROVE  stackTable' \in [1..IdSlots -> Slot]
    <3>1. th[t] \in Life /\ f \in {"hi", "lo", "tag", "nolo", "notag"}
      BY DEF NameTypes, Life
    <3> DEFINE i == th[t].slot
    <3>2. \E e \in Slot : i \in 1..IdSlots => stackTable' = [stackTable EXCEPT ![i] = e]
      <4>1. CASE i \notin 1..IdSlots
        <5>1. Names!Empty \in Slot
          BY DEF Names!Empty, Slot
        <5> QED  BY <4>1, <5>1
      <4>2. CASE i \in 1..IdSlots
        <5>0. stackTable[i] \in Slot /\ th[t].stack \in Stacks \cup {0}
          BY <3>1, <4>2 DEF NameTypes, Life
        <5>1. PICK e : /\ stackTable' = [stackTable EXCEPT ![i] = e]
                       /\ e = CASE f = "hi" -> [stackTable[i] EXCEPT !.hi = th[t].stack]
                                [] f = "lo" -> [stackTable[i] EXCEPT !.lo = th[t].stack]
                                [] f = "tag" -> [stackTable[i] EXCEPT !.tag = t]
                                [] f = "nolo" -> [stackTable[i] EXCEPT !.lo = 0]
                                [] f = "notag" -> [stackTable[i] EXCEPT !.tag = Names!Nobody]
          BY <2>3 DEF Names!Store, Names!Put
        <5>2. e \in Slot
          BY <3>1, <5>0, <5>1 DEF Slot
        <5> QED  BY <5>1, <5>2
      <4> QED  BY <4>1, <4>2
    <3>3. CASE i \in 1..IdSlots
      BY <3>2, <3>3 DEF NameTypes
    <3>4. CASE i \notin 1..IdSlots
      BY <2>3, <3>4 DEF NameTypes, Names!Store, Names!Put
    <3> QED  BY <3>3, <3>4
  <2>4. stackTable' \in [1..IdSlots -> Slot]
    BY <1>2, <2>3
    DEF Living, Names!Born, Names!RegisterStack, Names!Registered, Names!UnregisterStack,
        Names!Dies, NameTypes
  <2> QED  BY <2>0, <2>1, <2>2, <2>4 DEF NameTypes
<1>3. ASSUME NEW t \in Takers, Keeping(t)
      PROVE  NameTypes'
  <2>0. UNCHANGED <<stackTable, reserved>>
    BY <1>3
    DEF Keeping, Names!Take, Names!Marks, Names!Holds, Names!Drop, Names!NoteShimVa,
        Names!NoteShimEnter, Names!NoteShimExit
  <2>1. th' \in [Takers -> Life]
    BY <1>3, LockMoves DEF Keeping, Becomes
  <2>2. gilMu' \in Takers \cup {Names!Nobody}
    BY <1>3
    DEF Keeping, Names!Take, Names!Marks, Names!Holds, Names!Drop, Names!NoteShimVa,
        Names!NoteShimEnter, Names!NoteShimExit, NameTypes, Names!lock
  <2>3. mark' \in Mark
    <3>1. [stack |-> th[t].stack, depth |-> th[t].depth] \in Mark
      BY DEF NameTypes, Life, Mark
    <3> QED  BY <1>3, <3>1
             DEF Keeping, Names!Take, Names!Marks, Names!Holds, Names!Drop, Names!NoteShimVa,
                 Names!NoteShimEnter, Names!NoteShimExit, NameTypes, Names!pub
  <2>4. shimOwner' \in Mark
    BY <1>1, <1>3
    DEF Keeping, Names!Take, Names!Marks, Names!Holds, Names!Drop, Names!NoteShimVa,
        Names!NoteShimEnter, Names!NoteShimExit, NameTypes, Names!shim
  <2> QED  BY <2>0, <2>1, <2>2, <2>3, <2>4 DEF NameTypes
<1>4. CASE Probing
  <2>1. UNCHANGED <<th, stackTable, reserved, gilMu, mark, shimOwner>>
    BY <1>4
    DEF Probing, Names!ProbeHeld, Names!ProbeMark, Names!ProbeShim, Names!ProbeAcq, Names!ScanTag,
        Names!ScanLo, Names!ScanHi, Names!Attribute, Names!ProbeVa, Names!GilField, Names!Loads,
        Names!lock, Names!pub, Names!shim
  <2> QED  BY <2>1 DEF NameTypes
<1>5. CASE UNCHANGED Names!vars
  BY <1>5 DEF NameTypes, Names!vars
<1> QED  BY <1>2, <1>3, <1>4, <1>5, NameSteps

(* Birth, registration and death keep what a thread's place says of its    *)
(* slot and depth.                                                         *)
LEMMA LivesLiving ==
  ASSUME NameTypes, Lives, NEW t \in Takers, Living(t)
  PROVE  Lives'
<1> USE ThreadsAssumption DEF Names!NamesAssumption
<1>0. UNCHANGED <<gilMu, gilOwned, mark, shimVa>> /\ th[t] \in Life /\ reserved \in Nat
  BY DEF Living, Names!Born, Names!RegisterStack, Names!Registered, Names!UnregisterStack,
         Names!Dies, Names!Store, Names!lock, Names!pub, Names!shim, NameTypes
<1>1. ASSUME NEW s \in Stacks, Names!Born(t, s)
      PROVE  Lives'
  <2>1. PICK a \in {"out", "born"} : Becomes(t, a, 0, 0, {}, FALSE) /\ th'[t].stack = s
    BY <1>1, LifeMoves
  <2>2. \A u \in Takers : th[u].stack # s
    BY <1>1 DEF Names!Born
  <2>3. th[t].at = "none" /\ reserved' = reserved
    BY <1>1 DEF Names!Born
  <2> QED  BY <1>0, <2>1, <2>2, <2>3 DEF Lives, Becomes, Locking
<1>2. CASE Names!RegisterStack(t)
  <2>0. th[t].at = "born" /\ reserved' = reserved + 1
    BY <1>2 DEF Names!RegisterStack
  <2>1. CASE reserved < IdSlots
    <3>1. Stays(t)
          /\ Becomes(t, "reg", reserved + 1, th[t].depth, {"hi", "lo", "tag"}, th[t].shim)
      BY <1>2, <2>1, LifeMoves
    <3>2. \A u \in Takers : th[u].slot \in Nat
      BY DEF NameTypes, Life
    <3> QED  BY <1>0, <2>0, <2>1, <3>1, <3>2 DEF Lives, Becomes, Locking, Stays
  <2>2. CASE ~(reserved < IdSlots)
    <3>1. Stays(t) /\ Becomes(t, "out", th[t].slot, th[t].depth, th[t].todo, th[t].shim)
      BY <1>2, <2>2, LifeMoves
    <3>2. \A u \in Takers : th[u].slot \in Nat
      BY DEF NameTypes, Life
    <3> QED  BY <1>0, <2>0, <2>2, <3>1, <3>2 DEF Lives, Becomes, Locking, Stays
  <2> QED  BY <2>1, <2>2
<1>3. CASE Names!Registered(t)
  <2>1. Stays(t) /\ Becomes(t, "out", th[t].slot, th[t].depth, th[t].todo, th[t].shim)
    BY <1>3, LifeMoves
  <2>2. th[t].at = "reg" /\ reserved' = reserved
    BY <1>3 DEF Names!Registered, Names!Goes
  <2> QED  BY <1>0, <2>1, <2>2 DEF Lives, Becomes, Locking, Stays
<1>4. CASE Names!UnregisterStack(t)
  <2>1. /\ Stays(t)
        /\ Becomes(t, "unreg", th[t].slot, th[t].depth, IF th[t].slot = 0 THEN {} ELSE {"nolo", "notag"}, th[t].shim)
    BY <1>4, LifeMoves
  <2>2. th[t].at = "out" /\ reserved' = reserved
    BY <1>4 DEF Names!UnregisterStack
  <2> QED  BY <1>0, <2>1, <2>2 DEF Lives, Becomes, Locking, Stays
<1>5. CASE Names!Dies(t)
  <2>1. Becomes(t, "dead", 0, 0, {}, FALSE) /\ th'[t].stack = 0
    BY <1>5, LifeMoves
  <2>2. th[t].at = "unreg" /\ reserved' = reserved
    BY <1>5 DEF Names!Dies
  <2> QED  BY <1>0, <2>1, <2>2 DEF Lives, Becomes, Locking
<1>6. ASSUME NEW f \in th[t].todo, Names!Store(t, f)
      PROVE  Lives'
  <2>1. Becomes(t, th[t].at, th[t].slot, th[t].depth, th[t].todo \ {f}, th[t].shim) /\ Stays(t)
    BY <1>6, LifeMoves
  <2>2. th[t].at \in {"reg", "unreg"} /\ reserved' = reserved
    BY <1>6 DEF Names!Store
  <2> QED  BY <1>0, <2>1, <2>2 DEF Lives, Becomes, Locking, Stays
<1> QED  BY <1>1, <1>2, <1>3, <1>4, <1>5, <1>6 DEF Living

(* So do the steps around the lock, which also keep the lock with its one  *)
(* holder.                                                                 *)
LEMMA LivesKeeping ==
  ASSUME NameTypes, Lives, NEW t \in Takers, Keeping(t)
  PROVE  Lives' /\ (HeldByOne => HeldByOne')
<1> USE ThreadsAssumption DEF Names!NamesAssumption
<1>0. reserved' = reserved /\ th[t] \in Life
  BY DEF Keeping, Names!Take, Names!Marks, Names!Holds, Names!Drop, Names!NoteShimVa,
         Names!NoteShimEnter, Names!NoteShimExit, NameTypes
<1>1. ASSUME NEW d \in Depths, Names!Take(t, d)
      PROVE  Lives' /\ (HeldByOne => HeldByOne')
  <2>1. Becomes(t, "marks", th[t].slot, d, th[t].todo, th[t].shim) /\ Stays(t)
    BY <1>1, LockMoves
  <2>2. th[t].at \in {"out", "away"} /\ gilMu = Names!Nobody /\ gilMu' = t /\ gilOwned' = TRUE
        /\ UNCHANGED <<pubHeld, mark, shimVa>>
    BY <1>1 DEF Names!Take, Names!shim
  <2> QED  BY <1>0, <2>1, <2>2 DEF Lives, HeldByOne, Becomes, Locking, Stays
<1>2. CASE Names!Marks(t)
  <2>1. Becomes(t, "holds", th[t].slot, th[t].depth, th[t].todo, th[t].shim) /\ Stays(t)
    BY <1>2, LockMoves
  <2>2. th[t].at = "marks" /\ mark' = [stack |-> th[t].stack, depth |-> th[t].depth]
        /\ UNCHANGED <<gilMu, gilOwned, pubHeld, shimVa>>
    BY <1>2 DEF Names!Marks, Names!Goes, Names!lock, Names!shim
  <2> QED  BY <1>0, <2>1, <2>2 DEF Lives, HeldByOne, Becomes, Locking, Stays
<1>3. CASE Names!Holds(t)
  <2>1. Becomes(t, "in", th[t].slot, th[t].depth, th[t].todo, th[t].shim) /\ Stays(t)
    BY <1>3, LockMoves
  <2>2. th[t].at = "holds" /\ UNCHANGED <<gilMu, gilOwned, mark, shimVa>>
    BY <1>3 DEF Names!Holds, Names!Goes, Names!lock, Names!shim
  <2> QED  BY <1>0, <2>1, <2>2 DEF Lives, HeldByOne, Becomes, Locking, Stays
<1>4. CASE Names!Drop(t)
  <2>1. /\ Becomes(t, IF th[t].shim THEN "away" ELSE "out", th[t].slot, th[t].depth, th[t].todo, th[t].shim)
        /\ Stays(t)
    BY <1>4, LockMoves
  <2>2. th[t].at = "in" /\ gilMu' = Names!Nobody /\ pubHeld' = FALSE /\ UNCHANGED <<mark, shimVa>>
    BY <1>4 DEF Names!Drop, Names!Goes, Names!shim
  <2> QED  BY <1>0, <2>1, <2>2 DEF Lives, HeldByOne, Becomes, Locking, Stays
<1>5. CASE Names!NoteShimVa(t)
  <2>1. Becomes(t, "shim", th[t].slot, th[t].depth, th[t].todo, th[t].shim) /\ Stays(t)
    BY <1>5, LockMoves
  <2>2. th[t].at = "in" /\ ~th[t].shim /\ shimVa' = t
        /\ UNCHANGED <<gilMu, gilOwned, pubHeld, mark>>
    BY <1>5 DEF Names!NoteShimVa, Names!Goes, Names!lock, Names!pub
  <2> QED  BY <1>0, <2>1, <2>2 DEF Lives, HeldByOne, Becomes, Locking, Stays
<1>6. CASE Names!NoteShimEnter(t)
  <2>1. Becomes(t, "in", th[t].slot, th[t].depth, th[t].todo, TRUE) /\ Stays(t)
    BY <1>6, LockMoves
  <2>2. th[t].at = "shim" /\ UNCHANGED <<gilMu, gilOwned, pubHeld, mark, shimVa>>
    BY <1>6 DEF Names!NoteShimEnter, Names!Goes, Names!lock, Names!pub
  <2> QED  BY <1>0, <2>1, <2>2 DEF Lives, HeldByOne, Becomes, Locking, Stays
<1>7. CASE Names!NoteShimExit(t)
  <2>1. Becomes(t, th[t].at, th[t].slot, th[t].depth, th[t].todo, FALSE) /\ Stays(t)
    BY <1>7, LockMoves
  <2>2. th[t].at = "in" /\ UNCHANGED <<gilMu, gilOwned, pubHeld, mark, shimVa>>
    BY <1>7 DEF Names!NoteShimExit, Names!Goes, Names!lock, Names!pub
  <2> QED  BY <1>0, <2>1, <2>2 DEF Lives, HeldByOne, Becomes, Locking, Stays
<1> QED  BY <1>1, <1>2, <1>3, <1>4, <1>5, <1>6, <1>7 DEF Keeping

(* Living does not touch the lock, nor those who have it.                  *)
LEMMA LivingQuiet ==
  ASSUME NameTypes, Lives, NEW t \in Takers, Living(t)
  PROVE  /\ UNCHANGED <<gilMu, gilOwned, pubHeld, mark, acq, shimOwner, shimVa, probe, lastSaid>>
         /\ th[t].at \notin Locking \cup {"away"} /\ ~th[t].shim
         /\ th'[t].at \notin Locking \cup {"away"} /\ ~th'[t].shim
         /\ \A u \in Takers : u # t => th'[u] = th[u]
         /\ Stays(t) \/ \E s : Names!Born(t, s) \/ Names!Dies(t)
<1>1. UNCHANGED <<gilMu, gilOwned, pubHeld, mark, acq, shimOwner, shimVa, probe, lastSaid>>
  BY DEF Living, Names!Born, Names!RegisterStack, Names!Registered, Names!UnregisterStack,
         Names!Dies, Names!Store, Names!lock, Names!pub, Names!shim, Names!reader
<1>2. th[t].at \in {"none", "born", "reg", "out", "unreg"}
  BY DEF Living, Names!Born, Names!RegisterStack, Names!Registered, Names!UnregisterStack,
         Names!Dies, Names!Store, Names!Goes
<1>3. ~th[t].shim
  BY <1>2 DEF Lives
<1>4. /\ th'[t].at \in {"born", "reg", "out", "unreg", "dead"} /\ ~th'[t].shim
      /\ \A u \in Takers : u # t => th'[u] = th[u]
  <2>1. ASSUME NEW f \in th[t].todo, Names!Store(t, f)
        PROVE  th[t].at \in {"reg", "unreg"}
    BY <2>1 DEF Names!Store
  <2> QED  BY <1>3, <2>1, LifeMoves DEF Living, Becomes
<1>5. Stays(t) \/ \E s : Names!Born(t, s) \/ Names!Dies(t)
  BY LifeMoves DEF Living
<1> QED  BY <1>1, <1>2, <1>3, <1>4, <1>5 DEF Becomes, Locking

(* The lock's holder is not one who is born, registers or dies.            *)
LEMMA HeldLiving ==
  ASSUME NameTypes, Lives, HeldByOne, NEW t \in Takers, Living(t)
  PROVE  HeldByOne'
BY LivingQuiet DEF HeldByOne, Locking, NameTypes

(* What an action of the lock leaves alone.                                *)
LEMMA KeepingQuiet ==
  ASSUME NameTypes, NEW t \in Takers, Keeping(t)
  PROVE  /\ UNCHANGED <<stackTable, reserved, probe, lastSaid>>
         /\ th[t].at \in {"out", "away", "marks", "holds", "in", "shim"}
         /\ th'[t].at \in {"out", "away", "marks", "holds", "in", "shim"}
         /\ \A u \in Takers : th'[u].stack = th[u].stack /\ th'[u].slot = th[u].slot
            /\ (u # t => th'[u] = th[u])
<1>1. /\ UNCHANGED <<stackTable, reserved, probe, lastSaid>>
      /\ th[t].at \in {"out", "away", "marks", "holds", "in", "shim"}
  BY DEF Keeping, Names!Take, Names!Marks, Names!Holds, Names!Drop, Names!NoteShimVa,
         Names!NoteShimEnter, Names!NoteShimExit, Names!Goes, Names!reader
<1>2. /\ th'[t].at \in {"out", "away", "marks", "holds", "in", "shim"}
      /\ th'[t].stack = th[t].stack /\ th'[t].slot = th[t].slot
      /\ \A u \in Takers : u # t => th'[u] = th[u]
  BY <1>1, LockMoves DEF Keeping, Becomes, Stays
<1> QED  BY <1>1, <1>2

(* A slot is reserved once and for all, its fields are filled by its own   *)
(* thread, and what it says is true of that thread.                        *)
LEMMA SlotsLiving ==
  ASSUME NameTypes, Lives, SlotsTrue, NEW t \in Takers, Living(t)
  PROVE  SlotsTrue'
<1> USE ThreadsAssumption DEF Names!NamesAssumption
<1>0. /\ \A u \in Takers : th[u].slot \in Nat
      /\ \A i \in 1..IdSlots : stackTable[i].tag \in Takers \cup {Names!Nobody}
      /\ \A u \in Takers : th[u].slot # 0 => th[u].slot \in 1..IdSlots
  BY DEF NameTypes, Life, Slot, Lives
<1>1. ASSUME NEW s \in Stacks, Names!Born(t, s)
      PROVE  SlotsTrue'
  <2>1. PICK a \in {"out", "born"} : Becomes(t, a, 0, 0, {}, FALSE) /\ th'[t].stack = s
    BY <1>1, LifeMoves
  <2>2. stackTable' = stackTable /\ th[t].slot = 0
    BY <1>1 DEF Names!Born, Lives
  <2> QED  BY <2>1, <2>2 DEF SlotsTrue, Becomes
<1>2. CASE Names!RegisterStack(t)
  <2>0. stackTable' = stackTable /\ th[t].slot = 0 /\ reserved \in Nat
    BY <1>2 DEF Names!RegisterStack, Lives, NameTypes
  <2>1. CASE reserved < IdSlots
    <3>1. Stays(t)
          /\ Becomes(t, "reg", reserved + 1, th[t].depth, {"hi", "lo", "tag"}, th[t].shim)
      BY <1>2, <2>1, LifeMoves
    <3>2. reserved + 1 \in 1..IdSlots /\ \A u \in Takers : th[u].slot # reserved + 1
      BY <1>0, <2>0, <2>1 DEF Lives
    <3>3. stackTable[reserved + 1].tag = Names!Nobody /\ stackTable[reserved + 1].lo = 0
      BY <3>2 DEF SlotsTrue
    <3> QED  BY <2>0, <3>1, <3>3 DEF SlotsTrue, Becomes, Stays
  <2>2. CASE ~(reserved < IdSlots)
    <3>1. Stays(t) /\ Becomes(t, "out", th[t].slot, th[t].depth, th[t].todo, th[t].shim)
      BY <1>2, <2>2, LifeMoves
    <3> QED  BY <2>0, <3>1 DEF SlotsTrue, Becomes, Stays
  <2> QED  BY <2>1, <2>2
<1>3. CASE Names!Registered(t)
  <2>1. Stays(t) /\ Becomes(t, "out", th[t].slot, th[t].depth, th[t].todo, th[t].shim)
    BY <1>3, LifeMoves
  <2>2. stackTable' = stackTable
    BY <1>3 DEF Names!Registered
  <2> QED  BY <2>1, <2>2 DEF SlotsTrue, Becomes, Stays
<1>4. CASE Names!UnregisterStack(t)
  <2>1. /\ Stays(t)
        /\ Becomes(t, "unreg", th[t].slot, th[t].depth, IF th[t].slot = 0 THEN {} ELSE {"nolo", "notag"}, th[t].shim)
    BY <1>4, LifeMoves
  <2>2. stackTable' = stackTable
    BY <1>4 DEF Names!UnregisterStack
  <2> QED  BY <2>1, <2>2 DEF SlotsTrue, Becomes, Stays
<1>5. CASE Names!Dies(t)
  <2>1. Becomes(t, "dead", 0, 0, {}, FALSE) /\ th'[t].stack = 0
    BY <1>5, LifeMoves
  <2>2. th[t].at = "unreg" /\ th[t].todo = {} /\ stackTable' = stackTable
    BY <1>5 DEF Names!Dies
  <2>3. th[t].slot # 0 => stackTable[th[t].slot].lo = 0
        /\ stackTable[th[t].slot].tag = Names!Nobody
    BY <2>2 DEF SlotsTrue
  <2>4. ASSUME NEW i \in 1..IdSlots, stackTable[i].lo # 0 \/ stackTable[i].tag # Names!Nobody
        PROVE  \E u \in Takers : th'[u].slot = i
    <3>1. PICK u \in Takers : th[u].slot = i
      BY <2>4 DEF SlotsTrue
    <3>2. u # t
      BY <2>3, <2>4, <3>1
    <3> QED  BY <2>1, <3>1, <3>2 DEF Becomes
  <2> QED  BY <2>1, <2>2, <2>4 DEF SlotsTrue, Becomes
<1>6. ASSUME NEW f \in th[t].todo, Names!Store(t, f)
      PROVE  SlotsTrue'
  <2>1. Becomes(t, th[t].at, th[t].slot, th[t].depth, th[t].todo \ {f}, th[t].shim) /\ Stays(t)
    BY <1>6, LifeMoves
  <2> DEFINE i == th[t].slot
             o == th[t].stack
  <2>2. i \in 1..IdSlots /\ f \in {"hi", "lo", "tag", "nolo", "notag"} /\ o \in Stacks \cup {0}
    <3>1. th[t].slot # 0
      BY <1>6 DEF Names!Store, Lives
    <3> QED  BY <1>0, <3>1 DEF NameTypes, Life
  <2>3. PICK e : /\ stackTable' = [stackTable EXCEPT ![i] = e]
                 /\ e = CASE f = "hi" -> [stackTable[i] EXCEPT !.hi = o]
                          [] f = "lo" -> [stackTable[i] EXCEPT !.lo = o]
                          [] f = "tag" -> [stackTable[i] EXCEPT !.tag = t]
                          [] f = "nolo" -> [stackTable[i] EXCEPT !.lo = 0]
                          [] f = "notag" -> [stackTable[i] EXCEPT !.tag = Names!Nobody]
    BY <1>6 DEF Names!Store, Names!Put
  <2>4. /\ e.lo = IF f = "lo" THEN o ELSE IF f = "nolo" THEN 0 ELSE stackTable[i].lo
        /\ e.tag = IF f = "tag" THEN t ELSE IF f = "notag" THEN Names!Nobody ELSE stackTable[i].tag
    <3>1. stackTable[i] \in Slot
      BY <2>2 DEF NameTypes
    <3> QED  BY <2>2, <2>3, <3>1 DEF Slot
  <2> HIDE DEF o
  <2>5. stackTable'[i] = e /\ \A k \in 1..IdSlots : k # i => stackTable'[k] = stackTable[k]
    BY <2>2, <2>3 DEF NameTypes
  <2>6. th[t].slot = i /\ th[t].stack = o /\ i # 0
    BY <2>2 DEF o
  <2> HIDE DEF i
  <2>7. stackTable[i].tag \in {Names!Nobody, t} /\ stackTable[i].lo \in {0, o}
    BY <2>6 DEF SlotsTrue
  <2>8. \A u \in Takers : u # t /\ th[u].slot # 0 => th[u].slot # i /\ th[u].slot \in 1..IdSlots
    BY <1>0, <2>6 DEF Lives
  <2>9. ASSUME NEW u \in Takers, th'[u].slot # 0
        PROVE  /\ stackTable'[th'[u].slot].tag \in {Names!Nobody, u}
               /\ stackTable'[th'[u].slot].lo \in {0, th'[u].stack}
               /\ th'[u].at = "unreg" => /\ "nolo" \notin th'[u].todo => stackTable'[th'[u].slot].lo = 0
                                         /\ "notag" \notin th'[u].todo => stackTable'[th'[u].slot].tag = Names!Nobody
    <3>1. CASE u # t
      BY <2>1, <2>5, <2>8, <2>9, <3>1 DEF SlotsTrue, Becomes
    <3>2. CASE u = t
      <4>1. th'[t].slot = i /\ th'[t].stack = o /\ th'[t].at = th[t].at
            /\ th'[t].todo = th[t].todo \ {f}
        BY <2>1, <2>6 DEF Becomes, Stays
      <4>2. e.tag \in {Names!Nobody, t} /\ e.lo \in {0, o}
        BY <2>4, <2>7
      <4>3. th[t].at = "unreg" => f \in {"nolo", "notag"}
        BY DEF Lives
      <4>4. th[t].at = "unreg" => /\ "nolo" \notin th[t].todo => stackTable[i].lo = 0
                                  /\ "notag" \notin th[t].todo => stackTable[i].tag = Names!Nobody
        BY <2>6 DEF SlotsTrue
      <4>5. th[t].at = "unreg" => /\ "nolo" \notin th'[t].todo => e.lo = 0
                                  /\ "notag" \notin th'[t].todo => e.tag = Names!Nobody
        BY <2>4, <4>1, <4>3, <4>4
      <4> QED  BY <2>5, <3>2, <4>1, <4>2, <4>5
    <3> QED  BY <3>1, <3>2
  <2>10. ASSUME NEW k \in 1..IdSlots, stackTable'[k].lo # 0 \/ stackTable'[k].tag # Names!Nobody
         PROVE  \E u \in Takers : th'[u].slot = k
    <3>1. CASE k = i
      BY <2>1, <2>6, <3>1 DEF Becomes
    <3>2. CASE k # i
      <4>1. PICK u \in Takers : th[u].slot = k
        BY <2>5, <2>10, <3>2 DEF SlotsTrue
      <4> QED  BY <2>1, <2>6, <3>2, <4>1 DEF Becomes
    <3> QED  BY <3>1, <3>2
  <2> QED  BY <2>9, <2>10 DEF SlotsTrue
<1> QED  BY <1>1, <1>2, <1>3, <1>4, <1>5, <1>6 DEF Living

(* The lock's steps do not touch the slots.                                *)
LEMMA SlotsKeeping ==
  ASSUME NameTypes, SlotsTrue, NEW t \in Takers, Keeping(t)
  PROVE  SlotsTrue'
BY KeepingQuiet DEF SlotsTrue

(* A shim's mark names a thread in a shim: threads that are born or        *)
(* register have none.                                                     *)
LEMMA ShimLiving ==
  ASSUME NameTypes, Lives, ShimTrue, NEW t \in Takers, Living(t)
  PROVE  ShimTrue'
<1>1. /\ UNCHANGED <<shimOwner, shimVa>> /\ ~th[t].shim /\ th[t].at # "shim"
      /\ \A u \in Takers : u # t => th'[u] = th[u]
  BY LivingQuiet DEF Locking
<1> QED  BY <1>1 DEF ShimTrue

(* The mark is set by the thread that enters a shim under the lock, and    *)
(* only a later one replaces it.                                           *)
LEMMA ShimKeeping ==
  ASSUME NameTypes, Lives, ShimTrue, NEW t \in Takers, Keeping(t)
  PROVE  ShimTrue'
<1>0. \A u \in Takers : th'[u].stack = th[u].stack /\ (u # t => th'[u] = th[u])
  BY KeepingQuiet
<1>1. CASE Names!Marks(t) \/ Names!Holds(t) \/ Names!Drop(t) \/ \E d \in Depths : Names!Take(t, d)
  <2>1. UNCHANGED <<shimOwner, shimVa>> /\ th[t].at # "shim"
    BY <1>1 DEF Names!Marks, Names!Holds, Names!Drop, Names!Take, Names!shim, Names!Goes
  <2>2. th'[t].shim = th[t].shim
    BY <1>1, LockMoves DEF Becomes
  <2> QED  BY <1>0, <2>1, <2>2 DEF ShimTrue
<1>2. CASE Names!NoteShimVa(t)
  <2>1. UNCHANGED shimOwner /\ shimVa' = t
    BY <1>2 DEF Names!NoteShimVa
  <2>2. th'[t].shim = th[t].shim /\ th'[t].at = "shim"
    BY <1>2, LockMoves DEF Becomes
  <2> QED  BY <1>0, <2>1, <2>2 DEF ShimTrue
<1>3. CASE Names!NoteShimEnter(t)
  <2>1. shimOwner' = mark /\ shimVa' = shimVa /\ th[t].at = "shim"
    BY <1>3 DEF Names!NoteShimEnter
  <2>2. mark.stack = th[t].stack /\ shimVa = t
    BY <2>1 DEF Lives
  <2>3. th'[t].shim
    BY <1>3, LockMoves DEF Becomes
  <2> QED  BY <1>0, <2>1, <2>2, <2>3 DEF ShimTrue
<1>4. CASE Names!NoteShimExit(t)
  BY <1>4 DEF Names!NoteShimExit, ShimTrue, Names!NoMark
<1> QED  BY <1>1, <1>2, <1>3, <1>4 DEF Keeping

(* While a probe goes on, what was seen grows, and a stack that changes    *)
(* hands is noted.                                                         *)
LEMMA Noted ==
  ASSUME seen \in Seen, NEW f \in {"holders", "shims", "stacks"}, NEW x, Names!Notes(f, x),
         f \in {"holders", "shims"} => x \in Takers, f = "stacks" => x \in Stacks \cup {0}
  PROVE  /\ seen' \in Seen
         /\ seen.holders \subseteq seen'.holders /\ seen.shims \subseteq seen'.shims
         /\ seen.stacks \subseteq seen'.stacks
         /\ f # "stacks" => seen'.stacks = seen.stacks
         /\ f = "holders" => (probe.at # "idle" => x \in seen'.holders)
         /\ f = "shims" => (probe.at # "idle" => x \in seen'.shims)
         /\ f = "stacks" => (probe.at # "idle" => x \in seen'.stacks)
<1>1. CASE probe.at = "idle"
  BY <1>1 DEF Names!Notes
<1>2. CASE probe.at # "idle"
  <2>1. CASE f = "holders"
    <3>1. seen' = [seen EXCEPT !.holders = seen.holders \cup {x}]
      BY <1>2, <2>1 DEF Names!Notes
    <3> QED  BY <1>2, <2>1, <3>1 DEF Seen
  <2>2. CASE f = "shims"
    <3>1. seen' = [seen EXCEPT !.shims = seen.shims \cup {x}]
      BY <1>2, <2>2 DEF Names!Notes
    <3> QED  BY <1>2, <2>2, <3>1 DEF Seen
  <2>3. CASE f = "stacks"
    <3>1. seen' = [seen EXCEPT !.stacks = seen.stacks \cup {x}]
      BY <1>2, <2>3 DEF Names!Notes
    <3> QED  BY <1>2, <2>3, <3>1 DEF Seen
  <2> QED  BY <2>1, <2>2, <2>3
<1> QED  BY <1>1, <1>2

(* What a probe under way must remember of births and deaths: the stacks   *)
(* that changed hands meanwhile.                                           *)
LEMMA LivingSeen ==
  ASSUME NameTypes, Lives, ProbeTypes, NEW t \in Takers, Living(t)
  PROVE  /\ seen' \in Seen
         /\ seen.holders \subseteq seen'.holders /\ seen.shims \subseteq seen'.shims
         /\ seen.stacks \subseteq seen'.stacks
         /\ \A u \in Takers : probe.at # "idle" /\ th'[u].stack # th[u].stack =>
              seen'.stacks # {} /\ (th[u].stack = 0 \/ th[u].stack \in seen'.stacks)
<1>0. seen \in Seen /\ \A u \in Takers : u # t => th'[u] = th[u]
  BY LivingQuiet DEF ProbeTypes
<1>1. CASE UNCHANGED seen /\ Stays(t)
  BY <1>0, <1>1 DEF Stays
<1>2. ASSUME NEW s \in Stacks, Names!Born(t, s)
      PROVE  /\ seen' \in Seen
             /\ seen.holders \subseteq seen'.holders /\ seen.shims \subseteq seen'.shims
             /\ seen.stacks \subseteq seen'.stacks
             /\ probe.at # "idle" => th[t].stack = 0 /\ s \in seen'.stacks
  <2>1. Names!Notes("stacks", s) /\ th[t].stack = 0
    BY <1>2 DEF Names!Born, Lives
  <2> QED  BY <1>0, <2>1, Noted
<1>3. ASSUME Names!Dies(t)
      PROVE  /\ seen' \in Seen
             /\ seen.holders \subseteq seen'.holders /\ seen.shims \subseteq seen'.shims
             /\ seen.stacks \subseteq seen'.stacks
             /\ probe.at # "idle" => th[t].stack \in seen'.stacks
  <2>1. Names!Notes("stacks", th[t].stack) /\ th[t].stack \in Stacks \cup {0}
    BY <1>3 DEF Names!Dies, NameTypes, Life
  <2> QED  BY <1>0, <2>1, Noted
<1>4. (UNCHANGED seen /\ Stays(t)) \/ (\E s \in Stacks : Names!Born(t, s)) \/ Names!Dies(t)
  <2>1. Names!RegisterStack(t) \/ Names!Registered(t) \/ Names!UnregisterStack(t)
        \/ (\E f \in th[t].todo : Names!Store(t, f)) => UNCHANGED seen
    BY DEF Names!RegisterStack, Names!Registered, Names!UnregisterStack, Names!Store
  <2>2. Names!RegisterStack(t) \/ Names!Registered(t) \/ Names!UnregisterStack(t)
        \/ (\E f \in th[t].todo : Names!Store(t, f)) => Stays(t)
    BY LifeMoves
  <2> QED  BY <2>1, <2>2 DEF Living
<1> QED  BY <1>0, <1>1, <1>2, <1>3, <1>4

(* What it must remember of the lock: whoever took it, or was in a shim,   *)
(* meanwhile.                                                              *)
LEMMA KeepingSeen ==
  ASSUME NameTypes, ProbeTypes, NEW t \in Takers, Keeping(t)
  PROVE  /\ seen' \in Seen /\ seen'.stacks = seen.stacks
         /\ seen.holders \subseteq seen'.holders /\ seen.shims \subseteq seen'.shims
         /\ \A d \in Depths : Names!Take(t, d) => (probe.at # "idle" => t \in seen'.holders)
         /\ Names!NoteShimVa(t) => (probe.at # "idle" => t \in seen'.shims)
<1>0. seen \in Seen
  BY DEF ProbeTypes
<1>1. CASE UNCHANGED seen /\ ~Names!NoteShimVa(t) /\ \A d \in Depths : ~Names!Take(t, d)
  BY <1>0, <1>1
<1>2. ASSUME NEW d \in Depths, Names!Take(t, d)
      PROVE  /\ seen' \in Seen /\ seen'.stacks = seen.stacks
             /\ seen.holders \subseteq seen'.holders /\ seen.shims \subseteq seen'.shims
             /\ probe.at # "idle" => t \in seen'.holders
             /\ ~Names!NoteShimVa(t)
  <2>1. Names!Notes("holders", t) /\ th[t].at \in {"out", "away"}
    BY <1>2 DEF Names!Take
  <2>2. ~Names!NoteShimVa(t)
    BY <2>1 DEF Names!NoteShimVa, Names!Goes
  <2> QED  BY <1>0, <2>1, <2>2, Noted
<1>3. ASSUME Names!NoteShimVa(t)
      PROVE  /\ seen' \in Seen /\ seen'.stacks = seen.stacks
             /\ seen.holders \subseteq seen'.holders /\ seen.shims \subseteq seen'.shims
             /\ probe.at # "idle" => t \in seen'.shims
             /\ \A d \in Depths : ~Names!Take(t, d)
  <2>1. Names!Notes("shims", t) /\ th[t].at = "in"
    BY <1>3 DEF Names!NoteShimVa, Names!Goes
  <2>2. \A d \in Depths : ~Names!Take(t, d)
    BY <2>1 DEF Names!Take
  <2> QED  BY <1>0, <2>1, <2>2, Noted
<1>4. UNCHANGED seen \/ Names!NoteShimVa(t) \/ \E d \in Depths : Names!Take(t, d)
  BY DEF Keeping, Names!Marks, Names!Holds, Names!Drop, Names!NoteShimEnter, Names!NoteShimExit
<1> QED  BY <1>1, <1>2, <1>3, <1>4

(* The reader's facts are kept by what the others do.                      *)
ReaderInv == ProbeTypes /\ SeenAll /\ MarkTrue /\ SoTrue /\ ScanTrue /\ HitsTrue /\ AgeTrue

(* What a probe has read stays true of the moment it was read, whoever is  *)
(* born or dies.                                                           *)
LEMMA ReaderLiving ==
  ASSUME NameTypes, Lives, ReaderInv, NEW t \in Takers, Living(t)
  PROVE  ReaderInv'
<1>1. UNCHANGED <<gilMu, gilOwned, pubHeld, mark, acq, shimOwner, shimVa, probe, lastSaid>>
  BY LivingQuiet
<1>2. /\ ~th'[t].shim /\ th'[t].at # "shim"
      /\ \A u \in Takers : u # t => th'[u] = th[u]
  BY LivingQuiet DEF Locking
<1>3. /\ seen' \in Seen
      /\ seen.holders \subseteq seen'.holders /\ seen.shims \subseteq seen'.shims
      /\ seen.stacks \subseteq seen'.stacks
      /\ \A u \in Takers : probe.at # "idle" /\ th'[u].stack # th[u].stack =>
           seen'.stacks # {} /\ (th[u].stack = 0 \/ th[u].stack \in seen'.stacks)
  BY LivingSeen DEF ReaderInv
<1>4. ProbeTypes'
  BY <1>1, <1>3 DEF ReaderInv, ProbeTypes
<1>5. SeenAll'
  BY <1>1, <1>2, <1>3 DEF ReaderInv, SeenAll
<1>6. ASSUME NEW m, Set(m), probe.at # "idle"
      PROVE  Set(m)'
  BY <1>3, <1>6 DEF Set
<1>7. MarkTrue'
  BY <1>1, <1>6 DEF ReaderInv, MarkTrue, Set
<1>8. SoTrue'
  <2>1. Names!Same(probe)' <=> Names!Same(probe)
    BY <1>1 DEF Names!Same, Names!Name
  <2> QED  BY <1>1, <1>3, <2>1 DEF ReaderInv, SoTrue
<1>9. ScanTrue'
  <2>1. probe \in Probe
    BY DEF ReaderInv, ProbeTypes
  <2>2. reserved \in Nat /\ reserved' \in Nat /\ reserved <= reserved'
    <3>1. reserved' = reserved \/ reserved' = reserved + 1
      BY DEF Living, Names!Born, Names!RegisterStack, Names!Registered, Names!UnregisterStack,
             Names!Dies, Names!Store
    <3> QED  BY <3>1 DEF NameTypes
  <2>3. \A u \in Takers : th'[u].slot # 0
        /\ th'[u].slot # th[u].slot => th'[u].slot = reserved + 1
    BY <1>2, LifeMoves DEF Living, Becomes
  <2>4. probe.at \in {"lo", "hi"} => probe.i >= 1 /\ probe.i <= reserved
    BY <2>1, <2>2, ThreadsAssumption DEF ReaderInv, ScanTrue, Probe, Names!NamesAssumption
  <2>5. probe.at = "lo" => \A u \in Takers : th'[u].slot = probe.i => u = probe.tag
    BY <2>1, <2>2, <2>3, <2>4 DEF ReaderInv, ScanTrue, Probe
  <2>6. probe.at \in {"lo", "hi"} => probe.tag \in Takers
    BY <2>1 DEF ReaderInv, ScanTrue, Probe
  <2>7. probe.at = "hi" => probe.lo # 0
        /\ (probe.lo \notin seen'.stacks => th'[probe.tag].stack = probe.lo)
    BY <1>3, <2>6 DEF ReaderInv, ScanTrue
  <2>8. probe.at \in {"tag", "lo", "hi"} => probe.n <= IdSlots /\ probe.n <= reserved'
        /\ probe.i >= 1
    BY <2>1, <2>2, ThreadsAssumption DEF ReaderInv, ScanTrue, Probe, Names!NamesAssumption
  <2> QED  BY <1>1, <2>5, <2>7, <2>8 DEF ReaderInv, ScanTrue
<1>10. HitsTrue'
  <2>1. probe \in Probe
    BY DEF ReaderInv, ProbeTypes
  <2>2. ASSUME NEW m, NEW by \in SUBSET (Nat \X Takers), Hits(m, by), probe.at # "idle"
        PROVE  Hits(m, by)'
    BY <1>3, <2>2 DEF Hits
  <2>3. probe.om_by \in SUBSET (Nat \X Takers) /\ probe.so_by \in SUBSET (Nat \X Takers)
    BY <2>1 DEF Probe
  <2> QED  BY <1>1, <2>2, <2>3 DEF ReaderInv, HitsTrue, Hits
<1>11. AgeTrue'
  BY <1>1 DEF ReaderInv, AgeTrue
<1> QED  BY <1>4, <1>5, <1>7, <1>8, <1>9, <1>10, <1>11 DEF ReaderInv

(* And whoever takes or leaves the lock.                                   *)
LEMMA ReaderKeeping ==
  ASSUME NameTypes, Lives, ReaderInv, NEW t \in Takers, Keeping(t)
  PROVE  ReaderInv'
<1>1. UNCHANGED <<reserved, probe, lastSaid>>
  BY KeepingQuiet
<1>2. \A u \in Takers : th'[u].stack = th[u].stack /\ th'[u].slot = th[u].slot
      /\ (u # t => th'[u] = th[u])
  BY KeepingQuiet
<1>3. /\ seen' \in Seen /\ seen'.stacks = seen.stacks
      /\ seen.holders \subseteq seen'.holders /\ seen.shims \subseteq seen'.shims
      /\ \A d \in Depths : Names!Take(t, d) => (probe.at # "idle" => t \in seen'.holders)
      /\ Names!NoteShimVa(t) => (probe.at # "idle" => t \in seen'.shims)
  BY KeepingSeen DEF ReaderInv
<1>4. ProbeTypes'
  <2>1. pubHeld' \in BOOLEAN /\ shimVa' \in Takers \cup {Names!Nobody}
    BY DEF Keeping, Names!Take, Names!Marks, Names!Holds, Names!Drop, Names!NoteShimVa,
           Names!NoteShimEnter, Names!NoteShimExit, Names!Goes, Names!shim, Names!pub, ReaderInv,
           ProbeTypes
  <2>2. acq' = acq \/ acq' = acq + 1
    BY DEF Keeping, Names!Take, Names!Marks, Names!Holds, Names!Drop, Names!NoteShimVa,
           Names!NoteShimEnter, Names!NoteShimExit, Names!Goes, Names!pub
  <2> QED  BY <1>1, <1>3, <2>1, <2>2 DEF ReaderInv, ProbeTypes
<1>5. SeenAll'
  <2>1. gilMu' = gilMu \/ gilMu' = Names!Nobody
        \/ (gilMu' = t /\ \E d \in Depths : Names!Take(t, d))
    BY DEF Keeping, Names!Take, Names!Marks, Names!Holds, Names!Drop, Names!NoteShimVa,
           Names!NoteShimEnter, Names!NoteShimExit, Names!Goes, Names!lock
  <2>2. th'[t].shim \/ th'[t].at = "shim" => th[t].shim \/ th[t].at = "shim"
        \/ Names!NoteShimVa(t)
    <3>1. Names!NoteShimEnter(t) => th[t].at = "shim"
      BY DEF Names!NoteShimEnter
    <3> QED  BY <3>1, LockMoves DEF Keeping, Becomes
  <2> QED  BY <1>1, <1>2, <1>3, <2>1, <2>2 DEF ReaderInv, SeenAll
<1>6. ASSUME NEW m, Set(m)
      PROVE  Set(m)'
  BY <1>2, <1>3, <1>6 DEF Set
<1>7. MarkTrue'
  <2>1. CASE UNCHANGED mark
    BY <1>1, <1>6, <2>1 DEF ReaderInv, MarkTrue, Set
  <2>2. CASE Names!Marks(t)
    <3>1. th[t].at = "marks" /\ mark'.stack = th[t].stack
      BY <2>2 DEF Names!Marks, Names!Goes
    <3>2. gilMu = t /\ th[t].stack # 0
      BY <3>1 DEF Lives, Locking
    <3>3. t # Names!Nobody
      BY ThreadsAssumption DEF Names!NamesAssumption
    <3>4. probe.at # "idle" => Set(mark)'
      BY <1>2, <1>3, <3>1, <3>2, <3>3 DEF ReaderInv, SeenAll, Set
    <3> QED  BY <1>1, <1>6, <3>4 DEF ReaderInv, MarkTrue, Set
  <2> QED  BY <2>1, <2>2
           DEF Keeping, Names!Take, Names!Holds, Names!Drop, Names!NoteShimVa,
               Names!NoteShimEnter, Names!NoteShimExit, Names!pub
<1>8. SoTrue'
  <2>1. Names!Same(probe)' <=> Names!Same(probe)
    BY <1>1 DEF Names!Same, Names!Name
  <2>2. CASE UNCHANGED shimVa
    BY <1>1, <1>2, <1>3, <2>1, <2>2 DEF ReaderInv, SoTrue
  <2>3. CASE Names!NoteShimVa(t)
    <3>1. shimVa' = t /\ th[t].at = "in"
      BY <2>3 DEF Names!NoteShimVa, Names!Goes
    <3>2. gilMu = t /\ t # Names!Nobody
      BY <3>1, ThreadsAssumption DEF Lives, Locking, Names!NamesAssumption
    <3>3. probe.at # "idle" => shimVa' \in seen'.shims /\ shimVa' \in seen'.holders
      BY <1>3, <2>3, <3>1, <3>2 DEF ReaderInv, SeenAll
    <3> QED  BY <1>1, <1>2, <1>3, <2>1, <3>3 DEF ReaderInv, SoTrue
  <2> QED  BY <2>2, <2>3
           DEF Keeping, Names!Take, Names!Marks, Names!Holds, Names!Drop, Names!NoteShimEnter,
               Names!NoteShimExit, Names!shim
<1>9. ScanTrue'
  <2>1. probe.at \in {"lo", "hi"} => probe.tag \in Takers
    BY DEF ReaderInv, ScanTrue, Probe, ProbeTypes
  <2> QED  BY <1>1, <1>2, <1>3, <2>1 DEF ReaderInv, ScanTrue
<1>10. HitsTrue'
  <2>1. probe.om_by \in SUBSET (Nat \X Takers) /\ probe.so_by \in SUBSET (Nat \X Takers)
    BY DEF ReaderInv, ProbeTypes, Probe
  <2> QED  BY <1>1, <1>2, <1>3, <2>1 DEF ReaderInv, HitsTrue, Hits
<1>11. AgeTrue'
  BY <1>1 DEF ReaderInv, AgeTrue
<1> QED  BY <1>4, <1>5, <1>7, <1>8, <1>9, <1>10, <1>11 DEF ReaderInv

(* The reader's own steps.                                                 *)
OthersStay == UNCHANGED <<gilMu, gilOwned, pubHeld, mark, acq, shimOwner, shimVa, stackTable, reserved, th>>

(* A probe changes nothing but the report.                                 *)
LEMMA ProbingQuiet == Probing => OthersStay
BY DEF OthersStay, Probing, Names!ProbeHeld, Names!ProbeMark, Names!ProbeShim, Names!ProbeAcq,
       Names!ScanTag, Names!ScanLo, Names!ScanHi, Names!Attribute, Names!ProbeVa, Names!GilField,
       Names!Loads, Names!lock, Names!pub, Names!shim

(* A probe starts with what is so now: the holder, those in shims.         *)
LEMMA ReaderBegins ==
  ASSUME NameTypes, Lives, HeldByOne, ReaderInv, Names!ProbeHeld
  PROVE  ReaderInv'
<1>0. OthersStay
  BY ProbingQuiet DEF Probing
<1>1. probe' = [Names!Silent EXCEPT !.at = "om", !.held = pubHeld] /\ UNCHANGED lastSaid
  BY DEF Names!ProbeHeld, Names!Loads
<1>2. seen' = [holders |-> {gilMu} \ {Names!Nobody}, shims |-> {t \in Takers : th[t].shim \/ th[t].at = "shim"}, stacks |-> {}]
  BY DEF Names!ProbeHeld
<1>3. probe' \in Probe /\ probe'.at = "om" /\ probe'.held = pubHeld /\ probe'.om_by = {}
      /\ probe'.so_by = {}
      /\ ~probe'.inShim
  <2>1. /\ Names!Silent \in Probe /\ Names!Silent.om_by = {} /\ Names!Silent.so_by = {}
        /\ ~Names!Silent.inShim
        /\ pubHeld \in BOOLEAN
    BY DEF Names!Silent, Probe, Stages, ReaderInv, ProbeTypes, Names!NoMark, Mark
  <2>2. PICK p : p = [Names!Silent EXCEPT !.at = "om", !.held = pubHeld] /\ probe' = p
    BY <1>1
  <2> HIDE DEF Names!Silent
  <2> QED  BY <2>1, <2>2 DEF Probe, Stages
<1>4. seen' \in Seen
  <2> DEFINE locked == {gilMu} \ {Names!Nobody}
             inside == {t \in Takers : th[t].shim \/ th[t].at = "shim"}
  <2>1. locked \in SUBSET Takers /\ inside \in SUBSET Takers
    BY DEF NameTypes
  <2>2. seen' = [holders |-> locked, shims |-> inside, stacks |-> {}]
    BY <1>2
  <2> HIDE DEF locked, inside
  <2> QED  BY <2>1, <2>2 DEF Seen
<1>5. MarkTrue'
  <2>1. CASE ~pubHeld
    BY <1>3, <2>1 DEF MarkTrue
  <2>2. CASE pubHeld
    <3>1. gilMu \in Takers /\ th[gilMu].at \in {"in", "shim"}
      BY <2>2 DEF HeldByOne, NameTypes
    <3>2. mark.stack = th[gilMu].stack /\ th[gilMu].stack # 0
      BY <3>1 DEF Lives
    <3>3. gilMu \in seen'.holders
      BY <1>2, <3>1, ThreadsAssumption DEF Names!NamesAssumption
    <3>4. Set(mark)'
      BY <1>0, <3>1, <3>2, <3>3 DEF Set, OthersStay
    <3> QED  BY <1>3, <3>4 DEF MarkTrue
  <2> QED  BY <2>1, <2>2
<1>6. SeenAll'
  BY <1>0, <1>2, <1>3 DEF SeenAll, OthersStay
<1>7. SoTrue' /\ ScanTrue' /\ HitsTrue'
  BY <1>3 DEF SoTrue, ScanTrue, HitsTrue, Hits
<1> QED  BY <1>0, <1>1, <1>3, <1>4, <1>5, <1>6, <1>7
         DEF ReaderInv, ProbeTypes, AgeTrue, OthersStay

(* The mark it reads was the holder's when it was set, if there was one.   *)
LEMMA ReaderMark ==
  ASSUME NameTypes, ReaderInv, Names!ProbeMark
  PROVE  ReaderInv'
<1>0. OthersStay
  BY ProbingQuiet DEF Probing
<1>1. probe' = [probe EXCEPT !.at = "so", !.om = mark] /\ probe.at = "om"
      /\ UNCHANGED <<lastSaid, seen>>
  BY DEF Names!ProbeMark, Names!Loads
<1>2. /\ probe' \in Probe /\ probe'.at = "so" /\ probe'.om = mark
      /\ probe'.held = probe.held /\ probe'.om_by = probe.om_by /\ probe'.so_by = probe.so_by
      /\ probe'.inShim = probe.inShim
  BY <1>1 DEF Probe, Stages, ReaderInv, ProbeTypes, NameTypes
<1>3. probe.om_by = {} /\ probe.so_by = {} /\ ~probe.inShim
  BY <1>1 DEF ReaderInv, HitsTrue, SoTrue
<1>4. MarkTrue'
  BY <1>0, <1>1, <1>2 DEF ReaderInv, MarkTrue, Set, OthersStay
<1>5. SoTrue' /\ ScanTrue' /\ HitsTrue' /\ AgeTrue'
  BY <1>1, <1>2, <1>3 DEF SoTrue, ScanTrue, HitsTrue, Hits, AgeTrue, ReaderInv
<1>6. SeenAll' /\ ProbeTypes'
  BY <1>0, <1>1, <1>2 DEF SeenAll, ProbeTypes, OthersStay, ReaderInv
<1> QED  BY <1>4, <1>5, <1>6 DEF ReaderInv

(* The shim's owner it reads was in a shim during the probe.               *)
LEMMA ReaderShim ==
  ASSUME NameTypes, Lives, ShimTrue, ReaderInv, Names!ProbeShim
  PROVE  ReaderInv'
<1>0. OthersStay
  BY ProbingQuiet DEF Probing
<1>1. probe' = [probe EXCEPT !.at = "acq", !.so = shimOwner] /\ probe.at = "so"
      /\ UNCHANGED <<lastSaid, seen>>
  BY DEF Names!ProbeShim, Names!Loads
<1>2. /\ probe' \in Probe /\ probe'.at = "acq" /\ probe'.so = shimOwner /\ probe'.om = probe.om
      /\ probe'.held = probe.held /\ probe'.om_by = probe.om_by /\ probe'.so_by = probe.so_by
      /\ probe'.inShim = probe.inShim
  BY <1>1 DEF Probe, Stages, ReaderInv, ProbeTypes, NameTypes
<1>3. probe.om_by = {} /\ probe.so_by = {} /\ ~probe.inShim
  BY <1>1 DEF ReaderInv, HitsTrue, SoTrue
<1>4. ASSUME shimOwner # Names!NoMark
      PROVE  \E t \in Takers : /\ th[t].stack = shimOwner.stack
                               /\ shimVa \in seen.shims /\ (shimVa = t \/ shimVa \in seen.holders)
  <2>1. PICK t \in Takers : /\ th[t].shim /\ th[t].stack = shimOwner.stack
                            /\ shimVa = t \/ \E u \in Takers : shimVa = u /\ th[u].at = "shim"
    BY <1>4 DEF ShimTrue
  <2>2. CASE shimVa = t
    BY <1>1, <2>1, <2>2 DEF ReaderInv, SeenAll
  <2>3. ASSUME NEW u \in Takers, shimVa = u, th[u].at = "shim"
        PROVE  shimVa \in seen.shims /\ shimVa \in seen.holders
    <3>1. gilMu = u /\ u # Names!Nobody
      BY <2>3, ThreadsAssumption DEF Lives, Locking, Names!NamesAssumption
    <3> QED  BY <1>1, <2>3, <3>1 DEF ReaderInv, SeenAll
  <2> QED  BY <2>1, <2>2, <2>3
<1>5. SoTrue'
  BY <1>0, <1>1, <1>2, <1>3, <1>4 DEF SoTrue, OthersStay
<1>6. MarkTrue' /\ ScanTrue' /\ HitsTrue' /\ AgeTrue'
  BY <1>0, <1>1, <1>2, <1>3
  DEF MarkTrue, Set, ScanTrue, HitsTrue, Hits, AgeTrue, ReaderInv, OthersStay
<1>7. SeenAll' /\ ProbeTypes'
  BY <1>0, <1>1, <1>2 DEF SeenAll, ProbeTypes, OthersStay, ReaderInv
<1> QED  BY <1>5, <1>6, <1>7 DEF ReaderInv

(* The steps between keep the marks and their hits; a hit is added by one. *)
Between == {"acq", "tag", "lo", "hi", "va"}
(* From one field to the next, as long as what was found names its own     *)
(* thread.                                                                 *)
LEMMA ReaderGoesOn ==
  ASSUME NameTypes, ReaderInv, NEW p \in Probe, probe' = p, OthersStay, UNCHANGED <<lastSaid, seen>>,
         probe.at \in Between, p.at \in {"tag", "lo", "hi", "field"},
         p.held = probe.held, p.om = probe.om, p.so = probe.so,
         ~probe.inShim /\ ~p.inShim,
         Hits(p.om, p.om_by), Hits(p.so, p.so_by),
         p.at # "field" => p.n <= IdSlots /\ p.n <= reserved /\ p.i >= 1,
         p.at \in {"lo", "hi"} => p.i <= p.n /\ p.tag # Names!Nobody,
         p.at = "lo" => \A t \in Takers : th[t].slot = p.i => t = p.tag,
         p.at = "hi" => p.lo # 0 /\ (p.lo \notin seen.stacks => th[p.tag].stack = p.lo)
  PROVE  ReaderInv'
<1>1. MarkTrue' /\ HitsTrue' /\ AgeTrue'
  BY DEF MarkTrue, Set, HitsTrue, Hits, AgeTrue, ReaderInv, OthersStay, Between
<1>2. ScanTrue'
  BY DEF ScanTrue, OthersStay
<1>3. SoTrue'
  BY DEF SoTrue, OthersStay, ReaderInv, Between
<1>4. SeenAll' /\ ProbeTypes'
  BY DEF SeenAll, ProbeTypes, OthersStay, ReaderInv, Between
<1> QED  BY <1>1, <1>2, <1>3, <1>4 DEF ReaderInv

(* Reading the count of acquisitions.                                      *)
LEMMA ReaderAcq ==
  ASSUME NameTypes, ReaderInv, Names!ProbeAcq
  PROVE  ReaderInv'
<1>0. OthersStay
  BY ProbingQuiet DEF Probing
<1> DEFINE n == IF reserved > IdSlots THEN IdSlots ELSE reserved
<1>1. PICK p : /\ p = [probe EXCEPT !.at = "tag", !.acq = acq, !.n = n, !.i = 1] /\ probe' = p
               /\ probe.at = "acq" /\ UNCHANGED <<lastSaid, seen>>
  BY DEF Names!ProbeAcq, Names!Loads
<1>2. n \in Nat /\ n <= IdSlots /\ n <= reserved
  BY ThreadsAssumption DEF Names!NamesAssumption, NameTypes
<1> HIDE DEF n
<1>3. /\ p \in Probe /\ p.at = "tag" /\ p.so = probe.so /\ p.om = probe.om
      /\ p.held = probe.held /\ p.om_by = probe.om_by /\ p.so_by = probe.so_by
      /\ p.inShim = probe.inShim /\ p.n = n /\ p.i = 1
  BY <1>1, <1>2 DEF Probe, Stages, ReaderInv, ProbeTypes
<1>4. ~probe.inShim /\ Hits(probe.om, probe.om_by) /\ Hits(probe.so, probe.so_by)
  BY <1>1 DEF ReaderInv, SoTrue, HitsTrue
<1>5. p.n <= IdSlots /\ p.n <= reserved /\ p.i >= 1
  BY <1>2, <1>3
<1>6. Hits(p.om, p.om_by) /\ Hits(p.so, p.so_by)
  BY <1>3, <1>4
<1> QED  BY <1>0, <1>1, <1>3, <1>4, <1>5, <1>6, ReaderGoesOn DEF Between

(* What going on to the next slot leaves of the probe.                     *)
LEMMA Nexts ==
  ASSUME ProbeTypes
  PROVE  /\ Names!NextSlot \in Probe /\ Names!NextSlot.at = "tag" /\ Names!NextSlot.so = probe.so
         /\ Names!NextSlot.om = probe.om
         /\ Names!NextSlot.held = probe.held /\ Names!NextSlot.om_by = probe.om_by
         /\ Names!NextSlot.so_by = probe.so_by
         /\ Names!NextSlot.inShim = probe.inShim /\ Names!NextSlot.n = probe.n
         /\ Names!NextSlot.i = probe.i + 1
<1> DEFINE j == probe.i + 1
<1>1. probe \in Probe /\ j \in Nat
  BY DEF ProbeTypes, Probe
<1>2. PICK p : p = [probe EXCEPT !.at = "tag", !.i = j, !.tag = Names!Nobody, !.lo = 0]
               /\ p = Names!NextSlot
  BY DEF Names!NextSlot
<1> HIDE DEF j
<1>3. /\ p \in Probe /\ p.at = "tag" /\ p.so = probe.so /\ p.om = probe.om
      /\ p.held = probe.held /\ p.om_by = probe.om_by /\ p.so_by = probe.so_by
      /\ p.inShim = probe.inShim /\ p.n = probe.n /\ p.i = j
  BY <1>1, <1>2 DEF Probe, Stages
<1> QED  BY <1>2, <1>3 DEF j

(* A slot with a tag is that thread's, now and later.                      *)
LEMMA ReaderTag ==
  ASSUME NameTypes, Lives, SlotsTrue, ReaderInv, Names!ScanTag
  PROVE  ReaderInv'
<1>0. OthersStay
  BY ProbingQuiet DEF Probing
<1>1. probe.at = "tag" /\ probe.i <= probe.n /\ UNCHANGED <<lastSaid, seen>>
  BY DEF Names!ScanTag, Names!Loads
<1>2. ~probe.inShim /\ Hits(probe.om, probe.om_by) /\ Hits(probe.so, probe.so_by)
      /\ probe.n <= IdSlots /\ probe.n <= reserved /\ probe.i >= 1
  BY <1>1 DEF ReaderInv, SoTrue, HitsTrue, ScanTrue
<1>3. probe \in Probe /\ probe.i \in 1..IdSlots
  BY <1>1, <1>2, ThreadsAssumption DEF ReaderInv, ProbeTypes, Probe, Names!NamesAssumption
<1>4. CASE stackTable[probe.i].tag = Names!Nobody
  <2>1. probe' = Names!NextSlot
    BY <1>4 DEF Names!ScanTag, Names!Loads
  <2>2. probe.i + 1 >= 1
    BY <1>2, <1>3
  <2> QED  BY <1>0, <1>1, <1>2, <2>1, <2>2, Nexts, ReaderGoesOn DEF Between, ReaderInv
<1>5. CASE stackTable[probe.i].tag # Names!Nobody
  <2>1. PICK p : p = [probe EXCEPT !.at = "lo", !.tag = stackTable[probe.i].tag] /\ probe' = p
    BY <1>5 DEF Names!ScanTag, Names!Loads
  <2>2. stackTable[probe.i].tag \in Takers \cup {Names!Nobody}
    BY <1>3 DEF NameTypes, Slot
  <2>3. /\ p \in Probe /\ p.at = "lo" /\ p.so = probe.so /\ p.om = probe.om
        /\ p.held = probe.held /\ p.om_by = probe.om_by /\ p.so_by = probe.so_by
        /\ p.inShim = probe.inShim /\ p.n = probe.n /\ p.i = probe.i
        /\ p.tag = stackTable[probe.i].tag
    BY <1>3, <2>1, <2>2 DEF Probe, Stages
  <2>4. \A t \in Takers : th[t].slot = probe.i => t = stackTable[probe.i].tag
    <3>1. SUFFICES ASSUME NEW t \in Takers, th[t].slot = probe.i
                   PROVE  t = stackTable[probe.i].tag
      OBVIOUS
    <3>2. th[t].slot # 0
      BY <1>3, <3>1
    <3> QED  BY <1>5, <3>1, <3>2 DEF SlotsTrue
  <2> QED  BY <1>0, <1>1, <1>2, <1>5, <2>1, <2>3, <2>4, ReaderGoesOn DEF Between
<1> QED  BY <1>4, <1>5

(* A low end that is not zero is the stack of the slot's thread, unless it *)
(* died meanwhile.                                                         *)
LEMMA ReaderLo ==
  ASSUME NameTypes, Lives, SlotsTrue, ReaderInv, Names!ScanLo
  PROVE  ReaderInv'
<1>0. OthersStay
  BY ProbingQuiet DEF Probing
<1>1. probe.at = "lo" /\ UNCHANGED <<lastSaid, seen>>
  BY DEF Names!ScanLo, Names!Loads
<1>2. ~probe.inShim /\ Hits(probe.om, probe.om_by) /\ Hits(probe.so, probe.so_by)
      /\ probe.n <= IdSlots /\ probe.n <= reserved /\ probe.i >= 1 /\ probe.i <= probe.n
      /\ probe.tag # Names!Nobody
      /\ \A t \in Takers : th[t].slot = probe.i => t = probe.tag
  BY <1>1 DEF ReaderInv, SoTrue, HitsTrue, ScanTrue
<1>3. probe \in Probe /\ probe.i \in 1..IdSlots
  BY <1>1, <1>2, ThreadsAssumption DEF ReaderInv, ProbeTypes, Probe, Names!NamesAssumption
<1>4. CASE stackTable[probe.i].lo = 0
  <2>1. probe' = Names!NextSlot
    BY <1>4 DEF Names!ScanLo, Names!Loads
  <2>2. probe.i + 1 >= 1
    BY <1>2, <1>3
  <2> QED  BY <1>0, <1>1, <1>2, <2>1, <2>2, Nexts, ReaderGoesOn DEF Between, ReaderInv
<1>5. CASE stackTable[probe.i].lo # 0
  <2>1. PICK p : p = [probe EXCEPT !.at = "hi", !.lo = stackTable[probe.i].lo] /\ probe' = p
    BY <1>5 DEF Names!ScanLo, Names!Loads
  <2>2. stackTable[probe.i].lo \in Stacks \cup {0}
    BY <1>3 DEF NameTypes, Slot
  <2>3. /\ p \in Probe /\ p.at = "hi" /\ p.so = probe.so /\ p.om = probe.om
        /\ p.held = probe.held /\ p.om_by = probe.om_by /\ p.so_by = probe.so_by
        /\ p.inShim = probe.inShim /\ p.n = probe.n /\ p.i = probe.i /\ p.tag = probe.tag
        /\ p.lo = stackTable[probe.i].lo
    BY <1>3, <2>1, <2>2 DEF Probe, Stages
  <2>4. th[probe.tag].stack = stackTable[probe.i].lo
    <3>1. PICK t \in Takers : th[t].slot = probe.i
      BY <1>3, <1>5 DEF SlotsTrue
    <3>2. t = probe.tag /\ th[t].slot # 0
      BY <1>2, <1>3, <3>1
    <3> QED  BY <1>5, <3>1, <3>2 DEF SlotsTrue
  <2> QED  BY <1>0, <1>1, <1>2, <1>5, <2>1, <2>3, <2>4, ReaderGoesOn DEF Between
<1> QED  BY <1>4, <1>5

(* So a hit names a thread that had that stack during the probe.           *)
LEMMA ReaderHi ==
  ASSUME NameTypes, Lives, SlotsTrue, ReaderInv, Names!ScanHi
  PROVE  ReaderInv'
<1>0. OthersStay
  BY ProbingQuiet DEF Probing
<1> DEFINE hit(m) == IF Names!Within(m, probe.lo, stackTable[probe.i].hi) THEN {<<probe.i, probe.tag>>} ELSE {}
           om == probe.om_by \cup hit(probe.om)
           so == probe.so_by \cup hit(probe.so)
<1>1. /\ probe.at = "hi" /\ UNCHANGED <<lastSaid, seen>>
      /\ probe' = [Names!NextSlot EXCEPT !.om_by = @ \cup hit(probe.om), !.so_by = @ \cup hit(probe.so)]
  BY DEF Names!ScanHi, Names!Loads
<1>2. ~probe.inShim /\ Hits(probe.om, probe.om_by) /\ Hits(probe.so, probe.so_by)
      /\ probe.n <= IdSlots /\ probe.n <= reserved /\ probe.i >= 1 /\ probe.i <= probe.n
      /\ probe.tag # Names!Nobody
      /\ probe.lo # 0 /\ (probe.lo \notin seen.stacks => th[probe.tag].stack = probe.lo)
  BY <1>1 DEF ReaderInv, SoTrue, HitsTrue, ScanTrue
<1>3. probe \in Probe /\ probe.i \in Nat /\ probe.tag \in Takers
      /\ probe.om_by \in SUBSET (Nat \X Takers) /\ probe.so_by \in SUBSET (Nat \X Takers)
  BY <1>2 DEF ReaderInv, ProbeTypes, Probe
<1>4. ASSUME NEW m
      PROVE  hit(m) \in SUBSET (Nat \X Takers) /\ Hits(m, hit(m))
  BY <1>2, <1>3 DEF Hits, Names!Within
<1>5. om \in SUBSET (Nat \X Takers) /\ so \in SUBSET (Nat \X Takers)
  BY <1>3, <1>4
<1>6. Hits(probe.om, om) /\ Hits(probe.so, so)
  BY <1>2, <1>4 DEF Hits
<1>7. PICK p : p = [Names!NextSlot EXCEPT !.om_by = om, !.so_by = so] /\ probe' = p
  <2>1. Names!NextSlot.om_by = probe.om_by /\ Names!NextSlot.so_by = probe.so_by
    BY Nexts DEF ReaderInv
  <2> QED  BY <1>1, <2>1
<1> HIDE DEF om, so
<1>8. /\ p \in Probe /\ p.at = "tag" /\ p.so = probe.so /\ p.om = probe.om
      /\ p.held = probe.held /\ p.om_by = om /\ p.so_by = so
      /\ p.inShim = probe.inShim /\ p.n = probe.n /\ p.i = probe.i + 1
  <2>1. ProbeTypes
    BY DEF ReaderInv
  <2> HIDE DEF Names!NextSlot
  <2> QED  BY <1>5, <1>7, <2>1, Nexts DEF Probe
<1>9. probe.i + 1 >= 1
  BY <1>2, <1>3
<1> QED  BY <1>0, <1>1, <1>2, <1>6, <1>7, <1>8, <1>9, ReaderGoesOn DEF Between

(* The answer is put together of the two scans' hits.                      *)
LEMMA ReaderAttributes ==
  ASSUME NameTypes, ReaderInv, Names!Attribute
  PROVE  ReaderInv'
<1>0. OthersStay
  BY ProbingQuiet DEF Probing
<1>1. probe.at = "tag" /\ UNCHANGED <<lastSaid, seen>> /\ probe \in Probe
  BY DEF Names!Attribute, Names!Loads, ReaderInv, ProbeTypes
<1>2. ~probe.inShim /\ Hits(probe.om, probe.om_by) /\ Hits(probe.so, probe.so_by)
  BY <1>1 DEF ReaderInv, SoTrue, HitsTrue
<1>3. CASE ~(probe.held /\ Names!Same(probe))
  <2>1. PICK p : p = [probe EXCEPT !.at = "field"] /\ probe' = p
    BY <1>3 DEF Names!Attribute, Names!Loads
  <2>2. /\ p \in Probe /\ p.at = "field" /\ p.so = probe.so /\ p.om = probe.om
        /\ p.held = probe.held /\ p.om_by = probe.om_by /\ p.so_by = probe.so_by
        /\ p.inShim = probe.inShim
    BY <1>1, <2>1 DEF Probe, Stages
  <2> QED  BY <1>0, <1>1, <1>2, <2>1, <2>2, ReaderGoesOn DEF Between
<1>4. CASE probe.held /\ Names!Same(probe)
  <2>1. PICK p : p = [probe EXCEPT !.at = "va", !.inShim = TRUE] /\ probe' = p
    BY <1>4 DEF Names!Attribute, Names!Loads
  <2>2. /\ p \in Probe /\ p.at = "va" /\ p.so = probe.so /\ p.om = probe.om
        /\ p.held = probe.held /\ p.om_by = probe.om_by /\ p.so_by = probe.so_by
        /\ p.inShim
    BY <1>1, <2>1 DEF Probe, Stages
  <2>3. Names!Same(probe)'
    BY <1>4, <2>1, <2>2 DEF Names!Same, Names!Name
  <2>4. SoTrue'
    BY <1>0, <1>1, <1>4, <2>1, <2>2, <2>3 DEF SoTrue, OthersStay, ReaderInv
  <2>5. MarkTrue' /\ ScanTrue' /\ HitsTrue' /\ AgeTrue'
    BY <1>0, <1>1, <1>2, <2>1, <2>2
    DEF MarkTrue, Set, ScanTrue, HitsTrue, Hits, AgeTrue, ReaderInv, OthersStay
  <2>6. SeenAll' /\ ProbeTypes'
    BY <1>0, <1>1, <2>1, <2>2 DEF SeenAll, ProbeTypes, OthersStay, ReaderInv
  <2> QED  BY <2>4, <2>5, <2>6 DEF ReaderInv
<1> QED  BY <1>3, <1>4

(* The address of the shim is read last.                                   *)
LEMMA ReaderVa ==
  ASSUME NameTypes, ReaderInv, Names!ProbeVa
  PROVE  ReaderInv'
<1>0. OthersStay
  BY ProbingQuiet DEF Probing
<1>1. probe.at = "va" /\ UNCHANGED <<lastSaid, seen>> /\ probe \in Probe
      /\ shimVa \in Takers \cup {Names!Nobody}
  BY DEF Names!ProbeVa, Names!Loads, ReaderInv, ProbeTypes
<1>2. PICK p : p = [probe EXCEPT !.at = "field", !.va = shimVa] /\ probe' = p
  BY DEF Names!ProbeVa, Names!Loads
<1>3. /\ p \in Probe /\ p.at = "field" /\ p.so = probe.so /\ p.om = probe.om /\ p.va = shimVa
      /\ p.held = probe.held /\ p.om_by = probe.om_by /\ p.so_by = probe.so_by
      /\ p.inShim = probe.inShim
  BY <1>1, <1>2 DEF Probe, Stages
<1>4. probe.inShim /\ Names!Same(probe) /\ probe.held
  BY <1>1 DEF ReaderInv, SoTrue
<1>5. Names!Same(probe)'
  BY <1>2, <1>3, <1>4 DEF Names!Same, Names!Name
<1>6. SoTrue'
  BY <1>0, <1>1, <1>2, <1>3, <1>4, <1>5 DEF SoTrue, OthersStay, ReaderInv
<1>7. MarkTrue' /\ ScanTrue' /\ HitsTrue' /\ AgeTrue'
  BY <1>0, <1>1, <1>2, <1>3
  DEF MarkTrue, Set, ScanTrue, HitsTrue, Hits, AgeTrue, ReaderInv, OthersStay
<1>8. SeenAll' /\ ProbeTypes'
  BY <1>0, <1>1, <1>2, <1>3 DEF SeenAll, ProbeTypes, OthersStay, ReaderInv
<1> QED  BY <1>6, <1>7, <1>8 DEF ReaderInv

(* And what is told was so during the probe.                               *)
LEMMA ReaderEnds ==
  ASSUME NameTypes, ReaderInv, Names!GilField
  PROVE  ReaderInv'
<1>0. OthersStay
  BY ProbingQuiet DEF Probing
<1>1. /\ probe' = Names!Silent /\ seen' = Names!Unseen
      /\ lastSaid' = [acq |-> probe.acq, held |-> probe.held, since |-> IF Names!Still THEN lastSaid.since ELSE probe.acq]
  BY DEF Names!GilField, Names!Loads
<1>2. Names!Silent \in Probe /\ Names!Silent.at = "idle" /\ ~Names!Silent.inShim
      /\ Names!Unseen \in Seen
  BY DEF Names!Silent, Probe, Stages, Names!NoMark, Mark, Names!Unseen, Seen
<1>3. AgeTrue'
  BY <1>1 DEF ReaderInv, AgeTrue, Names!Still
<1>4. MarkTrue' /\ ScanTrue' /\ HitsTrue' /\ SeenAll' /\ SoTrue'
  BY <1>1, <1>2 DEF MarkTrue, ScanTrue, HitsTrue, SeenAll, SoTrue
<1>5. ProbeTypes'
  BY <1>0, <1>1, <1>2 DEF ProbeTypes, OthersStay, ReaderInv
<1> QED  BY <1>3, <1>4, <1>5 DEF ReaderInv

(* At the start nothing is registered and nobody has the lock.             *)
LEMMA NamesStart == Names!Init => NamesInv
<1> SUFFICES ASSUME Names!Init
             PROVE  NamesInv
  OBVIOUS
<1> USE ThreadsAssumption DEF Names!NamesAssumption
<1>1. Names!NoMark \in Mark /\ Names!Unborn \in Life /\ Names!Empty \in Slot
  BY DEF Names!NoMark, Names!Unborn, Names!Empty, Mark, Life, Slot, Places
<1>2. NameTypes
  BY <1>1 DEF Names!Init, NameTypes
<1>3. \A t \in Takers : th[t] = Names!Unborn
  BY DEF Names!Init
<1>4. Names!Unborn.at = "none" /\ Names!Unborn.stack = 0 /\ Names!Unborn.slot = 0
      /\ ~Names!Unborn.shim
  BY DEF Names!Unborn
<1>5. Lives
  BY <1>3, <1>4 DEF Names!Init, Lives, Locking
<1>6. SlotsTrue
  BY <1>3, <1>4 DEF Names!Init, SlotsTrue, Names!Empty
<1>7. HeldByOne /\ ShimTrue /\ AgeTrue
  BY DEF Names!Init, HeldByOne, ShimTrue, AgeTrue
<1>8. Names!Silent \in Probe /\ Names!Silent.at = "idle" /\ ~Names!Silent.inShim
      /\ Names!Unseen \in Seen
  BY <1>1 DEF Names!Silent, Probe, Stages, Names!Unseen, Seen
<1>9. ProbeTypes /\ SeenAll /\ MarkTrue /\ SoTrue /\ ScanTrue /\ HitsTrue
  BY <1>8 DEF Names!Init, ProbeTypes, SeenAll, MarkTrue, SoTrue, ScanTrue, HitsTrue
<1> QED  BY <1>2, <1>5, <1>6, <1>7, <1>9 DEF NamesInv

(* Every step keeps the invariant of the names.                            *)
LEMMA NamesStep ==
  ASSUME NamesInv, [Names!Next]_(Names!vars)
  PROVE  NamesInv'
<1>0. NameTypes /\ Lives /\ HeldByOne /\ SlotsTrue /\ ShimTrue /\ ReaderInv
  BY DEF NamesInv, ReaderInv
<1>1. NameTypes'
  BY <1>0, TypesKept
<1>2. ASSUME NEW t \in Takers, Living(t)
      PROVE  NamesInv'
  BY <1>0, <1>1, <1>2, LivesLiving, HeldLiving, SlotsLiving, ShimLiving, ReaderLiving
  DEF NamesInv, ReaderInv
<1>3. ASSUME NEW t \in Takers, Keeping(t)
      PROVE  NamesInv'
  BY <1>0, <1>1, <1>3, LivesKeeping, SlotsKeeping, ShimKeeping, ReaderKeeping
  DEF NamesInv, ReaderInv
<1>4. CASE Probing
  <2>1. OthersStay
    BY <1>4, ProbingQuiet
  <2>2. Lives' /\ HeldByOne' /\ SlotsTrue' /\ ShimTrue'
    BY <1>0, <2>1 DEF OthersStay, Lives, HeldByOne, SlotsTrue, ShimTrue
  <2>3. ReaderInv'
    BY <1>0, <1>4, ReaderBegins, ReaderMark, ReaderShim, ReaderAcq, ReaderTag, ReaderLo, ReaderHi,
       ReaderAttributes, ReaderVa, ReaderEnds
    DEF Probing
  <2> QED  BY <1>1, <2>2, <2>3 DEF NamesInv, ReaderInv
<1>5. CASE UNCHANGED Names!vars
  BY <1>0, <1>1, <1>5
  DEF Names!vars, NamesInv, Lives, HeldByOne, SlotsTrue, ShimTrue, ReaderInv, ProbeTypes, SeenAll,
      MarkTrue, Set, SoTrue, Names!Same, Names!Name, ScanTrue, HitsTrue, Hits, AgeTrue
<1> QED  BY <1>2, <1>3, <1>4, <1>5, NameSteps

(* The two counts of a set are one.                                        *)
LEMMA NamesCount == \A S : Names!Cardinality(S) = Cardinality(S)
BY DEF Names!Cardinality, Cardinality

(* What is chosen of a set of one element is that element.                 *)
LEMMA OneOf ==
  ASSUME NEW hits, Names!Cardinality(hits) = 1
  PROVE  (CHOOSE h \in hits : TRUE) \in hits
<1>1. hits # {}
  BY FS_EmptySet, NamesCount
<1> QED  BY <1>1

(* The name given to a set of hits is that of one of them.                 *)
LEMMA NameIsHit ==
  ASSUME NEW hits, Names!Name(hits) # Names!Nobody
  PROVE  \E h \in hits : Names!Name(hits) = h[2]
<1>1. Names!Cardinality(hits) = 1
  BY DEF Names!Name
<1>2. hits # {}
  BY <1>1, FS_EmptySet, NamesCount
<1> QED  BY <1>1, <1>2 DEF Names!Name

(* The invariant gives the promise: names, shims and ages are those of     *)
(* threads that were there.                                                *)
LEMMA NamesPromise == NamesInv => Names!GilHonest
<1> SUFFICES ASSUME NamesInv
             PROVE  Names!GilHonest
  OBVIOUS
<1>0. /\ probe \in Probe /\ NameTypes
      /\ probe.om_by \in SUBSET (Nat \X Takers) /\ probe.so_by \in SUBSET (Nat \X Takers)
  BY DEF NamesInv, ProbeTypes, Probe
(* Two threads that have one stack are one.                                *)
<1>1. ASSUME NEW t \in Takers, NEW u \in Takers, th[t].stack = th[u].stack, th[t].stack # 0
      PROVE  t = u
  BY <1>1 DEF NamesInv, Lives
<1>2. ASSUME NEW m, NEW by \in SUBSET (Nat \X Takers), Hits(m, by), Names!Name(by) # Names!Nobody, m.stack \notin seen.stacks
      PROVE  Names!Name(by) \in Takers /\ th[Names!Name(by)].stack = m.stack
  <2>1. PICK h \in by : Names!Name(by) = h[2]
    BY <1>2, NameIsHit
  <2> QED  BY <1>2, <2>1 DEF Hits
<1>3. ASSUME probe.at = "field", probe.held, probe.om.stack \notin seen.stacks
      PROVE  /\ probe.om.stack # 0
             /\ \E h \in Takers : h \in seen.holders /\ th[h].stack = probe.om.stack
  BY <1>3 DEF NamesInv, MarkTrue, Set
<1>4. probe.at = "field" => Hits(probe.om, probe.om_by) /\ Hits(probe.so, probe.so_by)
  BY DEF NamesInv, HitsTrue
<1>5. Names!NameHonest
  <2> SUFFICES ASSUME probe.at = "field", probe.held, Names!Name(probe.om_by) # Names!Nobody, probe.om.stack \notin seen.stacks
               PROVE  Names!Name(probe.om_by) \in seen.holders
    BY DEF Names!NameHonest
  <2>1. PICK h \in Takers : h \in seen.holders /\ th[h].stack = probe.om.stack
    BY <1>3
  <2>2. Names!Name(probe.om_by) \in Takers /\ th[Names!Name(probe.om_by)].stack = probe.om.stack
    BY <1>0, <1>2, <1>4
  <2> QED  BY <1>1, <1>3, <2>1, <2>2
<1>6. Names!ShimHonest
  <2> SUFFICES ASSUME probe.at = "field", probe.inShim, seen.stacks = {}
               PROVE  probe.va \in seen.shims \cap seen.holders
    BY DEF Names!ShimHonest
  <2>1. probe.held /\ Names!Same(probe)
    BY DEF NamesInv, SoTrue
  <2>2. PICK h \in Takers : h \in seen.holders /\ th[h].stack = probe.om.stack
    BY <1>3, <2>1
  <2>3. PICK t \in Takers : /\ th[t].stack = probe.so.stack
                            /\ probe.va \in seen.shims
                            /\ (probe.va = t \/ probe.va \in seen.holders)
    BY <2>1 DEF NamesInv, SoTrue, Names!Same
  <2>4. probe.so.stack = probe.om.stack
    <3>1. CASE probe.so = probe.om
      BY <3>1
    <3>2. CASE Names!Name(probe.om_by) # Names!Nobody
               /\ Names!Name(probe.so_by) = Names!Name(probe.om_by)
      <4>1. th[Names!Name(probe.om_by)].stack = probe.om.stack
        BY <1>0, <1>2, <1>4, <3>2
      <4>2. th[Names!Name(probe.so_by)].stack = probe.so.stack
        BY <1>0, <1>2, <1>4, <3>2
      <4> QED  BY <3>2, <4>1, <4>2
    <3> QED  BY <2>1, <3>1, <3>2 DEF Names!Same
  <2>5. t = h
    BY <1>1, <1>3, <2>1, <2>2, <2>3, <2>4
  <2> QED  BY <2>2, <2>3, <2>5
<1>7. Names!AgeHonest
  BY DEF NamesInv, AgeTrue, Names!AgeHonest
<1>8. Names!AssertHeldQuiet
  <2> SUFFICES ASSUME NEW t \in Takers, th[t].at \in {"in", "shim"}
               PROVE  gilOwned /\ \A d \in Depths : d >= th[t].depth =>
                        LET me == Names!Names([stack |-> th[t].stack, depth |-> d])
                        IN  me # Names!Nobody => me = t /\ Names!Names(mark) = me
    BY DEF Names!AssertHeldQuiet
  <2>1. gilOwned /\ mark = [stack |-> th[t].stack, depth |-> th[t].depth]
        /\ th[t].depth \in Depths /\ th[t].stack # 0
    BY DEF NamesInv, Lives, Locking
  <2>2. ASSUME NEW d \in Depths, d >= th[t].depth, Names!Names([stack |-> th[t].stack, depth |-> d]) # Names!Nobody
        PROVE  /\ Names!Names([stack |-> th[t].stack, depth |-> d]) = t
               /\ [stack |-> th[t].stack, depth |-> d] = mark
    <3> DEFINE m == [stack |-> th[t].stack, depth |-> d]
                  hits == {i \in 1..IdSlots : stackTable[i].tag # Names!Nobody /\ Names!Within(m, stackTable[i].lo, stackTable[i].hi)}
    <3>1. Names!Cardinality(hits) = 1 /\ Names!Names(m) = stackTable[CHOOSE i \in hits : TRUE].tag
      BY <2>2 DEF Names!Names
    <3>2. PICK i : i \in hits /\ Names!Names(m) = stackTable[i].tag
      <4> HIDE DEF hits
      <4> QED  BY <3>1, OneOf
    <3>3. i \in hits /\ Names!Names(m) = stackTable[i].tag
      BY <3>2
    <3>4. i \in 1..IdSlots /\ stackTable[i].tag # Names!Nobody /\ stackTable[i].lo = th[t].stack
          /\ d = 1
      BY <3>3 DEF Names!Within
    <3>5. PICK u \in Takers : th[u].slot = i
      BY <3>4 DEF NamesInv, SlotsTrue
    <3>6. u = stackTable[i].tag /\ th[u].stack = stackTable[i].lo
      BY <2>1, <3>4, <3>5 DEF NamesInv, SlotsTrue
    <3>7. u = t
      BY <1>1, <2>1, <3>4, <3>6
    <3>8. th[t].depth = d
      <4>1. \A n \in Nat \ {0} : 1 >= n => n = 1
        OBVIOUS
      <4>2. th[t].depth \in Nat \ {0} /\ 1 >= th[t].depth
        BY <2>1, <2>2, <3>4, ThreadsAssumption DEF Names!NamesAssumption
      <4> QED  BY <3>4, <4>1, <4>2
    <3> QED  BY <2>1, <3>3, <3>6, <3>7, <3>8
  <2> QED  BY <2>1, <2>2
<1> QED  BY <1>5, <1>6, <1>7, <1>8 DEF Names!GilHonest

-----------------------------------------------------------------------------
(* The end of a process, by the names Teardown gives its parts.            *)
mainPc == x1
netOn == x2
started == x3
stop == x4
beat == x5
gil == x6
known == x7
hostOf == x8
finished == x9
shutdown == x10
snap == x11
joined == x12
leaked == x13
USE DEF mainPc, netOn, started, stop, beat, gil, known, hostOf, finished, shutdown, snap,
        joined, leaked

(* A thread outside the list is one that never came to be; the heartbeat   *)
(* has the GIL only while it lives, and lives only until main has either   *)
(* seen it end or given it up.                                             *)
Ending == {"stopbeat", "waitbeat", "join", "returned"}
BeatInv ==
  /\ mainPc = "create" => beat = "none"
  /\ mainPc = "start" => netOn
  /\ beat = "made" <=> mainPc = "start"
  /\ netOn /\ beat = "none" => mainPc = "create"
  /\ ~netOn => beat \in {"none", "gone"}
  /\ beat \in {"none", "made", "live", "ended", "gone"}
  /\ started => beat \in {"live", "ended"} /\ mainPc \notin {"join", "returned"}
  /\ beat \in {"live", "ended"} => started \/ "beat" \in leaked
  /\ gil = "beat" => beat = "live"
HostInv ==
  /\ DOMAIN hostOf = Runners /\ known \subseteq Runners
  /\ \A r \in Runners : hostOf[r] # "none" => r \in known
  /\ \A r \in Runners : gil = r => hostOf[r] = "guest"
  /\ \A r \in joined : hostOf[r] = "over"
  /\ joined \subseteq Runners
  /\ mainPc \in Ending => shutdown /\ snap \subseteq known /\ \A r \in known : r \in snap
     \/ hostOf[r] = "none"
  /\ mainPc \notin Ending => snap = {} /\ joined = {}
  /\ mainPc = "returned" => snap \subseteq joined \cup leaked
EndInv == BeatInv /\ HostInv

(* Before the process ends nothing has been asked of anybody.              *)
LEMMA EndStart == Death!Init => EndInv
BY ThreadsAssumption DEF Death!TeardownAssumption, Death!Init, EndInv, BeatInv, HostInv, Ending

(* The steps of main and of the heartbeat that leave the threads alone.    *)
LEMMA BeatKeeps ==
  ASSUME EndInv, \/ Death!Unarmed \/ Death!CreateBeat \/ Death!StartBeat \/ Death!Enter
         \/ Death!MainBack
                 \/ Death!BeatTries \/ Death!BeatDone \/ Death!BeatEnds \/ Death!StopBeat
                 \/ Death!WaitBeat
  PROVE  EndInv'
<1> USE ThreadsAssumption DEF Death!TeardownAssumption, EndInv, Death!BeatVars, Death!ThreadVars
<1>1. HostInv'
  <2>1. UNCHANGED Death!ThreadVars /\ leaked \subseteq leaked'
        /\ (gil' = gil \/ gil' \notin Runners)
        /\ (mainPc' \in Ending <=> mainPc \in Ending)
           /\ (mainPc' = "returned" <=> mainPc = "returned")
    BY DEF Death!Unarmed, Death!CreateBeat, Death!StartBeat, Death!Enter, Death!MainBack,
           Death!BeatTries, Death!BeatDone, Death!BeatEnds, Death!StopBeat, Death!WaitBeat,
           Death!Goes, Ending
  <2> QED  BY <2>1 DEF HostInv
<1>2. CASE Death!Unarmed \/ Death!Enter \/ Death!MainBack
  BY <1>1, <1>2 DEF Death!Unarmed, Death!Enter, Death!MainBack, Death!Goes, BeatInv
<1>3. CASE Death!CreateBeat \/ Death!StartBeat
  BY <1>1, <1>3
  DEF Death!CreateBeat, Death!StartBeat, Death!OnFailure, Death!DeletedOnFailure, Death!Goes,
      BeatInv
<1>4. CASE Death!BeatTries \/ Death!BeatDone \/ Death!BeatEnds
  BY <1>1, <1>4 DEF Death!BeatTries, Death!BeatDone, Death!BeatEnds, Death!Goes, BeatInv
<1>5. CASE Death!StopBeat \/ Death!WaitBeat
  BY <1>1, <1>5
  DEF Death!StopBeat, Death!WaitBeat, Death!OnExpiry, Death!Expired, Death!Goes, BeatInv
<1> QED  BY <1>2, <1>3, <1>4, <1>5

(* The steps of the guest's threads.                                       *)
LEMMA RunnersKeep ==
  ASSUME EndInv,
         \/ \E x \in Runners \cup {"main"} : Death!Spawn(x) \/ Death!DropGil(x)
            \/ \E r \in Runners : Death!Terminate(x, r)
         \/ \E r \in Runners : Death!TakeGil(r) \/ Death!Finish(r) \/ Death!Leave(r)
  PROVE  EndInv'
<1> USE ThreadsAssumption DEF Death!TeardownAssumption, EndInv, Death!BeatVars, Death!ThreadVars
<1>1. ASSUME NEW x \in Runners \cup {"main"}, Death!Spawn(x)
      PROVE  EndInv'
  <2>1. BeatInv'
    BY <1>1 DEF Death!Spawn, BeatInv
  <2>2. HostInv'
    <3>1. ~shutdown /\ UNCHANGED <<mainPc, gil, snap, joined>> /\ mainPc \notin Ending
      BY <1>1 DEF Death!Spawn, HostInv
    <3>2. PICK r \in Runners \ known : /\ known' = known \cup {r}
                                       /\ hostOf' = [hostOf EXCEPT ![r] = "guest"]
                                          \/ hostOf' = hostOf
      BY <1>1 DEF Death!Spawn
    <3> QED  BY <3>1, <3>2 DEF HostInv, Ending
  <2> QED  BY <2>1, <2>2
<1>2. ASSUME NEW x \in Runners \cup {"main"}, Death!DropGil(x)
      PROVE  EndInv'
  BY <1>2 DEF Death!DropGil, BeatInv, HostInv, Ending
<1>3. ASSUME NEW x \in Runners \cup {"main"}, NEW r \in Runners, Death!Terminate(x, r)
      PROVE  EndInv'
  BY <1>3 DEF Death!Terminate, BeatInv, HostInv
<1>4. ASSUME NEW r \in Runners, Death!TakeGil(r)
      PROVE  EndInv'
  BY <1>4 DEF Death!TakeGil, BeatInv, HostInv
<1>5. ASSUME NEW r \in Runners, Death!Finish(r)
      PROVE  EndInv'
  BY <1>5 DEF Death!Finish, BeatInv, HostInv, Ending
<1>6. ASSUME NEW r \in Runners, Death!Leave(r)
      PROVE  EndInv'
  BY <1>6 DEF Death!Leave, BeatInv, HostInv, Ending
<1> QED  BY <1>1, <1>2, <1>3, <1>4, <1>5, <1>6

(* The end of run.                                                         *)
LEMMA JoinKeeps ==
  ASSUME EndInv, Death!MainEnds \/ Death!Return \/ \E r \in Runners : Death!Join(r)
  PROVE  EndInv'
<1> USE ThreadsAssumption DEF Death!TeardownAssumption, EndInv, Death!BeatVars, Death!ThreadVars
<1>1. CASE Death!MainEnds
  BY <1>1 DEF Death!MainEnds, Death!Goes, BeatInv, HostInv, Ending
<1>2. CASE Death!Return
  BY <1>2 DEF Death!Return, Death!Goes, BeatInv, HostInv, Ending
<1>3. ASSUME NEW r \in Runners, Death!Join(r)
      PROVE  EndInv'
  <2>1. BeatInv'
    BY <1>3 DEF Death!Join, BeatInv
  <2>2. HostInv'
    BY <1>3 DEF Death!Join, HostInv, Ending
  <2> QED  BY <2>1, <2>2
<1> QED  BY <1>1, <1>2, <1>3

(* Every step of main, of the heartbeat and of the runners keeps the       *)
(* invariant of the end.                                                   *)
LEMMA EndStep ==
  ASSUME EndInv, [Death!Next]_(Death!vars)
  PROVE  EndInv'
<1>1. CASE UNCHANGED Death!vars
  BY <1>1 DEF Death!vars, EndInv, BeatInv, HostInv
<1> QED  BY <1>1, BeatKeeps, RunnersKeep, JoinKeeps DEF Death!Next

(* The invariant gives the promise.                                        *)
LEMMA EndPromise == EndInv => Death!EndsClean
BY ThreadsAssumption
DEF Death!TeardownAssumption, EndInv, BeatInv, HostInv, Death!EndsClean, Ending

-----------------------------------------------------------------------------
(* In the run: in the part of the global lock its invariant, in the part   *)
(* of the process's end the other.                                         *)
ThreadInv == /\ part = "gil" => NamesInv
             /\ part = "end" => EndInv

(* The two parts start in their invariants.                                *)
LEMMA ThreadsStart == MCInit => ThreadInv
<1>1. part = "gil" => ~Waiting
  BY DEF Waiting, Scope
<1>2. part = "end" => ~Waiting
  BY DEF Waiting, Scope
<1>3. MCInit => (part = "gil" => Names!Init) /\ (part = "end" => Death!Init)
  BY <1>1, <1>2 DEF MCInit
<1> QED  BY <1>3, NamesStart, EndStart DEF ThreadInv

(* A step of the run is one of the part's, and keeps its invariant.        *)
LEMMA ThreadsStep ==
  ASSUME ThreadInv, [MCNext]_MCvars
  PROVE  ThreadInv'
<1>1. part \in {"gil", "end"} => ~Waiting
  BY DEF Waiting, Scope
<1>2. part' = part
  BY DEF MCNext, MCvars
<1>3. part = "gil" => [Names!Next]_(Names!vars)
  BY <1>1 DEF MCNext, Steps, NetSteps, MCvars, Names!vars
<1>4. part = "end" => [Death!Next]_(Death!vars)
  BY <1>1 DEF MCNext, Steps, NetSteps, MCvars, Death!vars
<1>5. part = "gil" => NamesInv'
  BY <1>3, NamesStep DEF ThreadInv
<1>6. part = "end" => EndInv'
  BY <1>4, EndStep DEF ThreadInv
<1> QED  BY <1>2, <1>5, <1>6 DEF ThreadInv

(* A probe without a lock never names a thread that did not have the GIL   *)
(* while it looked, nor the shim of another; the end of run leaves no host *)
(* thread unaccounted for and deletes no heartbeat that runs.              *)
THEOREM ThreadsHold == MCSpec => []ThreadsHonest
<1>1. ThreadInv => ThreadsHonest
  BY NamesPromise, EndPromise DEF ThreadInv, ThreadsHonest
<1> QED  BY <1>1, ThreadsStart, ThreadsStep, PTL DEF MCSpec
=============================================================================
