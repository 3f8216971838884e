------------------------------- MODULE Winsock ------------------------------
(***************************************************************************)
(* The Winsock shims (src/runtime/win32_shims_wsock32.cpp, net_guard.cpp,  *)
(* net_nonblock.cpp, poll_gil.cpp).  The guest names a socket by a handle  *)
(* that is never used again; the shims name it by its host descriptor,     *)
(* which the host gives to the next socket opened.  A shim runs under the  *)
(* GIL except while it polls, so other guest threads close and open        *)
(* sockets in the middle of a recv, a connect or a select.  A datagram     *)
(* socket is "dgram" until it connects; a stream is "new" until then.      *)
(* Time is in slices of a second.                                          *)
(***************************************************************************)
EXTENDS Integers, FiniteSets, FiniteSetsExt

CONSTANTS
  Threads,     \* guest threads
  Fds,         \* host descriptors, the smallest free one is given
  MaxHandle,   \* bound: sockets opened in a run
  MaxTime,     \* bound: seconds of a run
  ConnectWait, \* seconds a connect waits (8)
  Timeouts,    \* SO_RCVTIMEO values, 0 for ever
  Waits,       \* timeouts given to select, MaxTime + 1 for none
  FromWait,    \* seconds a recvfrom waits (3)
  PrivateOnly, \* the exit lock, g_privOnly
  Route        \* where wx86_net_set_redirect sends, "none" if not set

VARIABLES
  table,    \* g_wsockTable: the live handles, their descriptor and mode
  nextH,    \* g_wsockNext
  host,     \* the host's open descriptors: which socket, its state, its data
  rcvTimeo, \* g_rcvTimeoMs: by descriptor; who set it
  thread,   \* each guest thread: the call it waits in
  said,     \* what the step answered, if it answered something
  net,      \* g_netEnabled, shutdown_requested
  now

vars == <<table, nextH, host, rcvTimeo, thread, said, net, now>>

Live == DOMAIN table
Open == DOMAIN host
Without(f, S) == [x \in DOMAIN f \ S |-> f[x]]
With(f, x, e) == [y \in DOMAIN f \cup {x} |-> IF y = x THEN e ELSE f[y]]

Idle == [call |-> "none"]
Silence == [call |-> "none", peer |-> "nowhere"]
CanCall(t) == thread[t] = Idle /\ net.enabled

Init ==
  /\ table = <<>> /\ nextH = 1
  /\ host = <<>> /\ rcvTimeo = <<>>
  /\ thread = [t \in Threads |-> Idle] /\ said = Silence
  /\ net = [enabled |-> TRUE, leaving |-> FALSE]
  /\ now = 0

(* The answer of a call on handle h: the socket it speaks of, 0 if it      *)
(* failed, and the address its bytes went to or came from.                 *)
Answer(t, call, h, got, peer) ==
  /\ thread' = [thread EXCEPT ![t] = Idle]
  /\ said' = [call |-> call, h |-> h, got |-> got, peer |-> peer]
Wait(t, w) == thread' = [thread EXCEPT ![t] = w] /\ said' = Silence
Quiet == UNCHANGED thread /\ said' = Silence

(* What poll says of a descriptor; one that was closed is reported too.    *)
In(fd)  == fd \in Open => (host[fd].data > 0 \/ host[fd].state = "hup")
Out(fd) == fd \in Open => host[fd].state \in {"dgram", "up", "hup"}
Polled(fd) == In(fd) \/ Out(fd)

(* wx86_poll_gilfree: until something is ready, the time is over, or the   *)
(* process is leaving.                                                     *)
Wakes(ready, until) == ready \/ now >= until \/ net.leaving

(* The poll of a connect, a recv or a recvfrom returns; the shim goes on   *)
(* once it has the GIL again.                                              *)
Ready(w) == IF w.call = "connect" THEN Out(w.fd) ELSE In(w.fd)
PollWakes(t) ==
  LET w == thread[t]
  IN /\ w.call \in {"connect", "recv", "recvfrom"} /\ ~w.woken
     /\ Wakes(Ready(w), w.until)
     /\ Wait(t, [w EXCEPT !.woken = TRUE])
     /\ UNCHANGED <<table, nextH, host, rcvTimeo, net, now>>
Woken(w, call) == w.call = call /\ w.woken
----------------------------------------------------------------------------
(* Sockets                                                                 *)

(* wx86_sock_alloc, for a descriptor the host just gave.                   *)
Alloc(hosts, state, peer) ==
  /\ nextH <= MaxHandle /\ Fds \ Open # {}
  /\ LET fd == Min(Fds \ Open)
     IN /\ host' = With(hosts, fd, [id |-> nextH, state |-> state, data |-> 0, peer |-> peer])
        /\ table' = With(table, nextH, [fd |-> fd, nonblock |-> FALSE])
  /\ nextH' = nextH + 1
  /\ Quiet /\ UNCHANGED <<rcvTimeo, net, now>>

Socket(t) == CanCall(t) /\ \E state \in {"new", "dgram"} : Alloc(host, state, "none")

Listen(t, h) ==
  /\ CanCall(t) /\ h \in Live /\ host[table[h].fd].state = "new"
  /\ host' = [host EXCEPT ![table[h].fd].state = "listening"]
  /\ Quiet /\ UNCHANGED <<table, nextH, rcvTimeo, net, now>>

(* Whoever called, nobody asks from which address.                         *)
Accept(t, h) ==
  /\ CanCall(t) /\ h \in Live
  /\ LET fd == table[h].fd
     IN host[fd].state = "listening" /\ host[fd].data > 0 /\ Alloc([host EXCEPT ![fd].data = 0], "up", "caller")

(* A closed descriptor's receive timeout goes with it.                     *)
(* Fault: it is left for the next socket.                                  *)
TimeoKept(fd) == rcvTimeo
TimeoLeft(fd) == Without(rcvTimeo, {fd})

CloseSocket(t, h) ==
  /\ CanCall(t) /\ h \in Live
  /\ host' = Without(host, {table[h].fd})
  /\ rcvTimeo' = TimeoLeft(table[h].fd)
  /\ table' = Without(table, {h})
  /\ Quiet /\ UNCHANGED <<nextH, net, now>>

SetRcvTimeo(t, h, s) ==
  /\ CanCall(t) /\ h \in Live
  /\ rcvTimeo' = With(rcvTimeo, table[h].fd, [sec |-> s, by |-> h])
  /\ Quiet /\ UNCHANGED <<table, nextH, host, net, now>>

IoctlSocket(t, h, on) ==
  /\ CanCall(t) /\ h \in Live
  /\ table' = [table EXCEPT ![h].nonblock = on]
  /\ Quiet /\ UNCHANGED <<nextH, host, rcvTimeo, net, now>>

Shutdown(t, h) ==
  /\ CanCall(t) /\ h \in Live /\ host[table[h].fd].state = "up"
  /\ host' = [host EXCEPT ![table[h].fd].state = "hup"]
  /\ Quiet /\ UNCHANGED <<table, nextH, rcvTimeo, net, now>>
----------------------------------------------------------------------------
(* connect and sendto                                                      *)

(* Loopback, broadcast and "any" are local: the redirection leaves them.   *)
Dests == {"local", "private", "public"}
Routed(d)  == IF Route = "none" \/ d = "local" THEN d ELSE Route
Allowed(d) == PrivateOnly => d # "public"

(* The host's descriptors are numbers, and a redirection leads somewhere.  *)
ASSUME WinsockAssumption ==
  /\ Fds \subseteq Nat
  /\ Route \in Dests \cup {"none"}

(* The exit lock judges the address that is really dialed.                 *)
(* Fault: the one the guest asked for.                                     *)
JudgedAsAsked(d) == Allowed(d)
Judged(d) == Allowed(Routed(d))

(* A refusal touches no host socket.  A datagram socket has its peer at    *)
(* once, a stream dials.                                                   *)
Connect(t, h, d) ==
  LET fd == table[h].fd
      Dialed(state) == host' = [host EXCEPT ![fd].state = state, ![fd].peer = Routed(d)]
  IN /\ CanCall(t) /\ h \in Live
     /\ \/ /\ host[fd].state \in {"new", "dgram"} /\ ~Judged(d)
           /\ Answer(t, "connect", h, 0, "nowhere") /\ UNCHANGED host
        \/ /\ host[fd].state = "dgram" /\ Judged(d)
           /\ Dialed("up") /\ Answer(t, "connect", h, h, Routed(d))
        \/ /\ host[fd].state = "new" /\ Judged(d)
           /\ Dialed("dialing")
           /\ Wait(t, [call |-> "connect", h |-> h, fd |-> fd, woken |-> FALSE, until |-> now + ConnectWait])
     /\ UNCHANGED <<table, nextH, rcvTimeo, net, now>>

(* wx86_connect_wait, after its poll: SO_ERROR tells the outcome, of       *)
(* whichever socket has the descriptor.                                    *)
ConnectDone(t) ==
  LET w == thread[t]
      good == w.fd \in Open /\ host[w.fd].state # "hup"
  IN /\ Woken(w, "connect")
     /\ Answer(t, "connect", w.h, IF good THEN host[w.fd].id ELSE 0, "nowhere")
     /\ UNCHANGED <<table, nextH, host, rcvTimeo, net, now>>

SendTo(t, h, d) ==
  /\ CanCall(t) /\ h \in Live
  /\ Answer(t, "sendto", h, h, IF Judged(d) THEN Routed(d) ELSE "nowhere")
  /\ UNCHANGED <<table, nextH, host, rcvTimeo, net, now>>

(* wx86_net_resolve: an address in figures is answered here, a name is     *)
(* asked of somebody out there.                                            *)
Asked(name) == IF name = "figures" \/ PrivateOnly THEN "nowhere" ELSE "public"
Resolve(t, name) ==
  /\ CanCall(t)
  /\ Answer(t, "resolve", 0, 0, Asked(name))
  /\ UNCHANGED <<table, nextH, host, rcvTimeo, net, now>>
----------------------------------------------------------------------------
(* recv and recvfrom                                                       *)

(* A datagram comes from anywhere until its socket has a peer; a stream    *)
(* gives recvfrom no address, and zeros pass for local.                    *)
Sources(fd) == IF host[fd].state = "dgram" THEN Dests ELSE {host[fd].peer}
Given(fd, from) == IF host[fd].state = "dgram" THEN from ELSE "local"

(* ::recv of a descriptor: its data, the end of its stream, or an error.   *)
(* recvfrom has the lock look at the sender, and takes the datagram off in *)
(* any case; recv does not ask.                                            *)
Carries(fd) == fd \in Open /\ host[fd].state \in {"dgram", "up", "hup"}
Nothing(fd) == fd \in Open /\ host[fd].data = 0 /\ host[fd].state \in {"dgram", "dialing", "up"}
Receive(t, call, h, fd) ==
  \/ /\ Carries(fd) /\ host[fd].data > 0
     /\ \E from \in Sources(fd) :
          IF call = "recv" \/ Allowed(Given(fd, from))
          THEN Answer(t, call, h, host[fd].id, from)
          ELSE Answer(t, call, h, 0, "nowhere")
     /\ host' = [host EXCEPT ![fd].data = @ - 1]
  \/ /\ Carries(fd) /\ host[fd].data = 0
     /\ Answer(t, call, h, host[fd].id, "nowhere") /\ UNCHANGED host
  \/ /\ ~Carries(fd)
     /\ Answer(t, call, h, 0, "nowhere") /\ UNCHANGED host

Limit(fd) == IF fd \in DOMAIN rcvTimeo THEN rcvTimeo[fd].sec ELSE 0

Recv(t, h) ==
  /\ CanCall(t) /\ h \in Live
  /\ LET fd == table[h].fd
     IN IF ~Nothing(fd) THEN Receive(t, "recv", h, fd)
        ELSE IF table[h].nonblock THEN Answer(t, "recv", h, 0, "nowhere") /\ UNCHANGED host
        ELSE /\ Wait(t, [call |-> "recv", h |-> h, fd |-> fd, limit |-> Limit(fd),
                         waited |-> 0, woken |-> FALSE, until |-> now + 1])
             /\ UNCHANGED host
  /\ UNCHANGED <<table, nextH, rcvTimeo, net, now>>

(* The next turn of wx86_recv_blocking: a slice counts in full, whatever   *)
(* woke the poll.  It does not ask whether the process is leaving.         *)
RecvTurn(t) ==
  LET w == thread[t]
  IN /\ Woken(w, "recv")
     /\ IF ~Nothing(w.fd) THEN Receive(t, "recv", w.h, w.fd)
        ELSE /\ IF ~net.enabled \/ (w.limit > 0 /\ w.waited + 1 >= w.limit)
                THEN Answer(t, "recv", w.h, 0, "nowhere")
                ELSE Wait(t, [w EXCEPT !.waited = IF w.limit > 0 THEN @ + 1 ELSE 0, !.woken = FALSE, !.until = now + 1])
             /\ UNCHANGED host
     /\ UNCHANGED <<table, nextH, rcvTimeo, net, now>>

RecvFrom(t, h) ==
  /\ CanCall(t) /\ h \in Live
  /\ LET fd == table[h].fd
     IN IF Nothing(fd) /\ ~table[h].nonblock
        THEN Wait(t, [call |-> "recvfrom", h |-> h, fd |-> fd, woken |-> FALSE, until |-> now + FromWait]) /\ UNCHANGED host
        ELSE Receive(t, "recvfrom", h, fd)
  /\ UNCHANGED <<table, nextH, rcvTimeo, net, now>>

RecvFromDone(t) ==
  LET w == thread[t]
  IN /\ Woken(w, "recvfrom")
     /\ Receive(t, "recvfrom", w.h, w.fd)
     /\ UNCHANGED <<table, nextH, rcvTimeo, net, now>>
----------------------------------------------------------------------------
(* select                                                                  *)

NoLimit == MaxTime + 1   \* no timeval
Invalid == MaxTime + 2   \* a negative one

(* Errors are returned once the requested time has gone, a second at most: *)
(* a caller that retries at once would starve the others.                  *)
ErrorAt(wait) == IF wait = 0 THEN now ELSE now + 1
Fail(t, at) == Wait(t, [call |-> "select", fail |-> TRUE, until |-> at])

(* The sets are copied before any wait: handles, and their descriptors.    *)
Select(t, R, W, wait) ==
  /\ thread[t] = Idle
  /\ IF ~net.enabled \/ wait = Invalid \/ R \cup W = {} \/ ~(R \cup W \subseteq Live)
     THEN Fail(t, ErrorAt(wait))
     ELSE Wait(t, [call |-> "select", fail |-> FALSE, R |-> R, W |-> W, watch |-> R \cup W,
                   fd |-> [h \in R \cup W |-> table[h].fd], end |-> now + wait,
                   errAt |-> ErrorAt(wait), until |-> IF wait = 0 THEN now ELSE now + 1])
  /\ UNCHANGED <<table, nextH, host, rcvTimeo, net, now>>

Selecting(t) == thread[t].call = "select" /\ ~thread[t].fail
Polling(t)   == Selecting(t) /\ "seen" \notin DOMAIN thread[t]

(* What poll reports of an entry: readable or hung up, or writable.        *)
Reported(w, h) == (h \in w.R /\ In(w.fd[h])) \/ (h \in w.W /\ w.fd[h] \in Open /\ host[w.fd[h]].state \in {"dgram", "up"})
                  \/ w.fd[h] \notin Open \/ host[w.fd[h]].state = "hup"
Occupant(fd) == IF fd \in Open THEN host[fd] ELSE [id |-> 0, state |-> "gone", data |-> 0]

(* The poll returns, without the GIL, with what it saw of each socket.     *)
PollReturns(t) ==
  LET w == thread[t]
      hit == {h \in w.watch : Reported(w, h)}
  IN /\ Polling(t)
     /\ Wakes(hit # {}, w.until)
     /\ Wait(t, With(w, "seen", [h \in hit |-> Occupant(w.fd[h])]))
     /\ UNCHANGED <<table, nextH, host, rcvTimeo, net, now>>

(* Another guest thread may have closed a socket during the wait.          *)
(* Fault: nobody looks.                                                    *)
StaleIgnored(w) == FALSE
Stale(w) == \E h \in DOMAIN w.fd : h \notin Live \/ table[h].fd # w.fd[h]

Hung(o) == o.state \in {"hup", "gone"}
SelectTurn(t) ==
  LET w == thread[t]
      r == {h \in w.R \cap DOMAIN w.seen : w.seen[h].data > 0 \/ Hung(w.seen[h])}
      x == {h \in w.W \cap DOMAIN w.seen : w.seen[h].state \in {"dgram", "up"}}
  IN /\ Selecting(t) /\ ~Polling(t)
     /\ IF Stale(w) THEN Fail(t, w.errAt)
        ELSE IF r \cup x # {} THEN Answer(t, "select", r \cup x, {w.seen[h].id : h \in r \cup x}, "nowhere")
        ELSE IF now >= w.end \/ net.leaving THEN Answer(t, "select", {}, {}, "nowhere")
        ELSE IF ~net.enabled THEN Fail(t, w.errAt)
        ELSE Wait(t, [f \in DOMAIN w \ {"seen"} |->
                        CASE f = "watch" -> w.watch \ DOMAIN w.seen
                          [] f = "until" -> IF w.end < now + 1 THEN w.end ELSE now + 1
                          [] OTHER -> w[f]])
     /\ UNCHANGED <<table, nextH, host, rcvTimeo, net, now>>

SelectFails(t) ==
  LET w == thread[t]
  IN /\ w.call = "select" /\ w.fail
     /\ now >= w.until \/ net.leaving
     /\ Answer(t, "select", {}, {}, "nowhere")
     /\ UNCHANGED <<table, nextH, host, rcvTimeo, net, now>>
----------------------------------------------------------------------------
(* The network, the embedder, and time                                     *)

Network(fd, what) ==
  /\ host' = [host EXCEPT ![fd] = what]
  /\ Quiet /\ UNCHANGED <<table, nextH, rcvTimeo, net, now>>
Arrives(fd) == host[fd].state \in {"dgram", "up", "listening"} /\ host[fd].data = 0 /\ Network(fd, [host[fd] EXCEPT !.data = 1])
Settles(fd) == host[fd].state = "dialing" /\ \E st \in {"up", "hup"} : Network(fd, [host[fd] EXCEPT !.state = st])

Embedder(n) == net' = n /\ Quiet /\ UNCHANGED <<table, nextH, host, rcvTimeo, now>>
NetOff  == net.enabled /\ Embedder([net EXCEPT !.enabled = FALSE])
Leaving == ~net.leaving /\ Embedder([net EXCEPT !.leaving = TRUE])

(* Slices and deadlines are multiples of the second, and nobody sleeps     *)
(* past one of its own.                                                    *)
Late(t) == "until" \in DOMAIN thread[t] /\ now >= thread[t].until
Tick == /\ now < MaxTime /\ \A t \in Threads : ~Late(t) /\ "seen" \notin DOMAIN thread[t]
        /\ now' = now + 1
        /\ Quiet /\ UNCHANGED <<table, nextH, host, rcvTimeo, net>>

Next ==
  \/ \E t \in Threads :
       \/ Socket(t) \/ PollWakes(t) \/ ConnectDone(t) \/ RecvTurn(t) \/ RecvFromDone(t)
       \/ PollReturns(t) \/ SelectTurn(t) \/ SelectFails(t)
       \/ \E h \in Live : \/ CloseSocket(t, h) \/ Shutdown(t, h) \/ Recv(t, h) \/ RecvFrom(t, h)
                          \/ Listen(t, h) \/ Accept(t, h)
                          \/ \E s \in Timeouts : SetRcvTimeo(t, h, s)
                          \/ \E b \in BOOLEAN : IoctlSocket(t, h, b)
                          \/ \E d \in Dests : Connect(t, h, d) \/ SendTo(t, h, d)
       \/ \E R, W \in SUBSET Live, wait \in Waits : Select(t, R, W, wait)
       \/ \E name \in {"figures", "name"} : Resolve(t, name)
       \/ \E h \in {0} \cup Live : Select(t, {h}, {}, IF h = 0 THEN NoLimit ELSE Invalid)
  \/ \E fd \in Open : Arrives(fd) \/ Settles(fd)
  \/ NetOff \/ Leaving \/ Tick

Spec == Init /\ [][Next]_vars
----------------------------------------------------------------------------
(* A live handle and its descriptor belong to one another, and a           *)
(* descriptor's receive timeout was set through the handle that has it.    *)
HandlesOwn ==
  /\ \A h \in Live : table[h].fd \in Open /\ host[table[h].fd].id = h
  /\ \A fd \in DOMAIN rcvTimeo : fd \in Open /\ host[fd].id = rcvTimeo[fd].by

(* select reports a handle for what its own socket did, however long it    *)
(* waited and whatever was closed and opened meanwhile.                    *)
SelectOwnSockets == said.call = "select" => said.got = said.h

(* A connect, recv or recvfrom answers for its own socket, unless the      *)
(* handle was closed while it waited: then it may be the next socket of    *)
(* that descriptor that answers, although recv says it stops (179-181).    *)
AnswersOwn == said.call \in {"connect", "recv", "recvfrom"} /\ said.h \in Live => said.got \in {0, said.h}

(* With the exit lock on, no socket has a public address for its peer, no  *)
(* name is asked, no datagram is sent to a public address, wherever the    *)
(* redirection leads, and recvfrom hands none over that comes from one.    *)
(* A plain recv does, on a datagram socket without a peer (718-733,        *)
(* against 819-821).  Who called an accepted socket is never asked.        *)
Unbound(id) == \E fd \in Open : host[fd].id = id /\ host[fd].state = "dgram"
ExitLock ==
  PrivateOnly => /\ \A fd \in Open : host[fd].peer # "public"
                 /\ said.peer = "public" => said.call = "recv" /\ Unbound(said.got)

NetSound == HandlesOwn /\ AnswersOwn /\ SelectOwnSockets /\ ExitLock
============================================================================
