------------------------------ MODULE AudioOut ------------------------------
(***************************************************************************)
(* Who drives the sound (src/runtime/ds_emul.cpp, platform/vita_audio.cpp, *)
(* runtime/audio_sink_host.cpp): a real-time sink has a host thread that   *)
(* mixes and blocks in its driver; every other sink is pulled by the       *)
(* guest's frame tick, under the GIL.  The guest thread opens the sink,    *)
(* retries later if the host thread was refused, and tears everything      *)
(* down while that thread may still be writing.  On the console a watchdog *)
(* asks the sink for its errors and its name (stat_line).  Time is in      *)
(* steps of the guest's clock, samples in grains.                          *)
(***************************************************************************)
EXTENDS Integers, Sequences

CONSTANTS
  MaxTick,  \* bound: clock steps of a run
  PerTick,  \* grains the guest's clock asks for in one step
  Second,   \* grains one call of the pump makes at most (1 s)
  Delay,    \* steps between two deferred attempts (5 s)
  Tries     \* deferred attempts (3)

SinkAssumption == PerTick \in Nat /\ Second \in Nat /\ Delay \in Nat /\ Tries \in Nat

VARIABLES
  host,     \* what cannot change: the sink wanted, and whether this is a console
  sinks,    \* the sinks made: kind, open | closed | gone, whether written to
  g_sink,   \* the published sink, 0 when there is none
  run,      \* g_threadRun
  th,       \* whether g_th holds a thread
  audio,    \* the host thread: where it is, the sink it loaded
  guest,    \* the guest thread: where it is, the sink it loaded, grains owed
  defer,    \* g_deferArmed, g_deferLeft, g_deferNext
  pump,     \* g_pumpStarted, g_pumpT0, g_produced
  tick,     \* the guest's clock
  leaving,  \* shutdown: whether it began, and what its wait answered
  stalled,  \* whether a driver call blocked the guest thread before shutdown
  watch     \* the watchdog: where it is, the sink it loaded

vars == <<host, sinks, g_sink, run, th, audio, guest, defer, pump, tick, leaving, stalled, watch>>

Kinds == {"vita", "wav", "null"}
SelfPaced(s) == sinks[s].kind = "vita"

NoRetry == [armed |-> FALSE, left |-> 0, next |-> 0]
Unpumped == [started |-> FALSE, t0 |-> 0, produced |-> 0]

Init ==
  /\ host \in [want : Kinds, console : BOOLEAN]
  /\ sinks = <<>> /\ g_sink = 0
  /\ run = FALSE /\ th = FALSE
  /\ audio = [at |-> "none", sk |-> 0]
  /\ guest = [at |-> "idle", sk |-> 0, owed |-> 0]
  /\ defer = NoRetry /\ pump = Unpumped
  /\ tick = 0
  /\ leaving = [begun |-> FALSE, joined |-> TRUE]
  /\ stalled = FALSE
  /\ watch = [at |-> "idle", sk |-> 0]

Made(kind, state) == [kind |-> kind, state |-> state, wrote |-> FALSE]
Idle == guest.at = "idle"
sound == <<sinks, g_sink, run, th, audio, stalled, watch>>
----------------------------------------------------------------------------
(* Sinks and the host thread                                               *)

(* make_*_sink, then open: no console sink elsewhere; an opening refused   *)
(* leaves the null sink, which opens always.                               *)
Opened == {"null"} \cup {k \in {host.want} : k = "vita" => host.console}

(* thread_start: the thread there already is, or one of the rungs'; off    *)
(* the console, none.                                                      *)
Starts == IF th THEN {TRUE} ELSE IF host.console THEN BOOLEAN ELSE {FALSE}

Started == [at |-> "top", sk |-> 0]

(* close, on the guest thread: a real-time sink that was written to drains *)
(* first, which blocks.  Fault: it drains in any case.                     *)
DrainsAlways(sink) == sink.kind = "vita"
Drains(sink) == sink.kind = "vita" /\ sink.wrote

(* The thread takes over sink s, published before it starts.               *)
HandOver(made, s) ==
  /\ sinks' = made /\ g_sink' = s
  /\ run' = TRUE /\ th' = TRUE
  /\ audio' = IF th THEN audio ELSE Started

(* The watchdog loads a sink that is published.                            *)
Watching(s) == [at |-> "print", sk |-> s]
Watched(s) == watch' \in {watch} \cup {w \in {Watching(s)} : host.console /\ watch.at = "idle"}

(* open_sink.  When the thread does not start, the sink is closed, the     *)
(* null sink takes its place and the deferred attempts are armed; the      *)
(* watchdog may have loaded it meanwhile.                                  *)
OpenSink(kind, starts) ==
  LET next == Len(sinks) + 1
  IN IF kind # "vita"
     THEN /\ sinks' = Append(sinks, Made(kind, "open")) /\ g_sink' = next
          /\ UNCHANGED <<run, th, audio, defer, stalled, watch>>
     ELSE IF starts
     THEN /\ HandOver(Append(sinks, Made("vita", "open")), next)
          /\ UNCHANGED <<defer, stalled, watch>>
     ELSE /\ sinks' = sinks \o <<Made("vita", "gone"), Made("null", "open")>>
          /\ g_sink' = next + 1
          /\ run' = FALSE
          /\ defer' = [armed |-> TRUE, left |-> Tries, next |-> 0]
          /\ stalled' = (stalled \/ Drains(Made("vita", "open")))
          /\ Watched(next)
          /\ UNCHANGED <<th, audio>>

(* ds_create; the process is leaving once teardown began.                  *)
DirectSoundCreate ==
  /\ Idle /\ ~leaving.begun /\ g_sink = 0
  /\ \E kind \in Opened, starts \in Starts : OpenSink(kind, starts)
  /\ UNCHANGED <<host, guest, pump, tick, leaving>>
----------------------------------------------------------------------------
(* frame_pump, on the guest thread                                         *)

(* One attempt: the null sink gives way, or is put back as it was, and the *)
(* watchdog may have loaded the new one meanwhile.                         *)
Attempt(opens, starts) ==
  LET next == Len(sinks) + 1
      left == [s \in DOMAIN sinks |-> IF s = g_sink THEN [sinks[s] EXCEPT !.state = "gone"] ELSE sinks[s]]
  IN IF opens /\ starts
     THEN /\ HandOver(Append(left, Made("vita", "open")), next)
          /\ defer' = [armed |-> FALSE, left |-> defer.left - 1, next |-> tick + Delay]
          /\ stalled' = (stalled \/ (g_sink # 0 /\ Drains(sinks[g_sink])))
          /\ UNCHANGED watch
     ELSE /\ sinks' = Append(sinks, Made("vita", "gone"))
          /\ run' = IF opens THEN FALSE ELSE run
          /\ defer' = [defer EXCEPT !.left = @ - 1, !.next = tick + Delay]
          /\ stalled' = (stalled \/ Drains(Made("vita", "open")))
          /\ IF opens THEN Watched(next) ELSE UNCHANGED watch
          /\ UNCHANGED <<g_sink, th, audio>>

(* try_deferred_sink: the first call sets the date, then Tries attempts,   *)
(* and one call more to give up.  Only a console arms it, and shutdown     *)
(* does not disarm it.                                                     *)
Due == defer.armed /\ defer.next # 0 /\ tick >= defer.next
TryDeferredSink ==
  \/ ~defer.armed /\ UNCHANGED <<defer, sound>>
  \/ defer.armed /\ defer.next # 0 /\ tick < defer.next /\ UNCHANGED <<defer, sound>>
  \/ defer.armed /\ defer.next = 0 /\ defer' = [defer EXCEPT !.next = tick + Delay] /\ UNCHANGED sound
  \/ Due /\ defer.left <= 0
         /\ defer' = [defer EXCEPT !.armed = FALSE, !.next = tick + Delay] /\ UNCHANGED sound
  \/ Due /\ defer.left > 0 /\ \E opens \in BOOLEAN, starts \in Starts : Attempt(opens, starts)

(* The sink the pump serves: asked of the sink, not of a flag kept when it *)
(* was opened.  Fault: of the sink there was when the call began.          *)
PulledBefore(s) == s # 0 /\ g_sink # 0 /\ ~SelfPaced(g_sink)
Pulled(s) == s # 0 /\ sinks'[s].kind # "vita"

(* What the clock asks for, a second at most, the rest given up.           *)
Target == (tick - pump.t0) * PerTick
Owed == LET need == Target - pump.produced IN IF need > Second THEN Second ELSE need

FramePump ==
  /\ Idle
  /\ TryDeferredSink
  /\ IF ~Pulled(g_sink') \/ (pump.started /\ Target <= pump.produced) THEN UNCHANGED <<guest, pump>>
     ELSE IF ~pump.started
     THEN pump' = [started |-> TRUE, t0 |-> tick, produced |-> 0] /\ UNCHANGED guest
     ELSE /\ guest' = [at |-> "mix", sk |-> 0, owed |-> Owed]
          /\ pump' = [pump EXCEPT !.produced = Target - Owed]
  /\ UNCHANGED <<host, tick, leaving>>

(* mix_grain on the guest thread: the sink is loaded once the grain is     *)
(* mixed, and a real-time one is refused.                                  *)
GuestMixes ==
  /\ guest.at = "mix"
  /\ guest' = [guest EXCEPT !.at = "write",
                            !.sk = IF g_sink # 0 /\ SelfPaced(g_sink) THEN 0 ELSE g_sink]
  /\ UNCHANGED <<host, sound, defer, pump, tick, leaving>>
GuestWrites ==
  /\ guest.at = "write"
  /\ guest' = [at |-> IF guest.owed > 1 THEN "mix" ELSE "idle", sk |-> 0, owed |-> guest.owed - 1]
  /\ pump' = [pump EXCEPT !.produced = @ + 1]
  /\ UNCHANGED <<host, sound, defer, tick, leaving>>
----------------------------------------------------------------------------
(* audio_body: grain after grain while the flag is up.                     *)
AudioStep(to) == /\ audio' = to
                 /\ UNCHANGED <<host, g_sink, run, th, guest, defer, pump, tick, leaving, stalled, watch>>
AudioBody ==
  /\ audio.at = "top"
  /\ AudioStep([at |-> IF run THEN "mix" ELSE "ended", sk |-> 0])
  /\ UNCHANGED sinks
AudioMixes == audio.at = "mix" /\ AudioStep([at |-> "write", sk |-> g_sink]) /\ UNCHANGED sinks
(* The driver refuses, or takes the grain and blocks for its length.       *)
AudioWrites ==
  /\ audio.at = "write"
  /\ AudioStep([at |-> "top", sk |-> 0])
  /\ \/ UNCHANGED sinks
     \/ audio.sk # 0 /\ sinks' = [sinks EXCEPT ![audio.sk].wrote = TRUE]
----------------------------------------------------------------------------
(* shutdown: lower the flag, wait two seconds at most, unpublish, and only *)
(* then close and delete, if the thread joined.  It may be called twice.   *)
Lower ==
  /\ Idle
  /\ run' = FALSE
  /\ leaving' = [begun |-> TRUE, joined |-> TRUE]
  /\ guest' = [guest EXCEPT !.at = IF run THEN "join" ELSE "unpublish"]
  /\ UNCHANGED <<host, sinks, g_sink, th, audio, defer, pump, tick, stalled, watch>>
ThreadStop ==
  /\ guest.at = "join"
  /\ LET joined == audio.at = "ended"
     IN leaving' = [leaving EXCEPT !.joined = joined] /\ th' = (th /\ ~joined)
  /\ guest' = [guest EXCEPT !.at = "unpublish"]
  /\ UNCHANGED <<host, sinks, g_sink, run, audio, defer, pump, tick, stalled, watch>>
Unpublish ==
  /\ guest.at = "unpublish"
  /\ g_sink' = 0
  /\ guest' = [guest EXCEPT !.at = IF g_sink = 0 THEN "idle" ELSE "close", !.sk = g_sink]
  /\ UNCHANGED <<host, sinks, run, th, audio, defer, pump, tick, leaving, stalled, watch>>
(* Fault: close whether it joined or not.                                  *)
ClosesAnyway == TRUE
Closes == leaving.joined
Close ==
  /\ guest.at = "close"
  /\ sinks' = IF Closes THEN [sinks EXCEPT ![guest.sk].state = "gone"] ELSE sinks
  /\ guest' = [guest EXCEPT !.at = "idle", !.sk = 0]
  /\ UNCHANGED <<host, g_sink, run, th, audio, defer, pump, tick, leaving, stalled, watch>>

(* stat_line, on the watchdog: the sink is loaded without a lock, and then *)
(* asked; its name, after a load of its own, in the same way.              *)
StatLoads == /\ host.console /\ watch.at = "idle" /\ watch' = Watching(g_sink)
             /\ UNCHANGED <<host, sinks, g_sink, run, th, audio, guest, defer, pump, tick, leaving, stalled>>
StatAsks == /\ watch.at = "print" /\ watch' = [at |-> "idle", sk |-> 0]
            /\ UNCHANGED <<host, sinks, g_sink, run, th, audio, guest, defer, pump, tick, leaving, stalled>>

Tick == /\ tick < MaxTick /\ tick' = tick + 1
        /\ UNCHANGED <<host, sound, guest, defer, pump, leaving>>

Next == DirectSoundCreate \/ FramePump \/ GuestMixes \/ GuestWrites \/ AudioBody \/ AudioMixes
        \/ AudioWrites \/ StatLoads \/ StatAsks \/ Lower \/ ThreadStop \/ Unpublish \/ Close \/ Tick

Spec == Init /\ [][Next]_vars
----------------------------------------------------------------------------
(* "never destroyed while a thread may still use it" (above g_sink): the   *)
(* sink a thread loaded is still there when it writes.  The exception is   *)
(* the watchdog (1162-1178), which may ask a sink that is deleted: the     *)
(* last one at teardown (1129), a null sink that gives way (1070), a       *)
(* real-time one whose thread was refused (870, 1078); until teardown,     *)
(* never one that was written to in real time.                             *)
NeverGone ==
  /\ \A a \in {audio, guest} : a.at = "write" /\ a.sk # 0 => sinks[a.sk].state = "open"
  /\ watch.sk # 0 /\ sinks[watch.sk].state = "gone" =>
       watch.sk # g_sink /\ (leaving.begun \/ ~sinks[watch.sk].wrote)

(* "audio thread OR frame-tick pump, never both" (above g_acc): the two    *)
(* mixing buffers have one user.                                           *)
OneMixer == ~(audio.at \in {"mix", "write"} /\ guest.at \in {"mix", "write"})

(* "No blocking call runs under the GIL": the guest thread reaches no      *)
(* real-time write, nor a drain, before teardown; and a real-time sink     *)
(* that is published has its thread (above open_sink).                     *)
NoStall ==
  /\ ~stalled
  /\ guest.at = "write" /\ guest.sk # 0 => ~SelfPaced(guest.sk)
  /\ g_sink # 0 /\ SelfPaced(g_sink) /\ ~leaving.begun => run /\ audio.at \in {"top", "mix", "write"}

(* A sink is published, closed, or left to a thread that did not join.     *)
NoneForgotten ==
  Idle => \A s \in DOMAIN sinks :
            sinks[s].state = "open" => s = g_sink \/ (leaving.begun /\ th)

(* A jump of the guest's clock makes a second of sound at most, and none   *)
(* is made in advance.                                                     *)
PumpFollowsClock == guest.owed <= Second /\ (pump.started => pump.produced + guest.owed <= Target)

SinksSafe == NeverGone /\ OneMixer /\ NoStall /\ NoneForgotten /\ PumpFollowsClock
============================================================================
