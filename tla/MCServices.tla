---------------------------- MODULE MCServices ----------------------------
(* One run for the services a guest calls: sound, network, keyboard, waits *)
(* on handles, and the names and the end of the threads that call.  A      *)
(* behaviour is one part's.  The network is Winsock, which this module     *)
(* extends; the other parts use the same variables x1, ..., x13.           *)
EXTENDS Winsock, Sequences, TLC

CONSTANTS
  Rate, Grain, Aligns, Frames, Freqs,                 \* DsVoice
  Sizes, MaxSlots, MaxRefs, MaxListed,                \* DsBuffers
  MaxTick, PerTick, Second, Delay, Tries,             \* AudioOut
  Every, Writes, MaxData, MaxHeld,                    \* WavFile
  Full, Simple, EchoMax, ScreenW, ScreenH, MaxTyped,  \* Keyboard
  Makes, MaxObjects, MaxPosts, MaxSema,               \* WaitShims
  Takers, Unnamed, Stacks, IdSlots, Depths, MaxAcq,      \* GilIdent, of the threads Takers
  Runners                                             \* Teardown

VARIABLES part, x1, x2, x3, x4, x5, x6, x7, x8, x9, x10, x11, x12, x13
MCvars == <<part, x1, x2, x3, x4, x5, x6, x7, x8, x9, x10, x11, x12, x13, vars>>

Alike == Permutations(Threads) \cup Permutations(Stacks)

-----------------------------------------------------------------------------
(* What a part does not use.                                               *)
From13 == x13 = 0
From12 == x12 = 0 /\ From13
From11 == x11 = 0 /\ From12
From10 == x10 = 0 /\ From11
From9  == x9 = 0 /\ From10
From8  == x8 = 0 /\ From9
From7  == x7 = 0 /\ From8
From6  == x6 = 0 /\ From7
From5  == x5 = 0 /\ From6
From4  == x4 = 0 /\ From5
From1  == x1 = 0 /\ x2 = 0 /\ x3 = 0 /\ From4

Keep13 == UNCHANGED x13
Keep12 == UNCHANGED x12 /\ Keep13
Keep11 == UNCHANGED x11 /\ Keep12
Keep10 == UNCHANGED x10 /\ Keep11
Keep9  == UNCHANGED x9 /\ Keep10
Keep8  == UNCHANGED x8 /\ Keep9
Keep7  == UNCHANGED x7 /\ Keep8
Keep6  == UNCHANGED x6 /\ Keep7
Keep5  == UNCHANGED x5 /\ Keep6
Keep4  == UNCHANGED x4 /\ Keep5
Keep1  == UNCHANGED <<x1, x2, x3>> /\ Keep4

-----------------------------------------------------------------------------
(* Voices slower and faster than the mixer, in rings of fewer and of more  *)
(* frames than a grain.                                                    *)
Voice == INSTANCE DsVoice WITH
  v <- x1, read <- x2, lock <- x3
(* Three slots, so that one is reused beside one shared and one in use.    *)
Buffers == INSTANCE DsBuffers WITH
  voices <- x1, freeV <- x2, freeDup <- x3
(* A tick asks for more than half a pump; the retries outlast a shutdown.  *)
Sinks == INSTANCE AudioOut WITH
  host <- x1, sinks <- x2, g_sink <- x3, run <- x4, th <- x5, audio <- x6, guest <- x7,
  defer <- x8, pump <- x9, tick <- x10, leaving <- x11, stalled <- x12, watch <- x13
Wav == INSTANCE WavFile WITH
  pc <- x1, closing <- x2, data <- x3, last <- x4, held <- x5, disk <- x6

(* Two threads over one descriptor, which a second socket gets again; the  *)
(* exit lock is on, with a redirection that does not respect it.  The      *)
(* network is checked with a select that only polls, beside timed          *)
(* receives, with one that waits, without them, and with two descriptors,  *)
(* one for whoever calls, in calls that do not wait.                       *)
OneFd == Open \subseteq {1} /\ \A fd \in Open : host[fd].state # "listening"
AtOnce == rcvTimeo = <<>> /\ now = 0 /\ \A t \in Threads : thread[t] = Idle
Ends   == {thread[t].end : t \in {u \in Threads : "end" \in DOMAIN thread[u]}}
Polls  == \A e \in Ends : e <= now
Blocks == rcvTimeo = <<>> /\ \A e \in Ends : e > now

(* A row of keys for a last row of six, and one key for a last row of four.*)
FullKeys == [keys |-> <<2>>, fn |-> <<"shift", "space", "back", "enter", "mask", "close">>]
SimpleKeys == [keys |-> <<1>>, fn |-> <<"space", "back", "enter", "close">>]
Keys == INSTANCE Keyboard WITH
  s <- x1, todo <- x2, draw <- x3, text <- x4, typed <- x5, shown <- x6

(* Mutexes, semaphores and events; ports beside a mutex; two packets.      *)
Handles == INSTANCE WaitShims WITH
  MaxHandle <- MaxObjects, obj <- x1, queue <- x2, posted <- x3, outp <- x4, out <- x5,
  pend <- x6, multi <- x7, eax <- x8, held <- x9, misused <- x10
Scope ==
  [handles |-> [kinds |-> {"mutex", "sema", "auto"}, objects |-> 2, posts |-> 0],
   mixed   |-> [kinds |-> {"port", "mutex"}, objects |-> 2, posts |-> 1],
   ports   |-> [kinds |-> {"port"}, objects |-> 1, posts |-> 2]]
Waiting == part \in DOMAIN Scope
InScope == /\ Len(x1) <= Scope[part].objects /\ x3 <= Scope[part].posts
           /\ \A h \in DOMAIN x1 : x1[h].kind \in Scope[part].kinds

(* Two addresses, each of whose sections is deleted and made anew.         *)
Crits == INSTANCE CritTable WITH
  Threads <- {1, 2}, Addresses <- {1, 2}, MaxSections <- 4, MaxDepth <- 2,
  g_crits <- x1, last <- x2, made <- x3, crit <- x4, parked <- x5, inside <- x6

(* A thread that registers and one that does not, on two stacks and for    *)
(* one slot of the table; a process of two threads beside main.            *)
Names == INSTANCE GilIdent WITH
  Thread <- Takers, Slots <- IdSlots, mu <- x1, owned <- x2, held <- x3, mark <- x4, acq <- x5, shimOwner <- x6,
  shimVa <- x7, table <- x8, reserved <- x9, th <- x10, probe <- x11, last <- x12, seen <- x13
Death == INSTANCE Teardown WITH
  Gil <- "free", pc <- x1, net <- x2, started <- x3, stop <- x4,
  beat <- x5, gil <- x6, known <- x7, host <- x8, finished <- x9, shutdown <- x10, snap <- x11,
  joined <- x12, leaked <- x13

ASSUME SoundAssumption == Voice!VoiceAssumption /\ Buffers!SizesAssumption /\ Sinks!SinkAssumption /\ Wav!WavAssumption
ASSUME TypingAssumption == Keys!KeyAssumption
ASSUME WaitsAssumption == Handles!WaitAssumption
ASSUME ThreadsAssumption == Names!NamesAssumption /\ Death!TeardownAssumption

-----------------------------------------------------------------------------
MCInit ==
  /\ Init
  /\ \/ part = "voice" /\ Voice!Init /\ From4
     \/ part = "buffers" /\ Buffers!Init /\ From4
     \/ part = "sinks" /\ Sinks!Init
     \/ part = "wav" /\ Wav!Init /\ From7
     \/ part \in {"net", "select", "callers"} /\ From1
     \/ part = "keys" /\ Keys!Init /\ From7
     \/ Waiting /\ Handles!Init /\ From11
     \/ part = "crits" /\ Crits!Init /\ From7
     \/ part = "gil" /\ Names!Init
     \/ part = "end" /\ Death!Init

Steps ==
  \/ part = "voice" /\ Voice!Next /\ Keep4
  \/ part = "buffers" /\ Buffers!Next /\ Keep4
  \/ part = "sinks" /\ Sinks!Next
  \/ part = "wav" /\ Wav!Next /\ Keep7
  \/ part = "keys" /\ Keys!Next /\ Keep7
  \/ Waiting /\ Handles!Next /\ InScope' /\ Keep11
  \/ part = "crits" /\ Crits!Next /\ Keep7
  \/ part = "gil" /\ Names!Next
  \/ part = "end" /\ Death!Next
NetSteps ==
  \/ part = "net" /\ Next /\ (OneFd /\ Polls)'
  \/ part = "select" /\ Next /\ (OneFd /\ Blocks)'
  \/ part = "callers" /\ Next /\ AtOnce'
MCNext == /\ UNCHANGED part
          /\ \/ Steps /\ UNCHANGED vars
             \/ NetSteps /\ Keep1
MCSpec == MCInit /\ [][MCNext]_MCvars

-----------------------------------------------------------------------------
(* A packet leaves its port, in the order of the posts, for the thread     *)
(* that is told so (PacketStep); a wait for all of several handles,        *)
(* answered at once or after the thread was parked, takes each of them     *)
(* once, or none, but for a semaphore listed twice (AllTaken).             *)
WaitsServed == [][Waiting => Handles!AllTaken /\ Handles!PacketStep]_MCvars

(* The cursor a voice reports ends each grain where the mixer's own        *)
(* position did, whatever the rates, and a one-shot falls silent in the    *)
(* grain that reports it stopped.                                          *)
MixHeard == [][part = "voice" => Voice!MixFollowed]_MCvars

(* What a Lock offers lies in the buffer and is not what is about to be    *)
(* played (LocksApart); a sound buffer is reused only when nobody reads    *)
(* it, but for duplicates of duplicates (SharedHeld); a sink is there,     *)
(* open and alone when a thread writes to it, while the watchdog may ask   *)
(* one that is gone (NeverGone); a file's header never promises more than  *)
(* the file holds (NeverOverstated).                                       *)
SoundSafe ==
  /\ part = "voice" => Voice!LocksApart
  /\ part = "buffers" => Buffers!BuffersSafe
  /\ part = "sinks" => Sinks!SinksSafe
  /\ part = "wav" => Wav!NeverOverstated

(* What the keyboard shows and gives back (KeyboardHonest).                *)
TypingHonest == part = "keys" => Keys!KeyboardHonest

(* One holder or its signal for a mutex that no call has set, reset or     *)
(* released for its holder, one place for a packet, and what a parked      *)
(* thread waits for is what it asked for (WaitsHonest); one thread in the  *)
(* critical section of an address (OneInside).                             *)
HandlesHonest == /\ Waiting => Handles!WaitsHonest
                 /\ part = "crits" => Crits!OneInside

(* A probe without a lock names a thread that had the GIL while it looked, *)
(* and the end of the process leaves no host thread unaccounted for.       *)
ThreadsHonest == /\ part = "gil" => Names!GilHonest
                 /\ part = "end" => Death!EndsClean
============================================================================
