------------------------------ MODULE DsBuffers -----------------------------
(***************************************************************************)
(* The slots of the DirectSound emulation (src/runtime/ds_emul.cpp): which *)
(* guest buffer each voice reads, who counts its readers, and the two      *)
(* lists slots are reused from.  Buffers are never freed, only reused.     *)
(* Playback is DsVoice's.  A slot is its index in `voices`; the guest's    *)
(* object of a slot names the same index for ever (alloc_obj).             *)
(***************************************************************************)
EXTENDS Integers, Sequences, SequencesExt, FiniteSets

CONSTANTS
  Sizes,    \* buffer sizes the guest asks for
  MaxSlots, \* bound: slots that fit in the scratch and in the VA arena
  MaxRefs,  \* bound: references on one object
  MaxListed \* bound: entries of the list of free buffers

\* A buffer of no bytes is refused, but for the primary, which gets some.
SizesAssumption == Sizes \subseteq Nat \ {0}

VARIABLES
  voices,   \* g_voices
  freeV,    \* g_freeVoices
  freeDup   \* g_freeDupVoices

vars == <<voices, freeV, freeDup>>
Slots == DOMAIN voices
None == 0   \* (size_t)-1

Init == voices = <<>> /\ freeV = <<>> /\ freeDup = <<>>

(* voice_of: the object's slot, if it is alive.                            *)
Alive(s) == s \in Slots /\ voices[s].alive

(* Room for one more slot: the arena and the scratch allocator refuse at   *)
(* any time, and surely past the bound.                                    *)
Room == Len(voices) < MaxSlots

Owner(buf, cap, bytes, primary) ==
  [obj |-> TRUE, buf |-> buf, cap |-> cap, len |-> bytes, alive |-> TRUE, primary |-> primary,
   ownsBuf |-> TRUE, shares |-> 0, owner |-> None, ref |-> 1]

Fits(bytes) == {k \in DOMAIN freeV : voices[freeV[k]].cap >= bytes /\ voices[freeV[k]].obj}

(* m_ds_createbuffer: the first slot of the list that is large enough.     *)
Reuse(bytes, primary) ==
  \E k \in Fits(bytes) :
    LET s == freeV[k]
    IN /\ \A j \in Fits(bytes) : k <= j
       /\ voices' = [voices EXCEPT ![s] = Owner(@.buf, @.cap, bytes, primary)]
       /\ freeV' = RemoveAt(freeV, k)
       /\ UNCHANGED freeDup

(* Or a new one.  When only the object is refused, the slot stays behind,  *)
(* dead, with its buffer.                                                  *)
CreateNew(bytes, primary) ==
  /\ Fits(bytes) = {} /\ Room
  /\ LET fresh == Owner(Len(voices) + 1, bytes, bytes, primary)
     IN \/ voices' = Append(voices, fresh)
        \/ voices' = Append(voices, [fresh EXCEPT !.obj = FALSE, !.alive = FALSE, !.ref = 0])
  /\ UNCHANGED <<freeV, freeDup>>

CreateSoundBuffer(bytes, primary) == Reuse(bytes, primary) \/ CreateNew(bytes, primary)

(* The duplicate of slot s: its bytes, nothing to reuse, its own playback. *)
DuplicateOf(s, shares) ==
  [voices[s] EXCEPT !.cap = 0, !.ownsBuf = FALSE, !.owner = s, !.primary = FALSE,
                    !.ref = 1, !.shares = shares]

(* DuplicateSoundBuffer: never of the primary.  A refused object leaves no *)
(* slot behind.  A recycled slot keeps the shares it had.                  *)
DuplicateSoundBuffer(s) ==
  /\ Alive(s) /\ ~voices[s].primary
  /\ LET counted == [voices EXCEPT ![s].shares = @ + 1]
     IN \/ /\ freeDup # <<>>
           /\ LET d == Last(freeDup)
              IN voices' = [counted EXCEPT ![d] = DuplicateOf(s, @.shares)]
           /\ freeDup' = Front(freeDup)
        \/ /\ freeDup = <<>> /\ Room
           /\ voices' = Append(counted, DuplicateOf(s, 0))
           /\ UNCHANGED freeDup
  /\ UNCHANGED freeV

AddRef(s) ==
  /\ s \in Slots /\ voices[s].obj /\ voices[s].ref < MaxRefs
  /\ voices' = [voices EXCEPT ![s].ref = @ + 1]
  /\ UNCHANGED <<freeV, freeDup>>

(* An owner goes to the list itself if it has no duplicate left, or the    *)
(* last of its duplicates sends it there.  Whoever was duplicated counts   *)
(* the duplicate, be it one itself.                                        *)
(* Fault: the owner goes at once.                                          *)
ReturnedAtOnce(s) ==
  IF voices[s].ownsBuf THEN <<s>>
  ELSE LET o == voices[s].owner
       IN IF voices[o].shares = 1 /\ ~voices[o].alive THEN <<o>> ELSE <<>>
Returned(s) ==
  IF voices[s].ownsBuf THEN IF voices[s].shares = 0 THEN <<s>> ELSE <<>>
  ELSE LET o == voices[s].owner
       IN IF voices[o].shares = 1 /\ ~voices[o].alive THEN <<o>> ELSE <<>>

(* m_buf_release: nothing more while references are left, or for a slot    *)
(* that is already dead.                                                   *)
Release(s) ==
  /\ s \in Slots /\ voices[s].obj /\ voices[s].ref > 0
  /\ LET left == [voices EXCEPT ![s].ref = @ - 1]
         dead == [left EXCEPT ![s].alive = FALSE]
         o == voices[s].owner
     IN IF voices[s].ref > 1 \/ ~voices[s].alive
        THEN voices' = left /\ UNCHANGED <<freeV, freeDup>>
        ELSE /\ freeV' = freeV \o Returned(s) /\ Len(freeV') <= MaxListed
             /\ IF voices[s].ownsBuf
                THEN voices' = dead /\ UNCHANGED freeDup
                ELSE /\ voices' = IF voices[o].shares > 0
                                  THEN [dead EXCEPT ![o].shares = @ - 1] ELSE dead
                     /\ freeDup' = Append(freeDup, s)

Next ==
  \/ \E bytes \in Sizes, primary \in BOOLEAN : CreateSoundBuffer(bytes, primary)
  \/ \E s \in Slots : DuplicateSoundBuffer(s) \/ AddRef(s) \/ Release(s)

Spec == Init /\ [][Next]_vars
----------------------------------------------------------------------------
(* m_buf_release: "A shared buffer returns to the reuse pool only once     *)
(* nobody is reading it anymore."  The exception: a duplicate of a         *)
(* duplicate is counted by that one (ds_emul.cpp:515), so that the owner   *)
(* returns when it has no direct duplicate left (453-460), and its bytes   *)
(* are reused while the indirect one reads them.                           *)
Indirect(s) == ~voices[s].ownsBuf /\ ~voices[voices[s].owner].ownsBuf
SharedHeld ==
  \A k \in DOMAIN freeV, s \in Slots :
    voices[freeV[k]].ownsBuf /\ Alive(s) /\ voices[s].buf = voices[freeV[k]].buf => Indirect(s)

(* Every dead slot can be reused, once, from the list of its kind; what is *)
(* in neither is an owner whose duplicates still read, or a slot that was  *)
(* refused its object.  The exception: a dead duplicate that was           *)
(* duplicated is also put, any number of times, among the buffers, where   *)
(* it fits no size.                                                        *)
Times(list, s) == Cardinality({k \in DOMAIN list : list[k] = s})
SlotsAccounted ==
  \A s \in Slots :
    LET ready == IF Alive(s) \/ ~voices[s].obj \/ (voices[s].ownsBuf /\ voices[s].shares > 0) THEN 0 ELSE 1
    IN /\ voices[s].ownsBuf => Times(freeV, s) = ready /\ Times(freeDup, s) = 0
       /\ ~voices[s].ownsBuf => Times(freeDup, s) = ready /\ voices[s].cap = 0

(* Writing into a buffer reaches only those who asked to share it: alive   *)
(* voices with the same buffer were duplicated from one another.           *)
OneOwner ==
  \A s, t \in Slots :
    Alive(s) /\ Alive(t) /\ voices[s].buf = voices[t].buf /\ s # t =>
      ~(voices[s].ownsBuf /\ voices[t].ownsBuf)

BuffersSafe == SharedHeld /\ SlotsAccounted /\ OneOwner
============================================================================
