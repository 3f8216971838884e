------------------------------- MODULE DsVoice -------------------------------
(***************************************************************************)
(* One DirectSound voice (src/runtime/ds_emul.cpp): its cursor, which the  *)
(* guest polls, and the mixer, which reads the samples.  mix_grain moves   *)
(* the cursor under g_mx, by one division, and reads the samples outside   *)
(* it, frame by frame; nothing but arithmetic keeps the two together.      *)
(* Positions are bytes.                                                    *)
(***************************************************************************)
EXTENDS Integers

CONSTANTS
  Rate,     \* kRate
  Grain,    \* kGrain
  Aligns,   \* values of nBlockAlign
  Frames,   \* buffer lengths, in frames
  Freqs     \* frequencies the guest asks for

VoiceAssumption ==
  /\ Rate \in Nat \ {0} /\ Grain \in Nat \ {0}
  /\ Aligns \subseteq {2, 4} /\ Frames \subseteq Nat \ {0}
  /\ Freqs \subseteq Nat \ {0}

VARIABLES
  v,      \* the Voice: len, blockAlign, rate, cursor, posAcc, playing, looping
  read,   \* where the mixer's own position ended, or that it ran out
  lock    \* the two segments of the last Lock, and its place in the ring

vars == <<v, read, lock>>

Least(a, b) == IF a < b THEN a ELSE b
Most(a, b)  == IF a < b THEN b ELSE a
NoLock == [off |-> 0, b1 |-> 0, b2 |-> 0, want |-> 0, fromWrite |-> FALSE]

(* A voice, stopped at its start.                                          *)
Voice(len, align, rate) ==
  [len |-> len, blockAlign |-> align, rate |-> rate, cursor |-> 0,
   posAcc |-> 0, playing |-> FALSE, looping |-> FALSE]

(* CreateSoundBuffer of a whole number of frames.                          *)
Init ==
  /\ \E a \in Aligns, n \in Frames, f \in Freqs \cup {Rate} : v = Voice(n * a, a, f)
  /\ read = [pos |-> 0, done |-> FALSE]
  /\ lock = NoLock

(* Two grains ahead, a quarter of the buffer at most, a frame at least.    *)
(* Fault: without the last bound.                                          *)
WriteCursorAtMost(w) ==
  (w.cursor + Least(2 * Grain * w.blockAlign, w.len \div 4)) % w.len
WriteCursor(w) ==
  LET lead == Least(2 * Grain * w.blockAlign, w.len \div 4)
  IN (w.cursor + Most(lead, w.blockAlign)) % w.len

Play(loop) == /\ v' = [v EXCEPT !.playing = TRUE, !.looping = loop]
              /\ UNCHANGED <<read, lock>>
Stop == /\ v' = [v EXCEPT !.playing = FALSE]
        /\ UNCHANGED <<read, lock>>

(* The guest sets positions at the start of a frame.                       *)
SetPosition(frame) ==
  /\ v' = [v EXCEPT !.cursor = (frame * v.blockAlign) % v.len, !.posAcc = 0]
  /\ UNCHANGED <<read, lock>>

(* DSBFREQUENCY_ORIGINAL, zero, changes nothing.                           *)
SetFrequency(f) == /\ f # 0 /\ f # v.rate
                   /\ v' = [v EXCEPT !.rate = f]
                   /\ UNCHANGED <<read, lock>>

(* Lock: the whole buffer, from the write cursor, or from an offset; the   *)
(* second segment only if the caller asked for one.                        *)
Lock(how, offset, bytes, second) ==
  LET from == CASE how = "entire" -> 0
                [] how = "write"  -> WriteCursor(v)
                [] how = "at"     -> offset
      off  == from % v.len
      want == Least(IF how = "entire" THEN v.len ELSE bytes, v.len)
      b1   == Least(want, v.len - off)
  IN /\ lock' = [off |-> off, b1 |-> b1, b2 |-> IF second THEN want - b1 ELSE 0,
                 want |-> IF second THEN want ELSE b1, fromWrite |-> how = "write"]
     /\ UNCHANGED <<v, read>>
----------------------------------------------------------------------------
(* mix_grain                                                               *)

(* Under g_mx: the cursor of a playing voice advances, heard or not.       *)
(* Fault: a voice that ends keeps the remainder of its last frame.         *)
AdvancedKeep(w, n) ==
  LET total == w.posAcc + n * w.rate
      p == w.cursor + (total \div Rate) * w.blockAlign
  IN IF w.looping
     THEN [w EXCEPT !.posAcc = total % Rate, !.cursor = p % w.len]
     ELSE [w EXCEPT !.posAcc = total % Rate, !.cursor = Least(p, w.len)]

Advanced(w, n) ==
  LET total == w.posAcc + n * w.rate
      p == w.cursor + (total \div Rate) * w.blockAlign
      moved == [w EXCEPT !.posAcc = total % Rate]
  IN IF total \div Rate = 0 THEN moved
     ELSE IF w.looping THEN [moved EXCEPT !.cursor = p % w.len]
     ELSE IF p < w.len THEN [moved EXCEPT !.cursor = p]
     ELSE [w EXCEPT !.cursor = w.len - w.blockAlign, !.playing = FALSE, !.posAcc = 0]

(* Outside it: one read per output frame, then as many steps as the        *)
(* resampling remainder holds; past the end a loop wraps, a one-shot       *)
(* voice falls silent.                                                     *)
StepTo(w, at) ==
  LET next == at.pos + w.blockAlign
  IN IF next + w.blockAlign <= w.len THEN [at EXCEPT !.pos = next]
     ELSE IF w.looping THEN [at EXCEPT !.pos = 0]
     ELSE [at EXCEPT !.done = TRUE]

Reading(w, n) ==
  LET steps[k \in Nat, at \in [pos : Nat, done : BOOLEAN]] ==
        IF k = 0 \/ at.done THEN at ELSE steps[k - 1, StepTo(w, at)]
      frame[i \in Nat, acc \in Nat, at \in [pos : Nat, done : BOOLEAN]] ==
        IF i = 0 \/ at.done THEN at
        ELSE frame[i - 1, (acc + w.rate) % Rate, steps[(acc + w.rate) \div Rate, at]]
  IN frame[n, w.posAcc, [pos |-> w.cursor % w.len, done |-> FALSE]]

MixGrain(n) ==
  /\ v.playing
  /\ v' = Advanced(v, n)
  /\ read' = Reading(v, n)
  /\ lock' = NoLock

Next ==
  \/ \E loop \in BOOLEAN : Play(loop)
  \/ Stop
  \/ \E k \in 0..(v.len \div v.blockAlign) : SetPosition(k)
  \/ \E f \in Freqs \cup {0, Rate} : SetFrequency(f)
  \/ \E how \in {"entire", "write", "at"}, o, b \in {0, v.blockAlign, v.len - 1, v.len + 1},
        second \in BOOLEAN : Lock(how, o, b, second)
  \/ \E n \in 1..Grain : MixGrain(n)

Spec == Init /\ [][Next]_vars
----------------------------------------------------------------------------
(* What the comment above Snap promises: the mix's final position and the  *)
(* cursor's are exactly the same, whatever the frequencies along the way,  *)
(* and a one-shot voice falls silent in the grain that reports it stopped. *)
MixFollowed ==
  \A n \in 1..Grain : MixGrain(n) =>
    IF read'.done THEN ~v'.playing ELSE v'.playing /\ read'.pos = v'.cursor
CursorFollowsMix == [][MixFollowed]_vars

(* The guest is never offered what is about to be played: the write cursor *)
(* is not the read cursor (the reason given above write_cursor), and a     *)
(* Lock gives the bytes asked for, once, inside the buffer.                *)
LocksApart ==
  /\ v.len > v.blockAlign => WriteCursor(v) # v.cursor
  /\ lock.b1 + lock.b2 = lock.want
  /\ lock.off + lock.b1 <= v.len /\ lock.b2 <= lock.off
============================================================================
