-------------------------------- MODULE WavFile --------------------------------
(***************************************************************************)
(* The WAV sink (runtime/audio_sink_host.cpp, WavSink): samples go through    *)
(* the C library's buffer and the header is rewritten at times, so that a     *)
(* run that is killed leaves a file that says no more than it holds.  The     *)
(* library's stream is external: it may write out any part of what it holds,  *)
(* in order, whenever it likes, and seeking writes out all of it.             *)
(***************************************************************************)
EXTENDS Integers, Sequences

CONSTANTS
    Every,      \* units of samples between two refreshes (64 KiB)
    Writes,     \* the sizes of the mixer's writes
    MaxData,    \* bound: units of samples in the file
    MaxHeld     \* the writes the library's buffer can hold

WavAssumption == /\ Every \in Nat \ {0} /\ Writes \subseteq Nat \ {0}
                 /\ \E n \in Writes : \A k \in Writes : k <= n

NoHeader == -1

VARIABLES
    pc,         \* "new", "open", "seek", "head", "back", "closed", "failed" or "killed"
    closing,    \* the refresh under way is the one of close
    data,       \* data_: the units of samples counted
    last,       \* lastHdr_
    held,       \* the library's buffer: writes not yet on disk, in order
    disk        \* the file: the size its header declares, and the units it holds
vars == <<pc, closing, data, last, held, disk>>

Init == /\ pc = "new" /\ closing = FALSE /\ data = 0 /\ last = 0 /\ held = <<>>
        /\ disk = [declared |-> NoHeader, samples |-> 0]

Header(n) == [kind |-> "header", n |-> n]
Samples(n) == [kind |-> "samples", n |-> n]
Put(d, w) == IF w.kind = "header" THEN [d EXCEPT !.declared = w.n]
                                  ELSE [d EXCEPT !.samples = @ + w.n]
\* The file once the first n writes of the buffer are on disk.
OnDisk(n) == LET f[i \in 0 .. n] == IF i = 0 THEN disk ELSE Put(f[i - 1], held[i])
             IN f[n]

\* The library writes out a part of its buffer.
Drain == /\ pc \notin {"killed", "closed", "failed"}
         /\ \E n \in 1 .. Len(held) :
               disk' = OnDisk(n) /\ held' = SubSeq(held, n + 1, Len(held))
         /\ UNCHANGED <<pc, closing, data, last>>
Flushed == disk' = OnDisk(Len(held)) /\ held' = <<>>

Open == /\ pc = "new"
        /\ \/ pc' = "open" /\ held' = <<Header(0)>>
           \/ pc' = "failed" /\ UNCHANGED held
        /\ UNCHANGED <<closing, data, last, disk>>

\* When the header is due.
Due(d, l) == d - l >= Every
\* write: a write that fails is not counted, though the file holds a part of it.
Write(n) ==
    /\ pc = "open" /\ Len(held) < MaxHeld
    /\ OnDisk(Len(held)).samples + n <= MaxData
    /\ \/ /\ held' = Append(held, Samples(n))
          /\ data' = data + n
          /\ IF Due(data', last) THEN last' = data' /\ pc' = "seek"
                                 ELSE UNCHANGED <<last, pc>>
       \/ /\ held' = IF n = 1 THEN held ELSE Append(held, Samples(n - 1))
          /\ UNCHANGED <<data, last, pc>>
    /\ UNCHANGED <<closing, disk>>

\* refresh_header, one call of the library at a time.  ftell failed: nothing.
Seek == /\ pc = "seek"
        /\ \/ Flushed /\ pc' = "head"
           \/ UNCHANGED <<disk, held>> /\ pc' = "back"
        /\ UNCHANGED <<closing, data, last>>
\* The size the header is given.
Declared(d) == d
\* A fault: the header announces the samples up to its next refresh.
DeclaredAhead(d) == d + Every
Announced(d) == Declared(d)
Head_ == /\ pc = "head"
         /\ held' = Append(held, Header(Announced(data))) /\ pc' = "back"
         /\ UNCHANGED <<closing, data, last, disk>>
Back == /\ pc = "back"
        /\ Flushed
        /\ pc' = IF closing THEN "closed" ELSE "open"
        /\ UNCHANGED <<closing, data, last>>

Close == /\ pc = "open" /\ pc' = "seek" /\ closing' = TRUE
         /\ UNCHANGED <<data, last, held, disk>>

\* The run is killed: what the library held is gone.
Kill == /\ pc \notin {"killed", "closed", "failed"}
        /\ pc' = "killed" /\ held' = <<>>
        /\ UNCHANGED <<closing, data, last, disk>>

Next == \/ Drain \/ Open \/ Seek \/ Head_ \/ Back \/ Close \/ Kill
        \/ \E n \in Writes : Write(n)

Spec == Init /\ [][Next]_vars

-----------------------------------------------------------------------------
Largest == CHOOSE n \in Writes : \A k \in Writes : k <= n

\* At every moment, so also after a kill at any moment, the file on disk is
\* empty or starts with a header, and the header declares no more samples than
\* the file holds; what a refresh has finished lags the counted samples by less
\* than one interval and a write; a closed file declares all that was counted.
NeverOverstated ==
    /\ disk.declared # NoHeader => disk.declared <= disk.samples
    /\ disk.samples > 0 => disk.declared # NoHeader
    /\ pc \in {"open", "seek"} => data - last < Every + Largest
    /\ pc = "closed" => disk.declared = data \/ disk.declared <= last
=============================================================================
