---------------------------- MODULE ImageDigest -----------------------------
(***************************************************************************)
(* The Authenticode digest of a PE file (src/runtime/authenticode.cpp,     *)
(* pe_image_digest) and the buffering of the hashers under it (Sha1,       *)
(* Sha256: update, final).  A byte is its offset in the file; a block is   *)
(* what the compression function is given.                                 *)
(***************************************************************************)
EXTENDS Naturals, Sequences, FiniteSets, SequencesExt

CONSTANTS
  Block,    \* bytes of a block (64)
  LenAt,    \* where the length goes in the last one (56)
  Layouts   \* files: size, headers, checksum and entry ranges, sections, table

VARIABLES
  pe,      \* the file
  todo,    \* the ranges still to hash
  buf,     \* Sha::buf, as far as it is filled
  fed,     \* Sha::n
  blocks,  \* what the compression function was given
  ended

vars == <<pe, todo, buf, fed, blocks, ended>>

(* A range of a file: offset and length.                                   *)
End(r) == r.off + r.len
Bytes(r) == [i \in 1..r.len |-> <<"byte", r.off + i - 1>>]
Offsets(r) == r.off .. End(r) - 1
Between(a, b) == [off |-> a, len |-> IF b > a THEN b - a ELSE 0]

(* Sections without data are left out, the others go by file offset.       *)
Sections(f) == SortSeq(SelectSeq(f.sections, LAMBDA s : s.len > 0), LAMBDA a, b : a.off < b.off)
HashedEnd(f) == FoldLeft(LAMBDA m, s : IF End(s) > m THEN End(s) ELSE m, f.headers, Sections(f))

(* What is left after the last section, around the certificate table.      *)
(* Fault: the certificate table is hashed too.                             *)
AfterWhole(f) == <<Between(HashedEnd(f), f.size)>>
After(f) == <<Between(HashedEnd(f), f.table.off),
             IF End(f.table) > HashedEnd(f) THEN Between(End(f.table), f.size) ELSE Between(0, 0)>>
Rest(f) == IF f.table.len = 0 THEN <<Between(HashedEnd(f), f.size)>> ELSE After(f)

Ranges(f) == <<Between(0, f.checksum.off), Between(End(f.checksum), f.entry.off), Between(End(f.entry), f.headers)>>
             \o Sections(f) \o Rest(f)

(* Refused: no digest at all.                                              *)
Readable(f) == /\ f.headers <= f.size /\ f.headers >= End(f.entry)
               /\ \A i \in DOMAIN f.sections : End(f.sections[i]) <= f.size
               /\ End(f.table) <= f.size

Init == /\ pe \in Layouts /\ todo = IF Readable(pe) THEN Ranges(pe) ELSE <<>>
        /\ buf = <<>> /\ fed = 0 /\ blocks = <<>> /\ ended = ~Readable(pe)
----------------------------------------------------------------------------
(* update: whole blocks straight from the input while the buffer is empty, *)
(* otherwise through the buffer.                                           *)
LeastOf(a, b) == IF a < b THEN a ELSE b
Take(p, k) == SubSeq(p, 1, k)
Drop(p, k) == SubSeq(p, k + 1, Len(p))

(* One turn of the loop.                                                   *)
Turn(h) ==
  IF h.buf = <<>> /\ Len(h.p) >= Block
  THEN [h EXCEPT !.blocks = Append(@, Take(h.p, Block)), !.p = Drop(@, Block)]
  ELSE LET k == LeastOf(Len(h.p), Block - Len(h.buf))
           b == h.buf \o Take(h.p, k)
       IN [p |-> Drop(h.p, k), buf |-> IF Len(b) = Block THEN <<>> ELSE b,
           blocks |-> IF Len(b) = Block THEN Append(h.blocks, b) ELSE h.blocks]
Absorb(b, bl, p) ==
  FoldLeft(LAMBDA h, i : IF h.p = <<>> THEN h ELSE Turn(h), [p |-> p, buf |-> b, blocks |-> bl], p)

Update ==
  /\ todo # <<>>
  /\ LET p == Bytes(Head(todo))
         h == Absorb(buf, blocks, p)
     IN buf' = h.buf /\ blocks' = h.blocks /\ fed' = fed + Len(p)
  /\ todo' = SubSeq(todo, 2, Len(todo))
  /\ UNCHANGED <<pe, ended>>

(* final: one mark, zeroes up to the place of the length, the length.      *)
Mark == <<"mark", 128>>
Nil == <<"zero", 0>>
Length(x) == [i \in 1..Block - LenAt |-> <<"length", x>>]
\* Fault: a full buffer up to the length's place is still padded in place.
PaddingShort(fill) == <<Mark>> \o [i \in 1..(IF fill <= LenAt THEN LenAt - fill ELSE Block + LenAt - fill - 1) |-> Nil]
Padding(fill) == LET zeroes == IF fill < LenAt THEN LenAt - fill - 1 ELSE Block + LenAt - fill - 1
                 IN <<Mark>> \o [i \in 1..zeroes |-> Nil]

Final ==
  /\ todo = <<>> /\ ~ended
  /\ LET h == Absorb(buf, blocks, Padding(Len(buf)) \o Length(fed))
     IN buf' = h.buf /\ blocks' = h.blocks
  /\ ended' = TRUE
  /\ UNCHANGED <<pe, todo, fed>>

Next == Update \/ Final
Spec == Init /\ [][Next]_vars
----------------------------------------------------------------------------
(* For a file whose sections follow the headers without sharing a byte:    *)
(* the digest is that of the headers, the sections and what follows, in    *)
(* file order, each byte once, without the checksum, the directory entry   *)
(* and the certificate table; it does not depend on the pieces it was fed  *)
(* in, and its message ends as the standard says, with nothing left in the *)
(* buffer.  Two exceptions, against authenticode.h:23-24, where the table  *)
(* begins before the last section's end: what it shares with the sections  *)
(* is hashed, and if it also ends there the file's tail is not (670-671).  *)
WellFormed(f) ==
  /\ \A i \in DOMAIN f.sections : f.sections[i].len > 0 => f.sections[i].off >= f.headers
  /\ \A i, j \in DOMAIN f.sections : i # j => Offsets(f.sections[i]) \cap Offsets(f.sections[j]) = {}
Body(f) == ((0 .. f.headers - 1) \cup UNION {Offsets(f.sections[i]) : i \in DOMAIN f.sections})
             \ (Offsets(f.checksum) \cup Offsets(f.entry))
Beyond(f) == HashedEnd(f) .. f.size - 1
Standard(f) == (Body(f) \cup Beyond(f)) \ Offsets(f.table)
Lost(f) == IF f.table.len > 0 /\ End(f.table) <= HashedEnd(f) THEN Beyond(f) ELSE {}
Covered(f) == (Standard(f) \cup (Body(f) \cap Offsets(f.table))) \ Lost(f)

InOrder(S) == [i \in 1..Cardinality(S) |-> <<"byte", CHOOSE x \in S : Cardinality({y \in S : y <= x}) = i>>]

(* The standard's message: a multiple of the block, the fewest zeroes.     *)
IsMessage(m, data) ==
  /\ Len(m) % Block = 0 /\ Take(m, Len(data)) = data
  /\ LET pad == Drop(m, Len(data))
     IN /\ Len(pad) \in (Block - LenAt + 1) .. (2 * Block - LenAt) /\ Len(pad) - (Block - LenAt) <= Block
        /\ pad[1] = Mark
        /\ \A i \in 2 .. Len(pad) - (Block - LenAt) : pad[i] = Nil
        /\ Drop(pad, Len(pad) - (Block - LenAt)) = Length(Len(data))

DigestCoversImage ==
  ended /\ Readable(pe) /\ WellFormed(pe) =>
    /\ buf = <<>>
    /\ IsMessage(FlattenSeq(blocks), InOrder(Covered(pe)))
============================================================================
