----------------------------- MODULE CertExport -----------------------------
(***************************************************************************)
(* What a guest is given of a signature (src/runtime/authenticode.cpp,     *)
(* win32_shims_wintrust.cpp): CryptoAPI structures with pointers into the  *)
(* block that holds them, laid out once to know the size and once more     *)
(* where the guest wants them; names as UTF-16, in the guest's buffer; and *)
(* the wide path a guest passes, as the UTF-8 files are found by.          *)
(* A structure is laid out in words; a byte of it is data, or a part of a  *)
(* word.  The bytes of a text are bytes.                                   *)
(***************************************************************************)
EXTENDS Integers, Sequences, FiniteSets, SequencesExt

CONSTANTS
  Word,      \* bytes of a word (4)
  Half,      \* numbers a word of a FILETIME holds (2^32)
  Epoch,     \* seconds from 1601 to 1970
  Ticks,     \* of a second (10^7)
  Bases,     \* addresses of blocks and buffers
  Stores,    \* handles of stores
  Documents, \* what is asked about: of a kind
  MaxCch     \* bound: units of the buffer for a name

VARIABLES
  doc,   \* the signer, certificate, name or path
  told,  \* the size the guest was last told, 0 if none
  got,   \* what it was given last: where, and what
  store  \* the store a context was last asked from

vars == <<doc, told, got, store>>

Nothing == [at |-> 0, bytes |-> <<>>, room |-> 0]
Init == doc \in Documents /\ told = 0 /\ got = Nothing /\ store = 0

Least(a, b) == IF a < b THEN a ELSE b
-----------------------------------------------------------------------------
(* Layout: a buffer that grows, and the address it is meant for            *)

Byte(x)  == <<"byte", x>>
Zeros(n) == [i \in 1..n |-> Byte(0)]
Aligned(b) == b \o Zeros((-Len(b)) % Word)

(* u32: the word v at off.                                                 *)
Put(b, off, v) == [i \in DOMAIN b |-> IF i - off \in 1..Word THEN <<"word", v, i - off>> ELSE b[i]]

(* at: where the next data will be.                                        *)
(* Fault: before the padding.                                              *)
AtEnd(b, base) == base + Len(b)
At(b, base) == base + Len(Aligned(b))

(* blob, str and alg, pointed to from off.                                 *)
Blob(b, base, off, p) ==
  IF p = <<>> THEN Put(Put(b, off, 0), off + Word, 0)
  ELSE Put(Put(Aligned(b) \o p, off, Len(p)), off + Word, At(b, base))
Str(b, base, off, s) == Put(Aligned(b) \o s \o Zeros(1), off, At(b, base))
Alg(b, base, off, a) == Blob(Str(b, base, off, a.oid), base, off + Word, a.params)

(* A count and an array of entries, each filled by Entry.                  *)
Listed(b, base, off, items, words, Entry(_, _, _)) ==
  LET first == Len(Aligned(b))
      array == Aligned(b) \o Zeros(words * Word * Len(items))
      head  == Put(Put(array, off, Len(items)), off + Word, At(b, base))
  IN IF items = <<>> THEN Put(Put(b, off, 0), off + Word, 0)
     ELSE FoldLeftDomain(LAMBDA x, i : Entry(x, first + words * Word * (i - 1), items[i]), head, items)

(* put_attrs                                                               *)
Attrs(b, base, off, attrs) ==
  Listed(b, base, off, attrs, 3,
         LAMBDA x, e, a : Listed(Str(x, base, e, a.oid), base, e + Word, a.values, 2,
                                 LAMBDA y, f, v : Blob(y, base, f, v)))

(* reversed: an integer of DER as an integer of CryptoAPI.                 *)
(* Fault: as it is.                                                        *)
AsItIs(s) == s
Reversed(s) == Reverse(s)

(* build_signer_info: CMSG_SIGNER_INFO.                                    *)
SignerInfo(si, base) ==
  LET b0 == Put(Zeros(17 * Word), 0, si.version)
      b1 == Blob(b0, base, Word, si.issuer)
      b2 == Blob(b1, base, 3 * Word, Reversed(si.serial))
      b3 == Alg(b2, base, 5 * Word, si.digestAlg)
      b4 == Alg(b3, base, 8 * Word, si.encAlg)
      b5 == Blob(b4, base, 11 * Word, si.digest)
      b6 == Attrs(b5, base, 13 * Word, si.auth)
  IN Aligned(Attrs(b6, base, 15 * Word, si.unauth))

(* CMSG_SIGNER_CERT_INFO_PARAM: a CERT_INFO with the issuer and its serial.*)
SignerCert(si, base) ==
  Aligned(Blob(Blob(Zeros(28 * Word), base, Word, Reversed(si.serial)), base, 6 * Word, si.issuer))

FileTime(t) == (t + Epoch) * Ticks
Dated(b, off, t) == Put(Put(b, off, FileTime(t) % Half), off + Word, FileTime(t) \div Half)

(* fill_cert_info: a CERT_INFO at h.                                       *)
CertInfo(b, base, h, c) ==
  LET b1 == Blob(Put(b, h, c.version), base, h + Word, Reversed(c.serial))
      b2 == Alg(b1, base, h + 3 * Word, c.sigAlg)
      b3 == Blob(b2, base, h + 6 * Word, c.issuer)
      b4 == Dated(Dated(b3, h + 8 * Word, c.notBefore), h + 10 * Word, c.notAfter)
      b5 == Blob(b4, base, h + 12 * Word, c.subject)
      b6 == Alg(b5, base, h + 14 * Word, c.spkiAlg)
      b7 == Put(Blob(b6, base, h + 17 * Word, c.pubKey), h + 19 * Word, c.unused)
  IN Listed(b7, base, h + 26 * Word, c.exts, 4,
            LAMBDA x, e, ext : Blob(Put(Str(x, base, e, ext.oid), e + Word, ext.critical),
                                    base, e + 2 * Word, ext.value))

(* build_cert_context: CERT_CONTEXT, the encoding, CERT_INFO.              *)
CertContext(c, base, hStore) ==
  LET der   == Aligned(Zeros(5 * Word)) \o c.der
      info  == Len(Aligned(der))
      b     == CertInfo(Aligned(der) \o Zeros(28 * Word), base, info, c)
      whole == <<1, base + 5 * Word, Len(c.der), base + info, hStore>>
  IN Aligned(FoldLeftDomain(LAMBDA x, i : Put(x, (i - 1) * Word, whole[i]), b, whole))
-----------------------------------------------------------------------------
(* CryptMsgGetParam: a size, then the structure; a buffer too small gets   *)
(* the size again.                                                         *)
IsMessage == doc.kind \in {"signer", "issuer"}
Built(base) == IF doc.kind = "signer" THEN SignerInfo(doc, base) ELSE SignerCert(doc, base)

AskSize == /\ IsMessage
           /\ told' = Len(Built(0))
           /\ UNCHANGED <<doc, got, store>>
Ask(base, cap) ==
  LET bytes == Built(base)
  IN /\ IsMessage
     /\ told' = Len(bytes)
     /\ got' = IF cap < Len(bytes) THEN Nothing ELSE [at |-> base, bytes |-> bytes, room |-> cap]
     /\ UNCHANGED <<doc, store>>

(* context_for: in a scratch block of the size of a first layout; the next *)
(* store to return it writes its own handle into it.  Without room for the  *)
(* block nothing is given, and nothing changes.                            *)
Context(p, hStore) ==
  LET n == Len(CertContext(doc, 0, hStore))
  IN /\ doc.kind = "cert"
     /\ store' = hStore
     /\ got' = IF got = Nothing THEN [at |-> p, bytes |-> CertContext(doc, p, hStore), room |-> n]
               ELSE [got EXCEPT !.bytes = Put(@, 4 * Word, hStore)]
     /\ UNCHANGED <<doc, told>>
-----------------------------------------------------------------------------
(* Texts.  A decoder that meets what it cannot read keeps what it has.     *)

UnitsOf(cp) ==
  IF cp < 65536 THEN <<cp>>
  ELSE <<(55296 + ((cp - 65536) \div 1024)) % 65536, 56320 + ((cp - 65536) % 1024)>>
Number(bytes) == FoldLeft(LAMBDA n, b : 256 * n + b, 0, bytes)
Group(p, k, i) == SubSeq(p, k * (i - 1) + 1, k * i)
Wide(p, k) == [ok |-> Len(p) % k = 0,
               units |-> IF Len(p) % k # 0 THEN <<>>
                         ELSE FlattenSeq([i \in 1..Len(p) \div k |-> UnitsOf(Number(Group(p, k, i)))])]

(* How many bytes a character has, by its first; 0 for none.               *)
Width(c) == IF c < 128 THEN 1 ELSE IF c \div 32 = 6 THEN 2 ELSE IF c \div 16 = 14 THEN 3
            ELSE IF c \div 8 = 30 THEN 4 ELSE 0
Lead(c, k) == CASE k = 1 -> c [] k = 2 -> c % 32 [] k = 3 -> c % 16 [] k = 4 -> c % 8

(* The loop at byte d.i, over a character each time.                       *)
Character(p, d) ==
  LET k == Width(p[d.i])
      more == SubSeq(p, d.i + 1, d.i + k - 1)
  IN IF k = 0 \/ d.i + k - 1 > Len(p) \/ \E j \in DOMAIN more : more[j] \div 64 # 2
     THEN [d EXCEPT !.ok = FALSE]
     ELSE LET cp == FoldLeft(LAMBDA n, b : 64 * n + (b % 64), Lead(p[d.i], k), more)
          IN [d EXCEPT !.i = @ + k, !.units = @ \o UnitsOf(cp)]
Utf8(p) == FoldLeft(LAMBDA d, x : IF d.ok /\ d.i <= Len(p) THEN Character(p, d) ELSE d,
                    [ok |-> TRUE, i |-> 1, units |-> <<>>], p)

(* directory_string_to_u16                                                 *)
Decoded(tag, p) == CASE tag = "latin" -> Wide(p, 1)
                     [] tag = "bmp" -> Wide(p, 2)
                     [] tag = "utf8" -> Utf8(p)
                     [] tag = "universal" -> Wide(p, 4)
                     [] OTHER -> [ok |-> FALSE, units |-> <<>>]

(* name_find_attr: the first attribute of that kind, unless something      *)
(* malformed comes before it; out stays as it was if there is none.        *)
FindAttr(attrs, oid, out) ==
  LET hits == {i \in DOMAIN attrs : ~attrs[i].formed \/ attrs[i].oid = oid}
      i == CHOOSE j \in hits : \A k \in hits : j <= k
  IN IF hits = {} \/ ~attrs[i].formed THEN [ok |-> FALSE, units |-> out]
     ELSE Decoded(attrs[i].tag, attrs[i].bytes)

(* The attributes a display name is taken from, the first there is.        *)
(* Fault: the last.                                                        *)
OrderLast == <<"o", "ou", "cn">>
Order == <<"cn", "ou", "o", "email">>
Display(attrs) ==
  FoldLeft(LAMBDA d, oid : IF d.ok THEN d ELSE FindAttr(attrs, oid, d.units),
           [ok |-> FALSE, units |-> <<>>], Order).units
NameOf(attr) == IF attr = "display" THEN Display(doc.attrs) ELSE FindAttr(doc.attrs, attr, <<>>).units

(* CertGetNameStringW: without a buffer its size, otherwise as much as     *)
(* fits, and the end.                                                      *)
(* Fault: the end is written behind the last unit.                         *)
WrittenOver(cch, n) == Least(n, cch)
Written(cch, n) == Least(n, cch - 1)
GetName(attr, at, cch) ==
  LET name == NameOf(attr)
      w == Written(cch, Len(name))
  IN /\ doc.kind = "name"
     /\ IF cch = 0 THEN told' = Len(name) + 1 /\ got' = Nothing
        ELSE /\ told' = w + 1
             /\ got' = [at |-> at, bytes |-> SubSeq(name, 1, w) \o <<0>>, room |-> cch, attr |-> attr]
     /\ UNCHANGED <<doc, store>>

(* gread_wide_utf8: up to the end of the guest's string, which one that    *)
(* ends in half a pair does not pass.                                      *)
Rest6(cp, scale) == 128 + ((cp \div scale) % 64)
Bytes8(cp) == IF cp < 128 THEN <<cp>>
              ELSE IF cp < 2048 THEN <<192 + (cp \div 64), Rest6(cp, 1)>>
              ELSE IF cp < 65536 THEN <<224 + (cp \div 4096), Rest6(cp, 64), Rest6(cp, 1)>>
              ELSE <<240 + (cp \div 262144), Rest6(cp, 4096), Rest6(cp, 64), Rest6(cp, 1)>>
High(u) == u \in 55296..56319
Low(u)  == u \in 56320..57343
(* Fault: two halves are two characters.                                   *)
PairedNever(w, i) == FALSE
Paired(w, i) == i < Len(w) /\ High(w[i]) /\ Low(w[i + 1])
PathOf(w) ==
  FoldLeftDomain(LAMBDA d, i :
                   IF i < d.i THEN d
                   ELSE IF Paired(w, i)
                   THEN LET cp == 65536 + (w[i] - 55296) * 1024 + w[i + 1] - 56320
                        IN [i |-> i + 2, out |-> d.out \o Bytes8(cp)]
                   ELSE [i |-> i + 1, out |-> d.out \o Bytes8(w[i])],
                 [i |-> 1, out |-> <<>>], w).out
ReadPath == /\ doc.kind = "path"
            /\ got' = [Nothing EXCEPT !.bytes = PathOf(doc.units)]
            /\ UNCHANGED <<doc, told, store>>

Asked == {"display"} \cup ToSet(Order)
Next == \/ AskSize \/ ReadPath
        \/ \E base \in Bases :
             \/ told > 0 /\ \E cap \in told - 1..told + 1 : Ask(base, cap)
             \/ \E h \in Stores : Context(base, h)
             \/ \E cch \in {0, told} \cup 1..MaxCch, attr \in Asked : GetName(attr, base, cch)

Spec == Init /\ [][Next]_vars
-----------------------------------------------------------------------------
(* What a guest finds by following the pointers                            *)

Cell(a) == IF a - got.at + 1 \in DOMAIN got.bytes THEN got.bytes[a - got.at + 1] ELSE <<"outside">>
WordAt(a) == LET cells == [k \in 1..Word |-> Cell(a + k - 1)]
             IN IF cells = Zeros(Word) THEN 0
                ELSE IF \A k \in 1..Word : Len(cells[k]) = 3 /\ cells[k] = <<"word", cells[1][2], k>>
                     THEN cells[1][2] ELSE -1
BlobAt(a) == [i \in 1..WordAt(a) |-> Cell(WordAt(a + Word) + i - 1)]
StrAt(a) == LET p == WordAt(a)
                ends == {i \in 0..Len(got.bytes) : Cell(p + i) = Byte(0)}
            IN IF ends = {} THEN <<>>
               ELSE [i \in 1..(CHOOSE n \in ends : \A m \in ends : n <= m) |-> Cell(p + i - 1)]
AlgAt(a) == [oid |-> StrAt(a), params |-> BlobAt(a + Word)]
ListAt(a, words, Read(_)) == [i \in 1..WordAt(a) |-> Read(WordAt(a + Word) + words * Word * (i - 1))]
AttrsAt(a) == ListAt(a, 3, LAMBDA e : [oid |-> StrAt(e), values |-> ListAt(e + Word, 2, BlobAt)])
TimeAt(a) == WordAt(a) + Half * WordAt(a + Word)
SerialAt(a) == Reverse(BlobAt(a))

SignerAt(h) ==
  [kind |-> "signer", version |-> WordAt(h), issuer |-> BlobAt(h + Word), serial |-> SerialAt(h + 3 * Word),
   digestAlg |-> AlgAt(h + 5 * Word), encAlg |-> AlgAt(h + 8 * Word), digest |-> BlobAt(h + 11 * Word),
   auth |-> AttrsAt(h + 13 * Word), unauth |-> AttrsAt(h + 15 * Word)]
InfoAt(h, der) ==
  [kind |-> "cert", der |-> der, version |-> WordAt(h), serial |-> SerialAt(h + Word),
   sigAlg |-> AlgAt(h + 3 * Word), issuer |-> BlobAt(h + 6 * Word),
   notBefore |-> TimeAt(h + 8 * Word), notAfter |-> TimeAt(h + 10 * Word),
   subject |-> BlobAt(h + 12 * Word), spkiAlg |-> AlgAt(h + 14 * Word), pubKey |-> BlobAt(h + 17 * Word),
   unused |-> WordAt(h + 19 * Word),
   exts |-> ListAt(h + 26 * Word, 4, LAMBDA e : [oid |-> StrAt(e), critical |-> WordAt(e + Word),
                                                 value |-> BlobAt(e + 2 * Word)])]

(* What a guest reads through the pointers is what the signature holds,    *)
(* wherever the block is and in no more room than it was told or allotted. *)
ReadsBack ==
  got # Nothing =>
    /\ doc.kind \in {"signer", "issuer", "cert"} => Len(got.bytes) <= got.room
    /\ doc.kind = "signer" => SignerAt(got.at) = doc
    /\ doc.kind = "issuer" => SerialAt(got.at + Word) = doc.serial /\ BlobAt(got.at + 6 * Word) = doc.issuer
    /\ doc.kind = "cert" =>
         /\ InfoAt(WordAt(got.at + 3 * Word),
                   [i \in 1..WordAt(got.at + 2 * Word) |-> Cell(WordAt(got.at + Word) + i - 1)]) =
               [doc EXCEPT !.notBefore = FileTime(@), !.notAfter = FileTime(@)]
         /\ WordAt(got.at + 4 * Word) = store

(* A name of well-formed attributes arrives whole in a buffer of the size  *)
(* the guest was told, cut but ended in a smaller one, and never past it;  *)
(* a display name is the first there is of the attributes in order.        *)
Texts(oid) == SelectSeq(doc.attrs, LAMBDA a : a.oid = oid)
Meant(attr) ==
  LET wanted == IF attr = "display" THEN <<"cn", "ou", "o", "email">> ELSE <<attr>>
      there  == FlattenSeq([i \in DOMAIN wanted |-> Texts(wanted[i])])
  IN IF there = <<>> THEN <<>>
     ELSE FlattenSeq([i \in DOMAIN there[1].text |-> UnitsOf(there[1].text[i])])
NameArrives ==
  doc.kind = "name" /\ got # Nothing =>
    /\ Len(got.bytes) <= got.room /\ Len(got.bytes) = told /\ Last(got.bytes) = 0
    /\ (\A i \in DOMAIN doc.attrs : doc.attrs[i].formed /\ "text" \in DOMAIN doc.attrs[i]) =>
         Front(got.bytes) = SubSeq(Meant(got.attr), 1, Least(Len(Meant(got.attr)), got.room - 1))

(* A path reaches the file source as a text that reads as the same units,  *)
(* each pair of which is one character.                                    *)
Pairs(w) == {i \in 1..Len(w) - 1 : High(w[i]) /\ Low(w[i + 1])}
PathKept ==
  doc.kind = "path" /\ got # Nothing =>
    /\ Utf8(got.bytes) = [ok |-> TRUE, i |-> Len(got.bytes) + 1, units |-> doc.units]
    /\ Cardinality({i \in DOMAIN got.bytes : Width(got.bytes[i]) = 4}) = Cardinality(Pairs(doc.units))

ExportSound == ReadsBack /\ NameArrives /\ PathKept
=============================================================================
