------------------------------ MODULE MCEngine ------------------------------
(* One run for the engine under the services: registers, flags, translated *)
(* code and what stands in for it, guest memory, loading and signatures.   *)
(* A behaviour is one part's: that of the registers is EmuContext's own,   *)
(* the others share x1, ..., x11.                                          *)
EXTENDS EngineParts, TLC, SequencesExt

-----------------------------------------------------------------------------
(* The certificates, signed files, layouts, times and DER values of the    *)
(* signature checks.                                                       *)
(* A root, an intermediate of every kind, an older one of the same name,   *)
(* leaves and time stampers; a key "bad" signs what nobody certified.      *)
Cert(id, subj, iss, key, by, from, to, ca, usage) ==
  [serial |-> id, subj |-> subj, iss |-> iss, key |-> key, by |-> by, from |-> from, to |-> to,
   v3 |-> TRUE, ca |-> ca, usage |-> usage]
RootCert == Cert(1, "R", "R", "kr", "kr", 1, 3, TRUE, {"any"})
UserRoot == Cert(2, "O", "O", "ko", "ko", 1, 3, TRUE, {"any"})
Middle(by, to, ca) == Cert(3, "I", "R", "ki", by, 1, to, ca, {"any"})
OldMiddle == Cert(7, "I", "R", "kx", "kr", 1, 2, TRUE, {"any"})
Leaf(by, from, to, usage) == Cert(4, "L", "I", "kl", by, from, to, FALSE, usage)
Stamper(by, usage) == Cert(5, "T", "R", "kt", by, 1, 3, FALSE, usage)

SignerOf(c, over, key, attrs, type) ==
  [iss |-> c.iss, serial |-> c.serial, by |-> key, hash |-> TRUE, attrs |-> attrs, type |-> type,
   over |-> over, value |-> "v"]
NotStamped == [kind |-> "none"]
StampOf(kind, over, c, time, certs, imprint) ==
  [kind |-> kind, decodes |-> TRUE, dated |-> TRUE, imprint |-> imprint, token |-> "tok",
   time |-> time, certs |-> certs,
   signer |-> SignerOf(c, IF kind = "rfc3161" THEN "tok" ELSE over, "kt", TRUE, "tstinfo")]
GoodStamper == Stamper("kr", {"stamp"})
Stamps ==
  {NotStamped}
    \cup {StampOf(kind, "v", c, time, <<c>>, "v") :
            kind \in {"pkcs9", "rfc3161"}, time \in {1, 2},
            c \in {GoodStamper, Stamper("bad", {"stamp"}), Stamper("kr", {"code"})}}
    \cup {StampOf("pkcs9", "w", GoodStamper, 1, <<>>, "v"),
          StampOf("rfc3161", "v", GoodStamper, 1, <<GoodStamper>>, "w")}

Table(size, more, at) == [size |-> size, file |-> size + more, at |-> at]
OnlyEntry == Table(4, 0, 0 :> [len |-> 4, type |-> "pkcs7"])
(* An entry of another kind first, as long as the table, shorter, or, its  *)
(* length rounded, longer; the signature after it; more of the file or not.*)
Tables == {Table(size, more, (0 :> [len |-> l, type |-> "other"])
                              @@ ((2 * ((l + 1) \div 2)) :> [len |-> 4, type |-> "pkcs7"])) :
             size \in 2..8, more \in {0, 4, 8}, l \in 1..6}
File(certs, key, stamp) ==
  [form |-> "signed", table |-> OnlyEntry, image |-> "d", claims |-> "d", certs |-> certs,
   signer |-> SignerOf(certs[1], "d", key, TRUE, "spc"), stamp |-> stamp]
NoFile == [form |-> "absent"]
Middles == {Middle("kr", 3, TRUE), Middle("kr", 1, TRUE), Middle("kr", 3, FALSE), Middle("bad", 3, TRUE)}
Pools == {<<i>> : i \in Middles} \cup {<<OldMiddle, i>> : i \in Middles}
Leaves == {Leaf(by, from, to, usage) : by \in {"ki", "kx", "bad"}, from \in {1, 2}, to \in {2, 3},
                                       usage \in {{"code"}, {"stamp"}}}
GoodFile == File(<<Cert(4, "L", "R", "kl", "kr", 1, 3, FALSE, {"code"})>>, "kl", NotStamped)
SignedFiles ==
  {File(<<leaf>> \o pool \o (IF stamp.kind = "pkcs9" THEN stamp.certs ELSE <<>>), "kl", stamp) :
     leaf \in Leaves, pool \in Pools, stamp \in Stamps}
    \cup {[form |-> form] : form \in {"absent", "notpe", "plain", "cut"}}
    \cup {[GoodFile EXCEPT !.form = form] : form \in {"garbage", "other", "badalg"}}
    \cup {[GoodFile EXCEPT !.table = t] : t \in Tables}
Embedding == <<[cert |-> RootCert, only |-> "any", newest |-> 1, until |-> 3]>>
Asked == {[hashOnly |-> FALSE, lifetime |-> b, revocation |-> FALSE, strict |-> FALSE] : b \in BOOLEAN}

(* A file that only a root the embedder adds can vouch for.                *)
UserFile == File(<<Cert(4, "L", "O", "kl", "ko", 1, 3, FALSE, {"code"})>>, "kl", NotStamped)
AskedAnyhow == [hashOnly : BOOLEAN, lifetime : {FALSE}, revocation : BOOLEAN, strict : BOOLEAN]

(* Two files with the same two certificates in either order.               *)
Plain(id) == Cert(id, "S", "R", "k", "kr", 1, 3, FALSE, {"any"})
Orders == {File(<<Plain(1), Plain(2)>>, "k", NotStamped), File(<<Plain(2), Plain(1)>>, "k", NotStamped)}

-----------------------------------------------------------------------------
(* Files whose sections follow the headers in either order, or overlap     *)
(* them, and whose table and entry lie in and around them.                 *)
Range0(o, l) == [off |-> o, len |-> l]
SectionLists == {<<Range0(6, l)>> : l \in 0..3}
                  \cup {<<Range0(6 + l, m), Range0(6, l)>> : l \in 1..2, m \in 1..3}
                  \cup {<<Range0(8, m), Range0(6, 1)>> : m \in 1..2}
FileLayouts ==
  {[size |-> size, headers |-> h, checksum |-> Range0(1, 1), entry |-> Range0(3, 2), sections |-> s,
    table |-> t] :
   size \in 7..13, h \in {4, 5, 6}, s \in SectionLists,
   t \in {Range0(0, 0)} \cup {Range0(o, l) : o \in 7..11, l \in 1..4}}

-----------------------------------------------------------------------------
(* A signer, the signed part of a certificate, a signed message and a list *)
(* of extensions, complete; and what an edit may put into each.            *)
Node(tag, val, kids) == [tag |-> tag, val |-> val, kids |-> kids, rest |-> "clean"]
Prim(tag, val) == Node(tag, val, <<>>)
Torn(n) == [n EXCEPT !.rest = "int"]
Alg2 == Node("seq", "", <<Prim("oid", "sha1"), Prim("null", "")>>)
Alg1 == Node("seq", "", <<Prim("oid", "rsa")>>)
NameOf(v) == Node("seq", v, <<>>)
Tag0(kids) == Node("a0", "", kids)
Tag1(kids) == Node("a1", "", kids)
Tag3(kids) == Node("a3", "", kids)
SetOf(kids) == Node("set", "", kids)
Attribute == Node("seq", "", <<Prim("oid", "type"), SetOf(<<Prim("octets", "v")>>)>>)
IssuerSerial == Node("seq", "", <<NameOf("ca"), Prim("int", "7")>>)
SignerDoc == Node("seq", "", <<Prim("int", "1"), IssuerSerial, Alg2, Tag0(<<Attribute>>), Alg1,
                               Prim("octets", "sig"), Tag1(<<Attribute>>)>>)
Validity == Node("seq", "", <<Prim("time", "from"), Prim("time", "to")>>)
Spki == Node("seq", "", <<Alg2, Prim("bits", "key")>>)
Extension(id, v) == Node("seq", "", <<Prim("oid", id), Prim("octets", v)>>)
Critical(id, v) == Node("seq", "", <<Prim("oid", id), Prim("bool", "t"), Prim("octets", v)>>)
ExtsDoc == Node("seq", "", <<Critical("constraints", "ca"), Extension("eku", "code")>>)
TbsDoc == Node("seq", "", <<Tag0(<<Prim("int", "2")>>), Prim("int", "9"), Alg2, NameOf("ca"),
                            Validity, NameOf("me"), Spki, Tag3(<<ExtsDoc>>)>>)
CertDoc == Node("seq", "", <<TbsDoc, Alg2, Prim("bits", "0")>>)
Content == Node("seq", "", <<Prim("oid", "spc"), Tag0(<<NameOf("digest")>>)>>)
SignedDoc == Node("seq", "", <<Prim("int", "1"), SetOf(<<Alg2>>), Content,
                               Tag0(<<CertDoc, Prim("a1", "other")>>), SetOf(<<SignerDoc>>)>>)
DerDocuments == [signer |-> SignerDoc, tbs |-> TbsDoc, signed |-> SignedDoc, exts |-> ExtsDoc]
DerParts ==
  [signer |-> {Prim("int", "1"), IssuerSerial, Alg2, Torn(Alg1), Tag0(<<Attribute>>),
               Tag0(<<Torn(Attribute)>>), Torn(Tag0(<<Attribute>>)), Tag1(<<Attribute>>),
               Prim("octets", "x")},
   tbs |-> {Prim("int", "1"), Tag0(<<Prim("int", "0")>>), Alg2, Torn(Alg1), NameOf("x"), Validity,
            Spki, Tag3(<<ExtsDoc>>), Tag3(<<Torn(ExtsDoc)>>)},
   signed |-> {Prim("int", "1"), SetOf(<<>>), Content, Tag0(<<Torn(CertDoc)>>),
               Torn(Tag0(<<CertDoc>>)), Tag1(<<>>), SetOf(<<Alg2>>)},
   exts |-> {Extension("constraints", "ca"), Critical("constraints", "notca"),
             Extension("constraints", "garbled"), Extension("eku", "x"),
             Node("seq", "", <<Prim("oid", "o"), Prim("bool", "t")>>)}]
(* Times of day the last of which are refused, and days around the ends of *)
(* months, leap years, centuries and the range of two digits.              *)
Clocks == {<<0, 0, 0>>, <<23, 59, 60>>, <<24, 0, 0>>, <<-1, 0, 0>>}
TimesOf(form, years, frac) ==
  {[form |-> form, y |-> y, m |-> m, d |-> d, h |-> c[1], mi |-> c[2], s |-> c[3], zulu |-> TRUE,
    frac |-> frac] : y \in years, m \in 1..12, d \in {0, 1, 28, 29, 30, 31}, c \in Clocks}
DerTimes ==
  {[form |-> "none"]} \cup TimesOf("utc", {-1, 0, 1, 49, 50, 70, 99}, "none")
    \cup TimesOf("general", {0, 1, 4, 99, 100, 399, 400, 1899, 1900, 1949, 1950, 1969, 1970, 1972,
                             1999, 2000, 2001, 2049, 2050, 2100, 9999}, "none")
    \cup TimesOf("utc", {99}, "digits") \cup TimesOf("general", {1999}, "digits")
    \cup TimesOf("general", {1999}, "bare")

-----------------------------------------------------------------------------
(* Structures whose parts are missing, and as long as a word or longer;    *)
(* texts of characters of every width, and such that cannot be read; wide  *)
(* paths with whole and half pairs.                                        *)
Octets(s) == [i \in DOMAIN s |-> <<"byte", s[i]>>]
AlgOf(oid, params) == [oid |-> Octets(oid), params |-> Octets(params)]
Holding(values) == [oid |-> Octets(<<7>>), values |-> values]
AttrLists == {<<>>, <<Holding(<<>>)>>,
              <<Holding(<<Octets(<<1>>), <<>>, Octets(<<0, 2>>)>>), Holding(<<Octets(<<3, 4>>)>>)>>}
Signers ==
  {[kind |-> "signer", version |-> 1, issuer |-> Octets(<<1, 2, 3>>), serial |-> serial,
    digestAlg |-> AlgOf(<<5>>, params), encAlg |-> AlgOf(<<5, 6>>, <<0>>), digest |-> Octets(<<9, 0>>),
    auth |-> auth, unauth |-> unauth] :
   serial \in {Octets(<<0, 1>>), Octets(<<1, 2, 0>>)}, params \in {<<>>, <<5, 0>>},
   auth \in AttrLists, unauth \in AttrLists}
Issuers == {[kind |-> "issuer", issuer |-> Octets(i), serial |-> Octets(<<1, 2>>)] : i \in {<<>>, <<3>>, <<3, 4>>}}
ExtOf(critical, v) == [oid |-> Octets(<<8>>), critical |-> critical, value |-> Octets(v)]
Exported ==
  {[kind |-> "cert", der |-> Octets(der), version |-> 2, serial |-> Octets(<<0, 9>>),
    sigAlg |-> AlgOf(<<5, 6>>, <<>>), issuer |-> Octets(<<1>>), notBefore |-> from, notAfter |-> from + 30,
    subject |-> Octets(<<2, 0>>), spkiAlg |-> AlgOf(<<6>>, <<1>>), pubKey |-> Octets(<<4, 4, 4>>),
    unused |-> unused, exts |-> exts] :
   der \in {<<1>>, <<1, 0>>, <<1, 2, 3>>}, from \in {-2, 0, 13}, unused \in {0, 7},
   exts \in {<<>>, <<ExtOf(0, <<>>)>>, <<ExtOf(1, <<1, 0, 1>>), ExtOf(0, <<2>>)>>}}

Utf8Bytes == (65 :> <<65>>) @@ (233 :> <<195, 169>>) @@ (2047 :> <<223, 191>>)
             @@ (2048 :> <<224, 160, 128>>) @@ (65535 :> <<239, 191, 191>>)
             @@ (65536 :> <<240, 144, 128, 128>>) @@ (1114111 :> <<244, 143, 191, 191>>)
BigEndian(n, k) == [i \in 1..k |-> (n \div 256^(k - i)) % 256]
EncodeAs == [latin |-> [c \in {65, 233} |-> <<c>>],
             bmp |-> [c \in DOMAIN Utf8Bytes \ {65536, 1114111} |-> BigEndian(c, 2)],
             universal |-> [c \in DOMAIN Utf8Bytes |-> BigEndian(c, 4)],
             utf8 |-> Utf8Bytes]
TextOf(oid, tag, text) ==
  [formed |-> TRUE, oid |-> oid, tag |-> tag, text |-> text,
   bytes |-> FlattenSeq([i \in DOMAIN text |-> EncodeAs[tag][text[i]]])]
Garbled(oid, tag, bytes) == [formed |-> TRUE, oid |-> oid, tag |-> tag, bytes |-> bytes]
NameTexts ==
  UNION {{TextOf(oid, tag, <<c, d>>) : oid \in {"cn", "o"}, c, d \in DOMAIN EncodeAs[tag]} : tag \in DOMAIN EncodeAs}
NameLists ==
  {<<>>} \cup {<<t>> : t \in NameTexts}
    \cup {<<TextOf(oid, "latin", <<65>>), TextOf(pid, "bmp", <<233>>), TextOf("o", "utf8", <<>>)>> :
            oid, pid \in {"cn", "ou", "o", "email"}}
    \cup {<<Garbled("cn", tag, bytes), TextOf(oid, "latin", <<65>>)>> :
            oid \in {"cn", "o"}, tag \in {"utf8", "bmp", "universal", "other"},
            bytes \in {<<65, 195>>, <<65, 128, 65>>, <<224, 160, 65>>, <<248>>, <<65, 66, 67, 68, 69>>}}
    \cup {<<[formed |-> FALSE], TextOf("cn", "latin", <<65>>)>>}
WidePaths == UNION {[1..n -> {65, 128, 2048, 55296, 56319, 56320, 57343, 65535}] : n \in 0..3}
ToExport == Signers \cup Issuers \cup Exported
              \cup {[kind |-> "name", attrs |-> a] : a \in NameLists}
              \cup {[kind |-> "path", units |-> w] : w \in WidePaths}

-----------------------------------------------------------------------------
(* Every pair of operands of six bits.                                     *)
Flags == INSTANCE X86Flags WITH W <- 6, H <- 3, emu <- x1, flags <- x2, due <- x3
(* Overlapping copies of up to nine bytes, up to the end of the arena.     *)
Copies == INSTANCE MemIntrin WITH
  W <- 4, Fast <- 4, Span <- 13, MaxN <- 9, Guard <- 1,
  Counts <- {0, 1, 2, 3, 4, 5, 7, 9, 10, 12, 15},
  mem <- x1, mode <- x2, verify <- x3, call <- x4, bad <- x5
(* Two addresses, and names of no, some and more length than a hostent.    *)
Scratch == INSTANCE GuestScratch WITH
  Mod <- 44, Base <- 2, Size <- 0, Limits <- {30}, Requests <- {3, 41, 43}, Quads <- {"p", "q"},
  Names <- [none |-> 0, figures |-> 3, host |-> 11], Literals <- {"figures"}, Text <- 4,
  cur <- x1, limit <- x2, warned <- x3, reports <- x4, blocks <- x5, ntoa <- x6, hosts <- x7,
  locked <- x8, lastError <- x9, hollow <- x10

(* A program, the DLL it imports from and one it loads: a forwarder, a     *)
(* name spelt in two ways, an export that a shim stands in for.            *)
Import(d, as, sym) == [dll |-> d, spelt |-> as, sym |-> sym]
Loadable ==
  [exe |-> [size |-> 3, keep |-> TRUE, base |-> 0, exports |-> {}, forwards |-> {},
            imports |-> <<Import("d", "D", "e"), Import("k", "k", "g")>>],
   d |-> [size |-> 1, keep |-> FALSE, base |-> 0, exports |-> {"e", "f"}, forwards |-> {"f"},
          imports |-> <<Import("k", "K", "g")>>],
   x |-> [size |-> 2, keep |-> FALSE, base |-> 0, exports |-> {}, forwards |-> {},
          imports |-> <<Import("d", "d", "f"), Import("d", "d", "e")>>]]
(* One is registered twice; the tag of one is spelt as no import is.       *)
Registered == [k \in {<<"k", "g">>, <<"d", "f">>} |->
                IF k[1] = "k" THEN <<[tag |-> k, args |-> 1], [tag |-> k, args |-> 2]>> ELSE <<[tag |-> <<"D", "f">>, args |-> 2]>>]
Modules == INSTANCE Bridge WITH
  Images <- Loadable, Shims <- Registered, First <- 4, Limit <- 10, MaxMods <- 2, MaxSlots <- 6,
  mods <- x1, nextBase <- x2, phase <- x3, shims <- x4, slots <- x5, cells <- x6, found <- x7,
  call <- x8, late <- x9

(* Sections in order, out of order and past the end; relocation blocks     *)
(* with padding; imports with and without a lookup table; exports with a   *)
(* gap and a forwarder.                                                    *)
Sections == {<<[va |-> 1, raw |-> 1, n |-> 2]>>,
             <<[va |-> 2, raw |-> 1, n |-> 3], [va |-> 1, raw |-> 3, n |-> 2]>>,
             <<[va |-> 3, raw |-> 2, n |-> 9], [va |-> 7, raw |-> 0, n |-> 1]>>}
Moved(off) == [type |-> 3, off |-> off]
Padding == [type |-> 0, off |-> 0]
Entries == {<<>>, <<Moved(0)>>, <<Moved(1), Padding>>, <<Moved(2), Moved(4)>>}
RelocBlocks ==
  {<<>>} \cup {<<[page |-> 0, entries |-> e]>> : e \in Entries}
         \cup {<<[page |-> 0, entries |-> e], [page |-> 2, entries |-> f]>> : e, f \in Entries}
ByLookup == [dll |-> "K", lookup |-> <<6, 7>>, iat |-> <<3, 3>>, iat_rva |-> 4]
ByThunks == [dll |-> "U", lookup |-> <<>>, iat |-> <<5>>, iat_rva |-> 2]
Export(name, idx) == [name |-> name, idx |-> idx]
ImageFiles ==
  {[words |-> <<1, 2, 3, 5>>, headers |-> 1, size |-> 6, base |-> 2, secs |-> s, blocks |-> b,
    imports |-> i, funcs |-> f, first |-> 1, dir |-> [lo |-> 4, hi |-> 6], names |-> n] :
   s \in Sections, b \in RelocBlocks, i \in {<<>>, <<ByLookup, ByThunks>>},
   f \in {<<1, 0, 3>>, <<5, 2>>},
   n \in {<<>>, <<Export("f", 1)>>, <<Export("f", 1), Export("g", 0)>>, <<Export("f", 1), Export("g", 1)>>}}
Image == INSTANCE PeImage WITH
  Files <- ImageFiles, Bases <- {2, 4}, W <- 3,
  file <- x1, at <- x2, k <- x3, loadBase <- x4, image <- x5, imports <- x6, exports <- x7

(* Every pair of numbers of up to two words below every modulus of two,    *)
(* and every message of up to seven bytes.                                 *)
Rsa == INSTANCE RsaMath WITH
  W <- 2, MaxWords <- 2, MaxExp <- 5, Full <- 3, Bytes <- 0..3, LeastPad <- 1,
  Forms <- <<<<2, 0>>, <<2>>, <<>>>>, Digest <- <<2>>, MaxMessage <- 7,
  n <- x1, s <- x2, e <- x3, out <- x4, em <- x5
Digest == INSTANCE ImageDigest WITH
  Block <- 4, LenAt <- 3, Layouts <- FileLayouts,
  pe <- x1, todo <- x2, buf <- x3, fed <- x4, blocks <- x5, ended <- x6
Der == INSTANCE DerBytes WITH
  B <- 8, LongTag <- 7, MaxLenBytes <- 2, Forty <- 2, MaxArc <- 63, MaxBuf <- 5, Times <- DerTimes,
  buf <- x1, time <- x2
Parse == INSTANCE CertParse WITH
  Documents <- DerDocuments, Parts <- DerParts, MaxEdits <- 2, what <- x1, doc <- x2, edits <- x3
(* Words of two bytes, blocks at two addresses, and names of two units.    *)
Shown == INSTANCE CertExport WITH
  Word <- 2, Half <- 16, Epoch <- 3, Ticks <- 10, Bases <- {2, 40}, Stores <- {1, 2},
  Documents <- ToExport, MaxCch <- 3, doc <- x1, told <- x2, got <- x3, store <- x4
(* Every file, asked about; a root the embedder adds; two enumerations.    *)
Chains == INSTANCE WinTrust WITH
  Depth <- 3, Files <- SignedFiles, Later <- {}, Extra <- {}, Embedded <- Embedding,
  Options <- Asked, MaxTime <- 3, MaxHandle <- 0, Room <- 0, MaxEnds <- 0,
  roots <- x1, now <- x2, disk <- x3, next <- x4, msgs <- x5, stores <- x6, states <- x7,
  ctxs <- x8, owner <- x9, answer <- x10, walk <- x11
Roots == INSTANCE WinTrust WITH
  Depth <- 3, Files <- {UserFile}, Later <- {NoFile, UserFile}, Extra <- {UserRoot},
  Embedded <- Embedding, Options <- AskedAnyhow, MaxTime <- 2, MaxHandle <- 2, Room <- 1,
  MaxEnds <- 1,
  roots <- x1, now <- x2, disk <- x3, next <- x4, msgs <- x5, stores <- x6, states <- x7,
  ctxs <- x8, owner <- x9, answer <- x10, walk <- x11
Stores == INSTANCE WinTrust WITH
  Depth <- 3, Files <- Orders, Later <- {}, Extra <- {}, Embedded <- Embedding,
  Options <- {}, MaxTime <- 1, MaxHandle <- 4, Room <- 2, MaxEnds <- 3,
  roots <- x1, now <- x2, disk <- x3, next <- x4, msgs <- x5, stores <- x6, states <- x7,
  ctxs <- x8, owner <- x9, answer <- x10, walk <- x11

ASSUME Flags!FlagsAssumption /\ Scratch!ScratchAssumption

-----------------------------------------------------------------------------
EngineInit ==
  \/ GuestInit
  \/ part = "flags" /\ NoEmus /\ Flags!Init /\ From4
  \/ part = "copies" /\ NoEmus /\ Copies!Init /\ From6
  \/ part = "scratch" /\ NoEmus /\ Scratch!Init /\ From11
  \/ part = "bridge" /\ NoEmus /\ Modules!Init /\ From10
  \/ part = "image" /\ NoEmus /\ Image!Init /\ From8
  \/ part = "rsa" /\ NoEmus /\ Rsa!Init /\ From6
  \/ part = "digest" /\ NoEmus /\ Digest!Init /\ From7
  \/ part = "der" /\ NoEmus /\ Der!Init /\ From3
  \/ part = "parse" /\ NoEmus /\ Parse!Init /\ From4
  \/ part = "chains" /\ NoEmus /\ Chains!Init /\ From12
  \/ part = "roots" /\ NoEmus /\ Roots!Init /\ From12
  \/ part = "export" /\ NoEmus /\ Shown!Init /\ From5
  \/ part = "stores" /\ NoEmus /\ Stores!Init /\ From12

Steps ==
  \/ part = "flags" /\ Flags!Next /\ Keep4
  \/ part = "copies" /\ Copies!Next /\ Keep6
  \/ part = "scratch" /\ Scratch!Next /\ Keep11
  \/ part = "bridge" /\ Modules!Next /\ Keep10
  \/ part = "image" /\ Image!Next /\ Keep8
  \/ part = "rsa" /\ Rsa!Next /\ Keep6
  \/ part = "digest" /\ Digest!Next /\ Keep7
  \/ part = "der" /\ Der!Next /\ Keep3
  \/ part = "parse" /\ Parse!Next /\ Keep4
  \/ part = "chains" /\ Chains!Next /\ Keep12
  \/ part = "roots" /\ Roots!Next /\ Keep12
  \/ part = "export" /\ Shown!Next /\ Keep5
  \/ part = "stores" /\ Stores!Next /\ Keep12
EngineNext == GuestNext \/ (Steps /\ UNCHANGED <<part, vars>>)
EngineSpec == EngineInit /\ [][EngineNext]_<<part, vars, rest>>

-----------------------------------------------------------------------------
(* Whoever materialises the flags later finds those the processor defines  *)
(* for the last instruction, but OF after RCR by one; the guest's copies   *)
(* and fills that the host serves do what its own routines do; a structure *)
(* the host builds in memory that is never given back is whole.            *)
StandInsSound == /\ part = "flags" => Flags!FlagsAsDefined
                 /\ part = "copies" => Copies!ServedExactly
                 /\ part = "scratch" => Scratch!ScratchSound

(* A loaded image is what its linker meant, moved; modules lie apart, and  *)
(* an import calls what its name says.                                     *)
LoadingSound == /\ part = "image" => Image!PeSound
                /\ part = "bridge" => Modules!BridgeSound

(* A signature is trusted when the standards say so, from the bytes up:    *)
(* what the DER reader accepts is inside its buffer, each field is the one *)
(* of its role, the digest covers the image, the power is the power, and a *)
(* chain of sound certificates leads to a root in its time.  What the code *)
(* does beyond the standards is part of the parts' own properties: a bare  *)
(* digest (OneEncoding), a table before the last section's end             *)
(* (DigestCoversImage), an entry that passes the table's end               *)
(* (SignatureInTable).                                                     *)
SignaturesSound ==
  /\ part = "der" => Der!DerSound /\ Der!TimeSound
  /\ part = "parse" => Parse!ReadByRole
  /\ part = "export" => Shown!ExportSound
  /\ part = "digest" => Digest!DigestCoversImage
  /\ part = "rsa" => Rsa!IsPower /\ Rsa!OneEncoding
  /\ part = "chains" => Chains!SignatureInTable /\ Chains!TrustSound
  /\ part = "roots" => Roots!TrustSound
  /\ part = "stores" => Stores!WalkInOrder /\ Stores!ContextFits
=============================================================================
