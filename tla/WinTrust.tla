------------------------------ MODULE WinTrust ------------------------------
(***************************************************************************)
(* The verdict on a signed PE file (src/runtime/authenticode.cpp,          *)
(* verify_pe): its digest, its signer, its time stamp and the two chains;  *)
(* and the WinTrust and CryptoAPI calls of a guest over it                 *)
(* (src/runtime/win32_shims_wintrust.cpp): the verification, the signed    *)
(* message and the certificate store of a file, the CERT_CONTEXTs the      *)
(* engine hands out once per certificate, and an enumeration the guest     *)
(* carries on through other calls.                                         *)
(*                                                                         *)
(* A certificate is a record: subj, iss (names), key, by (the key that     *)
(* signed it), serial, from, to, v3, ca and usage ({Anyone} without the    *)
(* extension).  A root is [cert, only, newest, until] (roots::RootProps).  *)
(* RSA and the hashes are ideal: a signature is the key it was made with.  *)
(***************************************************************************)
EXTENDS Naturals, Sequences, FiniteSets, SequencesExt

CONSTANT Depth   \* certificates of a chain (16)

Anyone == "any"          \* no restriction (no extension, anyExtendedKeyUsage, a null property)
NoKey == "nokey"      \* not an RSA key, or a hash this code does not know
Ok == "AC_OK"

(* rsa_pkcs1v15_verify under the issuer's key.                             *)
SignedBy(c, issuer) == c.by # NoKey /\ issuer.key # NoKey /\ c.by = issuer.key
EkuOk(c, usage) == {Anyone, usage} \cap c.usage # {}

First(S) == IF S = {} THEN 0 ELSE CHOOSE i \in S : \A j \in S : i <= j

(* The store's root that a certificate is: the same one, or its key.       *)
Anchor(roots, c) == First({i \in DOMAIN roots : roots[i].cert = c
                                \/ (roots[i].cert.subj = c.subj /\ roots[i].cert.key = c.key)})

(* What the root program says of a chain that ends in this root.           *)
RootSays(root, leaf, T, usage) ==
  (IF root.only \notin {Anyone, usage} THEN {"usage"} ELSE {})
    \cup (IF root.newest > 0 /\ leaf.from > root.newest THEN {"root"} ELSE {})
    \cup (IF root.until > 0 /\ T >= root.until THEN {"root"} ELSE {})

(* Issuers: the trusted roots first, then the message; one of that name    *)
(* whose signature does not verify is followed only if there is no other.  *)
(* Fault: the first of the name is taken, verified or not.                 *)
IssuerByName(roots, pool, c) ==
  LET named == {j \in DOMAIN pool : pool[j] # c /\ pool[j].subj = c.iss}
  IN IF named # {} THEN [found |-> TRUE, cert |-> pool[First(named)], sound |-> TRUE]
     ELSE [found |-> FALSE, cert |-> c, sound |-> FALSE]
Issuer(roots, pool, c) ==
  LET r == First({i \in DOMAIN roots : roots[i].cert.subj = c.iss /\ SignedBy(c, roots[i].cert)})
      named == {j \in DOMAIN pool : pool[j] # c /\ pool[j].subj = c.iss}
      p == First({j \in named : SignedBy(c, pool[j])})
  IN CASE r > 0 -> [found |-> TRUE, cert |-> roots[r].cert, sound |-> TRUE]
       [] r = 0 /\ p > 0 -> [found |-> TRUE, cert |-> pool[p], sound |-> TRUE]
       [] r = 0 /\ p = 0 /\ named # {} -> [found |-> TRUE, cert |-> pool[First(named)], sound |-> FALSE]
       [] OTHER -> [found |-> FALSE, cert |-> c, sound |-> FALSE]

(* One certificate of the chain; w.over once the chain has ended.          *)
Judged(w, depth, roots, pool, leaf, T, usage) ==
  LET c == w.cur
      own == w.st \cup (IF T < c.from \/ T > c.to THEN {"time"} ELSE {})
                  \cup (IF EkuOk(c, usage) THEN {} ELSE {"usage"})
                  \cup (IF depth > 0 /\ c.v3 /\ ~c.ca THEN {"basic"} ELSE {})
      a == Anchor(roots, c)
      i == Issuer(roots, pool, c)
  IN CASE a > 0 -> [w EXCEPT !.over = TRUE, !.st = own \cup RootSays(roots[a], leaf, T, usage)]
       [] a = 0 /\ c.iss = c.subj ->
            [w EXCEPT !.over = TRUE, !.st = own \cup {"root"} \cup (IF SignedBy(c, c) THEN {} ELSE {"sig"})]
       [] a = 0 /\ c.iss # c.subj /\ ~i.found -> [w EXCEPT !.over = TRUE, !.st = own \cup {"partial"}]
       [] OTHER -> [cur |-> i.cert, over |-> FALSE, st |-> own \cup (IF i.sound THEN {} ELSE {"sig"})]

ChainStatus(roots, pool, leaf, T, usage) ==
  LET w == FoldLeft(LAMBDA x, n : IF x.over THEN x ELSE Judged(x, n - 1, roots, pool, leaf, T, usage),
                    [cur |-> leaf, over |-> FALSE, st |-> {}], [n \in 1..Depth |-> n])
  IN IF w.over THEN w.st ELSE w.st \cup {"partial"}

(* The worst of a status, in softpub's order.                              *)
Hr == [sig |-> "TRUST_E_CERT_SIGNATURE", root |-> "CERT_E_UNTRUSTEDROOT", time |-> "CERT_E_EXPIRED",
       usage |-> "CERT_E_WRONG_USAGE", basic |-> "TRUST_E_BASIC_CONSTRAINTS", partial |-> "CERT_E_CHAINING"]
StatusToHr(st) ==
  LET order == <<"sig", "root", "time", "usage", "basic", "partial">>
      i == First({k \in DOMAIN order : order[k] \in st})
  IN IF i = 0 THEN Ok ELSE Hr[order[i]]
----------------------------------------------------------------------------
(* A signer: iss and serial name its certificate, by is the key it used,   *)
(* hash whether the algorithm is known, attrs its signed attributes and    *)
(* what they say; over, the content the digest is of.                      *)
FindCert(pool, s) == First({i \in DOMAIN pool : pool[i].iss = s.iss /\ pool[i].serial = s.serial})

VerifySigner(s, c, content, type) ==
  CASE ~s.hash \/ c.key = NoKey -> "NTE_BAD_ALGID"
    [] s.attrs /\ type # Anyone /\ s.type # type -> "CRYPT_E_HASH_VALUE"
    [] s.attrs /\ s.over # content -> "CRYPT_E_HASH_VALUE"
    [] s.by # c.key \/ (~s.attrs /\ s.over # content) -> "NTE_BAD_SIGNATURE"
    [] OTHER -> Ok

(* The stamp of a signer: a PKCS#9 countersignature, signed by a            *)
(* certificate of the message, or an RFC 3161 token that carries its own.  *)
NoStamp == [kind |-> "none"]
StampPool(f) == IF f.stamp.kind = "rfc3161" THEN f.stamp.certs ELSE f.certs
StampBytes(f) == IF f.stamp.kind = "rfc3161" THEN f.stamp.token ELSE f.signer.value
StampType(f) == IF f.stamp.kind = "rfc3161" THEN "tstinfo" ELSE Anyone
StampCovers(f) == f.stamp.kind = "rfc3161" => f.stamp.imprint = f.signer.value
StampError(f) ==
  LET i == FindCert(StampPool(f), f.stamp.signer)
  IN IF /\ f.stamp.decodes /\ StampCovers(f) /\ i > 0
        /\ VerifySigner(f.stamp.signer, StampPool(f)[i], StampBytes(f), StampType(f)) = Ok /\ f.stamp.dated
     THEN Ok ELSE "TRUST_E_TIME_STAMP"

(* pe_extract_pkcs7: the entries of the certificate table, in units of     *)
(* four bytes and from its start.  A table has a size, the units the file  *)
(* holds from there on, and what stands where (at).  Rounding an entry's   *)
(* length up may lead past the end: the room left wraps, every length fits *)
(* and the walk goes on through the file, and past it.                     *)
RoundedUp(len) == 2 * ((len + 1) \div 2)
Entry(t, p) == IF p \in DOMAIN t.at THEN t.at[p] ELSE [len |-> 0, type |-> "other"]
Examined(t, w) ==
  LET e == Entry(t, w.pos)
      past == w.pos > t.size
  IN CASE ~past /\ t.size - w.pos < 2 -> [w EXCEPT !.end = "none"]
       [] past /\ w.pos + 2 > t.file -> [w EXCEPT !.end = "wild"]
       [] OTHER -> CASE e.len < 2 \/ (~past /\ e.len > t.size - w.pos) -> [w EXCEPT !.end = "cut"]
                     [] e.len >= 2 /\ (past \/ e.len <= t.size - w.pos) /\ e.type = "pkcs7" ->
                          [w EXCEPT !.end = IF w.pos + e.len > t.file THEN "wild" ELSE "found"]
                     [] OTHER -> [w EXCEPT !.pos = @ + RoundedUp(e.len)]
Extracted(t) == FoldLeft(LAMBDA w, i : IF w.end = "on" THEN Examined(t, w) ELSE w,
                         [pos |-> 0, end |-> "on"], [i \in 1..t.file + 1 |-> i])

(* What the file is, before its table is read, or what the signature there *)
(* holds (form).                                                           *)
Tableless == {"absent", "notpe", "plain", "cut"}
FormError == [notpe |-> "TRUST_E_SUBJECT_FORM_UNKNOWN", plain |-> "TRUST_E_NOSIGNATURE", cut |-> "TRUST_E_NOSIGNATURE",
              garbage |-> "TRUST_E_NOSIGNATURE", other |-> "TRUST_E_NOSIGNATURE", badalg |-> "NTE_BAD_ALGID"]

(* The date the chains are judged at.  Fault: the stamp's, whatever the    *)
(* caller asked.                                                           *)
StampDate(f, opt, now) == IF f.stamp = NoStamp THEN now ELSE f.stamp.time
Date(f, opt, now) == IF f.stamp = NoStamp \/ opt.lifetime THEN now ELSE f.stamp.time

(* opt: hashOnly, lifetime, revocation, strict.                            *)
VerifyPe(f, opt, now, roots) ==
  LET ci == FindCert(f.certs, f.signer)
      T == Date(f, opt, now)
      ti == FindCert(StampPool(f), f.stamp.signer)
      signer == StatusToHr(ChainStatus(roots, f.certs, f.certs[ci], T, "code"))
      stamp == IF f.stamp = NoStamp THEN Ok
               ELSE StatusToHr(ChainStatus(roots, StampPool(f), StampPool(f)[ti], T, "stamp"))
      read == f.form = "signed" /\ Extracted(f.table).end = "found"
  IN CASE f.form \in Tableless -> FormError[f.form]
       [] f.form \notin Tableless /\ Extracted(f.table).end # "found" -> "TRUST_E_NOSIGNATURE"
       [] f.form \notin Tableless \cup {"signed"} /\ Extracted(f.table).end = "found" -> FormError[f.form]
       [] read /\ f.image # f.claims -> "TRUST_E_BAD_DIGEST"
       [] read /\ f.image = f.claims /\ opt.hashOnly -> Ok
       [] OTHER ->
            CASE ci = 0 -> "TRUST_E_NO_SIGNER_CERT"
              [] ci > 0 /\ VerifySigner(f.signer, f.certs[ci], f.claims, "spc") # Ok -> "TRUST_E_CERT_SIGNATURE"
              [] OTHER ->
                   CASE f.stamp # NoStamp /\ StampError(f) # Ok -> StampError(f)
                     [] OTHER -> CASE signer # Ok -> signer
                                   [] signer = Ok /\ stamp # Ok -> stamp
                                   [] OTHER -> IF opt.revocation /\ opt.strict THEN "CERT_E_REVOCATION_FAILURE" ELSE Ok

(* What lies past the file may say anything, or end the program.           *)
Anything == {Ok, "TRUST_E_NOSIGNATURE", "access violation"}
Wild(f) == f.form \notin Tableless /\ Extracted(f.table).end = "wild"
Verdicts(f, opt, now, roots) == IF Wild(f) THEN Anything ELSE {VerifyPe(f, opt, now, roots)}
----------------------------------------------------------------------------
(* The calls of the guest                                                  *)

CONSTANTS
  Files,       \* what the path holds at first
  Later,       \* what it may be replaced by
  Extra,       \* roots the embedder may add
  Embedded,    \* the roots of the engine, in order
  Options,     \* the flags of WinVerifyTrust
  MaxTime,     \* bound of the clock
  MaxHandle,   \* bound of the handles given out
  Room,        \* CERT_CONTEXTs the scratch holds
  MaxEnds      \* bound: certificates an enumeration was given

VARIABLES
  roots,    \* the trust store
  now,      \* the clock
  disk,     \* the file at the path (replaced at any time)
  next,     \* g_nextHandle
  msgs,     \* g_msgs: handle -> the message
  stores,   \* g_stores
  states,   \* g_states: open hWVTStateData
  ctxs,     \* g_ctxByDer: the certificates with a context, in order
  owner,    \* hCertStore of each context
  answer,   \* the last answer
  walk      \* the guest's enumeration: store, what it was given, and whether it ended

vars == <<roots, now, disk, next, msgs, stores, states, ctxs, owner, answer, walk>>

Absent == [form |-> "absent"]
NoWalk == [store |-> 0, seen |-> <<>>, prev |-> 0, ended |-> FALSE]
Silent == [call |-> "none"]
Added(c) == [cert |-> c, only |-> Anyone, newest |-> 0, until |-> 0]

Init ==
  /\ roots = Embedded /\ now = 1 /\ disk \in Files /\ next = 0
  /\ msgs = <<>> /\ stores = <<>> /\ states = {}
  /\ ctxs = <<>> /\ owner = <<>> /\ answer = Silent /\ walk = NoWalk

(* add_trusted_root: an added root has no restriction; known, it stays as  *)
(* it is.                                                                  *)
AddTrustedRoot(c) ==
  /\ ~\E i \in DOMAIN roots : roots[i].cert = c
  /\ roots' = Append(roots, Added(c))
  /\ UNCHANGED <<now, disk, next, msgs, stores, states, ctxs, owner, answer, walk>>

Tick == /\ now < MaxTime /\ now' = now + 1
        /\ UNCHANGED <<roots, disk, next, msgs, stores, states, ctxs, owner, answer, walk>>
Replace(f) == /\ f # disk /\ disk' = f
              /\ UNCHANGED <<roots, now, next, msgs, stores, states, ctxs, owner, answer, walk>>

(* WinVerifyTrust with the generic action and a file; the state it leaves  *)
(* open is closed by a call of its own.                                    *)
WinVerifyTrust(opt, keep) ==
  /\ \E hr \in IF disk = Absent THEN {"ERROR_FILE_NOT_FOUND"} ELSE Verdicts(disk, opt, now, roots) :
       answer' = [call |-> "verify", opt |-> opt, file |-> disk, at |-> now, roots |-> roots, hr |-> hr]
  /\ IF keep /\ disk # Absent THEN next < MaxHandle /\ next' = next + 1 /\ states' = states \cup {next + 1}
                              ELSE UNCHANGED <<next, states>>
  /\ UNCHANGED <<roots, now, disk, msgs, stores, ctxs, owner, walk>>
CloseState(h) == /\ states' = states \ {h} /\ answer' = Silent
                 /\ UNCHANGED <<roots, now, disk, next, msgs, stores, ctxs, owner, walk>>

(* CryptQueryObject: both handles are numbered, those not asked for are    *)
(* dropped; the message is the file as it was read.                        *)
Signed(f) == f.form \in {"signed", "badalg", "other"} /\ Extracted(f.table).end = "found"
CryptQueryObject(wantStore, wantMsg) ==
  /\ Signed(disk) /\ next + 2 <= MaxHandle
  /\ next' = next + 2
  /\ stores' = IF wantStore THEN (next + 1 :> disk) @@ stores ELSE stores
  /\ msgs' = IF wantMsg THEN (next + 2 :> disk) @@ msgs ELSE msgs
  /\ answer' = Silent
  /\ UNCHANGED <<roots, now, disk, states, ctxs, owner, walk>>

Without(f, h) == [x \in DOMAIN f \ {h} |-> f[x]]
CryptMsgClose(h) == /\ h \in DOMAIN msgs /\ msgs' = Without(msgs, h) /\ answer' = Silent
                    /\ UNCHANGED <<roots, now, disk, next, stores, states, ctxs, owner, walk>>
CertCloseStore(h) == /\ h \in DOMAIN stores /\ stores' = Without(stores, h) /\ answer' = Silent
                     /\ UNCHANGED <<roots, now, disk, next, msgs, states, ctxs, owner, walk>>

(* The size protocol: what a call without a buffer said is what one with a *)
(* buffer of that size is given.                                           *)
Param(f, kind, i) ==
  CASE kind = "count" -> [n |-> 1, what |-> Len(f.certs)]
    [] kind = "cert" /\ i \in DOMAIN f.certs -> [n |-> 2, what |-> f.certs[i]]
    [] kind = "signer" -> [n |-> 3, what |-> f.signer]
    [] OTHER -> [n |-> 0, what |-> "CRYPT_E_INVALID_INDEX"]
CryptMsgGetParam(h, kind, i, room) ==
  /\ answer' = IF h \notin DOMAIN msgs THEN [call |-> "param", hr |-> "ERROR_INVALID_HANDLE"]
               ELSE LET p == Param(msgs[h], kind, i)
                    IN [call |-> "param", hr |-> CASE p.n = 0 -> p.what
                                                   [] p.n > 0 /\ room < p.n -> "ERROR_MORE_DATA"
                                                   [] OTHER -> Ok]
  /\ UNCHANGED <<roots, now, disk, next, msgs, stores, states, ctxs, owner, walk>>

(* CertFindCertificateInStore.  The enumeration goes on after the          *)
(* certificate whose context it was given, from the start if the store     *)
(* does not hold it.                                                       *)
(* Fault: after the first context that was handed out.                     *)
AfterContext(certs, p) == p + 1
After(certs, p) ==
  IF p = 0 THEN 1 ELSE 1 + First({i \in DOMAIN certs : certs[i] = ctxs[p]})
Matches(c, want) == CASE want.how = "any" -> TRUE
                      [] want.how = "subject" -> c.iss = want.iss /\ c.serial = want.serial
                      [] want.how = "hash" -> c = want.cert
Found(certs, p, want) == First({i \in After(certs, p) .. Len(certs) : Matches(certs[i], want)})

(* context_for: made once per certificate, then given again with the store *)
(* that returns it.                                                        *)
Context(c) == First({p \in DOMAIN ctxs : ctxs[p] = c})
CertFind(h, p, want) ==
  /\ h \in DOMAIN stores
  /\ LET certs == stores[h].certs
         i == Found(certs, p, want)
         known == IF i > 0 THEN Context(certs[i]) ELSE 0
         full == i > 0 /\ known = 0 /\ Len(ctxs) = Room
         at == CASE i = 0 \/ full -> 0 [] known > 0 -> known [] OTHER -> Len(ctxs) + 1
     IN /\ ctxs' = IF at > Len(ctxs) THEN Append(ctxs, certs[i]) ELSE ctxs
        /\ owner' = IF at = 0 THEN owner ELSE [q \in 1..Len(ctxs') |-> IF q = at THEN h ELSE owner[q]]
        /\ answer' = [call |-> "find", store |-> h, want |-> want, from |-> p, ctx |-> at,
                      hr |-> CASE at > 0 -> Ok [] full -> "ERROR_NOT_ENOUGH_MEMORY" [] OTHER -> "CRYPT_E_NOT_FOUND"]
        /\ walk' = IF want.how = "any" /\ walk.store = h /\ p = walk.prev /\ ~walk.ended
                   THEN IF at > 0 THEN [walk EXCEPT !.seen = Append(@, at), !.prev = at]
                                  ELSE IF full THEN NoWalk ELSE [walk EXCEPT !.ended = TRUE]
                   ELSE walk
  /\ Len(walk.seen) < MaxEnds
  /\ UNCHANGED <<roots, now, disk, next, msgs, stores, states>>

(* The guest starts to enumerate a store, and forgets that enumeration.    *)
Walk(h) == /\ walk.store = 0 /\ h \in DOMAIN stores /\ walk' = [NoWalk EXCEPT !.store = h]
           /\ UNCHANGED <<roots, now, disk, next, msgs, stores, states, ctxs, owner, answer>>
Forget == /\ walk.ended /\ walk' = NoWalk
          /\ UNCHANGED <<roots, now, disk, next, msgs, stores, states, ctxs, owner, answer>>

Wants == {[how |-> "any"]} \cup {[how |-> "hash", cert |-> c] : c \in Range(ctxs)}
         \cup UNION {{[how |-> "subject", iss |-> stores[h].signer.iss, serial |-> stores[h].signer.serial]} : h \in DOMAIN stores}
Next ==
  \/ \E c \in Extra : AddTrustedRoot(c)
  \/ Tick
  \/ \E f \in Later : Replace(f)
  \/ \E opt \in Options, keep \in BOOLEAN : WinVerifyTrust(opt, keep)
  \/ \E h \in states : CloseState(h)
  \/ \E s, m \in BOOLEAN : CryptQueryObject(s, m)
  \/ \E h \in DOMAIN msgs : CryptMsgClose(h)
  \/ \E h \in DOMAIN stores : CertCloseStore(h)
  \/ \E h \in DOMAIN msgs \cup {0}, k \in {"count", "cert", "signer"}, i \in 1..2, room \in 1..3 : CryptMsgGetParam(h, k, i, room)
  \/ \E h \in DOMAIN stores, p \in {0} \cup DOMAIN ctxs, want \in Wants : CertFind(h, p, want)
  \/ \E h \in DOMAIN stores : Walk(h)
  \/ Forget

Spec == Init /\ [][Next]_vars
----------------------------------------------------------------------------
(* What trust means, said without the walk: a path of at most Depth        *)
(* certificates of the message and the store, each signed by the next, in  *)
(* date, right for the usage and, past the first, an authority, none but   *)
(* the last a root, and that root, as its program restricts it.            *)
Sane(c, n, T, usage) == c.from <= T /\ T <= c.to /\ EkuOk(c, usage) /\ (n > 1 /\ c.v3 => c.ca)
RootCerts(rs) == {rs[i].cert : i \in DOMAIN rs}
Reached(rs, pool, leaf, T, usage) ==
  LET all == RootCerts(rs) \cup Range(pool)
      reach[n \in 1..Depth] ==
        IF n = 1 THEN {leaf}
        ELSE {d \in all : \E c \in reach[n - 1] : /\ Sane(c, n - 1, T, usage) /\ Anchor(rs, c) = 0
                                                /\ c.iss # c.subj /\ c.iss = d.subj /\ SignedBy(c, d)}
  IN UNION {{c \in reach[n] : Sane(c, n, T, usage)} : n \in 1..Depth}
Trusted(rs, pool, leaf, T, usage) ==
  \E c \in Reached(rs, pool, leaf, T, usage) : Anchor(rs, c) > 0 /\ RootSays(rs[Anchor(rs, c)], leaf, T, usage) = {}
OneByName(rs, pool) ==
  LET all == RootCerts(rs) \cup Range(pool) IN \A c, d \in all : c.subj = d.subj => c = d

(* The signature a verdict is about is the first one in the certificate    *)
(* table, and with none there the file is unsigned (pe_extract_pkcs7).     *)
(* The exception: where an entry of another kind, its length rounded up,   *)
(* passes the table's end, what is taken for an entry lies behind it (or   *)
(* behind the file).                                                       *)
Chained(t) ==
  LET at[n \in 0..t.size] == IF n = 0 THEN 0 ELSE at[n - 1] + RoundedUp(Entry(t, at[n - 1]).len)
      whole(p) == Entry(t, p).len >= 2 /\ p + Entry(t, p).len <= t.size
  IN {at[n] : n \in {n \in 0..t.size : \A m \in 0..n : whole(at[m])}}
SignatureInTable ==
  answer.call = "verify" /\ answer.file.form \notin Tableless =>
    LET t == answer.file.table
        w == Extracted(t)
        own == {p \in Chained(t) : t.at[p].type = "pkcs7"}
        overruns == own = {} /\ \E p \in Chained(t) : p + RoundedUp(t.at[p].len) > t.size
    IN /\ own # {} => w.end = "found" /\ w.pos \in own /\ \A p \in own : w.pos <= p
       /\ own = {} /\ ~overruns => answer.hr = "TRUST_E_NOSIGNATURE"
       /\ overruns => w.pos > t.size

(* A file the engine calls trusted has the digest its signer signed, the   *)
(* signer is in the message and its certificate is vouched for by the      *)
(* roots as they were, at the clock's date unless a stamp that covers this *)
(* very signature, from a trusted stamp authority, says another and the    *)
(* caller wants it; a file that passes all of that is called trusted when  *)
(* no two certificates share a name.                                       *)
TrustSound ==
  answer.call = "verify" /\ answer.file.form = "signed" /\ ~Wild(answer.file) /\ ~answer.opt.hashOnly =>
    LET f == answer.file
        ci == FindCert(f.certs, f.signer)
        stamped == f.stamp # NoStamp
        ti == FindCert(StampPool(f), f.stamp.signer)
        T == IF stamped /\ ~answer.opt.lifetime THEN f.stamp.time ELSE answer.at
        signs == /\ Extracted(f.table).end = "found" /\ f.image = f.claims /\ ci > 0
                 /\ VerifySigner(f.signer, f.certs[ci], f.claims, "spc") = Ok
                 /\ stamped => StampError(f) = Ok
        vouched == /\ Trusted(answer.roots, f.certs, f.certs[ci], T, "code")
                   /\ stamped => Trusted(answer.roots, StampPool(f), StampPool(f)[ti], T, "stamp")
        unambiguous == OneByName(answer.roots, f.certs) /\ OneByName(answer.roots, StampPool(f))
    IN /\ answer.hr = Ok => signs /\ vouched
       /\ signs /\ unambiguous /\ vouched => answer.hr \in {Ok, "CERT_E_REVOCATION_FAILURE"}

(* An enumeration gives each certificate of the message once, in its       *)
(* order, whatever other stores, other finds and the file itself do in the *)
(* meantime, and ends after the last (messages carry no certificate twice).*)
EachOnce(s) == \A i, j \in DOMAIN s : s[i] = s[j] => i = j
WalkInOrder ==
  walk.store \in DOMAIN stores /\ EachOnce(stores[walk.store].certs) =>
    LET certs == stores[walk.store].certs
        seen == [i \in DOMAIN walk.seen |-> ctxs[walk.seen[i]]]
    IN IsPrefix(seen, certs) /\ (walk.ended => seen = certs)

(* The context a find answered is that of the certificate asked for, one   *)
(* per certificate, and names the store that answered.                     *)
ContextFits ==
  /\ EachOnce(ctxs)
  /\ answer.call = "find" /\ answer.ctx > 0 => Matches(ctxs[answer.ctx], answer.want) /\ owner[answer.ctx] = answer.store
============================================================================
