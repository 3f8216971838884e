------------------------------- MODULE CertParse -------------------------------
(***************************************************************************)
(* Certificates and signatures out of DER (runtime/authenticode.cpp: the      *)
(* cursor's clients parse_alg, Certificate::parse, parse_attrs,               *)
(* parse_signer_info, SignedData::parse).  A value is a node: its tag, the    *)
(* values inside it, and what follows them when it cannot be read (the tag    *)
(* such a rest begins with).  A primitive's content is one symbol.            *)
(***************************************************************************)
EXTENDS Integers, Sequences, SequencesExt

CONSTANTS
    Documents,  \* the nodes to start from: what -> node
    Parts,      \* the nodes an edit may insert: what -> set of nodes
    MaxEdits    \* bound: edits of a document

Clean == "clean"
Refused == [ok |-> FALSE]

VARIABLES
    what,       \* the kind of document: "signer", "tbs", "signed" or "exts"
    doc,        \* the document the program is given
    edits       \* changes made to it
vars == <<what, doc, edits>>

Init == /\ what \in DOMAIN Documents /\ doc = Documents[what] /\ edits = 0

\* Another input: one value more, one less, or a rest that cannot be read.
Edit(kids, rest) == /\ edits < MaxEdits /\ edits' = edits + 1
                    /\ doc' = [doc EXCEPT !.kids = kids, !.rest = rest]
                    /\ UNCHANGED what
Next == \/ \E i \in 1 .. Len(doc.kids) : Edit(RemoveAt(doc.kids, i), doc.rest)
        \/ \E i \in 1 .. Len(doc.kids) + 1, x \in Parts[what] : Edit(InsertAt(doc.kids, i, x), doc.rest)
        \/ \E tag \in {"a0", "a1", "int"} : Edit(doc.kids, tag)
Spec == Init /\ [][Next]_vars

-----------------------------------------------------------------------------
\* Cur over a node: expect at place i, and peek, which sees the first byte of
\* what cannot be read as well.
Has(n, i, tag) == i <= Len(n.kids) /\ n.kids[i].tag = tag
Peek(n, i, tag) == Has(n, i, tag) \/ (i = Len(n.kids) + 1 /\ n.rest = tag)
\* Whether a walk over all the values of a node ends at its end.
Whole(n) == n.rest = Clean

\* parse_alg: an identifier, and at most one more value is read.
Alg(n) == /\ n.tag = "seq" /\ Has(n, 1, "oid")
          /\ Len(n.kids) = 1 => Whole(n)
AlgAt(n, i) == i <= Len(n.kids) /\ Alg(n.kids[i])

\* parse_attrs.
Attrs(n) == /\ \A i \in 1 .. Len(n.kids) :
                 LET a == n.kids[i]
                 IN a.tag = "seq" /\ Has(a, 1, "oid") /\ Has(a, 2, "set") /\ Whole(a.kids[2])
            /\ Whole(n)

\* The place after an optional value with the tag at place i.
After(n, i, tag) == IF Peek(n, i, tag) THEN i + 1 ELSE i
\* A fault: the optional value is skipped only when another one follows it.
AfterMore(n, i, tag) == IF Has(n, i, tag) /\ Len(n.kids) > i + 2 THEN i + 1 ELSE i
Skip(n, i, tag) == After(n, i, tag)

\* parse_signer_info.
Signer(n) ==
    LET e == Skip(n, 4, "a0")
        u == Skip(n, e + 2, "a1")
    IN IF /\ n.tag = "seq"
          /\ Has(n, 1, "int")
          /\ Has(n, 2, "seq") /\ Has(n.kids[2], 1, "seq") /\ Has(n.kids[2], 2, "int")
          /\ AlgAt(n, 3)
          /\ e = 5 => Has(n, 4, "a0") /\ Attrs(n.kids[4])
          /\ AlgAt(n, e) /\ Has(n, e + 1, "octets")
          /\ u = e + 3 => Has(n, e + 2, "a1") /\ Attrs(n.kids[e + 2])
         THEN [ok |-> TRUE, issuer |-> n.kids[2].kids[1], digestAlg |-> n.kids[3],
               auth |-> SubSeq(n.kids, 4, e - 1), encAlg |-> n.kids[e], digest |-> n.kids[e + 1],
               unauth |-> SubSeq(n.kids, e + 2, u - 1)]
         ELSE Refused

\* The extensions: an identifier, an optional flag and the value.
ValueAt(x) == IF Has(x, 2, "bool") THEN 3 ELSE 2
Exts(n) == (\A i \in 1 .. Len(n.kids) :
              LET x == n.kids[i]
              IN x.tag = "seq" /\ Has(x, 1, "oid") /\ Has(x, ValueAt(x), "octets")) /\ Whole(n)
\* hasBasicConstraints and isCA: each constraint that carries a flag sets it.
IsCA(n) == LET says == SelectSeq(n.kids, LAMBDA x : /\ x.kids[1].val = "constraints"
                                                    /\ x.kids[ValueAt(x)].val \in {"ca", "notca"})
           IN says # <<>> /\ LET last == says[Len(says)] IN last.kids[ValueAt(last)].val = "ca"

\* Certificate::parse, the signed part.
Tbs(n) ==
    LET v == Skip(n, 1, "a0") - 1
        extended == {i \in v + 7 .. Len(n.kids) : n.kids[i].tag = "a3"}
    IN IF /\ n.tag = "seq"
          /\ v = 1 => Has(n, 1, "a0") /\ Has(n.kids[1], 1, "int")
          /\ Has(n, v + 1, "int") /\ AlgAt(n, v + 2)
          /\ Has(n, v + 3, "seq")
          /\ Has(n, v + 4, "seq") /\ Has(n.kids[v + 4], 1, "time") /\ Has(n.kids[v + 4], 2, "time")
          /\ Has(n, v + 5, "seq")
          /\ Has(n, v + 6, "seq") /\ AlgAt(n.kids[v + 6], 1) /\ Has(n.kids[v + 6], 2, "bits")
          /\ \A i \in extended : Has(n.kids[i], 1, "seq") /\ Exts(n.kids[i].kids[1])
          /\ Whole(n)
         THEN [ok |-> TRUE, version |-> IF v = 1 THEN n.kids[1].kids[1].val ELSE "0",
               serial |-> n.kids[v + 1], issuer |-> n.kids[v + 3], validity |-> n.kids[v + 4],
               subject |-> n.kids[v + 5], spki |-> n.kids[v + 6],
               ca |-> \E i \in extended : IsCA(n.kids[i].kids[1])]
         ELSE Refused
Certificate(n) == n.tag = "seq" /\ Has(n, 1, "seq") /\ Tbs(n.kids[1]).ok
                  /\ AlgAt(n, 2) /\ Has(n, 3, "bits")

\* SignedData::parse, inside the outer content: certificates that are not
\* sequences are passed over, revocation lists are skipped.
Signed(n) ==
    LET c == Skip(n, 4, "a0")
        s == Skip(n, c, "a1")
        certs == IF c = 5 THEN SelectSeq(n.kids[4].kids, LAMBDA x : x.tag = "seq") ELSE <<>>
    IN IF /\ n.tag = "seq"
          /\ Has(n, 1, "int") /\ Has(n, 2, "set")
          /\ Has(n, 3, "seq") /\ Has(n.kids[3], 1, "oid")
          /\ Len(n.kids[3].kids) > 1 => Has(n.kids[3], 2, "a0") /\ Len(n.kids[3].kids[2].kids) > 0
          /\ c = 5 => Has(n, 4, "a0") /\ Whole(n.kids[4])
          /\ c = 5 => \A i \in 1 .. Len(certs) : Certificate(certs[i])
          /\ Has(n, s, "set") /\ Whole(n.kids[s])
          /\ \A i \in 1 .. Len(n.kids[s].kids) : Signer(n.kids[s].kids[i]).ok
         THEN [ok |-> TRUE, content |-> n.kids[3], certs |-> certs, signers |-> n.kids[s].kids]
         ELSE Refused

-----------------------------------------------------------------------------
\* The reference: the values of a node, each of the kind the standard names, with
\* the optional ones present or not, as a list of <<role, tag, optional>>.
Roles(kids, pattern) ==
    {S \in SUBSET (1 .. Len(pattern)) :
        /\ \A i \in 1 .. Len(pattern) : i \notin S => pattern[i][3]
        /\ LET picked == SelectSeq([i \in 1 .. Len(pattern) |-> i], LAMBDA i : i \in S)
           IN /\ Len(picked) <= Len(kids)
              /\ \A k \in 1 .. Len(picked) : kids[k].tag = pattern[picked[k]][2]}
PlaceOf(S, i) == Len(SelectSeq([k \in 1 .. i |-> k], LAMBDA k : k \in S))

SignerShape == <<<<"version", "int", FALSE>>, <<"issuer", "seq", FALSE>>, <<"digestAlg", "seq", FALSE>>,
                 <<"auth", "a0", TRUE>>, <<"encAlg", "seq", FALSE>>, <<"digest", "octets", FALSE>>,
                 <<"unauth", "a1", TRUE>>>>
TbsShape == <<<<"version", "a0", TRUE>>, <<"serial", "int", FALSE>>, <<"alg", "seq", FALSE>>,
              <<"issuer", "seq", FALSE>>, <<"validity", "seq", FALSE>>, <<"subject", "seq", FALSE>>,
              <<"spki", "seq", FALSE>>>>
SignedShape == <<<<"version", "int", FALSE>>, <<"algs", "set", FALSE>>, <<"content", "seq", FALSE>>,
                 <<"certs", "a0", TRUE>>, <<"crls", "a1", TRUE>>, <<"signers", "set", FALSE>>>>

\* What is accepted has the shape the standard gives, with every field taken
\* from the place of its role, whatever is missing or was added; nothing is
\* accepted with an unreadable rest where the walk goes on to the end.
ReadByRole ==
    /\ what = "signer" /\ Signer(doc).ok =>
         \E S \in Roles(doc.kids, SignerShape) :
            /\ Signer(doc).encAlg = doc.kids[PlaceOf(S, 5)]
            /\ Signer(doc).digest = doc.kids[PlaceOf(S, 6)]
            /\ Signer(doc).auth = (IF 4 \in S THEN <<doc.kids[PlaceOf(S, 4)]>> ELSE <<>>)
            /\ Signer(doc).unauth = (IF 7 \in S THEN <<doc.kids[PlaceOf(S, 7)]>> ELSE <<>>)
            /\ Peek(doc, 4, "a0") => 4 \in S
    /\ what = "tbs" /\ Tbs(doc).ok =>
         /\ Whole(doc)
         /\ \E S \in Roles(doc.kids, TbsShape) :
              /\ Tbs(doc).issuer = doc.kids[PlaceOf(S, 4)]
              /\ Tbs(doc).subject = doc.kids[PlaceOf(S, 6)]
              /\ Tbs(doc).spki = doc.kids[PlaceOf(S, 7)]
              /\ (1 \in S) = (doc.kids[1].tag = "a0")
              /\ Tbs(doc).ca => \E i \in PlaceOf(S, 7) + 1 .. Len(doc.kids) : doc.kids[i].tag = "a3"
    /\ what = "signed" /\ Signed(doc).ok =>
         \E S \in Roles(doc.kids, SignedShape) :
            /\ Signed(doc).signers = doc.kids[PlaceOf(S, 6)].kids
            /\ Signed(doc).content = doc.kids[PlaceOf(S, 3)]
            /\ Signed(doc).certs # <<>> => 4 \in S
    /\ what = "exts" /\ Exts(doc) /\ IsCA(doc) => \E i \in 1 .. Len(doc.kids) : doc.kids[i].kids[1].val = "constraints"
    /\ edits = 0 => CASE what = "signer" -> Signer(doc).ok
                      [] what = "tbs" -> Tbs(doc).ok
                      [] what = "signed" -> Signed(doc).ok
                      [] what = "exts" -> Exts(doc)
=============================================================================
