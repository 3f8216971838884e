------------------------------- MODULE DerBytes -------------------------------
(***************************************************************************)
(* Reading DER (runtime/authenticode.cpp: der_read, Cur, oid_to_string,       *)
(* der_time).                                                                 *)
(* A byte has B values, the upper half of which have the high bit; the 0x1f   *)
(* of a long tag number is LongTag and a tag has no class bits; the 40 of an  *)
(* object identifier's first byte is Forty.  Offsets count from 0.            *)
(***************************************************************************)
EXTENDS Integers, Sequences, SequencesExt

CONSTANTS
    B,          \* values of a byte, even
    LongTag,    \* the tag that announces a long tag number
    MaxLenBytes,\* length bytes accepted after the first (4)
    Forty,      \* 40
    MaxArc,     \* the largest arc that fits the accumulator (2^64 - 1)
    MaxBuf,     \* bound: bytes of a buffer
    Times       \* the times given to der_time, NoTime among them

VARIABLES
    buf,        \* the bytes from which the program reads
    time        \* a time: what its fields say, NaN for one that is not all digits
NoTime == [form |-> "none"]
Init == buf = <<>> /\ time \in Times
Next == /\ Len(buf) < MaxBuf /\ time = NoTime
        /\ \E x \in 0 .. B - 1 : buf' = Append(buf, x)
        /\ UNCHANGED time
Spec == Init /\ [][Next]_<<buf, time>>

High == B \div 2
At(b, i) == b[i + 1]
Failed == [ok |-> FALSE, tag |-> 0, off |-> 0, head |-> 0, len |-> 0]

\* The big-endian number of k bytes from offset i.
Number(b, i, k) == FoldLeft(LAMBDA l, x : l * B + x, 0, SubSeq(b, i + 1, i + k))

\* der_read: a header and as many bytes of value as it announces, all before end.
Fit(len, end, pos, head) == len <= end - pos - head
\* A fault: the header's own bytes are not counted.
FitBare(len, end, pos, head) == len <= end - pos
Room(len, end, pos, head) == Fit(len, end, pos, head)
Read(b, pos, end) ==
    IF pos >= end \/ end - pos < 2 \/ At(b, pos) = LongTag THEN Failed
    ELSE LET first == At(b, pos + 1)
             k     == IF first >= High THEN first - High ELSE 0
             head  == 2 + k
             len   == IF first >= High THEN Number(b, pos + 2, k) ELSE first
         IN IF /\ first >= High => k \in 1 .. MaxLenBytes /\ end - pos >= head
               /\ Room(len, end, pos, head)
              THEN [ok |-> TRUE, tag |-> At(b, pos), off |-> pos, head |-> head, len |-> len]
              ELSE Failed

\* Cur: the values from pos to end, one after the other; bad when one cannot be read.
Walk(b, from, end) ==
    LET w[pos \in from .. end] ==
          IF pos >= end THEN [kids |-> <<>>, bad |-> FALSE]
          ELSE LET t == Read(b, pos, end)
               IN IF ~t.ok THEN [kids |-> <<>>, bad |-> TRUE]
                  ELSE LET rest == w[pos + t.head + t.len]
                       IN [rest EXCEPT !.kids = <<t>> \o @]
    IN w[from]

\* oid_to_string: seven bits of each byte; the first number holds two arcs.
\* The empty result is a refusal.
FirstArcs(v) == LET a == IF v < Forty THEN 0 ELSE IF v < 2 * Forty THEN 1 ELSE 2
                IN <<a, v - Forty * a>>
\* Room for seven bits more in the accumulator.
Overflows(v) == v > MaxArc \div High
OidStep(acc, x) ==
    LET v == acc.v * High + (x % High)
    IN IF ~acc.ok \/ Overflows(acc.v) THEN [acc EXCEPT !.ok = FALSE]
       ELSE IF x >= High THEN [acc EXCEPT !.v = v, !.open = TRUE]
       ELSE [ok |-> TRUE, v |-> 0, open |-> FALSE,
             arcs |-> acc.arcs \o (IF acc.arcs = <<>> THEN FirstArcs(v) ELSE <<v>>)]
Oid(b) ==
    LET end == FoldLeft(OidStep, [ok |-> TRUE, v |-> 0, open |-> FALSE, arcs |-> <<>>], b)
    IN IF end.ok /\ ~end.open THEN end.arcs ELSE <<>>

\* days_from_civil: days since 1970-01-01, in years that begin with March.  A fault:
\* February belongs to the year it is written in.
ShiftedLate(y, m) == IF m < 2 THEN y - 1 ELSE y
Shifted(y, m) == IF m <= 2 THEN y - 1 ELSE y
Days(y0, m, d) ==
    LET y   == Shifted(y0, m)
        yoe == y % 400
        doy == (153 * (IF m > 2 THEN m - 3 ELSE m + 9) + 2) \div 5 + d - 1
    IN (y \div 400) * 146097 + yoe * 365 + yoe \div 4 - yoe \div 100 + doy - 719468

\* der_time: a year of two digits is of 1950 to 2049; a fraction of a second is not
\* counted, but has a point and digits.  An instant is a day and its second.
NaN == -1
Century(t) == IF t.form # "utc" THEN t.y ELSE t.y + (IF t.y < 50 THEN 2000 ELSE 1900)
WellFormed(t) ==
    /\ t.form \in {"utc", "general"} /\ t.zulu
    /\ t.frac \in IF t.form = "utc" THEN {"none"} ELSE {"none", "digits"}
    /\ NaN \notin {t.y, t.m, t.d, t.h, t.mi, t.s}
    /\ t.m \in 1 .. 12 /\ t.d \in 1 .. 31 /\ t.h <= 23 /\ t.mi <= 59 /\ t.s <= 60
Instant(t) ==
    IF ~WellFormed(t) THEN <<>>
    ELSE LET sec == t.h * 3600 + t.mi * 60 + t.s
         IN <<Days(Century(t), t.m, t.d) + sec \div 86400, sec % 86400>>

-----------------------------------------------------------------------------
\* What DER means: how a number is written in n digits, a header, an arc.
Digits(v, base, n) == [i \in 1 .. n |-> (v \div base^(n - i)) % base]
Header(tag, k, len) == IF k = 0 THEN <<tag, len>>
                       ELSE <<tag, High + k>> \o Digits(len, B, k)
\* The value at offset pos that DER allows, if any, as the length of header and value.
Contents(b, pos) ==
    {<<k, len>> \in (0 .. MaxLenBytes) \X (0 .. Len(b)) :
        /\ pos < Len(b) /\ b[pos + 1] # LongTag
        /\ k = 0 => len < High
        /\ IsPrefix(Header(b[pos + 1], k, len), SubSeq(b, pos + 1, Len(b)))
        /\ pos + 2 + k + len <= Len(b)}

\* An identifier's number in the fewest bytes.
ArcBytes(v) ==
    LET n == CHOOSE n \in 1 .. MaxBuf + 1 : v < High^n /\ (n = 1 \/ v >= High^(n - 1))
        d == Digits(v, High, n)
    IN [i \in 1 .. n |-> IF i < n THEN d[i] + High ELSE d[i]]
OidBytes(arcs) == FlattenSeq([i \in 1 .. Len(arcs) - 1 |->
                      ArcBytes(IF i = 1 THEN arcs[1] * Forty + arcs[2] ELSE arcs[i + 1])])
\* No number starts with a byte of seven zero bits that another follows.
Minimal(b) == \A i \in 1 .. Len(b) : b[i] = High => i > 1 /\ b[i - 1] >= High

\* A value is read exactly when the bytes are a header and a value that fits;
\* what a cursor reads tiles the bytes, up to the place where it stops; an
\* identifier is read exactly when its numbers are whole, and written again it
\* gives the bytes it came from.
DerSound ==
    LET end == Len(buf)
        w == Walk(buf, 0, end)
        arcs == Oid(buf)
    IN /\ LET r == Read(buf, 0, end)
          IN IF r.ok THEN <<r.head - 2, r.len>> \in Contents(buf, 0) ELSE Contents(buf, 0) = {}
       /\ \A i \in 1 .. Len(w.kids) :
             /\ w.kids[i].off + w.kids[i].head + w.kids[i].len <= end
             /\ w.kids[i].off = (IF i = 1 THEN 0
                                 ELSE w.kids[i-1].off + w.kids[i-1].head + w.kids[i-1].len)
       /\ ~w.bad /\ end > 0 =>
             LET last == w.kids[Len(w.kids)] IN last.off + last.head + last.len = end
       /\ arcs # <<>> /\ Minimal(buf) => OidBytes(arcs) = buf
       /\ arcs = <<>> /\ end > 0 =>
             \/ buf[end] >= High
             \/ \E i \in 1 .. end : i > 1 /\ buf[i - 1] >= High

\* The calendar: the day after a day, and whether a day is in its month.
Leap(y) == y % 4 = 0 /\ (y % 100 # 0 \/ y % 400 = 0)
MonthDays(y, m) == IF m = 2 THEN IF Leap(y) THEN 29 ELSE 28
                   ELSE IF m \in {4, 6, 9, 11} THEN 30 ELSE 31
DayAfter(y, m, d) == IF d < MonthDays(y, m) THEN <<y, m, d + 1>>
                     ELSE IF m < 12 THEN <<y, m + 1, 1>> ELSE <<y + 1, 1, 1>>

\* A date of the calendar is the day after the one before it, counted from
\* 1970-01-01 = 0, also across a leap day, a century and the year 0; the last
\* second of a day, a leap second and the next day's first follow one another;
\* and the two forms of a time that both can write are one instant (der_time).
TimeSound ==
    LET t == time
        i == Instant(t)
        y == Century(t)
        n == DayAfter(y, t.m, t.d)
    IN t # NoTime /\ i # <<>> =>
         /\ <<y, t.m, t.d>> = <<1970, 1, 1>> /\ t.h = 0 => i[1] = 0
         /\ t.d <= MonthDays(y, t.m) /\ y < 9999 =>
               /\ Days(n[1], n[2], n[3]) = Days(y, t.m, t.d) + 1
               /\ <<t.h, t.mi, t.s>> = <<23, 59, 60>> =>
                     i = Instant([t EXCEPT !.form = "general", !.y = n[1], !.m = n[2], !.d = n[3],
                                           !.h = 0, !.mi = 0, !.s = 0])
         /\ t.form = "utc" => y \in 1950 .. 2049 /\ i = Instant([t EXCEPT !.form = "general", !.y = y])
=============================================================================
