------------------------------ MODULE RsaMath ------------------------------
(***************************************************************************)
(* The public-key arithmetic of src/runtime/authenticode.cpp: Montgomery   *)
(* exponentiation over words.  A number is a sequence of words, the least  *)
(* significant first; every sum is cut to the width the code keeps it in.  *)
(* The words are W bits wide and a modulus has at most MaxWords of them.   *)
(***************************************************************************)
EXTENDS Naturals, Sequences, SequencesExt

CONSTANTS
  W, MaxWords, MaxExp,
  Full, Bytes,   \* the padding byte 0xff; the values of a byte, 0, 1 and Full among them
  LeastPad,      \* padding bytes a message has at least (8)
  Forms,         \* what may precede the digest, in the order tried: its type, with NULL
                 \* parameters and without, and nothing
  Digest,        \* the digest's bytes
  MaxMessage     \* bound: bytes of a message

VARIABLES
  n, s, e,   \* modulus, signature, exponent: what rsa_public is given
  out,       \* what it answers: refused, or a number
  em         \* a message such as it recovers, for rsa_pkcs1v15_verify

vars == <<n, s, e, out, em>>

Base == 2 ^ W
Word(x)  == x % Base
Carry(x) == x \div Base
Zero(k) == [i \in 1..k |-> 0]
One(k) == [Zero(k) EXCEPT ![1] = 1]

(* from_be: the k words of a number that fits in them.                     *)
Limbs(x, k) == [i \in 1..k |-> (x \div Base ^ (i - 1)) % Base]
Value(a) == FoldRight(LAMBDA w, v : w + Base * v, a, 0)
Less(a, b) == Value(a) < Value(b)   \* cmp

(* sub_in: the borrow out of the last word is dropped.                     *)
Sub(a, b) ==
  FoldLeft(LAMBDA st, i :
             LET d == a[i] + 2 * Base - b[i] - st.borrow
             IN [r |-> Append(st.r, Word(d)), borrow |-> IF d < 2 * Base THEN 1 ELSE 0],
           [r |-> <<>>, borrow |-> 0], [i \in 1..Len(a) |-> i]).r

(* The inverse of n0 modulo the base, by Newton's method from 1: each      *)
(* round doubles the number of right bits, of which n0 odd gives the first.*)
Newton(n0) ==
  FoldLeft(LAMBDA inv, i : Word(inv * Word(2 * Base + 2 - Word(n0 * inv))), 1, <<1, 2, 3, 4, 5>>)
Inverse0(n0) == Word(Base - Newton(n0))
----------------------------------------------------------------------------
(* mont_mul: a b R^-1 mod n, word by word of b.  t has two words more than *)
(* n; a sum of the inner loops keeps two words.                            *)

AddRow(t, a, bi) ==
  LET k == Len(a)
      row == FoldLeft(LAMBDA st, j : LET x == t[j] + a[j] * bi + st.c
                                     IN [r |-> Append(st.r, Word(x)), c |-> Carry(x)],
                      [r |-> <<>>, c |-> 0], [j \in 1..k |-> j])
      x == t[k + 1] + row.c
  IN row.r \o <<Word(x), Word(Carry(x))>>

(* A multiple of n makes the low word zero, and the rest moves down.       *)
Reduce(t, N, n0) ==
  LET k == Len(N)
      m == Word(t[1] * n0)
      row == FoldLeft(LAMBDA st, j : LET x == t[j] + m * N[j] + st.c
                                     IN [r |-> Append(st.r, Word(x)), c |-> Carry(x)],
                      [r |-> <<>>, c |-> Carry(t[1] + m * N[1])], [j \in 1..k-1 |-> j + 1])
      x == t[k + 1] + row.c
  IN row.r \o <<Word(x), Word(t[k + 2] + Carry(x)), 0>>

(* The result is below 2n and may need one word more: then, and when it    *)
(* reaches n, n is taken off.  Fault: only the comparison.                 *)
ExcessWithoutTop(t, N) == ~Less(SubSeq(t, 1, Len(N)), N)
Excess(t, N) == t[Len(N) + 1] # 0 \/ ~Less(SubSeq(t, 1, Len(N)), N)

MontMul(a, b, N, n0) ==
  LET k == Len(N)
      t == FoldLeft(LAMBDA u, i : Reduce(AddRow(u, a, b[i]), N, n0), Zero(k + 2), [i \in 1..k |-> i])
      r == SubSeq(t, 1, k)
  IN IF Excess(t, N) THEN Sub(r, N) ELSE r
----------------------------------------------------------------------------
(* rsa_public                                                              *)

WordsOf(x) == CHOOSE k \in 1..MaxWords : x < Base ^ k /\ (k = 1 \/ x >= Base ^ (k - 1))

(* R^2 mod n: one doubled 2Wk times, n taken off whenever it is reached.   *)
Doubled(x, N) ==
  LET d == [i \in 1..Len(x) |-> Word(2 * x[i] + IF i = 1 THEN 0 ELSE Carry(2 * x[i - 1]))]
  IN IF Carry(2 * x[Len(x)]) # 0 \/ ~Less(d, N) THEN Sub(d, N) ELSE d
RSquared(N) == FoldLeft(LAMBDA x, i : Doubled(x, N), One(Len(N)), Zero(2 * W * Len(N)))

(* The bits of the exponent, the highest first.                            *)
Bits(x) == LET top == CHOOSE b \in 0..x : x < 2 ^ (b + 1) /\ x >= 2 ^ b
           IN [i \in 1..top + 1 |-> (x \div 2 ^ (top + 1 - i)) % 2]

Exponentiated(S, x, N) ==
  LET n0 == Inverse0(N[1])
      Mul(a, b) == MontMul(a, b, N, n0)
      R2 == RSquared(N)
      base == Mul(S, R2)
      acc == FoldLeft(LAMBDA a, bit : LET sq == Mul(a, a) IN IF bit = 1 THEN Mul(sq, base) ELSE sq,
                      Mul(One(Len(N)), R2), IF x = 0 THEN <<>> ELSE Bits(x))
  IN Mul(acc, One(Len(N)))

(* An even modulus and a signature not below it are refused.               *)
Refused == [ok |-> FALSE, v |-> 0]
Public(nn, ss, ee) ==
  IF nn % 2 = 0 \/ ss >= nn THEN Refused
  ELSE LET k == WordsOf(nn)
       IN [ok |-> TRUE, v |-> Value(Exponentiated(Limbs(ss, k), ee, Limbs(nn, k)))]

(* rsa_pkcs1v15_verify: 0, 1, padding, 0, then a prefix and the digest fill *)
(* the message.  A message too short for a form ends the search, although  *)
(* a later form is shorter.  Fault: only the tail is looked at.            *)
FillsTail(m, tail) == IsSuffix(tail, m)
Fills(m, tail) ==
  LET ps == Len(m) - Len(tail) - 3
  IN /\ m[1] = 0 /\ m[2] = 1
     /\ \A i \in 1..ps : m[2 + i] = Full
     /\ m[3 + ps] = 0
     /\ SubSeq(m, ps + 4, Len(m)) = tail
HasRoom(m, i) == Len(m) >= Len(Forms[i]) + Len(Digest) + LeastPad + 3
Verified(m) ==
  \E i \in DOMAIN Forms : /\ \A j \in 1..i : HasRoom(m, j)
                            /\ Fills(m, Forms[i] \o Digest)

(* The numbers, or a message.                                              *)
Init == /\ out = Refused
        /\ \/ /\ n \in 1..Base ^ MaxWords - 1 /\ s \in 0..Base ^ MaxWords - 1 /\ e \in 0..MaxExp
              /\ s <= n /\ em = <<>>
           \/ n = 1 /\ s = 0 /\ e = 0 /\ em \in UNION {[1..l -> Bytes] : l \in 1..MaxMessage}
RsaPublic == out' = Public(n, s, e) /\ UNCHANGED <<n, s, e, em>>
Next == RsaPublic
Spec == Init /\ [][Next]_vars
----------------------------------------------------------------------------
(* What is answered is the power the signature check needs, s^e mod n,     *)
(* whatever the carries on the way.                                        *)
PowerMod(x, y, m) == FoldLeft(LAMBDA p, i : (p * x) % m, 1 % m, Zero(y))
IsPower == out.ok => out.v = PowerMod(s, e, n)

(* A message is accepted only when it is, byte for byte, an encoding that  *)
(* names the digest's type, with NULL parameters or without, or, against   *)
(* authenticode.h:114 ("full DigestInfo required"), the bare digest after  *)
(* the padding (authenticode.cpp:224-226); and an encoding with room for   *)
(* every form always is accepted (rsa_pkcs1v15_verify).                    *)
Encoded(i, ps) == <<0, 1>> \o [k \in 1..ps |-> Full] \o <<0>> \o Forms[i] \o Digest
Named == {i \in DOMAIN Forms : Forms[i] # <<>>}
EncodingsOf(F) == {Encoded(i, ps) : i \in F, ps \in LeastPad..MaxMessage}
Encodings == EncodingsOf(DOMAIN Forms)
OneEncoding == /\ Verified(em) => em \in EncodingsOf(Named) \/ em \in EncodingsOf(DOMAIN Forms \ Named)
               /\ em \in Encodings /\ (\A i \in DOMAIN Forms : HasRoom(em, i)) => Verified(em)
============================================================================
