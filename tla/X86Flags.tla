------------------------------ MODULE X86Flags ------------------------------
(***************************************************************************)
(* Deferred flags (src/dynarec86/shim/x86run_flags.c).  Translated code    *)
(* stores the kind of its last arithmetic instruction, its operands and    *)
(* its result; UpdateFlags computes EFLAGS from them when somebody reads   *)
(* the flags.  The source has one case per kind and width (8, 16, 32);     *)
(* here a word has W bits, and `wide' selects the text of the 32-bit cases *)
(* where it differs from the narrow ones.                                  *)
(***************************************************************************)
EXTENDS Integers, FiniteSets, TLC

CONSTANTS
  W,   \* bits of a word
  H    \* bits of its low half (the 32-bit add works by halves)

(* An even W: the parity of a word of ones is that of the low byte.        *)
FlagsAssumption == H \in Nat /\ H > 2 /\ W = 2 * H

Word   == 0..(2^W - 1)
Flag   == {"CF", "PF", "AF", "ZF", "SF", "OF"}

VARIABLES
  emu,    \* df, wide, op1, op2, res: what translated code stored
  flags,  \* eflags
  due     \* the flags the processor defines for the pending instruction, and rcr1

vars == <<emu, flags, due>>

Bit(x, i)  == (x \div 2^i) % 2 = 1
Low(x)     == x % 2^W
Sign(x)    == Bit(x, W - 1)
Signed(x)  == IF Sign(x) THEN x - 2^W ELSE x
Parity(x)  == Cardinality({i \in 0..(W - 1) : Bit(x, i)}) % 2 = 0
FitsSigned(x) == -(2^(W - 1)) <= x /\ x < 2^(W - 1)
----------------------------------------------------------------------------
(* UpdateFlags.  Each operator gives the flags its cases write.            *)

SZP(e) == [ZF |-> Low(e.res) = 0, SF |-> Sign(e.res), PF |-> Parity(e.res)]

(* cc and bc: the carry out of, and the borrow into, each bit.             *)
CC(e, i) == LET a == Bit(e.op1, i)
                b == Bit(e.op2, i)
            IN (a /\ b) \/ (~Bit(e.res, i) /\ (a \/ b))
BC(e, i) == LET a == Bit(e.op1, i)
                b == Bit(e.op2, i)
            IN (Bit(e.res, i) /\ (~a \/ b)) \/ (~a /\ b)

(* XOR2 of the two top bits, and bit 3.                                    *)
FromChain(C(_, _), e) == [OF |-> C(e, W - 2) # C(e, W - 1), AF |-> C(e, 3)]

(* The carry of the 32-bit forms, added by halves; adc guesses the carry   *)
(* that came in from the result.                                           *)
HalvesCarry(e, in) ==
  LET lo == in + (e.op1 % 2^H) + (e.op2 % 2^H)
      hi == (lo \div 2^H) + (e.op1 \div 2^H) + (e.op2 \div 2^H)
  IN Bit(hi, W - H)

(* Fault: adc's carry is that of the sum without the carry that came in.   *)
CarryInNone(e) == 0
CarryIn(e) ==
  IF e.res = Low(e.op1 + e.op2) THEN 0 ELSE 1

AddWith(e, in) ==
  SZP(e) @@ FromChain(CC, e)
    @@ [CF |-> IF e.wide THEN HalvesCarry(e, in) ELSE Bit(e.res, W)]
AddFlags(e) == AddWith(e, 0)
AdcFlags(e) == AddWith(e, CarryIn(e))
IncFlags(e) == SZP(e) @@ FromChain(CC, e)

SubFlags(e) == SZP(e) @@ FromChain(BC, e) @@ [CF |-> BC(e, W - 1)]
CmpFlags(e) == SubFlags(e)
SbbFlags(e) == SubFlags(e)
DecFlags(e) == SZP(e) @@ FromChain(BC, e)

NegChain(e, i) == Bit(e.res, i) \/ Bit(e.op1, i)
NegFlags(e) == SZP(e) @@ FromChain(NegChain, e) @@ [CF |-> e.op1 # 0]

AndFlags(e)  == SZP(e) @@ [f \in {"OF", "CF", "AF"} |-> FALSE]
OrFlags(e)   == AndFlags(e)
XorFlags(e)  == AndFlags(e)
TestFlags(e) == SZP(e) @@ [f \in {"OF", "CF"} |-> FALSE]

(* The narrow forms keep the double-width product in res, the 32-bit one   *)
(* keeps its high part in op1.                                             *)
HighPart(e) == IF e.wide THEN e.op1 ELSE e.res \div 2^W
Spilled(e, spills) == [f \in {"CF", "OF"} |-> spills] @@ [PF |-> Parity(e.res)]
ImulFlags(e) ==
  Spilled(e, HighPart(e) # IF Sign(e.res) THEN 2^W - 1 ELSE 0)
MulFlags(e) == Spilled(e, HighPart(e) # 0)

None == [f \in {} |-> FALSE]
Only(c, r) == IF c THEN r ELSE None

RclFlags(e) ==
  LET cc == Bit(e.op1, W - e.op2)
  IN [CF |-> cc, OF |-> e.op2 = 1 /\ cc # Sign(e.res)]

(* For a count of one, OF compares the sign with the carry just written.   *)
RcrFlags(e) ==
  LET cnt == e.op2 % (W + 1)
  IN [CF |-> Bit(e.op1, cnt - 1)]
       @@ Only(cnt = 1, [OF |-> Bit(e.op1, 0) # Sign(e.op1)])

RolFlags(e) == [CF |-> Bit(e.res, 0)]
                 @@ Only(e.op2 = 1, [OF |-> Bit(e.res, 0) # Sign(e.res)])
RorFlags(e) == [CF |-> Sign(e.res)]
                 @@ Only(e.op2 = 1, [OF |-> Bit(e.res, W - 2) # Sign(e.res)])

(* A narrow shift by the whole width or more.                              *)
ShiftedOut == [SF |-> FALSE, ZF |-> TRUE, PF |-> TRUE]
Overlong(e) == ~e.wide /\ e.op2 >= W

ShlFlags(e) ==
  LET cc == Bit(e.op1, W - e.op2)
  IN IF Overlong(e)
     THEN ShiftedOut @@ [CF |-> e.op2 = W /\ Bit(e.op1, 0), OF |-> FALSE]
     ELSE Only(e.op2 > 0, SZP(e) @@ [CF |-> cc])
            @@ [OF |-> e.op2 = 1 /\ Sign(e.res) # cc]

(* Fault: a long arithmetic shift of a negative number clears the sign.    *)
SarFlagsUnsigned(e) ==
  IF Overlong(e) THEN ShiftedOut @@ [CF |-> Sign(e.op1)]
  ELSE Only(e.op2 > 0, SZP(e) @@ [CF |-> Bit(e.op1, e.op2 - 1)])
         @@ Only(e.op2 = 1, [OF |-> FALSE])

SarFlags(e) ==
  IF Overlong(e)
  THEN [CF |-> Sign(e.op1), ZF |-> ~Sign(e.op1), SF |-> Sign(e.op1), PF |-> TRUE]
  ELSE Only(e.op2 > 0, SZP(e) @@ [CF |-> Bit(e.op1, e.op2 - 1)])
         @@ Only(e.op2 = 1, [OF |-> FALSE])

(* shr8 looks for the bit shifted out, shr16 does not; CF has no defined   *)
(* value there, and the model keeps the 16-bit answer.                     *)
ShrFlags(e) ==
  IF Overlong(e) THEN ShiftedOut @@ [CF |-> FALSE]
  ELSE Only(e.op2 > 0, SZP(e) @@ [CF |-> Bit(e.op1, e.op2 - 1)])
         @@ Only(e.op2 = 1, [OF |-> Sign(e.op1)])

SignChanged(e) == Sign(e.op1) # Sign(e.res)
ShrdFlags(e) ==
  Only(e.op2 > 0, SZP(e) @@ [CF |-> Bit(e.op1, e.op2 - 1)])
    @@ Only(e.op2 = 1, [OF |-> SignChanged(e)])
ShldFlags(e) ==
  Only(e.op2 > 0, SZP(e) @@ [CF |-> Bit(e.op1, W - e.op2),
                             OF |-> e.op2 = 1 /\ SignChanged(e)])

Written(e) ==
  CASE e.df = "add"  -> AddFlags(e)      [] e.df = "adc"  -> AdcFlags(e)
    [] e.df = "sub"  -> SubFlags(e)      [] e.df = "cmp"  -> CmpFlags(e)
    [] e.df = "sbb"  -> SbbFlags(e)      [] e.df = "inc"  -> IncFlags(e)
    [] e.df = "dec"  -> DecFlags(e)      [] e.df = "neg"  -> NegFlags(e)
    [] e.df = "and"  -> AndFlags(e)      [] e.df = "or"   -> OrFlags(e)
    [] e.df = "xor"  -> XorFlags(e)      [] e.df = "tst"  -> TestFlags(e)
    [] e.df = "imul" -> ImulFlags(e)     [] e.df = "mul"  -> MulFlags(e)
    [] e.df = "rcl"  -> RclFlags(e)      [] e.df = "rcr"  -> RcrFlags(e)
    [] e.df = "rol"  -> RolFlags(e)      [] e.df = "ror"  -> RorFlags(e)
    [] e.df = "shl"  -> ShlFlags(e)      [] e.df = "sar"  -> SarFlags(e)
    [] e.df = "shr"  -> ShrFlags(e)
    [] e.df = "shrd" -> ShrdFlags(e)     [] e.df = "shld" -> ShldFlags(e)
    [] OTHER                           -> None

UpdateFlags ==
  /\ emu.df # "none"
  /\ flags' = Written(emu) @@ flags
  /\ emu' = [emu EXCEPT !.df = "none"]
  /\ UNCHANGED due
----------------------------------------------------------------------------
(* The reference: what the processor's manual defines, on integers.        *)

RefSZP(r) == [ZF |-> r = 0, SF |-> Signed(r) < 0, PF |-> Parity(r)]

RefAdd(a, b, c) ==
  RefSZP(Low(a + b + c)) @@
    [CF |-> a + b + c >= 2^W, AF |-> (a % 16) + (b % 16) + c >= 16,
     OF |-> ~FitsSigned(Signed(a) + Signed(b) + c)]

RefSub(a, b, c) ==
  RefSZP(Low(a - b - c)) @@
    [CF |-> a < b + c, AF |-> a % 16 < (b % 16) + c,
     OF |-> ~FitsSigned(Signed(a) - Signed(b) - c)]

Keeping(r, f) == [r EXCEPT ![f] = flags[f]]
RefSpill(p, spills) == [CF |-> spills, OF |-> spills]

Pend(kind, wide, a, b, r, ref) ==
  /\ emu' = [df |-> kind, wide |-> wide, op1 |-> a, op2 |-> b, res |-> r]
  /\ due' = ref
  /\ UNCHANGED flags

(* The result as it is stored: the narrow adds keep the carry above it.    *)
Sum(wide, n) == IF wide THEN Low(n) ELSE n

(* An instruction that sets every flag may replace one never looked at.    *)
Arithmetic(wide, a, b) ==
  \/ Pend("add", wide, a, b, Sum(wide, a + b), RefAdd(a, b, 0))
  \/ \E c \in {0, 1} :
       Pend("adc", wide, a, b, Sum(wide, a + b + c), RefAdd(a, b, c))
  \/ \E k \in {"sub", "cmp"} : Pend(k, wide, a, b, Low(a - b), RefSub(a, b, 0))
  \/ \E c \in {0, 1} : Pend("sbb", wide, a, b, Low(a - b - c), RefSub(a, b, c))
  \/ b = 0 /\ Pend("neg", wide, a, b, Low(-a), RefSub(0, a, 0))
  \/ \E k \in {"and", "or", "xor", "tst"} :
       Pend(k, wide, a, b, a, RefSZP(a) @@ [CF |-> FALSE, OF |-> FALSE])
  \/ Pend("mul", wide, IF wide THEN (a * b) \div 2^W ELSE a, b,
          IF wide THEN Low(a * b) ELSE a * b, RefSpill(a * b, a * b >= 2^W))
  \/ LET p == Signed(a) * Signed(b)
     IN Pend("imul", wide, IF wide THEN Low(p \div 2^W) ELSE a, b,
             IF wide THEN Low(p) ELSE (p % 2^(2 * W)),
             RefSpill(p, ~FitsSigned(p)))

(* Shifts by c; `fill' enters from the other operand of shld and shrd.  A  *)
(* count past the width is masked by the processor, except for narrow      *)
(* operands.                                                               *)
RefShift(r, carry, of, c) ==
  RefSZP(r) @@ [CF |-> carry] @@ Only(c = 1, [OF |-> of])
Shift(wide, a, c, fill) ==
  LET left  == Low(a * 2^c)
      right == a \div 2^c
      arith == Low(Signed(a) \div 2^c)
      inL   == left + (IF fill THEN 2^c - 1 ELSE 0)
      inR   == right + (IF fill THEN 2^W - 2^(W - c) ELSE 0)
      outL  == Bit(a, W - c)
      outR  == Bit(a, c - 1)
  IN \/ /\ c \in 1..(W - 1)
        /\ \/ Pend("shl", wide, a, c, left, RefShift(left, outL, outL # Sign(left), c))
           \/ Pend("shr", wide, a, c, right, RefShift(right, outR, Sign(a), c))
           \/ Pend("sar", wide, a, c, arith, RefShift(arith, outR, FALSE, c))
           \/ wide /\ Pend("shld", wide, a, c, inL,
                           RefShift(inL, outL, Sign(inL) # Sign(a), c))
           \/ wide /\ Pend("shrd", wide, a, c, inR,
                           RefShift(inR, outR, Sign(inR) # Sign(a), c))
     \/ /\ c >= W /\ ~wide
        /\ \/ \E k \in {"shl", "shr"} : Pend(k, wide, a, c, 0, RefSZP(0))
           \/ Pend("sar", wide, a, c, arith, RefSZP(arith))

(* Instructions that leave some flags alone: they are stored only once the *)
(* flags of the one before are in place (READFLAGS).  Of RCR by one the    *)
(* processor's OF compares the sign with the carry that comes in; `rcr1'   *)
(* notes the comparison with the carry that goes out (RcrFlags).           *)
RefRotate(carry, of, c) == [CF |-> carry] @@ Only(c = 1, [OF |-> of])
Subset(wide, a, c) ==
     \/ c = 1 /\ Pend("inc", wide, a, 1, Sum(wide, a + 1), Keeping(RefAdd(a, 1, 0), "CF"))
     \/ c = 1 /\ Pend("dec", wide, a, 1, Low(a - 1), Keeping(RefSub(a, 1, 0), "CF"))
     \/ LET r == Low(a * 2^c) + a \div 2^(W - c)
        IN Pend("rol", wide, a, c, r, RefRotate(Bit(a, W - c), Bit(r, W - 1) # Bit(r, 0), c))
     \/ LET r == a \div 2^c + Low(a * 2^(W - c))
        IN Pend("ror", wide, a, c, r, RefRotate(Bit(a, c - 1), Bit(r, W - 1) # Bit(r, W - 2), c))
     \/ LET in == IF flags["CF"] THEN 1 ELSE 0
            r  == Low(a * 2^c) + (in * 2^(c - 1)) + a \div 2^(W - c + 1)
        IN Pend("rcl", wide, a, c, r, RefRotate(Bit(a, W - c), Sign(r) # Bit(a, W - c), c))
     \/ Pend("rcr", wide, a, c, 0,
             RefRotate(Bit(a, c - 1), Sign(a) # flags["CF"], c) @@ Only(c = 1, [rcr1 |-> Sign(a) # Bit(a, 0)]))

Init ==
  /\ emu = [df |-> "none", wide |-> FALSE, op1 |-> 0, op2 |-> 0, res |-> 0]
  /\ flags \in {[f \in Flag |-> b] : b \in BOOLEAN}
  /\ due = None

(* Bound: one instruction, from all flags clear and from all flags set.    *)
Issue ==
  /\ due = None
  /\ \E wide \in BOOLEAN, a \in Word :
       \/ \E b \in Word : Arithmetic(wide, a, b)
       \/ \E c \in 1..(2 * W - 1), fill \in BOOLEAN : Shift(wide, a, c, fill)
       \/ \E c \in 1..(W - 1) : Subset(wide, a, c)

Next == Issue \/ UpdateFlags
Spec == Init /\ [][Next]_vars
----------------------------------------------------------------------------
(* Whoever materialises the flags later, and whatever the width's text,    *)
(* they are the ones the processor defines for the instruction; a flag it  *)
(* leaves alone is the one before it.  The one exception is OF after RCR   *)
(* by one, which x86run_flags.c:278-281 (and 288-291, 298-301) gets wrong: *)
(* it is computed from the carry just written, not from the one before.    *)
FlagsAsDefined ==
  emu.df = "none" =>
    /\ \A f \in DOMAIN due \cap Flag : flags[f] = due[f] \/ (f = "OF" /\ "rcr1" \in DOMAIN due)
    /\ "rcr1" \in DOMAIN due => flags["OF"] = due["rcr1"]
============================================================================
