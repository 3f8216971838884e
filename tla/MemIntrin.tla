------------------------------ MODULE MemIntrin ------------------------------
(***************************************************************************)
(* The guest's memcpy and memset served by the host                           *)
(* (dynarec86/dyn86_memintrin.c and dyn86_memfast.h).  A call reaches the     *)
(* sequence the translator emitted inline, which serves it or falls through   *)
(* to the helper, which serves it or leaves it to the guest's own routine.    *)
(* Guest memory past the arena aliases host objects, so an address is served  *)
(* only below the span.  Addresses have W bits; Fast stands for the 64 of     *)
(* DYN86_MI_FASTN; a copy of overlapping regions by the C library's memcpy    *)
(* is undefined and spoils the destination.                                   *)
(***************************************************************************)
EXTENDS Integers, Sequences, SequencesExt

CONSTANTS
    W,          \* bits of an address
    Fast,       \* the inline sequence takes fewer bytes than this, a power of two
    Span,       \* the first address past the arena, or 0: not known
    MaxN,       \* the largest count served (dyn86_mi_maxn)
    Guard,      \* guard bytes of the inline sequence's oracle
    Counts      \* the counts that calls pass

Word == 0 .. 2^W - 1
Max32 == 2^W - 1
Modes == {"helper", "profile", "inline"}
Spoilt == -1
Nobody == [op |-> "none"]

VARIABLES
    mem,        \* what each address holds
    mode,       \* dyn86_memintrin
    verify,     \* dyn86_mi_verify: every call must reach the oracle
    call,       \* the call that has returned, with the memory it found
    bad         \* the complaints of the inline sequence's oracle
vars == <<mem, mode, verify, call, bad>>

\* Every address holds a value of its own, so a copy shows where each cell came from.
Init == /\ mem = [a \in Word |-> a]
        /\ mode \in Modes /\ verify \in BOOLEAN
        /\ call = Nobody /\ bad = FALSE

-----------------------------------------------------------------------------
\* mi_refresh.
Lim == IF Span # 0 THEN Span ELSE Max32
MaxNC == IF MaxN < Lim THEN MaxN ELSE Lim
Serves == mode # "profile" /\ ~verify
Inlined == mode = "inline" /\ ~verify

\* Wrap-around difference of two addresses.
Diff(a, b) == (a - b) % 2^W

\* What memmove, memcpy and memset of the C library do.
Moved(m, d, s, n) == [a \in Word |-> IF a \in d .. d + n - 1 THEN m[(s + a - d) % 2^W] ELSE m[a]]
Copied(m, d, s, n) ==
    IF n > 0 /\ d - s < n /\ s - d < n
      THEN [a \in Word |-> IF a \in d .. d + n - 1 THEN Spoilt ELSE m[a]]
      ELSE Moved(m, d, s, n)
Filled(m, d, c, n) == [a \in Word |-> IF a \in d .. d + n - 1 THEN c ELSE m[a]]

\* The C routine the helper calls for an accepted call.
Done(m, op, d, s, n, overlap) ==
    IF op = "set" THEN Filled(m, d, s, n)
    ELSE IF overlap THEN Moved(m, d, s, n) ELSE Copied(m, d, s, n)

-----------------------------------------------------------------------------
\* The inline sequence: D2MF_EMIT.
InlineLim == Lim - Fast
\* dst - src + n against 2n, unsigned: refuses every overlap, either way round.
Apart(d, s, n) == (Diff(d, s) + n) % 2^W >= 2 * n
\* Fault: the test that looks at one direction only.
ApartForward(d, s, n) == Diff(d, s) >= n
Disjoint(d, s, n) == Apart(d, s, n)
TakesInline(op, d, s, n) ==
    /\ Inlined
    /\ n < Fast
    /\ d <= InlineLim
    /\ op = "copy" => s <= InlineLim /\ Disjoint(d, s, n)

\* One bit of the count: a chunk of that size, loaded whole and then stored;
\* both pointers advance.  A fill stores the byte instead.
Chunks(n) == SelectSeq([i \in 1 .. W |-> 2^(W - i)], LAMBDA k : (n \div k) % 2 = 1)
Chunked(m, op, d, s, n) ==
    FoldLeft(LAMBDA acc, k :
                 [m |-> IF op = "set" THEN Filled(acc.m, d + acc.at, s, k)
                                      ELSE Moved(acc.m, d + acc.at, s + acc.at, k),
                  at |-> acc.at + k],
             [m |-> m, at |-> 0], Chunks(n)).m

\* The oracle of the inline sequence (fc_pre, fc_post): the destination against
\* the source and the bytes around it, when both guards lie in the arena.
Guarded(d, n) == d >= Guard /\ d + n + Guard <= Lim
Complains(m, after, op, d, s, n) ==
    /\ Guarded(d, n)
    /\ \/ \E i \in 0 .. n - 1 : after[d + i] # (IF op = "set" THEN s ELSE after[s + i])
       \/ \E i \in 1 .. Guard : after[d - i] # m[d - i] \/ after[d + n - 1 + i] # m[d + n - 1 + i]

-----------------------------------------------------------------------------
\* The helper's hot path: the count first, so that lim - n cannot wrap.
HotBound(n) == Lim - n
TakesHot(op, d, s, n) ==
    /\ Serves
    /\ n <= MaxNC
    /\ d <= HotBound(n)
    /\ op = "copy" => s <= HotBound(n)
HotOverlap(d, s, n) == Diff(d, s) < n \/ Diff(s, d) < n

\* The cold path: the three refusals, with sums of 64 bits; the call the
\* oracle skips is served.
TakesCold(op, d, s, n) ==
    /\ mode # "profile"
    /\ n <= MaxN
    /\ Span # 0 => d + n <= Span /\ (op = "copy" => s + n <= Span)
ColdOverlap(d, s, n) == IF d > s THEN d - s < n ELSE s - d < n

Returned(op, d, s, n, after, served) ==
    /\ mem' = after
    /\ call' = [op |-> op, dst |-> d, src |-> s, n |-> n, before |-> mem, served |-> served]
    /\ UNCHANGED <<mode, verify>>

Inline(op, d, s, n) ==
    /\ TakesInline(op, d, s, n)
    /\ LET after == Chunked(mem, op, d, s, n)
       IN Returned(op, d, s, n, after, TRUE) /\ bad' = Complains(mem, after, op, d, s, n)
Helper(op, d, s, n) ==
    /\ ~TakesInline(op, d, s, n)
    /\ UNCHANGED bad
    /\ \/ /\ TakesHot(op, d, s, n)
          /\ Returned(op, d, s, n, Done(mem, op, d, s, n, HotOverlap(d, s, n)), TRUE)
       \/ /\ ~TakesHot(op, d, s, n) /\ TakesCold(op, d, s, n)
          /\ Returned(op, d, s, n, Done(mem, op, d, s, n, ColdOverlap(d, s, n)), TRUE)
       \/ /\ ~TakesHot(op, d, s, n) /\ (verify \/ ~TakesCold(op, d, s, n))
          /\ Returned(op, d, s, n, mem, FALSE)

\* One call: of a copy, s is the source address; of a fill, the byte.
Next == /\ call = Nobody
        /\ \E n \in Counts, d \in Word : \/ \E s \in Word : Inline("copy", d, s, n) \/ Helper("copy", d, s, n)
                                         \/ Inline("set", d, Spoilt - 1, n) \/ Helper("set", d, Spoilt - 1, n)

Spec == Init /\ [][Next]_vars

-----------------------------------------------------------------------------
\* What the guest's own routine would have left.
Wanted == IF call.op = "set" THEN Filled(call.before, call.dst, call.src, call.n)
                             ELSE Moved(call.before, call.dst, call.src, call.n)

\* A served call does exactly what the guest's routine does, overlap included,
\* and touches nothing past the arena; a refused one has changed nothing; the
\* oracle of the inline sequence has nothing to complain about; the profiler
\* serves no call.
ServedExactly ==
    /\ ~bad
    /\ call # Nobody =>
         /\ call.served => mem = Wanted
         /\ ~call.served => mem = call.before
         /\ call.served /\ Span # 0 => /\ call.dst + call.n <= Span
                                       /\ call.op = "copy" => call.src + call.n <= Span
         /\ mode = "profile" => ~call.served
=============================================================================
