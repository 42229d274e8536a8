----------------------------- MODULE MediaRange -----------------------------
(***************************************************************************)
(* The range coder of mosmedia_motion.h, writer (mmc_re) and reader        *)
(* (mmc_rd).  The arithmetic is the code's over smaller words: a byte is  *)
(* a digit below Digit, a uint32_t four of them.                           *)
(***************************************************************************)
EXTENDS Integers, Sequences, SequencesExt

CONSTANTS
    Digit,         \* 256
    ProbScale,     \* 2048, the probability 1
    ProbRate,      \* 32, how slowly a probability adapts
    UBins,         \* MMC_UBINS
    MaxPrefix,     \* 24, of an Exp-Golomb code
    OverLimit      \* 16, digits the reader may read behind the end

Word == Digit * Digit * Digit * Digit
Top == Digit * Digit * Digit
Damaged == 1000    \* what an impossible code adds to `over`

\* The contexts' probabilities, kept for those that have been used.
Prob(c, k) == IF k \in DOMAIN c.p THEN c.p[k] ELSE ProbScale \div 2
Adapted(c, k, b) ==
    LET p == Prob(c, k)
        q == IF b = 0 THEN p + ((ProbScale - p) \div ProbRate) ELSE p - (p \div ProbRate)
    IN (k :> q) @@ c.p
Bound(c, k) == (c.range \div ProbScale) * Prob(c, k)

-----------------------------------------------------------------------------
(* Writing.  cache and the cached - 1 digits behind it, which are all      *)
(* Digit - 1, wait until it is known whether a carry reaches them.         *)

ReInit(cap) == [out |-> <<>>, cap |-> cap, low |-> 0, cached |-> 1, range |-> Word - 1,
                cache |-> 0, full |-> FALSE, p |-> <<>>]

Emit(e, digits) ==
    LET room == e.cap - Len(e.out)
    IN IF Len(digits) <= room THEN [e EXCEPT !.out = @ \o digits]
       ELSE [e EXCEPT !.out = @ \o SubSeq(digits, 1, room), !.full = TRUE]

ReShift(e) ==
    LET carry == e.low \div Word
        waiting == [i \in 1..e.cached |->
                        ((IF i = 1 THEN e.cache ELSE Digit - 1) + carry) % Digit]
        settled == e.low < (Digit - 1) * Top \/ carry # 0
        f == IF settled
             THEN [Emit(e, waiting) EXCEPT !.cached = 0, !.cache = (e.low \div Top) % Digit]
             ELSE e
    IN [f EXCEPT !.cached = @ + 1, !.low = (@ % Top) * Digit]

\* The range is never 0, so three digits are enough.
ReNorm(e) ==
    LET Grown(f, i) == IF f.range >= Top THEN f ELSE ReShift([f EXCEPT !.range = @ * Digit])
    IN FoldLeft(Grown, e, <<1, 2, 3>>)

ReBit(e, k, b) ==
    LET bound == Bound(e, k)
    IN ReNorm(IF b = 0 THEN [e EXCEPT !.range = bound, !.p = Adapted(e, k, b)]
              ELSE [e EXCEPT !.low = @ + bound, !.range = @ - bound, !.p = Adapted(e, k, b)])

ReDirect(e, b) ==
    LET half == e.range \div 2
    IN ReNorm([e EXCEPT !.range = half, !.low = @ + b * half])

\* Numbers without a context: as many ones as v + 1 has digits behind its
\* first, a zero, and those digits.
Log2(x) == CHOOSE n \in 0..x : 2 ^ n <= x /\ x < 2 ^ (n + 1)
ReEg(e, v) ==
    LET n == Log2(v + 1)
        bits == [i \in 1..2 * n + 1 |->
                    IF i <= n THEN 1 ELSE IF i = n + 1 THEN 0
                    ELSE ((v + 1) \div 2 ^ (2 * n + 1 - i)) % 2]
    IN FoldLeft(ReDirect, e, bits)

ReOnes(e, k, n) ==
    LET One(f, i) == ReBit(f, k \o <<i>>, 1)
    IN FoldLeft(One, e, [i \in 1..n |-> i - 1])
ReUint(e, k, v) ==
    IF v < UBins THEN ReBit(ReOnes(e, k, v), k \o <<v>>, 0)
    ELSE ReEg(ReOnes(e, k, UBins), v - UBins)

ReFlush(e) == FoldLeft(LAMBDA f, i : ReShift(f), e, <<1, 2, 3, 4, 5>>)

-----------------------------------------------------------------------------
(* Reading: every operator returns the reader and what it read, and what   *)
(* is read goes into what follows.                                         *)

Read(d, v) == [d |-> d, v |-> v]
Then(r, Rest(_, _)) == Rest(r.d, r.v)

RdByte(d) == IF d.pos < Len(d.data)
             THEN Read([d EXCEPT !.pos = @ + 1], d.data[d.pos + 1])
             ELSE Read([d EXCEPT !.over = @ + 1], 0)
RdShift(d) == Then(RdByte(d), LAMBDA e, byte : [e EXCEPT !.code = (@ * Digit + byte) % Word])

RdFill(d) == FoldLeft(LAMBDA e, i : RdShift(e), d, <<1, 2, 3, 4, 5>>)
RdInit(data) == RdFill([data |-> data, pos |-> 0, range |-> Word - 1, code |-> 0,
                        over |-> 0, p |-> <<>>])

RdNorm(d) ==
    LET Grown(e, i) == IF e.range >= Top THEN e ELSE RdShift([e EXCEPT !.range = @ * Digit])
    IN FoldLeft(Grown, d, <<1, 2, 3>>)

RdBelow(d, k, bound, b) ==
    Read(RdNorm([d EXCEPT !.range = IF b = 0 THEN bound ELSE @ - bound,
                          !.code = @ - b * bound, !.p = Adapted(d, k, b)]), b)
RdSplit(d, k, bound) == RdBelow(d, k, bound, IF d.code < bound THEN 0 ELSE 1)
RdBit(d, k) == RdSplit(d, k, Bound(d, k))

RdDirect(d) ==
    LET half == d.range \div 2
        b == IF d.code >= half THEN 1 ELSE 0
    IN Read(RdNorm([d EXCEPT !.range = half, !.code = @ - b * half]), b)

\* Ones are counted until there is a zero, or most of them.
RdOnes(Bit(_, _), d, most) ==
    LET One(r, i) == IF r.v < i THEN r
                     ELSE Then(Bit(r.d, i), LAMBDA e, b : Read(e, r.v + b))
    IN FoldLeft(One, Read(d, 0), [i \in 1..most |-> i - 1])

RdDigits(d, n) ==
    LET One(r, i) == Then(RdDirect(r.d), LAMBDA e, b : Read(e, 2 * r.v + b))
    IN FoldLeft(One, Read(d, 1), [i \in 1..n |-> i])
RdEg(d) ==
    Then(RdOnes(LAMBDA e, i : RdDirect(e), d, MaxPrefix + 1), LAMBDA e, n :
        IF n > MaxPrefix THEN Read([e EXCEPT !.over = @ + Damaged], 0)
        ELSE Then(RdDigits(e, n), LAMBDA f, v : Read(f, v - 1)))

RdUint(d, k) ==
    Then(RdOnes(LAMBDA e, i : RdBit(e, k \o <<i>>), d, UBins), LAMBDA e, n :
        IF n < UBins THEN Read(e, n)
        ELSE Then(RdEg(e), LAMBDA f, v : Read(f, UBins + v)))
=============================================================================
