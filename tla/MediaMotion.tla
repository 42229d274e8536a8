---------------------------- MODULE MediaMotion ----------------------------
(***************************************************************************)
(* The motion codec (mosmedia_motion.h): prediction, reconstruction, the   *)
(* encoder's macroblocks and both ends of the bit stream, as operators on  *)
(* the state of an encoder or a decoder (mmc_t).                           *)
(*                                                                         *)
(* A block is one sample with two levels, a macroblock 2 x 2 luma blocks   *)
(* and a colour block; the second colour plane goes the way of the first.  *)
(* What the encoder's searches choose is an argument, since any choice has *)
(* to be decoded.                                                          *)
(***************************************************************************)
EXTENDS MediaRange

CONSTANTS
    MbW, MbH,      \* macroblocks across and down
    MaxSample,     \* 255
    MvMax,         \* MMC_MV_MAX
    Frac,          \* 2: vectors are in 1 / 2^Frac luma samples
    Quality        \* for each QP: step, alpha, tc0 and the QP of the colour planes

Mbs == (0..MbW - 1) \X (0..MbH - 1)
Luma == (0..2 * MbW - 1) \X (0..2 * MbH - 1)
Side(p) == IF p = "y" THEN 2 ELSE 1     \* blocks of a macroblock, across
Typ(p) == IF p = "y" THEN 0 ELSE 1
MbOf(p, b) == <<b[1] \div Side(p), b[2] \div Side(p)>>

Raster(w, h) == [i \in 1..w * h |-> <<(i - 1) % w, (i - 1) \div w>>]
MbSeq == Raster(MbW, MbH)
LumaOf(mb) == [k \in 1..4 |-> <<2 * mb[1] + ((k - 1) % 2), 2 * mb[2] + (k - 1) \div 2>>]

Left(b) == <<b[1] - 1, b[2]>>
Above(b) == <<b[1], b[2] - 1>>
Clamp(v, lo, hi) == IF v < lo THEN lo ELSE IF v > hi THEN hi ELSE v
Clip(v) == Clamp(v, 0, MaxSample)
Abs(v) == IF v < 0 THEN -v ELSE v

NoLevels == <<0, 0>>
Blank == [y |-> [b \in Luma |-> 0], c |-> [b \in Mbs |-> 0]]
MmcInit == [
    cur |-> Blank, ref |-> Blank,
    mode |-> [b \in Luma |-> 0],
    nz |-> [y |-> [b \in Luma |-> FALSE], c |-> [b \in Mbs |-> FALSE]],
    intra |-> [b \in Mbs |-> FALSE], skip |-> [b \in Mbs |-> FALSE],
    mv |-> [b \in Mbs |-> <<0, 0>>], prevMv |-> [b \in Mbs |-> <<0, 0>>],
    cmode |-> [b \in Mbs |-> 0],
    levels |-> [b \in Mbs |-> [y |-> <<NoLevels, NoLevels, NoLevels, NoLevels>>,
                                c |-> <<NoLevels>>]]]

-----------------------------------------------------------------------------
(* Prediction *)

\* Modes: 0 DC, 1 vertical, 2 horizontal, 3 TrueMotion.
IntraPred(plane, b, mode) ==
    LET mid == (MaxSample + 1) \div 2
        ha == b[2] > 0
        hl == b[1] > 0
        above == IF ha THEN plane[Above(b)] ELSE mid
        left == IF hl THEN plane[Left(b)] ELSE mid
        corner == IF ha /\ hl THEN plane[Above(Left(b))] ELSE mid
    IN CASE mode = 0 -> IF ha /\ hl THEN (above + left + 1) \div 2
                        ELSE IF ha THEN above ELSE left
         [] mode = 1 -> above
         [] mode = 2 -> left
         [] mode = 3 -> Clip(left + above - corner)

\* mmc_mc: the sample at b moved by v / 2^frac, edges repeated.
Moved(plane, w, h, b, v, frac) ==
    LET one == 2 ^ frac
        x == b[1] + v[1] \div one
        y == b[2] + v[2] \div one
        fx == v[1] % one
        fy == v[2] % one
        At(i, j) == plane[<<Clamp(x + i, 0, w - 1), Clamp(y + j, 0, h - 1)>>]
    IN ((one - fx) * (one - fy) * At(0, 0) + fx * (one - fy) * At(1, 0)
          + (one - fx) * fy * At(0, 1) + fx * fy * At(1, 1) + ((one * one) \div 2)) \div (one * one)

MovedBlock(m, p, b, v) ==
    IF p = "y" THEN Moved(m.ref.y, 2 * MbW, 2 * MbH, b, v, Frac)
    ELSE Moved(m.ref.c, MbW, MbH, b, v, Frac + 1)

\* mmc_add_residual
WithResidual(sample, z, qp) == Clip(sample + Quality[qp].step * (z[1] + z[2]))

\* mmc_mvp: the median of three neighbours' vectors.
Vector(m, b) == IF m.intra[b] THEN <<0, 0>> ELSE m.mv[b]
Mvp(m, mb) ==
    LET left == IF mb[1] > 0 THEN Vector(m, Left(mb)) ELSE <<0, 0>>
        above == Vector(m, Above(mb))
        third == IF mb[1] + 1 < MbW THEN Vector(m, <<mb[1] + 1, mb[2] - 1>>)
                 ELSE IF mb[1] > 0 THEN Vector(m, Above(Left(mb))) ELSE <<0, 0>>
        Median(k) == LET lo == IF left[k] < above[k] THEN left[k] ELSE above[k]
                         hi == IF left[k] < above[k] THEN above[k] ELSE left[k]
                     IN Clamp(third[k], lo, hi)
    IN IF mb[2] = 0 THEN left ELSE <<Median(1), Median(2)>>

\* mmc_mpm, mmc_nz_ctx, and the counts the skip and intra flags are coded with
Mpm(m, b) ==
    LET a == IF b[1] > 0 THEN m.mode[Left(b)] ELSE 0
        t == IF b[2] > 0 THEN m.mode[Above(b)] ELSE 0
    IN IF a < t THEN a ELSE t
Neighbours(flags, b) == (IF b[1] > 0 /\ flags[Left(b)] THEN 1 ELSE 0)
                        + (IF b[2] > 0 /\ flags[Above(b)] THEN 1 ELSE 0)

-----------------------------------------------------------------------------
(* The end of a frame *)

\* How strongly the edge between blocks a and b is filtered.
Strength(m, p, a, b) ==
    LET ma == MbOf(p, a)
        mb == MbOf(p, b)
    IN IF m.intra[ma] \/ m.intra[mb] THEN 2
       ELSE IF m.nz[p][a] \/ m.nz[p][b] THEN 1
       ELSE IF \E k \in 1..2 : Abs(m.mv[ma][k] - m.mv[mb][k]) >= 2 ^ Frac THEN 1
       ELSE 0

Smoothed(m, p, plane, a, b, qp) ==
    LET s == Strength(m, p, a, b)
        tc == Quality[qp].tc0 + (IF s = 2 THEN 1 ELSE 0)
        dl == Clamp((plane[b] - plane[a]) \div 2, -tc, tc)
    IN IF s > 0 /\ Abs(plane[a] - plane[b]) < Quality[qp].alpha
       THEN [plane EXCEPT ![a] = Clip(@ + dl), ![b] = Clip(@ - dl)]
       ELSE plane

Deblock(m, p, qp) ==
    LET all == Raster(Side(p) * MbW, Side(p) * MbH)
        Vertical(plane, b) == IF b[1] = 0 THEN plane ELSE Smoothed(m, p, plane, Left(b), b, qp)
        Horizontal(plane, b) == IF b[2] = 0 THEN plane ELSE Smoothed(m, p, plane, Above(b), b, qp)
    IN FoldLeft(Horizontal, FoldLeft(Vertical, m.cur[p], all), all)

FinishFrame(m, qp) ==
    [m EXCEPT !.ref = [y |-> Deblock(m, "y", qp), c |-> Deblock(m, "c", Quality[qp].chroma)],
              !.cur = m.ref]

-----------------------------------------------------------------------------
(* Reading a frame.  A step takes and returns the decoder m and the range  *)
(* coder d.                                                                *)

RdSigned(d, size) ==
    Then(RdDirect(d), LAMBDA e, minus : Read(e, IF minus = 1 THEN -size ELSE size))

RdLevel(d, typ, inc) ==
    Then(RdBit(d, <<"gt1", typ, inc>>), LAMBDA e, big :
        Then(IF big = 1 THEN RdUint(e, <<"lev", typ>>) ELSE Read(e, 0), LAMBDA f, more :
            RdSigned(f, 1 + big + more)))

\* mmc_rd_coeffs of a block with two levels: the second one is first, and
\* is there unless the first is marked as the last.
RdSecond(d, typ, last) == IF last = 1 THEN Read(d, 0) ELSE RdLevel(d, typ, 1)
RdFirst(d, typ, sig, second) ==
    Then(IF sig = 0 THEN Read(d, 0)
         ELSE RdLevel(d, typ, IF second = 0 THEN 1 ELSE IF Abs(second) > 1 THEN 0 ELSE 2),
         LAMBDA e, first : Read(e, <<first, second>>))
RdLevels(d, typ, ctx) ==
    Then(RdBit(d, <<"cbf", typ, ctx>>), LAMBDA e, cbf :
        IF cbf = 0 THEN Read(e, NoLevels)
        ELSE Then(RdBit(e, <<"sig", typ, 0>>), LAMBDA f, sig :
            Then(IF sig = 1 THEN RdBit(f, <<"last", typ, 0>>) ELSE Read(f, 0), LAMBDA g, last :
                Then(RdSecond(g, typ, last), LAMBDA h, second : RdFirst(h, typ, sig, second)))))

\* The residual of one block on what has been predicted.
RdBlock(s, p, b, qp) ==
    Then(RdLevels(s.d, Typ(p), Neighbours(s.m.nz[p], b)), LAMBDA d, z :
        [d |-> d, m |-> [s.m EXCEPT !.nz[p][b] = z # NoLevels,
                                    !.cur[p][b] = WithResidual(@, z, qp)]])

\* mmc_rd_mode: the most probable mode, or one of the others.
RdRem(d) ==
    Then(RdBit(d, <<"rem", 0>>), LAMBDA e, more :
        IF more = 0 THEN Read(e, 0)
        ELSE Then(RdBit(e, <<"rem", 1>>), LAMBDA f, last : Read(f, 1 + last)))
RdOther(d, mpm) ==
    Then(RdRem(d), LAMBDA e, rem : Read(e, IF rem < mpm THEN rem ELSE rem + 1))
RdMode(s, b) ==
    Then(RdBit(s.d, <<"mpm", 0>>), LAMBDA d, other :
        Then(IF other = 0 THEN Read(d, Mpm(s.m, b)) ELSE RdOther(d, Mpm(s.m, b)), LAMBDA e, mode :
            [d |-> e, m |-> [s.m EXCEPT !.mode[b] = mode]]))

RdMvd(d, k) ==
    Then(RdBit(d, <<"mv0", k>>), LAMBDA e, moved :
        IF moved = 0 THEN Read(e, 0)
        ELSE Then(RdDirect(e), LAMBDA f, minus :
            Then(RdUint(f, <<"mv", k>>), LAMBDA g, a :
                Read(g, (IF minus = 1 THEN -1 ELSE 1) * Clamp(1 + a, 1, 2 * MvMax)))))

RdModes(s, mb) == FoldLeft(RdMode, [s EXCEPT !.m.mv[mb] = <<0, 0>>], LumaOf(mb))
RdCmode(s) ==
    Then(RdBit(s.d, <<"cmode", 0>>), LAMBDA d, b0 :
        Then(RdBit(d, <<"cmode", 1 + b0>>), LAMBDA e, b1 :
            [s |-> [s EXCEPT !.d = e], mode |-> 2 * b0 + b1]))
RdLuma(s, mb, qp) ==
    LET Block(t, b) ==
            RdBlock([t EXCEPT !.m.cur.y[b] = IntraPred(t.m.cur.y, b, t.m.mode[b])], "y", b, qp)
    IN FoldLeft(Block, s, LumaOf(mb))
RdColour(s, mb, mode, qp) ==
    RdBlock([s EXCEPT !.m.cur.c[mb] = IntraPred(s.m.cur.c, mb, mode)], "c", mb, Quality[qp].chroma)
RdFilled(a, mb, qp) == RdColour(RdLuma(a.s, mb, qp), mb, a.mode, qp)
RdIntra(s, mb, qp) == RdFilled(RdCmode(RdModes(s, mb)), mb, qp)

\* The macroblock of the last frame that v points at, as mmc_mc and mmc_put
\* leave it, and no modes or coefficients.
PutMoved(m, mb, v) ==
    LET own == Range(LumaOf(mb))
    IN [m EXCEPT !.mv[mb] = v,
                 !.cur.y = [b \in Luma |-> IF b \in own THEN MovedBlock(m, "y", b, v) ELSE @[b]],
                 !.cur.c[mb] = MovedBlock(m, "c", mb, v),
                 !.mode = [b \in Luma |-> IF b \in own THEN 0 ELSE @[b]],
                 !.nz.y = [b \in Luma |-> b \notin own /\ @[b]]]

RdVector(d, p) ==
    Then(RdMvd(d, 0), LAMBDA e, dx :
        Then(RdMvd(e, 1), LAMBDA f, dy :
            Read(f, <<Clamp(p[1] + dx, -MvMax, MvMax), Clamp(p[2] + dy, -MvMax, MvMax)>>)))

RdMoved(s, mb, qp) ==
    LET Block(t, b) == RdBlock(t, "y", b, qp)
    IN Then(RdVector(s.d, Mvp(s.m, mb)), LAMBDA d, v :
           RdBlock(FoldLeft(Block, [m |-> PutMoved(s.m, mb, v), d |-> d], LumaOf(mb)),
                   "c", mb, Quality[qp].chroma))

RdSkip(s, mb) ==
    [s EXCEPT !.m = [PutMoved(@, mb, Mvp(@, mb)) EXCEPT !.nz.c[mb] = FALSE]]

\* The skip and the intra flag of a macroblock, and what it says it is.
RdUse(s, mb, key) ==
    IF key THEN Read(s.d, "intra")
    ELSE Then(RdBit(s.d, <<"skip", Neighbours(s.m.skip, mb)>>), LAMBDA d, skip :
        IF skip = 1 THEN Read(d, "skip")
        ELSE Then(RdBit(d, <<"intra", Neighbours(s.m.intra, mb)>>), LAMBDA e, intra :
            Read(e, IF intra = 1 THEN "intra" ELSE "moved")))
RdAs(s, mb, qp, use) ==
    CASE use = "intra" -> RdIntra(s, mb, qp)
      [] use = "skip" -> RdSkip(s, mb)
      [] use = "moved" -> RdMoved(s, mb, qp)
RdMb(s, mb, key, qp) ==
    Then(RdUse(s, mb, key), LAMBDA d, use :
        RdAs([d |-> d, m |-> [s.m EXCEPT !.skip[mb] = use = "skip", !.intra[mb] = use = "intra"]],
             mb, qp, use))

\* mmc_decode_frame: a frame that cannot be right leaves what it has drawn.
Decoded(s, qp) == LET ok == s.d.over <= OverLimit
                  IN [ok |-> ok, m |-> IF ok THEN FinishFrame(s.m, qp) ELSE s.m]
DecodeFrame(m, data, key, qp) ==
    LET Mb(s, mb) == IF s.d.over > OverLimit THEN s ELSE RdMb(s, mb, key, qp)
    IN Decoded(FoldLeft(Mb, [m |-> m, d |-> RdInit(data)], MbSeq), qp)

-----------------------------------------------------------------------------
(* The encoder.  A choice has what the searches would find:                *)
(* use "intra", "skip" or "moved"; tried, whether intra was coded before   *)
(* something else won; modes and cmode; the vector v; the levels y and c   *)
(* of the residual that is kept, and iy and ic of the intra one.           *)

\* mmc_code_block: the levels z of a block, or none, on what is predicted.
CodeBlock(pred, z, qp) == [rec |-> WithResidual(pred, z, qp), nz |-> z # NoLevels]
CodeChroma(pred, z, qp) == CodeBlock(pred, z[1], Quality[qp].chroma)

\* mmc_try_intra draws straight into the frame.
TryColour(m, mb, ch, code) ==
    [m EXCEPT !.cur.c[mb] = code.rec, !.nz.c[mb] = code.nz, !.cmode[mb] = ch.cmode,
              !.levels[mb] = [y |-> ch.iy, c |-> ch.ic]]
TryChroma(m, mb, qp, ch) ==
    TryColour(m, mb, ch, CodeChroma(IntraPred(m.cur.c, mb, ch.cmode), ch.ic, qp))
TryIntra(m, mb, qp, ch) ==
    LET Put(n, b, k, code) ==
            [n EXCEPT !.cur.y[b] = code.rec, !.mode[b] = ch.modes[k], !.nz.y[b] = code.nz]
        Block(n, k) ==
            Put(n, LumaOf(mb)[k], k,
                CodeBlock(IntraPred(n.cur.y, LumaOf(mb)[k], ch.modes[k]), ch.iy[k], qp))
    IN TryChroma(FoldLeft(Block, m, <<1, 2, 3, 4>>), mb, qp, ch)

AsIntra(m, mb, qp, ch) ==
    [TryIntra(m, mb, qp, ch) EXCEPT !.intra[mb] = TRUE, !.skip[mb] = FALSE, !.mv[mb] = <<0, 0>>]

\* A mutant: the colour coefficients of an intra attempt stay announced.
SkipKeepsColour(m, mb, v) ==
    [PutMoved(m, mb, v) EXCEPT !.intra[mb] = FALSE, !.skip[mb] = TRUE,
        !.levels[mb] = MmcInit.levels[mb]]

AsSkip(m, mb, v) ==
    [PutMoved(m, mb, v) EXCEPT !.intra[mb] = FALSE, !.skip[mb] = TRUE, !.nz.c[mb] = FALSE,
        !.levels[mb] = MmcInit.levels[mb]]

\* code is what becomes of the blocks, and colour of the colour block.
Recoded(n, mb, ch, code, colour) ==
    [n EXCEPT
        !.intra[mb] = FALSE, !.skip[mb] = FALSE,
        !.cur = [y |-> [b \in Luma |-> IF b \in DOMAIN code THEN code[b].rec ELSE @.y[b]],
                 c |-> [@.c EXCEPT ![mb] = colour.rec]],
        !.nz = [y |-> [b \in Luma |-> IF b \in DOMAIN code THEN code[b].nz ELSE @.y[b]],
                c |-> [@.c EXCEPT ![mb] = colour.nz]],
        !.levels[mb] = [y |-> ch.y, c |-> ch.c]]
MovedCoded(n, mb, own, qp, ch) ==
    Recoded(n, mb, ch,
            [b \in Range(own) |-> CodeBlock(n.cur.y[b], ch.y[CHOOSE k \in 1..4 : own[k] = b], qp)],
            CodeChroma(n.cur.c[mb], ch.c, qp))
AsMoved(m, mb, qp, ch) == MovedCoded(PutMoved(m, mb, ch.v), mb, LumaOf(mb), qp, ch)

\* A vector that is the predicted one and needs no residual is a skip.
IsSkip(m, mb, ch) == /\ ch.v = Mvp(m, mb)
                     /\ \A k \in 1..4 : ch.y[k] = NoLevels
                     /\ ch.c[1] = NoLevels

EncodeInter(m, qp, mb, ch, skips) ==
    IF skips THEN AsSkip(m, mb, Mvp(m, mb)) ELSE AsMoved(m, mb, qp, ch)
EncodeMb(m, key, qp, mb, ch) ==
    IF key \/ ch.use = "intra" THEN AsIntra(m, mb, qp, ch)
    ELSE EncodeInter(IF ch.tried THEN TryIntra(m, mb, qp, ch) ELSE m, qp, mb, ch,
                     ch.use = "skip" \/ IsSkip(m, mb, ch))

BeginFrame(m) == [m EXCEPT !.prevMv = m.mv]

-----------------------------------------------------------------------------
(* Writing a frame that has been decided *)

PutSize(e, typ, z) == IF Abs(z) > 1 THEN ReUint(e, <<"lev", typ>>, Abs(z) - 2) ELSE e
PutLevel(e, typ, inc, z) ==
    ReDirect(PutSize(ReBit(e, <<"gt1", typ, inc>>, IF Abs(z) > 1 THEN 1 ELSE 0), typ, z),
             IF z < 0 THEN 1 ELSE 0)

PutLast(e, typ, z) ==
    IF z[1] = 0 THEN e ELSE ReBit(e, <<"last", typ, 0>>, IF z[2] = 0 THEN 1 ELSE 0)
PutSecond(e, typ, z) == IF z[2] = 0 THEN e ELSE PutLevel(e, typ, 1, z[2])
PutFirst(e, typ, z) ==
    IF z[1] = 0 THEN e
    ELSE PutLevel(e, typ, IF z[2] = 0 THEN 1 ELSE IF Abs(z[2]) > 1 THEN 0 ELSE 2, z[1])
PutCoded(e, typ, z) ==
    IF z = NoLevels THEN e
    ELSE PutFirst(PutSecond(PutLast(ReBit(e, <<"sig", typ, 0>>, IF z[1] = 0 THEN 0 ELSE 1),
                                    typ, z), typ, z), typ, z)
PutLevels(e, typ, ctx, z) ==
    PutCoded(ReBit(e, <<"cbf", typ, ctx>>, IF z = NoLevels THEN 0 ELSE 1), typ, z)

PutDelta(e, k, delta) ==
    IF delta = 0 THEN e
    ELSE ReUint(ReDirect(e, IF delta < 0 THEN 1 ELSE 0), <<"mv", k>>, Abs(delta) - 1)
PutMvd(e, k, delta) == PutDelta(ReBit(e, <<"mv0", k>>, IF delta = 0 THEN 0 ELSE 1), k, delta)
PutVector(e, p, v) == PutMvd(PutMvd(e, 0, v[1] - p[1]), 1, v[2] - p[2])

PutLastRem(e, rem) == IF rem = 0 THEN e ELSE ReBit(e, <<"rem", 1>>, rem - 1)
PutRem(e, rem) == PutLastRem(ReBit(e, <<"rem", 0>>, IF rem > 0 THEN 1 ELSE 0), rem)
PutOther(e, mode, mpm) ==
    IF mode = mpm THEN e ELSE PutRem(e, IF mode < mpm THEN mode ELSE mode - 1)
PutMode(e, mode, mpm) ==
    PutOther(ReBit(e, <<"mpm", 0>>, IF mode = mpm THEN 0 ELSE 1), mode, mpm)
PutModes(e, m, mb) ==
    LET Mode(f, b) == PutMode(f, m.mode[b], Mpm(m, b))
        b0 == m.cmode[mb] \div 2
    IN ReBit(ReBit(FoldLeft(Mode, e, LumaOf(mb)), <<"cmode", 0>>, b0),
             <<"cmode", 1 + b0>>, m.cmode[mb] % 2)

PutIntra(e, m, mb) ==
    IF m.skip[mb] THEN e
    ELSE ReBit(e, <<"intra", Neighbours(m.intra, mb)>>, IF m.intra[mb] THEN 1 ELSE 0)
PutFlags(e, m, mb, key) ==
    IF key THEN e
    ELSE PutIntra(ReBit(e, <<"skip", Neighbours(m.skip, mb)>>, IF m.skip[mb] THEN 1 ELSE 0),
                  m, mb)

PutHead(e, m, mb) ==
    IF m.intra[mb] THEN PutModes(e, m, mb) ELSE PutVector(e, Mvp(m, mb), m.mv[mb])
PutBody(e, m, mb) ==
    LET Block(f, k) == PutLevels(f, 0, Neighbours(m.nz.y, LumaOf(mb)[k]), m.levels[mb].y[k])
    IN IF m.skip[mb] THEN e
       ELSE PutLevels(FoldLeft(Block, PutHead(e, m, mb), <<1, 2, 3, 4>>), 1,
                      Neighbours(m.nz.c, mb), m.levels[mb].c[1])
PutMb(e, m, mb, key) == PutBody(PutFlags(e, m, mb, key), m, mb)

\* mmc_write_frame; nothing when it does not fit.
Written(e) == IF e.full THEN <<>> ELSE e.out
WriteFrame(m, key, cap) ==
    LET Mb(e, mb) == IF e.full THEN e ELSE PutMb(e, m, mb, key)
    IN Written(ReFlush(FoldLeft(Mb, ReInit(cap), MbSeq)))
=============================================================================
