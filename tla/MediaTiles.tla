----------------------------- MODULE MediaTiles -----------------------------
(***************************************************************************)
(* The tile codec of mosmedia.h, for still pictures and lossless videos: a *)
(* tile's rows are filtered, and what is left is coded with QOI's          *)
(* operations.  A pixel has an alpha and one colour channel instead of     *)
(* three; a picture is a function of the coordinates.                      *)
(***************************************************************************)
EXTENDS Integers, Sequences, SequencesExt

CONSTANTS
    PicW, PicH,    \* the picture, in pixels
    Tile,          \* MMEDIA_TILE
    Colours,       \* 256, values of the colour
    Alphas,        \* 256, values of alpha; the last one is opaque
    MaxRun,        \* 62
    HashSize       \* 64

ASSUME PictureAssumption == PicW \in Nat \ {0} /\ PicH \in Nat \ {0} /\ Tile \in Nat \ {0}
ASSUME PixelAssumption == Colours \in Nat \ {0} /\ Alphas \in Nat \ {0}
ASSUME CodeAssumption == MaxRun \in Nat \ {0} /\ HashSize \in Nat \ {0}

Pixels == (0..PicW - 1) \X (0..PicH - 1)
PixelValues == 0..Alphas * Colours - 1
Picture == [Pixels -> PixelValues]
Opaque == (Alphas - 1) * Colours
Base == Opaque                     \* MM_BASE

ColourOf(px) == px % Colours
AlphaOf(px) == px \div Colours
Pixel(a, c) == (a % Alphas) * Colours + (c % Colours)
AsOpaque(px) == Opaque + ColourOf(px)
Coded(px, alpha) == IF alpha THEN px ELSE AsOpaque(px)

\* mm_sub and mm_add: each channel on its own, modulo its size.
Sub(a, b) == Pixel(AlphaOf(a) - AlphaOf(b), ColourOf(a) - ColourOf(b))
Add(a, b) == Pixel(AlphaOf(a) + AlphaOf(b), ColourOf(a) + ColourOf(b))
Hash(px) == (ColourOf(px) * 3 + AlphaOf(px) * 11) % HashSize

\* A difference of colours as a signed number.
Signed(d) == LET m == d % Colours IN IF m >= Colours \div 2 THEN m - Colours ELSE m
SmallDiff == -2..1                 \* what MMEDIA_OP_DIFF can say
LumaDiff == -(Colours \div 4)..(Colours \div 4) - 1

TilesX == (PicW + Tile - 1) \div Tile
TilesY == (PicH + Tile - 1) \div Tile
Tiles == 1..TilesX * TilesY
TileX(t) == ((t - 1) % TilesX) * Tile
TileY(t) == ((t - 1) \div TilesX) * Tile
Least(a, b) == IF a < b THEN a ELSE b
TileW(t) == Least(PicW - TileX(t), Tile)
TileH(t) == Least(PicH - TileY(t), Tile)
RowOf(t, y) == [x \in 1..TileW(t) |-> <<TileX(t) + x - 1, TileY(t) + y - 1>>]
RowsOf(t) == [y \in 1..TileH(t) |-> y]

-----------------------------------------------------------------------------
(* Encoding *)

CodeInit == [index |-> [h \in 0..HashSize - 1 |-> 0], prev |-> 0, run |-> 0, ops |-> <<>>]

RunOut(s) == IF s.run = 0 THEN s ELSE [s EXCEPT !.ops = Append(@, <<"run", s.run>>), !.run = 0]

\* mm_code_row for one value; an open run goes on in the next row.
CodeValue(s, px) ==
    LET t == RunOut(s)
        h == Hash(px)
        d == Signed(ColourOf(px) - ColourOf(s.prev))
        op == IF s.index[h] = px THEN <<"index", h>>
              ELSE IF AlphaOf(px) # AlphaOf(s.prev) THEN <<"rgba", px>>
              ELSE IF d \in SmallDiff THEN <<"diff", d>>
              ELSE IF d \in LumaDiff THEN <<"luma", d>>
              ELSE <<"rgb", ColourOf(px)>>
        again == [s EXCEPT !.run = @ + 1]
    IN IF px = s.prev
       THEN IF again.run = MaxRun THEN RunOut(again) ELSE again
       ELSE [t EXCEPT !.ops = Append(@, op), !.index[h] = px, !.prev = px]

Bytes(op) == CASE op[1] = "luma" -> 2 [] op[1] = "rgb" -> 4 [] op[1] = "rgba" -> 5 [] OTHER -> 1
Cost(s) == FoldLeft(LAMBDA n, op : n + Bytes(op) * MaxRun, s.run, s.ops)

None == 0
Up == 1
Prev == 2

\* The filters tried for row y: prev says whether there is an earlier frame.
Filters(y, prev, fast) ==
    {f \in {None, Up, Prev} :
        /\ f = Up => y > 1
        /\ f = Prev => prev
        /\ fast /\ prev => f = Prev
        /\ fast /\ ~prev /\ y > 1 => f # None}

\* The row of pic with the filter's reference taken away.
Filtered(pic, last, t, y, f, alpha) ==
    LET row == RowOf(t, y)
        Ref(x) == CASE f = None -> Base
                    [] f = Up -> Coded(pic[RowOf(t, y - 1)[x]], alpha)
                    [] f = Prev -> Coded(last[row[x]], alpha)
    IN [x \in DOMAIN row |-> Sub(Coded(pic[row[x]], alpha), Ref(x))]

\* A mutant: the run that is open at the end of a tile is forgotten.
TileWithoutLastRun(pic, last, t, prev, alpha, fast) ==
    LET Row(acc, y) ==
            LET f == Least(y - 1, Up)
            IN [filters |-> Append(acc.filters, f),
                s |-> FoldLeft(CodeValue, acc.s, Filtered(pic, last, t, y, f, alpha))]
        all == FoldLeft(Row, [filters |-> <<>>, s |-> CodeInit], RowsOf(t))
    IN [filters |-> all.filters, ops |-> all.s.ops]

\* mm_tile_encode: each row takes the filter that costs least, the first of
\* equal ones.
Cheapest(cost) ==
    CHOOSE f \in DOMAIN cost :
        \A g \in DOMAIN cost : cost[f] < cost[g] \/ (cost[f] = cost[g] /\ f <= g)
Taken(acc, try, f) == [filters |-> Append(acc.filters, f), s |-> try[f]]
TakeCheapest(acc, try) == Taken(acc, try, Cheapest([f \in DOMAIN try |-> Cost(try[f])]))
TileData(acc) == [filters |-> acc.filters, ops |-> RunOut(acc.s).ops]
TileEncode(pic, last, t, prev, alpha, fast) ==
    LET Row(acc, y) == TakeCheapest(acc, [f \in Filters(y, prev, fast) |->
                           FoldLeft(CodeValue, acc.s, Filtered(pic, last, t, y, f, alpha))])
    IN TileData(FoldLeft(Row, [filters |-> <<>>, s |-> CodeInit], RowsOf(t)))

-----------------------------------------------------------------------------
(* Decoding, in place over the earlier frame *)

\* One pixel: the next value, from the open run or the next operation.
NextValue(s) ==
    LET op == Head(s.ops)
        px == CASE op[1] = "index" -> s.index[op[2]]
                [] op[1] = "rgba" -> op[2]
                [] op[1] = "rgb" -> Pixel(AlphaOf(s.prev), op[2])
                [] op[1] \in {"diff", "luma"} -> Pixel(AlphaOf(s.prev), ColourOf(s.prev) + op[2])
                [] OTHER -> s.prev
        rest == [s EXCEPT !.ops = Tail(@), !.prev = px]
    IN IF s.run > 0 THEN [s EXCEPT !.run = @ - 1]
       ELSE IF s.ops = <<>> THEN [s EXCEPT !.ok = FALSE]
       ELSE IF op[1] = "run" THEN [rest EXCEPT !.run = op[2] - 1]
       ELSE IF op[1] = "index" THEN rest
       ELSE [rest EXCEPT !.index[Hash(px)] = px]

\* mm_tile_decode: what was drawn before an error stays.
TileDecode(data, pic, t, prev) ==
    LET Row(s, y) ==
            LET f == data.filters[y]
                row == RowOf(t, y)
                Draw(r, x) ==
                    LET n == NextValue(r)
                        ref == CASE f = None -> Base
                                 [] f = Up -> r.pic[RowOf(t, y - 1)[x]]
                                 [] f = Prev -> r.pic[row[x]]
                    IN IF ~r.ok \/ ~n.ok THEN [r EXCEPT !.ok = FALSE]
                       ELSE [n EXCEPT !.pic[row[x]] = Add(n.prev, ref)]
            IN IF (f = Up /\ y = 1) \/ (f = Prev /\ ~prev) THEN [s EXCEPT !.ok = FALSE]
               ELSE FoldLeft(Draw, s, [x \in DOMAIN row |-> x])
        start == [index |-> CodeInit.index, prev |-> 0, run |-> 0, ops |-> data.ops,
                  ok |-> TRUE, pic |-> pic]
        end == FoldLeft(Row, start, RowsOf(t))
    IN [ok |-> end.ok /\ end.run = 0, pic |-> end.pic]

-----------------------------------------------------------------------------
(* Still pictures, and the frames of a video *)

\* mimg_encode and mimg_decode: every tile, over a picture of garbage.
ImageEncode(pic, alpha) == [t \in Tiles |-> TileEncode(pic, pic, t, FALSE, alpha, FALSE)]
DecodeTiles(data, pic, prev) ==
    LET One(s, t) == IF ~s.ok \/ t \notin DOMAIN data THEN s
                     ELSE TileDecode(data[t], s.pic, t, prev)
    IN FoldLeft(One, [ok |-> TRUE, pic |-> pic], [t \in Tiles |-> t])

\* The tiles of a delta frame that are stored: those with another pixel.
Changed(pic, last) ==
    {t \in Tiles : \E y \in DOMAIN RowsOf(t) : \E i \in DOMAIN RowOf(t, y) :
        pic[RowOf(t, y)[i]] # last[RowOf(t, y)[i]]}
FrameEncode(pic, last, key, alpha, fast) ==
    [t \in (IF key THEN Tiles ELSE Changed(pic, last)) |->
        TileEncode(pic, last, t, ~key, alpha, fast)]

\* mm_close, and mvid_lossy_frame: a pixel takes the colour of the last
\* frame's, the left or the upper one when that is near enough.
Close(a, b, loss) ==
    LET d == ColourOf(a) - ColourOf(b)
    IN AlphaOf(a) = AlphaOf(b) /\ d <= loss /\ -d <= loss
\* A mutant: the left pixel is taken when it is near the last frame's.
LossyDrifts(pic, last, first, alpha, loss) ==
    LET all == [i \in 1..PicW * PicH |-> <<(i - 1) % PicW, (i - 1) \div PicW>>]
        One(o, at) ==
            LET s == Coded(pic[at], alpha)
                base == IF first THEN s ELSE last[at]
            IN IF at[1] > 0 /\ Close(o[<<at[1] - 1, at[2]>>], base, loss)
               THEN [o EXCEPT ![at] = o[<<at[1] - 1, at[2]>>]] ELSE [o EXCEPT ![at] = s]
    IN FoldLeft(One, pic, all)

LossyFrame(pic, last, first, alpha, loss) ==
    LET all == [i \in 1..PicW * PicH |-> <<(i - 1) % PicW, (i - 1) \div PicW>>]
        Near(s, c) == Close(s, Pixel(AlphaOf(s), ColourOf(c)), loss)
        One(o, at) ==
            LET s == Coded(pic[at], alpha)
                left == <<at[1] - 1, at[2]>>
                above == <<at[1], at[2] - 1>>
                c == IF ~first /\ Near(s, last[at]) THEN last[at]
                     ELSE IF at[1] > 0 /\ Near(s, o[left]) THEN o[left]
                     ELSE IF at[2] > 0 /\ Near(s, o[above]) THEN o[above]
                     ELSE s
            IN [o EXCEPT ![at] = Pixel(AlphaOf(s), ColourOf(c))]
    IN FoldLeft(One, pic, all)
=============================================================================
