---------------------------- MODULE MCMediaVideo ----------------------------
(* Three by two macroblocks and two tiles; three frames, the first and the *)
(* last of them or only the first one a keyframe.                          *)
EXTENDS MediaVideo

MCQuality == [q \in 0..2 |-> [step |-> q + 1, alpha |-> <<0, 6, 10>>[q + 1],
                              tc0 |-> q, chroma |-> Least(q, 1)]]

MCSettings ==
    {[codec |-> "motion", interval |-> 2, qp |-> 1, cap |-> 54],
     [codec |-> "motion", interval |-> 3, qp |-> 1, cap |-> 100]}
    \cup {[codec |-> "tiles", alpha |-> s[1], fast |-> s[2], loss |-> s[3], interval |-> s[4]] :
            s \in {<<TRUE, FALSE, 0, 3>>, <<FALSE, TRUE, 0, 2>>, <<TRUE, TRUE, 2, 2>>,
                   <<FALSE, FALSE, 2, 3>>}}

NoY == <<NoLevels, NoLevels, NoLevels, NoLevels>>
SomeY == <<<<1, 0>>, <<0, -2>>, NoLevels, <<3, 4>>>>
OneY == <<NoLevels, <<2, 1>>, NoLevels, NoLevels>>
AnyC == <<<<-1, 3>>>>
NoC == <<NoLevels>>
Intra1 == [use |-> "intra", tried |-> FALSE, modes |-> <<0, 1, 2, 3>>, cmode |-> 2,
           iy |-> SomeY, ic |-> NoC, v |-> <<0, 0>>, y |-> NoY, c |-> NoC]
Intra2 == [Intra1 EXCEPT !.modes = <<3, 3, 0, 1>>, !.cmode = 1, !.iy = OneY, !.ic = AnyC]
Skipped == [Intra1 EXCEPT !.use = "skip"]
SkipAfterIntra == [Intra2 EXCEPT !.use = "skip", !.tried = TRUE]
Moved1 == [Intra1 EXCEPT !.use = "moved", !.v = <<-3, 2>>, !.y = OneY]
Moved2 == [Intra1 EXCEPT !.use = "moved", !.tried = TRUE, !.v = <<5, -1>>, !.c = AnyC]

MCDecisions ==
    <<[mb \in Mbs |-> IF mb = <<2, 1>> THEN {Intra1} ELSE {Intra2}],
      [mb \in Mbs |-> CASE mb = <<0, 0>> -> {SkipAfterIntra, Moved1}
                        [] mb = <<1, 0>> -> {Moved1, Intra1}
                        [] mb = <<0, 1>> -> {Skipped}
                        [] mb = <<2, 1>> -> {SkipAfterIntra, Intra1}
                        [] OTHER -> {Moved2}],
      [mb \in Mbs |-> IF mb = <<1, 0>> THEN {Moved2} ELSE {SkipAfterIntra}]>>

\* Pictures of the video: a slope, an edge, noise.
Shades(f(_, _)) == [p \in Pixels |-> f(p[1], p[2])]
MCPictures == {
    Shades(LAMBDA x, y : 21 + ((x + y) % 3)),
    Shades(LAMBDA x, y : IF x = 4 THEN 30 ELSE 5),
    Shades(LAMBDA x, y : (x * 7 + y * 13 + 3) % 32)}

\* Stills: any top row, and rows that shift it.
Colour == {0, 17, 23}
MCStills == {[p \in Pixels |-> top[1 + ((p[1] + p[2]) % PicW)]] : top \in [1..PicW -> Colour]}
=============================================================================
