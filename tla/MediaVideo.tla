----------------------------- MODULE MediaVideo -----------------------------
(***************************************************************************)
(* A .vid file (mosmedia.h): a writer adds frames with one of the codecs,  *)
(* its frames may not fit and its writes may fail; a reader shows frames   *)
(* in any order, while reads fail and one stored frame may be damaged.     *)
(* The last frame's picture is what the next one is coded against, on both *)
(* sides, so both have to agree on it after whatever has happened.         *)
(***************************************************************************)
EXTENDS MediaMotion, MediaTiles

CONSTANTS
    Settings,      \* records of codec, alpha, fast, loss, interval, qp, cap
    MaxFrames,
    Pictures,      \* frames of the tiles codec
    Stills,        \* pictures that are stored as an .img
    Decisions,     \* for each frame and macroblock, what the encoder may choose
    Order,         \* "left behind" (mosmedia_motion.h:943) or "ahead" (mosmedia.h:430):
                   \* how the threads of `parallel` understand each other's rows
    QpStep,        \* 6
    KeyBonus       \* 2, how much better a keyframe is

\* The caller's pictures, and what mvid_writer_begin makes of its arguments:
\* no interval is an interval of 1.
ASSUME PicturesAssumption == \A pic \in Pictures \cup Stills : pic \in Picture
ASSUME SettingsAssumption ==
    \A s \in Settings :
        /\ s.codec \in {"tiles", "motion"} /\ s.interval \in Nat \ {0}
        /\ s.codec = "tiles" => s.alpha \in BOOLEAN /\ s.fast \in BOOLEAN /\ s.loss \in Nat
ASSUME FramesAssumption == MaxFrames \in Nat

MaxQp == Cardinality(DOMAIN Quality) - 1

VARIABLES
    v,             \* mvid_writer_t
    file,          \* what has been written: chunks, and the header
    r,             \* mvid_reader_t, with the caller's buffer
    still,         \* a picture and its image, decoded again
    source,        \* history: the frames that were given to the writer
    stored,        \* history: what the writer takes each frame to look like
    damaged        \* the frames whose data is not what was written

vars == <<v, file, r, still, source, stored, damaged>>

Rows == 0..MbH - 1
Black == [p \in Pixels |-> 0]
NoFile == [chunks |-> <<>>, header |-> FALSE, count |-> 0, index |-> <<>>]
Closed == [open |-> FALSE, decoded |-> -1, out |-> Black, mc |-> MmcInit, asked |-> -1,
           ok |-> FALSE, faults |-> FALSE]

Init == /\ v = [phase |-> "off"]
        /\ file = NoFile
        /\ r = Closed
        /\ still = [done |-> FALSE]
        /\ source = <<>> /\ stored = <<>>
        /\ damaged = {}

-----------------------------------------------------------------------------
(* Writing *)

WriterBegin(s) ==
    /\ v.phase = "off" /\ ~still.done
    /\ v' = [phase |-> "open", set |-> s, at |-> 1, index |-> <<>>, prev |-> Black,
             mc |-> MmcInit, qp |-> 0, done |-> [row \in Rows |-> 0]]
    /\ UNCHANGED <<file, r, still, source, stored, damaged>>

Number == Len(v.index)
Key == Number % v.set.interval = 0

\* The frame at the end of the file and its index entry, or a writer that
\* takes nothing any more.
AddEntry(w, data, wrote) ==
    /\ v' = IF wrote THEN [w EXCEPT !.phase = "open", !.at = @ + 1,
                               !.index = Append(@, [at |-> w.at, key |-> data.key])]
            ELSE [w EXCEPT !.phase = "failed"]
    /\ file' = IF wrote THEN [file EXCEPT !.chunks = Append(@, data)] ELSE file

TilesFrame(pic, wrote) ==
    /\ v.phase = "open" /\ v.set.codec = "tiles" /\ Number < MaxFrames
    /\ LET s == v.set
           px == IF s.loss = 0 THEN pic ELSE LossyFrame(pic, v.prev, Number = 0, s.alpha, s.loss)
           data == [key |-> Key, tiles |-> FrameEncode(px, v.prev, Key, s.alpha, s.fast)]
       IN /\ AddEntry(IF wrote THEN [v EXCEPT !.prev = px] ELSE v, data, wrote)
          /\ source' = IF wrote THEN Append(source, pic) ELSE source
          /\ stored' = IF wrote THEN Append(stored, [p \in Pixels |-> Coded(px[p], s.alpha)])
                       ELSE stored
    /\ UNCHANGED <<r, still, damaged>>

\* mvid_motion_frame, the part before the macroblocks.
MotionBegin ==
    /\ v.phase = "open" /\ v.set.codec = "motion" /\ Number < MaxFrames
    /\ LET qp == Least(v.set.qp, MaxQp)
       IN v' = [v EXCEPT !.phase = "deciding", !.mc = BeginFrame(@),
                         !.qp = IF ~Key THEN qp ELSE IF qp >= KeyBonus THEN qp - KeyBonus ELSE 0,
                         !.done = [row \in Rows |-> 0]]
    /\ UNCHANGED <<file, r, still, source, stored, damaged>>

\* Whether a thread may decide the next macroblock of its row.
Ready(row) ==
    /\ v.done[row] < MbW
    /\ IF Order = "left behind"
       THEN row > 0 => v.done[row - 1] >= Least(MbW, v.done[row] + 2)
       ELSE /\ row > 0 => v.done[row - 1] > v.done[row]
            /\ row + 1 \in Rows => v.done[row] < v.done[row + 1] + 2

DecideMb(row) ==
    /\ v.phase = "deciding" /\ Ready(row)
    /\ LET mb == <<v.done[row], row>>
       IN \E ch \in Decisions[Number + 1][mb] :
            v' = [v EXCEPT !.mc = EncodeMb(@, Key, v.qp, mb, ch), !.done[row] = @ + 1]
    /\ UNCHANGED <<file, r, still, source, stored, damaged>>

\* The reference as pixels: luma, and colour between the nearest samples.
ToArgb(m) ==
    [p \in Pixels |->
        LET cx == p[1] \div 2
            cy == p[2] \div 2
            cx2 == Clamp(IF p[1] % 2 = 1 THEN cx + 1 ELSE cx - 1, 0, MbW - 1)
            cy2 == Clamp(IF p[2] % 2 = 1 THEN cy + 1 ELSE cy - 1, 0, MbH - 1)
            u == m.ref.c
        IN <<m.ref.y[p],
             (9 * u[<<cx, cy>>] + 3 * u[<<cx2, cy>>] + 3 * u[<<cx, cy2>>] + u[<<cx2, cy2>>] + 8)
                \div 16>>]

\* The rest of mvid_motion_frame, and of mvid_writer_frame: the frame is
\* written, decided again at a higher QP, or given up.
MotionFits(bits, next, wrote) ==
    /\ bits # <<>>
    /\ AddEntry([v EXCEPT !.mc = next], [key |-> Key, qp |-> v.qp, bits |-> bits], wrote)
    /\ stored' = IF wrote THEN Append(stored, ToArgb(next)) ELSE stored
MotionAgain(bits) ==
    /\ bits = <<>>
    /\ v' = IF v.qp >= MaxQp THEN [v EXCEPT !.phase = "failed"]
            ELSE [v EXCEPT !.mc = BeginFrame([@ EXCEPT !.mv = v.mc.prevMv]),
                           !.qp = Least(@ + QpStep, MaxQp),
                           !.done = [row \in Rows |-> 0]]
    /\ UNCHANGED <<file, stored>>
MotionWrite(wrote) ==
    /\ v.phase = "deciding"
    /\ \A row \in Rows : v.done[row] = MbW
    /\ \E bits \in {WriteFrame(v.mc, Key, v.set.cap)} :
          \/ \E next \in {FinishFrame(v.mc, v.qp)} : MotionFits(bits, next, wrote)
          \/ wrote /\ MotionAgain(bits)
    /\ UNCHANGED <<r, still, source, damaged>>

\* mvid_writer_finish: the index, then the header.
Finish(wrote) ==
    /\ v.phase \in {"open", "failed"}
    /\ file' = IF v.phase = "open" /\ wrote
               THEN [file EXCEPT !.header = TRUE, !.count = Number, !.index = v.index]
               ELSE file
    /\ v' = [phase |-> "done", set |-> v.set]
    /\ UNCHANGED <<r, still, source, stored, damaged>>

\* The disk loses the end of a frame.
Damage(k) ==
    /\ v.phase = "done" /\ ~r.open /\ damaged = {}
    /\ k \in DOMAIN file.chunks
    /\ LET data == file.chunks[k]
           Shorter(tile) == [tile EXCEPT !.ops = SubSeq(@, 1, Len(@) - 1)]
           cut == IF "bits" \in DOMAIN data
                  THEN [data EXCEPT !.bits = SubSeq(@, 1, Len(@) \div 3)]
                  ELSE [data EXCEPT !.tiles = [t \in DOMAIN data.tiles |->
                            IF \A u \in DOMAIN data.tiles : u <= t
                            THEN Shorter(data.tiles[t]) ELSE data.tiles[t]]]
       IN file' = [file EXCEPT !.chunks[k] = cut]
    /\ damaged' = {k - 1}
    /\ UNCHANGED <<v, r, still, source, stored>>

-----------------------------------------------------------------------------
(* Reading *)

Open == /\ v.phase = "done" /\ ~r.open
        /\ file.header /\ file.count > 0
        /\ r' = [Closed EXCEPT !.open = TRUE]
        /\ UNCHANGED <<v, file, still, source, stored, damaged>>

Failed(q) == [q EXCEPT !.ok = FALSE]

\* mvid_decode_one: the frame n over the one before.  fails is the frame
\* whose data cannot be read, and refused says that SYS_MEDIA reports an
\* error; it does the tiles as below otherwise, or asks for that.
Drawn(q, n, ok, out) == [q EXCEPT !.out = out, !.decoded = IF ok THEN n ELSE @, !.ok = ok]
MotionDrawn(q, n, s) == [Drawn(q, n, s.ok, IF s.ok THEN ToArgb(s.m) ELSE q.out) EXCEPT !.mc = s.m]
DecodeMotion(q, n, data) == MotionDrawn(q, n, DecodeFrame(q.mc, data.bits, data.key, data.qp))

TilesDrawn(q, n, s) == Drawn(q, n, s.ok, s.pic)
DecodePicture(q, n, data, refused) ==
    IF \/ data.key /\ DOMAIN data.tiles # Tiles
       \/ refused /\ Cardinality(DOMAIN data.tiles) > 1
    THEN Failed(q) ELSE TilesDrawn(q, n, DecodeTiles(data.tiles, q.out, ~data.key))

DecodeData(q, n, data, fails, refused) ==
    IF ~q.ok THEN q
    ELSE IF n = fails \/ (~data.key /\ q.decoded # n - 1) THEN Failed(q)
    ELSE IF "bits" \in DOMAIN data THEN DecodeMotion(q, n, data)
    ELSE DecodePicture(q, n, data, refused)
DecodeOne(q, n, fails, refused) ==
    DecodeData(q, n, file.chunks[file.index[n + 1].at], fails, refused)

\* Where mvid_decode starts to get to frame n.
KeyAt(k) == file.index[k + 1].key
KeyBefore(n) == CHOOSE k \in 0..n : KeyAt(k) /\ \A j \in k + 1..n : ~KeyAt(j)
\* A mutant: going back starts at the frame itself.
FromItself(q, n) ==
    IF q.decoded >= 0 /\ n > q.decoded THEN q.decoded + 1 ELSE n

From(q, n) ==
    LET next == q.decoded + 1
        keys == {k \in next + 1..n : KeyAt(k)}
    IN IF q.decoded >= 0 /\ n > q.decoded
       THEN IF keys = {} THEN next ELSE CHOOSE k \in keys : \A j \in keys : j <= k
       ELSE KeyBefore(n)

\* The frames are decoded as far as it goes; after an error nothing is.
Ended(q) == IF q.ok THEN q ELSE [q EXCEPT !.decoded = -1]
DecodeFrom(from, start, n, fails, refused) ==
    LET One(q, i) == DecodeOne(q, from + i - 1, fails, refused)
    IN Ended(FoldLeft(One, start, [i \in 1..n - from + 1 |-> i]))
Decode(n, fails, refused) ==
    /\ r.open /\ n < file.count
    /\ \E from \in {From(r, n)} :
        LET start == [r EXCEPT !.ok = TRUE, !.asked = n, !.faults = fails >= 0 \/ refused]
        IN /\ fails = -1 \/ (n # r.decoded /\ fails \in from..n /\ ~refused)
           /\ refused => v.set.codec = "tiles" /\ n # r.decoded
           /\ r' = IF n = r.decoded THEN start ELSE DecodeFrom(from, start, n, fails, refused)
    /\ UNCHANGED <<v, file, still, source, stored, damaged>>

\* Instead of a video, an image is stored and read again.
Image(pic, alpha) ==
    /\ v.phase = "off" /\ ~still.done
    /\ \E back \in {DecodeTiles(ImageEncode(pic, alpha), Black, FALSE)} :
        still' = [done |-> TRUE, pic |-> pic, alpha |-> alpha, ok |-> back.ok, back |-> back.pic]
    /\ UNCHANGED <<v, file, r, source, stored, damaged>>

Next ==
    \/ \E s \in Settings : WriterBegin(s)
    \/ \E pic \in Pictures, wrote \in BOOLEAN : TilesFrame(pic, wrote)
    \/ MotionBegin
    \/ \E row \in Rows : DecideMb(row)
    \/ \E wrote \in BOOLEAN : MotionWrite(wrote)
    \/ \E wrote \in BOOLEAN : Finish(wrote)
    \/ \E k \in 1..MaxFrames : Damage(k)
    \/ Open
    \/ \E n \in 0..MaxFrames - 1, fails \in -1..MaxFrames - 1, refused \in BOOLEAN :
            Decode(n, fails, refused)
    \/ \E pic \in Stills, alpha \in BOOLEAN : Image(pic, alpha)

Spec == Init /\ [][Next]_vars

-----------------------------------------------------------------------------
(* Properties *)

Intact(n) == damaged \cap (KeyBefore(n)..n) = {}

\* The frame the reader believes to be in the caller's buffer looks there
\* as it looked to the writer: for both codecs, whatever frames were shown
\* before, also where reads have failed and after a frame that is damaged
\* (mvid_decode, mmc_decode_frame against mmc_encode_mb and mmc_write_frame).
FrameShown == (r.decoded >= 0 /\ Intact(r.decoded)) => r.out = stored[r.decoded + 1]

\* A frame that can be shown is: damage elsewhere and errors of earlier
\* calls do not keep mvid_decode from finding its way from a keyframe.
UndamagedDecodes == (r.asked >= 0 /\ ~r.faults /\ Intact(r.asked)) =>
                        r.ok /\ r.decoded = r.asked

\* However many frames are coded against each other, a pixel never is
\* further from the one that was given than `loss` (mvid_lossy_frame).
NoDrift ==
    \A k \in DOMAIN source : \A p \in Pixels :
        Close(Coded(source[k][p], v.set.alpha), stored[k][p], v.set.loss)

\* An image is lossless: mimg_decode gives what mimg_encode was given, opaque
\* where there is no alpha.
ImageComesBack ==
    still.done => still.ok /\ \A p \in Pixels : still.back[p] = Coded(still.pic[p], still.alpha)
=============================================================================
