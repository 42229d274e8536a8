-------------------------- MODULE MediaVideo_proofs --------------------------
(***************************************************************************)
(* What is proved about MediaVideo.                                        *)
(*                                                                         *)
(* The codec is made of folds, so the proofs need induction.  The theorems *)
(* of the library that state it take the property as an operator; here it  *)
(* is a set of numbers, that has a least element.                          *)
(***************************************************************************)
EXTENDS MediaVideo, SequenceTheorems, WellFoundedInduction, TLAPS

-----------------------------------------------------------------------------
(* Induction, and what a fold computes *)

LEMMA LessIsWellFounded == IsWellFoundedOn({ss \in Nat \X Nat : ss[1] < ss[2]}, Nat)
BY NatLessThanWellFounded DEF OpToRel

\* A set of natural numbers has a least one.
LEMMA LeastElement ==
    ASSUME NEW T, T \subseteq Nat, T # {}
    PROVE  \E x \in T : \A y \in T : x <= y
<1> DEFINE R == {ss \in Nat \X Nat : ss[1] < ss[2]}
<1>1. IsWellFoundedOn(R, Nat) BY LessIsWellFounded
<1> HIDE DEF R
<1>2. PICK x \in T : \A y \in T : ~(<<y, x>> \in R) BY <1>1, WFMin
<1>3. ASSUME NEW y \in T PROVE x <= y
  <2>1. x \in Nat /\ y \in Nat OBVIOUS
  <2>2. <<y, x>> \in Nat \X Nat BY <2>1
  <2>3. y < x => <<y, x>> \in R BY <2>2 DEF R
  <2> QED BY <1>2, <2>1, <2>3
<1> QED BY <1>3

\* Induction: a set with 0 and with every successor has them all.
LEMMA Induction ==
    ASSUME NEW T, 0 \in T, \A n \in Nat : n \in T => n + 1 \in T
    PROVE  \A n \in Nat : n \in T
<1> SUFFICES ASSUME Nat \ T # {} PROVE FALSE OBVIOUS
<1>1. PICK x \in Nat \ T : \A y \in Nat \ T : x <= y BY LeastElement
<1>2. x - 1 \in Nat BY <1>1
<1>3. x - 1 \in T BY <1>1, <1>2
<1> QED BY <1>1, <1>2, <1>3

\* A set of numbers up to n has a greatest one.
LEMMA GreatestElement ==
    ASSUME NEW n \in Nat, NEW T, T \subseteq 0..n, T # {}
    PROVE  \E x \in T : \A y \in T : y <= x
<1> DEFINE R == {n - x : x \in T}
<1>1. R \subseteq Nat /\ R # {}
  <2>1. \A x \in T : x \in Nat /\ n - x \in Nat OBVIOUS
  <2>2. PICK x : x \in T OBVIOUS
  <2>3. n - x \in R BY <2>2
  <2> QED BY <2>1, <2>3
<1> HIDE DEF R
<1>2. PICK z \in R : \A y \in R : z <= y BY <1>1, LeastElement
<1>3. PICK x \in T : z = n - x BY DEF R
<1>4. ASSUME NEW y \in T PROVE y <= x
  <2>1. n - y \in R BY DEF R
  <2> QED BY <1>2, <1>3, <2>1
<1> QED BY <1>4

\* FoldLeft is a function on the sets of indexes.  For a step g[i] that stays
\* in S, there is one that satisfies its equation.
Iterates(h, n, S, base, g) ==
    /\ h \in [SUBSET (1..n) -> S]
    /\ h[{}] = base
    /\ \A s \in SUBSET (1..n) : s # {} => Max(s) \in s /\ h[s] = g[Max(s)][h[s \ {Max(s)}]]

LEMMA IterationExists ==
    ASSUME NEW n \in Nat, NEW S, NEW base \in S, NEW g \in [1..n -> [S -> S]]
    PROVE  \E h : Iterates(h, n, S, base, g)
<1> DEFINE T == {k \in Nat : k <= n => \E h : Iterates(h, k, S, base, g)}
<1>1. 0 \in T
  <2> DEFINE h == [s \in SUBSET (1..0) |-> base]
  <2>1. SUBSET (1..0) = {{}} OBVIOUS
  <2>2. Iterates(h, 0, S, base, g) BY <2>1 DEF Iterates
  <2> QED BY <2>2
<1>2. ASSUME NEW k \in Nat, k \in T PROVE k + 1 \in T
  <2> SUFFICES ASSUME k + 1 <= n PROVE \E h : Iterates(h, k + 1, S, base, g) OBVIOUS
  <2>1. PICK h : Iterates(h, k, S, base, g) BY <1>2
  <2> DEFINE j == k + 1
             f == [s \in SUBSET (1..j) |-> IF j \in s THEN g[j][h[s \ {j}]] ELSE h[s]]
  <2>2. ASSUME NEW s \in SUBSET (1..j) PROVE s \ {j} \in SUBSET (1..k) OBVIOUS
  <2>3. ASSUME NEW s \in SUBSET (1..j), j \in s PROVE Max(s) = j
    <3>1. \A y \in s : j >= y OBVIOUS
    <3>2. \A x \in s : (\A y \in s : x >= y) => x = j BY <2>3, <3>1
    <3> QED BY <2>3, <3>1, <3>2 DEF Max
  <2>4. f \in [SUBSET (1..j) -> S]
    <3>1. ASSUME NEW s \in SUBSET (1..j) PROVE f[s] \in S
      <4>1. h[s \ {j}] \in S BY <2>1, <2>2 DEF Iterates
      <4>2. CASE j \in s
        <5>1. j \in 1..n /\ g[j] \in [S -> S] OBVIOUS
        <5>2. g[j][h[s \ {j}]] \in S BY <4>1, <5>1
        <5> QED BY <4>2, <5>2
      <4>3. CASE j \notin s
        <5>1. s \in SUBSET (1..k) BY <4>3
        <5> QED BY <4>3, <5>1, <2>1 DEF Iterates
      <4> QED BY <4>2, <4>3
    <3> QED BY <3>1
  <2>5. f[{}] = base BY <2>1 DEF Iterates
  <2>6. ASSUME NEW s \in SUBSET (1..j), s # {}
        PROVE  Max(s) \in s /\ f[s] = g[Max(s)][f[s \ {Max(s)}]]
    <3>1. CASE j \in s
      <4>1. s \ {j} \in SUBSET (1..j) OBVIOUS
      <4>2. f[s \ {j}] = h[s \ {j}] BY <4>1
      <4> QED BY <3>1, <2>3, <4>2
    <3>2. CASE j \notin s
      <4>1. s \in SUBSET (1..k) BY <3>2
      <4>2. Max(s) \in s /\ h[s] = g[Max(s)][h[s \ {Max(s)}]]
        BY <4>1, <2>1, <2>6 DEF Iterates
      <4>3. s \ {Max(s)} \in SUBSET (1..j) /\ j \notin s \ {Max(s)} BY <3>2
      <4> QED BY <3>2, <4>2, <4>3
    <3> QED BY <3>1, <3>2
  <2> HIDE DEF f
  <2>7. Iterates(f, j, S, base, g) BY <2>4, <2>5, <2>6 DEF Iterates
  <2> QED BY <2>7
<1> HIDE DEF T
<1>3. n \in T BY <1>1, <1>2, Induction
<1> QED BY <1>3 DEF T

\* Whatever satisfies that equation goes through the elements one by one:
\* F[k] is what the first k of them give.
Chain(F, n, S, base, g) ==
    /\ F \in [0..n -> S]
    /\ F[0] = base
    /\ \A k \in 1..n : F[k] = g[k][F[k - 1]]

Follows(it, n, S, base, g) ==
    /\ it[{}] = base
    /\ \A s \in SUBSET (1..n) :
           (s # {} /\ Max(s) \in s /\ it[s \ {Max(s)}] \in S)
               => it[s] = g[Max(s)][it[s \ {Max(s)}]]

LEMMA IterationIsChain ==
    ASSUME NEW n \in Nat, NEW S, NEW base \in S, NEW g \in [1..n -> [S -> S]],
           NEW it, Follows(it, n, S, base, g)
    PROVE  \E F : Chain(F, n, S, base, g) /\ it[1..n] = F[n]
<1> DEFINE T == {k \in Nat : k <= n => it[1..k] \in S}
<1>1. ASSUME NEW k \in 1..n PROVE Max(1..k) = k
  <2>1. k \in 1..k /\ \A y \in 1..k : k >= y OBVIOUS
  <2>2. \A x \in 1..k : (\A y \in 1..k : x >= y) => x = k BY <2>1
  <2> QED BY <2>1, <2>2 DEF Max
<1>2. ASSUME NEW k \in 1..n, it[1..k - 1] \in S PROVE it[1..k] = g[k][it[1..k - 1]]
  <2>1. (1..k) \in SUBSET (1..n) /\ (1..k) \ {k} = 1..(k - 1) OBVIOUS
  <2> DEFINE s == 1..k
  <2>2. k \in s OBVIOUS
  <2>3. s \in SUBSET (1..n) /\ s # {} /\ Max(s) = k /\ k \in s /\ s \ {k} = 1..k - 1
    BY <2>1, <2>2, <1>1
  <2> HIDE DEF s
  <2>4. it[s] = g[k][it[s \ {k}]] BY <2>3, <1>2 DEF Follows
  <2> QED BY <2>3, <2>4 DEF s
<1>3. 0 \in T
  <2>1. 1..0 = {} OBVIOUS
  <2> QED BY <2>1 DEF Follows
<1>4. ASSUME NEW k \in Nat, k \in T PROVE k + 1 \in T
  <2> SUFFICES ASSUME k + 1 <= n PROVE it[1..k + 1] \in S OBVIOUS
  <2>1. it[1..k + 1 - 1] \in S /\ k + 1 \in 1..n BY <1>4
  <2>2. it[1..k + 1] = g[k + 1][it[1..k + 1 - 1]] BY <2>1, <1>2
  <2>3. g[k + 1] \in [S -> S] BY <2>1
  <2> QED BY <2>1, <2>2, <2>3
<1> HIDE DEF T
<1>5. \A k \in Nat : k \in T BY <1>3, <1>4, Induction
<1>6. \A k \in 0..n : it[1..k] \in S BY <1>5 DEF T
<1> DEFINE F == [k \in 0..n |-> it[1..k]]
<1>7. F \in [0..n -> S] BY <1>6
<1>8. F[0] = base
  <2>1. 1..0 = {} OBVIOUS
  <2> QED BY <2>1 DEF Follows
<1>9. ASSUME NEW k \in 1..n PROVE F[k] = g[k][F[k - 1]]
  <2>1. k - 1 \in 0..n /\ k \in 0..n OBVIOUS
  <2> QED BY <2>1, <1>2, <1>6
<1>10. it[1..n] = F[n] OBVIOUS
<1> HIDE DEF F
<1> QED BY <1>7, <1>8, <1>9, <1>10 DEF Chain

-----------------------------------------------------------------------------
(* Quotients and remainders; pixels *)

LEMMA DivMod ==
    ASSUME NEW a \in Int, NEW b \in Nat \ {0}
    PROVE  a \div b \in Int /\ a % b \in 0..b - 1 /\ a = b * (a \div b) + (a % b)
OBVIOUS

LEMMA DivModUnique ==
    ASSUME NEW q \in Int, NEW m \in Int, NEW b \in Nat \ {0}, 0 <= m, m < b
    PROVE  (b * q + m) \div b = q /\ (b * q + m) % b = m
<1> DEFINE a == b * q + m
           p == a \div b
           s == a % b
<1>1. a \in Int OBVIOUS
<1>2. p \in Int /\ s \in 0..b - 1 /\ a = b * p + s
  <2> HIDE DEF a
  <2> QED BY <1>1, DivMod
<1> HIDE DEF p, s
<1>3. b * p + s = b * q + m BY <1>2
<1>4. b * (p - q) = m - s BY <1>3, <1>2
<1>5. p = q
  <2>1. CASE p >= q + 1
    <3>1. b * (p - q) >= b BY <1>2, <2>1
    <3> QED BY <3>1, <1>4, <1>2
  <2>2. CASE p <= q - 1
    <3>1. b * (p - q) <= -b BY <1>2, <2>2
    <3> QED BY <3>1, <1>4, <1>2
  <2> QED BY <1>2, <2>1, <2>2
<1>6. s = m BY <1>3, <1>5, <1>2
<1> QED BY <1>5, <1>6 DEF p, s, a

LEMMA SmallMod ==
    ASSUME NEW b \in Nat \ {0}, NEW m \in 0..b - 1
    PROVE  m % b = m /\ m \div b = 0
<1>1. (b * 0 + m) \div b = 0 /\ (b * 0 + m) % b = m BY DivModUnique
<1>2. b * 0 + m = m OBVIOUS
<1> QED BY <1>1, <1>2

\* A remainder may be taken early.
LEMMA ModAdd ==
    ASSUME NEW a \in Int, NEW d \in Int, NEW b \in Nat \ {0}
    PROVE  (a + (d % b)) % b = (a + d) % b
<1> DEFINE q == d \div b
           m == d % b
           u == a + m
           p == u \div b
           rem == u % b
<1>1. q \in Int /\ m \in 0..b - 1 /\ d = b * q + m BY DivMod
<1> HIDE DEF q, m
<1>2. u \in Int BY <1>1
<1>3. p \in Int /\ rem \in 0..b - 1 /\ u = b * p + rem
  <2> HIDE DEF u
  <2> QED BY <1>2, DivMod
<1>4. a + d = b * q + u BY <1>1
<1> HIDE DEF p, rem, u
<1>5. a + d = b * (p + q) + rem BY <1>1, <1>2, <1>3, <1>4
<1>6. (b * (p + q) + rem) % b = rem
  <2>1. p + q \in Int /\ 0 <= rem /\ rem < b /\ rem \in Int BY <1>1, <1>3
  <2> QED BY <2>1, DivModUnique
<1> QED BY <1>5, <1>6 DEF rem, u, m

\* A pixel is its alpha and its colour.
LEMMA PixelParts ==
    ASSUME NEW px \in PixelValues
    PROVE  /\ ColourOf(px) \in 0..Colours - 1 /\ AlphaOf(px) \in 0..Alphas - 1
           /\ Pixel(AlphaOf(px), ColourOf(px)) = px
<1> DEFINE c == px % Colours
           a == px \div Colours
<1>1. px \in Int /\ 0 <= px /\ px < Alphas * Colours BY PixelAssumption DEF PixelValues
<1>2. a \in Int /\ c \in 0..Colours - 1 /\ px = Colours * a + c
  BY <1>1, PixelAssumption, DivMod
<1> HIDE DEF a, c
<1>3. a \in 0..Alphas - 1
  <2>1. a >= 0
    <3>1. CASE a <= -1
      <4>1. Colours * a <= -Colours BY <1>2, <3>1, PixelAssumption
      <4> QED BY <4>1, <1>1, <1>2, PixelAssumption
    <3> QED BY <3>1, <1>2
  <2>2. a < Alphas
    <3>1. CASE a >= Alphas
      <4>1. Colours * a >= Alphas * Colours BY <1>2, <3>1, PixelAssumption
      <4> QED BY <4>1, <1>1, <1>2, PixelAssumption
    <3> QED BY <3>1, <1>2, PixelAssumption
  <2> QED BY <1>2, <2>1, <2>2, PixelAssumption
<1>4. c % Colours = c /\ a % Alphas = a BY <1>2, <1>3, PixelAssumption, SmallMod
<1>5. a * Colours + c = px BY <1>2, <1>3, PixelAssumption
<1> QED BY <1>2, <1>3, <1>4, <1>5 DEF ColourOf, AlphaOf, Pixel, a, c

LEMMA PixelOfParts ==
    ASSUME NEW a \in Int, NEW c \in Int
    PROVE  /\ Pixel(a, c) \in PixelValues
           /\ AlphaOf(Pixel(a, c)) = a % Alphas /\ ColourOf(Pixel(a, c)) = c % Colours
<1> DEFINE am == a % Alphas
           cm == c % Colours
<1>1. am \in 0..Alphas - 1 /\ cm \in 0..Colours - 1 BY PixelAssumption, DivMod
<1> HIDE DEF am, cm
<1>2. (Colours * am + cm) \div Colours = am /\ (Colours * am + cm) % Colours = cm
  BY <1>1, PixelAssumption, DivModUnique
<1>3. am * Colours + cm = Colours * am + cm BY <1>1, PixelAssumption
<1>4. am * Colours + cm \in 0..Alphas * Colours - 1
  <2>1. am * Colours <= (Alphas - 1) * Colours /\ am * Colours >= 0 BY <1>1, PixelAssumption
  <2>2. (Alphas - 1) * Colours = Alphas * Colours - Colours BY PixelAssumption
  <2>3. am * Colours \in Int /\ Alphas * Colours \in Int BY <1>1, PixelAssumption
  <2> HIDE DEF am
  <2> QED BY <1>1, <2>1, <2>2, <2>3, PixelAssumption
<1>5. Pixel(a, c) = am * Colours + cm BY DEF Pixel, am, cm
<1>6. AlphaOf(Pixel(a, c)) = am /\ ColourOf(Pixel(a, c)) = cm
  BY <1>2, <1>3, <1>5 DEF AlphaOf, ColourOf
<1> QED BY <1>4, <1>5, <1>6 DEF PixelValues, am, cm

\* A pixel that is coded: opaque, unless alpha is.
LEMMA CodedPixel ==
    ASSUME NEW px \in PixelValues, NEW alpha \in BOOLEAN
    PROVE  /\ Coded(px, alpha) \in PixelValues
           /\ ColourOf(Coded(px, alpha)) = ColourOf(px)
           /\ ~alpha => AlphaOf(Coded(px, alpha)) = Alphas - 1
           /\ alpha => Coded(px, alpha) = px
<1>1. CASE alpha BY <1>1 DEF Coded
<1>2. CASE ~alpha
  <2>1. ColourOf(px) \in 0..Colours - 1 BY PixelParts
  <2>2. (Alphas - 1) % Alphas = Alphas - 1 /\ ColourOf(px) % Colours = ColourOf(px)
    BY <2>1, PixelAssumption, SmallMod
  <2>3. Coded(px, alpha) = Pixel(Alphas - 1, ColourOf(px))
    BY <1>2, <2>2 DEF Coded, AsOpaque, Opaque, Pixel
  <2> QED BY <1>2, <2>1, <2>2, <2>3, PixelOfParts, PixelAssumption
<1> QED BY <1>1, <1>2

-----------------------------------------------------------------------------
(* mvid_lossy_frame *)

Points == 1..PicW * PicH
Point(i) == <<(i - 1) % PicW, (i - 1) \div PicW>>

\* The rows one after the other are all pixels.
LEMMA PointsArePixels == \A i \in Points : Point(i) \in Pixels
<1> SUFFICES ASSUME NEW i \in Points PROVE Point(i) \in Pixels OBVIOUS
<1> DEFINE x == (i - 1) % PicW
           y == (i - 1) \div PicW
<1>1. i \in Int /\ 1 <= i /\ i <= PicW * PicH BY PictureAssumption DEF Points
<1>2. x \in 0..PicW - 1 /\ y \in Int /\ i - 1 = PicW * y + x
  <2>1. i - 1 \in Int BY <1>1
  <2> QED BY <2>1, PictureAssumption, DivMod
<1> HIDE DEF x, y
<1>3. y >= 0
  <2>1. CASE y <= -1
    <3>1. PicW * y <= -PicW BY <1>2, <2>1, PictureAssumption
    <3> QED BY <3>1, <1>1, <1>2, PictureAssumption
  <2> QED BY <2>1, <1>2
<1>4. y < PicH
  <2>1. CASE y >= PicH
    <3>1. PicW * y >= PicW * PicH BY <1>2, <2>1, PictureAssumption
    <3> QED BY <3>1, <1>1, <1>2, PictureAssumption
  <2> QED BY <2>1, <1>2, PictureAssumption
<1> QED BY <1>2, <1>3, <1>4, PictureAssumption DEF Pixels, Point, x, y

LEMMA PixelsArePoints == \A p \in Pixels : \E i \in Points : Point(i) = p
<1> SUFFICES ASSUME NEW x \in 0..PicW - 1, NEW y \in 0..PicH - 1
             PROVE  \E i \in Points : Point(i) = <<x, y>>
  BY DEF Pixels
<1> DEFINE i == PicW * y + x + 1
<1>1. i - 1 = PicW * y + x /\ i \in Int BY PictureAssumption
<1>2. (PicW * y + x) \div PicW = y /\ (PicW * y + x) % PicW = x
  BY PictureAssumption, DivModUnique
<1>3. PicW * y >= 0 /\ PicW * y <= PicW * (PicH - 1) BY PictureAssumption
<1>4. PicW * (PicH - 1) = PicW * PicH - PicW BY PictureAssumption
<1>5. PicW * y \in Int /\ PicW * PicH \in Int BY PictureAssumption
<1>6. i \in Points BY <1>3, <1>4, <1>5, PictureAssumption DEF Points
<1>7. Point(i) = <<x, y>> BY <1>1, <1>2 DEF Point
<1> QED BY <1>6, <1>7

\* What becomes of the pixel at `at` when the frame is o so far.
LossyPixel(pic, last, first, alpha, loss, o, at) ==
    LET s == Coded(pic[at], alpha)
        left == <<at[1] - 1, at[2]>>
        above == <<at[1], at[2] - 1>>
        Near(c) == Close(s, Pixel(AlphaOf(s), ColourOf(c)), loss)
        c == IF ~first /\ Near(last[at]) THEN last[at]
             ELSE IF at[1] > 0 /\ Near(o[left]) THEN o[left]
             ELSE IF at[2] > 0 /\ Near(o[above]) THEN o[above]
             ELSE s
    IN Pixel(AlphaOf(s), ColourOf(c))

\* It is a pixel that is near enough, with the alpha of the one given.
LEMMA LossyPixelIsClose ==
    ASSUME NEW pic \in Picture, NEW last \in Picture, NEW first,
           NEW alpha \in BOOLEAN, NEW loss \in Nat, NEW o \in Picture, NEW at \in Pixels
    PROVE  LET px == LossyPixel(pic, last, first, alpha, loss, o, at)
           IN /\ px \in PixelValues
              /\ Close(Coded(pic[at], alpha), px, loss)
              /\ Coded(px, alpha) = px
<1> DEFINE s == Coded(pic[at], alpha)
           left == <<at[1] - 1, at[2]>>
           above == <<at[1], at[2] - 1>>
           Near(x) == Close(s, Pixel(AlphaOf(s), ColourOf(x)), loss)
           c == IF ~first /\ Near(last[at]) THEN last[at]
                ELSE IF at[1] > 0 /\ Near(o[left]) THEN o[left]
                ELSE IF at[2] > 0 /\ Near(o[above]) THEN o[above]
                ELSE s
           px == Pixel(AlphaOf(s), ColourOf(c))
<1>1. LossyPixel(pic, last, first, alpha, loss, o, at) = px BY DEF LossyPixel
<1>2. pic[at] \in PixelValues /\ last[at] \in PixelValues BY DEF Picture
<1>3. s \in PixelValues BY <1>2, CodedPixel
<1>4. /\ ColourOf(s) \in 0..Colours - 1 /\ AlphaOf(s) \in 0..Alphas - 1
      /\ Pixel(AlphaOf(s), ColourOf(s)) = s
  BY <1>3, PixelParts
<1>5. c \in PixelValues
  <2>1. at[1] > 0 => left \in Pixels BY PictureAssumption DEF Pixels
  <2>2. at[2] > 0 => above \in Pixels BY PictureAssumption DEF Pixels
  <2> HIDE DEF s, Near, left, above
  <2> QED BY <1>2, <1>3, <2>1, <2>2 DEF Picture
<1>6. Near(c)
  <2>1. Close(s, s, loss) BY <1>4 DEF Close
  <2>2. Near(s) BY <2>1, <1>4
  <2> HIDE DEF s, Near
  <2> QED BY <2>2
<1> HIDE DEF c
<1>7. ColourOf(c) \in 0..Colours - 1 BY <1>5, PixelParts
<1>8. px \in PixelValues /\ AlphaOf(px) = AlphaOf(s) /\ ColourOf(px) = ColourOf(c)
  <2>1. AlphaOf(s) % Alphas = AlphaOf(s) /\ ColourOf(c) % Colours = ColourOf(c)
    BY <1>4, <1>7, PixelAssumption, SmallMod
  <2> QED BY <2>1, <1>4, <1>7, PixelOfParts
<1>9. Coded(px, alpha) = px
  <2>1. CASE alpha BY <2>1 DEF Coded
  <2>2. CASE ~alpha
    <3>1. AlphaOf(px) = Alphas - 1 BY <2>2, <1>2, <1>8, CodedPixel
    <3>2. /\ Coded(px, alpha) \in PixelValues /\ ColourOf(Coded(px, alpha)) = ColourOf(px)
          /\ AlphaOf(Coded(px, alpha)) = Alphas - 1
      BY <2>2, <1>8, CodedPixel
    <3> HIDE DEF px
    <3>3. Pixel(AlphaOf(px), ColourOf(px)) = px BY <1>8, PixelParts
    <3>4. Pixel(AlphaOf(Coded(px, alpha)), ColourOf(Coded(px, alpha))) = Coded(px, alpha)
      BY <3>2, PixelParts
    <3> QED BY <3>1, <3>2, <3>3, <3>4
  <2> QED BY <2>1, <2>2
<1> QED BY <1>1, <1>6, <1>8, <1>9

\* A frame goes through the pixels, and none is changed twice for the worse:
\* all of them are near enough at the end.
NearEnough(o, pic, alpha, loss) ==
    /\ o \in Picture
    /\ \A p \in Pixels : Close(Coded(pic[p], alpha), o[p], loss) /\ Coded(o[p], alpha) = o[p]

LEMMA LossyFrameIsClose ==
    ASSUME NEW pic \in Picture, NEW last \in Picture, NEW first,
           NEW alpha \in BOOLEAN, NEW loss \in Nat
    PROVE  NearEnough(LossyFrame(pic, last, first, alpha, loss), pic, alpha, loss)
<1> DEFINE n == PicW * PicH
           Px(o, at) == LossyPixel(pic, last, first, alpha, loss, o, at)
           One(o, at) == [o EXCEPT ![at] = Px(o, at)]
           g == [i \in 1..n |-> [o \in Picture |-> One(o, Point(i))]]
           all == [i \in 1..n |-> Point(i)]
           Body(h) == [s \in SUBSET (1..n) |->
                          IF s = {} THEN pic ELSE One(h[s \ {Max(s)}], all[Max(s)])]
           it == CHOOSE h : h = Body(h)
<1>1. n \in Nat BY PictureAssumption
<1>2. ASSUME NEW o \in Picture, NEW at \in Pixels
      PROVE  /\ Px(o, at) \in PixelValues /\ Close(Coded(pic[at], alpha), Px(o, at), loss)
             /\ Coded(Px(o, at), alpha) = Px(o, at)
             /\ One(o, at) \in Picture
  <2>1. /\ Px(o, at) \in PixelValues /\ Close(Coded(pic[at], alpha), Px(o, at), loss)
        /\ Coded(Px(o, at), alpha) = Px(o, at)
    BY LossyPixelIsClose
  <2> HIDE DEF Px
  <2> QED BY <2>1 DEF Picture
<1>3. \A i \in 1..n : Point(i) \in Pixels BY PointsArePixels DEF Points
<1> HIDE DEF n
<1>4. g \in [1..n -> [Picture -> Picture]]
  <2> HIDE DEF One
  <2> QED BY <1>2, <1>3
<1>5. PICK h : Iterates(h, n, Picture, pic, g)
  <2> HIDE DEF g
  <2> QED BY <1>1, <1>4, IterationExists
<1>6. h = Body(h)
  <2>1. ASSUME NEW s \in SUBSET (1..n), s # {}
        PROVE  h[s] = One(h[s \ {Max(s)}], all[Max(s)])
    <3>1. Max(s) \in 1..n /\ h[s] = g[Max(s)][h[s \ {Max(s)}]] BY <1>5, <2>1 DEF Iterates
    <3>2. h[s \ {Max(s)}] \in Picture BY <1>5 DEF Iterates
    <3> HIDE DEF One
    <3> QED BY <3>1, <3>2
  <2> HIDE DEF g, One, all
  <2> QED BY <1>5, <2>1 DEF Iterates
<1>7. it = Body(it)
  <2> HIDE DEF Body
  <2> QED BY <1>6
<1>8. LossyFrame(pic, last, first, alpha, loss) = it[1..n]
  <2>1. DOMAIN all = 1..n OBVIOUS
  <2> QED BY <2>1 DEF LossyFrame, FoldLeft, MapThenFoldSet, LossyPixel, Point, n
<1> HIDE DEF it
<1>9. PICK F : Chain(F, n, Picture, pic, g) /\ it[1..n] = F[n]
  <2>1. it[{}] = pic BY <1>7
  <2>2. ASSUME NEW s \in SUBSET (1..n), s # {}, Max(s) \in s, it[s \ {Max(s)}] \in Picture
        PROVE  it[s] = g[Max(s)][it[s \ {Max(s)}]]
    <3>1. it[s] = One(it[s \ {Max(s)}], all[Max(s)]) BY <1>7, <2>2
    <3> HIDE DEF One
    <3> QED BY <2>2, <3>1
  <2> HIDE DEF g
  <2>3. Follows(it, n, Picture, pic, g) BY <2>1, <2>2 DEF Follows
  <2> QED BY <1>1, <1>4, <2>3, IterationIsChain
<1> DEFINE Fine(o, p) == Close(Coded(pic[p], alpha), o[p], loss) /\ Coded(o[p], alpha) = o[p]
           T == {k \in Nat : k <= n => \A i \in 1..k : Fine(F[k], Point(i))}
<1>10. 0 \in T OBVIOUS
<1>11. ASSUME NEW k \in Nat, k \in T PROVE k + 1 \in T
  <2> SUFFICES ASSUME k + 1 <= n, NEW i \in 1..k + 1 PROVE Fine(F[k + 1], Point(i)) OBVIOUS
  <2> DEFINE at == Point(k + 1)
  <2>1. F[k] \in Picture /\ at \in Pixels BY <1>1, <1>3, <1>9 DEF Chain
  <2>2. F[k + 1] = One(F[k], at)
    <3>1. k + 1 \in 1..n /\ k + 1 - 1 = k BY <1>1
    <3>2. F[k + 1] = g[k + 1][F[k]]
      <4> HIDE DEF g
      <4> QED BY <1>9, <3>1 DEF Chain
    <3> HIDE DEF One
    <3> QED BY <2>1, <3>1, <3>2
  <2>3. Fine(F[k + 1], at)
    <3>1. F[k + 1][at] = Px(F[k], at)
      <4> HIDE DEF Px
      <4> QED BY <2>1, <2>2 DEF Picture
    <3> QED BY <2>1, <3>1, <1>2
  <2>4. ASSUME i \in 1..k, Point(i) # at PROVE Fine(F[k + 1], Point(i))
    <3>1. F[k + 1][Point(i)] = F[k][Point(i)]
      <4>1. Point(i) \in Pixels BY <1>1, <1>3
      <4> HIDE DEF Px, at
      <4> QED BY <2>1, <2>2, <2>4, <4>1 DEF Picture
    <3>2. Fine(F[k], Point(i))
      <4> HIDE DEF Fine
      <4> QED BY <1>1, <1>11, <2>4
    <3> QED BY <3>1, <3>2
  <2> HIDE DEF Fine
  <2> QED BY <2>3, <2>4
<1> HIDE DEF T
<1>12. n \in T BY <1>1, <1>10, <1>11, Induction
<1>13. \A p \in Pixels : Fine(F[n], p)
  <2> HIDE DEF Fine
  <2> QED BY <1>1, <1>12, PixelsArePoints DEF T, Points, n
<1>14. F[n] \in Picture BY <1>1, <1>9 DEF Chain
<1> QED BY <1>8, <1>9, <1>13, <1>14 DEF NearEnough

-----------------------------------------------------------------------------
(* The writer, and that frames do not drift *)

WriterFields == {"phase", "set", "at", "index", "prev", "mc", "qp", "done"}

Writing == /\ v.phase \in {"open", "deciding", "failed"}
           /\ v = [f \in WriterFields |-> v[f]]
           /\ v.set \in Settings
           /\ v.phase = "deciding" => v.set.codec = "motion"
WriterInv == \/ v = [phase |-> "off"] /\ source = <<>> /\ stored = <<>>
             \/ Writing
             \/ v = [phase |-> "done", set |-> v.set] /\ v.set \in Settings

TilesVideo == v.phase # "off" /\ v.set.codec = "tiles"

\* The frames that were given, and what they became.
DriftInv ==
    IF TilesVideo
    THEN /\ source \in Seq(Picture) /\ stored \in Seq(Picture) /\ Len(source) = Len(stored)
         /\ v.phase # "done" => v.prev \in Picture
         /\ NoDrift
    ELSE source = <<>>

LEMMA BlackIsPicture == Black \in Picture
BY PixelAssumption DEF Black, Picture, PixelValues

\* What a frame of the tiles codec is taken to be is near enough.
FrameFor(s, pic, last, first) ==
    IF s.loss = 0 THEN pic ELSE LossyFrame(pic, last, first, s.alpha, s.loss)
Shown(px, alpha) == [p \in Pixels |-> Coded(px[p], alpha)]
IsFrameFor(px, pic, s) ==
    /\ px \in Picture /\ Shown(px, s.alpha) \in Picture
    /\ \A p \in Pixels : Close(Coded(pic[p], s.alpha), Coded(px[p], s.alpha), s.loss)

LEMMA TilesFrameIsClose ==
    ASSUME NEW pic \in Picture, NEW last \in Picture, NEW first, NEW s \in Settings,
           s.codec = "tiles"
    PROVE  IsFrameFor(FrameFor(s, pic, last, first), pic, s)
<1> DEFINE px == FrameFor(s, pic, last, first)
<1>1. s.alpha \in BOOLEAN /\ s.loss \in Nat BY SettingsAssumption
<1>2. px \in Picture /\ \A p \in Pixels : Close(Coded(pic[p], s.alpha), Coded(px[p], s.alpha), s.loss)
  <2>1. CASE s.loss = 0
    <3>1. px = pic BY <2>1 DEF FrameFor
    <3>2. ASSUME NEW p \in Pixels
          PROVE  Close(Coded(pic[p], s.alpha), Coded(px[p], s.alpha), s.loss)
      <4> DEFINE c == Coded(pic[p], s.alpha)
      <4>1. c \in PixelValues BY <1>1, CodedPixel DEF Picture
      <4> HIDE DEF c
      <4>2. ColourOf(c) \in 0..Colours - 1 BY <4>1, PixelParts
      <4>3. Close(c, c, s.loss) BY <4>2, <1>1, PixelAssumption DEF Close
      <4> QED BY <4>3, <3>1 DEF c
    <3> QED BY <3>1, <3>2
  <2>2. CASE s.loss # 0
    <3>1. px = LossyFrame(pic, last, first, s.alpha, s.loss) BY <2>2 DEF FrameFor
    <3>2. NearEnough(LossyFrame(pic, last, first, s.alpha, s.loss), pic, s.alpha, s.loss)
      BY <1>1, LossyFrameIsClose
    <3> QED BY <3>1, <3>2 DEF NearEnough
  <2> QED BY <2>1, <2>2
<1> HIDE DEF px
<1>3. ASSUME NEW p \in Pixels PROVE Coded(px[p], s.alpha) \in PixelValues
  <2>1. px[p] \in PixelValues BY <1>2 DEF Picture
  <2> QED BY <2>1, <1>1, CodedPixel
<1>4. Shown(px, s.alpha) \in Picture BY <1>3 DEF Picture, Shown
<1> QED BY <1>2, <1>4 DEF IsFrameFor, px

LEMMA WriterInvStep ==
    ASSUME WriterInv, [Next]_vars
    PROVE  /\ WriterInv'
           /\ v.phase # "off" => v'.phase # "off" /\ v'.set = v.set
<1> USE DEF WriterInv, Writing
<1>1. ASSUME NEW s \in Settings, WriterBegin(s) PROVE WriterInv' /\ v.phase = "off"
  BY <1>1 DEF WriterBegin, WriterFields
<1>2. ASSUME NEW pic \in Pictures, NEW wrote \in BOOLEAN, TilesFrame(pic, wrote)
      PROVE  WriterInv' /\ v'.phase # "off" /\ v'.set = v.set
  <2>1. v.phase = "open" /\ Writing BY <1>2 DEF TilesFrame
  <2>2. PICK px, data : AddEntry(IF wrote THEN [v EXCEPT !.prev = px] ELSE v, data, wrote)
    BY <1>2 DEF TilesFrame
  <2> QED BY <2>1, <2>2 DEF AddEntry, WriterFields
<1>3. ASSUME MotionBegin PROVE WriterInv' /\ v'.phase # "off" /\ v'.set = v.set
  <2>1. v.phase = "open" /\ v.set.codec = "motion" /\ Writing BY <1>3 DEF MotionBegin
  <2>2. PICK mc, qp, done : v' = [v EXCEPT !.phase = "deciding", !.mc = mc, !.qp = qp, !.done = done]
    BY <1>3 DEF MotionBegin
  <2>3. v'.phase = "deciding" /\ v'.set = v.set BY <2>1, <2>2 DEF WriterFields
  <2>4. v' = [f \in WriterFields |-> v'[f]] BY <2>1, <2>2 DEF WriterFields
  <2> QED BY <2>1, <2>3, <2>4
<1>4. ASSUME NEW row \in Rows, DecideMb(row)
      PROVE  WriterInv' /\ v'.phase # "off" /\ v'.set = v.set
  BY <1>4 DEF DecideMb, WriterFields
<1>5. ASSUME NEW wrote \in BOOLEAN, MotionWrite(wrote)
      PROVE  WriterInv' /\ v'.phase # "off" /\ v'.set = v.set
  <2>1. v.phase = "deciding" /\ Writing BY <1>5 DEF MotionWrite
  <2>2. PICK bits : (\E next : MotionFits(bits, next, wrote)) \/ MotionAgain(bits)
    BY <1>5 DEF MotionWrite
  <2>3. ASSUME NEW next, MotionFits(bits, next, wrote)
        PROVE  WriterInv' /\ v'.phase # "off" /\ v'.set = v.set
    BY <2>1, <2>3 DEF MotionFits, AddEntry, WriterFields
  <2>4. ASSUME MotionAgain(bits) PROVE WriterInv' /\ v'.phase # "off" /\ v'.set = v.set
    BY <2>1, <2>4 DEF MotionAgain, WriterFields
  <2> QED BY <2>2, <2>3, <2>4
<1>6. ASSUME NEW wrote \in BOOLEAN, Finish(wrote)
      PROVE  WriterInv' /\ v'.phase # "off" /\ v'.set = v.set
  BY <1>6 DEF Finish
<1>7. ASSUME v' = v, source' = source, stored' = stored
      PROVE  WriterInv' /\ (v.phase # "off" => v'.phase # "off" /\ v'.set = v.set)
  BY <1>7
<1> QED BY <1>1, <1>2, <1>3, <1>4, <1>5, <1>6, <1>7
        DEF Next, vars, Damage, Open, Decode, Image

LEMMA DriftInvStep ==
    ASSUME WriterInv, DriftInv, [Next]_vars
    PROVE  DriftInv'
<1> DEFINE Same == source' = source /\ stored' = stored /\ v'.set = v.set /\ v.phase # "off"
                   /\ v'.phase # "off" /\ (v'.phase # "done" => v.phase # "done" /\ v'.prev = v.prev)
<1>1. ASSUME NEW s \in Settings, WriterBegin(s) PROVE DriftInv'
  <2>1. source = <<>> /\ stored = <<>> BY <1>1 DEF WriterBegin, WriterInv, Writing
  <2>2. v'.phase = "open" /\ v'.set = s /\ v'.prev = Black /\ source' = <<>> /\ stored' = <<>>
    BY <1>1, <2>1 DEF WriterBegin
  <2>3. NoDrift' BY <2>2 DEF NoDrift
  <2>4. source' \in Seq(Picture) /\ stored' \in Seq(Picture) /\ Len(source') = Len(stored')
    BY <2>2
  <2> QED BY <2>2, <2>3, <2>4, BlackIsPicture DEF DriftInv, TilesVideo
<1>2. ASSUME NEW pic \in Pictures, NEW wrote \in BOOLEAN, TilesFrame(pic, wrote) PROVE DriftInv'
  <2> DEFINE s == v.set
             px == FrameFor(s, pic, v.prev, Number = 0)
             w == IF wrote THEN [v EXCEPT !.prev = px] ELSE v
             new == Shown(px, s.alpha)
  <2>1. /\ v.phase = "open" /\ Writing /\ s \in Settings /\ s.codec = "tiles"
        /\ source \in Seq(Picture) /\ stored \in Seq(Picture) /\ Len(source) = Len(stored)
        /\ v.prev \in Picture /\ NoDrift
    BY <1>2 DEF TilesFrame, WriterInv, Writing, DriftInv, TilesVideo
  <2>2. pic \in Picture BY PicturesAssumption
  <2>3. /\ px \in Picture /\ new \in Picture
        /\ \A p \in Pixels : Close(Coded(pic[p], s.alpha), Coded(px[p], s.alpha), s.loss)
    <3>1. IsFrameFor(px, pic, s) BY <2>1, <2>2, TilesFrameIsClose
    <3> QED BY <3>1 DEF IsFrameFor
  <2>4. PICK data : AddEntry(w, data, wrote) BY <1>2 DEF TilesFrame, FrameFor
  <2>5. /\ source' = IF wrote THEN Append(source, pic) ELSE source
        /\ stored' = IF wrote THEN Append(stored, new) ELSE stored
    BY <1>2 DEF TilesFrame, FrameFor, Shown
  <2> HIDE DEF px, new
  <2>6. v'.phase \in {"open", "failed"} /\ v'.set = s /\ v'.prev \in Picture
    BY <2>1, <2>3, <2>4 DEF AddEntry, Writing, WriterFields
  <2>7. source' \in Seq(Picture) /\ stored' \in Seq(Picture) /\ Len(source') = Len(stored')
    BY <2>1, <2>2, <2>3, <2>5
  <2>8. NoDrift'
    <3>1. CASE ~wrote BY <3>1, <2>1, <2>5, <2>6 DEF NoDrift
    <3>2. CASE wrote
      <4> SUFFICES ASSUME NEW k \in DOMAIN source', NEW p \in Pixels
                   PROVE  Close(Coded(source'[k][p], s.alpha), stored'[k][p], s.loss)
        BY <2>6 DEF NoDrift
      <4>1. k \in 1..Len(source) + 1 BY <2>1, <2>2, <2>5, <3>2
      <4>2. CASE k = Len(source) + 1
        <5>1. source'[k] = pic /\ stored'[k] = new BY <2>1, <2>2, <2>3, <2>5, <3>2, <4>2
        <5> QED BY <5>1, <2>3 DEF new, Shown
      <4>3. CASE k \in 1..Len(source)
        <5>1. source'[k] = source[k] /\ stored'[k] = stored[k] /\ k \in DOMAIN source
          BY <2>1, <2>2, <2>3, <2>5, <3>2, <4>3
        <5> QED BY <5>1, <2>1 DEF NoDrift
      <4> QED BY <2>1, <4>1, <4>2, <4>3
    <3> QED BY <3>1, <3>2
  <2> QED BY <2>1, <2>6, <2>7, <2>8 DEF DriftInv, TilesVideo
<1>3. ASSUME Same PROVE DriftInv'
  <2>1. NoDrift' <=> NoDrift BY <1>3 DEF NoDrift
  <2>2. TilesVideo' <=> TilesVideo BY <1>3 DEF TilesVideo
  <2> QED BY <1>3, <2>1, <2>2 DEF DriftInv
<1>4. ASSUME v.phase # "off", v.set.codec = "motion", source' = source PROVE DriftInv'
  <2>1. v'.set = v.set /\ v'.phase # "off" BY <1>4, WriterInvStep
  <2> QED BY <1>4, <2>1 DEF DriftInv, TilesVideo
<1>5. ASSUME MotionBegin PROVE DriftInv' BY <1>4, <1>5 DEF MotionBegin
<1>6. ASSUME NEW row \in Rows, DecideMb(row) PROVE DriftInv'
  BY <1>4, <1>6 DEF DecideMb, WriterInv, Writing
<1>7. ASSUME NEW wrote \in BOOLEAN, MotionWrite(wrote) PROVE DriftInv'
  BY <1>4, <1>7 DEF MotionWrite, WriterInv, Writing
<1>8. ASSUME NEW wrote \in BOOLEAN, Finish(wrote) PROVE DriftInv'
  <2>1. v.phase # "off" /\ v'.phase = "done" /\ v'.set = v.set BY <1>8 DEF Finish
  <2> QED BY <1>3, <1>8, <2>1 DEF Finish
<1>9. ASSUME v' = v, source' = source, stored' = stored PROVE DriftInv'
  BY <1>9 DEF DriftInv, NoDrift, TilesVideo
<1> QED BY <1>1, <1>2, <1>5, <1>6, <1>7, <1>8, <1>9
        DEF Next, vars, Damage, Open, Decode, Image

\* However many frames are coded against each other, a pixel that is stored
\* is within `loss` of the one that was given (mvid_lossy_frame,
\* mvid_writer_frame), for every size, picture and setting.
THEOREM FramesDoNotDrift == Spec => []NoDrift
<1>1. Init => WriterInv /\ DriftInv BY DEF Init, WriterInv, DriftInv, TilesVideo
<1>2. WriterInv /\ DriftInv /\ [Next]_vars => (WriterInv /\ DriftInv)'
  BY WriterInvStep, DriftInvStep
<1>3. WriterInv /\ DriftInv => NoDrift BY DEF DriftInv, NoDrift
<1> QED BY <1>1, <1>2, <1>3, PTL DEF Spec

-----------------------------------------------------------------------------
(* One value of a tile, written and read *)

Operations == ({"index"} \X (0..HashSize - 1)) \cup ({"rgba"} \X PixelValues)
              \cup ({"diff", "luma", "rgb", "run"} \X Int)
Indexes == [0..HashSize - 1 -> PixelValues]
CodeStates == [index : Indexes, prev : PixelValues, run : Nat, ops : Seq(Operations)]
DrawStates == [index : Indexes, prev : PixelValues, run : Int, ops : Seq(Operations),
               ok : BOOLEAN, pic : Picture]

LEMMA SubAdd ==
    ASSUME NEW a \in PixelValues, NEW b \in PixelValues
    PROVE  Sub(a, b) \in PixelValues /\ Add(Sub(a, b), b) = a
<1>1. /\ ColourOf(a) \in 0..Colours - 1 /\ AlphaOf(a) \in 0..Alphas - 1
      /\ ColourOf(b) \in 0..Colours - 1 /\ AlphaOf(b) \in 0..Alphas - 1
      /\ Pixel(AlphaOf(a), ColourOf(a)) = a
  BY PixelParts
<1> DEFINE da == AlphaOf(a) - AlphaOf(b)
           dc == ColourOf(a) - ColourOf(b)
<1>2. da \in Int /\ dc \in Int BY <1>1, PixelAssumption
<1>3. /\ Pixel(da, dc) \in PixelValues
      /\ AlphaOf(Pixel(da, dc)) = da % Alphas /\ ColourOf(Pixel(da, dc)) = dc % Colours
  <2> HIDE DEF da, dc
  <2> QED BY <1>2, PixelOfParts
<1>4. (AlphaOf(b) + (da % Alphas)) % Alphas = (AlphaOf(b) + da) % Alphas
  <2> DEFINE ab == AlphaOf(b)
  <2>1. ab \in Int /\ Alphas \in Nat \ {0} BY <1>1, PixelAssumption
  <2> HIDE DEF da, ab
  <2>2. (ab + (da % Alphas)) % Alphas = (ab + da) % Alphas BY <2>1, <1>2, ModAdd
  <2> QED BY <2>2 DEF ab
<1>5. (ColourOf(b) + (dc % Colours)) % Colours = (ColourOf(b) + dc) % Colours
  <2> DEFINE cb == ColourOf(b)
  <2>1. cb \in Int /\ Colours \in Nat \ {0} BY <1>1, PixelAssumption
  <2> HIDE DEF dc, cb
  <2>2. (cb + (dc % Colours)) % Colours = (cb + dc) % Colours BY <2>1, <1>2, ModAdd
  <2> QED BY <2>2 DEF cb
<1>6. AlphaOf(b) + da = AlphaOf(a) /\ ColourOf(b) + dc = ColourOf(a) BY <1>1, PixelAssumption
<1>7. da % Alphas \in Int /\ dc % Colours \in Int BY <1>2, PixelAssumption, DivMod
<1>8. Sub(a, b) = Pixel(da, dc) BY DEF Sub
<1> HIDE DEF da, dc
<1>9. /\ (da % Alphas) + AlphaOf(b) = AlphaOf(b) + (da % Alphas)
      /\ (dc % Colours) + ColourOf(b) = ColourOf(b) + (dc % Colours)
  BY <1>1, <1>7, PixelAssumption
<1>10. /\ ((da % Alphas) + AlphaOf(b)) % Alphas = AlphaOf(a) % Alphas
       /\ ((dc % Colours) + ColourOf(b)) % Colours = ColourOf(a) % Colours
  BY <1>4, <1>5, <1>6, <1>9
<1>11. Add(Sub(a, b), b) = Pixel(AlphaOf(a), ColourOf(a))
  BY <1>3, <1>8, <1>10 DEF Add, Pixel
<1> QED BY <1>1, <1>3, <1>8, <1>11

LEMMA HashInRange == \A px \in PixelValues : Hash(px) \in 0..HashSize - 1
<1> SUFFICES ASSUME NEW px \in PixelValues PROVE Hash(px) \in 0..HashSize - 1 OBVIOUS
<1>1. ColourOf(px) \in Int /\ AlphaOf(px) \in Int BY PixelParts, PixelAssumption
<1>2. ColourOf(px) * 3 + AlphaOf(px) * 11 \in Int BY <1>1
<1> QED BY <1>2, CodeAssumption, DivMod DEF Hash

\* A signed difference of colours is the difference, modulo their number.
LEMMA SignedIsDifference ==
    ASSUME NEW a \in 0..Colours - 1, NEW b \in 0..Colours - 1
    PROVE  Signed(a - b) \in Int /\ (b + Signed(a - b)) % Colours = a
<1> DEFINE m == (a - b) % Colours
<1>1. a \in Int /\ b \in Int /\ a - b \in Int BY PixelAssumption
<1>2. m \in 0..Colours - 1 BY <1>1, PixelAssumption, DivMod
<1>3. (b + m) % Colours = a
  <2>1. (b + ((a - b) % Colours)) % Colours = (b + (a - b)) % Colours
    BY <1>1, PixelAssumption, ModAdd
  <2>2. b + (a - b) = a BY <1>1
  <2>3. a % Colours = a BY PixelAssumption, SmallMod
  <2> QED BY <2>1, <2>2, <2>3
<1>4. (b + (m - Colours)) % Colours = a
  <2>1. (b + m - Colours) % Colours \in 0..Colours - 1
        /\ b + m - Colours = Colours * ((b + m - Colours) \div Colours) + ((b + m - Colours) % Colours)
        /\ (b + m - Colours) \div Colours \in Int
    <3> DEFINE e == b + m - Colours
    <3>1. e \in Int BY <1>1, <1>2, PixelAssumption
    <3> HIDE DEF e
    <3>2. e \div Colours \in Int /\ e % Colours \in 0..Colours - 1 /\ e = Colours * (e \div Colours) + (e % Colours)
      BY <3>1, PixelAssumption, DivMod
    <3> QED BY <3>2 DEF e
  <2> DEFINE q == (b + m - Colours) \div Colours
             w == (b + m - Colours) % Colours
  <2>2. w \in 0..Colours - 1 /\ q \in Int /\ b + m - Colours = Colours * q + w BY <2>1
  <2> HIDE DEF q, w, m
  <2>3. b + m = Colours * (q + 1) + w
    <3>1. Colours * (q + 1) = Colours * q + Colours BY <2>2, PixelAssumption
    <3>2. Colours * q \in Int /\ m \in Int /\ w \in Int /\ Colours \in Int
      BY <2>2, <1>2, PixelAssumption
    <3> QED BY <3>1, <3>2, <2>2, <1>1
  <2>4. (Colours * (q + 1) + w) % Colours = w
    <3>1. q + 1 \in Int /\ w \in Int /\ 0 <= w /\ w < Colours BY <2>2, PixelAssumption
    <3> QED BY <3>1, PixelAssumption, DivModUnique
  <2>5. w = a BY <2>3, <2>4, <1>3
  <2>6. b + (m - Colours) = b + m - Colours BY <1>1, <1>2, PixelAssumption
  <2> QED BY <2>5, <2>6 DEF w
<1>5. Signed(a - b) = m \/ Signed(a - b) = m - Colours BY DEF Signed
<1> HIDE DEF m
<1> QED BY <1>2, <1>3, <1>4, <1>5, PixelAssumption

\* What is written for a value that is not the last one again.
OperationFor(s, px) ==
    LET h == Hash(px)
        d == Signed(ColourOf(px) - ColourOf(s.prev))
    IN IF s.index[h] = px THEN <<"index", h>>
       ELSE IF AlphaOf(px) # AlphaOf(s.prev) THEN <<"rgba", px>>
       ELSE IF d \in SmallDiff THEN <<"diff", d>>
       ELSE IF d \in LumaDiff THEN <<"luma", d>>
       ELSE <<"rgb", ColourOf(px)>>
RunWritten(s) == IF s.run = 0 THEN s.ops ELSE Append(s.ops, <<"run", s.run>>)

LEMMA OperationIsTyped ==
    ASSUME NEW s \in CodeStates, NEW px \in PixelValues
    PROVE  OperationFor(s, px) \in Operations
<1> DEFINE d == Signed(ColourOf(px) - ColourOf(s.prev))
<1>1. s.prev \in PixelValues BY DEF CodeStates
<1>2. /\ ColourOf(px) \in 0..Colours - 1 /\ ColourOf(s.prev) \in 0..Colours - 1
  BY <1>1, PixelParts
<1>3. d \in Int BY <1>2, SignedIsDifference
<1>4. Hash(px) \in 0..HashSize - 1 BY HashInRange
<1>5. ColourOf(px) \in Int BY <1>2, PixelAssumption
<1> HIDE DEF d
<1> QED BY <1>3, <1>4, <1>5 DEF OperationFor, Operations, d

\* The three things that may become of a value.
LEMMA CodeValueCases ==
    ASSUME NEW s \in CodeStates, NEW px \in PixelValues
    PROVE  /\ px = s.prev /\ s.run + 1 # MaxRun =>
                CodeValue(s, px) = [index |-> s.index, prev |-> s.prev, run |-> s.run + 1, ops |-> s.ops]
           /\ px = s.prev /\ s.run + 1 = MaxRun =>
                CodeValue(s, px) = [index |-> s.index, prev |-> s.prev, run |-> 0,
                                    ops |-> Append(s.ops, <<"run", s.run + 1>>)]
           /\ px # s.prev =>
                CodeValue(s, px) = [index |-> [s.index EXCEPT ![Hash(px)] = px], prev |-> px, run |-> 0,
                                    ops |-> Append(RunWritten(s), OperationFor(s, px))]
<1>1. s = [index |-> s.index, prev |-> s.prev, run |-> s.run, ops |-> s.ops] /\ s.run \in Nat
  BY DEF CodeStates
<1>2. CASE px = s.prev
  <2> DEFINE again == [s EXCEPT !.run = @ + 1]
  <2>1. again = [index |-> s.index, prev |-> s.prev, run |-> s.run + 1, ops |-> s.ops] BY <1>1
  <2>2. CodeValue(s, px) = IF again.run = MaxRun THEN RunOut(again) ELSE again
    BY <1>2 DEF CodeValue
  <2> HIDE DEF again
  <2>3. again.run # 0 BY <1>1, <2>1
  <2>4. RunOut(again) = [again EXCEPT !.ops = Append(@, <<"run", again.run>>), !.run = 0]
    BY <2>3 DEF RunOut
  <2>5. RunOut(again) = [index |-> s.index, prev |-> s.prev, run |-> 0,
                         ops |-> Append(s.ops, <<"run", s.run + 1>>)]
    BY <2>1, <2>4
  <2> QED BY <1>2, <2>1, <2>2, <2>5
<1>3. CASE px # s.prev
  <2> DEFINE t == RunOut(s)
  <2>1. t = [index |-> s.index, prev |-> s.prev, run |-> 0, ops |-> RunWritten(s)]
    BY <1>1 DEF RunOut, RunWritten
  <2>2. CodeValue(s, px) = [t EXCEPT !.ops = Append(@, OperationFor(s, px)),
                                     !.index[Hash(px)] = px, !.prev = px]
    BY <1>3 DEF CodeValue, OperationFor
  <2> HIDE DEF t
  <2> QED BY <1>3, <2>1, <2>2
<1> QED BY <1>2, <1>3

LEMMA CodeValueType ==
    ASSUME NEW s \in CodeStates, NEW px \in PixelValues
    PROVE  CodeValue(s, px) \in CodeStates
<1>1. s.index \in Indexes /\ s.prev \in PixelValues /\ s.run \in Nat /\ s.ops \in Seq(Operations)
  BY DEF CodeStates
<1>2. ASSUME NEW k \in Nat PROVE Append(s.ops, <<"run", k>>) \in Seq(Operations)
  <2> DEFINE op == <<"run", k>>
  <2>1. op \in Operations BY DEF Operations
  <2> HIDE DEF op
  <2>2. Append(s.ops, op) \in Seq(Operations) BY <1>1, <2>1
  <2> QED BY <2>2 DEF op
<1>3. RunWritten(s) \in Seq(Operations) BY <1>1, <1>2 DEF RunWritten
<1>4. Append(RunWritten(s), OperationFor(s, px)) \in Seq(Operations)
  BY <1>3, OperationIsTyped
<1>5. [s.index EXCEPT ![Hash(px)] = px] \in Indexes BY <1>1 DEF Indexes
<1>6. s.run + 1 \in Nat BY <1>1
<1> DEFINE State(i, p, n, o) == [index |-> i, prev |-> p, run |-> n, ops |-> o]
<1>7. ASSUME NEW i \in Indexes, NEW p \in PixelValues, NEW n \in Nat, NEW o \in Seq(Operations)
      PROVE  State(i, p, n, o) \in CodeStates
  BY DEF CodeStates
<1>8. CASE px = s.prev /\ s.run + 1 # MaxRun
  <2>1. CodeValue(s, px) = State(s.index, s.prev, s.run + 1, s.ops) BY <1>8, CodeValueCases
  <2> HIDE DEF State
  <2> QED BY <1>1, <1>6, <1>7, <2>1
<1>9. CASE px = s.prev /\ s.run + 1 = MaxRun
  <2> DEFINE o == Append(s.ops, <<"run", s.run + 1>>)
  <2>1. CodeValue(s, px) = State(s.index, s.prev, 0, o) BY <1>9, CodeValueCases
  <2>2. o \in Seq(Operations) BY <1>2, <1>6
  <2> HIDE DEF State, o
  <2> QED BY <1>1, <1>7, <2>1, <2>2
<1>10. CASE px # s.prev
  <2> DEFINE o == Append(RunWritten(s), OperationFor(s, px))
             i == [s.index EXCEPT ![Hash(px)] = px]
  <2>1. CodeValue(s, px) = State(i, px, 0, o) BY <1>10, CodeValueCases
  <2> HIDE DEF State, o, i
  <2> QED BY <1>4, <1>5, <1>7, <2>1 DEF o, i
<1> QED BY <1>8, <1>9, <1>10

\* The operations ops go on as those of e, up to the run that is open there.
Ahead(e, ops) ==
    /\ Len(e.ops) <= Len(ops) /\ \A i \in 1..Len(e.ops) : ops[i] = e.ops[i]
    /\ e.run > 0 => /\ Len(e.ops) < Len(ops)
                    /\ \E k \in Int : k >= e.run /\ ops[Len(e.ops) + 1] = <<"run", k>>

LEMMA AheadOfAppended ==
    ASSUME NEW ops \in Seq(Operations), NEW a \in Seq(Operations), NEW op,
           Len(Append(a, op)) <= Len(ops),
           \A i \in 1..Len(Append(a, op)) : ops[i] = Append(a, op)[i]
    PROVE  /\ Len(a) < Len(ops) /\ ops[Len(a) + 1] = op
           /\ \A i \in 1..Len(a) : ops[i] = a[i]
<1>1. Len(Append(a, op)) = Len(a) + 1 /\ Append(a, op)[Len(a) + 1] = op
      /\ \A i \in 1..Len(a) : Append(a, op)[i] = a[i]
  OBVIOUS
<1>2. Len(a) \in Nat /\ Len(ops) \in Nat OBVIOUS
<1> QED BY <1>1, <1>2

LEMMA AheadOfEarlier ==
    ASSUME NEW s \in CodeStates, NEW px \in PixelValues, NEW ops \in Seq(Operations),
           Ahead(CodeValue(s, px), ops)
    PROVE  Ahead(s, ops)
<1>1. s.run \in Nat /\ s.ops \in Seq(Operations) BY DEF CodeStates
<1>2. ASSUME NEW k \in Nat, k >= s.run,
             Len(Append(s.ops, <<"run", k>>)) <= Len(ops),
             \A i \in 1..Len(Append(s.ops, <<"run", k>>)) : ops[i] = Append(s.ops, <<"run", k>>)[i]
      PROVE  Ahead(s, ops)
  <2>1. /\ Len(s.ops) < Len(ops) /\ ops[Len(s.ops) + 1] = <<"run", k>>
        /\ \A i \in 1..Len(s.ops) : ops[i] = s.ops[i]
    BY <1>1, <1>2, AheadOfAppended
  <2>2. Len(s.ops) <= Len(ops) BY <1>1, <2>1
  <2> QED BY <1>2, <2>1, <2>2 DEF Ahead
<1>3. CASE px = s.prev /\ s.run + 1 # MaxRun
  <2>1. CodeValue(s, px).run = s.run + 1 /\ CodeValue(s, px).ops = s.ops BY <1>3, CodeValueCases
  <2>2. /\ Len(s.ops) <= Len(ops) /\ \A i \in 1..Len(s.ops) : ops[i] = s.ops[i]
        /\ Len(s.ops) < Len(ops)
        /\ \E k \in Int : k >= s.run + 1 /\ ops[Len(s.ops) + 1] = <<"run", k>>
    BY <2>1, <1>1 DEF Ahead
  <2> QED BY <2>2, <1>1 DEF Ahead
<1>4. CASE px = s.prev /\ s.run + 1 = MaxRun
  <2>1. CodeValue(s, px).ops = Append(s.ops, <<"run", s.run + 1>>) BY <1>4, CodeValueCases
  <2>2. s.run + 1 \in Nat /\ s.run + 1 >= s.run BY <1>1
  <2> QED BY <2>1, <2>2, <1>2 DEF Ahead
<1>5. CASE px # s.prev
  <2>1. CodeValue(s, px).ops = Append(RunWritten(s), OperationFor(s, px)) BY <1>5, CodeValueCases
  <2>2. RunWritten(s) \in Seq(Operations)
    <3>1. <<"run", s.run>> \in Operations BY <1>1 DEF Operations
    <3> HIDE DEF Operations
    <3> QED BY <1>1, <3>1 DEF RunWritten
  <2>3. Len(RunWritten(s)) < Len(ops) /\ \A i \in 1..Len(RunWritten(s)) : ops[i] = RunWritten(s)[i]
    BY <2>1, <2>2, AheadOfAppended DEF Ahead
  <2>4. CASE s.run = 0
    <3>1. RunWritten(s) = s.ops BY <2>4 DEF RunWritten
    <3>2. Len(s.ops) <= Len(ops) BY <1>1, <2>3, <3>1
    <3> QED BY <2>3, <2>4, <3>1, <3>2 DEF Ahead
  <2>5. CASE s.run # 0
    <3>1. RunWritten(s) = Append(s.ops, <<"run", s.run>>) BY <2>5 DEF RunWritten
    <3>2. Len(RunWritten(s)) <= Len(ops) BY <2>2, <2>3
    <3> QED BY <1>1, <1>2, <2>3, <3>1, <3>2
  <2> QED BY <2>4, <2>5
<1> QED BY <1>3, <1>4, <1>5

Drawing(i, p, n, o, ok, pic) ==
    [index |-> i, prev |-> p, run |-> n, ops |-> o, ok |-> ok, pic |-> pic]

LEMMA DrawingType ==
    /\ \A d \in DrawStates : /\ d.index \in Indexes /\ d.prev \in PixelValues /\ d.run \in Int
                             /\ d.ops \in Seq(Operations) /\ d.ok \in BOOLEAN /\ d.pic \in Picture
                             /\ d = Drawing(d.index, d.prev, d.run, d.ops, d.ok, d.pic)
    /\ \A i \in Indexes, p \in PixelValues, n \in Int, o \in Seq(Operations), ok \in BOOLEAN,
          pic \in Picture : Drawing(i, p, n, o, ok, pic) \in DrawStates
BY DEF DrawStates, Drawing

\* The pixel that an operation stands for.
PixelOf(d, op) ==
    CASE op[1] = "index" -> d.index[op[2]]
      [] op[1] = "rgba" -> op[2]
      [] op[1] = "rgb" -> Pixel(AlphaOf(d.prev), op[2])
      [] op[1] \in {"diff", "luma"} -> Pixel(AlphaOf(d.prev), ColourOf(d.prev) + op[2])
      [] OTHER -> d.prev

LEMMA PixelOfIsPixel ==
    ASSUME NEW d, d.index \in Indexes, d.prev \in PixelValues, NEW op \in Operations
    PROVE  PixelOf(d, op) \in PixelValues
<1>1. AlphaOf(d.prev) \in Int /\ ColourOf(d.prev) \in Int BY PixelParts, PixelAssumption
<1>2. CASE op \in {"index"} \X (0..HashSize - 1) BY <1>2 DEF PixelOf, Indexes
<1>3. CASE op \in {"rgba"} \X PixelValues BY <1>3 DEF PixelOf
<1>4. CASE op \in {"diff", "luma", "rgb", "run"} \X Int
  <2>1. \A c \in Int : Pixel(AlphaOf(d.prev), c) \in PixelValues BY <1>1, PixelOfParts
  <2>2. op[2] \in Int /\ ColourOf(d.prev) + op[2] \in Int /\ op[1] \in {"diff", "luma", "rgb", "run"}
    BY <1>1, <1>4
  <2> QED BY <2>1, <2>2 DEF PixelOf
<1> QED BY <1>2, <1>3, <1>4 DEF Operations

\* What becomes of a reader, by the operation that is next.
LEMMA NextValueCases ==
    ASSUME NEW d \in DrawStates
    PROVE  /\ d.run > 0 =>
                NextValue(d) = Drawing(d.index, d.prev, d.run - 1, d.ops, d.ok, d.pic)
           /\ ~(d.run > 0) /\ d.ops = <<>> =>
                NextValue(d) = Drawing(d.index, d.prev, d.run, d.ops, FALSE, d.pic)
           /\ ~(d.run > 0) /\ d.ops # <<>> /\ Head(d.ops)[1] = "run" =>
                NextValue(d) = Drawing(d.index, d.prev, Head(d.ops)[2] - 1, Tail(d.ops), d.ok, d.pic)
           /\ ~(d.run > 0) /\ d.ops # <<>> /\ Head(d.ops)[1] = "index" =>
                NextValue(d) = Drawing(d.index, PixelOf(d, Head(d.ops)), d.run, Tail(d.ops), d.ok, d.pic)
           /\ ~(d.run > 0) /\ d.ops # <<>> /\ Head(d.ops)[1] \notin {"run", "index"} =>
                NextValue(d) = Drawing([d.index EXCEPT ![Hash(PixelOf(d, Head(d.ops)))] =
                                            PixelOf(d, Head(d.ops))],
                                       PixelOf(d, Head(d.ops)), d.run, Tail(d.ops), d.ok, d.pic)
<1> DEFINE op == Head(d.ops)
           px == PixelOf(d, op)
           rest == [d EXCEPT !.ops = Tail(@), !.prev = px]
<1>1. d = Drawing(d.index, d.prev, d.run, d.ops, d.ok, d.pic) BY DrawingType
<1>2. NextValue(d) = IF d.run > 0 THEN [d EXCEPT !.run = @ - 1]
                     ELSE IF d.ops = <<>> THEN [d EXCEPT !.ok = FALSE]
                     ELSE IF op[1] = "run" THEN [rest EXCEPT !.run = op[2] - 1]
                     ELSE IF op[1] = "index" THEN rest
                     ELSE [rest EXCEPT !.index[Hash(px)] = px]
  BY DEF NextValue, PixelOf
<1>3. op[1] = "run" => px = d.prev BY DEF PixelOf
<1> HIDE DEF px, op
<1>4. rest = Drawing(d.index, px, d.run, Tail(d.ops), d.ok, d.pic)
  <2> DEFINE o == Tail(d.ops)
             once == [d EXCEPT !.ops = o]
  <2>1. rest = [once EXCEPT !.prev = px] OBVIOUS
  <2> HIDE DEF o
  <2>2. once = Drawing(d.index, d.prev, d.run, o, d.ok, d.pic) BY <1>1 DEF Drawing
  <2> HIDE DEF once
  <2>3. [once EXCEPT !.prev = px] = Drawing(d.index, px, d.run, o, d.ok, d.pic) BY <2>2 DEF Drawing
  <2> QED BY <2>1, <2>3 DEF o
<1> HIDE DEF rest
<1>5. CASE d.run > 0 BY <1>1, <1>2, <1>5 DEF Drawing
<1>6. CASE ~(d.run > 0) /\ d.ops = <<>> BY <1>1, <1>2, <1>6 DEF Drawing
<1>7. CASE ~(d.run > 0) /\ d.ops # <<>> /\ op[1] = "run"
  <2>1. NextValue(d) = [rest EXCEPT !.run = op[2] - 1] BY <1>2, <1>7
  <2>2. NextValue(d) = Drawing(d.index, d.prev, op[2] - 1, Tail(d.ops), d.ok, d.pic)
    BY <2>1, <1>3, <1>4, <1>7 DEF Drawing
  <2> QED BY <2>2, <1>7 DEF op
<1>8. CASE ~(d.run > 0) /\ d.ops # <<>> /\ op[1] = "index" BY <1>2, <1>4, <1>8 DEF op, px
<1>9. CASE ~(d.run > 0) /\ d.ops # <<>> /\ op[1] \notin {"run", "index"}
  <2>1. NextValue(d) = [rest EXCEPT !.index[Hash(px)] = px] BY <1>2, <1>9
  <2>2. NextValue(d) = Drawing([d.index EXCEPT ![Hash(px)] = px], px, d.run, Tail(d.ops), d.ok, d.pic)
    BY <2>1, <1>4 DEF Drawing
  <2> QED BY <2>2, <1>9 DEF op, px
<1> QED BY <1>5, <1>6, <1>7, <1>8, <1>9 DEF op

\* Reading goes on from whatever operations there are, and draws nothing.
LEMMA NextValueType ==
    ASSUME NEW d \in DrawStates
    PROVE  NextValue(d) \in DrawStates /\ NextValue(d).pic = d.pic
<1> DEFINE op == Head(d.ops)
           px == PixelOf(d, op)
<1>1. /\ d.index \in Indexes /\ d.prev \in PixelValues /\ d.run \in Int
      /\ d.ops \in Seq(Operations) /\ d.ok \in BOOLEAN /\ d.pic \in Picture
  BY DrawingType
<1>2. d.ops # <<>> => Tail(d.ops) \in Seq(Operations) /\ op \in Operations BY <1>1
<1>3. d.ops # <<>> => px \in PixelValues BY <1>1, <1>2, PixelOfIsPixel
<1>4. d.ops # <<>> => [d.index EXCEPT ![Hash(px)] = px] \in Indexes BY <1>1, <1>3 DEF Indexes
<1>5. d.ops # <<>> /\ op[1] = "run" => op[2] - 1 \in Int BY <1>2 DEF Operations
<1>6. d.run - 1 \in Int BY <1>1
<1>7. \A i \in Indexes, p \in PixelValues, n \in Int, o \in Seq(Operations), ok \in BOOLEAN :
          Drawing(i, p, n, o, ok, d.pic) \in DrawStates /\ Drawing(i, p, n, o, ok, d.pic).pic = d.pic
  <2> SUFFICES ASSUME NEW i \in Indexes, NEW p \in PixelValues, NEW n \in Int,
                      NEW o \in Seq(Operations), NEW ok \in BOOLEAN
               PROVE  /\ Drawing(i, p, n, o, ok, d.pic) \in DrawStates
                      /\ Drawing(i, p, n, o, ok, d.pic).pic = d.pic
    OBVIOUS
  <2>1. Drawing(i, p, n, o, ok, d.pic) \in DrawStates BY <1>1, DrawingType
  <2> QED BY <2>1 DEF Drawing
<1> HIDE DEF px, op
<1>8. CASE d.run > 0
  <2>1. NextValue(d) = Drawing(d.index, d.prev, d.run - 1, d.ops, d.ok, d.pic)
    BY <1>8, NextValueCases
  <2> QED BY <1>1, <1>6, <1>7, <2>1
<1>9. CASE ~(d.run > 0) /\ d.ops = <<>>
  <2> DEFINE no == FALSE
  <2>1. NextValue(d) = Drawing(d.index, d.prev, d.run, d.ops, no, d.pic)
    BY <1>9, NextValueCases
  <2>2. no \in BOOLEAN OBVIOUS
  <2> HIDE DEF no
  <2> QED BY <1>1, <1>7, <2>1, <2>2
<1>10. CASE ~(d.run > 0) /\ d.ops # <<>> /\ op[1] = "run"
  <2> DEFINE n == op[2] - 1
             o == Tail(d.ops)
  <2>1. NextValue(d) = Drawing(d.index, d.prev, n, o, d.ok, d.pic)
    BY <1>10, NextValueCases DEF op
  <2>2. n \in Int /\ o \in Seq(Operations) BY <1>2, <1>5, <1>10
  <2> HIDE DEF n, o
  <2> QED BY <1>1, <1>7, <2>1, <2>2
<1>11. CASE ~(d.run > 0) /\ d.ops # <<>> /\ op[1] = "index"
  <2> DEFINE o == Tail(d.ops)
  <2>1. NextValue(d) = Drawing(d.index, px, d.run, o, d.ok, d.pic)
    BY <1>11, NextValueCases DEF op, px
  <2>2. o \in Seq(Operations) BY <1>2, <1>11
  <2> HIDE DEF o
  <2> QED BY <1>1, <1>3, <1>7, <1>11, <2>1, <2>2
<1>12. CASE ~(d.run > 0) /\ d.ops # <<>> /\ op[1] \notin {"run", "index"}
  <2> DEFINE o == Tail(d.ops)
             i == [d.index EXCEPT ![Hash(px)] = px]
  <2>1. NextValue(d) = Drawing(i, px, d.run, o, d.ok, d.pic)
    BY <1>12, NextValueCases DEF op, px
  <2>2. o \in Seq(Operations) /\ i \in Indexes /\ px \in PixelValues BY <1>2, <1>3, <1>4, <1>12
  <2> HIDE DEF o, i
  <2> QED BY <1>1, <1>7, <2>1, <2>2
<1> QED BY <1>8, <1>9, <1>10, <1>11, <1>12

\* The operation that is written for a pixel stands for it, when the reader
\* has the writer's index and its last pixel.
LEMMA OperationStandsFor ==
    ASSUME NEW s \in CodeStates, NEW px \in PixelValues,
           NEW d \in DrawStates, d.index = s.index, d.prev = s.prev
    PROVE  /\ PixelOf(d, OperationFor(s, px)) = px
           /\ OperationFor(s, px)[1] # "run"
           /\ OperationFor(s, px)[1] = "index" => s.index[Hash(px)] = px
<1> DEFINE c == ColourOf(px)
           last == ColourOf(s.prev)
           diff == Signed(c - last)
           op == OperationFor(s, px)
<1>1. s.prev \in PixelValues BY DEF CodeStates
<1>2. /\ c \in 0..Colours - 1 /\ AlphaOf(px) \in 0..Alphas - 1 /\ Pixel(AlphaOf(px), c) = px
      /\ last \in 0..Colours - 1
  BY <1>1, PixelParts
<1>3. diff \in Int /\ (last + diff) % Colours = c
  <2> HIDE DEF c, last
  <2> QED BY <1>2, SignedIsDifference
<1>4. c % Colours = c
  <2> HIDE DEF c
  <2> QED BY <1>2, SmallMod, PixelAssumption
<1>5. Pixel(AlphaOf(px), last + diff) = px BY <1>2, <1>3, <1>4 DEF Pixel
<1>6. op = IF s.index[Hash(px)] = px THEN <<"index", Hash(px)>>
           ELSE IF AlphaOf(px) # AlphaOf(s.prev) THEN <<"rgba", px>>
           ELSE IF diff \in SmallDiff THEN <<"diff", diff>>
           ELSE IF diff \in LumaDiff THEN <<"luma", diff>>
           ELSE <<"rgb", c>>
  BY DEF OperationFor
<1> HIDE DEF op, c, last, diff
<1>7. CASE op = <<"index", Hash(px)>> /\ s.index[Hash(px)] = px BY <1>7 DEF PixelOf, op
<1>8. CASE op = <<"rgba", px>> BY <1>8 DEF PixelOf, op
<1>9. CASE op = <<"rgb", c>> /\ AlphaOf(px) = AlphaOf(s.prev) BY <1>2, <1>9 DEF PixelOf, op
<1>10. CASE \E way \in {"diff", "luma"} : op = <<way, diff>> /\ AlphaOf(px) = AlphaOf(s.prev)
  BY <1>5, <1>10 DEF PixelOf, op, last
<1> QED BY <1>6, <1>7, <1>8, <1>9, <1>10

\* What is left of a sequence after its first k.
Rest(ops, k) == SubSeq(ops, k + 1, Len(ops))

LEMMA RestOfOperations ==
    ASSUME NEW ops \in Seq(Operations), NEW k \in Nat, k < Len(ops)
    PROVE  /\ Rest(ops, k) # <<>> /\ Head(Rest(ops, k)) = ops[k + 1]
           /\ Tail(Rest(ops, k)) = Rest(ops, k + 1)
<1> DEFINE m == k + 1
           n == Len(ops)
<1>1. m \in 1..Len(ops) /\ n \in m..Len(ops) OBVIOUS
<1>2. Len(SubSeq(ops, m, n)) # 0 BY <1>1
<1> HIDE DEF m, n
<1>3. Head(SubSeq(ops, m, n)) = ops[m] /\ Tail(SubSeq(ops, m, n)) = SubSeq(ops, m + 1, n)
  BY <1>1, HeadTailOfSubSeq
<1>4. SubSeq(ops, m, n) # <<>>
  <2> DEFINE t == SubSeq(ops, m, n)
  <2>1. Len(t) # 0 BY <1>2
  <2> HIDE DEF t
  <2>2. t # <<>> BY <2>1
  <2> QED BY <2>2 DEF t
<1> QED BY <1>3, <1>4 DEF Rest, m, n

\* The reader is where the writer was: it has the same index and pixel, and
\* the rest of the operations, of the run that is open at least what the
\* writer had not seen.
Match(e, d, ops) ==
    /\ d.index = e.index /\ d.prev = e.prev /\ d.ok
    /\ \/ e.run = 0 /\ d.run = 0 /\ d.ops = Rest(ops, Len(e.ops))
       \/ /\ e.run > 0 /\ d.run >= 0
          /\ ops[Len(e.ops) + 1] = <<"run", d.run + e.run>>
          /\ d.ops = Rest(ops, Len(e.ops) + 1)

LEMMA MatchForCase ==
    ASSUME NEW s \in CodeStates, NEW d \in DrawStates, NEW ops \in Seq(Operations),
           Match(s, d, ops), s.run = 0, Len(s.ops) < Len(ops)
    PROVE  /\ d.run = 0 /\ d.ops # <<>> /\ Head(d.ops) = ops[Len(s.ops) + 1]
           /\ Tail(d.ops) = Rest(ops, Len(s.ops) + 1)
<1> DEFINE k == Len(s.ops)
<1>1. s.ops \in Seq(Operations) BY DEF CodeStates
<1>2. k \in Nat BY <1>1
<1>3. d.run = 0 /\ d.ops = Rest(ops, k) BY DEF Match
<1> HIDE DEF k
<1>4. k < Len(ops) BY DEF k
<1>5. /\ Rest(ops, k) # <<>> /\ Head(Rest(ops, k)) = ops[k + 1]
      /\ Tail(Rest(ops, k)) = Rest(ops, k + 1)
  BY <1>2, <1>4, RestOfOperations
<1> QED BY <1>3, <1>5 DEF k

\* What a reader that is where the writer was reads next is what the writer
\* writes next, and it again is where the writer is.
LEMMA NextValueIsCodeValue ==
    ASSUME NEW s \in CodeStates, NEW px \in PixelValues, NEW d \in DrawStates,
           NEW ops \in Seq(Operations), Match(s, d, ops), Ahead(CodeValue(s, px), ops)
    PROVE  NextValue(d).prev = px /\ Match(CodeValue(s, px), NextValue(d), ops)
<1> DEFINE L == Len(s.ops)
           e == CodeValue(s, px)
           n == NextValue(d)
<1>1. s.run \in Nat /\ s.ops \in Seq(Operations) /\ L \in Nat BY DEF CodeStates
<1>2. d.index = s.index /\ d.prev = s.prev /\ d.ok /\ d.run \in Int BY DrawingType DEF Match
<1>3. ASSUME s.run > 0
      PROVE  /\ ops[L + 1] = <<"run", d.run + s.run>> /\ d.run >= 0
             /\ d.ops = Rest(ops, L + 1)
  BY <1>3 DEF Match
<1>4. ASSUME NEW k \in Nat, px = s.prev, Len(s.ops) < Len(ops), ops[L + 1] = <<"run", k>>, k > s.run
      PROVE  /\ n.index = s.index /\ n.prev = px /\ n.ok
             /\ n.run = k - (s.run + 1) /\ n.ops = Rest(ops, L + 1)
  <2>1. CASE s.run = 0
    <3>1. d.run = 0 /\ d.ops # <<>> /\ Head(d.ops) = <<"run", k>> /\ Tail(d.ops) = Rest(ops, L + 1)
      BY <1>4, <2>1, MatchForCase
    <3>3. Head(d.ops)[1] = "run" /\ Head(d.ops)[2] = k /\ ~(d.run > 0) BY <3>1
    <3>2. n = Drawing(d.index, d.prev, Head(d.ops)[2] - 1, Tail(d.ops), d.ok, d.pic)
      BY <3>1, <3>3, NextValueCases
    <3> HIDE DEF n
    <3> QED BY <1>2, <1>4, <2>1, <3>1, <3>2, <3>3 DEF Drawing
  <2>2. CASE s.run > 0
    <3>1. d.run + s.run = k BY <1>3, <1>4, <2>2
    <3>2. d.run > 0 BY <1>1, <1>2, <1>4, <3>1
    <3>3. n = Drawing(d.index, d.prev, d.run - 1, d.ops, d.ok, d.pic) BY <3>2, NextValueCases
    <3>4. d.run - 1 = k - (s.run + 1) BY <1>1, <1>2, <1>4, <3>1
    <3>5. d.ops = Rest(ops, L + 1) BY <1>3, <2>2
    <3> HIDE DEF n
    <3> QED BY <1>2, <1>4, <3>3, <3>4, <3>5 DEF Drawing
  <2> QED BY <1>1, <2>1, <2>2
<1>5. CASE px = s.prev /\ s.run + 1 # MaxRun
  <2>1. e = [index |-> s.index, prev |-> s.prev, run |-> s.run + 1, ops |-> s.ops]
    BY <1>5, CodeValueCases
  <2>2. PICK k \in Int : L < Len(ops) /\ k >= s.run + 1 /\ ops[L + 1] = <<"run", k>>
    BY <2>1, <1>1 DEF Ahead
  <2>3. k \in Nat /\ k > s.run BY <2>2, <1>1
  <2> HIDE DEF n, e
  <2>4. n.index = s.index /\ n.prev = px /\ n.ok /\ n.run = k - (s.run + 1) /\ n.ops = Rest(ops, L + 1)
    BY <1>4, <1>5, <2>2, <2>3
  <2>5. n.run >= 0 /\ n.run + (s.run + 1) = k BY <1>1, <2>2, <2>4
  <2> QED BY <1>1, <1>5, <2>1, <2>2, <2>4, <2>5 DEF Match, n, e
<1>6. CASE px = s.prev /\ s.run + 1 = MaxRun
  <2> DEFINE k == s.run + 1
  <2>1. e = [index |-> s.index, prev |-> s.prev, run |-> 0, ops |-> Append(s.ops, <<"run", k>>)]
    BY <1>6, CodeValueCases
  <2>2. L < Len(ops) /\ ops[L + 1] = <<"run", k>> BY <1>1, <2>1, AheadOfAppended DEF Ahead
  <2>3. k \in Nat /\ k > s.run /\ k - (s.run + 1) = 0 BY <1>1
  <2>4. Len(Append(s.ops, <<"run", k>>)) = L + 1 BY <1>1
  <2> HIDE DEF n, e, k
  <2>5. n.index = s.index /\ n.prev = px /\ n.ok /\ n.run = 0 /\ n.ops = Rest(ops, L + 1)
    BY <1>4, <1>6, <2>2, <2>3
  <2> QED BY <1>6, <2>1, <2>4, <2>5 DEF Match, n, e
<1>7. CASE px # s.prev
  <2> DEFINE w == RunWritten(s)
             K == Len(w)
             op == OperationFor(s, px)
             index == [s.index EXCEPT ![Hash(px)] = px]
  <2>1. e = [index |-> index, prev |-> px, run |-> 0, ops |-> Append(w, op)]
    BY <1>7, CodeValueCases
  <2>2. w \in Seq(Operations)
    <3>1. <<"run", s.run>> \in Operations BY <1>1 DEF Operations
    <3> HIDE DEF Operations
    <3> QED BY <1>1, <3>1 DEF RunWritten
  <2>3. K < Len(ops) /\ ops[K + 1] = op /\ \A i \in 1..K : ops[i] = w[i]
    <3>1. e.ops = Append(w, op) BY <2>1
    <3> HIDE DEF w, op
    <3>2. /\ Len(Append(w, op)) <= Len(ops)
          /\ \A i \in 1..Len(Append(w, op)) : ops[i] = Append(w, op)[i]
      BY <3>1 DEF Ahead
    <3> QED BY <2>2, <3>2, AheadOfAppended
  <2>4. d.run = 0 /\ d.ops = Rest(ops, K)
    <3>1. CASE s.run = 0
      <4>1. w = s.ops BY <3>1 DEF RunWritten
      <4> QED BY <3>1, <4>1 DEF Match
    <3>2. CASE s.run > 0
      <4>1. w = Append(s.ops, <<"run", s.run>>) BY <3>2 DEF RunWritten
      <4>2. K = L + 1 /\ w[L + 1] = <<"run", s.run>> BY <1>1, <4>1
      <4>3. ops[L + 1] = <<"run", s.run>> BY <1>1, <2>3, <4>2
      <4>4. d.run + s.run = s.run BY <1>3, <3>2, <4>3
      <4> QED BY <1>1, <1>2, <1>3, <3>2, <4>2, <4>4
    <3> QED BY <1>1, <3>1, <3>2
  <2>5. K \in Nat /\ Len(Append(w, op)) = K + 1 BY <2>2
  <2>6. d.ops # <<>> /\ Head(d.ops) = op /\ Tail(d.ops) = Rest(ops, K + 1)
    <3> HIDE DEF K, op
    <3>1. Rest(ops, K) # <<>> /\ Head(Rest(ops, K)) = ops[K + 1] /\ Tail(Rest(ops, K)) = Rest(ops, K + 1)
      BY <2>3, <2>5, RestOfOperations
    <3> QED BY <2>3, <2>4, <3>1
  <2>7. PixelOf(d, op) = px /\ op[1] # "run" /\ (op[1] = "index" => s.index[Hash(px)] = px)
    BY <1>2, OperationStandsFor
  <2> HIDE DEF n, e, w, op
  <2>8. n = Drawing(index, px, 0, Rest(ops, K + 1), d.ok, d.pic)
    <3>1. CASE op[1] = "index"
      <4>3. ~(d.run > 0) /\ Head(d.ops)[1] = "index" BY <2>4, <2>6, <3>1
      <4>1. n = Drawing(d.index, PixelOf(d, Head(d.ops)), d.run, Tail(d.ops), d.ok, d.pic)
        BY <2>6, <4>3, NextValueCases DEF n
      <4>2. index = s.index
        <5>1. s.index \in [0..HashSize - 1 -> PixelValues] BY DEF CodeStates, Indexes
        <5> QED BY <5>1, <2>7, <3>1
      <4> QED BY <1>2, <2>4, <2>6, <2>7, <4>1, <4>2
    <3>2. CASE op[1] # "index"
      <4>1. n = Drawing([d.index EXCEPT ![Hash(PixelOf(d, Head(d.ops)))] = PixelOf(d, Head(d.ops))],
                        PixelOf(d, Head(d.ops)), d.run, Tail(d.ops), d.ok, d.pic)
        <5>1. ~(d.run > 0) /\ Head(d.ops)[1] \notin {"run", "index"} BY <2>4, <2>6, <2>7, <3>2
        <5> QED BY <2>6, <5>1, NextValueCases DEF n
      <4> QED BY <1>2, <2>4, <2>6, <2>7, <4>1
    <3> QED BY <3>1, <3>2
  <2> HIDE DEF index, K
  <2>9. n.index = index /\ n.prev = px /\ n.ok /\ n.run = 0 /\ n.ops = Rest(ops, K + 1)
    BY <1>2, <2>8 DEF Drawing
  <2>10. e.index = index /\ e.prev = px /\ e.run = 0 /\ Len(e.ops) = K + 1
    BY <2>1, <2>5
  <2> QED BY <2>9, <2>10 DEF Match, n, e
<1> QED BY <1>5, <1>6, <1>7

-----------------------------------------------------------------------------
(* A row of values, written and read *)

\* F[k] is the state after k values.
Coding(F, s, vals, n) ==
    /\ F \in [0..n -> CodeStates] /\ F[0] = s
    /\ \A k \in 1..n : F[k] = CodeValue(F[k - 1], vals[k])

LEMMA CodeRow ==
    ASSUME NEW s \in CodeStates, NEW n \in Nat, NEW vals \in [1..n -> PixelValues]
    PROVE  \E F : Coding(F, s, vals, n) /\ FoldLeft(CodeValue, s, vals) = F[n]
<1> DEFINE S == CodeStates
           g == [i \in 1..n |-> [e \in S |-> CodeValue(e, vals[i])]]
           Body(h) == [c \in SUBSET (1..n) |->
                          IF c = {} THEN s ELSE CodeValue(h[c \ {Max(c)}], vals[Max(c)])]
           it == CHOOSE h : h = Body(h)
<1>1. ASSUME NEW e \in S, NEW i \in 1..n PROVE CodeValue(e, vals[i]) \in S
  BY CodeValueType
<1>2. s \in S OBVIOUS
<1> HIDE DEF S
<1>3. g \in [1..n -> [S -> S]] BY <1>1
<1>4. PICK h : Iterates(h, n, S, s, g)
  <2> HIDE DEF g
  <2> QED BY <1>2, <1>3, IterationExists
<1>5. h = Body(h)
  <2>1. ASSUME NEW c \in SUBSET (1..n), c # {}
        PROVE  h[c] = CodeValue(h[c \ {Max(c)}], vals[Max(c)])
    <3>1. Max(c) \in 1..n /\ h[c] = g[Max(c)][h[c \ {Max(c)}]] BY <1>4, <2>1 DEF Iterates
    <3>2. h[c \ {Max(c)}] \in S BY <1>4 DEF Iterates
    <3> QED BY <3>1, <3>2
  <2> HIDE DEF g
  <2> QED BY <1>4, <2>1 DEF Iterates
<1>6. it = Body(it)
  <2> HIDE DEF Body
  <2> QED BY <1>5
<1>7. FoldLeft(CodeValue, s, vals) = it[1..n]
  <2>1. DOMAIN vals = 1..n OBVIOUS
  <2> QED BY <2>1 DEF FoldLeft, MapThenFoldSet
<1> HIDE DEF it
<1>8. PICK F : Chain(F, n, S, s, g) /\ it[1..n] = F[n]
  <2>1. it[{}] = s BY <1>6
  <2>2. ASSUME NEW c \in SUBSET (1..n), c # {}, Max(c) \in c, it[c \ {Max(c)}] \in S
        PROVE  it[c] = g[Max(c)][it[c \ {Max(c)}]]
    <3>1. it[c] = CodeValue(it[c \ {Max(c)}], vals[Max(c)]) BY <1>6, <2>2
    <3> QED BY <2>2, <3>1
  <2> HIDE DEF g
  <2>3. Follows(it, n, S, s, g) BY <2>1, <2>2 DEF Follows
  <2> QED BY <1>2, <1>3, <2>3, IterationIsChain
<1>9. ASSUME NEW k \in 1..n PROVE F[k] = CodeValue(F[k - 1], vals[k])
  <2>1. F[k - 1] \in S BY <1>8 DEF Chain
  <2>2. F[k] = g[k][F[k - 1]]
    <3> HIDE DEF g
    <3> QED BY <1>8 DEF Chain
  <2> QED BY <2>1, <2>2
<1>10. F \in [0..n -> S] /\ F[0] = s BY <1>8 DEF Chain
<1>11. Coding(F, s, vals, n) BY <1>9, <1>10 DEF Coding, S
<1> QED BY <1>7, <1>8, <1>11

\* What is ahead of the end of a row is ahead of all of it.
LEMMA AheadOfRow ==
    ASSUME NEW s \in CodeStates, NEW n \in Nat, NEW vals \in [1..n -> PixelValues],
           NEW ops \in Seq(Operations), NEW F, Coding(F, s, vals, n), Ahead(F[n], ops)
    PROVE  \A k \in 0..n : Ahead(F[k], ops)
<1> DEFINE T == {j \in Nat : j <= n => Ahead(F[n - j], ops)}
<1>1. 0 \in T OBVIOUS
<1>2. ASSUME NEW j \in Nat, j \in T PROVE j + 1 \in T
  <2> SUFFICES ASSUME j + 1 <= n PROVE Ahead(F[n - (j + 1)], ops) OBVIOUS
  <2> DEFINE k == n - j
  <2>1. k \in 1..n /\ k - 1 \in 0..n /\ n - (j + 1) = k - 1 OBVIOUS
  <2>2. Ahead(F[k], ops) BY <1>2
  <2> HIDE DEF k
  <2>3. F[k - 1] \in CodeStates /\ vals[k] \in PixelValues /\ F[k] = CodeValue(F[k - 1], vals[k])
    BY <2>1 DEF Coding
  <2>4. Ahead(F[k - 1], ops) BY <2>2, <2>3, AheadOfEarlier
  <2> QED BY <2>1, <2>4
<1> HIDE DEF T
<1>3. \A j \in Nat : j \in T BY <1>1, <1>2, Induction
<1>4. ASSUME NEW k \in 0..n PROVE Ahead(F[k], ops)
  <2>1. n - k \in Nat /\ n - k <= n /\ n - (n - k) = k OBVIOUS
  <2> QED BY <2>1, <1>3 DEF T
<1> QED BY <1>4

-----------------------------------------------------------------------------
(* The tiles cover the picture, and do not overlap *)

At(t, x, y) == <<TileX(t) + x - 1, TileY(t) + y - 1>>

\* As many tiles as are needed, and no more.
LEMMA TilesNeeded ==
    ASSUME NEW w \in Nat \ {0}, NEW n, n = (w + Tile - 1) \div Tile
    PROVE  n \in Nat \ {0} /\ Tile * (n - 1) < w /\ w <= Tile * n
<1>1. w + Tile - 1 \in Int /\ Tile \in Nat \ {0} BY PictureAssumption
<1> DEFINE a == w + Tile - 1
           q == a \div Tile
           m == a % Tile
<1>2. q \in Int /\ m \in 0..Tile - 1 /\ a = Tile * q + m
  <2> HIDE DEF a
  <2> QED BY <1>1, DivMod DEF a
<1> HIDE DEF q, m
<1>3. Tile * q \in Int /\ Tile * (q - 1) = Tile * q - Tile BY <1>1, <1>2
<1>4. w <= Tile * q /\ Tile * (q - 1) < w
  <2> DEFINE z == Tile * q
  <2>1. z \in Int /\ w + Tile - 1 = z + m BY <1>2, <1>3
  <2> HIDE DEF z
  <2>2. w <= z /\ z - Tile < w BY <1>1, <1>2, <2>1
  <2> QED BY <1>3, <2>2 DEF z
<1>5. q > 0
  <2>1. CASE q <= 0
    <3>1. Tile * q <= 0 BY <1>1, <1>2, <2>1
    <3> QED BY <1>3, <1>4, <3>1
  <2> QED BY <1>2, <2>1
<1> QED BY <1>2, <1>4, <1>5 DEF q, a

\* One dimension of a tile: from the first pixel of it to the last.
LEMMA TileSpan ==
    ASSUME NEW w \in Nat \ {0}, NEW n \in Nat \ {0}, NEW i \in 0..n - 1, Tile * (n - 1) < w
    PROVE  /\ Least(w - i * Tile, Tile) \in 1..Tile
           /\ i * Tile >= 0
           /\ i * Tile + Least(w - i * Tile, Tile) <= w
<1> DEFINE z == i * Tile
<1>1. Tile \in Nat \ {0} BY PictureAssumption
<1>2. z \in Int /\ z >= 0 BY <1>1
<1>3. z <= Tile * (n - 1) BY <1>1
<1>4. Tile * (n - 1) \in Int BY <1>1
<1> HIDE DEF z
<1>5. z < w BY <1>2, <1>3, <1>4
<1> QED BY <1>1, <1>2, <1>5 DEF Least, z

LEMMA TileShape ==
    ASSUME NEW t \in Tiles
    PROVE  /\ TileX(t) \in Nat /\ TileY(t) \in Nat /\ TileW(t) \in 1..Tile /\ TileH(t) \in 1..Tile
           /\ TileX(t) + TileW(t) <= PicW /\ TileY(t) + TileH(t) <= PicH
           /\ TilesX \in Nat \ {0} /\ TilesY \in Nat \ {0}
<1>1. TilesX \in Nat \ {0} /\ Tile * (TilesX - 1) < PicW BY PictureAssumption, TilesNeeded DEF TilesX
<1>2. TilesY \in Nat \ {0} /\ Tile * (TilesY - 1) < PicH BY PictureAssumption, TilesNeeded DEF TilesY
<1> DEFINE i == (t - 1) % TilesX
           j == (t - 1) \div TilesX
<1>3. t \in Int /\ 1 <= t /\ t <= TilesX * TilesY BY <1>1, <1>2 DEF Tiles
<1>4. i \in 0..TilesX - 1 /\ j \in Int /\ t - 1 = TilesX * j + i
  <2>1. t - 1 \in Int BY <1>3
  <2> QED BY <2>1, <1>1, DivMod
<1> HIDE DEF i, j
<1> DEFINE nx == TilesX
           ny == TilesY
<1>5. nx \in Nat \ {0} /\ ny \in Nat \ {0} /\ i \in 0..nx - 1 /\ t - 1 = nx * j + i /\ t <= nx * ny
  BY <1>1, <1>2, <1>3, <1>4
<1> HIDE DEF nx, ny
<1>6. j \in 0..ny - 1
  <2>1. CASE j <= -1
    <3>1. nx * j <= -nx BY <1>4, <1>5, <2>1
    <3>2. nx * j \in Int BY <1>4, <1>5
    <3> QED BY <1>3, <1>4, <1>5, <3>1, <3>2
  <2>2. CASE j >= ny
    <3>1. nx * j >= nx * ny BY <1>4, <1>5, <2>2
    <3>2. nx * j \in Int /\ nx * ny \in Int BY <1>4, <1>5
    <3> QED BY <1>3, <1>4, <1>5, <3>1, <3>2
  <2> QED BY <1>4, <1>5, <2>1, <2>2
<1>7. /\ Least(PicW - i * Tile, Tile) \in 1..Tile /\ i * Tile >= 0
      /\ i * Tile + Least(PicW - i * Tile, Tile) <= PicW
  BY <1>1, <1>4, PictureAssumption, TileSpan
<1>8. /\ Least(PicH - j * Tile, Tile) \in 1..Tile /\ j * Tile >= 0
      /\ j * Tile + Least(PicH - j * Tile, Tile) <= PicH
  BY <1>2, <1>6, PictureAssumption, TileSpan DEF ny
<1>9. i * Tile \in Int /\ j * Tile \in Int BY <1>4, PictureAssumption
<1> QED BY <1>1, <1>2, <1>7, <1>8, <1>9 DEF TileX, TileY, TileW, TileH, i, j

LEMMA AtIsPixel ==
    ASSUME NEW t \in Tiles, NEW x \in 1..TileW(t), NEW y \in 1..TileH(t)
    PROVE  At(t, x, y) \in Pixels
<1>1. /\ TileX(t) \in Nat /\ TileY(t) \in Nat /\ TileW(t) \in Nat /\ TileH(t) \in Nat
      /\ TileX(t) + TileW(t) <= PicW /\ TileY(t) + TileH(t) <= PicH
  BY TileShape, PictureAssumption
<1> QED BY <1>1, PictureAssumption DEF At, Pixels

\* A pixel of two tiles: they are one, and the pixel is at one place of it.
LEMMA AtIsUnique ==
    ASSUME NEW t \in Tiles, NEW x \in 1..TileW(t), NEW y \in 1..TileH(t),
           NEW u \in Tiles, NEW a \in 1..TileW(u), NEW b \in 1..TileH(u),
           At(t, x, y) = At(u, a, b)
    PROVE  t = u /\ x = a /\ y = b
<1> DEFINE i(c) == (c - 1) % TilesX
           j(c) == (c - 1) \div TilesX
<1>1. Tile \in Nat \ {0} BY PictureAssumption
<1>2. ASSUME NEW c \in Tiles, NEW p \in 1..TileW(c), NEW q \in 1..TileH(c)
      PROVE  /\ i(c) \in Int /\ j(c) \in Int /\ c - 1 = TilesX * j(c) + i(c) /\ c \in Int
             /\ TileX(c) = Tile * i(c) /\ TileY(c) = Tile * j(c)
             /\ p - 1 \in 0..Tile - 1 /\ q - 1 \in 0..Tile - 1
  <2>1. TilesX \in Nat \ {0} /\ TilesY \in Nat \ {0} /\ TileW(c) \in 1..Tile /\ TileH(c) \in 1..Tile
    BY TileShape
  <2>2. c \in Int /\ c - 1 \in Int BY <2>1 DEF Tiles
  <2>3. i(c) \in 0..TilesX - 1 /\ j(c) \in Int /\ c - 1 = TilesX * j(c) + i(c)
    BY <2>1, <2>2, DivMod
  <2>4. i(c) \in Int BY <2>1, <2>3
  <2>5. TileX(c) = i(c) * Tile /\ TileY(c) = j(c) * Tile BY DEF TileX, TileY
  <2> HIDE DEF i, j
  <2> QED BY <1>1, <2>1, <2>2, <2>3, <2>4, <2>5
<1>3. TileX(t) + x - 1 = TileX(u) + a - 1 /\ TileY(t) + y - 1 = TileY(u) + b - 1 BY DEF At
<1>4. i(t) \in Int /\ i(u) \in Int /\ j(t) \in Int /\ j(u) \in Int BY <1>2
<1>5. TileX(t) = Tile * i(t) /\ TileX(u) = Tile * i(u) /\ x - 1 \in 0..Tile - 1 /\ a - 1 \in 0..Tile - 1
  BY <1>2
<1>6. TileY(t) = Tile * j(t) /\ TileY(u) = Tile * j(u) /\ y - 1 \in 0..Tile - 1 /\ b - 1 \in 0..Tile - 1
  BY <1>2
<1>7. t - 1 = TilesX * j(t) + i(t) /\ u - 1 = TilesX * j(u) + i(u) /\ t \in Int /\ u \in Int
  BY <1>2
<1> HIDE DEF i, j
<1>8. i(t) = i(u) /\ x - 1 = a - 1
  <2>1. Tile * i(t) + (x - 1) = Tile * i(u) + (a - 1) BY <1>1, <1>3, <1>4, <1>5
  <2>2. /\ (Tile * i(t) + (x - 1)) \div Tile = i(t) /\ (Tile * i(t) + (x - 1)) % Tile = x - 1
        /\ (Tile * i(u) + (a - 1)) \div Tile = i(u) /\ (Tile * i(u) + (a - 1)) % Tile = a - 1
    <3>1. x - 1 \in Int /\ 0 <= x - 1 /\ x - 1 < Tile /\ a - 1 \in Int /\ 0 <= a - 1 /\ a - 1 < Tile
      BY <1>1, <1>5
    <3> QED BY <1>1, <1>4, <3>1, DivModUnique
  <2> QED BY <2>1, <2>2
<1>9. j(t) = j(u) /\ y - 1 = b - 1
  <2>1. Tile * j(t) + (y - 1) = Tile * j(u) + (b - 1) BY <1>1, <1>3, <1>4, <1>6
  <2>2. /\ (Tile * j(t) + (y - 1)) \div Tile = j(t) /\ (Tile * j(t) + (y - 1)) % Tile = y - 1
        /\ (Tile * j(u) + (b - 1)) \div Tile = j(u) /\ (Tile * j(u) + (b - 1)) % Tile = b - 1
    <3>1. y - 1 \in Int /\ 0 <= y - 1 /\ y - 1 < Tile /\ b - 1 \in Int /\ 0 <= b - 1 /\ b - 1 < Tile
      BY <1>1, <1>6
    <3> QED BY <1>1, <1>4, <3>1, DivModUnique
  <2> QED BY <2>1, <2>2
<1>10. t - 1 = u - 1 BY <1>7, <1>8, <1>9
<1>11. TileW(t) \in Int /\ TileH(t) \in Int /\ TileW(u) \in Int /\ TileH(u) \in Int
  BY TileShape, <1>1
<1>12. x \in Int /\ y \in Int /\ a \in Int /\ b \in Int BY <1>11
<1> QED BY <1>7, <1>8, <1>9, <1>10, <1>12

\* Every pixel is in a tile.
LEMMA PixelsAreAt ==
    ASSUME NEW p \in Pixels
    PROVE  \E t \in Tiles : \E x \in 1..TileW(t), y \in 1..TileH(t) : p = At(t, x, y)
<1>1. Tile \in Nat \ {0} /\ PicW \in Nat \ {0} /\ PicH \in Nat \ {0} BY PictureAssumption
<1>2. p[1] \in 0..PicW - 1 /\ p[2] \in 0..PicH - 1 /\ p = <<p[1], p[2]>> BY DEF Pixels
<1>3. /\ TilesX \in Nat \ {0} /\ PicW <= Tile * TilesX /\ TilesY \in Nat \ {0} /\ PicH <= Tile * TilesY
  BY <1>1, TilesNeeded DEF TilesX, TilesY
<1> DEFINE i == p[1] \div Tile
           j == p[2] \div Tile
           x == p[1] % Tile
           y == p[2] % Tile
           nx == TilesX
           ny == TilesY
<1>4. i \in Int /\ j \in Int /\ x \in 0..Tile - 1 /\ y \in 0..Tile - 1
      /\ p[1] = Tile * i + x /\ p[2] = Tile * j + y
  <2>1. \A c \in Int : c \div Tile \in Int /\ c % Tile \in 0..Tile - 1 /\ c = Tile * (c \div Tile) + (c % Tile)
    BY <1>1, DivMod
  <2>2. p[1] \in Int /\ p[2] \in Int BY <1>1, <1>2
  <2> QED BY <2>1, <2>2
<1>5. nx \in Nat \ {0} /\ ny \in Nat \ {0} /\ PicW <= Tile * nx /\ PicH <= Tile * ny BY <1>3
<1> HIDE DEF i, j, x, y, nx, ny
<1>6. ASSUME NEW w \in Nat \ {0}, NEW n \in Nat \ {0}, w <= Tile * n, NEW c \in 0..w - 1,
             NEW q \in Int, NEW m \in 0..Tile - 1, c = Tile * q + m
      PROVE  q \in 0..n - 1 /\ m + 1 \in 1..Least(w - q * Tile, Tile)
  <2>1. Tile * q \in Int /\ Tile * n \in Int /\ q * Tile = Tile * q BY <1>1
  <2>2. q >= 0
    <3>1. CASE q <= -1
      <4>1. Tile * q <= -Tile BY <1>1, <3>1
      <4> QED BY <1>1, <1>6, <2>1, <4>1
    <3> QED BY <3>1
  <2>3. q < n
    <3>1. CASE q >= n
      <4>1. Tile * q >= Tile * n BY <1>1, <3>1
      <4> QED BY <1>1, <1>6, <2>1, <4>1
    <3> QED BY <3>1
  <2> DEFINE z == Tile * q
  <2>4. z \in Int /\ c = z + m /\ q * Tile = z BY <1>6, <2>1
  <2> HIDE DEF z
  <2>5. m + 1 <= w - z /\ m + 1 <= Tile /\ m + 1 >= 1 BY <1>1, <2>4
  <2> QED BY <1>1, <2>2, <2>3, <2>4, <2>5 DEF Least
<1>7. i \in 0..nx - 1 /\ x + 1 \in 1..Least(PicW - i * Tile, Tile) BY <1>1, <1>2, <1>4, <1>5, <1>6
<1>8. j \in 0..ny - 1 /\ y + 1 \in 1..Least(PicH - j * Tile, Tile) BY <1>1, <1>2, <1>4, <1>5, <1>6
<1> DEFINE t == nx * j + i + 1
<1>9. t \in 1..nx * ny
  <2>1. nx * j <= nx * (ny - 1) /\ nx * (ny - 1) = nx * ny - nx /\ nx * j >= 0 BY <1>5, <1>8
  <2>2. nx * j \in Int /\ nx * ny \in Int BY <1>5, <1>8
  <2> QED BY <1>5, <1>7, <2>1, <2>2
<1>10. (t - 1) \div nx = j /\ (t - 1) % nx = i
  <2>1. t - 1 = nx * j + i BY <1>5, <1>7, <1>8
  <2>2. (nx * j + i) \div nx = j /\ (nx * j + i) % nx = i BY <1>5, <1>7, <1>8, DivModUnique
  <2> QED BY <2>1, <2>2
<1> HIDE DEF t
<1>11. t \in Tiles /\ TileX(t) = i * Tile /\ TileY(t) = j * Tile
  BY <1>9, <1>10 DEF Tiles, TileX, TileY, nx, ny
<1>12. x + 1 \in 1..TileW(t) /\ y + 1 \in 1..TileH(t) BY <1>7, <1>8, <1>11 DEF TileW, TileH
<1>13. At(t, x + 1, y + 1) = p
  <2>1. TileX(t) + (x + 1) - 1 = p[1] /\ TileY(t) + (y + 1) - 1 = p[2] BY <1>1, <1>4, <1>11
  <2> QED BY <1>2, <2>1 DEF At
<1> QED BY <1>11, <1>12, <1>13

-----------------------------------------------------------------------------
(* A row of a tile, drawn *)

\* The points of a tile up to the one at <<x, y>>, row by row.
Covered(t, x, y) ==
    {p \in Pixels : \E i \in 1..TileW(t), j \in 1..TileH(t) :
        p = At(t, i, j) /\ (j < y \/ (j = y /\ i <= x))}
Covers(t) == {p \in Pixels : \E i \in 1..TileW(t), j \in 1..TileH(t) : p = At(t, i, j)}

\* A picture over which the points of Q are drawn.
Painted(over, Q, pic, alpha) ==
    [p \in Pixels |-> IF p \in Q THEN Coded(pic[p], alpha) ELSE over[p]]

LEMMA PaintedType ==
    ASSUME NEW over \in Picture, NEW Q, NEW pic \in Picture, NEW alpha \in BOOLEAN
    PROVE  Painted(over, Q, pic, alpha) \in Picture
<1>1. ASSUME NEW p \in Pixels PROVE Coded(pic[p], alpha) \in PixelValues /\ over[p] \in PixelValues
  BY CodedPixel DEF Picture
<1> QED BY <1>1 DEF Painted, Picture

LEMMA PaintedOneMore ==
    ASSUME NEW over \in Picture, NEW pic \in Picture, NEW alpha \in BOOLEAN, NEW t \in Tiles,
           NEW x \in 1..TileW(t), NEW y \in 1..TileH(t)
    PROVE  /\ Painted(over, Covered(t, x, y), pic, alpha) =
                  [Painted(over, Covered(t, x - 1, y), pic, alpha)
                      EXCEPT ![At(t, x, y)] = Coded(pic[At(t, x, y)], alpha)]
           /\ Painted(over, Covered(t, x - 1, y), pic, alpha)[At(t, x, y)] = over[At(t, x, y)]
           /\ y > 1 => Painted(over, Covered(t, x - 1, y), pic, alpha)[At(t, x, y - 1)] =
                           Coded(pic[At(t, x, y - 1)], alpha)
<1> DEFINE at == At(t, x, y)
<1>1. at \in Pixels BY AtIsPixel
<1>2. TileW(t) \in Nat /\ TileH(t) \in Nat BY TileShape, PictureAssumption
<1>3. ASSUME NEW i \in 1..TileW(t), NEW j \in 1..TileH(t), At(t, i, j) = at PROVE i = x /\ j = y
  BY <1>3, AtIsUnique
<1> HIDE DEF at
<1>4. Covered(t, x, y) = Covered(t, x - 1, y) \cup {at}
  <2>1. ASSUME NEW p \in Covered(t, x, y), p # at PROVE p \in Covered(t, x - 1, y)
    <3>1. PICK i \in 1..TileW(t), j \in 1..TileH(t) : p = At(t, i, j) /\ (j < y \/ (j = y /\ i <= x))
      BY DEF Covered
    <3>2. ~(i = x /\ j = y) BY <2>1, <3>1 DEF at
    <3>3. j < y \/ (j = y /\ i <= x - 1) BY <1>2, <3>1, <3>2
    <3> QED BY <3>1, <3>3 DEF Covered
  <2>2. ASSUME NEW p \in Covered(t, x - 1, y) PROVE p \in Covered(t, x, y)
    <3>1. PICK i \in 1..TileW(t), j \in 1..TileH(t) :
              p = At(t, i, j) /\ (j < y \/ (j = y /\ i <= x - 1))
      BY DEF Covered
    <3>2. j < y \/ (j = y /\ i <= x) BY <1>2, <3>1
    <3> QED BY <3>1, <3>2 DEF Covered
  <2>3. at \in Covered(t, x, y)
    <3>1. y = y /\ x <= x BY <1>2
    <3> QED BY <1>1, <3>1 DEF Covered, at
  <2> QED BY <2>1, <2>2, <2>3
<1>5. at \notin Covered(t, x - 1, y)
  <2> SUFFICES ASSUME NEW i \in 1..TileW(t), NEW j \in 1..TileH(t), at = At(t, i, j),
                      j < y \/ (j = y /\ i <= x - 1)
               PROVE  FALSE
    BY DEF Covered
  <2>1. i = x /\ j = y BY <1>3
  <2> QED BY <1>2, <2>1
<1>6. Painted(over, Covered(t, x, y), pic, alpha) =
          [Painted(over, Covered(t, x - 1, y), pic, alpha) EXCEPT ![at] = Coded(pic[at], alpha)]
  BY <1>1, <1>4 DEF Painted
<1>7. Painted(over, Covered(t, x - 1, y), pic, alpha)[at] = over[at] BY <1>1, <1>5 DEF Painted
<1>8. ASSUME y > 1
      PROVE  Painted(over, Covered(t, x - 1, y), pic, alpha)[At(t, x, y - 1)] =
                 Coded(pic[At(t, x, y - 1)], alpha)
  <2>1. y - 1 \in 1..TileH(t) /\ y - 1 < y BY <1>2, <1>8
  <2> DEFINE j == y - 1
  <2> HIDE DEF j
  <2>2. At(t, x, j) \in Pixels BY <2>1, AtIsPixel DEF j
  <2>3. At(t, x, j) \in Covered(t, x - 1, y) BY <2>1, <2>2 DEF Covered, j
  <2> QED BY <2>2, <2>3 DEF Painted, j
<1> QED BY <1>6, <1>7, <1>8 DEF at

LEMMA CoveredRow ==
    ASSUME NEW t \in Tiles
    PROVE  /\ Covered(t, 0, 1) = {}
           /\ \A y \in 1..TileH(t) : Covered(t, TileW(t), y) = Covered(t, 0, y + 1)
           /\ Covered(t, 0, TileH(t) + 1) = Covers(t)
<1>1. TileW(t) \in Nat /\ TileH(t) \in Nat BY TileShape, PictureAssumption
<1> DEFINE W == TileW(t)
           H == TileH(t)
<1>2. W \in Nat /\ H \in Nat BY <1>1
<1>3. \A p, x, y : p \in Covered(t, x, y) <=>
          p \in Pixels /\ \E i \in 1..W, j \in 1..H : p = At(t, i, j) /\ (j < y \/ (j = y /\ i <= x))
  BY DEF Covered
<1>4. \A p : p \in Covers(t) <=> p \in Pixels /\ \E i \in 1..W, j \in 1..H : p = At(t, i, j)
  BY DEF Covers
<1> HIDE DEF W, H
<1>5. Covered(t, 0, 1) = {}
  <2>1. \A i \in 1..W, j \in 1..H : ~(j < 1 \/ (j = 1 /\ i <= 0)) BY <1>2
  <2> QED BY <1>3, <2>1
<1>6. ASSUME NEW y \in 1..H PROVE Covered(t, W, y) = Covered(t, 0, y + 1)
  <2>1. \A i \in 1..W, j \in 1..H : (j < y \/ (j = y /\ i <= W)) <=> (j < y + 1 \/ (j = y + 1 /\ i <= 0))
    BY <1>2
  <2>2. ASSUME NEW p PROVE p \in Covered(t, W, y) <=> p \in Covered(t, 0, y + 1) BY <1>3, <2>1
  <2> QED BY <2>2
<1>7. Covered(t, 0, H + 1) = Covers(t)
  <2>1. \A i \in 1..W, j \in 1..H : j < H + 1 BY <1>2
  <2>2. ASSUME NEW p PROVE p \in Covered(t, 0, H + 1) <=> p \in Covers(t) BY <1>3, <1>4, <2>1
  <2> QED BY <2>2
<1> QED BY <1>5, <1>6, <1>7 DEF W, H

FilterSet == {None, Up, Prev}

\* One pixel of a row, and the row (mm_tile_decode).
DrawPixel(f, t, y, q, x) ==
    LET n == NextValue(q)
        ref == CASE f = None -> Base
                 [] f = Up -> q.pic[RowOf(t, y - 1)[x]]
                 [] f = Prev -> q.pic[RowOf(t, y)[x]]
    IN IF ~q.ok \/ ~n.ok THEN [q EXCEPT !.ok = FALSE]
       ELSE [n EXCEPT !.pic[RowOf(t, y)[x]] = Add(n.prev, ref)]
DrawRow(f, t, y, q) ==
    FoldLeft(LAMBDA d, x : DrawPixel(f, t, y, d, x), q, [x \in DOMAIN RowOf(t, y) |-> x])

LEMMA RowOfIsAt ==
    ASSUME NEW t \in Tiles, NEW y \in Int, NEW x \in 1..TileW(t)
    PROVE  RowOf(t, y)[x] = At(t, x, y) /\ DOMAIN RowOf(t, y) = 1..TileW(t)
BY DEF RowOf, At

LEMMA AddType ==
    ASSUME NEW a \in PixelValues, NEW b \in PixelValues
    PROVE  Add(a, b) \in PixelValues
<1>1. /\ ColourOf(a) \in Int /\ AlphaOf(a) \in Int /\ ColourOf(b) \in Int /\ AlphaOf(b) \in Int
  BY PixelParts, PixelAssumption
<1> DEFINE m == AlphaOf(a) + AlphaOf(b)
           c == ColourOf(a) + ColourOf(b)
<1>2. m \in Int /\ c \in Int BY <1>1
<1> HIDE DEF m, c
<1>3. Pixel(m, c) \in PixelValues BY <1>2, PixelOfParts
<1> QED BY <1>3 DEF Add, m, c

LEMMA BaseIsPixel == Base \in PixelValues
<1>1. (Alphas - 1) * Colours = Alphas * Colours - Colours BY PixelAssumption
<1>2. (Alphas - 1) * Colours >= 0 /\ Alphas * Colours \in Int BY PixelAssumption
<1> QED BY <1>1, <1>2, PixelAssumption DEF Base, Opaque, PixelValues

\* What a pixel is predicted from, for the reader.
RefDrawn(f, t, y, q, x) ==
    CASE f = None -> Base [] f = Up -> q.pic[At(t, x, y - 1)] [] f = Prev -> q.pic[At(t, x, y)]

DrawnPixel(f, t, y, q, x) ==
    LET n == NextValue(q)
    IN IF q.ok /\ n.ok
       THEN Drawing(n.index, n.prev, n.run, n.ops, n.ok,
                    [q.pic EXCEPT ![At(t, x, y)] = Add(n.prev, RefDrawn(f, t, y, q, x))])
       ELSE Drawing(q.index, q.prev, q.run, q.ops, FALSE, q.pic)

LEMMA DrawPixelCases ==
    ASSUME NEW t \in Tiles, NEW y \in 1..TileH(t), NEW x \in 1..TileW(t),
           NEW f \in FilterSet, f = Up => y > 1, NEW d \in DrawStates
    PROVE  /\ RefDrawn(f, t, y, d, x) \in PixelValues
           /\ DrawPixel(f, t, y, d, x) = DrawnPixel(f, t, y, d, x)
<1> DEFINE n == NextValue(d)
           ref == RefDrawn(f, t, y, d, x)
           at == At(t, x, y)
           new == [n.pic EXCEPT ![at] = Add(n.prev, ref)]
<1>1. y \in Int /\ y - 1 \in Int BY TileShape, PictureAssumption
<1>2. RowOf(t, y)[x] = at /\ RowOf(t, y - 1)[x] = At(t, x, y - 1) BY <1>1, RowOfIsAt
<1>3. at \in Pixels /\ (f = Up => At(t, x, y - 1) \in Pixels)
  <2>1. f = Up => y - 1 \in 1..TileH(t) BY <1>1, TileShape, PictureAssumption
  <2> DEFINE j == y - 1
  <2> HIDE DEF j
  <2>2. f = Up => At(t, x, j) \in Pixels BY <2>1, AtIsPixel DEF j
  <2> QED BY <2>2, AtIsPixel DEF j
<1>4. d.pic \in Picture BY DrawingType
<1>5. ref \in PixelValues
  BY <1>3, <1>4, BaseIsPixel DEF RefDrawn, FilterSet, Picture, None, Up, Prev
<1>6. DrawPixel(f, t, y, d, x) = IF ~d.ok \/ ~n.ok THEN [d EXCEPT !.ok = FALSE]
                                 ELSE [n EXCEPT !.pic[at] = Add(n.prev, ref)]
  BY <1>2 DEF DrawPixel, RefDrawn
<1>7. n \in DrawStates /\ n.pic = d.pic BY NextValueType
<1> HIDE DEF n, ref, at
<1>8. n = Drawing(n.index, n.prev, n.run, n.ops, n.ok, n.pic) BY <1>7, DrawingType
<1>9. d = Drawing(d.index, d.prev, d.run, d.ops, d.ok, d.pic) BY DrawingType
<1>10. [d EXCEPT !.ok = FALSE] = Drawing(d.index, d.prev, d.run, d.ops, FALSE, d.pic)
  <2> DEFINE no == FALSE
  <2> HIDE DEF no
  <2>1. [d EXCEPT !.ok = no] = Drawing(d.index, d.prev, d.run, d.ops, no, d.pic)
    BY <1>9 DEF Drawing
  <2> QED BY <2>1 DEF no
<1>11. [n EXCEPT !.pic[at] = Add(n.prev, ref)] = Drawing(n.index, n.prev, n.run, n.ops, n.ok, new)
  BY <1>8 DEF Drawing
<1>12. new = [d.pic EXCEPT ![at] = Add(n.prev, ref)] BY <1>7
<1>13. CASE ~(d.ok /\ n.ok)
  <2>1. DrawPixel(f, t, y, d, x) = [d EXCEPT !.ok = FALSE] BY <1>6, <1>13
  <2> QED BY <1>5, <1>10, <1>13, <2>1 DEF n, ref, DrawnPixel
<1>14. CASE d.ok /\ n.ok
  <2>1. DrawPixel(f, t, y, d, x) = [n EXCEPT !.pic[at] = Add(n.prev, ref)] BY <1>6, <1>14
  <2> QED BY <1>5, <1>11, <1>12, <1>14, <2>1 DEF n, ref, at, DrawnPixel
<1> QED BY <1>13, <1>14

LEMMA DrawPixelType ==
    ASSUME NEW t \in Tiles, NEW y \in 1..TileH(t), NEW x \in 1..TileW(t),
           NEW f \in FilterSet, f = Up => y > 1, NEW d \in DrawStates
    PROVE  DrawPixel(f, t, y, d, x) \in DrawStates
<1> DEFINE n == NextValue(d)
           no == FALSE
           ref == RefDrawn(f, t, y, d, x)
           at == At(t, x, y)
           px == Add(n.prev, ref)
           new == [d.pic EXCEPT ![at] = px]
<1>1. n \in DrawStates BY NextValueType
<1>2. ref \in PixelValues /\ DrawPixel(f, t, y, d, x) = DrawnPixel(f, t, y, d, x)
  BY DrawPixelCases
<1>3. at \in Pixels BY AtIsPixel
<1> HIDE DEF n
<1>4. /\ d.index \in Indexes /\ d.prev \in PixelValues /\ d.run \in Int
      /\ d.ops \in Seq(Operations) /\ d.ok \in BOOLEAN /\ d.pic \in Picture
  BY DrawingType
<1>5. /\ n.index \in Indexes /\ n.prev \in PixelValues /\ n.run \in Int
      /\ n.ops \in Seq(Operations) /\ n.ok \in BOOLEAN
  BY <1>1, DrawingType
<1> HIDE DEF ref, at
<1>6. px \in PixelValues BY <1>2, <1>5, AddType
<1> HIDE DEF px
<1>7. new \in Picture BY <1>3, <1>4, <1>6 DEF Picture
<1> HIDE DEF new
<1>8. no \in BOOLEAN OBVIOUS
<1>9. CASE ~(d.ok /\ n.ok)
  <2>1. DrawPixel(f, t, y, d, x) = Drawing(d.index, d.prev, d.run, d.ops, no, d.pic)
    BY <1>2, <1>9 DEF n, DrawnPixel
  <2> HIDE DEF no
  <2> QED BY <1>4, <1>8, <2>1, DrawingType
<1>10. CASE d.ok /\ n.ok
  <2>1. DrawPixel(f, t, y, d, x) = Drawing(n.index, n.prev, n.run, n.ops, n.ok, new)
    BY <1>2, <1>10 DEF n, new, px, ref, at, DrawnPixel
  <2> QED BY <1>5, <1>7, <2>1, DrawingType
<1> QED BY <1>9, <1>10

\* D[x] is what there is after x pixels of a row.
DrawingRow(D, f, t, y, d) ==
    /\ D \in [0..TileW(t) -> DrawStates] /\ D[0] = d
    /\ \A x \in 1..TileW(t) : D[x] = DrawPixel(f, t, y, D[x - 1], x)

LEMMA DrawRowChain ==
    ASSUME NEW t \in Tiles, NEW y \in 1..TileH(t), NEW f \in FilterSet, f = Up => y > 1,
           NEW d \in DrawStates
    PROVE  \E D : DrawingRow(D, f, t, y, d) /\ DrawRow(f, t, y, d) = D[TileW(t)]
<1> DEFINE S == DrawStates
           n == TileW(t)
           One(q, x) == DrawPixel(f, t, y, q, x)
           g == [i \in 1..n |-> [q \in S |-> One(q, i)]]
           all == [x \in DOMAIN RowOf(t, y) |-> x]
           Body(h) == [c \in SUBSET (1..n) |->
                          IF c = {} THEN d ELSE One(h[c \ {Max(c)}], all[Max(c)])]
           it == CHOOSE h : h = Body(h)
<1>1. ASSUME NEW q \in S, NEW i \in 1..n PROVE One(q, i) \in S BY DrawPixelType
<1>2. d \in S /\ n \in Nat BY TileShape, PictureAssumption
<1>3. DOMAIN all = 1..n /\ \A x \in 1..n : all[x] = x
  <2>1. DOMAIN RowOf(t, y) = 1..n BY DEF RowOf
  <2> QED BY <2>1
<1>4. DrawRow(f, t, y, d) = it[1..n] BY <1>3 DEF DrawRow, FoldLeft, MapThenFoldSet
<1> HIDE DEF S, n, One, all
<1>5. g \in [1..n -> [S -> S]] BY <1>1
<1>6. PICK h : Iterates(h, n, S, d, g)
  <2> HIDE DEF g
  <2> QED BY <1>2, <1>5, IterationExists
<1>7. h = Body(h)
  <2>1. ASSUME NEW c \in SUBSET (1..n), c # {}
        PROVE  h[c] = One(h[c \ {Max(c)}], all[Max(c)])
    <3>1. Max(c) \in 1..n /\ h[c] = g[Max(c)][h[c \ {Max(c)}]] BY <1>6, <2>1 DEF Iterates
    <3>2. h[c \ {Max(c)}] \in S BY <1>6 DEF Iterates
    <3> QED BY <1>3, <3>1, <3>2
  <2> HIDE DEF g
  <2> QED BY <1>6, <2>1 DEF Iterates
<1>8. it = Body(it)
  <2> HIDE DEF Body
  <2> QED BY <1>7
<1> HIDE DEF it
<1>9. PICK F : Chain(F, n, S, d, g) /\ it[1..n] = F[n]
  <2>1. it[{}] = d BY <1>8
  <2>2. ASSUME NEW c \in SUBSET (1..n), c # {}, Max(c) \in c, it[c \ {Max(c)}] \in S
        PROVE  it[c] = g[Max(c)][it[c \ {Max(c)}]]
    <3>1. it[c] = One(it[c \ {Max(c)}], all[Max(c)]) BY <1>8, <2>2
    <3> QED BY <1>3, <2>2, <3>1
  <2> HIDE DEF g
  <2>3. Follows(it, n, S, d, g) BY <2>1, <2>2 DEF Follows
  <2> QED BY <1>2, <1>5, <2>3, IterationIsChain
<1>10. ASSUME NEW k \in 1..n PROVE F[k] = One(F[k - 1], k)
  <2>1. F[k - 1] \in S BY <1>2, <1>9 DEF Chain
  <2>2. F[k] = g[k][F[k - 1]]
    <3> HIDE DEF g
    <3> QED BY <1>9 DEF Chain
  <2> QED BY <2>1, <2>2
<1>11. F \in [0..n -> S] /\ F[0] = d BY <1>9 DEF Chain
<1>12. DrawingRow(F, f, t, y, d) BY <1>10, <1>11 DEF DrawingRow, One, n, S
<1> QED BY <1>4, <1>9, <1>12 DEF n

\* What a pixel is predicted from, for the writer, and the values of a row.
RefCoded(f, pic, last, t, y, alpha, x) ==
    CASE f = None -> Base
      [] f = Up -> Coded(pic[At(t, x, y - 1)], alpha)
      [] f = Prev -> Coded(last[At(t, x, y)], alpha)

LEMMA FilteredValues ==
    ASSUME NEW pic \in Picture, NEW last \in Picture, NEW t \in Tiles, NEW y \in 1..TileH(t),
           NEW f \in FilterSet, f = Up => y > 1, NEW alpha \in BOOLEAN
    PROVE  /\ Filtered(pic, last, t, y, f, alpha) \in [1..TileW(t) -> PixelValues]
           /\ \A x \in 1..TileW(t) :
                 /\ RefCoded(f, pic, last, t, y, alpha, x) \in PixelValues
                 /\ Filtered(pic, last, t, y, f, alpha)[x] =
                        Sub(Coded(pic[At(t, x, y)], alpha), RefCoded(f, pic, last, t, y, alpha, x))
<1> DEFINE Value(x) == Sub(Coded(pic[At(t, x, y)], alpha), RefCoded(f, pic, last, t, y, alpha, x))
<1>1. TileH(t) \in Nat /\ y \in Int /\ y - 1 \in Int BY TileShape, PictureAssumption
<1>2. DOMAIN RowOf(t, y) = 1..TileW(t) BY DEF RowOf
<1>3. ASSUME NEW x \in 1..TileW(t)
      PROVE  /\ RefCoded(f, pic, last, t, y, alpha, x) \in PixelValues
             /\ Filtered(pic, last, t, y, f, alpha)[x] = Value(x)
             /\ Value(x) \in PixelValues
  <2>1. RowOf(t, y)[x] = At(t, x, y) /\ RowOf(t, y - 1)[x] = At(t, x, y - 1)
    BY <1>1, RowOfIsAt
  <2>2. At(t, x, y) \in Pixels BY AtIsPixel
  <2>3. f = Up => At(t, x, y - 1) \in Pixels
    <3> DEFINE j == y - 1
    <3>1. f = Up => j \in 1..TileH(t) BY <1>1
    <3> HIDE DEF j
    <3>2. f = Up => At(t, x, j) \in Pixels BY <3>1, AtIsPixel
    <3> QED BY <3>2 DEF j
  <2>4. \A p \in Pixels : Coded(pic[p], alpha) \in PixelValues /\ Coded(last[p], alpha) \in PixelValues
    BY CodedPixel DEF Picture
  <2>5. RefCoded(f, pic, last, t, y, alpha, x) \in PixelValues
    BY <2>2, <2>3, <2>4, BaseIsPixel DEF RefCoded, FilterSet, None, Up, Prev
  <2>6. Filtered(pic, last, t, y, f, alpha)[x] = Value(x)
    BY <1>2, <2>1 DEF Filtered, RefCoded
  <2>7. Value(x) \in PixelValues BY <2>2, <2>4, <2>5, SubAdd
  <2> QED BY <2>5, <2>6, <2>7
<1>4. Filtered(pic, last, t, y, f, alpha) =
          [x \in 1..TileW(t) |-> Filtered(pic, last, t, y, f, alpha)[x]]
  <2> DEFINE row == RowOf(t, y)
             Less(x) ==
                 Sub(Coded(pic[row[x]], alpha),
                     CASE f = None -> Base
                       [] f = Up -> Coded(pic[RowOf(t, y - 1)[x]], alpha)
                       [] f = Prev -> Coded(last[row[x]], alpha))
             all == Filtered(pic, last, t, y, f, alpha)
  <2>1. all = [x \in DOMAIN row |-> Less(x)] BY DEF Filtered
  <2> HIDE DEF all, row, Less
  <2>2. all = [x \in DOMAIN row |-> all[x]] BY <2>1
  <2> QED BY <1>2, <2>2 DEF all, row
<1> HIDE DEF Value
<1>5. Filtered(pic, last, t, y, f, alpha) \in [1..TileW(t) -> PixelValues] BY <1>3, <1>4
<1> QED BY <1>3, <1>5 DEF Value

\* One pixel: what is drawn is what was given.
LEMMA PixelComesBack ==
    ASSUME NEW pic \in Picture, NEW last \in Picture, NEW over \in Picture, NEW t \in Tiles,
           NEW y \in 1..TileH(t), NEW x \in 1..TileW(t), NEW f \in FilterSet, f = Up => y > 1,
           NEW alpha \in BOOLEAN, f = Prev => over[At(t, x, y)] = Coded(last[At(t, x, y)], alpha),
           NEW s \in CodeStates, NEW d \in DrawStates, NEW ops \in Seq(Operations),
           NEW val \in PixelValues,
           val = Sub(Coded(pic[At(t, x, y)], alpha), RefCoded(f, pic, last, t, y, alpha, x)),
           Match(s, d, ops), Ahead(CodeValue(s, val), ops),
           d.pic = Painted(over, Covered(t, x - 1, y), pic, alpha)
    PROVE  /\ Match(CodeValue(s, val), DrawPixel(f, t, y, d, x), ops)
           /\ DrawPixel(f, t, y, d, x).pic = Painted(over, Covered(t, x, y), pic, alpha)
<1> DEFINE n == NextValue(d)
           ref == RefDrawn(f, t, y, d, x)
           at == At(t, x, y)
           new == [d.pic EXCEPT ![at] = Add(n.prev, ref)]
           e == CodeValue(s, val)
           end == DrawPixel(f, t, y, d, x)
           px == Coded(pic[at], alpha)
<1>1. n.prev = val /\ Match(e, n, ops) BY NextValueIsCodeValue
<1>2. d.ok /\ n.ok BY <1>1 DEF Match
<1>3. /\ Painted(over, Covered(t, x, y), pic, alpha) = [d.pic EXCEPT ![at] = px]
      /\ d.pic[at] = over[at]
      /\ y > 1 => d.pic[At(t, x, y - 1)] = Coded(pic[At(t, x, y - 1)], alpha)
  BY PaintedOneMore
<1>4. ref = RefCoded(f, pic, last, t, y, alpha, x) /\ ref \in PixelValues
  <2>1. ref \in PixelValues BY DrawPixelCases
  <2> QED BY <1>3, <2>1 DEF RefDrawn, RefCoded, FilterSet, None, Up, Prev
<1>5. px \in PixelValues
  <2>1. at \in Pixels BY AtIsPixel
  <2> QED BY <2>1, CodedPixel DEF Picture
<1>6. Add(val, ref) = px
  <2> HIDE DEF px, ref
  <2>1. val = Sub(px, ref) BY <1>4 DEF px
  <2> QED BY <1>4, <1>5, <2>1, SubAdd
<1>7. end = DrawnPixel(f, t, y, d, x) BY DrawPixelCases
<1>8. end = Drawing(n.index, n.prev, n.run, n.ops, n.ok, new)
  <2> HIDE DEF end
  <2> QED BY <1>2, <1>7 DEF DrawnPixel
<1> HIDE DEF n, e, end, ref
<1>9. new = [d.pic EXCEPT ![at] = px] BY <1>1, <1>6
<1> HIDE DEF new, px
<1>10. end.pic = new /\ end.index = n.index /\ end.prev = n.prev /\ end.run = n.run
       /\ end.ops = n.ops /\ end.ok = n.ok
  BY <1>8 DEF Drawing
<1>11. Match(e, end, ops) BY <1>1, <1>10 DEF Match
<1> QED BY <1>3, <1>9, <1>10, <1>11 DEF e, end

\* The row after y has y on it.
CodedRow(s, f, pic, last, t, y, alpha) ==
    FoldLeft(CodeValue, s, Filtered(pic, last, t, y, f, alpha))

LEMMA CodedRowIsCoding ==
    ASSUME NEW pic \in Picture, NEW last \in Picture, NEW t \in Tiles, NEW y \in 1..TileH(t),
           NEW f \in FilterSet, f = Up => y > 1, NEW alpha \in BOOLEAN, NEW s \in CodeStates
    PROVE  /\ \E F : /\ Coding(F, s, Filtered(pic, last, t, y, f, alpha), TileW(t))
                     /\ CodedRow(s, f, pic, last, t, y, alpha) = F[TileW(t)]
           /\ CodedRow(s, f, pic, last, t, y, alpha) \in CodeStates
<1> DEFINE vals == Filtered(pic, last, t, y, f, alpha)
           n == TileW(t)
<1>1. vals \in [1..n -> PixelValues] BY FilteredValues
<1>2. n \in Nat BY TileShape, PictureAssumption
<1> HIDE DEF vals, n
<1>3. PICK F : Coding(F, s, vals, n) /\ FoldLeft(CodeValue, s, vals) = F[n]
  BY <1>1, <1>2, CodeRow
<1>4. F[n] \in CodeStates BY <1>2, <1>3 DEF Coding
<1> QED BY <1>3, <1>4 DEF CodedRow, vals, n

LEMMA RowIsAhead ==
    ASSUME NEW pic \in Picture, NEW last \in Picture, NEW t \in Tiles, NEW y \in 1..TileH(t),
           NEW f \in FilterSet, f = Up => y > 1, NEW alpha \in BOOLEAN, NEW s \in CodeStates,
           NEW ops \in Seq(Operations), Ahead(CodedRow(s, f, pic, last, t, y, alpha), ops)
    PROVE  Ahead(s, ops)
<1> DEFINE vals == Filtered(pic, last, t, y, f, alpha)
           n == TileW(t)
<1>1. vals \in [1..n -> PixelValues] BY FilteredValues
<1>2. n \in Nat BY TileShape, PictureAssumption
<1>3. PICK F : Coding(F, s, vals, n) /\ CodedRow(s, f, pic, last, t, y, alpha) = F[n]
  BY CodedRowIsCoding
<1> HIDE DEF vals, n
<1>4. \A k \in 0..n : Ahead(F[k], ops) BY <1>1, <1>2, <1>3, AheadOfRow
<1>5. F[0] = s /\ 0 \in 0..n BY <1>2, <1>3 DEF Coding
<1> QED BY <1>4, <1>5

\* A row: a reader that is where the writer was draws it over the rows above.
LEMMA RowComesBack ==
    ASSUME NEW pic \in Picture, NEW last \in Picture, NEW over \in Picture, NEW t \in Tiles,
           NEW y \in 1..TileH(t), NEW f \in FilterSet, f = Up => y > 1, NEW alpha \in BOOLEAN,
           f = Prev => \A p \in Covers(t) : over[p] = Coded(last[p], alpha),
           NEW s \in CodeStates, NEW d \in DrawStates, NEW ops \in Seq(Operations),
           Match(s, d, ops), Ahead(CodedRow(s, f, pic, last, t, y, alpha), ops),
           d.pic = Painted(over, Covered(t, 0, y), pic, alpha)
    PROVE  /\ Match(CodedRow(s, f, pic, last, t, y, alpha), DrawRow(f, t, y, d), ops)
           /\ DrawRow(f, t, y, d).pic = Painted(over, Covered(t, 0, y + 1), pic, alpha)
           /\ DrawRow(f, t, y, d) \in DrawStates
<1> DEFINE vals == Filtered(pic, last, t, y, f, alpha)
           n == TileW(t)
<1>1. vals \in [1..n -> PixelValues] BY FilteredValues
<1>2. n \in Nat BY TileShape, PictureAssumption
<1>3. PICK F : Coding(F, s, vals, n) /\ CodedRow(s, f, pic, last, t, y, alpha) = F[n]
  BY CodedRowIsCoding
<1>4. PICK D : DrawingRow(D, f, t, y, d) /\ DrawRow(f, t, y, d) = D[n] BY DrawRowChain
<1>5. \A k \in 0..n : Ahead(F[k], ops)
  <2> HIDE DEF vals, n
  <2> QED BY <1>1, <1>2, <1>3, AheadOfRow
<1> DEFINE Good(k) == /\ Match(F[k], D[k], ops)
                      /\ D[k].pic = Painted(over, Covered(t, k, y), pic, alpha)
           T == {k \in Nat : k <= n => Good(k)}
<1>6. 0 \in T
  <2>1. F[0] = s /\ D[0] = d BY <1>3, <1>4 DEF Coding, DrawingRow
  <2>2. Good(0) BY <2>1
  <2> HIDE DEF Good
  <2> QED BY <2>2
<1>7. ASSUME NEW k \in Nat, k \in T PROVE k + 1 \in T
  <2> SUFFICES ASSUME k + 1 <= n PROVE Good(k + 1)
    <3> HIDE DEF Good
    <3> QED OBVIOUS
  <2> DEFINE x == k + 1
  <2>1. x \in 1..n /\ x - 1 = k /\ k \in 0..n /\ x \in 0..n BY <1>2
  <2>2. Good(k)
    <3> HIDE DEF Good
    <3> QED BY <1>2, <1>7
  <2>3. /\ F[k] \in CodeStates /\ F[x] = CodeValue(F[k], vals[x])
        /\ D[k] \in DrawStates /\ D[x] = DrawPixel(f, t, y, D[k], x)
    <3> HIDE DEF x, n, vals
    <3>1. F[x] = CodeValue(F[x - 1], vals[x]) /\ F[k] \in CodeStates
      BY <1>3, <2>1 DEF Coding
    <3>2. D[x] = DrawPixel(f, t, y, D[x - 1], x) /\ D[k] \in DrawStates
      BY <1>4, <2>1 DEF DrawingRow, n
    <3> QED BY <2>1, <3>1, <3>2
  <2>4. Ahead(F[x], ops)
    <3> HIDE DEF x, n
    <3> QED BY <1>5, <2>1
  <2>5. /\ vals[x] \in PixelValues
        /\ vals[x] = Sub(Coded(pic[At(t, x, y)], alpha), RefCoded(f, pic, last, t, y, alpha, x))
    <3>1. \A z \in 1..TileW(t) :
              Filtered(pic, last, t, y, f, alpha)[z] =
                  Sub(Coded(pic[At(t, z, y)], alpha), RefCoded(f, pic, last, t, y, alpha, z))
      BY FilteredValues
    <3>2. vals[x] \in PixelValues
      <4> HIDE DEF x, vals, n
      <4> QED BY <1>1, <2>1
    <3> HIDE DEF x
    <3>3. x \in 1..TileW(t) BY <2>1
    <3> QED BY <3>1, <3>2, <3>3
  <2>6. f = Prev => over[At(t, x, y)] = Coded(last[At(t, x, y)], alpha)
    <3> HIDE DEF x
    <3>1. At(t, x, y) \in Pixels BY <2>1, AtIsPixel
    <3>2. At(t, x, y) \in Covers(t) BY <2>1, <3>1 DEF Covers
    <3> QED BY <3>2
  <2>7. D[k].pic = Painted(over, Covered(t, x - 1, y), pic, alpha) BY <2>1, <2>2
  <2> HIDE DEF x, vals
  <2>8. /\ Match(CodeValue(F[k], vals[x]), DrawPixel(f, t, y, D[k], x), ops)
        /\ DrawPixel(f, t, y, D[k], x).pic = Painted(over, Covered(t, x, y), pic, alpha)
    <3>1. Match(F[k], D[k], ops) /\ Ahead(CodeValue(F[k], vals[x]), ops) BY <2>2, <2>3, <2>4
    <3> HIDE DEF Good
    <3> QED BY <2>1, <2>3, <2>5, <2>6, <2>7, <3>1, PixelComesBack, SMTT(30)
  <2> QED BY <2>3, <2>8 DEF x
<1> HIDE DEF T, Good
<1>8. n \in T BY <1>2, <1>6, <1>7, Induction
<1>9. Good(n) BY <1>2, <1>8 DEF T
<1>10. Covered(t, n, y) = Covered(t, 0, y + 1) BY CoveredRow
<1>11. D[n] \in DrawStates BY <1>2, <1>4 DEF DrawingRow
<1> QED BY <1>3, <1>4, <1>9, <1>10, <1>11 DEF Good

-----------------------------------------------------------------------------
(* A tile, written: every row takes the cheapest filter *)

LEMMA CostIsNat ==
    ASSUME NEW s \in CodeStates
    PROVE  Cost(s) \in Nat
<1> DEFINE S == Nat
           base == s.run
           q == s.ops
           n == Len(q)
           One(c, op) == c + Bytes(op) * MaxRun
           g == [i \in 1..n |-> [c \in S |-> One(c, q[i])]]
           Body(h) == [c \in SUBSET (1..n) |->
                          IF c = {} THEN base ELSE One(h[c \ {Max(c)}], q[Max(c)])]
           it == CHOOSE h : h = Body(h)
<1>1. q \in Seq(Operations) /\ base \in S BY DEF CodeStates
<1>2. n \in Nat /\ DOMAIN q = 1..n BY <1>1
<1>3. ASSUME NEW c \in S, NEW op PROVE One(c, op) \in S
  <2>1. Bytes(op) \in Nat BY DEF Bytes
  <2>2. Bytes(op) * MaxRun \in Nat BY <2>1, CodeAssumption
  <2> QED BY <2>2
<1>4. Cost(s) = it[1..n] BY <1>2 DEF Cost, FoldLeft, MapThenFoldSet
<1> HIDE DEF n, q, One, S, base
<1>5. g \in [1..n -> [S -> S]] BY <1>3
<1>6. PICK h : Iterates(h, n, S, base, g)
  <2> HIDE DEF g
  <2> QED BY <1>1, <1>2, <1>5, IterationExists
<1>7. h = Body(h)
  <2>1. ASSUME NEW c \in SUBSET (1..n), c # {}
        PROVE  h[c] = One(h[c \ {Max(c)}], q[Max(c)])
    <3>1. Max(c) \in 1..n /\ h[c] = g[Max(c)][h[c \ {Max(c)}]] BY <1>6, <2>1 DEF Iterates
    <3>2. h[c \ {Max(c)}] \in S BY <1>6 DEF Iterates
    <3> QED BY <3>1, <3>2
  <2> HIDE DEF g
  <2> QED BY <1>6, <2>1 DEF Iterates
<1>8. it = Body(it)
  <2> HIDE DEF Body
  <2> QED BY <1>7
<1> HIDE DEF it
<1>9. PICK F : Chain(F, n, S, base, g) /\ it[1..n] = F[n]
  <2>1. it[{}] = base BY <1>8
  <2>2. ASSUME NEW c \in SUBSET (1..n), c # {}, Max(c) \in c, it[c \ {Max(c)}] \in S
        PROVE  it[c] = g[Max(c)][it[c \ {Max(c)}]]
    <3>1. it[c] = One(it[c \ {Max(c)}], q[Max(c)]) BY <1>8, <2>2
    <3> QED BY <2>2, <3>1
  <2> HIDE DEF g
  <2>3. Follows(it, n, S, base, g) BY <2>1, <2>2 DEF Follows
  <2> QED BY <1>1, <1>2, <1>5, <2>3, IterationIsChain
<1>10. F[n] \in Nat BY <1>2, <1>9 DEF Chain, S
<1> QED BY <1>4, <1>9, <1>10

LEMMA CheapestExists ==
    ASSUME NEW Q, Q \subseteq Nat, Q # {}, NEW cost \in [Q -> Nat]
    PROVE  Cheapest(cost) \in Q
<1> DEFINE costs == {cost[f] : f \in Q}
<1>1. costs \subseteq Nat /\ costs # {} OBVIOUS
<1>2. PICK c \in costs : \A d \in costs : c <= d
  <2> HIDE DEF costs
  <2> QED BY <1>1, LeastElement
<1> DEFINE least == {f \in Q : cost[f] = c}
<1>3. least \subseteq Nat /\ least # {} BY <1>2
<1>4. PICK f \in least : \A g \in least : f <= g
  <2> HIDE DEF least
  <2> QED BY <1>3, LeastElement
<1>5. ASSUME NEW g \in Q PROVE cost[f] < cost[g] \/ (cost[f] = cost[g] /\ f <= g)
  <2>1. c <= cost[g] /\ cost[f] = c /\ c \in Nat /\ cost[g] \in Nat BY <1>1, <1>2, <1>4
  <2>2. CASE cost[g] = c BY <1>4, <2>1, <2>2
  <2>3. CASE cost[g] # c BY <2>1, <2>3
  <2> QED BY <2>2, <2>3
<1>6. f \in Q /\ DOMAIN cost = Q BY <1>4
<1> QED BY <1>5, <1>6 DEF Cheapest

Accs == [filters : Seq(FilterSet), s : CodeStates]
EncodeRow(pic, last, t, prev, alpha, fast, acc, y) ==
    TakeCheapest(acc, [f \in Filters(y, prev, fast) |-> CodedRow(acc.s, f, pic, last, t, y, alpha)])

\* Row y is coded with the filter f, that there is for it.
RowTaken(f, a, b, pic, last, t, prev, alpha, y) ==
    /\ f \in FilterSet /\ (f = Up => y > 1) /\ (f = Prev => prev)
    /\ b = [filters |-> Append(a.filters, f), s |-> CodedRow(a.s, f, pic, last, t, y, alpha)]

LEMMA EncodeRowTakes ==
    ASSUME NEW pic \in Picture, NEW last \in Picture, NEW t \in Tiles, NEW y \in 1..TileH(t),
           NEW prev, NEW alpha \in BOOLEAN, NEW fast, NEW acc \in Accs
    PROVE  /\ \E f : RowTaken(f, acc, EncodeRow(pic, last, t, prev, alpha, fast, acc, y),
                              pic, last, t, prev, alpha, y)
           /\ EncodeRow(pic, last, t, prev, alpha, fast, acc, y) \in Accs
<1> DEFINE Q == Filters(y, prev, fast)
           try == [f \in Q |-> CodedRow(acc.s, f, pic, last, t, y, alpha)]
           cost == [f \in DOMAIN try |-> Cost(try[f])]
           f == Cheapest(cost)
           b == EncodeRow(pic, last, t, prev, alpha, fast, acc, y)
<1>1. acc.s \in CodeStates /\ acc.filters \in Seq(FilterSet) BY DEF Accs
<1>2. Q \subseteq FilterSet /\ \A e \in Q : (e = Up => y > 1) /\ (e = Prev => prev)
  BY DEF Filters, FilterSet
<1>3. Q # {}
  <2>1. TileH(t) \in Nat BY TileShape, PictureAssumption
  <2>2. CASE fast /\ prev
    <3>1. Prev \in Q BY <2>2 DEF Filters, None, Up, Prev
    <3> QED BY <3>1
  <2>3. CASE fast /\ ~prev /\ y > 1
    <3>1. Up \in Q BY <2>3 DEF Filters, None, Up, Prev
    <3> QED BY <3>1
  <2>4. CASE ~fast \/ (~prev /\ ~(y > 1))
    <3>1. None \in Q BY <2>4 DEF Filters, None, Up, Prev
    <3> QED BY <3>1
  <2> QED BY <2>2, <2>3, <2>4
<1> HIDE DEF Q
<1>4. ASSUME NEW e \in Q PROVE CodedRow(acc.s, e, pic, last, t, y, alpha) \in CodeStates
  <2>1. e \in FilterSet /\ (e = Up => y > 1) BY <1>2
  <2> QED BY <1>1, <2>1, CodedRowIsCoding
<1>5. cost \in [Q -> Nat] BY <1>4, CostIsNat
<1> HIDE DEF cost
<1>6. f \in Q
  <2>1. Q \subseteq Nat BY <1>2 DEF FilterSet, None, Up, Prev
  <2> QED BY <1>3, <1>5, <2>1, CheapestExists
<1>7. b = [filters |-> Append(acc.filters, f), s |-> try[f]]
  BY DEF EncodeRow, TakeCheapest, Taken, cost, Q
<1> HIDE DEF f, b
<1>8. b = [filters |-> Append(acc.filters, f), s |-> CodedRow(acc.s, f, pic, last, t, y, alpha)]
  BY <1>6, <1>7
<1>9. f \in FilterSet /\ (f = Up => y > 1) /\ (f = Prev => prev) BY <1>2, <1>6
<1>10. RowTaken(f, acc, b, pic, last, t, prev, alpha, y) BY <1>8, <1>9 DEF RowTaken
<1>11. b \in Accs
  <2> DEFINE filters == Append(acc.filters, f)
             s == CodedRow(acc.s, f, pic, last, t, y, alpha)
  <2>1. filters \in Seq(FilterSet) /\ s \in CodeStates BY <1>1, <1>4, <1>6, <1>9
  <2> HIDE DEF filters, s
  <2>2. [filters |-> filters, s |-> s] \in Accs BY <2>1 DEF Accs
  <2> QED BY <1>8, <2>2 DEF filters, s
<1> QED BY <1>10, <1>11 DEF b

LEMMA FirstCode == CodeInit \in CodeStates
<1>1. 0 \in PixelValues
  <2>1. Alphas * Colours - 1 >= 0 /\ Alphas * Colours \in Int BY PixelAssumption
  <2> QED BY <2>1 DEF PixelValues
<1>2. [h \in 0..HashSize - 1 |-> 0] \in Indexes BY <1>1 DEF Indexes
<1> DEFINE index == [h \in 0..HashSize - 1 |-> 0]
           none == <<>>
<1>3. index \in Indexes /\ none \in Seq(Operations) BY <1>2
<1> HIDE DEF index, none
<1>4. [index |-> index, prev |-> 0, run |-> 0, ops |-> none] \in CodeStates
  BY <1>1, <1>3 DEF CodeStates
<1> QED BY <1>4 DEF CodeInit, index, none

\* A[y] is what there is after y rows.
Encoding(A, pic, last, t, prev, alpha) ==
    /\ A \in [0..TileH(t) -> Accs] /\ A[0] = [filters |-> <<>>, s |-> CodeInit]
    /\ \A y \in 1..TileH(t) : \E f : RowTaken(f, A[y - 1], A[y], pic, last, t, prev, alpha, y)

LEMMA TileEncodeChain ==
    ASSUME NEW pic \in Picture, NEW last \in Picture, NEW t \in Tiles,
           NEW prev, NEW alpha \in BOOLEAN, NEW fast
    PROVE  \E A : /\ Encoding(A, pic, last, t, prev, alpha)
                  /\ TileEncode(pic, last, t, prev, alpha, fast) = TileData(A[TileH(t)])
<1> DEFINE S == Accs
           n == TileH(t)
           base == [filters |-> <<>>, s |-> CodeInit]
           One(q, y) == EncodeRow(pic, last, t, prev, alpha, fast, q, y)
           g == [i \in 1..n |-> [q \in S |-> One(q, i)]]
           all == RowsOf(t)
           Body(h) == [c \in SUBSET (1..n) |->
                          IF c = {} THEN base ELSE One(h[c \ {Max(c)}], all[Max(c)])]
           it == CHOOSE h : h = Body(h)
<1>1. ASSUME NEW q \in S, NEW i \in 1..n PROVE One(q, i) \in S BY EncodeRowTakes
<1>2. base \in S /\ n \in Nat
  <2>1. n \in Nat BY TileShape, PictureAssumption
  <2> DEFINE none == <<>>
  <2>2. none \in Seq(FilterSet) OBVIOUS
  <2> HIDE DEF none
  <2>3. [filters |-> none, s |-> CodeInit] \in Accs BY <2>2, FirstCode DEF Accs
  <2> QED BY <2>1, <2>3 DEF none
<1>3. DOMAIN all = 1..n /\ \A y \in 1..n : all[y] = y BY DEF RowsOf
<1>4. TileEncode(pic, last, t, prev, alpha, fast) = TileData(it[1..n])
  <2>1. DOMAIN RowsOf(t) = 1..TileH(t) BY <1>3
  <2> QED BY <2>1 DEF TileEncode, FoldLeft, MapThenFoldSet, EncodeRow, CodedRow
<1> HIDE DEF S, n, One, all, base
<1>5. g \in [1..n -> [S -> S]] BY <1>1
<1>6. PICK h : Iterates(h, n, S, base, g)
  <2> HIDE DEF g
  <2> QED BY <1>2, <1>5, IterationExists
<1>7. h = Body(h)
  <2>1. ASSUME NEW c \in SUBSET (1..n), c # {}
        PROVE  h[c] = One(h[c \ {Max(c)}], all[Max(c)])
    <3>1. Max(c) \in 1..n /\ h[c] = g[Max(c)][h[c \ {Max(c)}]] BY <1>6, <2>1 DEF Iterates
    <3>2. h[c \ {Max(c)}] \in S BY <1>6 DEF Iterates
    <3> QED BY <1>3, <3>1, <3>2
  <2> HIDE DEF g
  <2> QED BY <1>6, <2>1 DEF Iterates
<1>8. it = Body(it)
  <2> HIDE DEF Body
  <2> QED BY <1>7
<1> HIDE DEF it
<1>9. PICK F : Chain(F, n, S, base, g) /\ it[1..n] = F[n]
  <2>1. it[{}] = base BY <1>8
  <2>2. ASSUME NEW c \in SUBSET (1..n), c # {}, Max(c) \in c, it[c \ {Max(c)}] \in S
        PROVE  it[c] = g[Max(c)][it[c \ {Max(c)}]]
    <3>1. it[c] = One(it[c \ {Max(c)}], all[Max(c)]) BY <1>8, <2>2
    <3> QED BY <1>3, <2>2, <3>1
  <2> HIDE DEF g
  <2>3. Follows(it, n, S, base, g) BY <2>1, <2>2 DEF Follows
  <2> QED BY <1>2, <1>5, <2>3, IterationIsChain
<1>10. ASSUME NEW k \in 1..n
       PROVE  \E f : RowTaken(f, F[k - 1], F[k], pic, last, t, prev, alpha, k)
  <2>1. F[k - 1] \in S BY <1>2, <1>9 DEF Chain
  <2>2. F[k] = g[k][F[k - 1]]
    <3> HIDE DEF g
    <3> QED BY <1>9 DEF Chain
  <2>3. F[k] = EncodeRow(pic, last, t, prev, alpha, fast, F[k - 1], k) BY <2>1, <2>2 DEF One
  <2>4. F[k - 1] \in Accs /\ k \in 1..TileH(t) BY <2>1 DEF S, n
  <2> QED BY <2>3, <2>4, EncodeRowTakes
<1>11. F \in [0..n -> S] /\ F[0] = base BY <1>9 DEF Chain
<1>12. Encoding(F, pic, last, t, prev, alpha) BY <1>10, <1>11 DEF Encoding, n, S, base
<1> QED BY <1>4, <1>9, <1>12 DEF n

\* What a tile becomes: its rows, coded with the filters that are stored.
TileEncoded(C, fs, pic, last, t, prev, alpha) ==
    /\ C \in [0..TileH(t) -> CodeStates] /\ C[0] = CodeInit
    /\ fs \in Seq(FilterSet) /\ Len(fs) = TileH(t)
    /\ \A y \in 1..TileH(t) :
           /\ (fs[y] = Up => y > 1) /\ (fs[y] = Prev => prev)
           /\ C[y] = CodedRow(C[y - 1], fs[y], pic, last, t, y, alpha)

LEMMA TileEncodeRows ==
    ASSUME NEW pic \in Picture, NEW last \in Picture, NEW t \in Tiles,
           NEW prev, NEW alpha \in BOOLEAN, NEW fast
    PROVE  \E C, fs : /\ TileEncoded(C, fs, pic, last, t, prev, alpha)
                      /\ TileEncode(pic, last, t, prev, alpha, fast) =
                             [filters |-> fs, ops |-> RunOut(C[TileH(t)]).ops]
<1> DEFINE n == TileH(t)
<1>1. n \in Nat BY TileShape, PictureAssumption
<1>2. PICK A : /\ Encoding(A, pic, last, t, prev, alpha)
               /\ TileEncode(pic, last, t, prev, alpha, fast) = TileData(A[TileH(t)])
  BY TileEncodeChain
<1> DEFINE C == [y \in 0..n |-> A[y].s]
           Fil(k) == A[k].filters
           Good(k, y) == RowTaken(Fil(k)[y], A[y - 1], A[y], pic, last, t, prev, alpha, y)
           T == {k \in Nat : k <= n => Len(Fil(k)) = k /\ \A y \in 1..k : Good(k, y)}
<1>3. A \in [0..n -> Accs] /\ A[0] = [filters |-> <<>>, s |-> CodeInit] BY <1>2 DEF Encoding
<1>4. 0 \in T BY <1>3
<1>5. ASSUME NEW k \in Nat, k \in T PROVE k + 1 \in T
  <2> SUFFICES ASSUME k + 1 <= n
               PROVE  Len(Fil(k + 1)) = k + 1 /\ \A y \in 1..k + 1 : Good(k + 1, y)
    <3> HIDE DEF Fil, Good
    <3> QED OBVIOUS
  <2> DEFINE j == k + 1
  <2>1. k \in 0..n /\ j \in 1..n /\ j - 1 = k BY <1>1
  <2>2. Len(Fil(k)) = k /\ \A y \in 1..k : Good(k, y)
    <3> HIDE DEF Fil, Good
    <3> QED BY <1>1, <1>5
  <2> HIDE DEF j
  <2>3. PICK f : RowTaken(f, A[j - 1], A[j], pic, last, t, prev, alpha, j)
    BY <1>2, <2>1 DEF Encoding
  <2>4. f \in FilterSet /\ Fil(j) = Append(Fil(k), f) BY <2>1, <2>3 DEF RowTaken
  <2>5. Fil(k) \in Seq(FilterSet) BY <1>3, <2>1 DEF Accs
  <2> HIDE DEF Fil
  <2>6. Len(Fil(j)) = j /\ Fil(j)[j] = f /\ \A y \in 1..k : Fil(j)[y] = Fil(k)[y]
    <3> DEFINE g == Fil(k)
    <3>1. g \in Seq(FilterSet) /\ Len(g) = k BY <2>2, <2>5
    <3> HIDE DEF g
    <3>2. /\ Len(Append(g, f)) = k + 1 /\ Append(g, f)[k + 1] = f
          /\ \A y \in 1..k : Append(g, f)[y] = g[y]
      BY <2>4, <3>1
    <3> QED BY <2>4, <3>2 DEF g, j
  <2>7. \A y \in 1..j : y \in 1..k \/ y = j BY DEF j
  <2>8. ASSUME NEW y \in 1..j PROVE Good(j, y) BY <2>2, <2>3, <2>6, <2>7
  <2> QED BY <2>6, <2>8 DEF j
<1> HIDE DEF T
<1>6. n \in T BY <1>1, <1>4, <1>5, Induction
<1>7. Len(Fil(n)) = n /\ \A y \in 1..n : Good(n, y)
  <2> HIDE DEF Fil, Good
  <2> QED BY <1>1, <1>6 DEF T
<1> DEFINE fs == Fil(n)
<1>8. fs \in Seq(FilterSet) BY <1>1, <1>3 DEF Accs
<1>9. C \in [0..n -> CodeStates] /\ C[0] = CodeInit BY <1>1, <1>3 DEF Accs
<1>10. ASSUME NEW y \in 1..n
       PROVE  /\ (fs[y] = Up => y > 1) /\ (fs[y] = Prev => prev)
              /\ C[y] = CodedRow(C[y - 1], fs[y], pic, last, t, y, alpha)
  <2>1. RowTaken(fs[y], A[y - 1], A[y], pic, last, t, prev, alpha, y) BY <1>7
  <2>2. y \in 0..n /\ y - 1 \in 0..n BY <1>1
  <2>3. C[y] = A[y].s /\ C[y - 1] = A[y - 1].s BY <2>2
  <2> HIDE DEF C, Fil
  <2> QED BY <2>1, <2>3 DEF RowTaken
<1>11. TileEncode(pic, last, t, prev, alpha, fast) = [filters |-> fs, ops |-> RunOut(C[n]).ops]
  BY <1>1, <1>2 DEF TileData
<1> HIDE DEF C, Fil
<1>12. TileEncoded(C, fs, pic, last, t, prev, alpha)
  BY <1>7, <1>8, <1>9, <1>10 DEF TileEncoded
<1> QED BY <1>11, <1>12

-----------------------------------------------------------------------------
(* A tile, read *)

\* A tile's data, also when it is not what was written.
TileDatum(data, t) ==
    /\ data = [filters |-> data.filters, ops |-> data.ops]
    /\ data.filters \in Seq(FilterSet) /\ Len(data.filters) = TileH(t)
    /\ data.ops \in Seq(Operations)

DecodeRow(data, t, prev, q, y) ==
    LET f == data.filters[y]
    IN IF (f = Up /\ y = 1) \/ (f = Prev /\ ~prev) THEN [q EXCEPT !.ok = FALSE]
       ELSE DrawRow(f, t, y, q)
DecodeStart(data, pic) == Drawing(CodeInit.index, 0, 0, data.ops, TRUE, pic)
TileEnd(q) == [ok |-> q.ok /\ q.run = 0, pic |-> q.pic]

LEMMA DecodeRowType ==
    ASSUME NEW t \in Tiles, NEW y \in 1..TileH(t), NEW data, TileDatum(data, t), NEW prev,
           NEW q \in DrawStates
    PROVE  DecodeRow(data, t, prev, q, y) \in DrawStates
<1> DEFINE f == data.filters[y]
           no == FALSE
           out == DecodeRow(data, t, prev, q, y)
<1>1. f \in FilterSet BY DEF TileDatum
<1>2. TileH(t) \in Nat BY TileShape, PictureAssumption
<1>3. out = IF (f = Up /\ y = 1) \/ (f = Prev /\ ~prev) THEN [q EXCEPT !.ok = no]
            ELSE DrawRow(f, t, y, q)
  BY DEF DecodeRow
<1>4. no \in BOOLEAN OBVIOUS
<1> HIDE DEF f, no, out
<1>5. CASE (f = Up /\ y = 1) \/ (f = Prev /\ ~prev)
  <2>1. out = [q EXCEPT !.ok = no] BY <1>3, <1>5
  <2>2. /\ q.index \in Indexes /\ q.prev \in PixelValues /\ q.run \in Int
        /\ q.ops \in Seq(Operations) /\ q.pic \in Picture
        /\ q = Drawing(q.index, q.prev, q.run, q.ops, q.ok, q.pic)
    BY DrawingType
  <2>3. [q EXCEPT !.ok = no] = Drawing(q.index, q.prev, q.run, q.ops, no, q.pic)
    BY <2>2 DEF Drawing
  <2>4. Drawing(q.index, q.prev, q.run, q.ops, no, q.pic) \in DrawStates
    BY <1>4, <2>2, DrawingType
  <2> QED BY <2>1, <2>3, <2>4 DEF out
<1>6. CASE ~((f = Up /\ y = 1) \/ (f = Prev /\ ~prev))
  <2>1. out = DrawRow(f, t, y, q) BY <1>3, <1>6
  <2>2. f = Up => y > 1 BY <1>2, <1>6
  <2>3. PICK D : DrawingRow(D, f, t, y, q) /\ DrawRow(f, t, y, q) = D[TileW(t)]
    BY <1>1, <2>2, DrawRowChain
  <2>4. TileW(t) \in 0..TileW(t) BY TileShape, PictureAssumption
  <2>5. D[TileW(t)] \in DrawStates BY <2>3, <2>4 DEF DrawingRow
  <2> QED BY <2>1, <2>3, <2>5 DEF out
<1> QED BY <1>5, <1>6

LEMMA DecodeStartType ==
    ASSUME NEW data, data.ops \in Seq(Operations), NEW pic \in Picture
    PROVE  DecodeStart(data, pic) \in DrawStates
<1> DEFINE yes == TRUE
           index == CodeInit.index
           ops == data.ops
<1>1. index \in Indexes /\ 0 \in PixelValues /\ ops \in Seq(Operations) /\ yes \in BOOLEAN
  BY FirstCode DEF CodeStates, CodeInit
<1> HIDE DEF yes, index, ops
<1>2. Drawing(index, 0, 0, ops, yes, pic) \in DrawStates BY <1>1, DrawingType
<1> QED BY <1>2 DEF DecodeStart, yes, index, ops

\* R[y] is what there is after y rows.
Decoding(R, data, t, prev, pic) ==
    /\ R \in [0..TileH(t) -> DrawStates] /\ R[0] = DecodeStart(data, pic)
    /\ \A y \in 1..TileH(t) : R[y] = DecodeRow(data, t, prev, R[y - 1], y)

LEMMA TileDecodeChain ==
    ASSUME NEW t \in Tiles, NEW data, TileDatum(data, t), NEW prev, NEW pic \in Picture
    PROVE  \E R : /\ Decoding(R, data, t, prev, pic)
                  /\ TileDecode(data, pic, t, prev) = TileEnd(R[TileH(t)])
<1> DEFINE S == DrawStates
           n == TileH(t)
           base == DecodeStart(data, pic)
           One(q, y) == DecodeRow(data, t, prev, q, y)
           g == [i \in 1..n |-> [q \in S |-> One(q, i)]]
           all == RowsOf(t)
           Body(h) == [c \in SUBSET (1..n) |->
                          IF c = {} THEN base ELSE One(h[c \ {Max(c)}], all[Max(c)])]
           it == CHOOSE h : h = Body(h)
<1>1. ASSUME NEW q \in S, NEW i \in 1..n PROVE One(q, i) \in S BY DecodeRowType
<1>2. base \in S /\ n \in Nat BY TileShape, PictureAssumption, DecodeStartType DEF TileDatum
<1>3. DOMAIN all = 1..n /\ \A y \in 1..n : all[y] = y BY DEF RowsOf
<1>4. TileDecode(data, pic, t, prev) = TileEnd(it[1..n])
  <2>1. DOMAIN RowsOf(t) = 1..TileH(t) BY <1>3
  <2> QED BY <2>1 DEF TileDecode, FoldLeft, MapThenFoldSet, TileEnd, DecodeStart, Drawing,
                      DecodeRow, DrawRow, DrawPixel
<1> HIDE DEF S, n, One, all, base
<1>5. g \in [1..n -> [S -> S]] BY <1>1
<1>6. PICK h : Iterates(h, n, S, base, g)
  <2> HIDE DEF g
  <2> QED BY <1>2, <1>5, IterationExists
<1>7. h = Body(h)
  <2>1. ASSUME NEW c \in SUBSET (1..n), c # {}
        PROVE  h[c] = One(h[c \ {Max(c)}], all[Max(c)])
    <3>1. Max(c) \in 1..n /\ h[c] = g[Max(c)][h[c \ {Max(c)}]] BY <1>6, <2>1 DEF Iterates
    <3>2. h[c \ {Max(c)}] \in S BY <1>6 DEF Iterates
    <3> QED BY <1>3, <3>1, <3>2
  <2> HIDE DEF g
  <2> QED BY <1>6, <2>1 DEF Iterates
<1>8. it = Body(it)
  <2> HIDE DEF Body
  <2> QED BY <1>7
<1> HIDE DEF it
<1>9. PICK F : Chain(F, n, S, base, g) /\ it[1..n] = F[n]
  <2>1. it[{}] = base BY <1>8
  <2>2. ASSUME NEW c \in SUBSET (1..n), c # {}, Max(c) \in c, it[c \ {Max(c)}] \in S
        PROVE  it[c] = g[Max(c)][it[c \ {Max(c)}]]
    <3>1. it[c] = One(it[c \ {Max(c)}], all[Max(c)]) BY <1>8, <2>2
    <3> QED BY <1>3, <2>2, <3>1
  <2> HIDE DEF g
  <2>3. Follows(it, n, S, base, g) BY <2>1, <2>2 DEF Follows
  <2> QED BY <1>2, <1>5, <2>3, IterationIsChain
<1>10. ASSUME NEW k \in 1..n PROVE F[k] = One(F[k - 1], k)
  <2>1. F[k - 1] \in S BY <1>2, <1>9 DEF Chain
  <2>2. F[k] = g[k][F[k - 1]]
    <3> HIDE DEF g
    <3> QED BY <1>9 DEF Chain
  <2> QED BY <2>1, <2>2
<1>11. F \in [0..n -> S] /\ F[0] = base BY <1>9 DEF Chain
<1>12. Decoding(F, data, t, prev, pic) BY <1>10, <1>11 DEF Decoding, One, n, S, base
<1> QED BY <1>4, <1>9, <1>12 DEF n

\* At the end an open run is written, so that everything is ahead of nothing.
LEMMA RunOutOperations ==
    ASSUME NEW s \in CodeStates
    PROVE  /\ RunOut(s).ops \in Seq(Operations) /\ Ahead(s, RunOut(s).ops)
           /\ s.run = 0 => RunOut(s).ops = s.ops
           /\ s.run # 0 => /\ Len(RunOut(s).ops) = Len(s.ops) + 1
                           /\ RunOut(s).ops[Len(s.ops) + 1] = <<"run", s.run>>
<1>1. /\ s = [index |-> s.index, prev |-> s.prev, run |-> s.run, ops |-> s.ops]
      /\ s.run \in Nat /\ s.ops \in Seq(Operations)
  BY DEF CodeStates
<1>2. CASE s.run = 0
  <2>1. RunOut(s).ops = s.ops BY <1>2 DEF RunOut
  <2>2. Len(s.ops) <= Len(s.ops) BY <1>1
  <2> QED BY <1>1, <1>2, <2>1, <2>2 DEF Ahead
<1>3. CASE s.run # 0
  <2> DEFINE op == <<"run", s.run>>
             L == Len(s.ops)
             ops == Append(s.ops, op)
  <2>1. RunOut(s).ops = ops BY <1>1, <1>3 DEF RunOut
  <2>2. op \in Operations BY <1>1 DEF Operations
  <2>3. L \in Nat BY <1>1
  <2>4. ops \in Seq(Operations) /\ Len(ops) = L + 1 /\ ops[L + 1] = op
        /\ \A i \in 1..L : ops[i] = s.ops[i]
    <3> HIDE DEF op
    <3> QED BY <1>1, <2>2, <2>3
  <2> HIDE DEF ops
  <2>5. L <= Len(ops) /\ L < Len(ops) BY <2>3, <2>4
  <2>6. s.run \in Int /\ s.run >= s.run /\ ops[L + 1] = <<"run", s.run>> BY <1>1, <2>4
  <2>7. Ahead(s, ops) BY <2>4, <2>5, <2>6 DEF Ahead
  <2> QED BY <1>3, <2>1, <2>4, <2>7
<1> QED BY <1>2, <1>3

LEMMA DecodeStartsThere ==
    ASSUME NEW data, data.ops \in Seq(Operations), NEW pic \in Picture
    PROVE  Match(CodeInit, DecodeStart(data, pic), data.ops)
<1> DEFINE ops == data.ops
           d == DecodeStart(data, pic)
           yes == TRUE
<1>1. Rest(ops, 0) = ops
  <2>1. ops \in Seq(Operations) OBVIOUS
  <2> HIDE DEF ops
  <2>2. SubSeq(ops, 1, Len(ops)) = ops BY <2>1, SubSeqFull
  <2>3. 0 + 1 = 1 OBVIOUS
  <2> QED BY <2>2, <2>3 DEF Rest
<1>2. d = Drawing(CodeInit.index, 0, 0, ops, yes, pic) BY DEF DecodeStart
<1> HIDE DEF d, ops, yes
<1>3. d.index = CodeInit.index /\ d.prev = 0 /\ d.run = 0 /\ d.ops = ops /\ d.ok = yes
  BY <1>2 DEF Drawing
<1>4. CodeInit.prev = 0 /\ CodeInit.run = 0 /\ Len(CodeInit.ops) = 0 BY DEF CodeInit
<1> QED BY <1>1, <1>3, <1>4 DEF Match, d, ops, yes

\* In Q, the picture `over` is the last one.
SameAs(over, last, Q, alpha) == \A p \in Q : over[p] = Coded(last[p], alpha)

\* A tile that is decoded over the last frame's picture of it, or over
\* anything where there is no last frame, is what was encoded, and nothing
\* else is drawn on (mm_tile_encode, mm_tile_decode).
LEMMA TileComesBack ==
    ASSUME NEW pic \in Picture, NEW last \in Picture, NEW over \in Picture, NEW t \in Tiles,
           NEW prev, NEW alpha \in BOOLEAN, NEW fast, prev => SameAs(over, last, Covers(t), alpha)
    PROVE  /\ TileDatum(TileEncode(pic, last, t, prev, alpha, fast), t)
           /\ TileDecode(TileEncode(pic, last, t, prev, alpha, fast), over, t, prev) =
                  [ok |-> TRUE, pic |-> Painted(over, Covers(t), pic, alpha)]
<1> DEFINE n == TileH(t)
           data == TileEncode(pic, last, t, prev, alpha, fast)
<1>1. n \in Nat BY TileShape, PictureAssumption
<1>2. PICK C, fs : /\ TileEncoded(C, fs, pic, last, t, prev, alpha)
                   /\ data = [filters |-> fs, ops |-> RunOut(C[n]).ops]
  BY TileEncodeRows
<1> HIDE DEF data
<1> DEFINE ops == RunOut(C[n]).ops
<1>3. C[n] \in CodeStates /\ \A y \in 0..n : C[y] \in CodeStates BY <1>1, <1>2 DEF TileEncoded
<1>4. ops \in Seq(Operations) /\ Ahead(C[n], ops) BY <1>3, RunOutOperations
<1>5. data.ops = ops /\ data.filters = fs /\ data = [filters |-> data.filters, ops |-> data.ops]
  BY <1>2
<1>6. TileDatum(data, t) BY <1>2, <1>4, <1>5 DEF TileDatum, TileEncoded
<1>7. PICK R : Decoding(R, data, t, prev, over) /\ TileDecode(data, over, t, prev) = TileEnd(R[n])
  BY <1>6, TileDecodeChain
<1> HIDE DEF ops
<1>8. ASSUME NEW y \in 1..n
      PROVE  /\ C[y] = CodedRow(C[y - 1], fs[y], pic, last, t, y, alpha)
             /\ R[y] = DrawRow(fs[y], t, y, R[y - 1])
             /\ fs[y] \in FilterSet /\ (fs[y] = Up => y > 1) /\ (fs[y] = Prev => prev)
  <2>1. /\ C[y] = CodedRow(C[y - 1], fs[y], pic, last, t, y, alpha)
        /\ fs[y] \in FilterSet /\ (fs[y] = Up => y > 1) /\ (fs[y] = Prev => prev)
    BY <1>2 DEF TileEncoded
  <2>2. R[y] = DecodeRow(data, t, prev, R[y - 1], y) BY <1>7 DEF Decoding
  <2>3. ~((fs[y] = Up /\ y = 1) \/ (fs[y] = Prev /\ ~prev)) BY <1>1, <2>1
  <2> QED BY <1>5, <2>1, <2>2, <2>3 DEF DecodeRow
<1>9. \A y \in 0..n : Ahead(C[y], ops)
  <2> DEFINE T == {j \in Nat : j <= n => Ahead(C[n - j], ops)}
  <2>1. 0 \in T
    <3>1. n - 0 = n BY <1>1
    <3> QED BY <1>4, <3>1
  <2>2. ASSUME NEW j \in Nat, j \in T PROVE j + 1 \in T
    <3> SUFFICES ASSUME j + 1 <= n PROVE Ahead(C[n - (j + 1)], ops) OBVIOUS
    <3> DEFINE y == n - j
    <3>1. y \in 1..n /\ y - 1 \in 0..n /\ n - (j + 1) = y - 1 BY <1>1
    <3>2. Ahead(C[y], ops) BY <1>1, <2>2
    <3> HIDE DEF y
    <3>3. /\ C[y] = CodedRow(C[y - 1], fs[y], pic, last, t, y, alpha) /\ C[y - 1] \in CodeStates
          /\ fs[y] \in FilterSet /\ (fs[y] = Up => y > 1)
      BY <1>3, <1>8, <3>1
    <3>4. Ahead(C[y - 1], ops) BY <1>4, <3>1, <3>2, <3>3, RowIsAhead
    <3> QED BY <3>1, <3>4
  <2> HIDE DEF T
  <2>3. \A j \in Nat : j \in T BY <2>1, <2>2, Induction
  <2>4. ASSUME NEW y \in 0..n PROVE Ahead(C[y], ops)
    <3>1. n - y \in Nat /\ n - y <= n /\ n - (n - y) = y BY <1>1
    <3> QED BY <2>3, <3>1 DEF T
  <2> QED BY <2>4
<1> DEFINE Good(y) == /\ Match(C[y], R[y], ops) /\ R[y] \in DrawStates
                      /\ R[y].pic = Painted(over, Covered(t, 0, y + 1), pic, alpha)
           T == {y \in Nat : y <= n => Good(y)}
<1>10. 0 \in T
  <2>1. R[0] = DecodeStart(data, over) /\ C[0] = CodeInit
    BY <1>2, <1>7 DEF Decoding, TileEncoded
  <2>2. R[0] \in DrawStates /\ Match(C[0], R[0], ops)
    BY <1>4, <1>5, <2>1, DecodeStartType, DecodeStartsThere
  <2>3. R[0].pic = over BY <2>1 DEF DecodeStart, Drawing
  <2>4. Covered(t, 0, 0 + 1) = {} BY CoveredRow
  <2>5. Painted(over, {}, pic, alpha) = over BY DEF Painted, Picture
  <2>6. Good(0) BY <2>2, <2>3, <2>4, <2>5
  <2> HIDE DEF Good
  <2> QED BY <2>6
<1>11. ASSUME NEW k \in Nat, k \in T PROVE k + 1 \in T
  <2> SUFFICES ASSUME k + 1 <= n PROVE Good(k + 1)
    <3> HIDE DEF Good
    <3> QED OBVIOUS
  <2> DEFINE y == k + 1
  <2>1. y \in 1..n /\ y - 1 = k /\ k \in 0..n /\ y \in 0..n BY <1>1
  <2>2. Good(k)
    <3> HIDE DEF Good
    <3> QED BY <1>1, <1>11
  <2>3. Match(C[k], R[k], ops) /\ R[k] \in DrawStates
        /\ R[k].pic = Painted(over, Covered(t, 0, y), pic, alpha)
    BY <2>2
  <2> HIDE DEF y
  <2>4. C[y] = CodedRow(C[k], fs[y], pic, last, t, y, alpha) /\ R[y] = DrawRow(fs[y], t, y, R[k])
    BY <1>8, <2>1
  <2>5. fs[y] \in FilterSet /\ (fs[y] = Up => y > 1) /\ C[k] \in CodeStates BY <1>3, <1>8, <2>1
  <2>6. fs[y] = Prev => \A p \in Covers(t) : over[p] = Coded(last[p], alpha)
    BY <1>8, <2>1 DEF SameAs
  <2>7. Ahead(CodedRow(C[k], fs[y], pic, last, t, y, alpha), ops) BY <1>9, <2>1, <2>4
  <2>8. y \in 1..TileH(t) BY <2>1
  <2> HIDE DEF n, Good
  <2>9. /\ Match(CodedRow(C[k], fs[y], pic, last, t, y, alpha), DrawRow(fs[y], t, y, R[k]), ops)
        /\ DrawRow(fs[y], t, y, R[k]).pic = Painted(over, Covered(t, 0, y + 1), pic, alpha)
        /\ DrawRow(fs[y], t, y, R[k]) \in DrawStates
    BY <1>4, <2>3, <2>5, <2>6, <2>7, <2>8, RowComesBack
  <2> QED BY <2>4, <2>9 DEF Good, y
<1> HIDE DEF T, Good
<1>12. n \in T BY <1>1, <1>10, <1>11, Induction
<1>13. Match(C[n], R[n], ops) /\ R[n] \in DrawStates
       /\ R[n].pic = Painted(over, Covers(t), pic, alpha)
  <2>1. Covered(t, 0, n + 1) = Covers(t) BY CoveredRow
  <2> QED BY <1>1, <1>12, <2>1 DEF T, Good
<1>14. R[n].ok /\ R[n].run = 0
  <2>1. C[n].run \in Nat /\ R[n].run \in Int BY <1>3, <1>13, DrawingType DEF CodeStates
  <2>2. CASE C[n].run = 0 BY <1>13, <2>2 DEF Match
  <2>3. CASE C[n].run # 0
    <3>1. ops[Len(C[n].ops) + 1] = <<"run", C[n].run>> BY <1>3, <2>3, RunOutOperations DEF ops
    <3>2. ops[Len(C[n].ops) + 1] = <<"run", R[n].run + C[n].run>> /\ R[n].ok
      BY <1>13, <2>3 DEF Match
    <3>3. R[n].run + C[n].run = C[n].run BY <3>1, <3>2
    <3> QED BY <2>1, <3>2, <3>3
  <2> QED BY <2>2, <2>3
<1>15. TileEnd(R[n]) = [ok |-> TRUE, pic |-> Painted(over, Covers(t), pic, alpha)]
  BY <1>13, <1>14 DEF TileEnd
<1> QED BY <1>6, <1>7, <1>15 DEF data

-----------------------------------------------------------------------------
(* All tiles of a picture, and a still picture *)

Pictured == [ok : BOOLEAN, pic : Picture]
TilesData(data) == \A t \in Tiles \cap DOMAIN data : TileDatum(data[t], t)
DecodeTile(data, prev, q, t) ==
    IF ~q.ok \/ t \notin DOMAIN data THEN q ELSE TileDecode(data[t], q.pic, t, prev)

LEMMA TileDecodeType ==
    ASSUME NEW t \in Tiles, NEW data, TileDatum(data, t), NEW prev, NEW pic \in Picture
    PROVE  TileDecode(data, pic, t, prev) \in Pictured
<1>1. PICK R : /\ Decoding(R, data, t, prev, pic)
               /\ TileDecode(data, pic, t, prev) = TileEnd(R[TileH(t)])
  BY TileDecodeChain
<1> DEFINE q == R[TileH(t)]
           ok == q.ok /\ q.run = 0
<1>2. q \in DrawStates BY <1>1, TileShape, PictureAssumption DEF Decoding
<1>3. ok \in BOOLEAN /\ q.pic \in Picture
  <2> HIDE DEF q
  <2> QED BY <1>2, DrawingType
<1>4. TileEnd(q) = [ok |-> ok, pic |-> q.pic] BY DEF TileEnd
<1> HIDE DEF ok, q
<1> QED BY <1>1, <1>3, <1>4 DEF Pictured, q

TileCount == TilesX * TilesY

\* P[k] is what there is after k tiles.
TilesSoFar(P, data, prev, pic) ==
    /\ P \in [0..TileCount -> Pictured] /\ P[0] = [ok |-> TRUE, pic |-> pic]
    /\ \A t \in Tiles : P[t] = DecodeTile(data, prev, P[t - 1], t)

LEMMA DecodeTilesChain ==
    ASSUME NEW data, TilesData(data), NEW prev, NEW pic \in Picture
    PROVE  \E P : TilesSoFar(P, data, prev, pic) /\ DecodeTiles(data, pic, prev) = P[TileCount]
<1> DEFINE S == Pictured
           n == TileCount
           base == [ok |-> TRUE, pic |-> pic]
           One(q, t) == DecodeTile(data, prev, q, t)
           g == [i \in 1..n |-> [q \in S |-> One(q, i)]]
           all == [t \in Tiles |-> t]
           Body(h) == [c \in SUBSET (1..n) |->
                          IF c = {} THEN base ELSE One(h[c \ {Max(c)}], all[Max(c)])]
           it == CHOOSE h : h = Body(h)
<1>1. ASSUME NEW q \in S, NEW i \in 1..n PROVE One(q, i) \in S
  <2>1. i \in Tiles BY DEF Tiles, TileCount
  <2>2. CASE ~q.ok \/ i \notin DOMAIN data BY <2>2 DEF DecodeTile
  <2>3. CASE ~(~q.ok \/ i \notin DOMAIN data)
    <3>1. TileDatum(data[i], i) /\ q.pic \in Picture BY <2>1, <2>3 DEF TilesData, Pictured
    <3>2. TileDecode(data[i], q.pic, i, prev) \in Pictured BY <2>1, <3>1, TileDecodeType
    <3> QED BY <2>3, <3>2 DEF DecodeTile
  <2> QED BY <2>2, <2>3
<1>2. base \in S /\ n \in Nat
  <2>1. TilesX \in Nat /\ TilesY \in Nat BY PictureAssumption, TilesNeeded DEF TilesX, TilesY
  <2> DEFINE yes == TRUE
  <2>2. yes \in BOOLEAN OBVIOUS
  <2> HIDE DEF yes
  <2>3. [ok |-> yes, pic |-> pic] \in Pictured BY <2>2 DEF Pictured
  <2> QED BY <2>1, <2>3 DEF yes, TileCount
<1>3. DOMAIN all = 1..n /\ \A y \in 1..n : all[y] = y BY DEF Tiles, TileCount
<1>4. DecodeTiles(data, pic, prev) = it[1..n]
  <2>1. DOMAIN [t \in Tiles |-> t] = 1..TileCount BY <1>3
  <2> QED BY <2>1 DEF DecodeTiles, FoldLeft, MapThenFoldSet, DecodeTile
<1> HIDE DEF S, n, One, all, base
<1>5. g \in [1..n -> [S -> S]] BY <1>1
<1>6. PICK h : Iterates(h, n, S, base, g)
  <2> HIDE DEF g
  <2> QED BY <1>2, <1>5, IterationExists
<1>7. h = Body(h)
  <2>1. ASSUME NEW c \in SUBSET (1..n), c # {}
        PROVE  h[c] = One(h[c \ {Max(c)}], all[Max(c)])
    <3>1. Max(c) \in 1..n /\ h[c] = g[Max(c)][h[c \ {Max(c)}]] BY <1>6, <2>1 DEF Iterates
    <3>2. h[c \ {Max(c)}] \in S BY <1>6 DEF Iterates
    <3> QED BY <1>3, <3>1, <3>2
  <2> HIDE DEF g
  <2> QED BY <1>6, <2>1 DEF Iterates
<1>8. it = Body(it)
  <2> HIDE DEF Body
  <2> QED BY <1>7
<1> HIDE DEF it
<1>9. PICK F : Chain(F, n, S, base, g) /\ it[1..n] = F[n]
  <2>1. it[{}] = base BY <1>8
  <2>2. ASSUME NEW c \in SUBSET (1..n), c # {}, Max(c) \in c, it[c \ {Max(c)}] \in S
        PROVE  it[c] = g[Max(c)][it[c \ {Max(c)}]]
    <3>1. it[c] = One(it[c \ {Max(c)}], all[Max(c)]) BY <1>8, <2>2
    <3> QED BY <1>3, <2>2, <3>1
  <2> HIDE DEF g
  <2>3. Follows(it, n, S, base, g) BY <2>1, <2>2 DEF Follows
  <2> QED BY <1>2, <1>5, <2>3, IterationIsChain
<1>10. ASSUME NEW k \in 1..n PROVE F[k] = One(F[k - 1], k)
  <2>1. F[k - 1] \in S BY <1>2, <1>9 DEF Chain
  <2>2. F[k] = g[k][F[k - 1]]
    <3> HIDE DEF g
    <3> QED BY <1>9 DEF Chain
  <2> QED BY <2>1, <2>2
<1>11. F \in [0..n -> S] /\ F[0] = base BY <1>9 DEF Chain
<1>12. Tiles = 1..n BY DEF Tiles, TileCount, n
<1>13. TilesSoFar(F, data, prev, pic) BY <1>10, <1>11, <1>12 DEF TilesSoFar, One, n, S, base
<1> QED BY <1>4, <1>9, <1>13 DEF n

\* The pixels of the tiles of D, up to the tile k.
CoveredBy(D, k) == {p \in Pixels : \E t \in D : t <= k /\ p \in Covers(t)}

LEMMA TilesAreApart ==
    ASSUME NEW t \in Tiles, NEW u \in Tiles, NEW p \in Covers(t), p \in Covers(u)
    PROVE  t = u
<1>1. PICK x \in 1..TileW(t), y \in 1..TileH(t) : p = At(t, x, y) BY DEF Covers
<1>2. PICK a \in 1..TileW(u), b \in 1..TileH(u) : p = At(u, a, b) BY DEF Covers
<1>3. At(t, x, y) = At(u, a, b) BY <1>1, <1>2
<1> QED BY <1>3, AtIsUnique

ComeBack(data, over, prev, D, pic, alpha) ==
    /\ TilesData(data)
    /\ DecodeTiles(data, over, prev) =
           [ok |-> TRUE, pic |-> Painted(over, CoveredBy(D, TileCount), pic, alpha)]

\* A picture, or those tiles of it that are stored.
LEMMA TilesComeBack ==
    ASSUME NEW pic \in Picture, NEW last \in Picture, NEW over \in Picture,
           NEW D, D \subseteq Tiles, NEW prev, NEW alpha \in BOOLEAN, NEW fast,
           prev => SameAs(over, last, Pixels, alpha),
           NEW data, data = [t \in D |-> TileEncode(pic, last, t, prev, alpha, fast)]
    PROVE  ComeBack(data, over, prev, D, pic, alpha)
<1> DEFINE n == TileCount
<1>1. n \in Nat /\ Tiles = 1..n
  <2>1. TilesX \in Nat /\ TilesY \in Nat BY PictureAssumption, TilesNeeded DEF TilesX, TilesY
  <2> QED BY <2>1 DEF TileCount, Tiles
<1>2. \A t \in D : data[t] = TileEncode(pic, last, t, prev, alpha, fast) /\ DOMAIN data = D
  OBVIOUS
<1>3. DOMAIN data = D OBVIOUS
<1> HIDE DEF n
<1>4. ASSUME NEW t \in D, NEW o \in Picture, prev => SameAs(o, last, Covers(t), alpha)
      PROVE  /\ TileDatum(data[t], t)
             /\ TileDecode(data[t], o, t, prev) = [ok |-> TRUE, pic |-> Painted(o, Covers(t), pic, alpha)]
  <2>1. t \in Tiles OBVIOUS
  <2> QED BY <1>2, <1>4, <2>1, TileComesBack
<1>5. TilesData(data)
  <2> SUFFICES ASSUME NEW t \in D PROVE TileDatum(data[t], t) BY <1>3 DEF TilesData
  <2> DEFINE o == Painted(over, Pixels, last, alpha)
  <2>1. o \in Picture BY PaintedType
  <2>2. SameAs(o, last, Covers(t), alpha) BY DEF Painted, Covers, SameAs
  <2> HIDE DEF o
  <2> QED BY <1>4, <2>1, <2>2
<1>6. PICK P : TilesSoFar(P, data, prev, over) /\ DecodeTiles(data, over, prev) = P[n]
  BY <1>5, DecodeTilesChain DEF n
<1> DEFINE Good(k) == P[k] = [ok |-> TRUE, pic |-> Painted(over, CoveredBy(D, k), pic, alpha)]
           T == {k \in Nat : k <= n => Good(k)}
<1>7. 0 \in T
  <2>1. CoveredBy(D, 0) = {} BY <1>1 DEF CoveredBy
  <2>2. Painted(over, {}, pic, alpha) = over BY DEF Painted, Picture
  <2>3. Good(0) BY <1>6, <2>1, <2>2 DEF TilesSoFar
  <2> HIDE DEF Good
  <2> QED BY <2>3
<1>8. ASSUME NEW k \in Nat, k \in T PROVE k + 1 \in T
  <2> SUFFICES ASSUME k + 1 <= n PROVE Good(k + 1)
    <3> HIDE DEF Good
    <3> QED OBVIOUS
  <2> DEFINE t == k + 1
             o == Painted(over, CoveredBy(D, k), pic, alpha)
  <2>1. t \in Tiles /\ t - 1 = k /\ t \in Int BY <1>1
  <2>2. P[k] = [ok |-> TRUE, pic |-> o]
    <3>1. Good(k)
      <4> HIDE DEF Good
      <4> QED BY <1>1, <1>8
    <3> QED BY <3>1
  <2>3. o \in Picture BY PaintedType
  <2>4. \A u \in D : u <= t <=> (u <= k \/ u = t) BY <1>1
  <2>5. ASSUME t \notin D PROVE CoveredBy(D, t) = CoveredBy(D, k) BY <2>4, <2>5 DEF CoveredBy
  <2>6. ASSUME t \in D PROVE CoveredBy(D, t) = CoveredBy(D, k) \cup Covers(t)
    <3>1. Covers(t) \subseteq Pixels BY DEF Covers
    <3> HIDE DEF t
    <3> QED BY <2>4, <2>6, <3>1 DEF CoveredBy
  <2>7. \A p \in Covers(t) : p \notin CoveredBy(D, k)
    <3> SUFFICES ASSUME NEW p \in Covers(t), NEW u \in D, u <= k, p \in Covers(u) PROVE FALSE
      BY DEF CoveredBy
    <3>1. u = t
      <4> HIDE DEF t
      <4> QED BY <2>1, TilesAreApart
    <3> QED BY <3>1
  <2>8. P[t] = DecodeTile(data, prev, P[k], t)
    <3> HIDE DEF t
    <3> QED BY <1>6, <2>1 DEF TilesSoFar
  <2> HIDE DEF t
  <2>9. prev => SameAs(o, last, Covers(t), alpha) BY <2>7 DEF Painted, Covers, SameAs
  <2>10. \A Q : Painted(o, Q, pic, alpha) = Painted(over, CoveredBy(D, k) \cup Q, pic, alpha)
    BY DEF Painted
  <2> HIDE DEF o
  <2>11. CASE t \notin D
    <3>1. P[t] = P[k] BY <1>3, <2>8, <2>11 DEF DecodeTile
    <3> QED BY <2>2, <2>5, <2>11, <3>1 DEF t, o
  <2>12. CASE t \in D
    <3>1. P[t] = TileDecode(data[t], o, t, prev) BY <1>3, <2>2, <2>8, <2>12 DEF DecodeTile
    <3>2. TileDecode(data[t], o, t, prev) = [ok |-> TRUE, pic |-> Painted(o, Covers(t), pic, alpha)]
      BY <1>4, <2>3, <2>9, <2>12
    <3>3. P[t] = [ok |-> TRUE, pic |-> Painted(over, CoveredBy(D, t), pic, alpha)]
      BY <2>6, <2>10, <2>12, <3>1, <3>2
    <3> QED BY <3>3 DEF t
  <2> QED BY <2>11, <2>12
<1> HIDE DEF T, Good
<1>9. n \in T BY <1>1, <1>7, <1>8, Induction
<1>10. P[n] = [ok |-> TRUE, pic |-> Painted(over, CoveredBy(D, n), pic, alpha)]
  BY <1>1, <1>9 DEF T, Good
<1> QED BY <1>5, <1>6, <1>10 DEF ComeBack, n

\* All tiles are all pixels.
LEMMA AllTilesCover == CoveredBy(Tiles, TileCount) = Pixels
<1>1. ASSUME NEW p \in Pixels PROVE p \in CoveredBy(Tiles, TileCount)
  <2>1. PICK t \in Tiles : \E x \in 1..TileW(t), y \in 1..TileH(t) : p = At(t, x, y) BY PixelsAreAt
  <2>2. p \in Covers(t) BY <2>1 DEF Covers
  <2>3. t <= TileCount BY DEF Tiles, TileCount
  <2> QED BY <2>2, <2>3 DEF CoveredBy
<1> QED BY <1>1 DEF CoveredBy

\* An image comes back as it was, opaque where there is no alpha
\* (mimg_encode, mimg_decode), for every size, tile, picture and length of a
\* run, and every number of colours.
THEOREM ImagesComeBack == Spec => []ImageComesBack
<1>1. Init => ImageComesBack BY DEF Init, ImageComesBack
<1>2. ImageComesBack /\ [Next]_vars => ImageComesBack'
  <2> SUFFICES ASSUME ImageComesBack, [Next]_vars PROVE ImageComesBack' OBVIOUS
  <2>1. ASSUME still' = still PROVE ImageComesBack' BY <2>1 DEF ImageComesBack
  <2>2. ASSUME NEW pic \in Stills, NEW alpha \in BOOLEAN, Image(pic, alpha) PROVE ImageComesBack'
    <3> DEFINE data == ImageEncode(pic, alpha)
               back == DecodeTiles(data, Black, FALSE)
               out == Painted(Black, Pixels, pic, alpha)
    <3>1. pic \in Picture BY PicturesAssumption
    <3>2. back = [ok |-> TRUE, pic |-> out]
      <4>1. data = [t \in Tiles |-> TileEncode(pic, pic, t, FALSE, alpha, FALSE)] BY DEF ImageEncode
      <4>2. Tiles \subseteq Tiles OBVIOUS
      <4> DEFINE no == FALSE
      <4>3. data = [t \in Tiles |-> TileEncode(pic, pic, t, no, alpha, no)] BY <4>1
      <4>4. no => SameAs(Black, pic, Pixels, alpha) OBVIOUS
      <4> HIDE DEF data, no
      <4>5. ComeBack(data, Black, no, Tiles, pic, alpha)
        BY <3>1, <4>2, <4>3, <4>4, BlackIsPicture, TilesComeBack
      <4> QED BY <4>5, AllTilesCover DEF ComeBack, no
    <3>3. still' = [done |-> TRUE, pic |-> pic, alpha |-> alpha, ok |-> back.ok, back |-> back.pic]
      BY <2>2 DEF Image
    <3> HIDE DEF back
    <3>4. /\ still'.ok /\ still'.back = out /\ still'.pic = pic /\ still'.alpha = alpha
      BY <3>2, <3>3
    <3>5. \A p \in Pixels : out[p] = Coded(pic[p], alpha) BY DEF Painted
    <3> HIDE DEF out
    <3> QED BY <3>4, <3>5 DEF ImageComesBack
  <2> QED BY <2>1, <2>2 DEF Next, vars, WriterBegin, TilesFrame, MotionBegin, DecideMb, MotionWrite,
              Finish, Damage, Open, Decode
<1> QED BY <1>1, <1>2, PTL DEF Spec

-----------------------------------------------------------------------------
(* The frames of a video with the tiles codec *)

\* A frame's data shows a picture: a keyframe over anything, another frame
\* over the picture before.
KeyShows(tiles, px) ==
    /\ DOMAIN tiles = Tiles
    /\ \A o \in Picture : DecodeTiles(tiles, o, FALSE) = [ok |-> TRUE, pic |-> px]
DeltaShows(tiles, before, px) == DecodeTiles(tiles, before, TRUE) = [ok |-> TRUE, pic |-> px]

LEMMA ShownType ==
    ASSUME NEW px \in Picture, NEW alpha \in BOOLEAN
    PROVE  Shown(px, alpha) \in Picture
<1>1. ASSUME NEW p \in Pixels PROVE Coded(px[p], alpha) \in PixelValues
  BY CodedPixel DEF Picture
<1> QED BY <1>1 DEF Shown, Picture

\* mvid_writer_frame: what is stored of a frame, decoded as it will be.
LEMMA KeyFrameShows ==
    ASSUME NEW px \in Picture, NEW last \in Picture, NEW alpha \in BOOLEAN, NEW fast
    PROVE  /\ TilesData(FrameEncode(px, last, TRUE, alpha, fast))
           /\ KeyShows(FrameEncode(px, last, TRUE, alpha, fast), Shown(px, alpha))
<1> DEFINE data == FrameEncode(px, last, TRUE, alpha, fast)
           no == FALSE
<1>1. data = [t \in Tiles |-> TileEncode(px, last, t, no, alpha, fast)] BY DEF FrameEncode
<1>2. DOMAIN data = Tiles BY <1>1
<1> HIDE DEF data
<1>3. ASSUME NEW o \in Picture
      PROVE  TilesData(data) /\ DecodeTiles(data, o, FALSE) = [ok |-> TRUE, pic |-> Shown(px, alpha)]
  <2>1. Tiles \subseteq Tiles /\ (no => SameAs(o, last, Pixels, alpha)) OBVIOUS
  <2> HIDE DEF no
  <2>2. ComeBack(data, o, no, Tiles, px, alpha) BY <1>1, <2>1, TilesComeBack
  <2>3. Painted(o, Pixels, px, alpha) = Shown(px, alpha) BY DEF Painted, Shown
  <2> QED BY <2>2, <2>3, AllTilesCover DEF ComeBack, no
<1>4. TilesData(data) BY <1>3, BlackIsPicture
<1> QED BY <1>2, <1>3, <1>4 DEF KeyShows, data

LEMMA DeltaFrameShows ==
    ASSUME NEW px \in Picture, NEW last \in Picture, NEW alpha \in BOOLEAN, NEW fast
    PROVE  /\ TilesData(FrameEncode(px, last, FALSE, alpha, fast))
           /\ DeltaShows(FrameEncode(px, last, FALSE, alpha, fast), Shown(last, alpha), Shown(px, alpha))
<1> DEFINE data == FrameEncode(px, last, FALSE, alpha, fast)
           yes == TRUE
           D == Changed(px, last)
           o == Shown(last, alpha)
<1>1. data = [t \in D |-> TileEncode(px, last, t, yes, alpha, fast)] BY DEF FrameEncode
<1> HIDE DEF data
<1>2. D \subseteq Tiles BY DEF Changed
<1>3. o \in Picture BY ShownType
<1>4. yes => SameAs(o, last, Pixels, alpha) BY DEF SameAs, Shown
<1>5. Painted(o, CoveredBy(D, TileCount), px, alpha) = Shown(px, alpha)
  <2>1. ASSUME NEW p \in Pixels, p \notin CoveredBy(D, TileCount) PROVE px[p] = last[p]
    <3>1. PICK t \in Tiles : \E x \in 1..TileW(t), y \in 1..TileH(t) : p = At(t, x, y) BY PixelsAreAt
    <3>2. PICK x \in 1..TileW(t), y \in 1..TileH(t) : p = At(t, x, y) BY <3>1
    <3>3. p \in Covers(t) BY <3>2 DEF Covers
    <3>4. t <= TileCount BY DEF Tiles, TileCount
    <3>5. t \notin D BY <2>1, <3>3, <3>4 DEF CoveredBy
    <3>6. y \in Int BY TileShape, PictureAssumption
    <3>7. RowOf(t, y)[x] = p /\ x \in DOMAIN RowOf(t, y) BY <3>2, <3>6, RowOfIsAt
    <3>8. y \in DOMAIN RowsOf(t) BY DEF RowsOf
    <3> QED BY <3>5, <3>7, <3>8 DEF Changed
  <2>2. ASSUME NEW p \in Pixels
        PROVE  (IF p \in CoveredBy(D, TileCount) THEN Coded(px[p], alpha) ELSE o[p]) = Coded(px[p], alpha)
    <3>1. o[p] = Coded(last[p], alpha) BY DEF Shown
    <3> HIDE DEF o, D
    <3> QED BY <2>1, <3>1
  <2> HIDE DEF o, D
  <2> QED BY <2>2 DEF Painted, Shown
<1> HIDE DEF D, o, yes
<1>6. ComeBack(data, o, yes, D, px, alpha) BY <1>1, <1>2, <1>3, <1>4, TilesComeBack
<1> QED BY <1>5, <1>6 DEF ComeBack, DeltaShows, data, o, yes

LEMMA DecodeTilesType ==
    ASSUME NEW data, TilesData(data), NEW prev, NEW pic \in Picture
    PROVE  DecodeTiles(data, pic, prev) \in Pictured
<1>1. PICK P : TilesSoFar(P, data, prev, pic) /\ DecodeTiles(data, pic, prev) = P[TileCount]
  BY DecodeTilesChain
<1>2. TileCount \in 0..TileCount
  <2>1. TilesX \in Nat /\ TilesY \in Nat BY PictureAssumption, TilesNeeded DEF TilesX, TilesY
  <2> QED BY <2>1 DEF TileCount
<1> QED BY <1>1, <1>2 DEF TilesSoFar

\* What the disk leaves of a frame that loses its end still is the data of
\* tiles.
Cut(data) ==
    LET Shorter(tile) == [tile EXCEPT !.ops = SubSeq(@, 1, Len(@) - 1)]
    IN [data EXCEPT !.tiles = [t \in DOMAIN data.tiles |->
           IF \A u \in DOMAIN data.tiles : u <= t
           THEN Shorter(data.tiles[t]) ELSE data.tiles[t]]]

LEMMA CutTiles ==
    ASSUME NEW key, NEW tiles, TilesData(tiles), DOMAIN tiles \subseteq Tiles
    PROVE  \E less : /\ Cut([key |-> key, tiles |-> tiles]) = [key |-> key, tiles |-> less]
                     /\ TilesData(less) /\ DOMAIN less \subseteq Tiles
<1> DEFINE data == [key |-> key, tiles |-> tiles]
           Short(t) == [tiles[t] EXCEPT !.ops = SubSeq(@, 1, Len(@) - 1)]
           less == [t \in DOMAIN tiles |->
                       IF \A u \in DOMAIN tiles : u <= t THEN Short(t) ELSE tiles[t]]
<1>1. data.tiles = tiles OBVIOUS
<1>2. Cut(data) = [data EXCEPT !.tiles = less]
  <2> HIDE DEF data
  <2>1. Cut(data) =
            [data EXCEPT !.tiles = [t \in DOMAIN data.tiles |->
                IF \A u \in DOMAIN data.tiles : u <= t
                THEN [data.tiles[t] EXCEPT !.ops = SubSeq(@, 1, Len(@) - 1)] ELSE data.tiles[t]]]
    BY DEF Cut
  <2> QED BY <1>1, <2>1
<1> HIDE DEF less
<1>3. [data EXCEPT !.tiles = less] = [key |-> key, tiles |-> less] OBVIOUS
<1>4. ASSUME NEW t \in DOMAIN tiles PROVE TileDatum(Short(t), t)
  <2> DEFINE ops == tiles[t].ops
             n == Len(ops) - 1
  <2>1. TileDatum(tiles[t], t) BY DEF TilesData
  <2>2. ops \in Seq(Operations) BY <2>1 DEF TileDatum
  <2>3. n \in Int /\ \A i \in 1..n : ops[i] \in Operations BY <2>2
  <2> HIDE DEF ops, n
  <2>4. SubSeq(ops, 1, n) \in Seq(Operations) BY <2>3, SubSeqProperties
  <2>5. tiles[t] = [filters |-> tiles[t].filters, ops |-> ops] BY <2>1 DEF TileDatum, ops
  <2>6. Short(t) = [filters |-> tiles[t].filters, ops |-> SubSeq(ops, 1, n)] BY <2>5 DEF ops, n
  <2> HIDE DEF Short
  <2> QED BY <2>1, <2>4, <2>6 DEF TileDatum
<1> HIDE DEF Short
<1>5. TilesData(less) /\ DOMAIN less \subseteq Tiles BY <1>4 DEF TilesData, less
<1> QED BY <1>2, <1>3, <1>5

-----------------------------------------------------------------------------
(* What is on the disk, and where the keyframes are *)

IsSeq(q) == \E S : q \in Seq(S)

Chunk(c) == /\ c = [key |-> c.key, tiles |-> c.tiles] /\ c.key \in BOOLEAN
            /\ TilesData(c.tiles) /\ DOMAIN c.tiles \subseteq Tiles
ChunkShows(c, k) ==
    IF c.key THEN KeyShows(c.tiles, stored[k])
    ELSE k > 1 /\ DeltaShows(c.tiles, stored[k - 1], stored[k])
ChunkInv(c, k) ==
    /\ Chunk(c) /\ (c.key <=> (k - 1) % v.set.interval = 0)
    /\ k - 1 \notin damaged => ChunkShows(c, k)

Entry(k) == [at |-> k, key |-> (k - 1) % v.set.interval = 0]
IndexFor(index) ==
    IsSeq(index) /\ Len(index) = Len(stored) /\ \A k \in 1..Len(stored) : index[k] = Entry(k)

\* A file that was finished, whatever has happened to it since then.
Finished ==
    /\ stored \in Seq(Picture) /\ v.set.interval \in Nat \ {0}
    /\ file.count = Len(stored) /\ IndexFor(file.index)
    /\ \A k \in 1..Len(stored) : ChunkInv(file.chunks[k], k)

FrameNumbers == 0..Len(stored) - 1

IsKeyBefore(k, n) == k \in 0..n /\ KeyAt(k) /\ \A j \in k + 1..n : ~KeyAt(j)

LEMMA KeyAtFrame ==
    ASSUME Finished, NEW n \in FrameNumbers
    PROVE  /\ file.index[n + 1] = Entry(n + 1) /\ file.index[n + 1].at = n + 1
           /\ KeyAt(n) <=> n % v.set.interval = 0
           /\ KeyAt(n) <=> file.chunks[n + 1].key
<1> DEFINE k == n + 1
           is == n % v.set.interval = 0
<1>1. k \in 1..Len(stored) /\ k - 1 = n BY DEF Finished, FrameNumbers
<1> HIDE DEF k
<1>2. file.index[k] = Entry(k) BY <1>1 DEF Finished, IndexFor
<1>3. Entry(k) = [at |-> k, key |-> is] BY <1>1 DEF Entry
<1>4. file.chunks[k].key <=> is
  <2>1. ChunkInv(file.chunks[k], k) BY <1>1 DEF Finished
  <2>2. file.chunks[k].key <=> (k - 1) % v.set.interval = 0 BY <2>1 DEF ChunkInv
  <2> QED BY <1>1, <2>2
<1> HIDE DEF is
<1>5. file.index[k].at = k /\ (file.index[k].key <=> is) BY <1>2, <1>3
<1>6. KeyAt(n) <=> is BY <1>5 DEF KeyAt, k
<1> QED BY <1>2, <1>4, <1>5, <1>6 DEF k, is

LEMMA KeyBeforeIsThere ==
    ASSUME Finished, NEW n \in FrameNumbers
    PROVE  IsKeyBefore(KeyBefore(n), n)
<1>1. n \in Nat BY DEF FrameNumbers, Finished
<1>2. KeyAt(0)
  <2>1. 0 \in FrameNumbers BY DEF FrameNumbers, Finished
  <2>2. v.set.interval \in Nat \ {0} BY DEF Finished
  <2>3. 0 % v.set.interval = 0 BY <2>2, SmallMod
  <2> QED BY <2>1, <2>3, KeyAtFrame
<1> DEFINE T == {k \in 0..n : KeyAt(k)}
<1>3. T \subseteq 0..n /\ T # {} BY <1>1, <1>2
<1>4. PICK k \in T : \A j \in T : j <= k
  <2> HIDE DEF T
  <2> QED BY <1>1, <1>3, GreatestElement
<1>5. IsKeyBefore(k, n)
  <2>1. k \in 0..n /\ KeyAt(k) BY <1>4
  <2>2. ASSUME NEW j \in k + 1..n, KeyAt(j) PROVE FALSE
    <3>1. j \in T BY <1>1, <2>1, <2>2
    <3>2. j <= k BY <1>4, <3>1
    <3> QED BY <1>1, <2>1, <3>2
  <2> QED BY <2>1, <2>2 DEF IsKeyBefore
<1>6. KeyBefore(n) = CHOOSE x \in 0..n : KeyAt(x) /\ \A j \in x + 1..n : ~KeyAt(j) BY DEF KeyBefore
<1>7. k \in 0..n /\ KeyAt(k) /\ \A j \in k + 1..n : ~KeyAt(j) BY <1>5 DEF IsKeyBefore
<1>8. KeyBefore(n) \in 0..n /\ KeyAt(KeyBefore(n)) /\ \A j \in KeyBefore(n) + 1..n : ~KeyAt(j)
  <2> HIDE DEF T
  <2> QED BY <1>6, <1>7
<1> QED BY <1>8 DEF IsKeyBefore

LEMMA KeyBeforeIsOne ==
    ASSUME Finished, NEW n \in FrameNumbers, NEW k, IsKeyBefore(k, n)
    PROVE  KeyBefore(n) = k
<1> DEFINE b == KeyBefore(n)
<1>1. n \in Nat BY DEF FrameNumbers, Finished
<1>2. IsKeyBefore(b, n) BY KeyBeforeIsThere
<1> HIDE DEF b
<1>3. b \in 0..n /\ k \in 0..n BY <1>2 DEF IsKeyBefore
<1>4. ~(b < k) BY <1>1, <1>2, <1>3 DEF IsKeyBefore
<1>5. ~(k < b) BY <1>1, <1>2, <1>3 DEF IsKeyBefore
<1>6. b = k BY <1>1, <1>3, <1>4, <1>5
<1> QED BY <1>6 DEF b

\* A keyframe is its own, and another frame's is the one of the frame before.
LEMMA KeyBeforeNext ==
    ASSUME Finished, NEW n \in FrameNumbers
    PROVE  /\ KeyAt(n) => KeyBefore(n) = n
           /\ ~KeyAt(n) => n - 1 \in FrameNumbers /\ KeyBefore(n - 1) = KeyBefore(n)
           /\ \A m \in KeyBefore(n)..n : m \in FrameNumbers /\ KeyBefore(m) = KeyBefore(n)
<1> DEFINE b == KeyBefore(n)
<1>1. n \in Nat /\ Len(stored) \in Nat /\ n < Len(stored) BY DEF FrameNumbers, Finished
<1>2. b \in 0..n /\ KeyAt(b) /\ \A j \in b + 1..n : ~KeyAt(j) BY KeyBeforeIsThere DEF IsKeyBefore
<1>3. ASSUME KeyAt(n) PROVE b = n
  <2> HIDE DEF b
  <2> QED BY <1>1, <1>2, <1>3
<1>4. ASSUME NEW m \in b..n PROVE m \in FrameNumbers /\ KeyBefore(m) = b
  <2> HIDE DEF b
  <2>1. m \in FrameNumbers BY <1>1, <1>2 DEF FrameNumbers
  <2>2. IsKeyBefore(b, m) BY <1>1, <1>2 DEF IsKeyBefore
  <2> QED BY <2>1, <2>2, KeyBeforeIsOne
<1>5. ASSUME ~KeyAt(n) PROVE n - 1 \in b..n
  <2> HIDE DEF b
  <2>1. b # n BY <1>2, <1>5
  <2> QED BY <1>1, <1>2, <2>1
<1> HIDE DEF b
<1> QED BY <1>3, <1>4, <1>5 DEF b

-----------------------------------------------------------------------------
(* Reading a frame *)

Reader(open, decoded, out, mc, asked, ok, faults) ==
    [open |-> open, decoded |-> decoded, out |-> out, mc |-> mc, asked |-> asked, ok |-> ok,
     faults |-> faults]
Readers == [open : BOOLEAN, decoded : Int, out : Picture, mc : {MmcInit}, asked : Int,
            ok : BOOLEAN, faults : BOOLEAN]

LEMMA ReaderType ==
    /\ \A q \in Readers :
          /\ q.open \in BOOLEAN /\ q.decoded \in Int /\ q.out \in Picture /\ q.mc = MmcInit
          /\ q.asked \in Int /\ q.ok \in BOOLEAN /\ q.faults \in BOOLEAN
          /\ q = Reader(q.open, q.decoded, q.out, q.mc, q.asked, q.ok, q.faults)
    /\ \A open \in BOOLEAN, decoded \in Int, out \in Picture, asked \in Int, ok \in BOOLEAN,
          faults \in BOOLEAN :
              Reader(open, decoded, out, MmcInit, asked, ok, faults) \in Readers
BY DEF Readers, Reader

\* What becomes of a reader that decodes the frame n, of which the tiles are
\* s.
Refuses(q, n, c, fails, refused) ==
    \/ n = fails \/ (~c.key /\ q.decoded # n - 1)
    \/ c.key /\ DOMAIN c.tiles # Tiles
    \/ refused /\ Cardinality(DOMAIN c.tiles) > 1
ReadOne(q, n, c, s, fails, refused) ==
    IF ~q.ok THEN q
    ELSE IF Refuses(q, n, c, fails, refused)
    THEN Reader(q.open, q.decoded, q.out, q.mc, q.asked, FALSE, q.faults)
    ELSE Reader(q.open, IF s.ok THEN n ELSE q.decoded, s.pic, q.mc, q.asked, s.ok, q.faults)
Chunk1(n) == file.chunks[n + 1]
Tiles1(q, n) == DecodeTiles(Chunk1(n).tiles, q.out, ~Chunk1(n).key)

LEMMA DecodeOneCases ==
    ASSUME Finished, NEW q \in Readers, NEW n \in FrameNumbers, NEW fails, NEW refused
    PROVE  /\ DecodeOne(q, n, fails, refused) = ReadOne(q, n, Chunk1(n), Tiles1(q, n), fails, refused)
           /\ Tiles1(q, n) \in Pictured
           /\ DecodeOne(q, n, fails, refused) \in Readers
<1> DEFINE c == Chunk1(n)
           s == Tiles1(q, n)
           e == DecodeOne(q, n, fails, refused)
           no == FALSE
<1>1. n + 1 \in 1..Len(stored) /\ n \in Int BY DEF Finished, FrameNumbers
<1>2. Chunk(c) BY <1>1 DEF Finished, ChunkInv, Chunk1
<1>3. file.chunks[file.index[n + 1].at] = c BY KeyAtFrame DEF Chunk1
<1>4. /\ q.open \in BOOLEAN /\ q.decoded \in Int /\ q.out \in Picture /\ q.mc = MmcInit
      /\ q.asked \in Int /\ q.ok \in BOOLEAN /\ q.faults \in BOOLEAN
      /\ q = Reader(q.open, q.decoded, q.out, q.mc, q.asked, q.ok, q.faults)
  BY ReaderType
<1>5. s \in Pictured
  <2>1. TilesData(c.tiles) BY <1>2 DEF Chunk
  <2> HIDE DEF c
  <2>2. DecodeTiles(c.tiles, q.out, ~c.key) \in Pictured BY <1>4, <2>1, DecodeTilesType
  <2> QED BY <2>2 DEF Tiles1, c
<1>6. "bits" \notin DOMAIN c
  <2> HIDE DEF c
  <2> QED BY <1>2 DEF Chunk
<1>7. e = IF ~q.ok THEN q
          ELSE IF n = fails \/ (~c.key /\ q.decoded # n - 1) THEN [q EXCEPT !.ok = no]
          ELSE IF \/ c.key /\ DOMAIN c.tiles # Tiles
                  \/ refused /\ Cardinality(DOMAIN c.tiles) > 1
          THEN [q EXCEPT !.ok = no]
          ELSE [q EXCEPT !.out = s.pic, !.decoded = IF s.ok THEN n ELSE @, !.ok = s.ok]
  BY <1>3, <1>6
     DEF DecodeOne, DecodeData, Failed, DecodePicture, TilesDrawn, Drawn, Tiles1
<1> HIDE DEF c, s, e, no
<1>8. [q EXCEPT !.ok = no] = Reader(q.open, q.decoded, q.out, q.mc, q.asked, no, q.faults)
  BY <1>4 DEF Reader
<1>9. [q EXCEPT !.out = s.pic, !.decoded = IF s.ok THEN n ELSE @, !.ok = s.ok] =
          Reader(q.open, IF s.ok THEN n ELSE q.decoded, s.pic, q.mc, q.asked, s.ok, q.faults)
  <2> DEFINE d == IF s.ok THEN n ELSE q.decoded
             o == s.pic
             ok == s.ok
             once == [q EXCEPT !.out = o]
             twice == [once EXCEPT !.decoded = d]
  <2>1. [q EXCEPT !.out = s.pic, !.decoded = IF s.ok THEN n ELSE @, !.ok = s.ok] =
            [twice EXCEPT !.ok = ok]
    OBVIOUS
  <2> HIDE DEF d, o, ok
  <2>2. once = Reader(q.open, q.decoded, o, q.mc, q.asked, q.ok, q.faults) BY <1>4 DEF Reader
  <2> HIDE DEF once
  <2>3. twice = Reader(q.open, d, o, q.mc, q.asked, q.ok, q.faults) BY <2>2 DEF Reader
  <2> HIDE DEF twice
  <2>4. [twice EXCEPT !.ok = ok] = Reader(q.open, d, o, q.mc, q.asked, ok, q.faults)
    BY <2>3 DEF Reader
  <2> QED BY <2>1, <2>4 DEF d, o, ok
<1>10. e = ReadOne(q, n, c, s, fails, refused)
  <2>1. CASE ~q.ok BY <1>7, <2>1 DEF ReadOne
  <2>2. CASE q.ok /\ Refuses(q, n, c, fails, refused)
    <3>1. e = [q EXCEPT !.ok = no] BY <1>7, <2>2 DEF Refuses
    <3> QED BY <1>8, <2>2, <3>1 DEF ReadOne, no
  <2>3. CASE q.ok /\ ~Refuses(q, n, c, fails, refused)
    <3>1. e = [q EXCEPT !.out = s.pic, !.decoded = IF s.ok THEN n ELSE @, !.ok = s.ok]
      BY <1>7, <2>3 DEF Refuses
    <3> QED BY <1>9, <2>3, <3>1 DEF ReadOne
  <2> QED BY <2>1, <2>2, <2>3
<1>11. ReadOne(q, n, c, s, fails, refused) \in Readers
  <2>1. s.ok \in BOOLEAN /\ s.pic \in Picture BY <1>5 DEF Pictured
  <2>2. CASE ~q.ok BY <2>2 DEF ReadOne
  <2>3. CASE q.ok /\ Refuses(q, n, c, fails, refused)
    <3>1. no \in BOOLEAN BY DEF no
    <3>2. Reader(q.open, q.decoded, q.out, q.mc, q.asked, no, q.faults) \in Readers
      BY <1>4, <3>1, ReaderType
    <3> QED BY <2>3, <3>2 DEF ReadOne, no
  <2>4. CASE q.ok /\ ~Refuses(q, n, c, fails, refused)
    <3> DEFINE d == IF s.ok THEN n ELSE q.decoded
               ok == s.ok
    <3>1. d \in Int /\ ok \in BOOLEAN BY <1>1, <1>4, <2>1
    <3> HIDE DEF d, ok
    <3>2. Reader(q.open, d, s.pic, q.mc, q.asked, ok, q.faults) \in Readers
      BY <1>4, <2>1, <3>1, ReaderType
    <3> QED BY <2>4, <3>2 DEF ReadOne, d, ok
  <2> QED BY <2>2, <2>3, <2>4
<1> QED BY <1>5, <1>10, <1>11 DEF c, s, e

\* DecodeFrom, reader by reader.
ReadSoFar(Q, from, start, n, fails, refused) ==
    /\ Q \in [0..n - from + 1 -> Readers] /\ Q[0] = start
    /\ \A i \in 1..n - from + 1 : Q[i] = DecodeOne(Q[i - 1], from + i - 1, fails, refused)

LEMMA DecodeFromChain ==
    ASSUME Finished, NEW from \in FrameNumbers, NEW n \in FrameNumbers, from <= n,
           NEW start \in Readers, NEW fails, NEW refused
    PROVE  \E Q : /\ ReadSoFar(Q, from, start, n, fails, refused)
                  /\ DecodeFrom(from, start, n, fails, refused) = Ended(Q[n - from + 1])
<1> DEFINE S == Readers
           m == n - from + 1
           base == start
           One(q, i) == DecodeOne(q, from + i - 1, fails, refused)
           g == [i \in 1..m |-> [q \in S |-> One(q, i)]]
           all == [i \in 1..m |-> i]
           Body(h) == [c \in SUBSET (1..m) |->
                          IF c = {} THEN base ELSE One(h[c \ {Max(c)}], all[Max(c)])]
           it == CHOOSE h : h = Body(h)
<1>0. n \in Nat /\ from \in Nat /\ Len(stored) \in Nat /\ n < Len(stored)
  BY DEF FrameNumbers, Finished
<1>1. ASSUME NEW q \in S, NEW i \in 1..m PROVE One(q, i) \in S
  <2>1. from + i - 1 \in FrameNumbers BY <1>0 DEF FrameNumbers
  <2> QED BY <2>1, DecodeOneCases
<1>2. base \in S /\ m \in Nat BY <1>0
<1>3. DOMAIN all = 1..m /\ \A y \in 1..m : all[y] = y OBVIOUS
<1>4. DecodeFrom(from, start, n, fails, refused) = Ended(it[1..m])
  <2>1. DOMAIN [i \in 1..n - from + 1 |-> i] = 1..m BY <1>3
  <2> QED BY <2>1 DEF DecodeFrom, FoldLeft, MapThenFoldSet
<1> HIDE DEF S, m, One, all, base
<1>5. g \in [1..m -> [S -> S]] BY <1>1
<1>6. PICK h : Iterates(h, m, S, base, g)
  <2> HIDE DEF g
  <2> QED BY <1>2, <1>5, IterationExists
<1>7. h = Body(h)
  <2>1. ASSUME NEW c \in SUBSET (1..m), c # {}
        PROVE  h[c] = One(h[c \ {Max(c)}], all[Max(c)])
    <3>1. Max(c) \in 1..m /\ h[c] = g[Max(c)][h[c \ {Max(c)}]] BY <1>6, <2>1 DEF Iterates
    <3>2. h[c \ {Max(c)}] \in S BY <1>6 DEF Iterates
    <3> QED BY <1>3, <3>1, <3>2
  <2> HIDE DEF g
  <2> QED BY <1>6, <2>1 DEF Iterates
<1>8. it = Body(it)
  <2> HIDE DEF Body
  <2> QED BY <1>7
<1> HIDE DEF it
<1>9. PICK F : Chain(F, m, S, base, g) /\ it[1..m] = F[m]
  <2>1. it[{}] = base BY <1>8
  <2>2. ASSUME NEW c \in SUBSET (1..m), c # {}, Max(c) \in c, it[c \ {Max(c)}] \in S
        PROVE  it[c] = g[Max(c)][it[c \ {Max(c)}]]
    <3>1. it[c] = One(it[c \ {Max(c)}], all[Max(c)]) BY <1>8, <2>2
    <3> QED BY <1>3, <2>2, <3>1
  <2> HIDE DEF g
  <2>3. Follows(it, m, S, base, g) BY <2>1, <2>2 DEF Follows
  <2> QED BY <1>2, <1>5, <2>3, IterationIsChain
<1>10. ASSUME NEW k \in 1..m PROVE F[k] = One(F[k - 1], k)
  <2>1. F[k - 1] \in S BY <1>2, <1>9 DEF Chain
  <2>2. F[k] = g[k][F[k - 1]]
    <3> HIDE DEF g
    <3> QED BY <1>9 DEF Chain
  <2> QED BY <2>1, <2>2
<1>11. F \in [0..m -> S] /\ F[0] = base
  <2> HIDE DEF g
  <2> QED BY <1>9 DEF Chain
<1> HIDE DEF g
<1>12. ReadSoFar(F, from, start, n, fails, refused)
  BY <1>10, <1>11 DEF ReadSoFar, S, m, One, base
<1>13. F[n - from + 1] = it[1..m] BY <1>9 DEF m
<1> QED BY <1>4, <1>12, <1>13

\* What a reader that has a frame has in the caller's buffer.
Showing(q) == (q.decoded >= 0 /\ Intact(q.decoded)) => q.out = stored[q.decoded + 1]
SameReader(e, q) == e.open = q.open /\ e.asked = q.asked /\ e.faults = q.faults

LEMMA ReaderFields ==
    ASSUME NEW open, NEW decoded, NEW out, NEW mc, NEW asked, NEW ok, NEW faults
    PROVE  LET q == Reader(open, decoded, out, mc, asked, ok, faults)
           IN /\ q.open = open /\ q.decoded = decoded /\ q.out = out
              /\ q.asked = asked /\ q.faults = faults /\ (q.ok <=> ok)
BY DEF Reader

LEMMA NothingBefore ==
    ASSUME Finished, NEW n \in FrameNumbers, Intact(n)
    PROVE  \A m \in KeyBefore(n)..n : m \in FrameNumbers /\ m \notin damaged /\ Intact(m)
<1> SUFFICES ASSUME NEW m \in KeyBefore(n)..n
             PROVE  m \in FrameNumbers /\ m \notin damaged /\ Intact(m)
  OBVIOUS
<1> DEFINE b == KeyBefore(n)
<1>1. n \in Nat BY DEF FrameNumbers, Finished
<1>2. b \in 0..n BY KeyBeforeIsThere DEF IsKeyBefore
<1>3. m \in FrameNumbers /\ KeyBefore(m) = b BY KeyBeforeNext
<1>4. damaged \cap (b..n) = {} BY DEF Intact
<1> HIDE DEF b
<1>5. b..m \subseteq b..n /\ m \in b..n BY <1>1, <1>2 DEF b
<1> QED BY <1>3, <1>4, <1>5 DEF Intact

\* Frames that are decoded show what is stored.
LEMMA StepShows ==
    ASSUME Finished, NEW q \in Readers, NEW n \in FrameNumbers, NEW fails, NEW refused,
           q.ok, Showing(q), DecodeOne(q, n, fails, refused).ok
    PROVE  DecodeOne(q, n, fails, refused).decoded = n /\ Showing(DecodeOne(q, n, fails, refused))
<1> DEFINE c == Chunk1(n)
           s == Tiles1(q, n)
           e == DecodeOne(q, n, fails, refused)
<1>1. n \in Nat /\ n + 1 \in 1..Len(stored) /\ (n + 1) - 1 = n BY DEF Finished, FrameNumbers
<1>2. e = ReadOne(q, n, c, s, fails, refused) BY DecodeOneCases
<1>3. q \in Readers /\ q.out \in Picture /\ q.decoded \in Int BY ReaderType
<1> HIDE DEF c, s, e
<1>4. ~Refuses(q, n, c, fails, refused) /\ s.ok /\ e.decoded = n /\ e.out = s.pic
  <2>1. e.ok BY DEF e
  <2>2. ~Refuses(q, n, c, fails, refused)
    <3> DEFINE no == FALSE
               bad == Reader(q.open, q.decoded, q.out, q.mc, q.asked, no, q.faults)
    <3> SUFFICES ASSUME Refuses(q, n, c, fails, refused) PROVE FALSE OBVIOUS
    <3>1. e = bad BY <1>2 DEF ReadOne
    <3> HIDE DEF no
    <3>2. bad.ok <=> no BY ReaderFields
    <3> QED BY <2>1, <3>1, <3>2 DEF no
  <2> DEFINE d == IF s.ok THEN n ELSE q.decoded
             good == Reader(q.open, d, s.pic, q.mc, q.asked, s.ok, q.faults)
  <2>3. e = good BY <1>2, <2>2 DEF ReadOne
  <2>4. good.decoded = d /\ good.out = s.pic /\ (good.ok <=> s.ok)
    <3> HIDE DEF d
    <3> QED BY ReaderFields
  <2> QED BY <2>1, <2>2, <2>3, <2>4
<1>5. ASSUME Intact(n) PROVE s.pic = stored[n + 1]
  <2>1. n \notin damaged
    <3>1. n \in KeyBefore(n)..n
      <4>1. KeyBefore(n) \in 0..n BY KeyBeforeIsThere DEF IsKeyBefore
      <4> QED BY <1>1, <4>1
    <3> QED BY <1>5, <3>1, NothingBefore
  <2>2. ChunkShows(c, n + 1) BY <1>1, <2>1 DEF Finished, ChunkInv, c, Chunk1
  <2>3. s = DecodeTiles(c.tiles, q.out, ~c.key) BY DEF s, c, Tiles1
  <2>4. CASE c.key
    <3>1. KeyShows(c.tiles, stored[n + 1]) BY <2>2, <2>4 DEF ChunkShows
    <3>2. s = DecodeTiles(c.tiles, q.out, FALSE) BY <2>3, <2>4
    <3>3. s = [ok |-> TRUE, pic |-> stored[n + 1]] BY <1>3, <3>1, <3>2 DEF KeyShows
    <3> QED BY <3>3
  <2>5. CASE ~c.key
    <3>1. n > 0 /\ DeltaShows(c.tiles, stored[(n + 1) - 1], stored[n + 1])
      BY <1>1, <2>2, <2>5 DEF ChunkShows
    <3>2. DeltaShows(c.tiles, stored[n], stored[n + 1]) BY <1>1, <3>1
    <3>3. q.decoded = n - 1 BY <1>4, <2>5 DEF Refuses
    <3>4. ~KeyAt(n) BY <2>5, KeyAtFrame DEF c, Chunk1
    <3>5. n - 1 \in KeyBefore(n)..n
      <4>1. KeyBefore(n) \in 0..n /\ KeyAt(KeyBefore(n)) BY KeyBeforeIsThere DEF IsKeyBefore
      <4>2. KeyBefore(n) # n BY <3>4, <4>1
      <4> QED BY <1>1, <4>1, <4>2
    <3>6. Intact(q.decoded) BY <1>5, <3>3, <3>5, NothingBefore
    <3>7. q.decoded >= 0 /\ q.decoded + 1 = n BY <1>1, <3>1, <3>3
    <3>8. q.out = stored[n] BY <3>6, <3>7 DEF Showing
    <3>9. s = DecodeTiles(c.tiles, q.out, TRUE) BY <2>3, <2>5
    <3>10. s = [ok |-> TRUE, pic |-> stored[n + 1]] BY <3>2, <3>8, <3>9 DEF DeltaShows
    <3> QED BY <3>10
  <2> QED BY <2>4, <2>5
<1> QED BY <1>4, <1>5 DEF Showing, e

\* And a frame that is not damaged is decoded, over the one before it.
Startable(q, n) == KeyAt(n) \/ (n > 0 /\ q.decoded = n - 1 /\ q.out = stored[n])

LEMMA StepGoes ==
    ASSUME Finished, NEW q \in Readers, NEW n \in FrameNumbers, NEW fails, NEW refused,
           q.ok, n # fails, ~refused, n \notin damaged, Startable(q, n)
    PROVE  LET e == DecodeOne(q, n, fails, refused)
           IN e.ok /\ e.decoded = n /\ e.out = stored[n + 1]
<1> DEFINE c == Chunk1(n)
           s == Tiles1(q, n)
           e == DecodeOne(q, n, fails, refused)
<1>1. n \in Nat /\ n + 1 \in 1..Len(stored) /\ (n + 1) - 1 = n BY DEF Finished, FrameNumbers
<1>2. e = ReadOne(q, n, c, s, fails, refused) BY DecodeOneCases
<1>3. q.out \in Picture BY ReaderType
<1>4. ChunkShows(c, n + 1) BY <1>1 DEF Finished, ChunkInv, Chunk1
<1>5. KeyAt(n) <=> c.key BY KeyAtFrame DEF Chunk1
<1>6. s = DecodeTiles(c.tiles, q.out, ~c.key) BY DEF Tiles1
<1> HIDE DEF c, s, e
<1>7. s = [ok |-> TRUE, pic |-> stored[n + 1]] /\ ~Refuses(q, n, c, fails, refused)
  <2>1. CASE c.key
    <3>1. KeyShows(c.tiles, stored[n + 1]) BY <1>4, <2>1 DEF ChunkShows
    <3>2. s = DecodeTiles(c.tiles, q.out, FALSE) BY <1>6, <2>1
    <3> QED BY <1>3, <2>1, <3>1, <3>2 DEF KeyShows, Refuses
  <2>2. CASE ~c.key
    <3>1. DeltaShows(c.tiles, stored[(n + 1) - 1], stored[n + 1]) BY <1>4, <2>2 DEF ChunkShows
    <3>2. DeltaShows(c.tiles, stored[n], stored[n + 1]) BY <1>1, <3>1
    <3>3. q.decoded = n - 1 /\ q.out = stored[n] BY <1>5, <2>2 DEF Startable
    <3>4. s = DecodeTiles(c.tiles, q.out, TRUE) BY <1>6, <2>2
    <3> QED BY <2>2, <3>2, <3>3, <3>4 DEF DeltaShows, Refuses
  <2> QED BY <2>1, <2>2
<1>8. s.ok /\ s.pic = stored[n + 1] BY <1>7
<1> DEFINE good == Reader(q.open, n, s.pic, q.mc, q.asked, s.ok, q.faults)
<1>9. e = good BY <1>2, <1>7, <1>8 DEF ReadOne
<1>10. good.decoded = n /\ good.out = s.pic /\ (good.ok <=> s.ok) BY ReaderFields
<1> QED BY <1>8, <1>9, <1>10 DEF e

LEMMA StepKeeps ==
    ASSUME Finished, NEW q \in Readers, NEW n \in FrameNumbers, NEW fails, NEW refused
    PROVE  /\ SameReader(DecodeOne(q, n, fails, refused), q)
           /\ ~q.ok => ~DecodeOne(q, n, fails, refused).ok
<1> DEFINE c == Chunk1(n)
           s == Tiles1(q, n)
           e == DecodeOne(q, n, fails, refused)
           no == FALSE
           d == IF s.ok THEN n ELSE q.decoded
           bad == Reader(q.open, q.decoded, q.out, q.mc, q.asked, no, q.faults)
           good == Reader(q.open, d, s.pic, q.mc, q.asked, s.ok, q.faults)
<1>1. e = ReadOne(q, n, c, s, fails, refused) BY DecodeOneCases
<1> HIDE DEF c, s, e, no, d
<1>2. SameReader(bad, q) BY ReaderFields DEF SameReader
<1>3. SameReader(good, q) BY ReaderFields DEF SameReader
<1>4. CASE ~q.ok BY <1>1, <1>4 DEF ReadOne, SameReader, e
<1>5. CASE q.ok /\ Refuses(q, n, c, fails, refused) BY <1>1, <1>2, <1>5 DEF ReadOne, e, no
<1>6. CASE q.ok /\ ~Refuses(q, n, c, fails, refused) BY <1>1, <1>3, <1>6 DEF ReadOne, e, d
<1> QED BY <1>4, <1>5, <1>6

LEMMA EndedReader ==
    ASSUME NEW q \in Readers
    PROVE  /\ Ended(q) \in Readers /\ SameReader(Ended(q), q)
           /\ q.ok => Ended(q) = q
           /\ ~q.ok => Ended(q).decoded = -1
<1> DEFINE none == -1
           lost == Reader(q.open, none, q.out, q.mc, q.asked, q.ok, q.faults)
<1>1. /\ q.open \in BOOLEAN /\ q.decoded \in Int /\ q.out \in Picture /\ q.mc = MmcInit
      /\ q.asked \in Int /\ q.ok \in BOOLEAN /\ q.faults \in BOOLEAN
      /\ q = Reader(q.open, q.decoded, q.out, q.mc, q.asked, q.ok, q.faults)
  BY ReaderType
<1>2. none \in Int OBVIOUS
<1>3. Ended(q) = IF q.ok THEN q ELSE [q EXCEPT !.decoded = none] BY DEF Ended
<1> HIDE DEF none
<1>4. [q EXCEPT !.decoded = none] = lost BY <1>1 DEF Reader
<1>5. lost \in Readers BY <1>1, <1>2, ReaderType
<1>6. lost.decoded = none /\ SameReader(lost, q) BY ReaderFields DEF SameReader
<1> HIDE DEF lost
<1>7. CASE q.ok BY <1>3, <1>7 DEF SameReader
<1>8. CASE ~q.ok BY <1>3, <1>4, <1>5, <1>6, <1>8 DEF none
<1> QED BY <1>7, <1>8

\* mvid_decode, from the frame it starts with: the reader believes in a
\* frame only if it is the one that was asked for, and shows it.
LEMMA DecodeFromShows ==
    ASSUME Finished, NEW from \in FrameNumbers, NEW n \in FrameNumbers, from <= n,
           NEW start \in Readers, start.ok, Showing(start), NEW fails, NEW refused
    PROVE  LET e == DecodeFrom(from, start, n, fails, refused)
           IN e \in Readers /\ SameReader(e, start) /\ e.decoded \in {-1, n} /\ Showing(e)
<1> DEFINE m == n - from + 1
           e == DecodeFrom(from, start, n, fails, refused)
<1>0. n \in Nat /\ from \in Nat /\ Len(stored) \in Nat /\ n < Len(stored) /\ m \in Nat /\ m > 0
      /\ from + m - 1 = n
  BY DEF FrameNumbers, Finished
<1>1. PICK Q : ReadSoFar(Q, from, start, n, fails, refused) /\ e = Ended(Q[m])
  BY DecodeFromChain
<1> HIDE DEF e, m
<1>2. /\ Q \in [0..m -> Readers] /\ Q[0] = start
      /\ \A i \in 1..m : Q[i] = DecodeOne(Q[i - 1], from + i - 1, fails, refused)
  BY <1>1 DEF ReadSoFar, m
<1> DEFINE Good(i) == /\ SameReader(Q[i], start)
                      /\ Q[i].ok => Showing(Q[i]) /\ (i > 0 => Q[i].decoded = from + i - 1)
           T == {i \in Nat : i <= m => Good(i)}
<1>3. 0 \in T BY <1>2 DEF SameReader
<1>4. ASSUME NEW i \in Nat, i \in T PROVE i + 1 \in T
  <2> SUFFICES ASSUME i + 1 <= m PROVE Good(i + 1) BY <1>4
  <2> DEFINE k == i + 1
             f == from + k - 1
             q == Q[i]
  <2>1. Good(i) BY <1>0, <1>4
  <2>2. f \in FrameNumbers /\ k \in 1..m /\ k - 1 = i /\ i \in 0..m /\ k > 0
    BY <1>0 DEF FrameNumbers, m
  <2>3. q \in Readers BY <1>2, <2>2
  <2> HIDE DEF k
  <2>4. Q[k] = DecodeOne(q, f, fails, refused) BY <1>2, <2>2
  <2>5. SameReader(q, start) /\ (q.ok => Showing(q)) BY <2>1
  <2> HIDE DEF f, q
  <2>6. SameReader(Q[k], q) /\ (~q.ok => ~Q[k].ok) BY <2>2, <2>3, <2>4, StepKeeps
  <2>7. ASSUME Q[k].ok PROVE Showing(Q[k]) /\ Q[k].decoded = f
    BY <2>2, <2>3, <2>4, <2>5, <2>6, <2>7, StepShows
  <2> QED BY <2>5, <2>6, <2>7 DEF SameReader, f, k
<1> HIDE DEF T
<1>5. m \in T BY <1>0, <1>3, <1>4, Induction
<1>6. Good(m) BY <1>0, <1>5 DEF T
<1>7. Q[m] \in Readers BY <1>0, <1>2
<1> DEFINE q == Q[m]
<1>8. SameReader(q, start) /\ (q.ok => Showing(q) /\ q.decoded = n) BY <1>0, <1>6
<1> HIDE DEF q
<1>9. /\ Ended(q) \in Readers /\ SameReader(Ended(q), q) /\ (q.ok => Ended(q) = q)
      /\ (~q.ok => Ended(q).decoded = -1)
  BY <1>7, EndedReader DEF q
<1>10. SameReader(e, start) BY <1>1, <1>8, <1>9 DEF SameReader, q
<1>11. CASE q.ok BY <1>1, <1>8, <1>9, <1>10, <1>11 DEF q, e
<1>12. CASE ~q.ok
  <2>1. e.decoded = -1 BY <1>1, <1>9, <1>12 DEF q
  <2>2. Showing(e) BY <2>1 DEF Showing
  <2> QED BY <1>1, <1>9, <1>10, <2>1, <2>2 DEF q, e
<1> QED BY <1>11, <1>12

\* And it comes to the frame that was asked for if nothing on the way there
\* is damaged.
LEMMA DecodeFromGoes ==
    ASSUME Finished, NEW from \in FrameNumbers, NEW n \in FrameNumbers, from <= n,
           NEW start \in Readers, start.ok, Startable(start, from),
           NEW fails, fails \notin from..n, NEW refused, ~refused,
           (from..n) \cap damaged = {}
    PROVE  LET e == DecodeFrom(from, start, n, fails, refused) IN e.ok /\ e.decoded = n
<1> DEFINE m == n - from + 1
           e == DecodeFrom(from, start, n, fails, refused)
<1>0. n \in Nat /\ from \in Nat /\ Len(stored) \in Nat /\ n < Len(stored) /\ m \in Nat /\ m > 0
      /\ from + m - 1 = n
  BY DEF FrameNumbers, Finished
<1>1. PICK Q : ReadSoFar(Q, from, start, n, fails, refused) /\ e = Ended(Q[m])
  BY DecodeFromChain
<1> HIDE DEF e, m
<1>2. /\ Q \in [0..m -> Readers] /\ Q[0] = start
      /\ \A i \in 1..m : Q[i] = DecodeOne(Q[i - 1], from + i - 1, fails, refused)
  BY <1>1 DEF ReadSoFar, m
<1> DEFINE Good(i) == /\ Q[i].ok
                      /\ i > 0 => Q[i].decoded = from + i - 1 /\ Q[i].out = stored[from + i]
           T == {i \in Nat : i <= m => Good(i)}
<1>3. 0 \in T BY <1>2
<1>4. ASSUME NEW i \in Nat, i \in T PROVE i + 1 \in T
  <2> SUFFICES ASSUME i + 1 <= m PROVE Good(i + 1) BY <1>4
  <2> DEFINE k == i + 1
             f == from + k - 1
             q == Q[i]
  <2>1. Good(i) BY <1>0, <1>4
  <2>2. f \in FrameNumbers /\ k \in 1..m /\ k - 1 = i /\ i \in 0..m /\ k > 0 /\ f = from + i
        /\ f \in from..n /\ f + 1 = from + k
    BY <1>0 DEF FrameNumbers, m
  <2>3. q \in Readers BY <1>2, <2>2
  <2> HIDE DEF k
  <2>4. Q[k] = DecodeOne(q, f, fails, refused) BY <1>2, <2>2
  <2>5. Startable(q, f)
    <3>1. CASE i = 0 BY <1>0, <1>2, <2>2, <3>1
    <3>2. CASE i > 0
      <4>1. q.decoded = from + i - 1 /\ q.out = stored[from + i] BY <2>1, <3>2
      <4>2. f > 0 /\ q.decoded = f - 1 /\ q.out = stored[f]
        <5> HIDE DEF q, f
        <5> QED BY <1>0, <2>2, <3>2, <4>1
      <4> QED BY <4>2 DEF Startable
    <3> QED BY <3>1, <3>2
  <2>6. q.ok BY <2>1
  <2> HIDE DEF f, q
  <2>7. f # fails /\ f \notin damaged BY <2>2
  <2>8. Q[k].ok /\ Q[k].decoded = f /\ Q[k].out = stored[f + 1]
    BY <2>2, <2>3, <2>4, <2>5, <2>6, <2>7, StepGoes
  <2>9. stored[f + 1] = stored[from + k] BY <2>2
  <2> QED BY <2>8, <2>9 DEF f, k
<1> HIDE DEF T
<1>5. m \in T BY <1>0, <1>3, <1>4, Induction
<1>6. Good(m) BY <1>0, <1>5 DEF T
<1>7. Q[m] \in Readers BY <1>0, <1>2
<1>8. Q[m].ok /\ Q[m].decoded = n BY <1>0, <1>6
<1>9. Ended(Q[m]) = Q[m] BY <1>7, <1>8, EndedReader
<1> QED BY <1>1, <1>8, <1>9 DEF e

\* Where mvid_decode starts: at the keyframe, or after the frame it has,
\* which then hangs on the same keyframe.
After(q, n) == /\ q.decoded >= 0 /\ From(q, n) = q.decoded + 1 /\ q.decoded \in KeyBefore(n)..n

LEMMA FromStarts ==
    ASSUME Finished, NEW q \in Readers, NEW n \in FrameNumbers, n # q.decoded,
           q.decoded \in -1..Len(stored) - 1
    PROVE  /\ From(q, n) \in KeyBefore(n)..n /\ From(q, n) \in FrameNumbers
           /\ From(q, n) = KeyBefore(n) \/ After(q, n)
<1> DEFINE b == KeyBefore(n)
           a == q.decoded
           next == a + 1
           keys == {k \in next + 1..n : KeyAt(k)}
           from == From(q, n)
<1>1. n \in Nat /\ Len(stored) \in Nat /\ n < Len(stored) /\ a \in Int
  BY DEF FrameNumbers, Finished
<1>2. b \in 0..n /\ KeyAt(b) /\ \A j \in b + 1..n : ~KeyAt(j) BY KeyBeforeIsThere DEF IsKeyBefore
<1>3. from = IF a >= 0 /\ n > a
             THEN IF keys = {} THEN next ELSE CHOOSE k \in keys : \A j \in keys : j <= k
             ELSE b
  BY DEF From
<1>4. n # a OBVIOUS
<1> HIDE DEF b, a, from
<1>5. from \in b..n /\ (from = b \/ (a >= 0 /\ from = a + 1 /\ a \in b..n))
  <2>1. CASE ~(a >= 0 /\ n > a)
    <3>1. from = b BY <1>3, <2>1
    <3> QED BY <1>1, <1>2, <3>1
  <2>2. CASE a >= 0 /\ n > a /\ keys = {}
    <3>1. from = a + 1 BY <1>3, <2>2
    <3>2. b <= a + 1
      <4>1. CASE b > a + 1
        <5>1. b \in keys BY <1>1, <1>2, <4>1
        <5> QED BY <2>2, <5>1
      <4> QED BY <1>1, <1>2, <4>1
    <3> QED BY <1>1, <1>2, <2>2, <3>1, <3>2
  <2>3. CASE a >= 0 /\ n > a /\ keys # {}
    <3>1. keys \subseteq 0..n BY <1>1, <2>3
    <3>2. PICK k \in keys : \A j \in keys : j <= k
      <4> HIDE DEF keys
      <4> QED BY <1>1, <2>3, <3>1, GreatestElement
    <3>3. from = CHOOSE x \in keys : \A j \in keys : j <= x BY <1>3, <2>3
    <3>4. from \in keys /\ \A j \in keys : j <= from
      <4> HIDE DEF keys
      <4> QED BY <3>2, <3>3
    <3>5. from \in next + 1..n /\ KeyAt(from) BY <3>4
    <3>6. ~(from < b)
      <4> SUFFICES ASSUME from < b PROVE FALSE OBVIOUS
      <4>1. b \in keys BY <1>1, <1>2, <2>3, <3>5
      <4> QED BY <1>1, <1>2, <3>4, <3>5, <4>1
    <3>7. ~(b < from) BY <1>1, <1>2, <3>5
    <3>8. from = b BY <1>1, <1>2, <3>5, <3>6, <3>7
    <3> QED BY <1>1, <1>2, <3>8
  <2> QED BY <2>1, <2>2, <2>3
<1>6. from \in FrameNumbers BY <1>1, <1>2, <1>5 DEF FrameNumbers
<1> QED BY <1>5, <1>6 DEF After, from, a, b

\* mvid_decode: whatever has failed, the reader has what it says it has, and
\* has what it was asked for if nothing failed and nothing on the way to it
\* is damaged.
Asked(q) == (q.asked >= 0 /\ ~q.faults /\ Intact(q.asked)) => q.ok /\ q.decoded = q.asked

LEMMA DecodeShows ==
    ASSUME Finished, r \in Readers, r.decoded \in -1..Len(stored) - 1, Showing(r),
           NEW n \in Nat, NEW fails \in Int, NEW refused \in BOOLEAN, Decode(n, fails, refused)
    PROVE  /\ n \in FrameNumbers /\ r' \in Readers /\ r'.open = r.open
           /\ r'.decoded \in {-1, r.decoded, n} /\ r'.asked = n
           /\ Showing(r') /\ Asked(r')
<1> DEFINE from == From(r, n)
           faults == fails >= 0 \/ refused
           yes == TRUE
           start == [r EXCEPT !.ok = TRUE, !.asked = n, !.faults = fails >= 0 \/ refused]
           begun == Reader(r.open, r.decoded, r.out, r.mc, n, yes, faults)
<1>1. /\ r.open /\ n < file.count
      /\ fails = -1 \/ (n # r.decoded /\ fails \in from..n /\ ~refused)
      /\ refused => n # r.decoded
      /\ r' = IF n = r.decoded THEN start ELSE DecodeFrom(from, start, n, fails, refused)
  BY DEF Decode
<1>2. n \in FrameNumbers /\ n \in Int /\ Len(stored) \in Nat /\ n < Len(stored)
  BY <1>1 DEF Finished, FrameNumbers
<1>3. /\ r.open \in BOOLEAN /\ r.decoded \in Int /\ r.out \in Picture /\ r.mc = MmcInit
      /\ r.asked \in Int /\ r.ok \in BOOLEAN /\ r.faults \in BOOLEAN
      /\ r = Reader(r.open, r.decoded, r.out, r.mc, r.asked, r.ok, r.faults)
  BY ReaderType
<1>4. faults \in BOOLEAN /\ yes \in BOOLEAN OBVIOUS
<1>5. start = begun
  <2> DEFINE once == [r EXCEPT !.ok = yes]
             twice == [once EXCEPT !.asked = n]
  <2>1. start = [twice EXCEPT !.faults = faults] OBVIOUS
  <2> HIDE DEF faults, yes
  <2>2. once = Reader(r.open, r.decoded, r.out, r.mc, r.asked, yes, r.faults)
    BY <1>3 DEF Reader
  <2> HIDE DEF once
  <2>3. twice = Reader(r.open, r.decoded, r.out, r.mc, n, yes, r.faults) BY <2>2 DEF Reader
  <2> HIDE DEF twice
  <2>4. [twice EXCEPT !.faults = faults] = begun BY <2>3 DEF Reader
  <2> QED BY <2>1, <2>4
<1> HIDE DEF faults, yes, start
<1>6. begun \in Readers BY <1>2, <1>3, <1>4, ReaderType
<1>7. /\ begun.open = r.open /\ begun.decoded = r.decoded /\ begun.out = r.out /\ begun.asked = n
      /\ begun.faults = faults /\ (begun.ok <=> yes)
  BY ReaderFields
<1> HIDE DEF begun
<1>8. Showing(start) BY <1>5, <1>7 DEF Showing
<1>9. CASE n = r.decoded
  <2>1. r' = start BY <1>1, <1>9
  <2>2. start \in Readers /\ start.open = r.open /\ start.decoded = n /\ start.asked = n /\ start.ok
    BY <1>5, <1>6, <1>7, <1>9 DEF yes
  <2> QED BY <1>2, <1>8, <1>9, <2>1, <2>2 DEF Asked
<1>10. CASE n # r.decoded
  <2> DEFINE e == DecodeFrom(from, start, n, fails, refused)
  <2>1. from \in KeyBefore(n)..n /\ from \in FrameNumbers /\ (from = KeyBefore(n) \/ After(r, n))
    BY <1>2, <1>10, FromStarts
  <2>2. KeyBefore(n) \in 0..n /\ KeyAt(KeyBefore(n))
    BY <1>2, KeyBeforeIsThere DEF IsKeyBefore
  <2> DEFINE after == After(r, n)
  <2>3. after => r.decoded >= 0 /\ from = r.decoded + 1 /\ r.decoded \in KeyBefore(n)..n
    BY DEF After
  <2> HIDE DEF from, after
  <2>4. from <= n /\ start \in Readers /\ start.ok /\ start.decoded = r.decoded /\ start.out = r.out
    BY <1>2, <1>5, <1>6, <1>7, <2>1, <2>2 DEF yes
  <2>5. e \in Readers /\ SameReader(e, start) /\ e.decoded \in {-1, n} /\ Showing(e)
    BY <1>2, <1>8, <2>1, <2>4, DecodeFromShows
  <2>6. ASSUME ~faults, Intact(n) PROVE e.ok /\ e.decoded = n
    <3>1. fails = -1 /\ ~refused
      <4>1. ~(fails >= 0) /\ ~refused BY <2>6 DEF faults
      <4>2. from >= 0 BY <1>2, <2>1, <2>2
      <4> QED BY <1>1, <1>2, <2>1, <2>2, <4>1, <4>2
    <3>2. (KeyBefore(n)..n) \cap damaged = {} BY <2>6 DEF Intact
    <3>3. (from..n) \cap damaged = {}
      <4>1. from..n \subseteq KeyBefore(n)..n BY <1>2, <2>1, <2>2
      <4> QED BY <3>2, <4>1
    <3>4. Startable(start, from)
      <4>1. CASE from = KeyBefore(n) BY <2>2, <4>1 DEF Startable
      <4>2. CASE after
        <5>1. Intact(r.decoded) BY <1>2, <2>3, <2>6, <4>2, NothingBefore
        <5>2. r.out = stored[r.decoded + 1] BY <2>3, <4>2, <5>1 DEF Showing
        <5>3. from > 0 /\ start.decoded = from - 1 BY <1>3, <2>3, <2>4, <4>2
        <5> QED BY <2>3, <2>4, <4>2, <5>2, <5>3 DEF Startable
      <4> QED BY <2>1, <4>1, <4>2 DEF after
    <3>5. fails \notin from..n BY <1>2, <2>1, <2>2, <3>1
    <3> QED BY <1>2, <2>1, <2>4, <3>1, <3>3, <3>4, <3>5, DecodeFromGoes
  <2>7. r' = e BY <1>1, <1>10 DEF from
  <2>8. e.open = r.open /\ e.asked = n /\ e.faults = faults
    BY <1>5, <1>7, <2>5 DEF SameReader
  <2> HIDE DEF e
  <2> QED BY <1>2, <2>5, <2>6, <2>7, <2>8 DEF Asked
<1> QED BY <1>9, <1>10

-----------------------------------------------------------------------------
(* The file of a video with the tiles codec *)

LEMMA IsSeqAppend ==
    ASSUME NEW q, IsSeq(q), NEW x
    PROVE  /\ IsSeq(Append(q, x)) /\ Len(q) \in Nat /\ Len(Append(q, x)) = Len(q) + 1
           /\ Append(q, x)[Len(q) + 1] = x
           /\ \A k \in 1..Len(q) : Append(q, x)[k] = q[k]
<1>1. PICK S : q \in Seq(S) BY DEF IsSeq
<1> DEFINE S2 == S \cup {x}
<1>2. q \in Seq(S2) /\ x \in S2 BY <1>1
<1> HIDE DEF S2
<1>3. Append(q, x) \in Seq(S2) BY <1>2
<1> QED BY <1>2, <1>3 DEF IsSeq

LEMMA IsSeqDomain ==
    ASSUME NEW q, IsSeq(q)
    PROVE  DOMAIN q = 1..Len(q) /\ Len(q) \in Nat
BY DEF IsSeq

FileForm ==
    /\ file = [chunks |-> file.chunks, header |-> file.header, count |-> file.count,
               index |-> file.index]
    /\ file.header \in BOOLEAN

BeingWritten ==
    /\ ~file.header /\ damaged = {} /\ r = Closed
    /\ v.at = Len(stored) + 1 /\ IndexFor(v.index)
    /\ IsSeq(file.chunks) /\ Len(file.chunks) = Len(stored)
    /\ \A k \in 1..Len(stored) : ChunkInv(file.chunks[k], k)
    /\ Len(stored) > 0 => stored[Len(stored)] = Shown(v.prev, v.set.alpha)

BeingRead ==
    /\ file.header => Finished
    /\ DOMAIN file.chunks = 1..Len(stored)
    /\ r \in Readers /\ r.decoded \in -1..Len(stored) - 1
    /\ IF r.open THEN file.header ELSE r = Closed
    /\ Showing(r) /\ Asked(r)

\* The file has what the writer says is stored, and a reader shows it.
VideoInv ==
    /\ v.phase = "off" => file = NoFile /\ damaged = {} /\ r = Closed
    /\ TilesVideo => FileForm /\ IF v.phase = "done" THEN BeingRead ELSE BeingWritten

LEMMA ClosedReads ==
    /\ Closed \in Readers /\ ~Closed.open /\ Closed.decoded = -1 /\ Closed.asked = -1
    /\ Showing(Closed) /\ Asked(Closed)
    /\ [Closed EXCEPT !.open = TRUE] \in Readers
    /\ \A q : q = [Closed EXCEPT !.open = TRUE] =>
           q.open /\ q.decoded = -1 /\ Showing(q) /\ Asked(q)
<1> DEFINE no == FALSE
           yes == TRUE
           none == -1
           q == Reader(no, none, Black, MmcInit, none, no, no)
           o == Reader(yes, none, Black, MmcInit, none, no, no)
<1>1. no \in BOOLEAN /\ yes \in BOOLEAN /\ none \in Int OBVIOUS
<1>2. Closed = q BY DEF Closed, Reader
<1> HIDE DEF no, yes, none, q
<1>3. [Closed EXCEPT !.open = yes] = o BY <1>1, <1>2 DEF q, Reader
<1> HIDE DEF o
<1>4. q \in Readers /\ o \in Readers BY <1>1, BlackIsPicture, ReaderType DEF q, o
<1>5. /\ q.decoded = none /\ q.asked = none /\ (q.open <=> no)
      /\ o.decoded = none /\ o.asked = none /\ (o.open <=> yes)
  <2>1. q.decoded = none /\ q.asked = none /\ (q.open <=> no) BY DEF q, Reader
  <2>2. o.decoded = none /\ o.asked = none /\ (o.open <=> yes) BY DEF o, Reader
  <2> QED BY <2>1, <2>2
<1>6. Showing(q) /\ Asked(q) /\ Showing(o) /\ Asked(o) BY <1>5 DEF Showing, Asked, none
<1>7. [Closed EXCEPT !.open = TRUE] = o BY <1>3 DEF yes
<1> QED BY <1>2, <1>4, <1>5, <1>6, <1>7 DEF no, yes, none

\* mvid_writer_frame puts a frame into the file that shows what is stored.
LEMMA NewChunk ==
    ASSUME NEW px \in Picture, NEW last \in Picture, NEW alpha \in BOOLEAN, NEW fast,
           NEW key \in BOOLEAN
    PROVE  LET tiles == FrameEncode(px, last, key, alpha, fast)
           IN /\ Chunk([key |-> key, tiles |-> tiles])
              /\ key => KeyShows(tiles, Shown(px, alpha))
              /\ ~key => DeltaShows(tiles, Shown(last, alpha), Shown(px, alpha))
<1> DEFINE tiles == FrameEncode(px, last, key, alpha, fast)
           c == [key |-> key, tiles |-> tiles]
<1>1. DOMAIN tiles \subseteq Tiles BY DEF FrameEncode, Changed
<1> HIDE DEF tiles
<1>2. CASE key
  <2>1. tiles = FrameEncode(px, last, TRUE, alpha, fast) BY <1>2 DEF tiles
  <2>2. TilesData(tiles) /\ KeyShows(tiles, Shown(px, alpha)) BY <2>1, KeyFrameShows
  <2> QED BY <1>1, <1>2, <2>2 DEF Chunk, tiles
<1>3. CASE ~key
  <2>1. tiles = FrameEncode(px, last, FALSE, alpha, fast) BY <1>3 DEF tiles
  <2>2. TilesData(tiles) /\ DeltaShows(tiles, Shown(last, alpha), Shown(px, alpha))
    BY <2>1, DeltaFrameShows
  <2> QED BY <1>1, <1>3, <2>2 DEF Chunk, tiles
<1> QED BY <1>2, <1>3

LEMMA TilesFrameWrites ==
    ASSUME WriterInv, DriftInv, VideoInv, NEW pic \in Pictures, NEW wrote \in BOOLEAN,
           TilesFrame(pic, wrote)
    PROVE  VideoInv'
<1> DEFINE s == v.set
           n == Len(stored)
           k == n + 1
           key == n % s.interval = 0
           px == FrameFor(s, pic, v.prev, Number = 0)
           new == Shown(px, s.alpha)
           tiles == FrameEncode(px, v.prev, key, s.alpha, s.fast)
           data == [key |-> key, tiles |-> tiles]
           w == IF wrote THEN [v EXCEPT !.prev = px] ELSE v
           entry == [at |-> v.at, key |-> key]
<1>1. /\ v.phase = "open" /\ Writing /\ s \in Settings /\ s.codec = "tiles"
      /\ stored \in Seq(Picture) /\ v.prev \in Picture
  BY DEF TilesFrame, WriterInv, Writing, DriftInv, TilesVideo
<1>2. FileForm /\ BeingWritten BY <1>1 DEF VideoInv, TilesVideo
<1>3. s.interval \in Nat \ {0} /\ s.alpha \in BOOLEAN BY <1>1, SettingsAssumption
<1>4. n \in Nat /\ Number = n /\ key \in BOOLEAN
  <2>1. n \in Nat BY <1>1
  <2>2. Number = n BY <1>2 DEF Number, BeingWritten, IndexFor
  <2> QED BY <2>1, <2>2
<1>5. Key = key BY <1>4 DEF Key
<1>6. /\ AddEntry(w, data, wrote) /\ r' = r /\ damaged' = damaged
      /\ stored' = IF wrote THEN Append(stored, new) ELSE stored
  <2>1. FrameEncode(px, v.prev, Key, s.alpha, s.fast) = tiles BY <1>5
  <2>2. [key |-> Key, tiles |-> FrameEncode(px, v.prev, Key, s.alpha, s.fast)] = data
    BY <1>5, <2>1
  <2> HIDE DEF tiles, data, key
  <2> QED BY <2>2 DEF TilesFrame, FrameFor, Shown
<1>7. px \in Picture /\ new \in Picture
  <2>1. pic \in Picture BY PicturesAssumption
  <2>2. IsFrameFor(px, pic, s) BY <1>1, <2>1, TilesFrameIsClose
  <2> QED BY <2>2 DEF IsFrameFor
<1> HIDE DEF px, new
<1>8. /\ Chunk(data) /\ (key => KeyShows(tiles, new))
      /\ ~key => DeltaShows(tiles, Shown(v.prev, s.alpha), new)
  <2> HIDE DEF key
  <2> QED BY <1>1, <1>3, <1>4, <1>7, NewChunk DEF new
<1> HIDE DEF tiles
<1>9. data.key = key /\ data.tiles = tiles OBVIOUS
<1> HIDE DEF data
<1>10. w.at = v.at /\ data.key = key BY <1>1, <1>9 DEF Writing, WriterFields
<1>11. CASE ~wrote
  <2>1. v' = [v EXCEPT !.phase = "failed"] /\ file' = file /\ stored' = stored
    BY <1>6, <1>11 DEF AddEntry
  <2>2. /\ v'.phase = "failed" /\ v'.set = s /\ v'.at = v.at /\ v'.index = v.index
        /\ v'.prev = v.prev
    BY <1>1, <2>1 DEF Writing, WriterFields
  <2>3. FileForm' BY <1>2, <2>1 DEF FileForm
  <2>4. BeingWritten'
    BY <1>2, <1>6, <2>1, <2>2
       DEF BeingWritten, IndexFor, Entry, ChunkInv, ChunkShows, Closed
  <2> QED BY <1>1, <2>2, <2>3, <2>4 DEF VideoInv, TilesVideo
<1>12. CASE wrote
  <2>1. /\ v' = [[v EXCEPT !.prev = px] EXCEPT !.phase = "open", !.at = @ + 1,
                     !.index = Append(@, entry)]
        /\ file' = [file EXCEPT !.chunks = Append(@, data)]
        /\ stored' = Append(stored, new)
    <3> HIDE DEF key
    <3> QED BY <1>6, <1>10, <1>12 DEF AddEntry
  <2> HIDE DEF entry
  <2>2. /\ v'.phase = "open" /\ v'.set = s /\ v'.at = v.at + 1 /\ v'.index = Append(v.index, entry)
        /\ v'.prev = px
    BY <1>1, <2>1 DEF Writing, WriterFields
  <2>3. /\ file'.chunks = Append(file.chunks, data) /\ file'.header = file.header
        /\ file'.count = file.count /\ file'.index = file.index /\ FileForm'
    <3>1. file' = [chunks |-> Append(file.chunks, data), header |-> file.header,
                   count |-> file.count, index |-> file.index]
      BY <1>2, <2>1 DEF FileForm
    <3> QED BY <1>2, <3>1 DEF FileForm
  <2>4. /\ IsSeq(file'.chunks) /\ Len(file'.chunks) = k /\ file'.chunks[k] = data
        /\ \A j \in 1..n : file'.chunks[j] = file.chunks[j]
    <3>1. IsSeq(file.chunks) /\ Len(file.chunks) = n BY <1>2 DEF BeingWritten
    <3> QED BY <2>3, <3>1, IsSeqAppend
  <2>5. Len(stored') = k /\ stored'[k] = new /\ \A j \in 1..n : stored'[j] = stored[j]
    BY <1>1, <1>4, <1>7, <2>1
  <2>6. IndexFor(v.index)'
    <3> DEFINE index == v'.index
               Old(j) == [at |-> j, key |-> (j - 1) % s.interval = 0]
    <3>1. IsSeq(v.index) /\ Len(v.index) = n /\ \A j \in 1..n : v.index[j] = Old(j)
      BY <1>2 DEF BeingWritten, IndexFor, Entry
    <3>2. IsSeq(index) /\ Len(index) = k /\ index[k] = entry /\ \A j \in 1..n : index[j] = v.index[j]
      BY <2>2, <3>1, IsSeqAppend
    <3>3. v.at = k BY <1>2 DEF BeingWritten
    <3>4. entry = Old(k)
      <4>1. k - 1 = n BY <1>4
      <4> QED BY <3>3, <4>1 DEF entry
    <3>5. \A j \in 1..k : index[j] = Old(j)
      <4> SUFFICES ASSUME NEW j \in 1..k PROVE index[j] = Old(j) OBVIOUS
      <4>1. j = k \/ j \in 1..n BY <1>4
      <4> HIDE DEF Old, index
      <4> QED BY <3>1, <3>2, <3>4, <4>1
    <3> QED BY <2>2, <2>5, <3>2, <3>5 DEF IndexFor, Entry
  <2>7. ASSUME NEW j \in 1..k PROVE ChunkInv(file.chunks[j], j)'
    <3>1. CASE j \in 1..n
      <4> DEFINE c == file.chunks[j]
      <4>1. ChunkInv(c, j) BY <1>2, <3>1 DEF BeingWritten
      <4>2. file'.chunks[j] = c /\ stored'[j] = stored[j] BY <2>4, <2>5, <3>1
      <4>3. j > 1 => stored'[j - 1] = stored[j - 1] BY <1>4, <2>5, <3>1
      <4> HIDE DEF c
      <4> QED BY <1>6, <2>2, <4>1, <4>2, <4>3 DEF ChunkInv, ChunkShows
    <3>2. CASE j = k
      <4>1. file'.chunks[j] = data /\ stored'[j] = new BY <2>4, <2>5, <3>2
      <4>2. j - 1 = n BY <1>4, <3>2
      <4>3. Chunk(data) /\ (data.key <=> key) /\ (key <=> n % s.interval = 0) BY <1>8, <1>9
      <4>4. CASE key
        <5>1. data.key /\ KeyShows(data.tiles, new) BY <1>8, <1>9, <4>4
        <5> HIDE DEF key
        <5> QED BY <2>2, <4>1, <4>2, <4>3, <5>1 DEF ChunkInv, ChunkShows
      <4>5. CASE ~key
        <5>1. n # 0
          <6>1. 0 % s.interval = 0 BY <1>3, SmallMod
          <6> QED BY <4>5, <6>1
        <5>2. stored[n] = Shown(v.prev, s.alpha) BY <1>2, <1>4, <5>1 DEF BeingWritten
        <5>3. stored'[j - 1] = Shown(v.prev, s.alpha) BY <1>4, <2>5, <4>2, <5>1, <5>2
        <5>4. j > 1 BY <1>4, <3>2, <5>1
        <5>5. ~data.key /\ DeltaShows(data.tiles, stored'[j - 1], new) BY <1>8, <1>9, <4>5, <5>3
        <5> HIDE DEF key
        <5> QED BY <2>2, <4>1, <4>2, <4>3, <5>4, <5>5 DEF ChunkInv, ChunkShows
      <4> QED BY <4>4, <4>5
    <3> QED BY <1>4, <3>1, <3>2
  <2>8. BeingWritten'
    <3>1. ~file'.header /\ damaged' = {} /\ r' = Closed BY <1>2, <1>6, <2>3 DEF BeingWritten
    <3>2. v'.at = Len(stored') + 1 BY <1>2, <1>4, <2>2, <2>5 DEF BeingWritten
    <3>3. IsSeq(file'.chunks) /\ Len(file'.chunks) = Len(stored') BY <2>4, <2>5
    <3>4. \A j \in 1..Len(stored') : ChunkInv(file.chunks[j], j)' BY <2>5, <2>7
    <3>5. stored'[Len(stored')] = Shown(v'.prev, v'.set.alpha) BY <2>2, <2>5 DEF new
    <3> QED BY <2>6, <3>1, <3>2, <3>3, <3>4, <3>5 DEF BeingWritten, Closed
  <2> QED BY <1>1, <2>2, <2>3, <2>8 DEF VideoInv, TilesVideo
<1> QED BY <1>11, <1>12

LEMMA FinishWrites ==
    ASSUME WriterInv, DriftInv, VideoInv, NEW wrote \in BOOLEAN, Finish(wrote), TilesVideo
    PROVE  VideoInv'
<1>1. v.phase \in {"open", "failed"} /\ Writing /\ v.set \in Settings /\ stored \in Seq(Picture)
  BY DEF Finish, WriterInv, Writing, DriftInv
<1>2. FileForm /\ BeingWritten BY <1>1 DEF VideoInv, TilesVideo
<1>3. v.set.interval \in Nat \ {0} BY <1>1, SettingsAssumption
<1>4. /\ v' = [phase |-> "done", set |-> v.set]
      /\ r' = r /\ stored' = stored /\ damaged' = damaged
  BY DEF Finish
<1>5. v'.phase = "done" /\ v'.set = v.set BY <1>4
<1>6. r = Closed BY <1>2 DEF BeingWritten
<1>7. DOMAIN file.chunks = 1..Len(stored)
  BY <1>2, IsSeqDomain DEF BeingWritten
<1>8. /\ Closed \in Readers /\ ~Closed.open /\ Closed.decoded = -1
      /\ Showing(Closed)' /\ Asked(Closed)'
  <2>1. Closed \in Readers /\ ~Closed.open /\ Closed.decoded = -1 /\ Closed.asked = -1
    BY ClosedReads
  <2> QED BY <2>1 DEF Showing, Asked, Closed
<1>9. file'.chunks = file.chunks /\ FileForm' /\ (file'.header => Finished')
  <2>1. CASE v.phase = "open" /\ wrote
    <3> DEFINE yes == TRUE
               n == Number
    <3>1. file' = [file EXCEPT !.header = yes, !.count = n, !.index = v.index]
      BY <2>1 DEF Finish
    <3>2. yes \in BOOLEAN OBVIOUS
    <3> HIDE DEF yes, n
    <3>3. file' = [chunks |-> file.chunks, header |-> yes, count |-> n, index |-> v.index]
      <4> DEFINE once == [file EXCEPT !.header = yes]
                 twice == [once EXCEPT !.count = n]
      <4>1. file' = [twice EXCEPT !.index = v.index] BY <3>1
      <4>2. once = [chunks |-> file.chunks, header |-> yes, count |-> file.count,
                    index |-> file.index]
        BY <1>2, <3>2 DEF FileForm
      <4> HIDE DEF once
      <4>3. twice = [chunks |-> file.chunks, header |-> yes, count |-> n, index |-> file.index]
        BY <4>2
      <4> HIDE DEF twice
      <4> QED BY <4>1, <4>3
    <3>4. file'.chunks = file.chunks /\ file'.count = n /\ file'.index = v.index /\ FileForm'
      BY <3>2, <3>3 DEF FileForm
    <3>5. n = Len(stored) BY <1>2 DEF BeingWritten, IndexFor, Number, n
    <3>6. Finished'
      BY <1>1, <1>2, <1>3, <1>4, <1>5, <3>4, <3>5
         DEF BeingWritten, Finished, IndexFor, Entry, ChunkInv, ChunkShows
    <3> QED BY <3>4, <3>6
  <2>2. CASE ~(v.phase = "open" /\ wrote)
    <3>1. file' = file BY <2>2 DEF Finish
    <3> QED BY <1>2, <3>1 DEF FileForm, BeingWritten
  <2> QED BY <2>1, <2>2
<1>10. Len(stored) \in Nat BY <1>1
<1>11. r' = Closed BY <1>4, <1>6
<1>12. BeingRead'
  <2>1. DOMAIN file'.chunks = 1..Len(stored') BY <1>4, <1>7, <1>9
  <2>2. r' \in Readers /\ r'.decoded \in -1..Len(stored') - 1 BY <1>4, <1>8, <1>10, <1>11
  <2>3. IF r'.open THEN file'.header ELSE r' = Closed' BY <1>8, <1>11 DEF Closed
  <2>4. Showing(r)' /\ Asked(r)' BY <1>8, <1>11 DEF Showing, Asked, Closed
  <2> QED BY <1>9, <2>1, <2>2, <2>3, <2>4 DEF BeingRead
<1> QED BY <1>5, <1>9, <1>12 DEF VideoInv, TilesVideo

LEMMA DamageLeavesTheRest ==
    ASSUME DriftInv, VideoInv, NEW k \in 1..MaxFrames, Damage(k), TilesVideo
    PROVE  VideoInv'
<1>1. /\ v.phase = "done" /\ ~r.open /\ k \in DOMAIN file.chunks /\ damaged' = {k - 1}
      /\ v' = v /\ r' = r /\ stored' = stored
  BY DEF Damage
<1>2. FileForm /\ BeingRead /\ stored \in Seq(Picture) BY <1>1 DEF VideoInv, DriftInv
<1>3. k \in 1..Len(stored) /\ DOMAIN file.chunks = 1..Len(stored) BY <1>1, <1>2 DEF BeingRead
<1>4. r = Closed BY <1>1, <1>2 DEF BeingRead
<1> DEFINE data == file.chunks[k]
           Shorter(tile) == [tile EXCEPT !.ops = SubSeq(@, 1, Len(@) - 1)]
           cut == IF "bits" \in DOMAIN data
                  THEN [data EXCEPT !.bits = SubSeq(@, 1, Len(@) \div 3)]
                  ELSE Cut(data)
<1>5. file' = [file EXCEPT !.chunks[k] = cut] BY DEF Damage, Cut
<1> HIDE DEF cut
<1>6. /\ FileForm' /\ file'.header = file.header /\ file'.count = file.count
      /\ file'.index = file.index /\ file'.chunks = [file.chunks EXCEPT ![k] = cut]
  <2> DEFINE all == [file.chunks EXCEPT ![k] = cut]
  <2>1. file' = [file EXCEPT !.chunks = all] BY <1>5
  <2> HIDE DEF all
  <2>2. file' = [chunks |-> all, header |-> file.header, count |-> file.count,
                 index |-> file.index]
    BY <1>2, <2>1 DEF FileForm
  <2>3. /\ FileForm' /\ file'.header = file.header /\ file'.count = file.count
        /\ file'.index = file.index /\ file'.chunks = all
    BY <1>2, <2>2 DEF FileForm
  <2> QED BY <2>3 DEF all
<1>7. /\ DOMAIN file'.chunks = 1..Len(stored) /\ file'.chunks[k] = cut
      /\ \A j \in 1..Len(stored) : j # k => file'.chunks[j] = file.chunks[j]
  BY <1>3, <1>6
<1>8. ASSUME file.header PROVE Finished'
  <2>1. Finished BY <1>2, <1>8 DEF BeingRead
  <2>2. ChunkInv(data, k) BY <1>3, <2>1 DEF Finished
  <2>3. Chunk(cut) /\ cut.key = data.key
    <3>1. data = [key |-> data.key, tiles |-> data.tiles] /\ data.key \in BOOLEAN
          /\ TilesData(data.tiles) /\ DOMAIN data.tiles \subseteq Tiles
      BY <2>2 DEF ChunkInv, Chunk
    <3> DEFINE key == data.key
               tiles == data.tiles
    <3> HIDE DEF data
    <3>2. "bits" \notin DOMAIN data
      <4> HIDE DEF key, tiles
      <4>1. data = [key |-> key, tiles |-> tiles] BY <3>1 DEF key, tiles
      <4> QED BY <4>1
    <3>3. cut = Cut(data) BY <3>2 DEF cut
    <3> HIDE DEF key, tiles
    <3>4. data = [key |-> key, tiles |-> tiles] /\ key \in BOOLEAN /\ TilesData(tiles)
          /\ DOMAIN tiles \subseteq Tiles
      BY <3>1 DEF key, tiles
    <3>5. PICK less : /\ Cut([key |-> key, tiles |-> tiles]) = [key |-> key, tiles |-> less]
                      /\ TilesData(less) /\ DOMAIN less \subseteq Tiles
      BY <3>4, CutTiles
    <3>6. cut = [key |-> key, tiles |-> less] BY <3>3, <3>4, <3>5
    <3> QED BY <3>4, <3>5, <3>6 DEF Chunk, key
  <2> HIDE DEF data
  <2>4. ASSUME NEW j \in 1..Len(stored) PROVE ChunkInv(file.chunks[j], j)'
    <3>1. CASE j = k
      <4>1. data.key <=> (k - 1) % v.set.interval = 0 BY <2>2 DEF ChunkInv
      <4>2. file'.chunks[j] = cut /\ (j - 1 \in damaged') BY <1>1, <1>7, <3>1
      <4> QED BY <1>1, <2>3, <3>1, <4>1, <4>2 DEF ChunkInv
    <3>2. CASE j # k
      <4> DEFINE c == file.chunks[j]
      <4>1. ChunkInv(c, j) /\ file'.chunks[j] = c BY <1>7, <2>1, <3>2 DEF Finished
      <4>2. damaged = {} BY DEF Damage
      <4> HIDE DEF c
      <4> QED BY <1>1, <4>1, <4>2 DEF ChunkInv, ChunkShows
    <3> QED BY <3>1, <3>2
  <2> QED BY <1>1, <1>6, <2>1, <2>4 DEF Finished, IndexFor, Entry
<1>9. BeingRead'
  <2>1. r' = Closed /\ Closed \in Readers /\ ~Closed.open /\ Closed.decoded = -1 /\ Closed.asked = -1
    BY <1>1, <1>4, ClosedReads
  <2>2. Len(stored) \in Nat BY <1>2
  <2>3. r' \in Readers /\ r'.decoded \in -1..Len(stored') - 1 BY <1>1, <2>1, <2>2
  <2>4. IF r'.open THEN file'.header ELSE r' = Closed' BY <2>1 DEF Closed
  <2>5. Showing(r)' /\ Asked(r)' BY <2>1 DEF Showing, Asked
  <2>6. file'.header => Finished' BY <1>6, <1>8
  <2> QED BY <1>1, <1>7, <2>3, <2>4, <2>5, <2>6 DEF BeingRead
<1> QED BY <1>1, <1>6, <1>9 DEF VideoInv

LEMMA ReaderReads ==
    ASSUME DriftInv, VideoInv, TilesVideo, r.open \/ Open, v.phase = "done",
           Open \/ \E n \in 0..MaxFrames - 1, fails \in -1..MaxFrames - 1, refused \in BOOLEAN :
                       Decode(n, fails, refused)
    PROVE  VideoInv'
<1>1. FileForm /\ BeingRead /\ stored \in Seq(Picture) BY DEF VideoInv, DriftInv
<1>2. v' = v /\ file' = file /\ stored' = stored /\ damaged' = damaged BY DEF Open, Decode
<1>3. file.header /\ Finished /\ Len(stored) \in Nat BY <1>1 DEF Open, BeingRead
<1>4. r' \in Readers /\ r'.open /\ r'.decoded \in -1..Len(stored) - 1 /\ Showing(r') /\ Asked(r')
  <2>1. CASE Open
    <3> DEFINE opened == [Closed EXCEPT !.open = TRUE]
    <3>1. r' = opened BY <2>1 DEF Open
    <3>2. opened \in Readers /\ opened.open /\ opened.decoded = -1 /\ Showing(opened) /\ Asked(opened)
      BY ClosedReads
    <3> HIDE DEF opened
    <3>3. -1 \in -1..Len(stored) - 1 BY <1>3
    <3> QED BY <3>1, <3>2, <3>3
  <2>2. ASSUME NEW n \in 0..MaxFrames - 1, NEW fails \in -1..MaxFrames - 1,
               NEW refused \in BOOLEAN, Decode(n, fails, refused)
        PROVE  /\ r' \in Readers /\ r'.open /\ r'.decoded \in -1..Len(stored) - 1
               /\ Showing(r') /\ Asked(r')
    <3>1. r.open BY <2>2 DEF Decode
    <3>2. r \in Readers /\ r.decoded \in -1..Len(stored) - 1 /\ Showing(r) BY <1>1 DEF BeingRead
    <3>3. n \in Nat /\ fails \in Int BY FramesAssumption
    <3>4. /\ n \in FrameNumbers /\ r' \in Readers /\ r'.open = r.open
          /\ r'.decoded \in {-1, r.decoded, n} /\ Showing(r') /\ Asked(r')
      BY <1>3, <2>2, <3>2, <3>3, DecodeShows
    <3>5. n \in 0..Len(stored) - 1 BY <3>4 DEF FrameNumbers
    <3> QED BY <1>3, <3>1, <3>2, <3>4, <3>5
  <2> QED BY <2>1, <2>2
<1>5. Showing(r)' /\ Asked(r)'
  BY <1>2, <1>4 DEF Showing, Asked, Intact, KeyBefore, KeyAt
<1>6. Finished' /\ FileForm'
  BY <1>1, <1>2, <1>3 DEF Finished, FileForm, IndexFor, Entry, ChunkInv, ChunkShows
<1>7. BeingRead' BY <1>1, <1>2, <1>3, <1>4, <1>5, <1>6 DEF BeingRead
<1> QED BY <1>2, <1>6, <1>7 DEF VideoInv

LEMMA VideoInvStep ==
    ASSUME WriterInv, DriftInv, VideoInv, [Next]_vars
    PROVE  VideoInv'
<1>1. v.phase # "off" => v'.phase # "off" /\ v'.set = v.set BY WriterInvStep
<1>2. ASSUME v.phase # "off", v.set.codec = "motion" PROVE VideoInv'
  BY <1>1, <1>2 DEF VideoInv, TilesVideo
<1>3. ASSUME v' = v, file' = file, r' = r, stored' = stored, damaged' = damaged PROVE VideoInv'
  <2>1. FileForm => FileForm' BY <1>3 DEF FileForm
  <2>2. BeingWritten => BeingWritten'
    BY <1>3 DEF BeingWritten, IndexFor, Entry, ChunkInv, ChunkShows, Closed
  <2>3. Finished => Finished'
    BY <1>3 DEF Finished, IndexFor, Entry, ChunkInv, ChunkShows
  <2>4. Showing(r) /\ Asked(r) => Showing(r)' /\ Asked(r)'
    BY <1>3 DEF Showing, Asked, Intact, KeyBefore, KeyAt
  <2>5. BeingRead => BeingRead' BY <1>3, <2>3, <2>4 DEF BeingRead, Closed
  <2> QED BY <1>3, <2>1, <2>2, <2>5 DEF VideoInv, TilesVideo
<1>4. ASSUME NEW s \in Settings, WriterBegin(s) PROVE VideoInv'
  <2>1. /\ v.phase = "off" /\ file' = file /\ r' = r /\ stored' = stored /\ damaged' = damaged
        /\ v'.phase = "open" /\ v'.at = 1 /\ v'.index = <<>>
    BY <1>4 DEF WriterBegin
  <2>2. file = NoFile /\ damaged = {} /\ r = Closed BY <2>1 DEF VideoInv
  <2>3. stored = <<>> BY <2>1 DEF WriterInv, Writing
  <2>4. IsSeq(<<>>) /\ Len(<<>>) = 0
    <3>1. <<>> \in Seq(Picture) OBVIOUS
    <3> QED BY <3>1 DEF IsSeq
  <2>5. 1..0 = {} OBVIOUS
  <2>6. IndexFor(v.index)' BY <2>1, <2>3, <2>4, <2>5 DEF IndexFor
  <2>7. FileForm' BY <2>1, <2>2 DEF FileForm, NoFile
  <2>8. BeingWritten'
    BY <2>1, <2>2, <2>3, <2>4, <2>5, <2>6 DEF BeingWritten, NoFile, Closed
  <2> QED BY <2>1, <2>7, <2>8 DEF VideoInv
<1>5. ASSUME NEW pic \in Pictures, NEW wrote \in BOOLEAN, TilesFrame(pic, wrote) PROVE VideoInv'
  BY <1>5, TilesFrameWrites
<1>6. ASSUME MotionBegin PROVE VideoInv' BY <1>2, <1>6 DEF MotionBegin
<1>7. ASSUME NEW row \in Rows, DecideMb(row) PROVE VideoInv'
  BY <1>2, <1>7 DEF DecideMb, WriterInv, Writing
<1>8. ASSUME NEW wrote \in BOOLEAN, MotionWrite(wrote) PROVE VideoInv'
  BY <1>2, <1>8 DEF MotionWrite, WriterInv, Writing
<1>9. v.phase # "off" => TilesVideo \/ v.set.codec = "motion"
  BY SettingsAssumption DEF WriterInv, Writing, TilesVideo
<1>10. ASSUME NEW wrote \in BOOLEAN, Finish(wrote) PROVE VideoInv'
  <2>1. v.phase # "off" BY <1>10 DEF Finish
  <2> QED BY <1>2, <1>9, <1>10, <2>1, FinishWrites
<1>11. ASSUME NEW k \in 1..MaxFrames, Damage(k) PROVE VideoInv'
  <2>1. v.phase # "off" BY <1>11 DEF Damage
  <2> QED BY <1>2, <1>9, <1>11, <2>1, DamageLeavesTheRest
<1>12. ASSUME Open \/ \E n \in 0..MaxFrames - 1, fails \in -1..MaxFrames - 1, refused \in BOOLEAN :
                         Decode(n, fails, refused)
       PROVE  VideoInv'
  <2>1. r.open \/ Open BY <1>12 DEF Decode
  <2>2. CASE v.phase = "off"
    <3>1. r = Closed /\ ~Closed.open BY <2>2, ClosedReads DEF VideoInv
    <3> QED BY <2>1, <2>2, <3>1 DEF Open
  <2>3. CASE v.phase # "off" /\ TilesVideo
    <3>1. v.phase = "done"
      <4>1. CASE BeingWritten
        <5>1. r = Closed /\ ~Closed.open BY <4>1, ClosedReads DEF BeingWritten
        <5> QED BY <2>1, <5>1 DEF Open
      <4> QED BY <2>3, <4>1 DEF VideoInv
    <3> QED BY <1>12, <2>1, <2>3, <3>1, ReaderReads
  <2> QED BY <1>2, <1>9, <2>2, <2>3
<1>13. ASSUME NEW pic \in Stills, NEW alpha \in BOOLEAN, Image(pic, alpha) PROVE VideoInv'
  BY <1>3, <1>13 DEF Image
<1>14. ASSUME UNCHANGED vars PROVE VideoInv' BY <1>3, <1>14 DEF vars
<1> QED BY <1>4, <1>5, <1>6, <1>7, <1>8, <1>10, <1>11, <1>12, <1>13, <1>14 DEF Next

LEMMA VideoInvHolds == Spec => [](DriftInv /\ VideoInv)
<1>1. Init => WriterInv /\ DriftInv /\ VideoInv
  BY DEF Init, WriterInv, DriftInv, TilesVideo, VideoInv
<1>2. WriterInv /\ DriftInv /\ VideoInv /\ [Next]_vars => (WriterInv /\ DriftInv /\ VideoInv)'
  BY WriterInvStep, DriftInvStep, VideoInvStep
<1> QED BY <1>1, <1>2, PTL DEF Spec

\* With the tiles codec, a reader that believes in a frame has it in the
\* caller's buffer as it was stored, whatever it was asked for before,
\* whatever reads have failed and whichever other frame is damaged
\* (mvid_decode, mvid_decode_one, mvid_writer_frame), for every number of
\* frames, size, picture and setting.
THEOREM TilesFramesAreShown == Spec => [](TilesVideo => FrameShown)
<1>1. DriftInv /\ VideoInv => (TilesVideo => FrameShown)
  <2> SUFFICES ASSUME VideoInv, TilesVideo PROVE FrameShown OBVIOUS
  <2>1. Showing(r) BY ClosedReads DEF VideoInv, BeingRead, BeingWritten
  <2> QED BY <2>1 DEF Showing, FrameShown
<1> QED BY <1>1, VideoInvHolds, PTL

\* And it has the frame it was asked for whenever nothing failed in that
\* call and nothing from its keyframe on is damaged (mvid_decode), for every
\* order in which frames are asked for.
THEOREM TilesFramesDecode == Spec => [](TilesVideo => UndamagedDecodes)
<1>1. DriftInv /\ VideoInv => (TilesVideo => UndamagedDecodes)
  <2> SUFFICES ASSUME VideoInv, TilesVideo PROVE UndamagedDecodes OBVIOUS
  <2>1. Asked(r) BY ClosedReads DEF VideoInv, BeingRead, BeingWritten
  <2> QED BY <2>1 DEF Asked, UndamagedDecodes
<1> QED BY <1>1, VideoInvHolds, PTL
=============================================================================
