--------------------------- MODULE PictureProofs ---------------------------
(***************************************************************************)
(* The shapes of the picture window: any phone of the table, a stream and  *)
(* a client area of any size, any drag, any work area.                     *)
(*                                                                         *)
(* What is drawn is rounded several times over, and the screen is what the *)
(* bezel leaves of a rounded body.  So the proofs carry a bound for what   *)
(* each rounding may be off (RoundIs), cancel the factor the lengths of    *)
(* one shape have in common (Factor), and end at whole pixels: Slack.  How *)
(* far a screen is off its phone's proportions depends on the table alone  *)
(* (BodyIs, phone by phone).                                               *)
(*                                                                         *)
(* The state enters late: the numbers are sizes (SizesInv), the device is  *)
(* of the table (DeviceInv), and geom_, which the window is sized to, is   *)
(* what the layout decides (GeomInv), whichever of box, device, hint and   *)
(* stream changed last.                                                    *)
(***************************************************************************)
EXTENDS Picture, WellFoundedInduction, TLAPS

\* Rounding is off by half a unit at most.
LEMMA RoundIs ==
  ASSUME NEW n \in Nat, NEW d \in Nat, d > 0
  PROVE  /\ Round(n, d) \in Nat
         /\ 2 * (d * Round(n, d)) <= 2 * n + d
         /\ 2 * n + d < 2 * (d * Round(n, d)) + 2 * d
<1> DEFINE q == (2 * n + d) \div (2 * d)
           r == (2 * n + d) % (2 * d)
<1>1. 2 * n + d \in Nat /\ 2 * d \in Nat /\ 2 * d > 0
  OBVIOUS
<1>2. q \in Int /\ r \in 0 .. 2 * d - 1 /\ 2 * n + d = (2 * d) * q + r
  BY <1>1
<1>3. q >= 0
  BY <1>1
<1> HIDE DEF q, r
<1>4. (2 * d) * q = 2 * (d * q) /\ d * q \in Int
  BY <1>2
<1>5. q = Round(n, d)
  BY DEF q, Round
<1> QED
  BY <1>2, <1>3, <1>4, <1>5

\* The sides of the screens of kDevices and the generic profiles, upright or turned, and the short
\* one of them.
Sides == {<<6, 13, 6>>, <<195, 422, 195>>, <<214, 463, 214>>, <<131, 284, 131>>, <<215, 466, 215>>,
          <<201, 437, 201>>, <<110, 239, 110>>, <<375, 667, 375>>, <<41, 59, 41>>}
         \cup {<<13, 6, 6>>, <<422, 195, 195>>, <<463, 214, 214>>, <<284, 131, 131>>,
               <<466, 215, 215>>, <<437, 201, 201>>, <<239, 110, 110>>, <<667, 375, 375>>,
               <<59, 41, 41>>}

\* They are positive.
LEMMA SidesPositive ==
  ASSUME NEW sw, NEW sh, NEW u, <<sw, sh, u>> \in Sides
  PROVE  /\ sw \in Nat /\ sh \in Nat /\ u \in Nat /\ sw > 0 /\ sh > 0 /\ u > 0
         /\ <<sh, sw, u>> \in Sides
BY DEF Sides

Off(n) == IF n < 0 THEN -n ELSE n

\* A body drawn n pixels wide: it is no higher than a window it fits into, its bezel leaves a
\* screen, and the screen has the phone's proportions but for what was rounded.
BodyHolds(sw, sh, u, n) ==
  LET W == 50 * sw + 3 * u
      H == 50 * sh + 3 * u
      bh == Round(H * n, W)
      inset == Round(3 * u * n, 2 * W)
  IN  /\ bh \in Nat /\ inset \in Nat /\ 2 * inset <= n /\ 2 * inset <= bh
      /\ n >= 80 => 2 * inset < n /\ 2 * inset < bh
      /\ 2 * Off(sh * (n - 2 * inset) - sw * (bh - 2 * inset)) <= 2 * Off(sh - sw) + sw
      /\ \A most \in Nat : n * H <= most * W => bh <= most

LEMMA BodyIs ==
  ASSUME NEW sw, NEW sh, NEW u, <<sw, sh, u>> \in Sides, NEW n \in Nat
  PROVE  BodyHolds(sw, sh, u, n)
<1>1. CASE sw = 6 /\ sh = 13 /\ u = 6
  BY <1>1 DEF BodyHolds, Round, Off
<1>2. CASE sw = 195 /\ sh = 422 /\ u = 195
  BY <1>2 DEF BodyHolds, Round, Off
<1>3. CASE sw = 214 /\ sh = 463 /\ u = 214
  BY <1>3 DEF BodyHolds, Round, Off
<1>4. CASE sw = 131 /\ sh = 284 /\ u = 131
  BY <1>4 DEF BodyHolds, Round, Off
<1>5. CASE sw = 215 /\ sh = 466 /\ u = 215
  BY <1>5 DEF BodyHolds, Round, Off
<1>6. CASE sw = 201 /\ sh = 437 /\ u = 201
  BY <1>6 DEF BodyHolds, Round, Off
<1>7. CASE sw = 110 /\ sh = 239 /\ u = 110
  BY <1>7 DEF BodyHolds, Round, Off
<1>8. CASE sw = 375 /\ sh = 667 /\ u = 375
  BY <1>8 DEF BodyHolds, Round, Off
<1>9. CASE sw = 41 /\ sh = 59 /\ u = 41
  BY <1>9 DEF BodyHolds, Round, Off
<1>10. CASE sw = 13 /\ sh = 6 /\ u = 6
  BY <1>10 DEF BodyHolds, Round, Off
<1>11. CASE sw = 422 /\ sh = 195 /\ u = 195
  BY <1>11 DEF BodyHolds, Round, Off
<1>12. CASE sw = 463 /\ sh = 214 /\ u = 214
  BY <1>12 DEF BodyHolds, Round, Off
<1>13. CASE sw = 284 /\ sh = 131 /\ u = 131
  BY <1>13 DEF BodyHolds, Round, Off
<1>14. CASE sw = 466 /\ sh = 215 /\ u = 215
  BY <1>14 DEF BodyHolds, Round, Off
<1>15. CASE sw = 437 /\ sh = 201 /\ u = 201
  BY <1>15 DEF BodyHolds, Round, Off
<1>16. CASE sw = 239 /\ sh = 110 /\ u = 110
  BY <1>16 DEF BodyHolds, Round, Off
<1>17. CASE sw = 667 /\ sh = 375 /\ u = 375
  BY <1>17 DEF BodyHolds, Round, Off
<1>18. CASE sw = 59 /\ sh = 41 /\ u = 41
  BY <1>18 DEF BodyHolds, Round, Off
<1> QED
  <2>1. \/ (sw = 6 /\ sh = 13 /\ u = 6) \/ (sw = 195 /\ sh = 422 /\ u = 195)
        \/ (sw = 214 /\ sh = 463 /\ u = 214) \/ (sw = 131 /\ sh = 284 /\ u = 131)
        \/ (sw = 215 /\ sh = 466 /\ u = 215) \/ (sw = 201 /\ sh = 437 /\ u = 201)
        \/ (sw = 110 /\ sh = 239 /\ u = 110) \/ (sw = 375 /\ sh = 667 /\ u = 375)
        \/ (sw = 41 /\ sh = 59 /\ u = 41) \/ (sw = 13 /\ sh = 6 /\ u = 6)
        \/ (sw = 422 /\ sh = 195 /\ u = 195) \/ (sw = 463 /\ sh = 214 /\ u = 214)
        \/ (sw = 284 /\ sh = 131 /\ u = 131) \/ (sw = 466 /\ sh = 215 /\ u = 215)
        \/ (sw = 437 /\ sh = 201 /\ u = 201) \/ (sw = 239 /\ sh = 110 /\ u = 110)
        \/ (sw = 667 /\ sh = 375 /\ u = 375) \/ (sw = 59 /\ sh = 41 /\ u = 41)
    BY DEF Sides
  <2> QED
    BY <2>1, <1>1, <1>2, <1>3, <1>4, <1>5, <1>6, <1>7, <1>8, <1>9, <1>10, <1>11, <1>12, <1>13,
       <1>14, <1>15, <1>16, <1>17, <1>18

\* A cut-out across a length of l, below a length of m: it is no wider, and no lower.
CutoutHolds(c, l, m) ==
  /\ Round(c.w * l, 1000) \in 0 .. l
  /\ Round(c.h * m, 1000) \in Nat /\ Round(c.top * m, 1000) \in Nat
  /\ Round(c.top * m, 1000) + Round(c.h * m, 1000) <= m

\* The cut-outs of the profiles are so.
LEMMA CutoutIs ==
  ASSUME NEW c, c \in {NoCutout, Cutout("notch", 530, 36, 0), Cutout("notch", 420, 38, 0),
                       Cutout("island", 320, 43, 13)},
         NEW l \in Nat, NEW m \in Nat
  PROVE  CutoutHolds(c, l, m)
<1>1. \/ c.w = 0 /\ c.h = 0 /\ c.top = 0
      \/ c.w = 530 /\ c.h = 36 /\ c.top = 0
      \/ c.w = 420 /\ c.h = 38 /\ c.top = 0
      \/ c.w = 320 /\ c.h = 43 /\ c.top = 13
  BY DEF NoCutout, Cutout
<1>2. CASE c.w = 0 /\ c.h = 0 /\ c.top = 0
  BY <1>2 DEF CutoutHolds, Round
<1>3. CASE c.w = 530 /\ c.h = 36 /\ c.top = 0
  BY <1>3 DEF CutoutHolds, Round
<1>4. CASE c.w = 420 /\ c.h = 38 /\ c.top = 0
  BY <1>4 DEF CutoutHolds, Round
<1>5. CASE c.w = 320 /\ c.h = 43 /\ c.top = 13
  BY <1>5 DEF CutoutHolds, Round
<1> QED
  BY <1>1, <1>2, <1>3, <1>4, <1>5

\* A common factor.
LEMMA Factor ==
  ASSUME NEW d \in Nat, d > 0, NEW k \in Int, NEW b \in Int
  PROVE  /\ d * k < d * b => k < b
         /\ d * k <= d * b => k <= b
<1>1. ASSUME k >= b + 1 PROVE d * k >= d * b + d
  <2>1. d * (k - b) >= d
    <3>1. k - b \in Nat /\ k - b >= 1
      BY <1>1
    <3> DEFINE m == k - b
    <3>2. \A x \in Nat : x >= 1 => d * x >= d
      OBVIOUS
    <3> QED
      BY <3>1, <3>2
  <2>2. d * (k - b) = d * k - d * b
    OBVIOUS
  <2>3. d * k \in Int /\ d * b \in Int
    OBVIOUS
  <2> QED
    BY <2>1, <2>2, <2>3
<1>2. d * k \in Int /\ d * b \in Int
  OBVIOUS
<1> QED
  BY <1>1, <1>2

\* The other way round.
LEMMA Times ==
  ASSUME NEW d \in Nat, NEW a \in Int, NEW b \in Int, a <= b
  PROVE  d * a <= d * b
<1>1. b - a \in Nat
  OBVIOUS
<1>2. d * (b - a) \in Nat
  BY <1>1
<1>3. d * (b - a) = d * b - d * a /\ d * a \in Int /\ d * b \in Int
  OBVIOUS
<1> QED
  BY <1>2, <1>3

\* Bars left and right, as much of one as of the other.
LEMMA BarsBeside ==
  ASSUME NEW pw \in Nat, NEW stw \in Nat, NEW sth \in Nat, NEW sw \in Nat, NEW sh \in Nat,
         sth > 0, sw > 0, stw * sh > sw * sth
  PROVE  LET w == Round(pw * stw * sh, sth * sw)
             x == Round((stw * sh - sth * sw) * pw, 2 * sth * sw)
         IN  w \in Nat /\ x \in Nat /\ w - 2 * x - pw \in -1 .. 1
<1> DEFINE d == sth * sw
           all == pw * stw * sh
           bars == (stw * sh - sth * sw) * pw
           w == Round(all, d)
           x == Round(bars, 2 * d)
<1>1. d \in Nat /\ d > 0
  OBVIOUS
<1>2. all \in Nat
  <2>1. pw * stw \in Nat
    OBVIOUS
  <2> QED
    BY <2>1
<1>3. bars \in Nat
  <2>1. stw * sh \in Nat /\ sth * sw \in Nat /\ sw * sth = sth * sw
    OBVIOUS
  <2>2. stw * sh - sth * sw \in Nat
    BY <2>1
  <2> QED
    BY <2>2
<1>4. bars = all - d * pw
  <2>1. bars = (stw * sh) * pw - (sth * sw) * pw
    OBVIOUS
  <2>2. (stw * sh) * pw = pw * stw * sh /\ (sth * sw) * pw = (sth * sw) * pw
    OBVIOUS
  <2> QED
    BY <2>1, <2>2
<1>5. 2 * sth * sw = 2 * d
  OBVIOUS
<1> HIDE DEF d, all, bars
<1>6. w \in Nat /\ 2 * (d * w) <= 2 * all + d /\ 2 * all + d < 2 * (d * w) + 2 * d
  BY <1>1, <1>2, RoundIs
<1>7. 2 * d \in Nat /\ 2 * d > 0
  BY <1>1
<1>8. /\ x \in Nat /\ 2 * ((2 * d) * x) <= 2 * bars + 2 * d
      /\ 2 * bars + 2 * d < 2 * ((2 * d) * x) + 2 * (2 * d)
  BY <1>3, <1>7, RoundIs
<1> HIDE DEF w, x
<1> DEFINE k == w - 2 * x - pw
<1>9. d * w \in Nat /\ d * x \in Nat /\ d * pw \in Nat /\ (2 * d) * x = 2 * (d * x)
  BY <1>1, <1>6, <1>8
<1>10. d * k = d * w - 2 * (d * x) - d * pw
  BY <1>1, <1>6, <1>8
<1>11. d * k < d * 2 /\ d * (-2) < d * k
  <2>1. d * 2 = 2 * d /\ d * (-2) = -(2 * d) /\ d * k \in Int
    BY <1>1, <1>6, <1>8
  <2> HIDE DEF k
  <2> QED
    BY <1>1, <1>2, <1>3, <1>4, <1>6, <1>8, <1>9, <1>10, <2>1
<1>12. k \in Int
  BY <1>6, <1>8
<1> HIDE DEF k
<1>13. k < 2 /\ -2 < k
  BY <1>1, <1>11, <1>12, Factor
<1>14. k \in -1 .. 1
  BY <1>12, <1>13
<1> QED
  BY <1>5, <1>6, <1>8, <1>14 DEF k, w, x, d, all, bars

\* Bars above and below: what the screen itself is off adds to what is rounded.
LEMMA BarsAbove ==
  ASSUME NEW pw \in Nat, NEW ph \in Nat, NEW stw \in Nat, NEW sth \in Nat, NEW sw \in Nat,
         NEW sh \in Nat, stw > 0, sw > 0, ~(stw * sh > sw * sth),
         100 * Off(sh * pw - sw * ph) <= 227 * sw
  PROVE  LET h == Round(sth * pw, stw)
             y == Round((sth * sw - stw * sh) * pw, 2 * sw * stw)
         IN  h \in Nat /\ y \in Nat /\ h - 2 * y - ph \in -3 .. 3
<1> DEFINE d == sw * stw
           all == sth * pw
           bars == (sth * sw - stw * sh) * pw
           h == Round(all, stw)
           y == Round(bars, 2 * d)
           off == sh * pw - sw * ph
<1>1. d \in Nat /\ d > 0
  OBVIOUS
<1>2. all \in Nat
  OBVIOUS
<1>3. bars \in Nat
  <2>1. stw * sh \in Nat /\ sth * sw \in Nat /\ sw * sth = sth * sw
    OBVIOUS
  <2>2. sth * sw - stw * sh \in Nat
    BY <2>1
  <2> QED
    BY <2>2
<1>4. bars = sw * all - stw * (off + sw * ph)
  <2>1. bars = (sth * sw) * pw - (stw * sh) * pw
    OBVIOUS
  <2>2. (sth * sw) * pw = sw * (sth * pw) /\ (stw * sh) * pw = stw * (sh * pw)
    OBVIOUS
  <2>3. off + sw * ph = sh * pw
    OBVIOUS
  <2> QED
    BY <2>1, <2>2, <2>3
<1>5. stw * (off + sw * ph) = stw * off + d * ph
  <2>1. off \in Int /\ sw * ph \in Nat
    OBVIOUS
  <2> HIDE DEF off
  <2>2. stw * (off + sw * ph) = stw * off + stw * (sw * ph)
    BY <2>1
  <2>3. stw * (sw * ph) = (sw * stw) * ph
    OBVIOUS
  <2> QED
    BY <2>2, <2>3
<1>6. 2 * sw * stw = 2 * d
  OBVIOUS
<1>7. off \in Int
  OBVIOUS
<1>8. 100 * (stw * off) <= 227 * d /\ -(227 * d) <= 100 * (stw * off)
  <2>1. 100 * off <= 227 * sw /\ -(227 * sw) <= 100 * off
    <3>1. sh * pw \in Int /\ sw * ph \in Int
      OBVIOUS
    <3> QED
      BY <3>1 DEF Off
  <2> HIDE DEF off
  <2>2. \A a, b \in Int : a <= b => stw * a <= stw * b
    BY Times
  <2>3. stw * (100 * off) <= stw * (227 * sw) /\ stw * (-(227 * sw)) <= stw * (100 * off)
    <3>1. 100 * off \in Int /\ 227 * sw \in Int /\ -(227 * sw) \in Int
      BY <1>7
    <3> QED
      BY <2>1, <2>2, <3>1
  <2>4. stw * (100 * off) = 100 * (stw * off) /\ stw * (227 * sw) = 227 * (sw * stw)
        /\ stw * (-(227 * sw)) = -(227 * (sw * stw))
    BY <1>7
  <2> QED
    BY <2>3, <2>4
<1> HIDE DEF all, bars, off
<1>9. h \in Nat /\ 2 * (stw * h) <= 2 * all + stw /\ 2 * all + stw < 2 * (stw * h) + 2 * stw
  BY <1>2, RoundIs
<1>10. 2 * (d * h) <= 2 * (sw * all) + d /\ 2 * (sw * all) + d < 2 * (d * h) + 2 * d
  <2>1. \A a, b \in Int : a <= b => sw * a <= sw * b
    BY Times
  <2> HIDE DEF h
  <2>2. stw * h \in Nat
    BY <1>9
  <2>3. sw * (2 * (stw * h)) <= sw * (2 * all + stw)
    BY <1>2, <1>9, <2>1, <2>2
  <2>4. sw * (2 * all + stw + 1) <= sw * (2 * (stw * h) + 2 * stw)
    BY <1>2, <1>9, <2>1, <2>2
  <2>5. sw * (2 * (stw * h)) = 2 * (d * h) /\ sw * (2 * all + stw) = 2 * (sw * all) + d
        /\ sw * (2 * all + stw + 1) = 2 * (sw * all) + d + sw
        /\ sw * (2 * (stw * h) + 2 * stw) = 2 * (d * h) + 2 * d
    <3>1. sw * (stw * h) = (sw * stw) * h
      BY <1>9
    <3>2. sw * (2 * (stw * h)) = 2 * (sw * (stw * h))
      BY <2>2
    <3>3. sw * (2 * all + stw) = 2 * (sw * all) + sw * stw
      BY <1>2
    <3>4. sw * (2 * all + stw + 1) = 2 * (sw * all) + sw * stw + sw
      BY <1>2
    <3>5. sw * (2 * (stw * h) + 2 * stw) = 2 * (sw * (stw * h)) + 2 * (sw * stw)
      BY <2>2
    <3> QED
      BY <3>1, <3>2, <3>3, <3>4, <3>5
  <2>6. sw * all \in Nat /\ d * h \in Nat
    BY <1>1, <1>2, <1>9
  <2> HIDE DEF d
  <2> QED
    BY <1>1, <2>3, <2>4, <2>5, <2>6
<1> HIDE DEF d
<1>11. 2 * d \in Nat /\ 2 * d > 0
  BY <1>1
<1>12. /\ y \in Nat /\ 2 * ((2 * d) * y) <= 2 * bars + 2 * d
       /\ 2 * bars + 2 * d < 2 * ((2 * d) * y) + 2 * (2 * d)
  BY <1>3, <1>11, RoundIs
<1> HIDE DEF h, y
<1> DEFINE k == h - 2 * y - ph
<1>13. d * h \in Nat /\ d * y \in Nat /\ d * ph \in Nat /\ (2 * d) * y = 2 * (d * y)
       /\ sw * all \in Nat /\ stw * off \in Int
  BY <1>1, <1>2, <1>7, <1>9, <1>12
<1>14. d * k = d * h - 2 * (d * y) - d * ph
  BY <1>1, <1>9, <1>12
<1>15. d * k < d * 4 /\ d * (-4) < d * k
  <2>1. d * 4 = 4 * d /\ d * (-4) = -(4 * d) /\ d * k \in Int
    BY <1>1, <1>9, <1>12
  <2> HIDE DEF k
  <2>2. bars = sw * all - stw * off - d * ph
    <3>1. bars = sw * all - (stw * off + d * ph)
      BY <1>4, <1>5
    <3> QED
      BY <1>13, <3>1
  <2> QED
    BY <1>1, <1>3, <1>8, <1>10, <1>12, <1>13, <1>14, <2>1, <2>2
<1>16. k \in Int
  BY <1>9, <1>12
<1> HIDE DEF k
<1>17. k < 4 /\ -4 < k
  BY <1>1, <1>15, <1>16, Factor
<1>18. k \in -3 .. 3
  BY <1>16, <1>17
<1> QED
  BY <1>6, <1>9, <1>12, <1>18 DEF k, h, y, d, all, bars

\* A whole number of pixels is not rounded.
LEMMA RoundWhole ==
  ASSUME NEW n \in Nat, NEW d \in Nat, d > 0
  PROVE  Round(d * n, d) = n
<1> DEFINE r == Round(d * n, d)
<1>1. d * n \in Nat
  OBVIOUS
<1>2. r \in Nat /\ 2 * (d * r) <= 2 * (d * n) + d /\ 2 * (d * n) + d < 2 * (d * r) + 2 * d
  BY <1>1, RoundIs
<1> HIDE DEF r
<1>3. d * r \in Nat /\ d * (n + 1) = d * n + d /\ d * (r + 1) = d * r + d
  BY <1>2
<1>4. d * r < d * (n + 1) /\ d * n < d * (r + 1)
  BY <1>1, <1>2, <1>3
<1>5. r < n + 1 /\ n < r + 1
  BY <1>2, <1>4, Factor
<1> QED
  BY <1>2, <1>5 DEF r

\* The height of a picture as wide as the screen is the screen's.
LEMMA BarsNone ==
  ASSUME NEW pw \in Nat, NEW ph \in Nat, NEW sw \in Nat, NEW sh \in Nat, sw > 0,
         100 * Off(sh * pw - sw * ph) <= 227 * sw
  PROVE  Round(pw * sh, sw) \in Nat /\ Round(pw * sh, sw) - ph \in -3 .. 3
<1> DEFINE r == Round(pw * sh, sw)
           all == pw * sh
           k == r - ph
<1>1. all \in Nat /\ sw * ph \in Nat /\ sh * pw = pw * sh
  OBVIOUS
<1>2. 100 * (all - sw * ph) <= 227 * sw /\ -(227 * sw) <= 100 * (all - sw * ph)
  BY <1>1 DEF Off
<1> HIDE DEF all
<1>3. r \in Nat /\ 2 * (sw * r) <= 2 * all + sw /\ 2 * all + sw < 2 * (sw * r) + 2 * sw
  BY <1>1, RoundIs DEF all
<1> HIDE DEF r
<1>4. sw * r \in Nat /\ sw * k = sw * r - sw * ph /\ k \in Int
      /\ sw * 4 = 4 * sw /\ sw * (-4) = -(4 * sw)
  BY <1>3
<1> HIDE DEF k
<1>5. sw * k < sw * 4 /\ sw * (-4) < sw * k
  BY <1>1, <1>2, <1>3, <1>4
<1>6. k < 4 /\ -4 < k
  BY <1>4, <1>5, Factor
<1>7. k \in -3 .. 3
  BY <1>4, <1>6
<1> QED
  BY <1>3, <1>7 DEF k, r

\* The proportions of a phone: what a screen may be off is less than 2.27 of its pixels.
LEMMA SidesRatio ==
  ASSUME NEW sw, NEW sh, NEW u, <<sw, sh, u>> \in Sides
  PROVE  /\ 100 * (2 * Off(sh - sw) + sw) <= 454 * sw
         /\ 100 * (2 * Off(sw - sh) + sh) <= 454 * sw
BY DEF Sides, Off

\* The sides of a profile's screen as it is held, and its cut-out.
LEMMA ScreenIs ==
  ASSUME NEW profile \in Profiles, NEW landscape \in BOOLEAN
  PROVE  /\ <<Screen(profile, landscape).w, Screen(profile, landscape).h, profile.screen.w>>
              \in Sides
         /\ profile.cutout \in {NoCutout, Cutout("notch", 530, 36, 0),
                                Cutout("notch", 420, 38, 0), Cutout("island", 320, 43, 13)}
<1>1. profile.screen \in {Size(6, 13), Size(195, 422), Size(214, 463), Size(131, 284),
                          Size(215, 466), Size(201, 437), Size(110, 239), Size(375, 667),
                          Size(41, 59)}
      /\ profile.cutout \in {NoCutout, Cutout("notch", 530, 36, 0),
                             Cutout("notch", 420, 38, 0), Cutout("island", 320, 43, 13)}
  BY DEF Profiles
<1>2. ASSUME NEW w, NEW h, profile.screen = Size(w, h)
      PROVE  /\ profile.screen.w = w
             /\ landscape => Screen(profile, landscape).w = h /\ Screen(profile, landscape).h = w
             /\ ~landscape => Screen(profile, landscape).w = w /\ Screen(profile, landscape).h = h
  BY <1>2 DEF Screen, Turned, Size
<1> QED
  BY <1>1, <1>2 DEF Sides

\* What has to hold of a phone laid out in a client area.
Fits(c, g) ==
  /\ Inside(g.body, Rect(0, 0, c.w, c.h))
  /\ Inside(g.screen, g.body) /\ Width(g.screen) > 0 /\ Height(g.screen) > 0
  /\ Inside(g.cutout, g.screen)
  /\ Negligible(Width(g.guest) - g.guestClip.right - g.guestClip.left)
  /\ Negligible(Height(g.guest) - g.guestClip.bottom - g.guestClip.top)

\* The receiver's window: as much of it on one side of the screen as on the other.
LEMMA GuestFits ==
  ASSUME NEW s, s.w \in Nat \ {0}, s.h \in Nat \ {0}, NEW profile \in Profiles,
         NEW landscape \in BOOLEAN, NEW pw \in Nat, NEW ph \in Nat,
         100 * Off(Screen(profile, landscape).h * pw - Screen(profile, landscape).w * ph)
           <= 227 * Screen(profile, landscape).w
  PROVE  LET g == Guest(s, profile, landscape, pw, ph)
         IN  /\ g.size.w \in Nat /\ g.size.h \in Nat /\ g.x \in Nat /\ g.y \in Nat
             /\ g.size.w - 2 * g.x - pw \in -3 .. 3
             /\ g.size.h - 2 * g.y - ph \in -3 .. 3
<1> DEFINE t == Screen(profile, landscape)
<1>1. t.w \in Nat /\ t.h \in Nat /\ t.w > 0 /\ t.h > 0
  <2>1. <<t.w, t.h, profile.screen.w>> \in Sides
    BY ScreenIs
  <2> HIDE DEF t
  <2> QED
    BY <2>1, SidesPositive
<1>2. s.w \in Nat /\ s.h \in Nat /\ s.w > 0 /\ s.h > 0
  OBVIOUS
<1> HIDE DEF t
<1>3. CASE ~Cropped(s, profile)
  BY <1>3 DEF Guest, Size
<1>4. CASE Cropped(s, profile) /\ s.w * t.h > t.w * s.h
  <2> DEFINE w == Round(pw * s.w * t.h, s.h * t.w)
             x == Round((s.w * t.h - s.h * t.w) * pw, 2 * s.h * t.w)
             h == Round(pw * t.h, t.w)
  <2>1. Guest(s, profile, landscape, pw, ph) = [size |-> Size(w, h), x |-> x, y |-> 0]
    BY <1>4 DEF Guest, GuestWithBars, t
  <2>2. w \in Nat /\ x \in Nat /\ w - 2 * x - pw \in -1 .. 1
    BY <1>1, <1>2, <1>4, BarsBeside
  <2>3. h \in Nat /\ h - ph \in -3 .. 3
    BY <1>1, BarsNone DEF t
  <2> HIDE DEF w, x, h
  <2>4. h - 2 * 0 - ph = h - ph
    BY <2>3
  <2> QED
    BY <2>1, <2>2, <2>3, <2>4 DEF Size
<1>5. CASE Cropped(s, profile) /\ ~(s.w * t.h > t.w * s.h)
  <2> DEFINE h == Round(s.h * pw, s.w)
             y == Round((s.h * t.w - s.w * t.h) * pw, 2 * t.w * s.w)
  <2>1. Guest(s, profile, landscape, pw, ph) = [size |-> Size(pw, h), x |-> 0, y |-> y]
    BY <1>5 DEF Guest, GuestWithBars, t
  <2>2. h \in Nat /\ y \in Nat /\ h - 2 * y - ph \in -3 .. 3
    BY <1>1, <1>2, <1>5, BarsAbove DEF t
  <2> HIDE DEF h, y
  <2> QED
    BY <2>1, <2>2 DEF Size
<1> QED
  BY <1>3, <1>4, <1>5

\* A body that fits into the client area, with a bezel that leaves a screen of the phone's
\* proportions.
LEMMA InBodyFits ==
  ASSUME NEW c, c.w \in Nat, c.h \in Nat, NEW s, s.w \in Nat \ {0}, s.h \in Nat \ {0},
         NEW profile \in Profiles, NEW landscape \in BOOLEAN,
         NEW bw \in Nat, NEW bh \in Nat, NEW inset \in Nat,
         bw <= c.w, bh <= c.h, 2 * inset < bw, 2 * inset < bh,
         100 * Off(Screen(profile, landscape).h * (bw - 2 * inset)
                   - Screen(profile, landscape).w * (bh - 2 * inset))
           <= 227 * Screen(profile, landscape).w
  PROVE  Fits(c, InBody(s, profile, landscape, Centred(c, bw, bh), inset))
<1> DEFINE x == (c.w - bw) \div 2
           y == (c.h - bh) \div 2
           pw == bw - 2 * inset
           ph == bh - 2 * inset
           body == Rect(x, y, bw, bh)
           screen == Rect(x + inset, y + inset, pw, ph)
           cutout == CutoutRect(profile.cutout, screen, landscape)
           guest == Guest(s, profile, landscape, pw, ph)
<1>1. x \in Nat /\ y \in Nat /\ x + bw <= c.w /\ y + bh <= c.h
  OBVIOUS
<1>2. pw \in Nat /\ ph \in Nat /\ pw > 0 /\ ph > 0
  OBVIOUS
<1> HIDE DEF x, y
<1>3. Width(body) = bw /\ Height(body) = bh /\ body.left = x /\ body.top = y
  BY <1>1 DEF Rect, Width, Height
<1>4. Width(screen) = pw /\ Height(screen) = ph
  BY <1>1, <1>2 DEF Rect, Width, Height
<1>5. InBody(s, profile, landscape, Centred(c, bw, bh), inset)
        = Geometry(body, screen, cutout, guest)
  <2>1. Centred(c, bw, bh) = body
    BY DEF Centred, x, y
  <2> HIDE DEF body
  <2>2. Rect(body.left + inset, body.top + inset, Width(body) - 2 * inset, Height(body) - 2 * inset)
          = screen
    BY <1>3
  <2> HIDE DEF screen
  <2> QED
    BY <1>4, <2>1, <2>2 DEF InBody, OnScreen
<1>6. Inside(body, Rect(0, 0, c.w, c.h))
  BY <1>1 DEF Inside, Rect
<1>7. Inside(screen, body)
  BY <1>1 DEF Inside, Rect
<1>8. Inside(cutout, screen)
  <2> DEFINE k == profile.cutout
  <2>1. k \in {NoCutout, Cutout("notch", 530, 36, 0), Cutout("notch", 420, 38, 0),
               Cutout("island", 320, 43, 13)}
    BY ScreenIs
  <2> HIDE DEF k, pw, ph
  <2>4. CutoutHolds(k, pw, ph) /\ CutoutHolds(k, ph, pw)
    BY <1>2, <2>1, CutoutIs
  <2>2. CASE landscape
    <3> DEFINE w == Round(k.w * ph, 1000)
               h == Round(k.h * pw, 1000)
               top == Round(k.top * pw, 1000)
    <3>1. cutout = Rect(screen.left + top, screen.top + (ph - w) \div 2, h, w)
      BY <1>4, <2>2 DEF CutoutRect, CutoutTurned, k
    <3>2. w \in 0 .. ph /\ h \in Nat /\ top \in Nat /\ top + h <= pw
      BY <2>4 DEF CutoutHolds
    <3> HIDE DEF w, h, top, cutout
    <3> DEFINE gap == (ph - w) \div 2
    <3>3. gap \in Nat /\ gap + w <= ph
      BY <1>2, <3>2
    <3> HIDE DEF gap
    <3>4. cutout = Rect(screen.left + top, screen.top + gap, h, w)
      BY <3>1 DEF gap
    <3> QED
      BY <1>1, <1>2, <3>2, <3>3, <3>4 DEF Rect, Inside
  <2>3. CASE ~landscape
    <3> DEFINE w == Round(k.w * pw, 1000)
               h == Round(k.h * ph, 1000)
               top == Round(k.top * ph, 1000)
    <3>1. cutout = Rect(screen.left + (pw - w) \div 2, screen.top + top, w, h)
      BY <1>4, <2>3 DEF CutoutRect, CutoutUpright, k
    <3>2. w \in 0 .. pw /\ h \in Nat /\ top \in Nat /\ top + h <= ph
      BY <2>4 DEF CutoutHolds
    <3> HIDE DEF w, h, top, cutout
    <3> DEFINE gap == (pw - w) \div 2
    <3>3. gap \in Nat /\ gap + w <= pw
      BY <1>2, <3>2
    <3> HIDE DEF gap
    <3>4. cutout = Rect(screen.left + gap, screen.top + top, w, h)
      BY <3>1 DEF gap
    <3> QED
      BY <1>1, <1>2, <3>2, <3>3, <3>4 DEF Rect, Inside
  <2> QED
    BY <2>2, <2>3
<1>9. /\ guest.size.w \in Nat /\ guest.size.h \in Nat /\ guest.x \in Nat /\ guest.y \in Nat
      /\ guest.size.w - 2 * guest.x - pw \in -3 .. 3
      /\ guest.size.h - 2 * guest.y - ph \in -3 .. 3
  BY <1>2, GuestFits
<1> DEFINE g == Geometry(body, screen, cutout, guest)
<1> HIDE DEF cutout, guest, pw, ph
<1>10. /\ g.body = body /\ g.screen = screen /\ g.cutout = cutout
       /\ g.guest = Rect(screen.left - guest.x, screen.top - guest.y, guest.size.w, guest.size.h)
       /\ g.guestClip = Rect(guest.x, guest.y, pw, ph)
  BY <1>4 DEF Geometry
<1> HIDE DEF g
<1>11. /\ Width(g.guest) = guest.size.w /\ Height(g.guest) = guest.size.h
       /\ g.guestClip.left = guest.x /\ g.guestClip.right = guest.x + pw
       /\ g.guestClip.top = guest.y /\ g.guestClip.bottom = guest.y + ph
  <2>1. screen.left \in Int /\ screen.top \in Int
    BY <1>1 DEF Rect
  <2> HIDE DEF screen
  <2> QED
    BY <1>9, <1>10, <2>1 DEF Rect, Width, Height
<1>12. /\ Negligible(Width(g.guest) - g.guestClip.right - g.guestClip.left)
       /\ Negligible(Height(g.guest) - g.guestClip.bottom - g.guestClip.top)
  BY <1>2, <1>9, <1>11 DEF Negligible, Slack
<1>13. Width(g.screen) > 0 /\ Height(g.screen) > 0
  BY <1>2, <1>4, <1>10
<1> HIDE DEF body, screen
<1> QED
  BY <1>5, <1>6, <1>7, <1>8, <1>10, <1>12, <1>13 DEF Fits, g

\* The phone in a client area no smaller than a window can be.
LEMMA LayoutFits ==
  ASSUME NEW c, c.w \in Nat, c.h \in Nat, c.w >= 160, c.h >= 80,
         NEW s, s.w \in Nat \ {0}, s.h \in Nat \ {0}, NEW profile \in Profiles,
         NEW turned \in BOOLEAN
  PROVE  Fits(c, Layout(c, s, profile, turned))
<1> DEFINE landscape == Landscape(s, profile, turned)
           t == Screen(profile, landscape)
           u == profile.screen.w
           W == 50 * t.w + 3 * u
           H == 50 * t.h + 3 * u
<1>1. landscape \in BOOLEAN
  <2>1. Matches(s, Turned(profile.screen)) \in BOOLEAN
    BY DEF Matches
  <2> QED
    BY <2>1 DEF Landscape
<1>2. <<t.w, t.h, u>> \in Sides
  BY <1>1, ScreenIs
<1> HIDE DEF landscape
<1>3. t.w \in Nat /\ t.h \in Nat /\ u \in Nat /\ t.w > 0 /\ t.h > 0 /\ u > 0
      /\ <<t.h, t.w, u>> \in Sides
  BY <1>2, SidesPositive
<1>4. /\ 100 * (2 * Off(t.h - t.w) + t.w) <= 454 * t.w
      /\ 100 * (2 * Off(t.w - t.h) + t.h) <= 454 * t.w
  BY <1>2, SidesRatio
<1>5. Layout(c, s, profile, turned)
        = IF c.w * H <= c.h * W THEN Scaled(c, s, profile, landscape, W, H, u, c.w, W)
          ELSE Scaled(c, s, profile, landscape, W, H, u, c.h, H)
  BY DEF Layout, Bezelled, Fitted, landscape
<1> HIDE DEF t, u
<1>6. W \in Nat /\ W > 0 /\ H \in Nat /\ H > 0
  BY <1>3
<1>7. \A a, b \in Int : Off(a - b) = Off(b - a) /\ Off(a) \in Nat
  BY DEF Off
<1>8. CASE c.w * H <= c.h * W
  <2> DEFINE bh == Round(H * c.w, W)
             inset == Round(3 * u * c.w, 2 * W)
             off == t.h * (c.w - 2 * inset) - t.w * (bh - 2 * inset)
  <2>1. Scaled(c, s, profile, landscape, W, H, u, c.w, W)
          = InBody(s, profile, landscape, Centred(c, c.w, bh), inset)
    BY <1>6, RoundWhole DEF Scaled
  <2>2. BodyHolds(t.w, t.h, u, c.w)
    BY <1>2, BodyIs
  <2>3. /\ bh \in Nat /\ inset \in Nat /\ 2 * inset < c.w /\ 2 * inset < bh /\ bh <= c.h
        /\ 2 * Off(off) <= 2 * Off(t.h - t.w) + t.w
    BY <1>8, <2>2 DEF BodyHolds
  <2> HIDE DEF bh, inset, W, H
  <2>4. off \in Int
    <3>1. c.w - 2 * inset \in Int /\ bh - 2 * inset \in Int
      BY <2>3
    <3> QED
      BY <1>3, <3>1
  <2> HIDE DEF off
  <2>5. 100 * Off(off) <= 227 * t.w
    <3>1. Off(off) \in Nat /\ Off(t.h - t.w) \in Nat
      BY <1>3, <2>4 DEF Off
    <3> QED
      BY <1>3, <1>4, <2>3, <3>1
  <2> QED
    BY <1>1, <1>5, <1>8, <2>1, <2>3, <2>5, InBodyFits DEF t, off
<1>9. CASE ~(c.w * H <= c.h * W)
  <2> DEFINE bw == Round(W * c.h, H)
             inset == Round(3 * u * c.h, 2 * H)
             off == t.w * (c.h - 2 * inset) - t.h * (bw - 2 * inset)
             back == t.h * (bw - 2 * inset) - t.w * (c.h - 2 * inset)
  <2>1. Scaled(c, s, profile, landscape, W, H, u, c.h, H)
          = InBody(s, profile, landscape, Centred(c, bw, c.h), inset)
    BY <1>6, RoundWhole DEF Scaled
  <2>2. BodyHolds(t.h, t.w, u, c.h)
    BY <1>3, BodyIs
  <2>3. c.h * W <= c.w * H
    <3>1. c.h * W \in Nat /\ c.w * H \in Nat
      BY <1>6
    <3> QED
      BY <1>9, <3>1
  <2>4. /\ bw \in Nat /\ inset \in Nat /\ 2 * inset < c.h /\ 2 * inset < bw /\ bw <= c.w
        /\ 2 * Off(off) <= 2 * Off(t.w - t.h) + t.h
    BY <2>2, <2>3 DEF BodyHolds
  <2> HIDE DEF bw, inset, W, H
  <2>5. off \in Int /\ back \in Int /\ Off(back) = Off(off)
    <3>1. t.w * (c.h - 2 * inset) \in Int /\ t.h * (bw - 2 * inset) \in Int
      BY <1>3, <2>4
    <3> QED
      BY <1>7, <3>1
  <2> HIDE DEF off, back
  <2>6. 100 * Off(back) <= 227 * t.w
    <3>1. Off(off) \in Nat /\ Off(t.w - t.h) \in Nat
      BY <1>3, <2>5 DEF Off
    <3> QED
      BY <1>3, <1>4, <2>4, <2>5, <3>1
  <2> QED
    BY <1>1, <1>5, <1>9, <2>1, <2>4, <2>6, InBodyFits DEF t, back
<1> QED
  BY <1>8, <1>9

-----------------------------------------------------------------------------
\* A set of numbers has a smallest.
LEMMA Smallest ==
  ASSUME NEW S, S \subseteq Nat, S # {}
  PROVE  \E x \in S : \A y \in S : x <= y
<1> DEFINE R == OpToRel(<, Nat)
<1>1. \A x, y \in Nat : y < x => <<y, x>> \in R
  BY DEF OpToRel
<1>2. IsWellFoundedOn(R, Nat)
  BY NatLessThanWellFounded DEF R
<1>3. PICK x \in S : \A y \in S : <<y, x>> \notin R
  <2> HIDE DEF R
  <2> QED
    BY <1>2, WFMin
<1> HIDE DEF R
<1>4. \A y \in S : x <= y
  <2> SUFFICES ASSUME NEW y \in S PROVE x <= y
    OBVIOUS
  <2>1. x \in Nat /\ y \in Nat /\ ~(y < x)
    BY <1>1, <1>3
  <2> QED
    BY <2>1
<1> QED
  BY <1>4

\* A square root is there, and is what SquareRoot returns.
LEMMA SquareRootIs ==
  ASSUME NEW x \in Nat
  PROVE  SquareRoot(x) \in 0 .. x
<1> DEFINE S == {n \in Nat : x < (n + 1) * (n + 1)}
<1>1. x \in S
  <2>1. (x + 1) * (x + 1) = x * x + 2 * x + 1 /\ x * x \in Nat
    OBVIOUS
  <2> QED
    BY <2>1
<1>2. PICK r \in S : \A n \in S : r <= n
  <2> HIDE DEF S
  <2>1. S \subseteq Nat
    BY DEF S
  <2> QED
    BY <1>1, <2>1, Smallest
<1>3. r * r <= x /\ r \in 0 .. x
  <2>1. CASE r = 0
    BY <2>1
  <2>2. CASE r # 0
    <3>1. r \in Nat /\ r - 1 \in Nat /\ (r - 1) + 1 = r
      BY <2>2
    <3>2. r - 1 \notin S
      <4> HIDE DEF S
      <4> QED
        BY <1>2, <3>1
    <3>3. ~(x < r * r)
      BY <3>1, <3>2
    <3>4. r * r \in Nat /\ r * r >= r
      BY <2>2, <3>1
    <3> QED
      BY <3>1, <3>3, <3>4
  <2> QED
    BY <2>1, <2>2
<1>4. \E n \in 0 .. x : n * n <= x /\ x < (n + 1) * (n + 1)
  BY <1>2, <1>3
<1> QED
  BY <1>4 DEF SquareRoot

\* MulDiv does not round up.
LEMMA MulDivIs ==
  ASSUME NEW a \in Nat, NEW b \in Nat, NEW c \in Nat, c > 0
  PROVE  MulDiv(a, b, c) \in Nat /\ MulDiv(a, b, c) * c <= a * b
<1> DEFINE q == a \div c
           r == a % c
           p == (r * b) \div c
<1>1. q \in Nat /\ r \in Nat /\ a = c * q + r
  OBVIOUS
<1> HIDE DEF q, r
<1>2. r * b \in Nat
  BY <1>1
<1>3. p \in Nat /\ c * p <= r * b
  <2> DEFINE m == r * b
  <2>1. m \in Nat
    BY <1>2
  <2> HIDE DEF m
  <2>2. m \div c \in Nat /\ c * (m \div c) <= m
    BY <2>1
  <2> QED
    BY <2>2 DEF m
<1> HIDE DEF p
<1>4. MulDiv(a, b, c) = q * b + p
  BY DEF MulDiv, p, q, r
<1>5. q * b \in Nat
  BY <1>1
<1>6. (q * b + p) * c = c * (q * b) + c * p /\ a * b = (c * q) * b + r * b
      /\ (c * q) * b = c * (q * b)
  <2>1. (q * b + p) * c = c * (q * b) + c * p
    BY <1>3, <1>5
  <2>2. (c * q) * b = c * (q * b)
    BY <1>1
  <2>3. c * q \in Nat
    BY <1>1
  <2>4. a * b = (c * q) * b + r * b
    BY <1>1, <2>3
  <2> QED
    BY <2>1, <2>2, <2>4
<1>7. c * (q * b) \in Nat /\ c * p \in Nat
  BY <1>3, <1>5
<1> QED
  BY <1>2, <1>3, <1>4, <1>5, <1>6, <1>7

\* What is no more than a whole number is not rounded above it.
LEMMA RoundAtMost ==
  ASSUME NEW n \in Nat, NEW d \in Nat, d > 0, NEW m \in Nat, n <= d * m
  PROVE  Round(n, d) <= m
<1> DEFINE r == Round(n, d)
<1>1. r \in Nat /\ 2 * (d * r) <= 2 * n + d
  BY RoundIs
<1> HIDE DEF r
<1>2. d * r \in Nat /\ d * m \in Nat /\ d * (m + 1) = d * m + d
  BY <1>1
<1>3. d * r < d * (m + 1)
  BY <1>1, <1>2
<1>4. r < m + 1
  BY <1>1, <1>3, Factor
<1> QED
  BY <1>1, <1>4 DEF r

\* The width a window is scaled to is below the limit, and so is the height it gives a picture of
\* the shape a, if the size to scale is no wider than that shape.
LEMMA ScaledWidthIs ==
  ASSUME NEW s, s.w \in Nat, s.h \in Nat, NEW a, a.w \in Nat \ {0}, a.h \in Nat \ {0},
         Limit.w \in Nat, Limit.h \in Nat
  PROVE  /\ ScaledWidth(s) \in Nat
         /\ s.w * a.h <= s.h * a.w =>
              ScaledWidth(s) <= Limit.w /\ ScaledWidth(s) * a.h <= a.w * Limit.h
<1> DEFINE w == ScaledWidth(s)
           lw == Limit.w
           lh == Limit.h
           sw == s.w
           sh == s.h
           aw == a.w
           ah == a.h
<1>1. w = IF sw <= lw /\ sh <= lh THEN sw
          ELSE IF sh <= lh \/ (sw > lw /\ lw * sh <= lh * sw) THEN lw ELSE (sw * lh) \div sh
  BY DEF ScaledWidth
<1>2. sw \in Nat /\ sh \in Nat /\ aw \in Nat /\ ah \in Nat /\ lw \in Nat /\ lh \in Nat
      /\ aw > 0 /\ ah > 0
  OBVIOUS
<1>3. sw * ah \in Nat /\ sh * aw \in Nat /\ sw * lh \in Nat /\ lw * sh \in Nat /\ aw * lh \in Nat
      /\ lh * sw = sw * lh /\ lw * ah \in Nat
  BY <1>2
<1> SUFFICES w \in Nat /\ (sw * ah <= sh * aw => w <= lw /\ w * ah <= aw * lh)
  OBVIOUS
<1> HIDE DEF w, lw, lh, sw, sh, aw, ah
<1>4. CASE sw <= lw /\ sh <= lh
  <2>1. aw * sh <= aw * lh /\ aw * sh = sh * aw
    BY <1>2, <1>4, Times
  <2> QED
    BY <1>1, <1>2, <1>3, <1>4, <2>1
<1>5. CASE sh <= lh /\ ~(sw <= lw)
  <2>1. aw * sh <= aw * lh /\ aw * sh = sh * aw
    BY <1>2, <1>5, Times
  <2>2. ah * lw <= ah * sw /\ ah * lw = lw * ah /\ ah * sw = sw * ah
    BY <1>2, <1>5, Times
  <2> QED
    BY <1>1, <1>2, <1>3, <1>5, <2>1, <2>2
<1>6. CASE ~(sh <= lh) /\ sw > lw /\ lw * sh <= lh * sw
  <2>1. w = lw
    BY <1>1, <1>2, <1>6
  <2>2. ASSUME sw * ah <= sh * aw PROVE lw * ah <= aw * lh
    <3>1. lw * (sw * ah) <= lw * (sh * aw)
      BY <1>2, <1>3, <2>2, Times
    <3>2. aw * (lw * sh) <= aw * (sw * lh)
      BY <1>2, <1>3, <1>6, Times
    <3>3. lw * (sw * ah) = sw * (lw * ah) /\ lw * (sh * aw) = aw * (lw * sh)
          /\ aw * (sw * lh) = sw * (aw * lh)
      BY <1>2
    <3>4. sw * (lw * ah) \in Nat /\ aw * (lw * sh) \in Nat /\ sw * (aw * lh) \in Nat
      BY <1>2, <1>3
    <3>5. sw * (lw * ah) <= sw * (aw * lh)
      BY <3>1, <3>2, <3>3, <3>4
    <3>6. sw > 0
      BY <1>2, <1>6
    <3> QED
      BY <1>2, <1>3, <3>5, <3>6, Factor
  <2> QED
    BY <1>2, <2>1, <2>2
<1>7. CASE ~(sh <= lh) /\ ~(sw > lw /\ lw * sh <= lh * sw)
  <2>1. w = (sw * lh) \div sh
    BY <1>1, <1>2, <1>7
  <2>2. sh > 0
    BY <1>2, <1>7
  <2>3. w \in Nat /\ sh * w <= sw * lh
    <3> DEFINE n == sw * lh
    <3>1. n \in Nat
      BY <1>3
    <3> HIDE DEF n
    <3>2. n \div sh \in Nat /\ sh * (n \div sh) <= n
      BY <1>2, <2>2, <3>1
    <3> QED
      BY <2>1, <3>2 DEF n
  <2>4. sh * w \in Nat
    BY <1>2, <2>3
  <2>5. w <= lw
    <3>1. CASE sw <= lw
      <4>1. sw * lh <= sw * sh /\ sw * sh = sh * sw
        BY <1>2, <1>7, Times
      <4>2. sh * w <= sh * sw
        BY <1>2, <1>3, <2>3, <2>4, <4>1
      <4>3. w <= sw
        BY <1>2, <2>2, <2>3, <4>2, Factor
      <4> QED
        BY <1>2, <2>3, <3>1, <4>3
    <3>2. CASE ~(sw <= lw)
      <4>1. lw * sh = sh * lw
        BY <1>2
      <4>2. sh * w <= sh * lw
        BY <1>2, <1>3, <1>7, <2>3, <2>4, <3>2, <4>1
      <4> QED
        BY <1>2, <2>2, <2>3, <4>2, Factor
    <3> QED
      BY <3>1, <3>2
  <2>6. ASSUME sw * ah <= sh * aw PROVE w * ah <= aw * lh
    <3>1. ah * (sh * w) <= ah * (sw * lh)
      BY <1>2, <1>3, <2>3, <2>4, Times
    <3>2. lh * (sw * ah) <= lh * (sh * aw)
      BY <1>2, <1>3, <2>6, Times
    <3>3. ah * (sh * w) = sh * (w * ah) /\ ah * (sw * lh) = lh * (sw * ah)
          /\ lh * (sh * aw) = sh * (aw * lh)
      BY <1>2, <2>3
    <3>4. w * ah \in Nat
      BY <1>2, <2>3
    <3>5. sh * (w * ah) \in Nat /\ lh * (sw * ah) \in Nat /\ sh * (aw * lh) \in Nat
      BY <1>2, <1>3, <3>4
    <3>6. sh * (w * ah) <= sh * (aw * lh)
      BY <3>1, <3>2, <3>3, <3>5
    <3> QED
      BY <1>2, <1>3, <2>2, <3>4, <3>6, Factor
  <2> QED
    BY <2>3, <2>5, <2>6
<1> QED
  BY <1>4, <1>5, <1>6, <1>7

\* A side computed from the other one by rounding is, computed back, hardly off.
LEMMA ThereAndBack ==
  ASSUME NEW W \in Nat, NEW H \in Nat, W > 0, H > 0, H <= 6 * W, NEW w \in Nat, NEW h \in Nat,
         w = Round(h * W, H), w * H <= h * W
  PROVE  h - Round(H * w, W) \in 0 .. 3
<1> DEFINE r == Round(H * w, W)
           k == h - r
<1>1. h * W \in Nat /\ H * w \in Nat /\ w * H = H * w /\ h * W = W * h
  OBVIOUS
<1>2. 2 * (h * W) + H < 2 * (H * w) + 2 * H
  BY <1>1, RoundIs
<1>3. r \in Nat /\ 2 * (W * r) <= 2 * (H * w) + W /\ 2 * (H * w) + W < 2 * (W * r) + 2 * W
  BY <1>1, RoundIs
<1> HIDE DEF r
<1>4. k \in Int /\ W * k = W * h - W * r /\ W * r \in Nat
      /\ W * 4 = 4 * W /\ W * (-1) = -W
  BY <1>3
<1> HIDE DEF k
<1>5. W * k < W * 4 /\ W * (-1) < W * k
  BY <1>1, <1>2, <1>3, <1>4
<1>6. k < 4 /\ -1 < k
  BY <1>4, <1>5, Factor
<1> QED
  BY <1>4, <1>6 DEF k, r

\* What is as wide or as high as a window of its own shape, but for rounding, fills it.
Filling(c, a) ==
  IF c.w * a.h <= c.h * a.w THEN Size(c.w, Round(a.h * c.w, a.w))
                            ELSE Size(Round(a.w * c.h, a.h), c.h)

\* It does, if one side was computed from the other and the shape is no strip.
LEMMA FillingFills ==
  ASSUME NEW a, a.w \in Nat \ {0}, a.h \in Nat \ {0}, a.h <= 6 * a.w, a.w <= 6 * a.h,
         NEW c, c.w \in Nat, c.h \in Nat,
         c.w = Round(c.h * a.w, a.h) \/ c.h = Round(c.w * a.h, a.w)
  PROVE  /\ Filling(c, a).w \in Nat /\ c.w - Filling(c, a).w \in 0 .. 3
         /\ Filling(c, a).h \in Nat /\ c.h - Filling(c, a).h \in 0 .. 3
<1> DEFINE W == a.w
           H == a.h
           w == c.w
           h == c.h
<1>1. W \in Nat /\ H \in Nat /\ W > 0 /\ H > 0 /\ w \in Nat /\ h \in Nat /\ W <= 6 * H
      /\ H <= 6 * W /\ (w = Round(h * W, H) \/ h = Round(w * H, W))
  OBVIOUS
<1>2. Filling(c, a) = IF w * H <= h * W THEN Size(w, Round(H * w, W)) ELSE Size(Round(W * h, H), h)
  BY DEF Filling
<1> DEFINE f == Filling(c, a)
<1> SUFFICES f.w \in Nat /\ w - f.w \in 0 .. 3 /\ f.h \in Nat /\ h - f.h \in 0 .. 3
  OBVIOUS
<1> HIDE DEF f, w, h, W, H
<1>3. H * w \in Nat /\ W * h \in Nat /\ w * H = H * w /\ h * W = W * h
  BY <1>1
<1>4. Round(H * w, W) \in Nat /\ Round(W * h, H) \in Nat
  BY <1>1, <1>3, RoundIs
<1>5. CASE w * H <= h * W
  <2>1. f.w = w /\ f.h = Round(H * w, W)
    BY <1>2, <1>5 DEF Size, f
  <2>2. h - Round(H * w, W) \in 0 .. 3
    <3>1. CASE w = Round(h * W, H)
      BY <1>1, <1>5, <3>1, ThereAndBack
    <3>2. CASE h = Round(w * H, W)
      BY <1>1, <1>3, <1>4, <3>2
    <3> QED
      BY <1>1, <3>1, <3>2
  <2> QED
    BY <1>1, <1>4, <2>1, <2>2
<1>6. CASE ~(w * H <= h * W)
  <2>1. f.w = Round(W * h, H) /\ f.h = h
    BY <1>2, <1>6 DEF Size, f
  <2>2. w - Round(W * h, H) \in 0 .. 3
    <3>1. CASE h = Round(w * H, W)
      <4>1. h * W <= w * H
        BY <1>3, <1>6
      <4> QED
        BY <1>1, <3>1, <4>1, ThereAndBack
    <3>2. CASE w = Round(h * W, H)
      BY <1>1, <1>3, <1>4, <3>2
    <3> QED
      BY <1>1, <3>1, <3>2
  <2> QED
    BY <1>1, <1>4, <2>1, <2>2
<1> QED
  BY <1>5, <1>6

-----------------------------------------------------------------------------
\* A size of something.
Positive(s) == s.w \in Nat \ {0} /\ s.h \in Nat \ {0}

\* The window is no smaller than Windows lets it be, a stream is of some size, and what is
\* remembered was once the size of a window.
SizesInv ==
  /\ client.w \in Nat /\ client.h \in Nat /\ client.w >= 160 /\ client.h >= 80
  /\ stream # NoStream => Positive(stream)
  /\ cfg = [frame |-> cfg.frame, saved |-> cfg.saved] /\ cfg.frame \in BOOLEAN
  /\ cfg.saved = Unsaved \/ Positive(Size(cfg.saved.w - Extra.w, cfg.saved.h - Extra.h))

\* The device is one of the table, or the one that stands for none.
DeviceInv == phone.profile \in Profiles /\ phone.wants \in BOOLEAN /\ hint \in BOOLEAN

\* effectiveAspect() and the layout decide alike: whatever changed since the last layout, a layout
\* followed it.
GeomInv ==
  FrameActive(cfg.frame, phone, stream) =>
    geom = IF Landscape(stream, phone.profile, hint) THEN "landscape" ELSE "portrait"

\* All of it.
IInv == SizesInv /\ DeviceInv /\ GeomInv

\* The limit is no smaller than the least window.
LEMMA LimitIs == Limit.w \in Nat /\ Limit.h \in Nat /\ Limit.w >= 160 /\ Limit.h >= 80
BY PictureAssumption DEF Limit, Size

\* A phone is held one way or the other.
LEMMA LandscapeIs ==
  ASSUME NEW s, NEW profile, NEW turned \in BOOLEAN
  PROVE  Landscape(s, profile, turned) \in BOOLEAN
<1>1. Matches(s, Turned(profile.screen)) \in BOOLEAN
  BY DEF Matches
<1> QED
  BY <1>1 DEF Landscape

\* A phone with its bezel has a shape, and is no strip.
LEMMA FrameAspectIs ==
  ASSUME NEW profile \in Profiles, NEW landscape \in BOOLEAN
  PROVE  LET a == FrameAspect(profile, landscape)
         IN  Positive(a) /\ a.w <= 6 * a.h /\ a.h <= 6 * a.w
<1> DEFINE t == Screen(profile, landscape)
           u == profile.screen.w
<1>1. <<t.w, t.h, u>> \in Sides
  BY ScreenIs
<1>2. FrameAspect(profile, landscape) = Size(50 * t.w + 3 * u, 50 * t.h + 3 * u)
  BY DEF FrameAspect
<1> HIDE DEF t, u
<1>3. t.w \in Nat /\ t.h \in Nat /\ u \in Nat /\ t.w > 0 /\ t.h > 0 /\ u > 0
      /\ t.w <= 3 * t.h /\ t.h <= 3 * t.w /\ u <= t.w /\ u <= t.h
  BY <1>1 DEF Sides
<1> QED
  BY <1>2, <1>3 DEF Positive, Size

\* So has what a window is sized to.
LEMMA AspectIs ==
  ASSUME DeviceInv, NEW s, Positive(s)
  PROVE  Positive(Aspect(s))
<1>1. (IF geom = "none" THEN hint ELSE geom = "landscape") \in BOOLEAN
  BY DEF DeviceInv
<1> QED
  BY <1>1, FrameAspectIs DEF DeviceInv, Aspect

\* No window is smaller than the least one.
LEMMA AtLeastIs ==
  ASSUME NEW s, s.w \in Int, s.h \in Int
  PROVE  LET c == AtLeast(s)
         IN  /\ c.w \in Nat /\ c.h \in Nat /\ c.w >= 160 /\ c.h >= 80
             /\ c.w = 160 \/ c.w = s.w
             /\ c.h = 80 \/ c.h = s.h
BY DEF AtLeast, Size, Larger

\* The size to scale: no wider than the shape, unless a remembered size has another shape.
LEMMA ShapedIs ==
  ASSUME SizesInv, DeviceInv, NEW s, Positive(s)
  PROVE  /\ Shaped(s).w \in Nat /\ Shaped(s).h \in Nat
         /\ FrameActive(cfg.frame, phone, s) \/ cfg.saved = Unsaved =>
              Shaped(s).w * Aspect(s).h <= Shaped(s).h * Aspect(s).w
<1> DEFINE a == Aspect(s)
           want == Wanted(s)
           area == MulDiv(want.w * want.h, a.h, a.w)
           h == SquareRoot(area)
<1>1. a.w \in Nat /\ a.h \in Nat /\ a.w > 0 /\ a.h > 0
  BY AspectIs DEF Positive
<1>2. want.w \in Nat /\ want.h \in Nat
  BY DEF Wanted, SizesInv, Positive, Size, Unsaved
<1>3. Shaped(s) = IF FrameActive(cfg.frame, phone, s) THEN Size(MulDiv(h, a.w, a.h), h) ELSE want
  BY DEF Shaped
<1>4. ~FrameActive(cfg.frame, phone, s) /\ cfg.saved = Unsaved => want = s /\ a = s
  BY DEF Wanted, Unsaved, Size, Aspect
<1> HIDE DEF a, want
<1>5. want.w * want.h \in Nat
  BY <1>2
<1>6. area \in Nat
  BY <1>1, <1>5, MulDivIs
<1> HIDE DEF area
<1>7. h \in Nat
  BY <1>6, SquareRootIs
<1> HIDE DEF h
<1>8. MulDiv(h, a.w, a.h) \in Nat /\ MulDiv(h, a.w, a.h) * a.h <= h * a.w
  BY <1>1, <1>7, MulDivIs
<1> HIDE DEF a
<1>9. CASE FrameActive(cfg.frame, phone, s)
  BY <1>3, <1>7, <1>8, <1>9 DEF Size, a
<1>10. CASE ~FrameActive(cfg.frame, phone, s)
  <2>1. Shaped(s) = want
    BY <1>3, <1>10
  <2>2. cfg.saved = Unsaved => s.w * s.h <= s.h * s.w
    BY DEF Positive
  <2> QED
    BY <1>2, <1>4, <1>10, <2>1, <2>2 DEF a
<1> QED
  BY <1>9, <1>10

\* The size of a window that opens.
LEMMA OpenedIs ==
  ASSUME SizesInv, DeviceInv, NEW s, Positive(s)
  PROVE  /\ Opened(s).w \in Nat /\ Opened(s).h \in Nat /\ Opened(s).w >= 160 /\ Opened(s).h >= 80
         /\ FrameActive(cfg.frame, phone, s) \/ cfg.saved = Unsaved =>
              Opened(s).w <= Limit.w /\ Opened(s).h <= Limit.h
<1> DEFINE a == Aspect(s)
           w == ScaledWidth(Shaped(s))
           n == w * a.h
           h == Round(n, a.w)
<1>1. a.w \in Nat \ {0} /\ a.h \in Nat \ {0}
  BY AspectIs DEF Positive
<1>2. Opened(s) = AtLeast(Size(w, h))
  BY DEF Opened
<1>3. Limit.w \in Nat /\ Limit.h \in Nat /\ Limit.w >= 160 /\ Limit.h >= 80
  BY LimitIs
<1>4. w \in Nat /\ (FrameActive(cfg.frame, phone, s) \/ cfg.saved = Unsaved =>
                      w <= Limit.w /\ n <= a.w * Limit.h)
  BY <1>1, <1>3, ShapedIs, ScaledWidthIs
<1> HIDE DEF a, w
<1>5. n \in Nat
  BY <1>1, <1>4
<1> HIDE DEF n
<1>6. h \in Nat
  <2>1. a.w \in Nat /\ a.w > 0
    BY <1>1
  <2> QED
    BY <1>5, <2>1, RoundIs
<1>7. FrameActive(cfg.frame, phone, s) \/ cfg.saved = Unsaved => h <= Limit.h
  BY <1>1, <1>3, <1>4, <1>5, RoundAtMost
<1> HIDE DEF h
<1> QED
  BY <1>2, <1>3, <1>4, <1>6, <1>7, AtLeastIs DEF Size

\* The size of a window that was dragged: one side is computed from the other, or is the least.
LEMMA ConstrainedIs ==
  ASSUME IInv, stream # NoStream, NEW vertical \in BOOLEAN, NEW want \in Dragged
  PROVE  LET c == Constrained(vertical, want)
             a == Aspect(stream)
         IN  /\ c.w \in Nat /\ c.h \in Nat /\ c.w >= 160 /\ c.h >= 80
             /\ \/ c.w = 160 \/ c.h = 80
                \/ c.w = Round(c.h * a.w, a.h) \/ c.h = Round(c.w * a.h, a.w)
<1> DEFINE s == AtLeast(want)
           a == Aspect(stream)
           c == Constrained(vertical, want)
<1>1. a.w \in Nat /\ a.h \in Nat /\ a.w > 0 /\ a.h > 0
  BY AspectIs DEF Positive, IInv, SizesInv
<1>2. s.w \in Nat /\ s.h \in Nat
  BY PictureAssumption, AtLeastIs
<1>3. c = AtLeast(IF vertical THEN Size(Round(s.h * a.w, a.h), s.h)
                  ELSE Size(s.w, Round(s.w * a.h, a.w)))
  BY DEF Constrained
<1> HIDE DEF s, a, c
<1>4. s.h * a.w \in Nat /\ s.w * a.h \in Nat
  BY <1>1, <1>2
<1>5. Round(s.h * a.w, a.h) \in Nat /\ Round(s.w * a.h, a.w) \in Nat
  BY <1>1, <1>4, RoundIs
<1>6. CASE vertical
  <2> DEFINE t == Size(Round(s.h * a.w, a.h), s.h)
  <2>1. c = AtLeast(t) /\ t.w = Round(s.h * a.w, a.h) /\ t.h = s.h
    BY <1>3, <1>6 DEF Size
  <2> HIDE DEF t
  <2> QED
    BY <1>2, <1>5, <2>1, AtLeastIs DEF c, a
<1>7. CASE ~vertical
  <2> DEFINE t == Size(s.w, Round(s.w * a.h, a.w))
  <2>1. c = AtLeast(t) /\ t.w = s.w /\ t.h = Round(s.w * a.h, a.w)
    BY <1>3, <1>7 DEF Size
  <2> HIDE DEF t
  <2> QED
    BY <1>2, <1>5, <2>1, AtLeastIs DEF c, a
<1> QED
  BY <1>6, <1>7

\* The initial states are in the invariant.
LEMMA InitInv == Init => IInv
<1> SUFFICES ASSUME Init PROVE IInv
  OBVIOUS
<1>1. stream = NoStream /\ phone = NotAPhone /\ hint = FALSE
      /\ cfg \in [frame : BOOLEAN, saved : {Unsaved}]
  BY DEF Init
<1>2. client.w \in Nat /\ client.h \in Nat /\ client.w >= 160 /\ client.h >= 80
  <2> DEFINE t == Size(640 - Extra.w, 360 - Extra.h)
  <2>1. t.w \in Int /\ t.h \in Int /\ client = AtLeast(t)
    BY PictureAssumption DEF Size, Init
  <2> HIDE DEF t
  <2> QED
    BY <2>1, AtLeastIs
<1>3. DeviceInv
  BY <1>1 DEF DeviceInv, NotAPhone, Profiles
<1> QED
  BY <1>1, <1>2, <1>3 DEF IInv, SizesInv, GeomInv, FrameActive

\* A layout leaves geom_ as the next one would.
LEMMA GeomKept ==
  ASSUME stream' # NoStream => LayGuest(cfg'.frame, phone', hint')
  PROVE  GeomInv'
BY DEF GeomInv, LayGuest, FrameActive

\* Every step stays in it.
LEMMA NextInv == IInv /\ [Next]_vars => IInv'
<1> SUFFICES ASSUME IInv, [Next]_vars PROVE IInv'
  OBVIOUS
<1> USE DEF IInv
<1>1. ASSUME NEW s \in Streams, Adopt(s) PROVE IInv'
  <2>1. Positive(s)
    BY PictureAssumption DEF Positive
  <2>2. /\ client'.w \in Nat /\ client'.h \in Nat /\ client'.w >= 160 /\ client'.h >= 80
    BY <1>1, <2>1, OpenedIs DEF Adopt
  <2>3. SizesInv'
    BY <1>1, <2>1, <2>2 DEF SizesInv, Adopt, Positive
  <2>4. DeviceInv'
    BY <1>1 DEF DeviceInv, Adopt
  <2>5. GeomInv'
    BY <1>1, GeomKept DEF Adopt
  <2> QED
    BY <2>3, <2>4, <2>5
<1>2. CASE Release
  <2>1. cfg' = [frame |-> cfg'.frame, saved |-> cfg'.saved] /\ cfg'.frame \in BOOLEAN
        /\ cfg'.saved \in {cfg.saved, Size(client.w + Extra.w, client.h + Extra.h)}
    BY <1>2 DEF Release, SizesInv
  <2>2. LET t == Size(client.w + Extra.w, client.h + Extra.h)
        IN  Positive(Size(t.w - Extra.w, t.h - Extra.h))
    BY PictureAssumption DEF SizesInv, Size, Positive
  <2>3. SizesInv'
    BY <1>2, <2>1, <2>2 DEF SizesInv, Release, Positive
  <2>4. DeviceInv' /\ GeomInv'
    BY <1>2, GeomKept DEF DeviceInv, Release
  <2> QED
    BY <2>3, <2>4
<1>3. ASSUME NEW dev \in {NotAPhone} \cup [wants : {TRUE}, profile : Devices], SetDevice(dev)
      PROVE  IInv'
  <2>1. dev.profile \in Profiles /\ dev.wants \in BOOLEAN
    <3>1. CASE dev = NotAPhone
      BY <3>1 DEF NotAPhone, Profiles
    <3>2. CASE dev \in [wants : {TRUE}, profile : Devices]
      BY <3>2, PictureAssumption
    <3> QED
      BY <3>1, <3>2
  <2>2. DeviceInv'
    BY <1>3, <2>1 DEF DeviceInv, SetDevice
  <2>3. SizesInv'
    BY <1>3 DEF SizesInv, SetDevice, Positive
  <2>4. GeomInv'
    BY <1>3, GeomKept DEF SetDevice
  <2> QED
    BY <2>2, <2>3, <2>4
<1>4. CASE FrameBox
  <2>1. cfg' = [frame |-> ~cfg.frame, saved |-> cfg.saved]
    BY <1>4 DEF FrameBox, SizesInv
  <2>2. SizesInv'
    BY <1>4, <2>1 DEF FrameBox, SizesInv, Positive
  <2>3. GeomInv'
    BY <1>4, <2>1, GeomKept DEF FrameBox
  <2> QED
    BY <1>4, <2>2, <2>3 DEF FrameBox, DeviceInv
<1>5. CASE Rotate
  <2>1. SizesInv' /\ DeviceInv'
    BY <1>5 DEF Rotate, SizesInv, Positive, DeviceInv
  <2>2. GeomInv'
    BY <1>5, GeomKept DEF Rotate
  <2> QED
    BY <2>1, <2>2
<1>6. ASSUME NEW vertical \in BOOLEAN, NEW want \in Dragged, Drag(vertical, want) PROVE IInv'
  <2>1. client'.w \in Nat /\ client'.h \in Nat /\ client'.w >= 160 /\ client'.h >= 80
    BY <1>6, ConstrainedIs DEF Drag
  <2>2. SizesInv' /\ DeviceInv'
    BY <1>6, <2>1 DEF Drag, SizesInv, Positive, DeviceInv
  <2>3. GeomInv'
    BY <1>6, GeomKept DEF Drag
  <2> QED
    BY <2>2, <2>3
<1>7. ASSUME NEW s \in Snapped, Snap(s) PROVE IInv'
  <2>1. client'.w \in Nat /\ client'.h \in Nat /\ client'.w >= 160 /\ client'.h >= 80
    BY <1>7, PictureAssumption DEF Snap
  <2>2. SizesInv' /\ DeviceInv'
    BY <1>7, <2>1 DEF Snap, SizesInv, Positive, DeviceInv
  <2>3. GeomInv'
    BY <1>7, GeomKept DEF Snap
  <2> QED
    BY <2>2, <2>3
<1>8. CASE UNCHANGED vars
  BY <1>8 DEF vars, SizesInv, Positive, DeviceInv, GeomInv
<1> QED
  BY <1>1, <1>2, <1>3, <1>4, <1>5, <1>6, <1>7, <1>8 DEF Next

\* Around any phone of the table, in any window and with any stream: what is drawn lies inside one
\* another, there is a screen, and the picture covers it (device_frames.cpp:192).
THEOREM PictureAlwaysOnTheScreen == Spec => []PictureIsOnTheScreen
<1>1. IInv => PictureIsOnTheScreen
  <2> SUFFICES ASSUME IInv, FrameActive(cfg.frame, phone, stream)
               PROVE  Fits(client, Layout(client, stream, phone.profile, hint))
    BY DEF PictureIsOnTheScreen, Fits
  <2> QED
    BY LayoutFits DEF IInv, SizesInv, DeviceInv, Positive, FrameActive
<1> QED
  BY InitInv, NextInv, <1>1, PTL DEF Spec

\* The body that is drawn is the largest of the shape the window is sized to.
LEMMA LayoutFills ==
  ASSUME NEW c, c.w \in Nat, c.h \in Nat, NEW s, NEW profile \in Profiles, NEW turned \in BOOLEAN
  PROVE  LET body == Layout(c, s, profile, turned).body
             f == Filling(c, FrameAspect(profile, Landscape(s, profile, turned)))
         IN  Width(body) = f.w /\ Height(body) = f.h
<1> DEFINE landscape == Landscape(s, profile, turned)
           t == Screen(profile, landscape)
           u == profile.screen.w
           W == 50 * t.w + 3 * u
           H == 50 * t.h + 3 * u
           a == FrameAspect(profile, landscape)
           body == Layout(c, s, profile, turned).body
<1>1. a.w = W /\ a.h = H
  BY DEF FrameAspect, Size
<1>2. a.w \in Nat /\ a.h \in Nat /\ a.w > 0 /\ a.h > 0
  BY LandscapeIs, FrameAspectIs DEF Positive
<1>3. Layout(c, s, profile, turned)
        = IF c.w * H <= c.h * W THEN Scaled(c, s, profile, landscape, W, H, u, c.w, W)
          ELSE Scaled(c, s, profile, landscape, W, H, u, c.h, H)
  BY DEF Layout, Bezelled, Fitted
<1> HIDE DEF a, landscape, u, W, H
<1>4. \A n, d : Scaled(c, s, profile, landscape, W, H, u, n, d).body
                  = Centred(c, Round(W * n, d), Round(H * n, d))
  BY DEF Scaled, InBody, OnScreen, Geometry
<1>5. \A w, h \in Nat : Width(Centred(c, w, h)) = w /\ Height(Centred(c, w, h)) = h
  BY DEF Centred, Rect, Width, Height
<1>6. W * c.w \in Nat /\ H * c.w \in Nat /\ W * c.h \in Nat /\ H * c.h \in Nat
  BY <1>1, <1>2
<1>7. Round(W * c.w, W) = c.w /\ Round(H * c.h, H) = c.h
  BY <1>1, <1>2, RoundWhole
<1>8. Round(H * c.w, W) \in Nat /\ Round(W * c.h, H) \in Nat
  BY <1>1, <1>2, <1>6, RoundIs
<1>9. CASE c.w * H <= c.h * W
  <2>1. body = Centred(c, c.w, Round(H * c.w, W))
    BY <1>3, <1>4, <1>7, <1>9
  <2>2. Filling(c, a) = Size(c.w, Round(H * c.w, W))
    BY <1>1, <1>9 DEF Filling
  <2> HIDE DEF body
  <2> QED
    BY <1>5, <1>8, <2>1, <2>2 DEF Size, a, landscape, body
<1>10. CASE ~(c.w * H <= c.h * W)
  <2>1. body = Centred(c, Round(W * c.h, H), c.h)
    BY <1>3, <1>4, <1>7, <1>10
  <2>2. Filling(c, a) = Size(Round(W * c.h, H), c.h)
    BY <1>1, <1>10 DEF Filling
  <2> HIDE DEF body
  <2> QED
    BY <1>5, <1>8, <2>1, <2>2 DEF Size, a, landscape, body
<1> QED
  BY <1>9, <1>10

\* A dragged window has the shape of what is in it, whatever it was sized to before
\* (video_window.cpp:378).
THEOREM DragAlwaysFills == Spec => DragFillsTheWindow
<1> DEFINE P == (\E vertical \in BOOLEAN, want \in Dragged : Drag(vertical, want)) =>
                  \/ client'.w = 160 \/ client'.h = 80
                  \/ ~FrameActive(cfg.frame, phone, stream) /\ Strip(stream)
                  \/ LET s == ShownSize(client', stream, cfg.frame, phone, hint)
                     IN  Negligible(client'.w - s.w) /\ Negligible(client'.h - s.h)
<1>1. IInv => P
  <2> SUFFICES ASSUME IInv, NEW vertical \in BOOLEAN, NEW want \in Dragged, Drag(vertical, want),
                      client'.w # 160, client'.h # 80,
                      FrameActive(cfg.frame, phone, stream) \/ ~Strip(stream)
               PROVE  LET s == ShownSize(client', stream, cfg.frame, phone, hint)
                      IN  Negligible(client'.w - s.w) /\ Negligible(client'.h - s.h)
    OBVIOUS
  <2> DEFINE c == Constrained(vertical, want)
             a == Aspect(stream)
             f == Filling(c, a)
             s == ShownSize(c, stream, cfg.frame, phone, hint)
  <2>1. client' = c /\ stream # NoStream /\ Positive(stream)
    BY DEF Drag, IInv, SizesInv
  <2>2. /\ c.w \in Nat /\ c.h \in Nat /\ c.w > 160 /\ c.h > 80
        /\ c.w = Round(c.h * a.w, a.h) \/ c.h = Round(c.w * a.h, a.w)
    BY <2>1, ConstrainedIs
  <2> HIDE DEF c
  <2>3. Positive(a) /\ a.w <= 6 * a.h /\ a.h <= 6 * a.w /\ s.w = f.w /\ s.h = f.h
    <3>1. CASE FrameActive(cfg.frame, phone, stream)
      <4> DEFINE landscape == Landscape(stream, phone.profile, hint)
      <4>1. landscape \in BOOLEAN /\ hint \in BOOLEAN /\ phone.profile \in Profiles
        BY LandscapeIs DEF IInv, DeviceInv
      <4>2. a = FrameAspect(phone.profile, landscape)
        BY <3>1, <4>1 DEF Aspect, IInv, GeomInv
      <4> HIDE DEF landscape, a
      <4>3. Positive(a) /\ a.w <= 6 * a.h /\ a.h <= 6 * a.w
        BY <4>1, <4>2, FrameAspectIs
      <4>4. s.w = f.w /\ s.h = f.h
        BY <2>2, <3>1, <4>1, <4>2, LayoutFills DEF ShownSize, Size, landscape
      <4> QED
        BY <4>3, <4>4
    <3>2. CASE ~FrameActive(cfg.frame, phone, stream)
      <4>1. a = stream
        BY <3>2 DEF Aspect
      <4> HIDE DEF a
      <4>2. Positive(a) /\ a.w <= 6 * a.h /\ a.h <= 6 * a.w
        BY <2>1, <3>2, <4>1 DEF Strip, Positive
      <4>3. s = Letterboxed(c, a)
        BY <3>2, <4>1 DEF ShownSize
      <4>4. f.w \in Nat /\ f.h \in Nat /\ f.w >= 1 /\ f.h >= 1
        <5>1. f.w \in Nat /\ c.w - f.w \in 0 .. 3 /\ f.h \in Nat /\ c.h - f.h \in 0 .. 3
          BY <2>2, <4>2, FillingFills DEF Positive
        <5> HIDE DEF f
        <5> QED
          BY <2>2, <5>1
      <4>5. s.w = f.w /\ s.h = f.h
        <5>1. CASE c.w * a.h <= c.h * a.w
          <6>1. /\ s = Size(c.w, Larger(1, Round(a.h * c.w, a.w)))
                /\ f = Size(c.w, Round(a.h * c.w, a.w))
            BY <4>3, <5>1 DEF Letterboxed, Filling
          <6> QED
            BY <4>4, <6>1 DEF Size, Larger
        <5>2. CASE ~(c.w * a.h <= c.h * a.w)
          <6>1. /\ s = Size(Larger(1, Round(a.w * c.h, a.h)), c.h)
                /\ f = Size(Round(a.w * c.h, a.h), c.h)
            BY <4>3, <5>2 DEF Letterboxed, Filling
          <6> QED
            BY <4>4, <6>1 DEF Size, Larger
        <5> QED
          BY <5>1, <5>2
      <4> QED
        BY <4>2, <4>5
    <3> QED
      BY <3>1, <3>2
  <2> HIDE DEF a
  <2>4. f.w \in Nat /\ c.w - f.w \in 0 .. 3 /\ f.h \in Nat /\ c.h - f.h \in 0 .. 3
    BY <2>2, <2>3, FillingFills DEF Positive
  <2> HIDE DEF f, s
  <2>5. Negligible(c.w - s.w) /\ Negligible(c.h - s.h)
    BY <2>2, <2>3, <2>4 DEF Negligible, Slack
  <2> QED
    BY <2>1, <2>5 DEF s
<1> QED
  BY InitInv, NextInv, <1>1, PTL DEF Spec, DragFillsTheWindow

\* A window opens inside its part of the work area, whatever was shown before
\* (video_window.cpp:218).
THEOREM AlwaysOpensInTheWorkArea == Spec => OpensInTheWorkArea
<1> DEFINE P == \A s \in Streams :
                  Adopt(s) /\ (FrameActive(cfg.frame, phone, s) \/ cfg.saved = Unsaved) =>
                    client'.w <= Limit.w /\ client'.h <= Limit.h
<1>1. IInv => P
  <2> SUFFICES ASSUME IInv, NEW s \in Streams, Adopt(s),
                      FrameActive(cfg.frame, phone, s) \/ cfg.saved = Unsaved
               PROVE  client'.w <= Limit.w /\ client'.h <= Limit.h
    OBVIOUS
  <2>1. Positive(s)
    BY PictureAssumption DEF Positive
  <2> QED
    BY <2>1, OpenedIs DEF IInv, Adopt
<1> QED
  BY InitInv, NextInv, <1>1, PTL DEF Spec, OpensInTheWorkArea
=============================================================================
