---------------------------- MODULE ImageTransform ----------------------------
(***************************************************************************)
(* Where vcamesd takes the pixels of an output picture from                *)
(* (daemon/src/image_transform.cpp): the source is turned by a multiple of *)
(* 90 degrees, mirrored, and scaled until it covers the output.            *)
(*                                                                         *)
(* Coordinates are fractions with the denominator 2 * Scale(t).over; the   *)
(* code computes them in floats.  Where a fraction lies halfway between    *)
(* two pixels the float may fall on either side.                           *)
(***************************************************************************)
EXTENDS Integers

Rotations == {0, 90, 180, 270}

(* A transform t: the source's width sw and height sh, the output's ow and *)
(* oh, rotation and mirror.  The turned source is tw by th.                *)
Turned(t) == t.rotation \in {90, 270}
TurnedWidth(t) == IF Turned(t) THEN t.sh ELSE t.sw
TurnedHeight(t) == IF Turned(t) THEN t.sw ELSE t.sh

(* Seeded fault: the source is made to fit into the output. *)
ScaleToFit(t) ==
  IF t.ow * TurnedHeight(t) <= t.oh * TurnedWidth(t)
  THEN [over |-> t.ow, under |-> TurnedWidth(t)]
  ELSE [over |-> t.oh, under |-> TurnedHeight(t)]

(* The larger of ow / tw and oh / th. *)
Scale(t) ==
  IF t.ow * TurnedHeight(t) >= t.oh * TurnedWidth(t)
  THEN [over |-> t.ow, under |-> TurnedWidth(t)]
  ELSE [over |-> t.oh, under |-> TurnedHeight(t)]

(* (o + 0.5 - output / 2) / scale + turned / 2 - 0.5, as a numerator.      *)
Centred(t, o, output, turned) ==
  (2 * o + 1 - output) * Scale(t).under + (turned - 1) * Scale(t).over

Mirrored(t, n) ==
  IF t.mirror THEN 2 * (TurnedWidth(t) - 1) * Scale(t).over - n ELSE n

(* Seeded fault: 90 and 270 degrees are swapped. *)
InvertOrientationSwapped(t, x, y) ==
  LET across(size, n) == 2 * (size - 1) * Scale(t).over - n
  IN CASE t.rotation = 270 -> [x |-> y, y |-> across(t.sh, x)]
       [] t.rotation = 180 -> [x |-> across(t.sw, x), y |-> across(t.sh, y)]
       [] t.rotation = 90 -> [x |-> across(t.sw, y), y |-> x]
       [] OTHER -> [x |-> x, y |-> y]

InvertOrientation(t, x, y) ==
  LET across(size, n) == 2 * (size - 1) * Scale(t).over - n
  IN CASE t.rotation = 90 -> [x |-> y, y |-> across(t.sh, x)]
       [] t.rotation = 180 -> [x |-> across(t.sw, x), y |-> across(t.sh, y)]
       [] t.rotation = 270 -> [x |-> across(t.sw, y), y |-> x]
       [] OTHER -> [x |-> x, y |-> y]

MapOutputToSource(t, x, y) ==
  InvertOrientation(t,
    Mirrored(t, Centred(t, x, t.ow, TurnedWidth(t))),
    Centred(t, y, t.oh, TurnedHeight(t)))

-------------------------------------------------------------------------------
(* Sampling *)

Clamp(n, low, high) == IF n < low THEN low ELSE IF n > high THEN high ELSE n
Aligned(n) == n - (n % 2)

(* lround(n / d): the nearest integer, either of the two at a tie. *)
Rounded(n, d) ==
  LET up == (2 * n + d) \div (2 * d)
  IN IF (2 * n + d) % (2 * d) = 0 THEN {up - 1, up} ELSE {up}

Denominator(t) == 2 * Scale(t).over

Luma(t, rounded) ==
  [x |-> Clamp(rounded.x, 0, t.sw - 1), y |-> Clamp(rounded.y, 0, t.sh - 1)]

(* The chroma pair, in a plane of half the width and half the height.      *)
Chroma(t, rounded) ==
  [x |-> Aligned(Clamp(rounded.x, 0, t.sw - 2)) \div 2,
   y |-> Aligned(Clamp(rounded.y, 0, t.sh - 2)) \div 2]

(* The roundings of the source of output pixel (x, y). *)
Roundings(t, x, y) ==
  LET source == MapOutputToSource(t, x, y)
  IN [x : Rounded(source.x, Denominator(t)), y : Rounded(source.y, Denominator(t))]

(* TransformNv21: a picture of the right size passes as it is if nothing   *)
(* is asked for; else each luma sample, and the pair of each 2 by 2 block, *)
(* which goes by the block's first pixel.                                  *)
Unchanged(t) == t.rotation = 0 /\ ~t.mirror /\ t.ow = t.sw /\ t.oh = t.sh

LumaSources(t, x, y) ==
  IF Unchanged(t) THEN {[x |-> x, y |-> y]}
  ELSE {Luma(t, rounded) : rounded \in Roundings(t, x, y)}

ChromaSources(t, x, y) ==
  IF Unchanged(t) THEN {[x |-> x, y |-> y]}
  ELSE {Chroma(t, rounded) : rounded \in Roundings(t, 2 * x, 2 * y)}

(* SampleChannel, for a decoded JPEG: the pixels on either side of a       *)
(* coordinate that was clamped to the picture.                             *)
Beside(t, n, size) ==
  LET low == Clamp(n, 0, (size - 1) * Denominator(t)) \div Denominator(t)
  IN {low, IF low + 1 > size - 1 THEN size - 1 ELSE low + 1}

-------------------------------------------------------------------------------
(* Reference: pictures as functions of x and y, turned a quarter at a time *)

QuarterTurn(w, h, picture) ==  \* clockwise, of a picture w by h
  [x \in 0..(h - 1) |-> [y \in 0..(w - 1) |-> picture[y][h - 1 - x]]]

Plain(w, h) == [x \in 0..(w - 1) |-> [y \in 0..(h - 1) |-> [x |-> x, y |-> y]]]

Oriented(w, h, rotation) ==
  CASE rotation = 0 -> Plain(w, h)
    [] rotation = 90 -> QuarterTurn(w, h, Plain(w, h))
    [] rotation = 180 -> QuarterTurn(h, w, QuarterTurn(w, h, Plain(w, h)))
    [] rotation = 270 ->
         QuarterTurn(w, h, QuarterTurn(h, w, QuarterTurn(w, h, Plain(w, h))))

Reference(t, half) ==
  LET picture == Oriented(t.sw \div half, t.sh \div half, t.rotation)
      width == TurnedWidth(t) \div half
  IN IF t.mirror
     THEN [x \in 0..(width - 1) |-> picture[width - 1 - x]]
     ELSE picture

Unscaled(t) == t.ow = TurnedWidth(t) /\ t.oh = TurnedHeight(t)

(* If the turned source is as large as the output, the output is the       *)
(* source turned clockwise and then mirrored, pixel by pixel, its chroma   *)
(* plane like its luma plane: alignment to even pixels loses no pair and   *)
(* doubles none in any of the eight orientations (image_transform.cpp:     *)
(* 70-88, 117-146, 536-570).                                               *)
OrientsExactly(t) ==
  Unscaled(t) =>
    /\ \A x \in 0..(t.ow - 1), y \in 0..(t.oh - 1) :
         LumaSources(t, x, y) = {Reference(t, 1)[x][y]}
    /\ \A x \in 0..((t.ow \div 2) - 1), y \in 0..((t.oh \div 2) - 1) :
         ChromaSources(t, x, y) = {Reference(t, 2)[x][y]}

(* Whatever the sizes, no output pixel lies outside the source: clamping   *)
(* moves no coordinate by more than half a pixel, so the output is covered *)
(* and no border is smeared over it (image_transform.cpp:128-146); and the *)
(* pixels a JPEG's are mixed from exist (image_transform.cpp:97-102).      *)
WithinPicture(t, n, size) ==
  /\ n + Scale(t).over >= 0 /\ n + Scale(t).over <= Denominator(t) * size
  /\ Beside(t, n, size) \subseteq 0..(size - 1)

Covers(t) ==
  \A x \in 0..(t.ow - 1), y \in 0..(t.oh - 1) :
    LET source == MapOutputToSource(t, x, y)
    IN WithinPicture(t, source.x, t.sw) /\ WithinPicture(t, source.y, t.sh)
=============================================================================
