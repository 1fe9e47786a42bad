----------------------------- MODULE PixelProofs -----------------------------
(***************************************************************************)
(* Proofs about the pixel computations, for pictures and frames of every   *)
(* size, in four parts.                                                    *)
(*                                                                         *)
(*   Planes    the offsets CheckedOffset computes in words that wrap, and  *)
(*             the coordinates MapOutputToSource computes                  *)
(*   Packing   the app's packing of a decoded picture is exact, for every  *)
(*             stride and every width of size_t: CheckedOffsetIsExact says *)
(*             what one accepted row is worth, and rows are carried to     *)
(*             samples, the even part cut out to half its size for chroma, *)
(*             and the bytes of the output to the samples they come from   *)
(*   Segments  the walk over a frame's segments finds the size in its own  *)
(*             header: where a segment starts, one round of the walk ends  *)
(*             it or leads to the start of the next                        *)
(*   Colours   from a pixel to NV21 and back in numbers, for one colour,   *)
(*             for one sample, for the bytes of a whole picture            *)
(***************************************************************************)
EXTENDS Pixels, NaturalsInduction, SequenceTheorems, WellFoundedInduction, TLAPS

-------------------------------------------------------------------------------
(* Planes: offsets *)

(* n steps fit into a room exactly if n is at most the quotient. *)
LEMMA StepsFit ==
  ASSUME NEW n \in Nat, NEW room \in Nat, NEW step \in Nat \ {0}
  PROVE  n <= room \div step <=> n * step <= room
OBVIOUS

(* A position times a stride is a natural number. *)
LEMMA ProductIsNat == ASSUME NEW a \in Nat, NEW b \in Nat PROVE a * b \in Nat
OBVIOUS

(* A word that does not wrap is the number. *)
LEMMA WordIsNumber == \A n \in 0..SizeMax : Word(n) = n
BY SizeAssumption DEF SizeAssumption, Word

(* A plane of size_t fields, its buffer not larger than memory.            *)
Planes == [data : Int, limit : 0..SizeMax, position : 0..SizeMax,
           rowStride : 0..SizeMax, pixelStride : 0..SizeMax]

(* The same check in numbers that do not wrap: the last of the samples is  *)
(* in the buffer.                                                          *)
RowFits(plane, x, y, samples) ==
  /\ plane.data # Null /\ plane.rowStride # 0 /\ plane.pixelStride # 0
  /\ samples # 0
  /\ plane.position + y * plane.rowStride + x * plane.pixelStride
       + (samples - 1) * plane.pixelStride < plane.limit

(* CheckedOffset accepts a row exactly if all of it is in the buffer, and  *)
(* its offset is then the number meant: the divisions are enough against   *)
(* every overflow, for every width of size_t, and reject nothing else      *)
(* (yuv420_converter.cpp:19-47).                                           *)
THEOREM CheckedOffsetIsExact ==
  ASSUME NEW plane \in Planes, NEW x \in Nat, NEW y \in Nat, NEW samples \in Nat
  PROVE  /\ CheckedOffset(plane, x, y, samples) <=> RowFits(plane, x, y, samples)
         /\ CheckedOffset(plane, x, y, samples) =>
              First(plane, x, y) =
                plane.position + y * plane.rowStride + x * plane.pixelStride
<1> DEFINE rs == plane.rowStride
           ps == plane.pixelStride
           row == plane.position + y * rs
           first == row + x * ps
           last == first + (samples - 1) * ps
<1> USE SizeAssumption DEF SizeAssumption
<1>1. /\ plane.position \in 0..SizeMax /\ plane.limit \in 0..SizeMax
      /\ rs \in 0..SizeMax /\ ps \in 0..SizeMax
  BY DEF Planes
<1>2. /\ y * rs \in Nat /\ x * ps \in Nat /\ row \in Nat /\ first \in Nat
      /\ samples # 0 =>
           samples - 1 \in Nat /\ (samples - 1) * ps \in Nat /\ last \in Nat
  <2>1. y * rs \in Nat /\ x * ps \in Nat BY <1>1, ProductIsNat
  <2>2. row \in Nat /\ first \in Nat BY <1>1, <2>1
  <2>3. samples # 0 => samples - 1 \in Nat /\ (samples - 1) * ps \in Nat
    BY <1>1, ProductIsNat
  <2> QED BY <2>1, <2>2, <2>3
<1>3. ASSUME CheckedOffset(plane, x, y, samples)
      PROVE  Row(plane, y) = row /\ First(plane, x, y) = first
             /\ LastSample(plane, x, y, samples) = last
             /\ RowFits(plane, x, y, samples)
  <2> HIDE DEF row, first, last
  <2>1. rs # 0 /\ ps # 0 /\ samples # 0 /\ plane.data # Null
        /\ y <= (SizeMax - plane.position) \div rs
        /\ x <= (SizeMax - Row(plane, y)) \div ps
        /\ samples - 1 <= (SizeMax - First(plane, x, y)) \div ps
        /\ LastSample(plane, x, y, samples) < plane.limit
    BY <1>3 DEF CheckedOffset
  <2>2. y * rs <= SizeMax - plane.position
    BY <1>1, <2>1, StepsFit
  <2>3. Row(plane, y) = row /\ row <= SizeMax
    BY <1>1, <1>2, <2>2, WordIsNumber DEF Row, row
  <2>4. x * ps <= SizeMax - row
    BY <1>1, <1>2, <2>1, <2>3, StepsFit, SizeMax - row \in Nat, ps \in Nat \ {0}
  <2>5. First(plane, x, y) = first /\ first <= SizeMax
    BY <1>1, <1>2, <2>3, <2>4, WordIsNumber DEF First, first
  <2>6. (samples - 1) * ps <= SizeMax - first
    BY <1>1, <1>2, <2>1, <2>5, StepsFit, samples - 1 \in Nat
  <2>7. LastSample(plane, x, y, samples) = last
    BY <1>1, <1>2, <2>1, <2>5, <2>6, WordIsNumber DEF LastSample, last
  <2> QED
    BY <2>1, <2>3, <2>5, <2>7 DEF RowFits, row, first, last
<1>4. ASSUME RowFits(plane, x, y, samples)
      PROVE  CheckedOffset(plane, x, y, samples)
  <2> HIDE DEF row, first, last
  <2>1. rs # 0 /\ ps # 0 /\ samples # 0 /\ plane.data # Null /\ last < plane.limit
    BY <1>4 DEF RowFits, row, first, last
  <2>2. first <= last /\ row <= first /\ plane.position <= row
    BY <1>1, <1>2, <2>1 DEF last, first, row
  <2>3. Row(plane, y) = row
    BY <1>1, <1>2, <2>1, <2>2, WordIsNumber DEF Row, row
  <2>4. First(plane, x, y) = first
    BY <1>1, <1>2, <2>1, <2>2, <2>3, WordIsNumber DEF First, first
  <2>5. LastSample(plane, x, y, samples) = last
    BY <1>1, <1>2, <2>1, <2>2, <2>4, WordIsNumber DEF LastSample, last
  <2>6. y * rs <= SizeMax - plane.position /\ x * ps <= SizeMax - row
        /\ (samples - 1) * ps <= SizeMax - first
    BY <1>1, <1>2, <2>1, <2>2 DEF row, first, last
  <2>7. y <= (SizeMax - plane.position) \div rs
    BY <1>1, <2>1, <2>6, StepsFit, SizeMax - plane.position \in Nat, rs \in Nat \ {0}
  <2>8. x <= (SizeMax - row) \div ps
    BY <1>1, <1>2, <2>1, <2>2, <2>6, StepsFit
  <2>9. samples - 1 <= (SizeMax - first) \div ps
    BY <1>1, <1>2, <2>1, <2>2, <2>6, StepsFit, samples - 1 \in Nat
  <2> QED
    BY <1>1, <2>1, <2>2, <2>3, <2>4, <2>5, <2>7, <2>8, <2>9, <1>2 DEF CheckedOffset
<1> QED BY <1>3, <1>4
-------------------------------------------------------------------------------
(* Planes: coordinates *)

(* The parts of a transform. *)
LEMMA ValidTransform ==
  ASSUME NEW t \in JpegTransforms
  PROVE  /\ t.sw \in Nat \ {0} /\ t.sh \in Nat \ {0}
         /\ t.ow \in Nat \ {0} /\ t.oh \in Nat \ {0}
         /\ TurnedWidth(t) \in Nat \ {0} /\ TurnedHeight(t) \in Nat \ {0}
         /\ t.rotation \in Rotations /\ t.mirror \in BOOLEAN
BY DEF JpegTransforms, TransformsFrom, EvenSizes, TurnedWidth, TurnedHeight, Turned

(* What TransformNv21 lets pass is one that a JPEG may have.               *)
LEMMA ValidIsAny == ValidTransforms \subseteq JpegTransforms
BY DEF ValidTransforms, JpegTransforms, TransformsFrom, EvenSizes

(* The scale is at least what either direction needs to cover the output.  *)
LEMMA ScaleCovers ==
  ASSUME NEW t \in JpegTransforms
  PROVE  /\ Scale(t).over \in Nat \ {0} /\ Scale(t).under \in Nat \ {0}
         /\ t.ow * Scale(t).under <= TurnedWidth(t) * Scale(t).over
         /\ t.oh * Scale(t).under <= TurnedHeight(t) * Scale(t).over
<1>1. t.ow * TurnedHeight(t) \in Nat /\ t.oh * TurnedWidth(t) \in Nat
  BY ValidTransform, ProductIsNat
<1>2. CASE t.ow * TurnedHeight(t) >= t.oh * TurnedWidth(t)
  BY <1>1, <1>2, ValidTransform DEF Scale
<1>3. CASE t.ow * TurnedHeight(t) < t.oh * TurnedWidth(t)
  BY <1>1, <1>3, ValidTransform DEF Scale
<1> QED BY <1>1, <1>2, <1>3

(* A coordinate of the turned source before clamping, as a numerator.      *)
InPicture(t, n, size) ==
  n \in Int /\ n + Scale(t).over >= 0 /\ n + Scale(t).over <= Denominator(t) * size

(* A scale that covers the output leaves no coordinate outside. *)
LEMMA CentredInPicture ==
  ASSUME NEW t \in JpegTransforms, NEW output \in Nat \ {0}, NEW turned \in Nat \ {0},
         NEW o \in 0..(output - 1),
         output * Scale(t).under <= turned * Scale(t).over
  PROVE  InPicture(t, Centred(t, o, output, turned), turned)
<1> DEFINE a == Scale(t).over
           b == Scale(t).under
<1>1. a \in Nat \ {0} /\ b \in Nat \ {0} BY ScaleCovers
<1> HIDE DEF a, b
<1>2. /\ o * b \in Nat /\ output * b \in Nat /\ turned * a \in Nat
      /\ output * b <= turned * a
  BY <1>1, ProductIsNat DEF a, b
<1>3. o * b <= output * b - b BY <1>1, <1>2
<1>4. Centred(t, o, output, turned) = 2 * (o * b) + b - output * b + turned * a - a
  BY <1>1 DEF Centred, a, b
<1>5. Denominator(t) * turned = 2 * (turned * a) BY <1>1 DEF Denominator, a
<1> QED BY <1>1, <1>2, <1>3, <1>4, <1>5 DEF InPicture, a, b

(* Seen from the other side a coordinate is as far inside. *)
LEMMA AcrossInPicture ==
  ASSUME NEW t \in JpegTransforms, NEW size \in Nat \ {0}, NEW n,
         InPicture(t, n, size)
  PROVE  InPicture(t, 2 * (size - 1) * Scale(t).over - n, size)
<1> DEFINE a == Scale(t).over
<1>1. a \in Nat \ {0} BY ScaleCovers
<1> HIDE DEF a
<1>2. size * a \in Nat BY <1>1, ProductIsNat
<1>3. Denominator(t) * size = 2 * (size * a) BY <1>1 DEF Denominator, a
<1>4. 2 * (size - 1) * a = 2 * (size * a) - 2 * a BY <1>1
<1> QED BY <1>1, <1>2, <1>3, <1>4 DEF InPicture, a

(* The pixels SampleChannel mixes exist. *)
LEMMA BesideInPicture ==
  ASSUME NEW t \in JpegTransforms, NEW size \in Nat \ {0}, NEW n \in Int
  PROVE  Beside(t, n, size) \subseteq 0..(size - 1)
<1> DEFINE d == Denominator(t)
           m == Clamp(n, 0, (size - 1) * d)
<1>1. d \in Nat \ {0} BY ScaleCovers DEF Denominator
<1> HIDE DEF d
<1>2. (size - 1) * d \in Nat BY <1>1, ProductIsNat, size - 1 \in Nat
<1>3. m \in Nat /\ m <= (size - 1) * d BY <1>2 DEF Clamp
<1> HIDE DEF m
<1>4. m \div d \in Nat BY <1>1, <1>3
<1>5. (m \div d) * d <= m BY <1>1, <1>3, <1>4, StepsFit
<1>6. m \div d <= size - 1 BY <1>1, <1>2, <1>3, <1>4, <1>5
<1> QED BY <1>4, <1>6 DEF Beside, d, m

(* No output pixel lies outside the source. *)
LEMMA SourceInPicture ==
  ASSUME NEW t \in JpegTransforms, NEW x \in 0..(t.ow - 1), NEW y \in 0..(t.oh - 1)
  PROVE  LET source == MapOutputToSource(t, x, y)
         IN InPicture(t, source.x, t.sw) /\ InPicture(t, source.y, t.sh)
<1> DEFINE w == TurnedWidth(t)
           h == TurnedHeight(t)
           cx == Centred(t, x, t.ow, w)
           cy == Centred(t, y, t.oh, h)
           mx == Mirrored(t, cx)
           source == MapOutputToSource(t, x, y)
<1>1. InPicture(t, cx, w) /\ InPicture(t, cy, h)
  BY ValidTransform, ScaleCovers, CentredInPicture
<1>2. InPicture(t, mx, w)
  BY <1>1, ValidTransform, AcrossInPicture DEF Mirrored
<1> HIDE DEF cx, cy, mx
<1>3. InPicture(t, source.x, t.sw) /\ InPicture(t, source.y, t.sh)
  <2>1. source = InvertOrientation(t, mx, cy)
    BY DEF MapOutputToSource, mx, cx, cy
  <2> HIDE DEF source
  <2>2. CASE t.rotation = 90
    BY <1>1, <1>2, <2>1, <2>2, ValidTransform, AcrossInPicture
       DEF InvertOrientation, TurnedWidth, TurnedHeight, Turned
  <2>3. CASE t.rotation = 180
    BY <1>1, <1>2, <2>1, <2>3, ValidTransform, AcrossInPicture
       DEF InvertOrientation, TurnedWidth, TurnedHeight, Turned
  <2>4. CASE t.rotation = 270
    BY <1>1, <1>2, <2>1, <2>4, ValidTransform, AcrossInPicture
       DEF InvertOrientation, TurnedWidth, TurnedHeight, Turned
  <2>5. CASE t.rotation = 0
    BY <1>1, <1>2, <2>1, <2>5
       DEF InvertOrientation, TurnedWidth, TurnedHeight, Turned
  <2> QED BY <2>2, <2>3, <2>4, <2>5, ValidTransform DEF Rotations
<1> QED BY <1>3 DEF source

(* Every pixel of the output shows a place of the source, for all sizes of *)
(* pictures, all rotations and mirrored or not.                            *)
LEMMA EveryTransformCovers ==
  ASSUME NEW t \in JpegTransforms
  PROVE  Covers(t)
<1> SUFFICES ASSUME NEW x \in 0..(t.ow - 1), NEW y \in 0..(t.oh - 1)
             PROVE  LET source == MapOutputToSource(t, x, y)
                    IN WithinPicture(t, source.x, t.sw) /\ WithinPicture(t, source.y, t.sh)
  BY DEF Covers
<1> DEFINE source == MapOutputToSource(t, x, y)
<1>1. InPicture(t, source.x, t.sw) /\ InPicture(t, source.y, t.sh)
  BY SourceInPicture
<1> HIDE DEF source
<1>2. source.x \in Int /\ source.y \in Int BY <1>1 DEF InPicture
<1>3. WithinPicture(t, source.x, t.sw) /\ WithinPicture(t, source.y, t.sh)
  BY <1>1, <1>2, ValidTransform, BesideInPicture DEF WithinPicture, InPicture
<1> QED BY <1>3 DEF source
-------------------------------------------------------------------------------
(* Planes: orientation without scaling *)

(* A whole number is rounded to itself. *)
LEMMA RoundedWhole ==
  ASSUME NEW k \in Nat, NEW d \in Nat \ {0}
  PROVE  Rounded(k * d, d) = {k}
<1> DEFINE e == 2 * d
           n == 2 * (k * d) + d
           q == n \div e
<1>1. k * d \in Nat /\ n \in Nat /\ e \in Nat \ {0} BY ProductIsNat
<1>2. n = k * e + d OBVIOUS
<1>3. k * e <= n /\ n < (k + 1) * e BY <1>1, <1>2
<1> HIDE DEF e, n
<1>4. q \in Nat BY <1>1
<1>5. k <= q BY <1>1, <1>3, StepsFit
<1>6. q < k + 1
  <2> SUFFICES ASSUME k + 1 <= q PROVE FALSE BY <1>4
  <2>1. (k + 1) * e <= n BY <1>1, StepsFit, k + 1 \in Nat
  <2> QED BY <1>1, <1>3, <2>1
<1>7. q = k BY <1>4, <1>5, <1>6
<1>8. n % e # 0
  <2> SUFFICES ASSUME n % e = 0 PROVE FALSE OBVIOUS
  <2>1. n = q * e BY <1>1, <1>4
  <2> QED BY <1>2, <1>7, <2>1
<1> QED BY <1>7, <1>8 DEF Rounded, n, e, q

(* The pixel that output pixel (x, y) shows if nothing is scaled, in a     *)
(* source w by h.                                                          *)
Across(t, x, turned) == IF t.mirror THEN turned - 1 - x ELSE x

SourcePixel(t, w, h, x, y) ==
  LET m == Across(t, x, IF Turned(t) THEN h ELSE w)
  IN CASE t.rotation = 90 -> [x |-> y, y |-> h - 1 - m]
       [] t.rotation = 180 -> [x |-> w - 1 - m, y |-> h - 1 - y]
       [] t.rotation = 270 -> [x |-> w - 1 - y, y |-> m]
       [] t.rotation = 0 -> [x |-> m, y |-> y]

(* One pixel of a picture turned by 90 degrees. *)
LEMMA QuarterTurnAt ==
  ASSUME NEW w \in Nat, NEW h \in Nat, NEW picture,
         NEW x \in 0..(h - 1), NEW y \in 0..(w - 1)
  PROVE  QuarterTurn(w, h, picture)[x][y] = picture[y][h - 1 - x]
BY DEF QuarterTurn

(* The reference shows that pixel. *)
LEMMA ReferencePixel ==
  ASSUME NEW t \in JpegTransforms, NEW half \in {1, 2},
         NEW x \in 0..((TurnedWidth(t) \div half) - 1),
         NEW y \in 0..((TurnedHeight(t) \div half) - 1)
  PROVE  Reference(t, half)[x][y] =
           SourcePixel(t, t.sw \div half, t.sh \div half, x, y)
<1> DEFINE w == t.sw \div half
           h == t.sh \div half
           tw == TurnedWidth(t) \div half
           m == Across(t, x, tw)
           picture == Oriented(w, h, t.rotation)
<1>1. w \in Nat /\ h \in Nat BY ValidTransform
<1>2. tw = IF Turned(t) THEN h ELSE w BY DEF TurnedWidth
<1>3. y \in 0..((IF Turned(t) THEN w ELSE h) - 1) BY DEF TurnedHeight
<1>4. m \in 0..(tw - 1) BY <1>1, <1>2, ValidTransform DEF Across
<1>5. Reference(t, half)[x][y] = picture[m][y]
  BY ValidTransform DEF Reference, Across
<1> HIDE DEF w, h, tw, m, picture
<1>6. picture[m][y] = SourcePixel(t, w, h, x, y)
  <2>1. CASE t.rotation = 0
    <3>1. m \in 0..(w - 1) /\ y \in 0..(h - 1) BY <1>2, <1>3, <1>4, <2>1 DEF Turned
    <3> QED BY <1>2, <2>1, <3>1 DEF picture, Oriented, Plain, SourcePixel, m, Turned
  <2>2. CASE t.rotation = 90
    <3>1. m \in 0..(h - 1) /\ y \in 0..(w - 1) BY <1>2, <1>3, <1>4, <2>2 DEF Turned
    <3>2. picture = QuarterTurn(w, h, Plain(w, h)) BY <2>2 DEF picture, Oriented
    <3>3. picture[m][y] = Plain(w, h)[y][h - 1 - m] BY <1>1, <3>1, <3>2, QuarterTurnAt
    <3>4. Plain(w, h)[y][h - 1 - m] = [x |-> y, y |-> h - 1 - m]
      BY <1>1, <3>1 DEF Plain
    <3> QED BY <1>2, <2>2, <3>3, <3>4 DEF SourcePixel, m, Turned
  <2>3. CASE t.rotation = 180
    <3>1. m \in 0..(w - 1) /\ y \in 0..(h - 1) BY <1>2, <1>3, <1>4, <2>3 DEF Turned
    <3>2. picture = QuarterTurn(h, w, QuarterTurn(w, h, Plain(w, h)))
      BY <2>3 DEF picture, Oriented
    <3>3. picture[m][y] = QuarterTurn(w, h, Plain(w, h))[y][w - 1 - m]
      BY <1>1, <3>1, <3>2, QuarterTurnAt
    <3>4. QuarterTurn(w, h, Plain(w, h))[y][w - 1 - m] = Plain(w, h)[w - 1 - m][h - 1 - y]
      BY <1>1, <3>1, QuarterTurnAt, w - 1 - m \in 0..(w - 1)
    <3>5. Plain(w, h)[w - 1 - m][h - 1 - y] = [x |-> w - 1 - m, y |-> h - 1 - y]
      BY <1>1, <3>1 DEF Plain
    <3> QED BY <1>2, <2>3, <3>3, <3>4, <3>5 DEF SourcePixel, m, Turned
  <2>4. CASE t.rotation = 270
    <3>1. m \in 0..(h - 1) /\ y \in 0..(w - 1) BY <1>2, <1>3, <1>4, <2>4 DEF Turned
    <3> DEFINE once == QuarterTurn(w, h, Plain(w, h))
               twice == QuarterTurn(h, w, once)
    <3>2. picture = QuarterTurn(w, h, twice)
      BY <2>4 DEF picture, Oriented
    <3> HIDE DEF twice, once
    <3>3. picture[m][y] = twice[y][h - 1 - m]
      BY <1>1, <3>1, <3>2, QuarterTurnAt
    <3>4. twice[y][h - 1 - m] = once[h - 1 - m][w - 1 - y]
      BY <1>1, <3>1, QuarterTurnAt, h - 1 - m \in 0..(h - 1) DEF twice
    <3>5. once[h - 1 - m][w - 1 - y] = Plain(w, h)[w - 1 - y][h - 1 - (h - 1 - m)]
      BY <1>1, <3>1, QuarterTurnAt, h - 1 - m \in 0..(h - 1), w - 1 - y \in 0..(w - 1)
         DEF once
    <3>6. Plain(w, h)[w - 1 - y][h - 1 - (h - 1 - m)] = [x |-> w - 1 - y, y |-> m]
      BY <1>1, <3>1 DEF Plain
    <3> QED BY <1>2, <2>4, <3>3, <3>4, <3>5, <3>6 DEF SourcePixel, m, Turned
  <2> QED BY <2>1, <2>2, <2>3, <2>4, ValidTransform DEF Rotations
<1> QED BY <1>5, <1>6 DEF w, h

(* Without scaling every coordinate is that of a whole pixel. *)
LEMMA UnscaledMap ==
  ASSUME NEW t \in JpegTransforms, t.ow = TurnedWidth(t), t.oh = TurnedHeight(t),
         NEW x \in 0..(t.ow - 1), NEW y \in 0..(t.oh - 1)
  PROVE  LET p == SourcePixel(t, t.sw, t.sh, x, y)
             source == MapOutputToSource(t, x, y)
         IN /\ p.x \in 0..(t.sw - 1) /\ p.y \in 0..(t.sh - 1)
            /\ source.x = p.x * Denominator(t) /\ source.y = p.y * Denominator(t)
            /\ Roundings(t, x, y) = {p}
<1> DEFINE w == TurnedWidth(t)
           h == TurnedHeight(t)
           d == Denominator(t)
           m == Across(t, x, w)
           p == SourcePixel(t, t.sw, t.sh, x, y)
           source == MapOutputToSource(t, x, y)
<1>1. w \in Nat \ {0} /\ h \in Nat \ {0} /\ t.sw \in Nat /\ t.sh \in Nat
  BY ValidTransform
<1>2. Scale(t).over = w /\ Scale(t).under = w
  BY <1>1 DEF Scale
<1>3. d \in Nat \ {0} /\ d = 2 * w BY <1>1, <1>2 DEF Denominator
<1>4. Centred(t, x, t.ow, w) = x * d
  <2>1. Centred(t, x, t.ow, w) = (2 * x + 1 - w) * w + (w - 1) * w
    BY <1>2 DEF Centred
  <2> QED BY <1>1, <1>3, <2>1
<1>5. Centred(t, y, t.oh, h) = y * d
  <2>1. Centred(t, y, t.oh, h) = (2 * y + 1 - h) * w + (h - 1) * w
    BY <1>2 DEF Centred
  <2> QED BY <1>1, <1>3, <2>1
<1>6. \A size \in Nat, n \in Nat :
        2 * (size - 1) * Scale(t).over - n * d = (size - 1 - n) * d
  BY <1>1, <1>2, <1>3
<1>7. Mirrored(t, x * d) = m * d
  BY <1>1, <1>6, ValidTransform DEF Mirrored, Across
<1>8. m \in 0..(w - 1) /\ y \in 0..(h - 1) BY <1>1, ValidTransform DEF Across
<1> HIDE DEF d, m
<1>9. source = InvertOrientation(t, m * d, y * d)
  BY <1>4, <1>5, <1>7 DEF MapOutputToSource
<1>10. /\ p.x \in 0..(t.sw - 1) /\ p.y \in 0..(t.sh - 1)
       /\ p = [x |-> p.x, y |-> p.y]
       /\ source.x = p.x * d /\ source.y = p.y * d
  <2> HIDE DEF source
  <2>1. CASE t.rotation = 0
    <3>1. p = [x |-> m, y |-> y] BY <2>1 DEF p, SourcePixel, m, TurnedWidth, Turned
    <3>2. source = [x |-> m * d, y |-> y * d] BY <1>9, <2>1 DEF InvertOrientation
    <3> QED BY <1>8, <2>1, <3>1, <3>2 DEF TurnedWidth, TurnedHeight, Turned
  <2>2. CASE t.rotation = 90
    <3>1. p = [x |-> y, y |-> t.sh - 1 - m]
      BY <2>2 DEF p, SourcePixel, m, TurnedWidth, Turned
    <3>2. source = [x |-> y * d, y |-> 2 * (t.sh - 1) * Scale(t).over - m * d]
      BY <1>9, <2>2 DEF InvertOrientation
    <3> QED BY <1>1, <1>6, <1>8, <2>2, <3>1, <3>2 DEF TurnedWidth, TurnedHeight, Turned
  <2>3. CASE t.rotation = 180
    <3>1. p = [x |-> t.sw - 1 - m, y |-> t.sh - 1 - y]
      BY <2>3 DEF p, SourcePixel, m, TurnedWidth, Turned
    <3>2. source = [x |-> 2 * (t.sw - 1) * Scale(t).over - m * d,
                    y |-> 2 * (t.sh - 1) * Scale(t).over - y * d]
      BY <1>9, <2>3 DEF InvertOrientation
    <3> QED BY <1>1, <1>6, <1>8, <2>3, <3>1, <3>2 DEF TurnedWidth, TurnedHeight, Turned
  <2>4. CASE t.rotation = 270
    <3>1. p = [x |-> t.sw - 1 - y, y |-> m]
      BY <2>4 DEF p, SourcePixel, m, TurnedWidth, Turned
    <3>2. source = [x |-> 2 * (t.sw - 1) * Scale(t).over - y * d, y |-> m * d]
      BY <1>9, <2>4 DEF InvertOrientation
    <3> QED BY <1>1, <1>6, <1>8, <2>4, <3>1, <3>2 DEF TurnedWidth, TurnedHeight, Turned
  <2> QED BY <2>1, <2>2, <2>3, <2>4, ValidTransform DEF Rotations
<1> HIDE DEF p, source
<1>11. Rounded(source.x, d) = {p.x} /\ Rounded(source.y, d) = {p.y}
  BY <1>3, <1>10, RoundedWhole
<1>12. Roundings(t, x, y) = {[x |-> p.x, y |-> p.y]}
  <2>1. Roundings(t, x, y) = [x : Rounded(source.x, d), y : Rounded(source.y, d)]
    BY DEF Roundings, source, d
  <2>2. Roundings(t, x, y) = [x : {p.x}, y : {p.y}] BY <1>11, <2>1
  <2>3. \A r : r \in [x : {p.x}, y : {p.y}] <=> r = [x |-> p.x, y |-> p.y] OBVIOUS
  <2> QED BY <2>2, <2>3
<1> QED BY <1>10, <1>12 DEF p, source, d

(* Every unscaled transform shows the reference, for all sizes, rotations  *)
(* and mirrored or not.                                                    *)
LEMMA EveryTransformOrients ==
  ASSUME NEW t \in ValidTransforms
  PROVE  OrientsExactly(t)
<1>0. t \in JpegTransforms
  BY ValidIsAny
<1> USE <1>0
<1> SUFFICES ASSUME t.ow = TurnedWidth(t), t.oh = TurnedHeight(t)
             PROVE  /\ \A x \in 0..(t.ow - 1), y \in 0..(t.oh - 1) :
                         LumaSources(t, x, y) = {Reference(t, 1)[x][y]}
                    /\ \A x \in 0..((t.ow \div 2) - 1), y \in 0..((t.oh \div 2) - 1) :
                         ChromaSources(t, x, y) = {Reference(t, 2)[x][y]}
  BY DEF OrientsExactly, Unscaled
<1>1. ASSUME NEW x \in 0..(t.ow - 1), NEW y \in 0..(t.oh - 1)
      PROVE  LumaSources(t, x, y) = {Reference(t, 1)[x][y]}
  <2> DEFINE p == SourcePixel(t, t.sw, t.sh, x, y)
  <2>1. t.sw \div 1 = t.sw /\ t.sh \div 1 = t.sh /\ t.sw \in Nat /\ t.sh \in Nat
        /\ TurnedWidth(t) \div 1 = t.ow /\ TurnedHeight(t) \div 1 = t.oh
    BY ValidTransform
  <2>2. Reference(t, 1)[x][y] = p
    <3>1. Reference(t, 1)[x][y] = SourcePixel(t, t.sw \div 1, t.sh \div 1, x, y)
      BY <2>1, ReferencePixel
    <3> QED BY <2>1, <3>1
  <2>3. CASE Unchanged(t)
    <3>1. p = [x |-> x, y |-> y] BY <2>3 DEF Unchanged, p, SourcePixel, Across
    <3> QED BY <2>2, <2>3, <3>1 DEF LumaSources
  <2>4. CASE ~Unchanged(t)
    <3>1. p.x \in 0..(t.sw - 1) /\ p.y \in 0..(t.sh - 1) /\ Roundings(t, x, y) = {p}
      BY UnscaledMap
    <3>2. p = [x |-> p.x, y |-> p.y]
      BY ValidTransform DEF p, SourcePixel, Rotations
    <3>3. Luma(t, p) = p
      BY <2>1, <3>1, <3>2 DEF Luma, Clamp
    <3> QED BY <2>2, <2>4, <3>1, <3>3 DEF LumaSources
  <2> QED BY <2>3, <2>4
<1>2. ASSUME NEW x \in 0..((t.ow \div 2) - 1), NEW y \in 0..((t.oh \div 2) - 1)
      PROVE  ChromaSources(t, x, y) = {Reference(t, 2)[x][y]}
  <2> DEFINE w == t.sw \div 2
             h == t.sh \div 2
             p == SourcePixel(t, t.sw, t.sh, 2 * x, 2 * y)
             c == SourcePixel(t, w, h, x, y)
  <2>1. /\ w \in Nat \ {0} /\ h \in Nat \ {0} /\ t.sw = 2 * w /\ t.sh = 2 * h
        /\ x \in Nat /\ y \in Nat
    BY ValidTransform DEF ValidTransforms, TransformsFrom, EvenSizes, Even
  <2>2. Reference(t, 2)[x][y] = c
    BY ReferencePixel
  <2>3. 2 * x \in 0..(t.ow - 1) /\ 2 * y \in 0..(t.oh - 1)
    BY ValidTransform
  <2>4. x < (IF Turned(t) THEN h ELSE w) /\ y < (IF Turned(t) THEN w ELSE h)
    BY <2>1 DEF TurnedWidth, TurnedHeight
  <2>5. CASE Unchanged(t)
    <3>1. c = [x |-> x, y |-> y] BY <2>5 DEF Unchanged, c, SourcePixel, Across
    <3> QED BY <2>2, <2>5, <3>1 DEF ChromaSources
  <2>6. CASE ~Unchanged(t)
    <3>1. p.x \in 0..(t.sw - 1) /\ p.y \in 0..(t.sh - 1)
          /\ Roundings(t, 2 * x, 2 * y) = {p}
      BY <2>3, UnscaledMap
    <3> HIDE DEF w, h
    <3>2. c = [x |-> c.x, y |-> c.y] /\ c.x \in Nat /\ c.y \in Nat
          /\ c.x < w /\ c.y < h
          /\ p.x \in {2 * c.x, 2 * c.x + 1} /\ p.y \in {2 * c.y, 2 * c.y + 1}
      <4>1. CASE t.rotation = 0
        BY <2>1, <2>4, <4>1, ValidTransform DEF p, c, SourcePixel, Across, Turned
      <4>2. CASE t.rotation = 90
        BY <2>1, <2>4, <4>2, ValidTransform DEF p, c, SourcePixel, Across, Turned
      <4>3. CASE t.rotation = 180
        BY <2>1, <2>4, <4>3, ValidTransform DEF p, c, SourcePixel, Across, Turned
      <4>4. CASE t.rotation = 270
        BY <2>1, <2>4, <4>4, ValidTransform DEF p, c, SourcePixel, Across, Turned
      <4> QED BY <4>1, <4>2, <4>3, <4>4, ValidTransform DEF Rotations
    <3> HIDE DEF p, c
    <3>3. Aligned(Clamp(p.x, 0, t.sw - 2)) \div 2 = c.x
      BY <2>1, <3>2 DEF Aligned, Clamp
    <3>4. Aligned(Clamp(p.y, 0, t.sh - 2)) \div 2 = c.y
      BY <2>1, <3>2 DEF Aligned, Clamp
    <3>5. Chroma(t, p) = c BY <3>2, <3>3, <3>4 DEF Chroma
    <3> QED BY <2>2, <2>6, <3>1, <3>5 DEF ChromaSources
  <2> QED BY <2>5, <2>6
<1> QED BY <1>1, <1>2

-------------------------------------------------------------------------------
(* Planes: the properties *)

(* What is transformed is a transform the code lets pass.                  *)
Working == transform = Nothing \/ transform \in Transforms

(* Only transforms of the constant set are made. *)
LEMMA AlwaysWorking == Spec => []Working
<1>1. Init => Working BY DEF Init, Working
<1>2. Working /\ [Next]_vars => Working'
  BY DEF Working, Next, Convert, Converted, Transform, Transformed, Measure, Recolour,
         Written, vars
<1> QED BY <1>1, <1>2, PTL DEF Spec

(* Turning and mirroring is exact for pictures of all sizes, both planes.  *)
THEOREM OrientationHolds == Spec => []OrientationIsExact
<1>1. Working => OrientationIsExact
  BY EveryTransformOrients, TransformsAssumption
     DEF Working, OrientationIsExact, TransformsAssumption
<1> QED BY <1>1, AlwaysWorking, PTL

(* A scaled picture covers the output, for all sizes of both. *)
THEOREM CoverHolds == Spec => []OutputIsCovered
<1>1. Working => OutputIsCovered
  BY EveryTransformCovers, ValidIsAny, TransformsAssumption
     DEF Working, OutputIsCovered, TransformsAssumption
<1> QED BY <1>1, AlwaysWorking, PTL

(* Both halves of what TransformNv21 owes its caller, for all sizes.       *)
THEOREM TransformHolds == Spec => []TransformIsExact
<1>1. OrientationIsExact /\ OutputIsCovered => TransformIsExact
  BY DEF TransformIsExact
<1> QED BY <1>1, OrientationHolds, CoverHolds, PTL

-------------------------------------------------------------------------------
(* Packing: rows and samples *)

(* Of two counts of steps the smaller one reaches less far. *)
LEMMA StepsOrdered ==
  ASSUME NEW a \in Nat, NEW b \in Nat, NEW step \in Nat, a <= b
  PROVE  a * step <= b * step
OBVIOUS

(* Steps taken one after the other add up.                                 *)
LEMMA StepsAdd ==
  ASSUME NEW a \in Nat, NEW b \in Nat, NEW step \in Nat
  PROVE  (a + b) * step = a * step + b * step
OBVIOUS

(* The plane native code sees of a buffer has fields of size_t. *)
LEMMA PlaneIsPlane ==
  ASSUME NEW buffer \in Buffer
  PROVE  Plane(buffer) \in Planes
BY SizeAssumption DEF SizeAssumption, Buffer, Plane, Planes, Null

(* A row of samples is accepted exactly if each of them is in the buffer,  *)
(* and is then read from where the image has it.                           *)
LEMMA RowIsReadable ==
  ASSUME NEW buffer \in Buffer, NEW x \in Nat, NEW y \in Nat, NEW samples \in Nat \ {0}
  PROVE  /\ CheckedOffset(Plane(buffer), x, y, samples) <=>
              \A k \in 0..(samples - 1) : Readable(buffer, x + k, y)
         /\ CheckedOffset(Plane(buffer), x, y, samples) =>
              /\ Plane(buffer).data = buffer.address
              /\ Plane(buffer).limit = buffer.limit
              /\ Plane(buffer).pixelStride = buffer.pixelStride
              /\ First(Plane(buffer), x, y) \in Nat
              /\ buffer.pixelStride \in Nat /\ buffer.limit \in Nat
              /\ \A k \in 0..(samples - 1) :
                   /\ First(Plane(buffer), x, y) + k * buffer.pixelStride
                        = SampleAt(buffer, x + k, y)
                   /\ SampleAt(buffer, x + k, y) < buffer.limit
<1> DEFINE p == Plane(buffer)
           rs == buffer.rowStride
           ps == buffer.pixelStride
           first == buffer.position + y * rs + x * ps
<1>1. /\ buffer.address \in Nat /\ buffer.capacity \in Int /\ buffer.limit \in Int
      /\ buffer.position \in Int /\ rs \in Int /\ ps \in Int
  BY DEF Buffer
<1>2. p \in Planes
  BY PlaneIsPlane
<1>3. /\ CheckedOffset(p, x, y, samples) <=> RowFits(p, x, y, samples)
      /\ CheckedOffset(p, x, y, samples) =>
           First(p, x, y) = p.position + y * p.rowStride + x * p.pixelStride
  BY <1>2, CheckedOffsetIsExact
<1>4. /\ p.position \in Nat /\ p.rowStride \in Nat /\ p.pixelStride \in Nat /\ p.limit \in Nat
      /\ y * p.rowStride \in Nat /\ x * p.pixelStride \in Nat
      /\ (samples - 1) * p.pixelStride \in Nat
  BY <1>2, ProductIsNat, samples - 1 \in Nat, SizeAssumption DEF Planes, SizeAssumption
<1>5. ASSUME rs \in Nat, ps \in Nat, NEW k \in 0..(samples - 1)
      PROVE  /\ y * rs \in Nat /\ x * ps \in Nat /\ k * ps \in Nat
             /\ SampleAt(buffer, x + k, y) = first + k * ps
             /\ SampleAt(buffer, x + k, y) <= first + (samples - 1) * ps
  <2>1. k \in Nat /\ samples - 1 \in Nat /\ k <= samples - 1
    OBVIOUS
  <2>2. y * rs \in Nat /\ x * ps \in Nat /\ k * ps \in Nat /\ (samples - 1) * ps \in Nat
    BY <1>5, <2>1, ProductIsNat
  <2>3. (x + k) * ps = x * ps + k * ps
    BY <1>5, <2>1, StepsAdd
  <2>4. k * ps <= (samples - 1) * ps
    BY <1>5, <2>1, StepsOrdered
  <2> QED
    BY <1>1, <2>2, <2>3, <2>4 DEF SampleAt
<1>6. ASSUME RowFits(p, x, y, samples)
      PROVE  /\ p.data = buffer.address /\ p.limit = buffer.limit /\ buffer.limit \in Nat
             /\ p.position = buffer.position /\ buffer.position \in Nat
             /\ p.rowStride = rs /\ p.pixelStride = ps /\ rs \in Nat \ {0} /\ ps \in Nat \ {0}
             /\ buffer.limit <= buffer.capacity
             /\ first + (samples - 1) * ps < buffer.limit
  <2>1. /\ p.data # Null /\ p.rowStride # 0 /\ p.pixelStride # 0
        /\ p.position + y * p.rowStride + x * p.pixelStride
             + (samples - 1) * p.pixelStride < p.limit
    BY <1>6 DEF RowFits
  <2>2. p.position < p.limit
    BY <1>4, <2>1
  <2>3. /\ p.rowStride = rs /\ p.pixelStride = ps /\ rs > 0 /\ ps > 0
    BY <1>1, <2>1 DEF Plane
  <2>4. p.limit = buffer.limit /\ buffer.limit > 0
    BY <1>1, <1>4, <2>2 DEF Plane
  <2>5. p.position = buffer.position /\ buffer.position >= 0
    BY <1>1, <2>2, <2>4 DEF Plane
  <2>6. p.data = buffer.address /\ buffer.limit <= buffer.capacity
    BY <1>1, <2>1, <2>4 DEF Plane
  <2> QED
    BY <1>1, <2>1, <2>3, <2>4, <2>5, <2>6
<1>7. ASSUME \A k \in 0..(samples - 1) : Readable(buffer, x + k, y)
      PROVE  RowFits(p, x, y, samples)
  <2>1. samples - 1 \in 0..(samples - 1) /\ samples - 1 \in Nat
    OBVIOUS
  <2>2. Readable(buffer, x + (samples - 1), y)
    BY <1>7, <2>1
  <2>3. /\ buffer.position >= 0 /\ rs > 0 /\ ps > 0 /\ buffer.limit <= buffer.capacity
        /\ SampleAt(buffer, x + (samples - 1), y) < buffer.limit
    BY <2>2 DEF Readable
  <2>4. rs \in Nat /\ ps \in Nat /\ buffer.position \in Nat
    BY <1>1, <2>3
  <2>5. /\ y * rs \in Nat /\ x * ps \in Nat /\ (samples - 1) * ps \in Nat
        /\ first + (samples - 1) * ps < buffer.limit
    BY <1>5, <2>1, <2>3, <2>4
  <2>6. buffer.limit > 0
    BY <1>1, <2>4, <2>5
  <2>7. /\ p.limit = buffer.limit /\ p.position = buffer.position /\ p.rowStride = rs
        /\ p.pixelStride = ps /\ p.data = buffer.address
    BY <1>1, <2>3, <2>6 DEF Plane
  <2> QED
    BY <1>1, <2>3, <2>5, <2>7 DEF RowFits, Null
<1>8. ASSUME RowFits(p, x, y, samples), NEW k \in 0..(samples - 1)
      PROVE  /\ Readable(buffer, x + k, y)
             /\ first + k * ps = SampleAt(buffer, x + k, y)
             /\ SampleAt(buffer, x + k, y) < buffer.limit
  <2> HIDE DEF first, rs, ps, p
  <2>1. /\ rs \in Nat \ {0} /\ ps \in Nat \ {0} /\ buffer.position \in Nat
        /\ buffer.limit <= buffer.capacity /\ buffer.limit \in Nat
        /\ first + (samples - 1) * ps < buffer.limit
    BY <1>6, <1>8
  <2>2. /\ SampleAt(buffer, x + k, y) = first + k * ps
        /\ SampleAt(buffer, x + k, y) <= first + (samples - 1) * ps
        /\ y * rs \in Nat /\ x * ps \in Nat /\ k * ps \in Nat
    BY <1>5, <2>1
  <2>3. first \in Nat /\ (samples - 1) * ps \in Nat
    BY <2>1, <2>2, ProductIsNat, samples - 1 \in Nat DEF first
  <2>4. SampleAt(buffer, x + k, y) < buffer.limit
    BY <2>1, <2>2, <2>3
  <2> QED
    BY <2>1, <2>2, <2>4 DEF Readable, rs, ps
<1>9. ASSUME RowFits(p, x, y, samples)
      PROVE  First(p, x, y) = first /\ first \in Nat
  BY <1>3, <1>4, <1>6, <1>9
<1> QED
  BY <1>3, <1>6, <1>7, <1>8, <1>9

-------------------------------------------------------------------------------
(* Packing: the part cut out *)

(* CheckedOffset accepts a row of samples exactly if each is readable.     *)
LEMMA RowIsThere ==
  \A buffer \in Buffer, x, y \in Nat, samples \in Nat \ {0} :
    CheckedOffset(Plane(buffer), x, y, samples) <=>
      \A k \in 0..(samples - 1) : Readable(buffer, x + k, y)
BY RowIsReadable

(* A sample of an accepted row, where it is read from. *)
LEMMA SampleIsRead ==
  \A buffer \in Buffer, x, y \in Nat, samples \in Nat \ {0} :
    CheckedOffset(Plane(buffer), x, y, samples) =>
      /\ Plane(buffer).data = buffer.address /\ Plane(buffer).limit = buffer.limit
      /\ Plane(buffer).pixelStride = buffer.pixelStride
      /\ First(Plane(buffer), x, y) \in Nat /\ buffer.pixelStride \in Nat /\ buffer.limit \in Nat
      /\ \A k \in 0..(samples - 1) :
           /\ First(Plane(buffer), x, y) + k * buffer.pixelStride = SampleAt(buffer, x + k, y)
           /\ SampleAt(buffer, x + k, y) < buffer.limit
BY RowIsReadable

(* A part with samples in both directions, as convert cuts it out. *)
Part(cut) ==
  /\ cut.left \in Nat /\ cut.top \in Nat /\ cut.width \in Nat \ {0} /\ cut.height \in Nat \ {0}
  /\ Even(cut.left) /\ Even(cut.top) /\ Even(cut.width) /\ Even(cut.height)

(* The part cut out, if it is not empty, has even sides.                   *)
LEMMA CutIsEven ==
  ASSUME NEW picture \in ValidImages
  PROVE  LET cut == Cut(picture.crop)
         IN /\ cut.width \in Int /\ cut.height \in Int
            /\ cut.width > 0 /\ cut.height > 0 => Part(cut)
<1>1. /\ picture.crop.left \in Nat /\ picture.crop.top \in Nat
      /\ picture.crop.right \in Int /\ picture.crop.bottom \in Int
  BY DEF ValidImages
<1>2. \A n \in Int : EvenDown(n) \in Int /\ Even(EvenDown(n)) /\ (n >= 0 => EvenDown(n) >= 0)
  BY DEF EvenDown, Even
<1> QED
  BY <1>1, <1>2 DEF Cut, Part

(* Half of an even stretch of positions. *)
LEMMA HalfStretch ==
  ASSUME NEW from \in Nat, NEW n \in Nat \ {0}, Even(from), Even(n)
  PROVE  /\ from \div 2 \in Nat /\ n \div 2 \in Nat \ {0}
         /\ \A x \in from..(from + n - 1) :
              \E k \in 0..((n \div 2) - 1) : x \div 2 = (from \div 2) + k
         /\ \A k \in 0..((n \div 2) - 1) :
              \E x \in from..(from + n - 1) : x \div 2 = (from \div 2) + k
<1>1. /\ from \div 2 \in Nat /\ n \div 2 \in Nat \ {0}
      /\ from = 2 * (from \div 2) /\ n = 2 * (n \div 2)
  BY DEF Even
<1>2. ASSUME NEW x \in from..(from + n - 1)
      PROVE  \E k \in 0..((n \div 2) - 1) : x \div 2 = (from \div 2) + k
  <2>1. (x \div 2) - (from \div 2) \in 0..((n \div 2) - 1)
    BY <1>1
  <2> QED
    BY <1>1, <2>1
<1>3. ASSUME NEW k \in 0..((n \div 2) - 1)
      PROVE  \E x \in from..(from + n - 1) : x \div 2 = (from \div 2) + k
  <2>1. from + 2 * k \in from..(from + n - 1) /\ (from + 2 * k) \div 2 = (from \div 2) + k
    BY <1>1
  <2> QED
    BY <2>1
<1> QED
  BY <1>1, <1>2, <1>3

(* All rows of a plane that are needed were accepted.                      *)
LumaRows(cut, plane) ==
  \A row \in 0..(cut.height - 1) : CheckedOffset(plane, cut.left, cut.top + row, cut.width)

ChromaRows(cut, plane) ==
  \A row \in 0..((cut.height \div 2) - 1) :
    CheckedOffset(plane, cut.left \div 2, (cut.top \div 2) + row, cut.width \div 2)

(* All rows of luma are accepted exactly if all samples are readable. *)
LEMMA LumaIsThere ==
  ASSUME NEW buffer \in Buffer, NEW cut, Part(cut)
  PROVE  LumaRows(cut, Plane(buffer)) <=>
           \A x \in cut.left..(cut.left + cut.width - 1),
              y \in cut.top..(cut.top + cut.height - 1) : Readable(buffer, x, y)
<1>1. /\ cut.left \in Nat /\ cut.top \in Nat /\ cut.width \in Nat \ {0}
      /\ cut.height \in Nat \ {0}
  BY DEF Part
<1>2. ASSUME NEW row \in Nat
      PROVE  CheckedOffset(Plane(buffer), cut.left, cut.top + row, cut.width) <=>
               \A k \in 0..(cut.width - 1) : Readable(buffer, cut.left + k, cut.top + row)
  <2>1. cut.top + row \in Nat
    BY <1>1
  <2> QED
    BY <1>1, <2>1, RowIsThere
<1>3. ASSUME LumaRows(cut, Plane(buffer)),
             NEW x \in cut.left..(cut.left + cut.width - 1),
             NEW y \in cut.top..(cut.top + cut.height - 1)
      PROVE  Readable(buffer, x, y)
  <2>1. /\ x - cut.left \in 0..(cut.width - 1) /\ cut.left + (x - cut.left) = x
        /\ y - cut.top \in 0..(cut.height - 1) /\ cut.top + (y - cut.top) = y
        /\ y - cut.top \in Nat
    BY <1>1
  <2>2. CheckedOffset(Plane(buffer), cut.left, cut.top + (y - cut.top), cut.width)
    BY <1>3, <2>1 DEF LumaRows
  <2>3. Readable(buffer, cut.left + (x - cut.left), cut.top + (y - cut.top))
    BY <1>2, <2>1, <2>2
  <2> QED
    BY <2>1, <2>3
<1>4. ASSUME \A x \in cut.left..(cut.left + cut.width - 1),
                y \in cut.top..(cut.top + cut.height - 1) : Readable(buffer, x, y),
             NEW row \in 0..(cut.height - 1)
      PROVE  CheckedOffset(Plane(buffer), cut.left, cut.top + row, cut.width)
  <2>1. \A k \in 0..(cut.width - 1) :
          /\ cut.left + k \in cut.left..(cut.left + cut.width - 1)
          /\ cut.top + row \in cut.top..(cut.top + cut.height - 1)
    BY <1>1
  <2> QED
    BY <1>2, <1>4, <2>1
<1> QED
  BY <1>3, <1>4 DEF LumaRows

(* The same of chroma, at half the resolution. *)
LEMMA ChromaIsThere ==
  ASSUME NEW buffer \in Buffer, NEW cut, Part(cut)
  PROVE  ChromaRows(cut, Plane(buffer)) <=>
           \A x \in cut.left..(cut.left + cut.width - 1),
              y \in cut.top..(cut.top + cut.height - 1) :
                Readable(buffer, x \div 2, y \div 2)
<1> DEFINE left == cut.left \div 2
           top == cut.top \div 2
           width == cut.width \div 2
           height == cut.height \div 2
<1>1. /\ left \in Nat /\ width \in Nat \ {0}
      /\ \A x \in cut.left..(cut.left + cut.width - 1) :
           \E k \in 0..(width - 1) : x \div 2 = left + k
      /\ \A k \in 0..(width - 1) :
           \E x \in cut.left..(cut.left + cut.width - 1) : x \div 2 = left + k
  BY HalfStretch DEF Part
<1>2. /\ top \in Nat /\ height \in Nat \ {0}
      /\ \A y \in cut.top..(cut.top + cut.height - 1) :
           \E row \in 0..(height - 1) : y \div 2 = top + row
      /\ \A row \in 0..(height - 1) :
           \E y \in cut.top..(cut.top + cut.height - 1) : y \div 2 = top + row
  BY HalfStretch DEF Part
<1>3. ChromaRows(cut, Plane(buffer)) <=>
        \A row \in 0..(height - 1) : CheckedOffset(Plane(buffer), left, top + row, width)
  BY DEF ChromaRows
<1> HIDE DEF left, top, width, height
<1>4. ASSUME NEW row \in 0..(height - 1)
      PROVE  CheckedOffset(Plane(buffer), left, top + row, width) <=>
               \A k \in 0..(width - 1) : Readable(buffer, left + k, top + row)
  <2>1. top + row \in Nat
    BY <1>2
  <2> QED
    BY <1>1, <2>1, RowIsThere
<1>5. ASSUME ChromaRows(cut, Plane(buffer)),
             NEW x \in cut.left..(cut.left + cut.width - 1),
             NEW y \in cut.top..(cut.top + cut.height - 1)
      PROVE  Readable(buffer, x \div 2, y \div 2)
  <2>1. PICK k \in 0..(width - 1) : x \div 2 = left + k
    BY <1>1
  <2>2. PICK row \in 0..(height - 1) : y \div 2 = top + row
    BY <1>2
  <2>3. Readable(buffer, left + k, top + row)
    BY <1>3, <1>4, <1>5
  <2> QED BY <2>1, <2>2, <2>3
<1>6. ASSUME \A x \in cut.left..(cut.left + cut.width - 1),
                y \in cut.top..(cut.top + cut.height - 1) : Readable(buffer, x \div 2, y \div 2),
             NEW row \in 0..(height - 1)
      PROVE  CheckedOffset(Plane(buffer), left, top + row, width)
  <2>1. PICK y \in cut.top..(cut.top + cut.height - 1) : y \div 2 = top + row
    BY <1>2
  <2>2. ASSUME NEW k \in 0..(width - 1) PROVE Readable(buffer, left + k, top + row)
    <3>1. PICK x \in cut.left..(cut.left + cut.width - 1) : x \div 2 = left + k
      BY <1>1
    <3> QED BY <1>6, <2>1, <3>1
  <2> QED BY <1>4, <2>2
<1> QED
  BY <1>3, <1>5, <1>6

(* nativeConvert accepts a picture exactly if it is all there. *)
LEMMA ConvertsIfThere ==
  ASSUME NEW picture \in ValidImages
  PROVE  LET cut == Cut(picture.crop)
         IN Converts(picture) <=>
              /\ cut.width > 0 /\ cut.height > 0
              /\ cut.width * cut.height <= SizeMax \div 3
              /\ (cut.width * cut.height * 3) \div 2 <= ArrayMax
              /\ LumaRows(cut, Plane(picture.y))
              /\ ChromaRows(cut, Plane(picture.u)) /\ ChromaRows(cut, Plane(picture.v))
<1> DEFINE cut == Cut(picture.crop)
           pixels == cut.width * cut.height
<1>1. cut.width \in Int /\ cut.height \in Int
  BY CutIsEven
<1>2. SUFFICES ASSUME cut.width > 0, cut.height > 0, (pixels * 3) \div 2 <= ArrayMax
               PROVE  NativeAccepted(cut, picture.y, picture.u, picture.v, (pixels * 3) \div 2) <=>
                        /\ pixels <= SizeMax \div 3
                        /\ LumaRows(cut, Plane(picture.y))
                        /\ ChromaRows(cut, Plane(picture.u)) /\ ChromaRows(cut, Plane(picture.v))
  BY <1>1 DEF Converts
<1>3. Part(cut)
  BY <1>2, CutIsEven
<1> HIDE DEF cut
<1>4. /\ cut.left \in Nat /\ cut.top \in Nat /\ cut.width \in Nat \ {0}
      /\ cut.height \in Nat \ {0} /\ ShapeIsRight(cut)
  BY <1>3 DEF Part, ShapeIsRight
<1>5. pixels \in Nat
  BY <1>4, ProductIsNat
<1>6. SizeIsRight(cut, (pixels * 3) \div 2) <=> pixels <= SizeMax \div 3
  <2>1. pixels \div cut.width = cut.height
    BY <1>4 DEF pixels
  <2>2. pixels <= SizeMax => Pixels(cut) = pixels
    BY <1>5, WordIsNumber DEF Pixels
  <2>3. SizeMax \div 3 <= SizeMax
    BY SizeAssumption DEF SizeAssumption
  <2>4. ASSUME pixels > SizeMax, Pixels(cut) \div cut.width = cut.height PROVE FALSE
    <3>1. Pixels(cut) \in Nat /\ Pixels(cut) < pixels
      BY <1>5, <2>4, SizeAssumption DEF Pixels, Word, SizeAssumption, pixels
    <3>2. cut.height * cut.width <= Pixels(cut)
      BY <1>4, <2>4, <3>1, StepsFit
    <3> QED
      BY <1>4, <1>5, <3>1, <3>2 DEF pixels
  <2> QED
    BY <1>5, <2>1, <2>2, <2>3, <2>4, SizeAssumption DEF SizeIsRight, SizeAssumption
<1>7. RowsAreThere(cut, Plane(picture.y), Plane(picture.u), Plane(picture.v)) <=>
        /\ LumaRows(cut, Plane(picture.y))
        /\ ChromaRows(cut, Plane(picture.u)) /\ ChromaRows(cut, Plane(picture.v))
  BY DEF RowsAreThere, LumaRows, ChromaRows
<1>8. /\ LumaRows(cut, Plane(picture.y)) => Plane(picture.y).data # Null
      /\ ChromaRows(cut, Plane(picture.u)) => Plane(picture.u).data # Null
      /\ ChromaRows(cut, Plane(picture.v)) => Plane(picture.v).data # Null
  <2>1. 0 \in 0..(cut.height - 1) /\ 0 \in 0..((cut.height \div 2) - 1)
    BY <1>3 DEF Part, Even
  <2> QED
    BY <2>1 DEF LumaRows, ChromaRows, CheckedOffset
<1> QED
  BY <1>4, <1>6, <1>7, <1>8 DEF NativeAccepted, Accepted
-------------------------------------------------------------------------------
(* Packing: the bytes of the output *)

(* Where a byte lies in rows of a width. *)
LEMMA RowAndColumn ==
  ASSUME NEW n \in Nat, NEW width \in Nat \ {0}, NEW height \in Nat, n < width * height
  PROVE  /\ n \div width \in 0..(height - 1) /\ n % width \in 0..(width - 1)
         /\ n = width * (n \div width) + (n % width)
<1>1. n \div width \in Nat /\ n % width \in 0..(width - 1)
      /\ n = width * (n \div width) + (n % width)
  OBVIOUS
<1>2. height <= n \div width <=> height * width <= n
  BY StepsFit
<1> QED
  BY <1>1, <1>2

(* Rows of an even width begin at even bytes. *)
LEMMA ColumnParity ==
  ASSUME NEW width \in Nat, NEW row \in Nat, NEW column \in Nat, NEW n \in Nat, Even(width),
         n = width * row + column
  PROVE  Even(n) <=> Even(column)
<1> DEFINE half == width \div 2
<1>1. half \in Nat /\ width = 2 * half
  BY DEF Even
<1>2. half * row \in Nat
  BY <1>1, ProductIsNat
<1>3. width * row = 2 * (half * row)
  BY <1>1
<1> HIDE DEF half
<1> QED
  BY <1>2, <1>3 DEF Even

(* A luma byte is read from within the plane, and is the cut part's own    *)
(* sample.                                                                 *)
LEMMA LumaByte ==
  ASSUME NEW buffer \in Buffer, NEW cut, Part(cut), LumaRows(cut, Plane(buffer)),
         NEW i \in Nat, i < cut.width * cut.height
  PROVE  LET from == LumaFrom(cut, Plane(buffer), i)
         IN /\ from.offset < from.plane.limit
            /\ from.plane.data + from.offset =
                 buffer.address
                   + SampleAt(buffer, cut.left + (i % cut.width), cut.top + (i \div cut.width))
<1> DEFINE row == i \div cut.width
           column == i % cut.width
           p == Plane(buffer)
<1>1. /\ cut.left \in Nat /\ cut.top \in Nat /\ cut.width \in Nat \ {0}
      /\ cut.height \in Nat \ {0}
  BY DEF Part
<1>2. row \in 0..(cut.height - 1) /\ column \in 0..(cut.width - 1)
  BY <1>1, RowAndColumn
<1>3. LumaFrom(cut, p, i) =
        [plane |-> p, offset |-> First(p, cut.left, cut.top + row) + column * p.pixelStride]
  BY DEF LumaFrom
<1> HIDE DEF row, column
<1>4. CheckedOffset(p, cut.left, cut.top + row, cut.width) /\ cut.top + row \in Nat
  BY <1>1, <1>2 DEF LumaRows
<1> HIDE DEF p
<1>5. /\ p.data = buffer.address /\ p.limit = buffer.limit /\ p.pixelStride = buffer.pixelStride
      /\ First(p, cut.left, cut.top + row) + column * buffer.pixelStride
           = SampleAt(buffer, cut.left + column, cut.top + row)
      /\ SampleAt(buffer, cut.left + column, cut.top + row) < buffer.limit
  BY <1>1, <1>2, <1>4, SampleIsRead DEF p
<1> QED
  BY <1>3, <1>5 DEF p, row, column

(* A sample of chroma, where the loop takes it from. *)
LEMMA ChromaSample ==
  ASSUME NEW buffer \in Buffer, NEW cut, Part(cut), ChromaRows(cut, Plane(buffer)),
         NEW row \in 0..((cut.height \div 2) - 1), NEW column \in 0..(cut.width - 1)
  PROVE  LET p == Plane(buffer)
             at == SampleAt(buffer, (cut.left + column) \div 2, (cut.top \div 2) + row)
         IN /\ p.data = buffer.address /\ p.data \in Nat /\ p.limit \in Nat
            /\ ChromaFirst(cut, p, row) \in Nat /\ p.pixelStride \in Nat
            /\ ChromaFirst(cut, p, row) + (column \div 2) * p.pixelStride = at
            /\ at < p.limit
<1> DEFINE left == cut.left \div 2
           top == cut.top \div 2
           width == cut.width \div 2
           k == column \div 2
           p == Plane(buffer)
<1>1. /\ left \in Nat /\ top \in Nat /\ width \in Nat \ {0} /\ k \in 0..(width - 1)
      /\ (cut.left + column) \div 2 = left + k /\ row \in Nat /\ top + row \in Nat
  BY DEF Part, Even
<1>2. CheckedOffset(p, left, top + row, width)
  BY DEF ChromaRows
<1>3. ChromaFirst(cut, p, row) = First(p, left, top + row)
  BY DEF ChromaFirst
<1>4. buffer.address \in Nat
  BY DEF Buffer
<1> HIDE DEF left, top, width, k, p
<1>5. left \in Nat /\ top + row \in Nat /\ width \in Nat \ {0} /\ k \in 0..(width - 1)
  BY <1>1
<1>6. /\ p.data = buffer.address /\ p.limit = buffer.limit /\ p.pixelStride = buffer.pixelStride
      /\ First(p, left, top + row) \in Nat
      /\ buffer.pixelStride \in Nat /\ buffer.limit \in Nat
  BY <1>2, <1>5, SampleIsRead DEF p
<1>7. /\ First(p, left, top + row) + k * buffer.pixelStride = SampleAt(buffer, left + k, top + row)
      /\ SampleAt(buffer, left + k, top + row) < buffer.limit
  BY <1>2, <1>5, SampleIsRead DEF p
<1> QED
  BY <1>1, <1>3, <1>4, <1>6, <1>7 DEF p, k, top

(* A byte of chroma, copied directly or taken by the loop. *)
LEMMA ChromaByte ==
  ASSUME NEW u \in Buffer, NEW v \in Buffer, NEW cut, Part(cut),
         ChromaRows(cut, Plane(u)), ChromaRows(cut, Plane(v)),
         NEW j \in Nat, j < cut.width * (cut.height \div 2)
  PROVE  LET from == ChromaFrom(cut, Plane(u), Plane(v), j)
             buffer == IF Even(j) THEN v ELSE u
         IN /\ from.offset < from.plane.limit
            /\ from.plane.data + from.offset =
                 buffer.address
                   + SampleAt(buffer, (cut.left + (j % cut.width)) \div 2,
                                      (cut.top \div 2) + (j \div cut.width))
<1> DEFINE row == j \div cut.width
           column == j % cut.width
           pu == Plane(u)
           pv == Plane(v)
           from == ChromaFrom(cut, pu, pv, j)
           at(buffer) == SampleAt(buffer, (cut.left + column) \div 2, (cut.top \div 2) + row)
<1>1. cut.width \in Nat \ {0} /\ cut.height \div 2 \in Nat /\ Even(cut.width)
  BY DEF Part
<1>2. /\ row \in 0..((cut.height \div 2) - 1) /\ column \in 0..(cut.width - 1)
      /\ j = cut.width * row + column /\ row \in Nat /\ column \in Nat
  <2> DEFINE height == cut.height \div 2
  <2>1. height \in Nat /\ j < cut.width * height
    BY <1>1
  <2> HIDE DEF height
  <2>2. row \in 0..(height - 1) /\ column \in 0..(cut.width - 1) /\ j = cut.width * row + column
    BY <1>1, <2>1, RowAndColumn
  <2> QED
    BY <1>1, <2>1, <2>2 DEF height
<1>3. Even(j) <=> Even(column)
  <2> HIDE DEF row, column
  <2> QED
    BY <1>1, <1>2, ColumnParity
<1>4. from = IF Interleaved(cut, pu, pv, row)
             THEN [plane |-> pv, offset |-> ChromaFirst(cut, pv, row) + column]
             ELSE [plane |-> IF Even(column) THEN pv ELSE pu,
                   offset |-> ChromaFirst(cut, IF Even(column) THEN pv ELSE pu, row)
                                + (column \div 2)
                                    * (IF Even(column) THEN pv ELSE pu).pixelStride]
  BY DEF ChromaFrom
<1> HIDE DEF row, column
<1>5. /\ pu.data = u.address /\ pu.data \in Nat /\ pu.limit \in Nat
      /\ ChromaFirst(cut, pu, row) \in Nat /\ pu.pixelStride \in Nat
      /\ ChromaFirst(cut, pu, row) + (column \div 2) * pu.pixelStride = at(u)
      /\ at(u) < pu.limit
  BY <1>2, ChromaSample
<1>6. /\ pv.data = v.address /\ pv.data \in Nat /\ pv.limit \in Nat
      /\ ChromaFirst(cut, pv, row) \in Nat /\ pv.pixelStride \in Nat
      /\ ChromaFirst(cut, pv, row) + (column \div 2) * pv.pixelStride = at(v)
      /\ at(v) < pv.limit
  BY <1>2, ChromaSample
<1> HIDE DEF pu, pv, from, at
<1>7. CASE ~Interleaved(cut, pu, pv, row)
  BY <1>3, <1>4, <1>5, <1>6, <1>7 DEF from, at, row, column, pu, pv
<1>8. CASE Interleaved(cut, pu, pv, row)
  <2>1. /\ pu.pixelStride = 2 /\ pv.pixelStride = 2
        /\ pv.data + ChromaFirst(cut, pv, row) + 1 = pu.data + ChromaFirst(cut, pu, row)
        /\ cut.width <= pv.limit - ChromaFirst(cut, pv, row)
    BY <1>8 DEF Interleaved
  <2>2. from.plane = pv /\ from.offset = ChromaFirst(cut, pv, row) + column
    BY <1>4, <1>8
  <2>3. from.offset < pv.limit
    BY <1>1, <1>2, <1>6, <2>1, <2>2
  <2>4. CASE Even(column)
    <3>1. column = (column \div 2) * 2
      BY <1>2, <2>4 DEF Even
    <3>2. pv.data + from.offset = v.address + at(v)
      BY <1>6, <2>1, <2>2, <3>1
    <3> QED
      BY <1>3, <2>2, <2>3, <2>4, <3>2 DEF from, at, row, column, pu, pv
  <2>5. CASE ~Even(column)
    <3>1. column = (column \div 2) * 2 + 1
      BY <1>2, <2>5 DEF Even
    <3>2. ChromaFirst(cut, pu, row) + (column - 1) = at(u)
      BY <1>2, <1>5, <2>1, <3>1
    <3>3. pv.data + from.offset = u.address + at(u)
      BY <1>2, <1>5, <1>6, <2>1, <2>2, <3>2
    <3> QED
      BY <1>3, <2>2, <2>3, <2>5, <3>3 DEF from, at, row, column, pu, pv
  <2> QED
    BY <2>4, <2>5
<1> QED
  BY <1>7, <1>8

-------------------------------------------------------------------------------
(* Packing: the property *)

(* Every image that a decoder may deliver is packed exactly.               *)
LEMMA EveryPictureConverts ==
  ASSUME NEW picture \in ValidImages
  PROVE  ConvertedExactly(picture)
<1> DEFINE cut == Cut(picture.crop)
           pixels == cut.width * cut.height
           there ==
             /\ cut.width > 0 /\ cut.height > 0
             /\ pixels <= SizeMax \div 3 /\ (pixels * 3) \div 2 <= ArrayMax
             /\ \A x \in cut.left..(cut.left + cut.width - 1),
                   y \in cut.top..(cut.top + cut.height - 1) :
                  /\ Readable(picture.y, x, y)
                  /\ Readable(picture.u, x \div 2, y \div 2)
                  /\ Readable(picture.v, x \div 2, y \div 2)
           luma(i) ==
             picture.y.address
               + SampleAt(picture.y, cut.left + (i % cut.width), cut.top + (i \div cut.width))
           chroma(j) ==
             LET buffer == IF Even(j) THEN picture.v ELSE picture.u
             IN buffer.address
                  + SampleAt(buffer, (cut.left + (j % cut.width)) \div 2,
                                     (cut.top \div 2) + (j \div cut.width))
           nv21 == Nv21Of(picture)
           py == Plane(picture.y)
           pu == Plane(picture.u)
           pv == Plane(picture.v)
<1>1. picture.y \in Buffer /\ picture.u \in Buffer /\ picture.v \in Buffer
  BY DEF ValidImages
<1>2. Converts(picture) <=>
        /\ cut.width > 0 /\ cut.height > 0
        /\ pixels <= SizeMax \div 3 /\ (pixels * 3) \div 2 <= ArrayMax
        /\ LumaRows(cut, py) /\ ChromaRows(cut, pu) /\ ChromaRows(cut, pv)
  BY ConvertsIfThere
<1>3. cut.width > 0 /\ cut.height > 0 => Part(cut)
  BY CutIsEven
<1>4. Converts(picture) <=> there
  <2> HIDE DEF cut, pixels
  <2>1. ASSUME Part(cut)
        PROVE  /\ LumaRows(cut, py) /\ ChromaRows(cut, pu) /\ ChromaRows(cut, pv) <=>
                    \A x \in cut.left..(cut.left + cut.width - 1),
                       y \in cut.top..(cut.top + cut.height - 1) :
                      /\ Readable(picture.y, x, y)
                      /\ Readable(picture.u, x \div 2, y \div 2)
                      /\ Readable(picture.v, x \div 2, y \div 2)
    <3>1. LumaRows(cut, py) <=>
            \A x \in cut.left..(cut.left + cut.width - 1),
               y \in cut.top..(cut.top + cut.height - 1) : Readable(picture.y, x, y)
      BY <1>1, <2>1, LumaIsThere
    <3>2. ChromaRows(cut, pu) <=>
            \A x \in cut.left..(cut.left + cut.width - 1),
               y \in cut.top..(cut.top + cut.height - 1) : Readable(picture.u, x \div 2, y \div 2)
      BY <1>1, <2>1, ChromaIsThere
    <3>3. ChromaRows(cut, pv) <=>
            \A x \in cut.left..(cut.left + cut.width - 1),
               y \in cut.top..(cut.top + cut.height - 1) : Readable(picture.v, x \div 2, y \div 2)
      BY <1>1, <2>1, ChromaIsThere
    <3> HIDE DEF py, pu, pv
    <3> QED
      BY <3>1, <3>2, <3>3, Zenon
  <2> QED
    BY <1>2, <1>3, <2>1
<1>5. ASSUME Converts(picture), NEW i \in 0..((pixels * 3) \div 2 - 1)
      PROVE  /\ nv21[i].offset < nv21[i].plane.limit
             /\ nv21[i].plane.data + nv21[i].offset =
                  IF i < pixels THEN luma(i) ELSE chroma(i - pixels)
  <2>1. /\ Part(cut) /\ pixels <= SizeMax \div 3
        /\ LumaRows(cut, py) /\ ChromaRows(cut, pu) /\ ChromaRows(cut, pv)
    BY <1>2, <1>3, <1>5
  <2>2. nv21 = Packed(cut, py, pu, pv)
    BY DEF Nv21Of
  <2> HIDE DEF cut
  <2>3. pixels \in Nat /\ i \in Nat
    BY <2>1, ProductIsNat DEF Part
  <2>4. Pixels(cut) = pixels
    BY <2>1, <2>3, WordIsNumber, SizeAssumption DEF Pixels, SizeAssumption
  <2>5. nv21[i] = IF i < pixels THEN LumaFrom(cut, py, i) ELSE ChromaFrom(cut, pu, pv, i - pixels)
    <3> HIDE DEF pixels, py, pu, pv, nv21
    <3> QED
      BY <2>2, <2>4 DEF Packed
  <2> HIDE DEF nv21
  <2>6. CASE i < pixels
    <3>1. /\ LumaFrom(cut, py, i).offset < LumaFrom(cut, py, i).plane.limit
          /\ LumaFrom(cut, py, i).plane.data + LumaFrom(cut, py, i).offset = luma(i)
      BY <1>1, <2>1, <2>3, <2>6, LumaByte
    <3> HIDE DEF luma, chroma, pixels, py, pu, pv
    <3> QED
      BY <2>5, <2>6, <3>1
  <2>7. CASE ~(i < pixels)
    <3> DEFINE j == i - pixels
               from == ChromaFrom(cut, pu, pv, j)
    <3>1. j \in Nat /\ j < cut.width * (cut.height \div 2)
      <4> DEFINE half == cut.height \div 2
      <4>1. half \in Nat /\ cut.height = 2 * half /\ cut.width \in Nat
        BY <2>1 DEF Part, Even
      <4>2. cut.width * half \in Nat
        BY <4>1, ProductIsNat
      <4>3. pixels = 2 * (cut.width * half)
        BY <4>1
      <4> HIDE DEF half, pixels
      <4>4. (pixels * 3) \div 2 = 3 * (cut.width * half)
        BY <4>2, <4>3
      <4> QED
        BY <2>3, <2>7, <4>2, <4>3, <4>4 DEF half
    <3>2. /\ from.offset < from.plane.limit
          /\ from.plane.data + from.offset = chroma(j)
      <4> HIDE DEF j
      <4> QED
        BY <1>1, <2>1, <3>1, ChromaByte
    <3> HIDE DEF luma, chroma, pixels, py, pu, pv
    <3> QED
      BY <2>5, <2>7, <3>2
  <2> QED
    BY <2>6, <2>7
<1> QED
  BY <1>4, <1>5 DEF ConvertedExactly

(* What is packed is an image of a decoder.                                *)
Packing == image = Nothing \/ image \in Images

(* The app's packing is exact for every image and every width of size_t:   *)
(* ConvertYuv420ToNv21 accepts an image exactly if all samples of the part *)
(* sent are in their buffers, and then each byte of its output is the      *)
(* sample it should be, read from within its plane's limit.                *)
THEOREM ConversionHolds == Spec => []ConversionIsExact
<1>1. Init => Packing
  BY DEF Init, Packing
<1>2. Packing /\ [Next]_vars => Packing'
  BY DEF Packing, Next, Convert, Converted, Transform, Transformed, Measure, Recolour,
         Written, vars
<1>3. Packing => ConversionIsExact
  BY EveryPictureConverts, ImagesAssumption DEF Packing, ConversionIsExact, ImagesAssumption
<1> QED
  BY <1>1, <1>2, <1>3, PTL DEF Spec

-------------------------------------------------------------------------------
(* Segments: least elements *)

(* The order of the natural numbers is well-founded.                       *)
LEMMA NatWF == IsWellFoundedOn({p \in Nat \X Nat : p[1] < p[2]}, Nat)
BY NatLessThanWellFounded DEF OpToRel

(* A set of natural numbers that is not empty has a least element.         *)
LEMMA LeastNat ==
  ASSUME NEW T, T \subseteq Nat, T # {}
  PROVE  \E m \in T : \A k \in T : m <= k
<1> DEFINE R == {p \in Nat \X Nat : p[1] < p[2]}
<1>1. IsWellFoundedOn(R, Nat)
  BY NatWF
<1>2. \A x, y \in Nat : <<y, x>> \in R <=> y < x
  OBVIOUS
<1> HIDE DEF R
<1>3. PICK m \in T : \A y \in T : ~ (<<y, m>> \in R)
  BY <1>1, WFMin
<1>4. m \in Nat /\ \A k \in T : k \in Nat /\ ~ (k < m)
  BY <1>2, <1>3
<1> QED
  BY <1>4

(* Induction: what holds of zero and is passed on to the next holds of all *)
(* numbers up to a limit.                                                  *)
LEMMA Upward ==
  ASSUME NEW n \in Nat, NEW H, 0 \in H, \A k \in 0..(n - 1) : k \in H => k + 1 \in H
  PROVE  0..n \subseteq H
<1> DEFINE T == {k \in 0..n : k \notin H}
<1> SUFFICES ASSUME T # {} PROVE FALSE
  OBVIOUS
<1>0. T \subseteq Nat
  OBVIOUS
<1>1. PICK m \in T : \A k \in T : m <= k
  <2> HIDE DEF T
  <2> QED BY <1>0, LeastNat
<1>2. m \in 0..n /\ m \notin H /\ m # 0
  OBVIOUS
<1>3. m - 1 \in 0..(n - 1) /\ m - 1 \in H
  BY <1>1, <1>2
<1>4. (m - 1) + 1 \in H
  BY <1>3
<1> QED
  BY <1>2, <1>4

(* The same from the limit down.                                           *)
LEMMA Downward ==
  ASSUME NEW n \in Nat, NEW H, n \in H, \A k \in 0..(n - 1) : k + 1 \in H => k \in H
  PROVE  0..n \subseteq H
<1> DEFINE D == {k \in 0..n : n - k \in H}
<1>1. 0 \in D
  OBVIOUS
<1>2. \A k \in 0..(n - 1) : k \in D => k + 1 \in D
  <2> TAKE k \in 0..(n - 1)
  <2> HAVE k \in D
  <2>1. PICK j : j = n - (k + 1)
    OBVIOUS
  <2>2. j \in 0..(n - 1) /\ j + 1 = n - k
    BY <2>1
  <2>3. j \in H
    BY <2>2
  <2> QED BY <2>1, <2>3
<1> HIDE DEF D
<1>3. 0..n \subseteq D
  BY <1>1, <1>2, Upward
<1>4. ASSUME NEW k \in 0..n PROVE k \in H
  <2>1. n - k \in 0..n /\ n - (n - k) = k
    OBVIOUS
  <2>2. n - k \in D
    BY <1>3, <2>1
  <2> QED BY <2>1, <2>2 DEF D
<1> QED BY <1>4

(* The least element of a set.                                             *)
LEMMA MinIs ==
  ASSUME NEW S \in SUBSET Int, NEW m \in S, \A k \in S : m <= k
  PROVE  Min(S) = m
<1> DEFINE c == CHOOSE x \in S : \A y \in S : x <= y
<1>1. c \in S /\ \A y \in S : c <= y
  OBVIOUS
<1>2. c <= m /\ m <= c /\ c \in Int /\ m \in Int
  BY <1>1
<1> HIDE DEF c
<1>3. c = m
  BY <1>2
<1> QED BY <1>3 DEF Min, c

(* A set of natural numbers that is not empty has a least element, which   *)
(* is Min.                                                                 *)
LEMMA MinOf ==
  ASSUME NEW S \in SUBSET Nat, S # {}
  PROVE  Min(S) \in S /\ \A k \in S : Min(S) <= k
BY LeastNat DEF Min

-------------------------------------------------------------------------------
(* Segments: FlattenSeq *)

(* FlattenSeq is what its definition says.                                 *)
LEMMA FlattenDef ==
  ASSUME NEW S, NEW s \in Seq(Seq(S)), s # <<>>
  PROVE  \E f : /\ f \in [1..Len(s) -> Seq(S)] /\ f[1] = s[1]
                /\ \A i \in 2..Len(s) : f[i] = f[i - 1] \o s[i]
                /\ FlattenSeq(s) = f[Len(s)]
<1> DEFINE L == Len(s)
           Step(f, i) == IF i = 1 THEN s[i] ELSE f[i - 1] \o s[i]
           Has(n) == \E f : f = [i \in 1..n |-> Step(f, i)]
           H == {n \in 0..L : Has(n)}
<1>1. L \in Nat \ {0}
  BY EmptySeq
<1>2. Has(0)
  <2>1. [i \in 1..0 |-> Step(<<>>, i)] = [i \in 1..0 |-> Step([i1 \in 1..0 |-> Step(<<>>, i1)], i)]
    OBVIOUS
  <2> QED BY <2>1
<1>3. ASSUME NEW n \in 0..(L - 1), Has(n) PROVE Has(n + 1)
  <2>1. PICK f : f = [i \in 1..n |-> Step(f, i)]
    BY <1>3
  <2> DEFINE g == [i \in 1..(n + 1) |-> IF i = n + 1 THEN Step(f, i) ELSE f[i]]
  <2>2. \A i \in 1..(n + 1) : g[i] = Step(g, i)
    <3> TAKE i \in 1..(n + 1)
    <3>1. i # 1 => i - 1 \in 1..(n + 1) /\ i - 1 # n + 1
      BY <1>3
    <3>2. i # 1 => g[i - 1] = f[i - 1]
      BY <3>1
    <3>3. Step(g, i) = Step(f, i)
      BY <3>2
    <3>4. i # n + 1 => f[i] = Step(f, i)
      <4>1. i # n + 1 => i \in 1..n
        BY <1>3
      <4> QED BY <2>1, <4>1
    <3> QED BY <3>3, <3>4
  <2>3. g = [i \in 1..(n + 1) |-> Step(g, i)]
    BY <2>2
  <2> QED BY <2>3
<1> HIDE DEF Has
<1>4. 0..L \subseteq H
  <2>1. 0 \in H
    BY <1>1, <1>2
  <2>2. \A k \in 0..(L - 1) : k \in H => k + 1 \in H
    BY <1>1, <1>3
  <2> HIDE DEF H, L
  <2> QED BY <1>1, <2>1, <2>2, Upward
<1>5. Has(L)
  BY <1>1, <1>4
<1> DEFINE F(f) == f = [i \in 1..Len(s) |-> IF i = 1 THEN s[i] ELSE f[i - 1] \o s[i]]
           c == CHOOSE f : F(f)
<1>6. \E f : F(f)
  BY <1>5 DEF Has
<1>7. F(c)
  BY <1>6
<1>8. FlattenSeq(s) = c[Len(s)]
  BY <1>1 DEF FlattenSeq
<1>9. DOMAIN c = 1..L /\ \A i \in 1..L : c[i] = Step(c, i)
  BY <1>7
<1> HIDE DEF c
<1>10. c[1] = s[1] /\ \A i \in 2..L : c[i] = c[i - 1] \o s[i]
  <2>0. 1 \in 1..L
    BY <1>1
  <2>1. c[1] = Step(c, 1)
    BY <1>9, <2>0
  <2>2. ASSUME NEW i \in 2..L PROVE c[i] = c[i - 1] \o s[i]
    <3>1. i \in 1..L /\ i # 1
      BY <1>1
    <3> QED BY <1>9, <3>1
  <2> QED BY <2>1, <2>2
<1> DEFINE G == {n \in 0..(L - 1) : c[n + 1] \in Seq(S)}
<1>11. 0..(L - 1) \subseteq G
  <2>0. \A i \in 1..L : s[i] \in Seq(S)
    OBVIOUS
  <2>1. 0 \in G
    BY <1>1, <1>10, <2>0
  <2>2. \A k \in 0..((L - 1) - 1) : k \in G => k + 1 \in G
    <3> TAKE k \in 0..((L - 1) - 1)
    <3> HAVE k \in G
    <3>1. PICK i : i = (k + 1) + 1
      OBVIOUS
    <3>2. i \in 2..L /\ i \in 1..L /\ i - 1 = k + 1 /\ k + 1 \in 0..(L - 1)
      BY <1>1, <3>1
    <3>3. c[i] = c[k + 1] \o s[i] /\ c[k + 1] \in Seq(S) /\ s[i] \in Seq(S)
      BY <1>10, <2>0, <3>2
    <3>4. c[i] \in Seq(S)
      BY <3>3, ConcatProperties
    <3> QED BY <3>1, <3>2, <3>4
  <2>3. L - 1 \in Nat
    BY <1>1
  <2> HIDE DEF G
  <2> QED BY <2>1, <2>2, <2>3, Upward
<1>12. \A i \in 1..L : c[i] \in Seq(S)
  <2> TAKE i \in 1..L
  <2>1. i - 1 \in 0..(L - 1) /\ (i - 1) + 1 = i
    BY <1>1
  <2>2. i - 1 \in G
    BY <1>11, <2>1
  <2> QED BY <2>1, <2>2
<1>13. c \in [1..L -> Seq(S)]
  <2>1. c = [i \in 1..L |-> c[i]]
    BY <1>7, <1>9 DEF F
  <2> QED BY <1>12, <2>1
<1> QED BY <1>8, <1>10, <1>13

(* Two sequences that agree are flattened alike up to there; the next      *)
(* element is appended.                                                    *)
LEMMA FlattenGrows ==
  ASSUME NEW S, NEW s \in Seq(Seq(S)), NEW r \in Seq(Seq(S)),
         Len(s) = Len(r) + 1, \A i \in 1..Len(r) : r[i] = s[i]
  PROVE  /\ FlattenSeq(r) \in Seq(S) /\ FlattenSeq(s) \in Seq(S)
         /\ FlattenSeq(s) = FlattenSeq(r) \o s[Len(s)]
<1>1. Len(r) \in Nat /\ Len(s) \in Nat /\ s # <<>>
  BY EmptySeq
<1>2. PICK f : /\ f \in [1..Len(s) -> Seq(S)] /\ f[1] = s[1]
               /\ \A i \in 2..Len(s) : f[i] = f[i - 1] \o s[i]
               /\ FlattenSeq(s) = f[Len(s)]
  BY <1>1, FlattenDef
<1>3. FlattenSeq(s) \in Seq(S)
  <2>1. Len(s) \in 1..Len(s)
    BY <1>1
  <2> QED BY <1>2, <2>1
<1>4. CASE r = <<>>
  <2>1. Len(r) = 0 /\ Len(s) = 1
    BY <1>4, EmptySeq
  <2>2. FlattenSeq(r) = <<>>
    BY <1>4, <2>1 DEF FlattenSeq
  <2>3. <<>> \o s[1] = s[1]
    BY <2>1, ConcatEmptySeq
  <2> QED BY <1>2, <1>3, <2>1, <2>2, <2>3
<1>5. CASE r # <<>>
  <2>1. PICK g : /\ g \in [1..Len(r) -> Seq(S)] /\ g[1] = r[1]
                 /\ \A i \in 2..Len(r) : g[i] = g[i - 1] \o r[i]
                 /\ FlattenSeq(r) = g[Len(r)]
    BY <1>5, FlattenDef
  <2>2. Len(r) \in Nat \ {0}
    BY <1>1, <1>5, EmptySeq
  <2> DEFINE H == {n \in 0..(Len(r) - 1) : g[n + 1] = f[n + 1]}
  <2>3. 0..(Len(r) - 1) \subseteq H
    <3>1. 0 \in H
      <4>1. r[1] = s[1] /\ 0 \in 0..(Len(r) - 1) /\ 0 + 1 = 1
        BY <2>2
      <4> QED BY <1>2, <2>1, <4>1
    <3>2. \A k \in 0..((Len(r) - 1) - 1) : k \in H => k + 1 \in H
      <4> TAKE k \in 0..((Len(r) - 1) - 1)
      <4> HAVE k \in H
      <4>1. PICK i : i = (k + 1) + 1
        OBVIOUS
      <4>2. /\ i \in 2..Len(r) /\ i \in 2..Len(s) /\ i \in 1..Len(r)
            /\ i - 1 = k + 1 /\ k + 1 \in 0..(Len(r) - 1)
        BY <2>2, <4>1
      <4>3. g[i] = g[i - 1] \o r[i] /\ f[i] = f[i - 1] \o s[i] /\ r[i] = s[i]
        BY <1>2, <2>1, <4>2
      <4>4. g[i - 1] = f[i - 1]
        BY <4>2
      <4>5. g[i] = f[i]
        BY <4>3, <4>4
      <4> QED BY <4>1, <4>2, <4>5
    <3>3. Len(r) - 1 \in Nat
      BY <2>2
    <3> HIDE DEF H
    <3> QED BY <3>1, <3>2, <3>3, Upward
  <2>4. g[Len(r)] = f[Len(r)]
    <3>1. Len(r) - 1 \in 0..(Len(r) - 1) /\ (Len(r) - 1) + 1 = Len(r)
      BY <2>2
    <3>2. Len(r) - 1 \in H
      BY <2>3, <3>1
    <3> QED BY <3>1, <3>2
  <2>5. Len(s) \in 2..Len(s) /\ Len(s) - 1 = Len(r) /\ Len(r) \in 1..Len(r)
    BY <1>1, <2>2
  <2>6. FlattenSeq(r) \in Seq(S)
    BY <2>1, <2>5
  <2>7. f[Len(s)] = f[Len(r)] \o s[Len(s)]
    BY <1>2, <2>5
  <2> QED BY <1>2, <1>3, <2>1, <2>4, <2>6, <2>7
<1> QED BY <1>4, <1>5

(* Pairs, one after another.                                               *)
LEMMA FlattenPairs ==
  ASSUME NEW S, NEW s \in Seq(Seq(S)), \A i \in 1..Len(s) : Len(s[i]) = 2
  PROVE  /\ FlattenSeq(s) \in Seq(S) /\ Len(FlattenSeq(s)) = 2 * Len(s)
         /\ \A i \in 1..Len(s) : /\ FlattenSeq(s)[2 * i - 1] = s[i][1]
                                  /\ FlattenSeq(s)[2 * i] = s[i][2]
<1>1. CASE s = <<>>
  <2>1. Len(s) = 0
    BY <1>1, EmptySeq
  <2>2. FlattenSeq(s) = <<>>
    BY <1>1, <2>1 DEF FlattenSeq
  <2>3. <<>> \in Seq(S) /\ Len(<<>>) = 0 /\ 1..0 = {}
    BY EmptySeq
  <2> QED BY <2>1, <2>2, <2>3
<1>2. CASE s # <<>>
  <2>1. PICK f : /\ f \in [1..Len(s) -> Seq(S)] /\ f[1] = s[1]
                 /\ \A i \in 2..Len(s) : f[i] = f[i - 1] \o s[i]
                 /\ FlattenSeq(s) = f[Len(s)]
    BY <1>2, FlattenDef
  <2>2. Len(s) \in Nat \ {0}
    BY <1>2, EmptySeq
  <2> DEFINE P(n) == /\ Len(f[n]) = 2 * n
                     /\ \A i \in 1..n : f[n][2 * i - 1] = s[i][1] /\ f[n][2 * i] = s[i][2]
             H == {n \in 0..(Len(s) - 1) : P(n + 1)}
  <2>3. P(1)
    <3>1. 1 \in 1..Len(s)
      BY <2>2
    <3>2. Len(f[1]) = 2 /\ 2 * 1 = 2 /\ 2 * 1 - 1 = 1
      BY <2>1, <3>1
    <3>3. \A i \in 1..1 : i = 1
      OBVIOUS
    <3> QED BY <2>1, <3>2, <3>3
  <2>4. ASSUME NEW n \in 1..(Len(s) - 1), P(n) PROVE P(n + 1)
    <3>1. PICK m : m = n + 1
      OBVIOUS
    <3>2. m \in 2..Len(s) /\ m \in 1..Len(s) /\ m - 1 = n /\ n \in 1..Len(s)
      BY <2>2, <3>1
    <3>3. f[m] = f[n] \o s[m] /\ f[n] \in Seq(S) /\ s[m] \in Seq(S) /\ Len(s[m]) = 2
      <4>1. f[m] = f[n] \o s[m]
        BY <2>1, <3>2
      <4>2. f[n] \in Seq(S)
        BY <2>1, <3>2
      <4>3. s[m] \in Seq(S) /\ Len(s[m]) = 2
        BY <3>2
      <4> QED BY <4>1, <4>2, <4>3
    <3>4. /\ Len(f[m]) = Len(f[n]) + 2
          /\ \A j \in 1..(Len(f[n]) + 2) :
               f[m][j] = IF j <= Len(f[n]) THEN f[n][j] ELSE s[m][j - Len(f[n])]
      <4>1. PICK a, c : a = f[n] /\ c = s[m]
        OBVIOUS
      <4>2. a \in Seq(S) /\ c \in Seq(S) /\ Len(c) = 2 /\ f[m] = a \o c
        BY <3>3, <4>1
      <4>3. /\ Len(a \o c) = Len(a) + Len(c)
            /\ \A j \in 1..(Len(a) + Len(c)) :
                 (a \o c)[j] = IF j <= Len(a) THEN a[j] ELSE c[j - Len(a)]
        BY <4>2, ConcatProperties
      <4>4. PICK w : w = a \o c
        OBVIOUS
      <4>5. /\ Len(w) = Len(a) + 2
            /\ \A j \in 1..(Len(a) + 2) : w[j] = IF j <= Len(a) THEN a[j] ELSE c[j - Len(a)]
        BY <4>2, <4>3, <4>4
      <4>6. w = f[m]
        BY <4>2, <4>4
      <4> QED BY <4>1, <4>5, <4>6
    <3>5. Len(f[m]) = 2 * m
      BY <2>4, <3>1, <3>4
    <3>6. ASSUME NEW i \in 1..m PROVE f[m][2 * i - 1] = s[i][1] /\ f[m][2 * i] = s[i][2]
      <4>1. CASE i = m
        <5>1. PICK a : a = 2 * i - 1
          OBVIOUS
        <5>2. /\ a \in 1..(Len(f[n]) + 2) /\ ~ (a <= Len(f[n])) /\ a - Len(f[n]) = 1
              /\ a + 1 \in 1..(Len(f[n]) + 2) /\ ~ (a + 1 <= Len(f[n])) /\ (a + 1) - Len(f[n]) = 2
              /\ 2 * i = a + 1
          <6>1. PICK z : z = Len(f[n])
            OBVIOUS
          <6>2. n \in Nat /\ z = 2 * n /\ i = n + 1 /\ a = 2 * n + 1
            BY <2>4, <3>1, <3>2, <4>1, <5>1, <6>1
          <6>3. /\ a \in 1..(z + 2) /\ ~ (a <= z) /\ a - z = 1
                /\ a + 1 \in 1..(z + 2) /\ ~ (a + 1 <= z) /\ (a + 1) - z = 2
                /\ 2 * i = a + 1
            BY <6>2
          <6> QED BY <6>1, <6>3
        <5>3. PICK c : c = a + 1
          OBVIOUS
        <5>4. f[m][a] = s[m][1] /\ f[m][c] = s[m][2]
          BY <3>4, <5>2, <5>3
        <5> QED BY <4>1, <5>1, <5>2, <5>3, <5>4
      <4>2. CASE i # m
        <5>1. i \in 1..n
          BY <3>1, <3>2, <4>2
        <5>2. PICK a, c : a = 2 * i - 1 /\ c = 2 * i
          OBVIOUS
        <5>3. /\ a \in 1..(Len(f[n]) + 2) /\ a <= Len(f[n])
              /\ c \in 1..(Len(f[n]) + 2) /\ c <= Len(f[n])
          BY <2>4, <3>2, <5>1, <5>2
        <5>4. f[m][a] = f[n][a] /\ f[m][c] = f[n][c]
          BY <3>4, <5>3
        <5>5. f[n][a] = s[i][1] /\ f[n][c] = s[i][2]
          BY <2>4, <5>1, <5>2
        <5> QED BY <5>2, <5>4, <5>5
      <4> QED BY <4>1, <4>2
    <3> QED BY <3>1, <3>5, <3>6
  <2> HIDE DEF P
  <2>5. 0..(Len(s) - 1) \subseteq H
    <3>1. 0 \in H
      BY <2>2, <2>3
    <3>2. \A k \in 0..((Len(s) - 1) - 1) : k \in H => k + 1 \in H
      BY <2>2, <2>4
    <3>3. Len(s) - 1 \in Nat
      BY <2>2
    <3> HIDE DEF H
    <3> QED BY <3>1, <3>2, <3>3, Upward
  <2>6. P(Len(s))
    <3>1. Len(s) - 1 \in 0..(Len(s) - 1) /\ (Len(s) - 1) + 1 = Len(s)
      BY <2>2
    <3>2. Len(s) - 1 \in H
      BY <2>5, <3>1
    <3> QED BY <3>1, <3>2
  <2>7. PICK m : m = Len(s)
    OBVIOUS
  <2>8. m \in 1..m /\ f[m] \in Seq(S)
    BY <2>1, <2>2, <2>7
  <2>9. P(m)
    BY <2>6, <2>7
  <2>10. /\ Len(f[m]) = 2 * m
         /\ \A i \in 1..m : f[m][2 * i - 1] = s[i][1] /\ f[m][2 * i] = s[i][2]
    BY <2>9 DEF P
  <2> QED BY <2>1, <2>7, <2>8, <2>10, Zenon
<1> QED BY <1>1, <1>2

-------------------------------------------------------------------------------
(* Segments: a frame and its bytes *)

(* The bytes.                                                              *)
Octets == Below(256)

(* A marker without a length. *)
Bare(segment) == segment.marker \in Standalone \cup {EndOfImage}

(* The parts of a segment that may be delivered.                           *)
LEMMA SegmentParts ==
  ASSUME NEW segment \in ValidSegments
  PROVE  /\ segment.fill \in Nat
         /\ segment.marker \in Nat /\ segment.marker < 255 /\ segment.marker \in Octets
         /\ segment.length \in Nat /\ segment.length < 256 * 256
         /\ segment.body \in Seq(Octets) /\ Len(segment.body) \in Nat
<1>1. segment \in AnySegment
  BY DEF ValidSegments
<1>2. /\ segment.fill \in Nat /\ segment.marker \in Below(255)
      /\ segment.body \in Seq(Below(256)) /\ segment.length \in Below(256 * 256)
  BY <1>1 DEF AnySegment
<1>3. Len(segment.body) \in Nat
  BY <1>2
<1>4. /\ segment.marker \in Nat /\ segment.marker < 255 /\ segment.marker \in Below(256)
      /\ segment.length \in Nat /\ segment.length < 256 * 256
  BY <1>2 DEF Below
<1> QED BY <1>2, <1>3, <1>4 DEF Octets

(* A standalone marker has no body.                                        *)
LEMMA StandaloneIsEmpty ==
  ASSUME NEW segment \in ValidSegments, segment.marker \in Standalone
  PROVE  Len(segment.body) = 0
<1>1. segment.body = <<>>
  BY DEF ValidSegments
<1> QED BY <1>1

(* What a segment looks like on the wire.                                  *)
SegmentIs(segment, bytes) ==
  LET head == segment.fill + 1
      body == head + (IF Bare(segment) THEN 0 ELSE 2)
  IN /\ bytes \in Seq(Octets) /\ Len(bytes) = body + Len(segment.body)
     /\ \A k \in 1..segment.fill : bytes[k] = 255
     /\ bytes[head] = segment.marker
     /\ ~ Bare(segment) => /\ bytes[head + 1] = segment.length \div 256
                           /\ bytes[head + 2] = segment.length % 256
     /\ \A k \in 1..Len(segment.body) : bytes[body + k] = segment.body[k]

(* What two sequences look like put together.                              *)
JoinedAre(S, a, b, c, n) ==
  /\ c \in Seq(S) /\ Len(c) = n + Len(b)
  /\ \A k \in 1..n : c[k] = a[k]
  /\ \A k \in 1..Len(b) : c[n + k] = b[k]

(* The bytes of two joined sequences are those of the one, then those of   *)
(* the other.                                                              *)
LEMMA Joined ==
  ASSUME NEW S, NEW a \in Seq(S), NEW b \in Seq(S), NEW c, c = a \o b, NEW n, n = Len(a)
  PROVE  JoinedAre(S, a, b, c, n)
<1>1. /\ c \in Seq(S) /\ Len(c) = Len(a) + Len(b)
      /\ \A k \in 1..(Len(a) + Len(b)) : c[k] = IF k <= Len(a) THEN a[k] ELSE b[k - Len(a)]
  BY ConcatProperties
<1>2. Len(a) \in Nat /\ Len(b) \in Nat
  OBVIOUS
<1>3. ASSUME NEW k \in 1..n PROVE c[k] = a[k]
  <2>1. k \in 1..(Len(a) + Len(b)) /\ k <= Len(a)
    BY <1>2
  <2> QED BY <1>1, <2>1
<1>4. ASSUME NEW k \in 1..Len(b) PROVE c[n + k] = b[k]
  <2>1. PICK j : j = n + k
    OBVIOUS
  <2>2. j \in 1..(Len(a) + Len(b)) /\ ~ (j <= Len(a)) /\ j - Len(a) = k
    BY <1>2, <2>1
  <2> QED BY <1>1, <2>1, <2>2
<1> QED BY <1>1, <1>3, <1>4 DEF JoinedAre

(* Where the fill, marker, length and body are in the bytes of a segment.  *)
LEMMA SegmentBytesAre ==
  ASSUME NEW segment \in ValidSegments
  PROVE  SegmentIs(segment, SegmentBytes(segment))
<1> DEFINE n == segment.fill
           a == [i \in 1..segment.fill |-> 255]
           b == <<segment.marker>>
           c == IF Bare(segment) THEN <<>> ELSE <<segment.length \div 256, segment.length % 256>>
           d == segment.body
           l == IF Bare(segment) THEN 0 ELSE 2
<1>1. a \in Seq(Octets) /\ n = Len(a) /\ n \in Nat /\ \A k \in 1..n : a[k] = 255
  <2>1. n \in Nat
    BY SegmentParts
  <2>2. DOMAIN a = 1..n /\ \A k \in 1..n : a[k] = 255 /\ a[k] \in Octets
    BY DEF Octets, Below
  <2> HIDE DEF n
  <2>3. a = [i \in 1..n |-> 255] /\ 255 \in Octets
    BY DEF n, Octets, Below
  <2> HIDE DEF a
  <2>4. a \in Seq(Octets)
    BY <2>1, <2>3
  <2>5. Len(a) = n
    BY <2>1, <2>2, <2>4
  <2> QED BY <2>1, <2>2, <2>4, <2>5
<1>2. b \in Seq(Octets) /\ Len(b) = 1 /\ b[1] = segment.marker
  <2>1. segment.marker \in Octets
    BY SegmentParts
  <2> QED BY <2>1
<1>3. /\ c \in Seq(Octets) /\ Len(c) = l /\ l \in {0, 2}
      /\ ~ Bare(segment) => l = 2 /\ c[1] = segment.length \div 256 /\ c[2] = segment.length % 256
  <2>1. CASE Bare(segment)
    BY <2>1, EmptySeq
  <2>2. CASE ~ Bare(segment)
    <3>1. segment.length \div 256 \in Octets /\ segment.length % 256 \in Octets
      <4>1. PICK z \in Nat : z = segment.length /\ z < 256 * 256
        BY SegmentParts
      <4>2. z \div 256 \in Octets /\ z % 256 \in Octets
        BY <4>1 DEF Octets, Below
      <4> QED BY <4>1, <4>2
    <3> QED BY <2>2, <3>1
  <2> QED BY <2>1, <2>2
<1>4. d \in Seq(Octets) /\ Len(d) \in Nat
  <2> SUFFICES segment.body \in Seq(Octets) /\ Len(segment.body) \in Nat
    OBVIOUS
  <2> QED BY SegmentParts
<1>5. SegmentBytes(segment) = ((a \o b) \o c) \o d
  BY DEF SegmentBytes, Bare
<1> HIDE DEF n, a, b, c, d
<1>6. PICK e : e = a \o b
  OBVIOUS
<1>7. /\ e \in Seq(Octets) /\ Len(e) = n + 1
      /\ \A k \in 1..n : e[k] = a[k]
      /\ \A k \in 1..1 : e[n + k] = b[k]
  <2>1. JoinedAre(Octets, a, b, e, n)
    <3>1. a \in Seq(Octets) /\ b \in Seq(Octets) /\ e = a \o b /\ n = Len(a)
      BY <1>1, <1>2, <1>6
    <3> QED BY <3>1, Joined
  <2> QED BY <1>2, <2>1 DEF JoinedAre
<1>8. PICK g : g = e \o c
  OBVIOUS
<1>9. PICK m : m = n + 1
  OBVIOUS
<1>10. /\ g \in Seq(Octets) /\ Len(g) = m + l
       /\ \A k \in 1..m : g[k] = e[k]
       /\ \A k \in 1..l : g[m + k] = c[k]
  <2>1. m = Len(e)
    BY <1>7, <1>9
  <2>2. JoinedAre(Octets, e, c, g, m)
    BY <1>3, <1>7, <1>8, <2>1, Joined
  <2> QED BY <1>3, <2>2 DEF JoinedAre
<1>11. PICK h : h = g \o d
  OBVIOUS
<1>12. PICK o : o = m + l
  OBVIOUS
<1>13. /\ h \in Seq(Octets) /\ Len(h) = o + Len(d)
       /\ \A k \in 1..o : h[k] = g[k]
       /\ \A k \in 1..Len(d) : h[o + k] = d[k]
  <2>1. o = Len(g)
    BY <1>10, <1>12
  <2>2. JoinedAre(Octets, g, d, h, o)
    BY <1>4, <1>10, <1>11, <2>1, Joined
  <2> QED BY <2>2 DEF JoinedAre
<1>14. \A k \in 1..n : h[k] = 255
  <2> TAKE k \in 1..n
  <2>1. k \in 1..m /\ k \in 1..o
    BY <1>1, <1>3, <1>9, <1>12
  <2> QED BY <1>1, <1>7, <1>10, <1>13, <2>1
<1>15. h[m] = segment.marker
  <2>1. m \in 1..m /\ m \in 1..o /\ 1 \in 1..1
    BY <1>1, <1>3, <1>9, <1>12
  <2> QED BY <1>2, <1>7, <1>9, <1>10, <1>13, <2>1
<1>16. ~ Bare(segment) => h[m + 1] = segment.length \div 256 /\ h[m + 2] = segment.length % 256
  <2> HAVE ~ Bare(segment)
  <2>0. PICK x, y : x = m + 1 /\ y = m + 2
    OBVIOUS
  <2>1. x \in 1..o /\ y \in 1..o /\ 1 \in 1..l /\ 2 \in 1..l
    BY <1>1, <1>3, <1>9, <1>12, <2>0
  <2>2. h[x] = g[x] /\ h[y] = g[y] /\ g[m + 1] = c[1] /\ g[m + 2] = c[2]
    BY <1>10, <1>13, <2>1
  <2> QED BY <1>3, <2>0, <2>2
<1>17. h = SegmentBytes(segment)
  BY <1>5, <1>6, <1>8, <1>11
<1>18. n + 1 = m /\ m + (IF Bare(segment) THEN 0 ELSE 2) = o
  BY <1>9, <1>12
<1>19. SegmentIs(segment, h)
  <2>1. segment.fill = n
    BY DEF n
  <2>2. segment.body = d
    BY DEF d
  <2> QED BY <1>13, <1>14, <1>15, <1>16, <1>18, <2>1, <2>2 DEF SegmentIs
<1> QED BY <1>17, <1>19

(* How long a segment is on the wire.                                      *)
Sized(segment, fill, l, n) ==
  /\ fill \in Nat /\ l \in Nat /\ n \in Nat
  /\ Bare(segment) => n = fill + 1 + l
  /\ ~ Bare(segment) => n = fill + 3 + l

(* How many bytes a segment has.                                           *)
LEMMA SegmentSize ==
  ASSUME NEW segment \in ValidSegments, NEW fill, fill = segment.fill,
         NEW l, l = Len(segment.body), NEW n, n = Len(SegmentBytes(segment))
  PROVE  Sized(segment, fill, l, n)
<1>1. fill \in Nat /\ l \in Nat
  BY SegmentParts
<1>2. n = fill + 1 + (IF Bare(segment) THEN 0 ELSE 2) + l
  BY SegmentBytesAre DEF SegmentIs
<1>3. Bare(segment) => n = fill + 1 + l
  BY <1>1, <1>2
<1>4. ~ Bare(segment) => n = fill + 3 + l
  BY <1>1, <1>2
<1>5. n \in Nat
  BY <1>1, <1>3, <1>4
<1> QED BY <1>1, <1>3, <1>4, <1>5 DEF Sized

(* The fields of a frame have their types.                                 *)
LEMMA FrameParts ==
  ASSUME NEW frame \in ValidFrames
  PROVE  /\ frame.segments \in Seq(ValidSegments) /\ Len(frame.segments) \in Nat
         /\ \A i \in 1..Len(frame.segments) : frame.segments[i] \in ValidSegments
         /\ frame.cut \in Nat
<1>1. frame \in AnyFrame
  BY DEF ValidFrames
<1>2. frame.segments \in Seq(ValidSegments) /\ frame.cut \in Nat
  BY <1>1 DEF AnyFrame
<1>3. Len(frame.segments) \in Nat /\ \A i \in 1..Len(frame.segments) : frame.segments[i] \in ValidSegments
  BY <1>2
<1> QED BY <1>2, <1>3

(* The bytes of the first segments, one after another.                     *)
Parts(frame, i) == [j \in 1..i |-> SegmentBytes(frame.segments[j])]

(* The parts of a frame are the bytes of its segments.                     *)
LEMMA PartsAre ==
  ASSUME NEW frame \in ValidFrames, NEW i \in 0..Len(frame.segments)
  PROVE  /\ Parts(frame, i) \in Seq(Seq(Octets)) /\ Len(Parts(frame, i)) = i
         /\ \A j \in 1..i : Parts(frame, i)[j] = SegmentBytes(frame.segments[j])
<1>1. Len(frame.segments) \in Nat /\ i \in Nat
  BY FrameParts
<1>2. \A j \in 1..i : SegmentBytes(frame.segments[j]) \in Seq(Octets)
  <2> TAKE j \in 1..i
  <2>1. j \in 1..Len(frame.segments)
    BY <1>1
  <2>2. frame.segments[j] \in ValidSegments
    BY <2>1, FrameParts
  <2> QED BY <2>2, SegmentBytesAre DEF SegmentIs
<1>3. Parts(frame, i) \in [1..i -> Seq(Octets)]
  BY <1>2 DEF Parts
<1>4. \A j \in 1..i : Parts(frame, i)[j] = SegmentBytes(frame.segments[j])
  BY DEF Parts
<1>5. Parts(frame, i) \in Seq(Seq(Octets)) /\ Len(Parts(frame, i)) = i
  BY <1>1, <1>3
<1> QED BY <1>4, <1>5

(* A frame starts with the marker SOI.                                     *)
LEMMA BytesStart == \A frame : BytesTo(frame, 0) = <<255, 216>>
<1> TAKE frame
<1> DEFINE s == [j \in 1..0 |-> SegmentBytes(frame.segments[j])]
<1>1. s = <<>> /\ Len(s) = 0
  OBVIOUS
<1>2. FlattenSeq(s) = s
  <2> HIDE DEF s
  <2> QED BY <1>1 DEF FlattenSeq
<1>3. BytesTo(frame, 0) = <<255, 216>> \o <<>>
  BY <1>1, <1>2 DEF BytesTo
<1>4. <<255, 216>> \in Seq(Nat)
  OBVIOUS
<1>5. <<255, 216>> \o <<>> = <<255, 216>>
  BY <1>4, ConcatEmptySeq
<1> QED BY <1>3, <1>5

(* Where segment i ends.                                                   *)
EndOf(frame, i) == Len(BytesTo(frame, i))

(* The bytes up to a segment are bytes.                                    *)
LEMMA BytesType ==
  ASSUME NEW frame \in ValidFrames, NEW i \in 0..Len(frame.segments)
  PROVE  /\ FlattenSeq(Parts(frame, i)) \in Seq(Octets)
         /\ BytesTo(frame, i) = <<255, 216>> \o FlattenSeq(Parts(frame, i))
         /\ BytesTo(frame, i) \in Seq(Octets) /\ EndOf(frame, i) \in Nat
<1>1. FlattenSeq(Parts(frame, i)) \in Seq(Octets)
  <2>1. PICK r : r = Parts(frame, i)
    OBVIOUS
  <2>2. r \in Seq(Seq(Octets))
    BY <2>1, PartsAre
  <2>3. CASE r = <<>>
    <3>1. Len(r) = 0
      BY <2>3
    <3>2. FlattenSeq(r) = <<>>
      BY <2>3, <3>1 DEF FlattenSeq
    <3> QED BY <2>1, <3>2, EmptySeq
  <2>4. CASE r # <<>>
    <3>1. PICK f : f \in [1..Len(r) -> Seq(Octets)] /\ FlattenSeq(r) = f[Len(r)]
      BY <2>2, <2>4, FlattenDef
    <3>2. Len(r) \in 1..Len(r)
      BY <2>2, <2>4, EmptySeq
    <3> QED BY <2>1, <3>1, <3>2
  <2> QED BY <2>3, <2>4
<1>2. BytesTo(frame, i) = <<255, 216>> \o FlattenSeq(Parts(frame, i))
  BY DEF BytesTo, Parts
<1>3. <<255, 216>> \in Seq(Octets)
  BY DEF Octets, Below
<1>4. BytesTo(frame, i) \in Seq(Octets)
  BY <1>1, <1>2, <1>3, ConcatProperties
<1> QED BY <1>1, <1>2, <1>4 DEF EndOf

(* Each segment adds its bytes to those before it.                         *)
LEMMA BytesGrow ==
  ASSUME NEW frame \in ValidFrames, NEW i \in 0..(Len(frame.segments) - 1)
  PROVE  BytesTo(frame, i + 1) = BytesTo(frame, i) \o SegmentBytes(frame.segments[i + 1])
<1>1. PICK m : m = i + 1
  OBVIOUS
<1>2. i \in 0..Len(frame.segments) /\ m \in 0..Len(frame.segments) /\ m \in 1..m /\ i \in Nat
  BY <1>1, FrameParts
<1>3. PICK r, s : r = Parts(frame, i) /\ s = Parts(frame, m)
  OBVIOUS
<1>4. /\ r \in Seq(Seq(Octets)) /\ Len(r) = i
      /\ s \in Seq(Seq(Octets)) /\ Len(s) = m
      /\ \A j \in 1..i : r[j] = SegmentBytes(frame.segments[j])
      /\ \A j \in 1..m : s[j] = SegmentBytes(frame.segments[j])
  BY <1>2, <1>3, PartsAre
<1>5. \A j \in 1..Len(r) : r[j] = s[j]
  <2> TAKE j \in 1..Len(r)
  <2>1. j \in 1..i /\ j \in 1..m
    BY <1>1, <1>2, <1>4
  <2> QED BY <1>4, <2>1
<1>6. FlattenSeq(s) = FlattenSeq(r) \o s[m]
  <2>1. Len(s) = Len(r) + 1
    BY <1>1, <1>4
  <2>2. FlattenSeq(s) = FlattenSeq(r) \o s[Len(s)]
    BY <1>4, <1>5, <2>1, FlattenGrows
  <2> QED BY <1>4, <2>2
<1>7. PICK a, b, c : a = <<255, 216>> /\ b = FlattenSeq(r) /\ c = s[m]
  OBVIOUS
<1>8. c = SegmentBytes(frame.segments[m]) /\ c \in Seq(Octets)
  BY <1>2, <1>4, <1>7
<1>9. a \in Seq(Octets) /\ b \in Seq(Octets)
  BY <1>2, <1>3, <1>7, BytesType DEF Octets, Below
<1>10. (a \o b) \o c = a \o (b \o c)
  BY <1>8, <1>9, ConcatAssociative
<1>11. BytesTo(frame, m) = a \o (b \o c)
  <2>1. BytesTo(frame, m) = <<255, 216>> \o FlattenSeq(s)
    BY <1>3, Zenon DEF BytesTo, Parts
  <2> QED BY <1>6, <1>7, <2>1, Zenon
<1>12. BytesTo(frame, i) = a \o b
  BY <1>3, <1>7, Zenon DEF BytesTo, Parts
<1> QED BY <1>1, <1>8, <1>10, <1>11, <1>12, Zenon

(* The bytes up to the end of one segment and of the next.                 *)
LEMMA SegmentJoins ==
  ASSUME NEW frame \in ValidFrames, NEW i \in 0..(Len(frame.segments) - 1)
  PROVE  /\ SegmentIs(frame.segments[i + 1], SegmentBytes(frame.segments[i + 1]))
         /\ JoinedAre(Octets, BytesTo(frame, i), SegmentBytes(frame.segments[i + 1]),
                      BytesTo(frame, i + 1), EndOf(frame, i))
<1>1. i \in 0..Len(frame.segments) /\ i + 1 \in 1..Len(frame.segments)
  BY FrameParts
<1>2. frame.segments[i + 1] \in ValidSegments
  BY <1>1, FrameParts
<1>3. SegmentIs(frame.segments[i + 1], SegmentBytes(frame.segments[i + 1]))
  BY <1>2, SegmentBytesAre
<1>4. SegmentBytes(frame.segments[i + 1]) \in Seq(Octets)
  BY <1>3 DEF SegmentIs
<1>5. BytesTo(frame, i) \in Seq(Octets) /\ EndOf(frame, i) = Len(BytesTo(frame, i))
  BY <1>1, BytesType DEF EndOf
<1> QED BY <1>3, <1>4, <1>5, BytesGrow, Joined

(* Each segment ends its size after the one before it.                     *)
LEMMA SegmentEnds ==
  ASSUME NEW frame \in ValidFrames, NEW i \in 0..(Len(frame.segments) - 1)
  PROVE  /\ EndOf(frame, i) \in Nat
         /\ Len(SegmentBytes(frame.segments[i + 1])) \in Nat
         /\ EndOf(frame, i + 1) = EndOf(frame, i) + Len(SegmentBytes(frame.segments[i + 1]))
<1>1. i \in 0..Len(frame.segments)
  BY FrameParts
<1>2. EndOf(frame, i) \in Nat
  BY <1>1, BytesType
<1>3. SegmentBytes(frame.segments[i + 1]) \in Seq(Octets)
  BY SegmentJoins DEF SegmentIs
<1>4. Len(SegmentBytes(frame.segments[i + 1])) \in Nat
  BY <1>3
<1>5. EndOf(frame, i + 1) = EndOf(frame, i) + Len(SegmentBytes(frame.segments[i + 1]))
  BY SegmentJoins DEF JoinedAre, EndOf
<1> QED BY <1>2, <1>4, <1>5

(* A segment ends no earlier than those before it.                         *)
LEMMA EndsGrow ==
  ASSUME NEW frame \in ValidFrames, NEW j \in 0..Len(frame.segments), NEW i \in 0..j
  PROVE  EndOf(frame, i) <= EndOf(frame, j)
<1> DEFINE N == Len(frame.segments)
           H == {n \in 0..N : \A k \in 0..n : EndOf(frame, k) <= EndOf(frame, n)}
<1>1. N \in Nat /\ \A n \in 0..N : EndOf(frame, n) \in Nat
  BY FrameParts, BytesType
<1>2. 0 \in H
  BY <1>1
<1>3. \A n \in 0..(N - 1) : n \in H => n + 1 \in H
  <2> TAKE n \in 0..(N - 1)
  <2> HAVE n \in H
  <2>1. EndOf(frame, n) <= EndOf(frame, n + 1)
    BY SegmentEnds
  <2>2. n + 1 \in 0..N /\ n \in 0..N
    BY <1>1
  <2>3. ASSUME NEW k \in 0..(n + 1) PROVE EndOf(frame, k) <= EndOf(frame, n + 1)
    <3>1. CASE k = n + 1
      BY <1>1, <2>2, <3>1
    <3>2. CASE k # n + 1
      <4>1. k \in 0..n /\ k \in 0..N
        BY <1>1, <3>2
      <4>2. EndOf(frame, k) <= EndOf(frame, n)
        BY <4>1
      <4> QED BY <1>1, <2>1, <2>2, <4>1, <4>2
    <3> QED BY <3>1, <3>2
  <2> QED BY <2>2, <2>3
<1>4. 0..N \subseteq H
  <2> HIDE DEF H, N
  <2> QED BY <1>1, <1>2, <1>3, Upward
<1> QED BY <1>4

(* All bytes begin with those of the first segments.                       *)
LEMMA BytesPrefix ==
  ASSUME NEW frame \in ValidFrames, NEW i \in 0..Len(frame.segments),
         NEW k \in 1..EndOf(frame, i)
  PROVE  BytesTo(frame, Len(frame.segments))[k] = BytesTo(frame, i)[k]
<1> DEFINE N == Len(frame.segments)
           all == BytesTo(frame, N)
           H == {n \in 0..N : \A l \in 1..EndOf(frame, n) : all[l] = BytesTo(frame, n)[l]}
<1>1. N \in Nat /\ \A n \in 0..N : EndOf(frame, n) \in Nat
  BY FrameParts, BytesType
<1>2. N \in H
  BY <1>1
<1>3. \A n \in 0..(N - 1) : n + 1 \in H => n \in H
  <2> TAKE n \in 0..(N - 1)
  <2> HAVE n + 1 \in H
  <2>1. n \in 0..N
    BY <1>1
  <2>2. ASSUME NEW l \in 1..EndOf(frame, n) PROVE all[l] = BytesTo(frame, n)[l]
    <3>1. BytesTo(frame, n + 1)[l] = BytesTo(frame, n)[l]
      BY SegmentJoins DEF JoinedAre
    <3>2. l \in 1..EndOf(frame, n + 1)
      BY SegmentEnds
    <3> QED BY <3>1, <3>2
  <2> QED BY <2>1, <2>2
<1>4. 0..N \subseteq H
  <2> HIDE DEF H, N
  <2> QED BY <1>1, <1>2, <1>3, Downward
<1> QED BY <1>4

(* The frame, cut off.                                                     *)
LEMMA FrameBytesAre ==
  ASSUME NEW frame \in ValidFrames
  PROVE  /\ FrameBytes(frame) \in Seq(Octets) /\ Len(FrameBytes(frame)) \in Nat
         /\ Len(FrameBytes(frame)) <= EndOf(frame, Len(frame.segments))
         /\ \A k \in 1..Len(FrameBytes(frame)) :
              FrameBytes(frame)[k] = BytesTo(frame, Len(frame.segments))[k]
<1> DEFINE N == Len(frame.segments)
           all == BytesTo(frame, N)
           e == Len(all) - frame.cut
           sent == SubSeq(all, 1, e)
<1>1. N \in Nat /\ frame.cut \in Nat /\ all \in Seq(Octets) /\ Len(all) \in Nat
      /\ EndOf(frame, N) = Len(all)
  <2>1. N \in Nat /\ frame.cut \in Nat /\ N \in 0..N
    BY FrameParts
  <2> QED BY <2>1, BytesType DEF EndOf
<1>2. FrameBytes(frame) = sent
  BY DEF FrameBytes
<1> HIDE DEF all, N
<1>3. \A i \in 1..e : all[i] \in Octets
  BY <1>1
<1>4. /\ sent \in Seq(Octets) /\ Len(sent) = IF 1 <= e THEN e - 1 + 1 ELSE 0
      /\ \A i \in 1..(e - 1 + 1) : sent[i] = all[1 + i - 1]
  <2>1. e \in Int /\ 1 \in Int
    BY <1>1
  <2> HIDE DEF e
  <2> QED BY <1>3, <2>1, SubSeqProperties
<1> HIDE DEF sent
<1>5. \A k \in 1..Len(sent) : sent[k] = all[k]
  <2> TAKE k \in 1..Len(sent)
  <2>1. k \in 1..(e - 1 + 1) /\ 1 + k - 1 = k
    BY <1>1, <1>4
  <2> QED BY <1>4, <2>1
<1>6. Len(sent) \in Nat /\ Len(sent) <= Len(all)
  BY <1>1, <1>4
<1> QED BY <1>1, <1>2, <1>4, <1>5, <1>6 DEF all, N

(* Each byte of a segment has its place in the frame.                      *)
LEMMA SegmentAt ==
  ASSUME NEW frame \in ValidFrames, NEW i \in 0..(Len(frame.segments) - 1),
         NEW k \in 1..Len(SegmentBytes(frame.segments[i + 1])),
         EndOf(frame, i) + k <= Len(FrameBytes(frame))
  PROVE  FrameBytes(frame)[EndOf(frame, i) + k] = SegmentBytes(frame.segments[i + 1])[k]
<1>1. PICK j : j = EndOf(frame, i) + k
  OBVIOUS
<1>2. PICK m : m = i + 1
  OBVIOUS
<1>3. m \in 0..Len(frame.segments)
  BY <1>2, FrameParts
<1>4. j \in 1..EndOf(frame, m) /\ j \in 1..Len(FrameBytes(frame))
  BY <1>1, <1>2, SegmentEnds, FrameBytesAre
<1>5. FrameBytes(frame)[j] = BytesTo(frame, Len(frame.segments))[j]
  BY <1>4, FrameBytesAre
<1>6. BytesTo(frame, Len(frame.segments))[j] = BytesTo(frame, m)[j]
  BY <1>3, <1>4, BytesPrefix
<1>7. BytesTo(frame, m)[j] = SegmentBytes(frame.segments[m])[k]
  BY <1>1, <1>2, SegmentJoins DEF JoinedAre
<1> QED BY <1>1, <1>2, <1>5, <1>6, <1>7

-------------------------------------------------------------------------------
(* Segments: the walk *)

(* A run of FF bytes ends at the first byte that is another.               *)
LEMMA AfterFillIs ==
  ASSUME NEW bytes \in Seq(Octets), NEW offset \in 0..Len(bytes), NEW at \in offset..Len(bytes),
         \A i \in offset..(at - 1) : Byte(bytes, i) = 255,
         at < Len(bytes) => Byte(bytes, at) # 255
  PROVE  AfterFill(bytes, offset) = at
<1> DEFINE S == {i \in offset..(Len(bytes) - 1) : Byte(bytes, i) # 255} \cup {Len(bytes)}
<1>1. Len(bytes) \in Nat
  OBVIOUS
<1>2. S \in SUBSET Int
  BY <1>1
<1>3. at \in S
  BY <1>1
<1>4. ASSUME NEW k \in S PROVE at <= k
  <2>1. CASE k = Len(bytes)
    BY <1>1, <2>1
  <2>2. CASE k \in offset..(Len(bytes) - 1) /\ Byte(bytes, k) # 255
    <3>1. k \notin offset..(at - 1)
      BY <2>2
    <3> QED BY <1>1, <2>2, <3>1
  <2> QED BY <2>1, <2>2
<1>5. AfterFill(bytes, offset) = Min(S)
  BY DEF AfterFill
<1> HIDE DEF S
<1> QED BY <1>2, <1>3, <1>4, <1>5, MinIs

(* A run of FF bytes ends no earlier than it starts and within the frame.  *)
LEMMA AfterFillIn ==
  ASSUME NEW bytes \in Seq(Octets), NEW offset \in 0..Len(bytes)
  PROVE  AfterFill(bytes, offset) \in offset..Len(bytes)
<1> DEFINE S == {i \in offset..(Len(bytes) - 1) : Byte(bytes, i) # 255} \cup {Len(bytes)}
<1>1. Len(bytes) \in Nat
  OBVIOUS
<1>2. S \in SUBSET Nat /\ S # {} /\ S \subseteq offset..Len(bytes)
  BY <1>1
<1>3. AfterFill(bytes, offset) = Min(S)
  BY DEF AfterFill
<1> HIDE DEF S
<1> QED BY <1>2, <1>3, MinOf

(* The length of a segment is a number if both its bytes are there.        *)
LEMMA LengthIsNat ==
  ASSUME NEW bytes \in Seq(Octets), NEW at \in Nat, at + 2 <= Len(bytes)
  PROVE  BigEndian16(bytes, at) \in Nat
<1>1. PICK i, j : i = at + 1 /\ j = (at + 1) + 1
  OBVIOUS
<1>2. i \in 1..Len(bytes) /\ j \in 1..Len(bytes)
  BY <1>1
<1>3. bytes[i] \in Octets /\ bytes[j] \in Octets
  BY <1>2
<1>4. bytes[i] \in Nat /\ bytes[j] \in Nat
  BY <1>3 DEF Octets, Below
<1> QED BY <1>1, <1>4 DEF BigEndian16, Byte

(* A round goes by what is found from later offsets only.                  *)
LEMMA WalkLooksAhead ==
  ASSUME NEW bytes \in Seq(Octets), NEW offset \in 0..Len(bytes), NEW f, NEW g,
         \A i \in (offset + 1)..Len(bytes) : f[i] = g[i]
  PROVE  SizeFrom(bytes, offset, f) = SizeFrom(bytes, offset, g)
<1> DEFINE at == AfterFill(bytes, offset)
           length == BigEndian16(bytes, at + 1)
<1>1. Len(bytes) \in Nat /\ at \in offset..Len(bytes) /\ at \in Nat
  BY AfterFillIn
<1>2. CASE offset + 4 > Len(bytes) \/ at = Len(bytes)
  BY <1>2 DEF SizeFrom
<1>3. CASE ~ (offset + 4 > Len(bytes) \/ at = Len(bytes)) /\ Byte(bytes, at) \in Standalone
  <2>1. PICK n : n = at + 1
    OBVIOUS
  <2>2. n \in (offset + 1)..Len(bytes)
    BY <1>1, <1>3, <2>1
  <2>3. f[at + 1] = g[at + 1]
    BY <2>1, <2>2
  <2> QED BY <1>3, <2>3 DEF SizeFrom
<1>4. CASE /\ ~ (offset + 4 > Len(bytes) \/ at = Len(bytes)) /\ Byte(bytes, at) \notin Standalone
           /\ \/ Byte(bytes, at) \in {EndOfImage, StartOfScan} \/ at + 3 > Len(bytes)
              \/ length < 2 \/ at + 1 + length > Len(bytes)
  BY <1>4 DEF SizeFrom
<1>5. CASE /\ ~ (offset + 4 > Len(bytes) \/ at = Len(bytes)) /\ Byte(bytes, at) \notin Standalone
           /\ ~ (Byte(bytes, at) \in {EndOfImage, StartOfScan} \/ at + 3 > Len(bytes)
                 \/ length < 2 \/ at + 1 + length > Len(bytes))
  <2>1. length \in Nat
    BY <1>1, <1>5, LengthIsNat
  <2>2. PICK n : n = NextSegment(bytes, at + 1)
    OBVIOUS
  <2>3. n = at + 1 + length
    BY <2>2 DEF NextSegment
  <2>4. n \in (offset + 1)..Len(bytes)
    <3> HIDE DEF at, length
    <3> QED BY <1>1, <1>5, <2>1, <2>3
  <2>5. f[NextSegment(bytes, at + 1)] = g[NextSegment(bytes, at + 1)]
    BY <2>2, <2>4
  <2> QED BY <1>5, <2>5 DEF SizeFrom
<1> QED BY <1>2, <1>3, <1>4, <1>5

(* So the walk is what its definition says.                                *)
LEMMA WalkDef ==
  ASSUME NEW bytes \in Seq(Octets)
  PROVE  \A offset \in 0..Len(bytes) :
           Walk(bytes)[offset] = SizeFrom(bytes, offset, Walk(bytes))
<1> DEFINE L == Len(bytes)
           Has(n) == \E f : f = [i \in n..L |-> SizeFrom(bytes, i, f)]
           H == {n \in 0..L : Has(n)}
<1>1. L \in Nat
  OBVIOUS
<1>2. Has(L)
  <2> DEFINE f == [i \in L..L |-> SizeFrom(bytes, i, <<>>)]
  <2>1. \A i \in L..L : SizeFrom(bytes, i, <<>>) = SizeFrom(bytes, i, f)
    <3> TAKE i \in L..L
    <3>1. i \in 0..Len(bytes) /\ (i + 1)..Len(bytes) = {}
      BY <1>1
    <3> HIDE DEF f
    <3> QED BY <3>1, WalkLooksAhead
  <2>2. f = [i \in L..L |-> SizeFrom(bytes, i, f)]
    BY <2>1
  <2> QED BY <2>2
<1>3. ASSUME NEW n \in 0..(L - 1), Has(n + 1) PROVE Has(n)
  <2>1. PICK f : f = [i \in (n + 1)..L |-> SizeFrom(bytes, i, f)]
    BY <1>3
  <2> DEFINE g == [i \in n..L |-> IF i = n THEN SizeFrom(bytes, n, f) ELSE f[i]]
  <2>2. \A i \in n..L : g[i] = SizeFrom(bytes, i, g)
    <3> TAKE i \in n..L
    <3>1. i \in 0..Len(bytes)
      BY <1>1
    <3>2. \A k \in (i + 1)..Len(bytes) : g[k] = f[k]
      BY <1>1
    <3>3. SizeFrom(bytes, i, g) = SizeFrom(bytes, i, f)
      <4> HIDE DEF g
      <4> QED BY <3>1, <3>2, WalkLooksAhead
    <3>4. CASE i = n
      BY <3>3, <3>4
    <3>5. CASE i # n
      <4>1. i \in (n + 1)..L
        BY <1>1, <3>5
      <4>2. f[i] = SizeFrom(bytes, i, f)
        BY <2>1, <4>1
      <4> QED BY <3>3, <3>5, <4>2
    <3> QED BY <3>4, <3>5
  <2>3. g = [i \in n..L |-> SizeFrom(bytes, i, g)]
    BY <2>2
  <2> QED BY <2>3
<1> HIDE DEF Has
<1>4. 0..L \subseteq H
  <2>1. L \in H
    BY <1>1, <1>2
  <2>2. \A k \in 0..(L - 1) : k + 1 \in H => k \in H
    BY <1>1, <1>3
  <2> HIDE DEF H, L
  <2> QED BY <1>1, <2>1, <2>2, Downward
<1>5. Has(0)
  BY <1>1, <1>4
<1> DEFINE F(f) == f = [offset \in 0..Len(bytes) |-> SizeFrom(bytes, offset, f)]
<1>6. \E f : F(f)
  BY <1>5 DEF Has
<1>7. F(CHOOSE f : F(f))
  BY <1>6
<1>8. Walk(bytes) = CHOOSE f : F(f)
  BY DEF Walk
<1>9. Walk(bytes) = [offset \in 0..Len(bytes) |-> SizeFrom(bytes, offset, Walk(bytes))]
  BY <1>7, <1>8
<1> QED BY <1>9

-------------------------------------------------------------------------------
(* Segments: one round of the walk, at the end of a segment *)

(* A segment the walk passes or finds the size in; all else ends it.       *)
Known(segment) ==
  segment.marker \notin Standalone => segment.length = Len(segment.body) + 2
(* Segments the walk passes, and those it takes the size from.             *)
Passed(segment) == segment.marker \notin {EndOfImage, StartOfScan} /\ Known(segment)
IsHeader(segment) == IsStartOfFrame(segment.marker) /\ segment.length >= 7

(* A frame header is a segment with a length, and does not end the walk.   *)
LEMMA HeadersAreLong ==
  ASSUME NEW segment, IsHeader(segment)
  PROVE  ~ Bare(segment) /\ segment.marker \notin Standalone
         /\ segment.marker \notin {EndOfImage, StartOfScan}
<1>1. segment.marker \in 192..207
  BY DEF IsHeader, IsStartOfFrame
<1>2. segment.marker \notin 208..216 /\ segment.marker # 1
      /\ segment.marker # 217 /\ segment.marker # 218
  BY <1>1
<1> QED BY <1>2 DEF Bare, Standalone, EndOfImage, StartOfScan

(* Where the bytes of a segment that begins at p lie.                      *)
LEMMA Places ==
  ASSUME NEW p \in Nat, NEW fill \in Nat, NEW at, at = p + fill
  PROVE  /\ \A o \in p..(at - 1) :
              o \in Nat /\ o - p + 1 \in 1..fill /\ o = p + (o - p + 1) - 1
         /\ at + 1 \in Nat /\ at + 1 = p + (fill + 2) - 1
         /\ (at + 1) + 1 \in Nat /\ (at + 1) + 1 = p + (fill + 3) - 1
OBVIOUS

(* Segment i + 1 begins at p and has its marker at at.                     *)
MarkerAt(frame, i, p, fill, at) ==
  p = EndOf(frame, i) /\ fill = frame.segments[i + 1].fill /\ at = p + fill

(* What the walk reads of a segment, if it is there.                       *)
LEMMA RoundReads ==
  ASSUME NEW frame \in ValidFrames, NEW i \in 0..(Len(frame.segments) - 1),
         NEW bytes, bytes = FrameBytes(frame),
         NEW segment, segment = frame.segments[i + 1],
         NEW p, NEW fill, NEW at, MarkerAt(frame, i, p, fill, at),
         at < Len(bytes)
  PROVE  /\ AfterFill(bytes, p) = at /\ Byte(bytes, at) = segment.marker
         /\ ~ Bare(segment) /\ at + 3 <= Len(bytes) =>
              BigEndian16(bytes, at + 1) = segment.length
<1> DEFINE sb == SegmentBytes(segment)
<1>0. PICK n : n = Len(sb)
  OBVIOUS
<1>12. fill = segment.fill /\ p = EndOf(frame, i) /\ at = p + fill
  BY DEF MarkerAt
<1>1. bytes \in Seq(Octets) /\ Len(bytes) \in Nat
  BY FrameBytesAre
<1>2. p \in Nat /\ segment \in ValidSegments /\ segment.marker \in Nat /\ segment.marker < 255
      /\ segment.length \in Nat
  <2>1. i + 1 \in 1..Len(frame.segments)
    BY FrameParts
  <2>2. segment \in ValidSegments
    BY <2>1, FrameParts
  <2> QED BY <1>12, <2>2, SegmentParts, SegmentEnds
<1>3. SegmentIs(segment, sb)
  BY SegmentJoins
<1>4. fill \in Nat /\ n \in Nat /\ n >= fill + 1 /\ (~ Bare(segment) => n >= fill + 3)
  <2>1. PICK l : l = Len(segment.body)
    OBVIOUS
  <2>2. Sized(segment, fill, l, n)
    BY <1>0, <1>2, <1>12, <2>1, SegmentSize
  <2> QED BY <2>2 DEF Sized
<1>5. ASSUME NEW k \in 1..n, NEW o \in Nat, o = p + k - 1, o < Len(bytes)
      PROVE  Byte(bytes, o) = sb[k]
  <2>1. p + k <= Len(bytes) /\ o + 1 = p + k
    <3>1. PICK all : all = Len(bytes)
      OBVIOUS
    <3>2. all \in Nat /\ n \in Nat /\ p \in Nat /\ o < all
      BY <1>1, <1>2, <1>4, <1>5, <3>1
    <3>3. p + k <= all /\ o + 1 = p + k
      BY <1>5, <3>2
    <3> QED BY <3>1, <3>3
  <2>2. bytes[p + k] = sb[k]
    BY <1>0, <1>5, <1>12, <2>1, SegmentAt
  <2> QED BY <2>1, <2>2 DEF Byte
<1> HIDE DEF sb
<1>9. p \in Nat /\ fill \in Nat /\ at \in Nat /\ at = p + fill
  <2>1. p \in Nat /\ fill \in Nat
    BY <1>2, <1>4
  <2>2. at = p + fill
    BY <1>12
  <2> QED BY <2>1, <2>2
<1>10. PICK size : size = Len(bytes)
  OBVIOUS
<1>11. size \in Nat /\ at < size
  BY <1>1, <1>10
<1>6. Byte(bytes, at) = segment.marker
  <2>2. PICK k : k = fill + 1
    OBVIOUS
  <2>1. k \in 1..n /\ at \in Nat /\ at = p + k - 1
    BY <1>2, <1>4, <1>9, <2>2
  <2>3. Byte(bytes, at) = sb[k]
    BY <1>5, <2>1
  <2>4. sb[fill + 1] = segment.marker
    BY <1>12, <1>3 DEF SegmentIs
  <2> QED BY <2>2, <2>3, <2>4
<1>7. AfterFill(bytes, p) = at
  <2>1. ASSUME NEW o \in p..(at - 1) PROVE Byte(bytes, o) = 255
    <3>1. PICK k : k = o - p + 1
      OBVIOUS
    <3>2. k \in 1..n /\ k \in 1..fill /\ o \in Nat /\ o = p + k - 1 /\ o < Len(bytes)
      <4>1. o \in Nat /\ k \in 1..fill /\ o = p + k - 1
        BY <1>9, <3>1, Places
      <4>2. k \in 1..n
        BY <1>4, <4>1
      <4>3. o < Len(bytes)
        BY <1>9, <1>10, <1>11
      <4> QED BY <4>1, <4>2, <4>3
    <3>3. Byte(bytes, o) = sb[k]
      BY <1>5, <3>2
    <3>4. sb[k] = 255
      BY <1>12, <1>3, <3>2 DEF SegmentIs
    <3> QED BY <3>3, <3>4
  <2>2. p \in 0..Len(bytes) /\ at \in p..Len(bytes) /\ Byte(bytes, at) # 255
    BY <1>1, <1>2, <1>4, <1>6, <1>9
  <2> QED BY <1>1, <2>1, <2>2, AfterFillIs
<1>8. ~ Bare(segment) /\ at + 3 <= Len(bytes) => BigEndian16(bytes, at + 1) = segment.length
  <2> HAVE ~ Bare(segment) /\ at + 3 <= Len(bytes)
  <2>1. PICK j, k : j = fill + 2 /\ k = fill + 3
    OBVIOUS
  <2>2. PICK o, q : o = at + 1 /\ q = (at + 1) + 1
    OBVIOUS
  <2>3. /\ j \in 1..n /\ o \in Nat /\ o = p + j - 1 /\ o < Len(bytes)
        /\ k \in 1..n /\ q \in Nat /\ q = p + k - 1 /\ q < Len(bytes)
    <3>1. j \in 1..n /\ k \in 1..n
      BY <1>4, <2>1
    <3>2. o \in Nat /\ o = p + j - 1 /\ q \in Nat /\ q = p + k - 1
      BY <1>9, <2>1, <2>2, Places
    <3>3. o < Len(bytes) /\ q < Len(bytes)
      <4>1. at + 3 <= size
        BY <1>10
      <4>2. o < size /\ q < size
        BY <1>9, <1>11, <2>2, <4>1
      <4> QED BY <1>10, <4>2
    <3> QED BY <3>1, <3>2, <3>3
  <2>4. Byte(bytes, o) = sb[j] /\ Byte(bytes, q) = sb[k]
    BY <1>5, <2>3
  <2>5. sb[j] = segment.length \div 256 /\ sb[k] = segment.length % 256
    <3>1. (fill + 1) + 1 = j /\ (fill + 1) + 2 = k
      BY <1>4, <2>1
    <3>2. sb[(fill + 1) + 1] = segment.length \div 256 /\ sb[(fill + 1) + 2] = segment.length % 256
      BY <1>12, <1>3 DEF SegmentIs
    <3> QED BY <3>1, <3>2
  <2>6. 256 * (segment.length \div 256) + (segment.length % 256) = segment.length
    BY <1>2
  <2> QED BY <2>2, <2>4, <2>5, <2>6 DEF BigEndian16
<1> QED BY <1>6, <1>7, <1>8

(* The walk finds nothing at a segment that is cut off, ends the headers   *)
(* or has a wrong length.                                                  *)
LEMMA RoundStops ==
  ASSUME NEW frame \in ValidFrames, NEW i \in 0..(Len(frame.segments) - 1),
         NEW bytes, bytes = FrameBytes(frame),
         NEW segment, segment = frame.segments[i + 1],
         NEW p, p = EndOf(frame, i), p <= Len(bytes),
         EndOf(frame, i + 1) > Len(bytes) \/ ~ Passed(segment)
  PROVE  Walk(bytes)[p] = NoSize
<1>0. PICK fill, l, length : fill = segment.fill /\ l = Len(segment.body) /\ length = segment.length
  OBVIOUS
<1>1. bytes \in Seq(Octets) /\ Len(bytes) \in Nat
  BY FrameBytesAre
<1>2. /\ p \in Nat /\ fill \in Nat /\ l \in Nat /\ length \in Nat /\ segment \in ValidSegments
      /\ length = l + 2 \/ length < 2 \/ length > Len(bytes)
  <2>1. i + 1 \in 1..Len(frame.segments) /\ i + 1 \in DOMAIN frame.segments
    BY FrameParts
  <2>2. segment \in ValidSegments
    BY <2>1, FrameParts
  <2>3. \/ segment.length = Len(segment.body) + 2 \/ segment.length < 2
        \/ segment.length > Len(bytes)
    BY <2>1 DEF ValidFrames
  <2>4. fill \in Nat /\ l \in Nat /\ length \in Nat
    BY <1>0, <2>2, SegmentParts
  <2> QED BY <1>0, <2>2, <2>3, <2>4, SegmentEnds
<1>3. PICK n : n = Len(SegmentBytes(segment))
  OBVIOUS
<1>8. /\ n \in Nat /\ n >= fill /\ EndOf(frame, i + 1) = p + n
      /\ Bare(segment) => n = fill + 1 + l
      /\ ~ Bare(segment) => n = fill + 3 + l
  <2>1. EndOf(frame, i + 1) = p + n
    BY <1>3, SegmentEnds
  <2>2. Sized(segment, fill, l, n)
    BY <1>0, <1>2, <1>3, SegmentSize
  <2> QED BY <2>1, <2>2 DEF Sized
<1>4. Walk(bytes)[p] = SizeFrom(bytes, p, Walk(bytes))
  BY <1>1, <1>2, WalkDef
<1>5. PICK at : at = p + fill
  OBVIOUS
<1>6. CASE at >= Len(bytes)
  <2>1. AfterFill(bytes, p) = Len(bytes)
    <3>1. ASSUME NEW o \in p..(Len(bytes) - 1) PROVE Byte(bytes, o) = 255
      <4>1. PICK k : k = o - p + 1
        OBVIOUS
      <4>2. k \in 1..fill /\ k \in 1..n /\ p + k = o + 1 /\ p + k <= Len(bytes)
        <5>1. PICK all : all = Len(bytes)
          OBVIOUS
        <5>2. /\ all \in Nat /\ p \in Nat /\ fill \in Nat /\ n \in Nat /\ n >= fill
              /\ p + fill >= all
          BY <1>1, <1>2, <1>5, <1>6, <1>8, <5>1
        <5>3. o \in p..(all - 1)
          BY <5>1
        <5>4. o \in Int /\ p <= o /\ o + 1 <= all
          BY <5>2, <5>3
        <5>5. k \in Int /\ p + k = o + 1 /\ 1 <= k
          BY <4>1, <5>2, <5>4, SMTT(20)
        <5>6. k <= fill /\ k <= n /\ p + k <= all
          BY <5>2, <5>4, <5>5
        <5> QED BY <5>1, <5>2, <5>5, <5>6
      <4>3. SegmentIs(segment, SegmentBytes(segment))
        BY SegmentJoins
      <4>4. SegmentBytes(segment)[k] = 255
        BY <1>0, <4>2, <4>3 DEF SegmentIs
      <4>5. bytes[p + k] = 255
        <5>1. k \in 1..Len(SegmentBytes(segment))
          BY <1>3, <4>2
        <5>2. bytes[p + k] = SegmentBytes(segment)[k]
          BY <4>2, <5>1, SegmentAt
        <5> QED BY <4>4, <5>2
      <4> QED BY <4>2, <4>5 DEF Byte
    <3>2. p \in 0..Len(bytes) /\ Len(bytes) \in p..Len(bytes)
      BY <1>1, <1>2
    <3> QED BY <1>1, <3>1, <3>2, AfterFillIs
  <2> QED BY <1>4, <2>1 DEF SizeFrom
<1>7. CASE at < Len(bytes)
  <2>1. /\ AfterFill(bytes, p) = at /\ Byte(bytes, at) = segment.marker
        /\ ~ Bare(segment) /\ at + 3 <= Len(bytes) => BigEndian16(bytes, at + 1) = segment.length
    <3>1. MarkerAt(frame, i, p, fill, at)
      BY <1>0, <1>5 DEF MarkerAt
    <3> QED BY <1>7, <3>1, RoundReads
  <2>2. CASE p + 4 > Len(bytes)
    BY <1>4, <2>2 DEF SizeFrom
  <2>3. CASE segment.marker \in Standalone
    <3>1. EndOf(frame, i + 1) = at + 1
      <4>1. l = 0 /\ Bare(segment)
        BY <1>0, <1>2, <2>3, StandaloneIsEmpty DEF Bare
      <4> QED BY <1>2, <1>5, <1>8, <4>1
    <3>2. Passed(segment)
      <4>1. 217 \notin {1} \cup 208..216 /\ 218 \notin {1} \cup 208..216
        OBVIOUS
      <4>2. segment.marker \notin {EndOfImage, StartOfScan}
        BY <2>3, <4>1 DEF Standalone, EndOfImage, StartOfScan
      <4> QED BY <2>3, <4>2 DEF Passed, Known
    <3> QED BY <1>1, <1>2, <1>5, <1>7, <3>1, <3>2
  <2>4. CASE segment.marker \notin Standalone /\ segment.marker \in {EndOfImage, StartOfScan}
    BY <1>4, <2>1, <2>4 DEF SizeFrom
  <2>5. CASE segment.marker \notin Standalone /\ segment.marker \notin {EndOfImage, StartOfScan}
    <3>1. ~ Bare(segment)
      BY <2>5 DEF Bare
    <3>2. CASE at + 3 > Len(bytes)
      BY <1>4, <2>1, <2>5, <3>2 DEF SizeFrom
    <3>3. CASE at + 3 <= Len(bytes)
      <4>1. BigEndian16(bytes, at + 1) = segment.length
        BY <2>1, <3>1, <3>3
      <4>2. segment.length < 2 \/ at + 1 + segment.length > Len(bytes)
        <5>1. CASE length = l + 2
          <6>1. Passed(segment)
            BY <1>0, <2>5, <5>1 DEF Passed, Known
          <6>2. EndOf(frame, i + 1) = at + 1 + length
            BY <1>2, <1>5, <1>8, <3>1, <5>1
          <6> QED BY <1>0, <6>1, <6>2
        <5>2. CASE length > Len(bytes)
          <6>1. at + 1 + length > Len(bytes)
            BY <1>1, <1>2, <1>5, <5>2
          <6> QED BY <1>0, <6>1
        <5> QED BY <1>0, <1>2, <5>1, <5>2
      <4> QED BY <1>4, <2>1, <2>5, <3>3, <4>1, <4>2 DEF SizeFrom
    <3> QED BY <1>1, <1>2, <1>5, <3>2, <3>3
  <2> QED BY <2>3, <2>4, <2>5
<1> QED BY <1>1, <1>2, <1>5, <1>6, <1>7

(* The size a header's body holds.                                         *)
SizeOf(body) ==
  LET size == [w |-> 256 * body[4] + body[5], h |-> 256 * body[2] + body[3]]
  IN IF size.w = 0 \/ size.h = 0 THEN NoSize ELSE size

(* What is known of a whole segment, in numbers.                           *)
Whole(frame, i, segment, p, fill, at, size, length) ==
  /\ MarkerAt(frame, i, p, fill, at) /\ fill \in Nat /\ p \in Nat /\ at \in Nat
  /\ at = p + fill /\ size = Len(FrameBytes(frame)) /\ size \in Nat /\ at < size
  /\ length = segment.length /\ length \in Nat
  /\ segment.marker \in Standalone => Bare(segment) /\ EndOf(frame, i + 1) = at + 1
  /\ segment.marker \notin Standalone =>
       /\ ~ Bare(segment) /\ length = Len(segment.body) + 2
       /\ EndOf(frame, i + 1) = at + 1 + length
  /\ EndOf(frame, i + 1) \in (p + 1)..size

(* A segment that ends within the bytes left is there as a whole.          *)
LEMMA SegmentWhole ==
  ASSUME NEW frame \in ValidFrames, NEW i \in 0..(Len(frame.segments) - 1),
         NEW segment, segment = frame.segments[i + 1], Passed(segment),
         EndOf(frame, i + 1) <= Len(FrameBytes(frame))
  PROVE  \E p, fill, at, size, length : Whole(frame, i, segment, p, fill, at, size, length)
<1>1. PICK fill, l, length, n :
        /\ fill = segment.fill /\ l = Len(segment.body) /\ length = segment.length
        /\ n = Len(SegmentBytes(segment))
  OBVIOUS
<1>2. segment \in ValidSegments
  <2>1. i + 1 \in 1..Len(frame.segments)
    BY FrameParts
  <2> QED BY <2>1, FrameParts
<1>3. Sized(segment, fill, l, n)
  BY <1>1, <1>2, SegmentSize
<1>4. length \in Nat
  BY <1>1, <1>2, SegmentParts
<1>5. PICK p : p = EndOf(frame, i)
  OBVIOUS
<1>6. PICK e : e = EndOf(frame, i + 1)
  OBVIOUS
<1>7. p \in Nat /\ e = p + n
  BY <1>1, <1>5, <1>6, SegmentEnds
<1>8. PICK at : at = p + fill
  OBVIOUS
<1>9. PICK size : size = Len(FrameBytes(frame))
  OBVIOUS
<1>10. size \in Nat /\ e <= size
  BY <1>6, <1>9, FrameBytesAre
<1>11. MarkerAt(frame, i, p, fill, at)
  BY <1>1, <1>5, <1>8 DEF MarkerAt
<1>12. at \in Nat /\ fill \in Nat /\ at < size /\ e \in (p + 1)..size
  BY <1>3, <1>7, <1>8, <1>10 DEF Sized
<1>13. segment.marker \in Standalone => Bare(segment) /\ e = at + 1
  <2> HAVE segment.marker \in Standalone
  <2>1. l = 0 /\ Bare(segment)
    BY <1>1, <1>2, StandaloneIsEmpty DEF Bare
  <2> QED BY <1>3, <1>7, <1>8, <2>1 DEF Sized
<1>14. segment.marker \notin Standalone => ~ Bare(segment) /\ length = l + 2 /\ e = at + 1 + length
  <2> HAVE segment.marker \notin Standalone
  <2>1. ~ Bare(segment) /\ length = l + 2
    BY <1>1 DEF Passed, Known, Bare
  <2> QED BY <1>3, <1>7, <1>8, <2>1 DEF Sized
<1>15. length = segment.length /\ l = Len(segment.body)
  BY <1>1
<1> QED
  <2>1. Whole(frame, i, segment, p, fill, at, size, length)
    BY <1>4, <1>6, <1>7, <1>8, <1>9, <1>10, <1>11, <1>12, <1>13, <1>14, <1>15, Zenon DEF Whole
  <2> QED BY <2>1

(* In a header the walk finds the size that the header holds.              *)
LEMMA RoundHeader ==
  ASSUME NEW frame \in ValidFrames, NEW i \in 0..(Len(frame.segments) - 1),
         NEW bytes, bytes = FrameBytes(frame),
         NEW segment, segment = frame.segments[i + 1],
         EndOf(frame, i + 1) <= Len(bytes), Passed(segment), IsHeader(segment)
  PROVE  Walk(bytes)[EndOf(frame, i)] = SizeOf(segment.body)
<1>0. PICK p, fill, at, size, length : Whole(frame, i, segment, p, fill, at, size, length)
  BY SegmentWhole
<1>1. /\ MarkerAt(frame, i, p, fill, at) /\ fill \in Nat /\ p \in Nat /\ at \in Nat
      /\ at = p + fill /\ size = Len(bytes) /\ size \in Nat /\ at < size
      /\ length = segment.length /\ length \in Nat
      /\ segment.marker \in Standalone => Bare(segment) /\ EndOf(frame, i + 1) = at + 1
      /\ segment.marker \notin Standalone =>
           /\ ~ Bare(segment) /\ length = Len(segment.body) + 2
           /\ EndOf(frame, i + 1) = at + 1 + length
      /\ EndOf(frame, i + 1) \in (p + 1)..size
  BY <1>0, Zenon DEF Whole
<1>20. MarkerAt(frame, i, p, fill, at) /\ at < Len(bytes)
  BY <1>1
<1>2. /\ ~ Bare(segment) /\ segment.marker \notin Standalone /\ IsStartOfFrame(segment.marker)
      /\ segment.marker \notin {EndOfImage, StartOfScan} /\ segment.length >= 7
  BY HeadersAreLong DEF IsHeader
<1>3. PICK l : l = Len(segment.body)
  OBVIOUS
<1>4. length = l + 2 /\ l \in Nat /\ l >= 5 /\ at + 1 + length <= size
  <2>1. segment \in ValidSegments
    <3>1. i + 1 \in 1..Len(frame.segments)
      BY FrameParts
    <3> QED BY <3>1, FrameParts
  <2>2. l \in Nat
    BY <1>3, <2>1, SegmentParts
  <2>3. length = l + 2 /\ length >= 7
    BY <1>1, <1>2, <1>3
  <2>4. EndOf(frame, i + 1) = at + 1 + length /\ EndOf(frame, i + 1) <= size
    BY <1>1, <1>2
  <2> QED BY <2>2, <2>3, <2>4
<1>5. /\ AfterFill(bytes, p) = at /\ Byte(bytes, at) = segment.marker
      /\ at + 3 <= Len(bytes) => BigEndian16(bytes, at + 1) = segment.length
  BY <1>2, <1>20, RoundReads
<1>6. ~ (p + 4 > size) /\ at # size /\ ~ (at + 3 > size) /\ at + 3 <= size
      /\ ~ (length < 2) /\ ~ (at + 1 + length > size) /\ length >= 7
  <2>1. fill \in Nat /\ p \in Nat /\ at \in Nat /\ at = p + fill /\ size \in Nat /\ at < size
    BY <1>1
  <2> QED BY <1>4, <2>1
<1>7. SizeFrom(bytes, p, Walk(bytes)) = SizeAt(bytes, at + 1)
  <2>1. /\ ~ (p + 4 > Len(bytes)) /\ at # Len(bytes) /\ ~ (at + 3 > Len(bytes))
        /\ BigEndian16(bytes, at + 1) = length
        /\ ~ (length < 2) /\ ~ (at + 1 + length > Len(bytes)) /\ length >= 7
    BY <1>1, <1>5, <1>6
  <2> QED BY <1>2, <1>5, <2>1 DEF SizeFrom
<1>8. Walk(bytes)[p] = SizeFrom(bytes, p, Walk(bytes))
  <2>1. p \in 0..Len(bytes) /\ bytes \in Seq(Octets)
    BY <1>1, FrameBytesAre
  <2> QED BY <2>1, WalkDef
<1>9. ASSUME NEW k \in 1..l, NEW o, o = at + 2 + k PROVE Byte(bytes, o) = segment.body[k]
  <2>1. PICK j : j = fill + 3 + k
    OBVIOUS
  <2>2. SegmentIs(segment, SegmentBytes(segment))
    BY SegmentJoins
  <2>3. p = EndOf(frame, i) /\ fill = segment.fill
    BY <1>1 DEF MarkerAt
  <2>4. PICK n : n = Len(SegmentBytes(segment))
    OBVIOUS
  <2>5. EndOf(frame, i + 1) = p + n /\ n \in Nat
    BY <2>3, <2>4, SegmentEnds
  <2>6. n = fill + 3 + l
    BY <1>1, <1>2, <1>4, <2>5
  <2>7. j \in 1..n /\ p + j <= size /\ o + 1 = p + j
    BY <1>1, <1>4, <1>9, <2>1, <2>5, <2>6
  <2>8. bytes[p + j] = SegmentBytes(segment)[j]
    BY <1>1, <2>3, <2>4, <2>7, SegmentAt
  <2>9. SegmentBytes(segment)[j] = segment.body[k]
    <3>1. (fill + 1) + 2 + k = j
      BY <1>1, <2>1
    <3>2. SegmentBytes(segment)[(fill + 1) + 2 + k] = segment.body[k]
      BY <1>2, <1>3, <1>9, <2>2, <2>3 DEF SegmentIs
    <3> QED BY <3>1, <3>2
  <2> QED BY <2>7, <2>8, <2>9 DEF Byte
<1>10. SizeAt(bytes, at + 1) = SizeOf(segment.body)
  <2>1. PICK a, b, c, d : /\ a = (at + 1) + 3 /\ b = ((at + 1) + 3) + 1
                          /\ c = (at + 1) + 5 /\ d = ((at + 1) + 5) + 1
    OBVIOUS
  <2>2. /\ 2 \in 1..l /\ a = at + 2 + 2 /\ 3 \in 1..l /\ b = at + 2 + 3
        /\ 4 \in 1..l /\ c = at + 2 + 4 /\ 5 \in 1..l /\ d = at + 2 + 5
    BY <1>1, <1>4, <2>1
  <2>3. /\ Byte(bytes, a) = segment.body[2] /\ Byte(bytes, b) = segment.body[3]
        /\ Byte(bytes, c) = segment.body[4] /\ Byte(bytes, d) = segment.body[5]
    BY <1>9, <2>2
  <2>4. /\ BigEndian16(bytes, (at + 1) + 3) = 256 * segment.body[2] + segment.body[3]
        /\ BigEndian16(bytes, (at + 1) + 5) = 256 * segment.body[4] + segment.body[5]
    BY <2>1, <2>3 DEF BigEndian16
  <2> QED BY <2>4 DEF SizeAt, SizeOf
<1> QED BY <1>1, <1>7, <1>8, <1>10 DEF MarkerAt

(* Past any other segment the walk goes on, if enough is left.             *)
LEMMA RoundPasses ==
  ASSUME NEW frame \in ValidFrames, NEW i \in 0..(Len(frame.segments) - 1),
         NEW bytes, bytes = FrameBytes(frame),
         NEW segment, segment = frame.segments[i + 1],
         EndOf(frame, i + 1) <= Len(bytes), Passed(segment), ~ IsHeader(segment)
  PROVE  \/ Walk(bytes)[EndOf(frame, i)] = Walk(bytes)[EndOf(frame, i + 1)]
         \/ Walk(bytes)[EndOf(frame, i)] = NoSize /\ EndOf(frame, i) + 4 > Len(bytes)
<1>0. PICK p, fill, at, size, length : Whole(frame, i, segment, p, fill, at, size, length)
  BY SegmentWhole
<1>1. /\ MarkerAt(frame, i, p, fill, at) /\ fill \in Nat /\ p \in Nat /\ at \in Nat
      /\ at = p + fill /\ size = Len(bytes) /\ size \in Nat /\ at < size
      /\ length = segment.length /\ length \in Nat
      /\ segment.marker \in Standalone => Bare(segment) /\ EndOf(frame, i + 1) = at + 1
      /\ segment.marker \notin Standalone =>
           /\ ~ Bare(segment) /\ length = Len(segment.body) + 2
           /\ EndOf(frame, i + 1) = at + 1 + length
      /\ EndOf(frame, i + 1) \in (p + 1)..size
  BY <1>0, Zenon DEF Whole
<1>20. MarkerAt(frame, i, p, fill, at) /\ at < Len(bytes)
  BY <1>1
<1>2. p = EndOf(frame, i)
  BY <1>1 DEF MarkerAt
<1>3. /\ AfterFill(bytes, p) = at /\ Byte(bytes, at) = segment.marker
      /\ ~ Bare(segment) /\ at + 3 <= Len(bytes) => BigEndian16(bytes, at + 1) = segment.length
  BY <1>20, RoundReads
<1>4. Walk(bytes)[p] = SizeFrom(bytes, p, Walk(bytes))
  <2>1. p \in 0..Len(bytes) /\ bytes \in Seq(Octets)
    BY <1>1, FrameBytesAre
  <2> QED BY <2>1, WalkDef
<1>5. CASE p + 4 > Len(bytes)
  <2>1. Walk(bytes)[p] = NoSize
    BY <1>4, <1>5 DEF SizeFrom
  <2> QED BY <1>2, <1>5, <2>1
<1>6. CASE ~ (p + 4 > Len(bytes))
  <2>0. at # Len(bytes)
    BY <1>1
  <2>1. CASE segment.marker \in Standalone
    <3>1. SizeFrom(bytes, p, Walk(bytes)) = Walk(bytes)[at + 1]
      BY <1>3, <1>6, <2>0, <2>1 DEF SizeFrom
    <3> QED BY <1>1, <1>2, <1>4, <2>1, <3>1
  <2>2. CASE segment.marker \notin Standalone
    <3>1. /\ ~ Bare(segment) /\ EndOf(frame, i + 1) = at + 1 + length /\ length >= 2
          /\ at + 1 + length <= size
      <4>1. segment \in ValidSegments
        <5>1. i + 1 \in 1..Len(frame.segments)
          BY FrameParts
        <5> QED BY <5>1, FrameParts
      <4>2. PICK l \in Nat : l = Len(segment.body)
        BY <4>1, SegmentParts
      <4>3. length = l + 2 /\ ~ Bare(segment) /\ EndOf(frame, i + 1) = at + 1 + length
        BY <1>1, <2>2, <4>2
      <4>4. EndOf(frame, i + 1) <= size
        BY <1>1
      <4> QED BY <4>2, <4>3, <4>4
    <3>2. at + 3 <= size /\ ~ (at + 3 > size) /\ ~ (length < 2) /\ ~ (at + 1 + length > size)
      <4>1. at \in Nat /\ length \in Nat /\ size \in Nat
        BY <1>1
      <4> QED BY <3>1, <4>1
    <3>3. BigEndian16(bytes, at + 1) = length
      BY <1>1, <1>3, <3>1, <3>2
    <3>4. NextSegment(bytes, at + 1) = at + 1 + length
      BY <3>3 DEF NextSegment
    <3>5. segment.marker \notin {EndOfImage, StartOfScan}
      BY DEF Passed
    <3>6. ~ (IsStartOfFrame(segment.marker) /\ length >= 7)
      BY <1>1 DEF IsHeader
    <3>7. ~ (at + 3 > Len(bytes)) /\ ~ (at + 1 + length > Len(bytes))
      BY <1>1, <3>2
    <3>8. SizeFrom(bytes, p, Walk(bytes)) = Walk(bytes)[NextSegment(bytes, at + 1)]
      BY <1>3, <1>6, <2>0, <2>2, <3>2, <3>3, <3>5, <3>6, <3>7 DEF SizeFrom
    <3> QED BY <1>2, <1>4, <3>1, <3>4, <3>8
  <2> QED BY <2>1, <2>2
<1> QED BY <1>5, <1>6
-------------------------------------------------------------------------------
(* Segments: the walk finds the next header *)

(* The headers behind a segment, and the size the first of them tells.     *)
HeadersAfter(frame, i) == {k \in Headers(frame) : k > i}
TrueFrom(frame, i) ==
  IF HeadersAfter(frame, i) = {} THEN NoSize
  ELSE SizeOf(frame.segments[Min(HeadersAfter(frame, i))].body)

(* A header that counts, in the words of the walk.                         *)
LEMMA HeaderIs ==
  ASSUME NEW frame \in ValidFrames, NEW k \in 1..Len(frame.segments)
  PROVE  k \in Headers(frame) <=>
           /\ IsHeader(frame.segments[k]) /\ EndOf(frame, k) <= Len(FrameBytes(frame))
           /\ \A j \in 1..(k - 1) : frame.segments[j].marker \notin {EndOfImage, StartOfScan}
           /\ \A j \in 1..k : Known(frame.segments[j])
<1>1. k \in DOMAIN frame.segments
  BY FrameParts
<1> QED BY <1>1 DEF Headers, IsHeader, EndOf, Known

(* Headers are numbers of segments.                                        *)
LEMMA HeadersInSegments ==
  ASSUME NEW frame \in ValidFrames
  PROVE  Headers(frame) \subseteq 1..Len(frame.segments)
<1>1. DOMAIN frame.segments = 1..Len(frame.segments)
  BY FrameParts
<1> QED BY <1>1 DEF Headers

(* A header takes eight bytes at least.                                    *)
LEMMA HeaderTakesEight ==
  ASSUME NEW frame \in ValidFrames, NEW k \in Headers(frame), NEW i \in 0..(k - 1)
  PROVE  EndOf(frame, i) + 8 <= EndOf(frame, k) /\ EndOf(frame, k) <= Len(FrameBytes(frame))
<1>1. k \in 1..Len(frame.segments) /\ Len(frame.segments) \in Nat
  BY HeadersInSegments, FrameParts
<1>2. PICK m : m = k - 1
  OBVIOUS
<1>3. m \in 0..(Len(frame.segments) - 1) /\ m \in 0..Len(frame.segments) /\ m + 1 = k /\ i \in 0..m
  BY <1>1, <1>2
<1>4. PICK segment : segment = frame.segments[k]
  OBVIOUS
<1>5. segment \in ValidSegments
  BY <1>1, <1>4, FrameParts
<1>6. PICK fill, l, n : fill = segment.fill /\ l = Len(segment.body) /\ n = Len(SegmentBytes(segment))
  OBVIOUS
<1>7. Sized(segment, fill, l, n)
  BY <1>5, <1>6, SegmentSize
<1>8. IsHeader(segment) /\ EndOf(frame, k) <= Len(FrameBytes(frame)) /\ Known(segment)
  <2>1. k \in 1..k
    BY <1>1
  <2> QED BY <1>1, <1>4, <2>1, HeaderIs
<1>9. ~ Bare(segment) /\ segment.marker \notin Standalone
  BY <1>8, HeadersAreLong
<1>10. PICK length : length = segment.length
  OBVIOUS
<1>11. length = l + 2 /\ length >= 7
  BY <1>6, <1>8, <1>9, <1>10 DEF Known, IsHeader
<1>12. PICK a, b, c : a = EndOf(frame, i) /\ b = EndOf(frame, m) /\ c = EndOf(frame, k)
  OBVIOUS
<1>13. a <= b /\ b \in Nat /\ c = b + n
  BY <1>3, <1>4, <1>6, <1>12, EndsGrow, SegmentEnds
<1>14. a \in Nat
  <2>1. i \in 0..Len(frame.segments)
    BY <1>1
  <2> QED BY <1>12, <2>1, BytesType
<1>15. fill \in Nat /\ l \in Nat /\ n = fill + 3 + l
  BY <1>7, <1>9 DEF Sized
<1>16. a + 8 <= c
  BY <1>11, <1>13, <1>14, <1>15
<1> QED BY <1>8, <1>12, <1>16

(* Where the walk goes on, everything so far was passed.                   *)
Reached(frame, i) ==
  /\ EndOf(frame, i) <= Len(FrameBytes(frame))
  /\ \A j \in 1..i : Passed(frame.segments[j])

(* No header counts after a segment that stops the walk.                   *)
LEMMA NoneAfterStop ==
  ASSUME NEW frame \in ValidFrames, NEW i \in 0..(Len(frame.segments) - 1),
         EndOf(frame, i + 1) > Len(FrameBytes(frame)) \/ ~ Passed(frame.segments[i + 1])
  PROVE  HeadersAfter(frame, i) = {}
<1> SUFFICES ASSUME NEW k \in Headers(frame), k > i PROVE FALSE
  BY DEF HeadersAfter
<1>1. k \in 1..Len(frame.segments) /\ Len(frame.segments) \in Nat
  BY HeadersInSegments, FrameParts
<1>2. PICK m : m = i + 1
  OBVIOUS
<1>3. m \in 1..k /\ m \in 0..k /\ k \in 0..Len(frame.segments) /\ m \in 0..Len(frame.segments)
  BY <1>1, <1>2
<1>4. /\ IsHeader(frame.segments[k]) /\ EndOf(frame, k) <= Len(FrameBytes(frame))
      /\ \A j \in 1..(k - 1) : frame.segments[j].marker \notin {EndOfImage, StartOfScan}
      /\ \A j \in 1..k : Known(frame.segments[j])
  BY <1>1, HeaderIs
<1>5. CASE EndOf(frame, m) > Len(FrameBytes(frame))
  <2>1. EndOf(frame, m) <= EndOf(frame, k) /\ EndOf(frame, m) \in Nat /\ EndOf(frame, k) \in Nat
    BY <1>3, EndsGrow, BytesType
  <2>2. Len(FrameBytes(frame)) \in Nat
    BY FrameBytesAre
  <2> QED BY <1>4, <1>5, <2>1, <2>2
<1>6. CASE ~ Passed(frame.segments[m])
  <2>1. Known(frame.segments[m])
    BY <1>3, <1>4
  <2>2. frame.segments[m].marker \notin {EndOfImage, StartOfScan}
    <3>1. CASE m = k
      BY <1>4, <3>1, HeadersAreLong
    <3>2. CASE m # k
      <4>1. m \in 1..(k - 1)
        BY <1>1, <1>3, <3>2
      <4> QED BY <1>4, <4>1
    <3> QED BY <3>1, <3>2
  <2> QED BY <1>6, <2>1, <2>2 DEF Passed
<1> QED BY <1>2, <1>5, <1>6

(* A header that is reached and whole is the first after.                  *)
LEMMA FirstAfter ==
  ASSUME NEW frame \in ValidFrames, NEW i \in 0..(Len(frame.segments) - 1),
         Reached(frame, i), EndOf(frame, i + 1) <= Len(FrameBytes(frame)),
         Passed(frame.segments[i + 1])
  PROVE  /\ Reached(frame, i + 1)
         /\ IsHeader(frame.segments[i + 1]) =>
              HeadersAfter(frame, i) # {} /\ Min(HeadersAfter(frame, i)) = i + 1
         /\ ~ IsHeader(frame.segments[i + 1]) => HeadersAfter(frame, i) = HeadersAfter(frame, i + 1)
<1>1. PICK m : m = i + 1
  OBVIOUS
<1>2. m \in 1..Len(frame.segments) /\ Len(frame.segments) \in Nat /\ i = m - 1
  BY <1>1, FrameParts
<1>3. \A j \in 1..m : Passed(frame.segments[j])
  <2> TAKE j \in 1..m
  <2>1. j = m \/ j \in 1..i
    BY <1>1
  <2> QED BY <1>1, <2>1 DEF Reached
<1>4. Reached(frame, m)
  BY <1>1, <1>3 DEF Reached
<1>5. ASSUME IsHeader(frame.segments[m])
      PROVE  HeadersAfter(frame, i) # {} /\ Min(HeadersAfter(frame, i)) = m
  <2>1. /\ \A j \in 1..(m - 1) : frame.segments[j].marker \notin {EndOfImage, StartOfScan}
        /\ \A j \in 1..m : Known(frame.segments[j])
    BY <1>2, <1>3 DEF Passed
  <2>2. m \in Headers(frame)
    <3>1. EndOf(frame, m) <= Len(FrameBytes(frame))
      BY <1>1
    <3> QED BY <1>2, <1>5, <2>1, <3>1, HeaderIs
  <2>3. m \in HeadersAfter(frame, i)
    BY <1>2, <2>2 DEF HeadersAfter
  <2>4. \A k \in HeadersAfter(frame, i) : m <= k
    BY <1>1, <1>2, HeadersInSegments DEF HeadersAfter
  <2>5. HeadersAfter(frame, i) \in SUBSET Int
    BY HeadersInSegments DEF HeadersAfter
  <2> QED BY <2>3, <2>4, <2>5, MinIs
<1>6. ASSUME ~ IsHeader(frame.segments[m]) PROVE HeadersAfter(frame, i) = HeadersAfter(frame, m)
  <2>1. m \notin Headers(frame)
    BY <1>2, <1>6, HeaderIs
  <2>2. \A k \in Headers(frame) : k > i <=> k > m
    <3> TAKE k \in Headers(frame)
    <3>1. k \in Nat /\ k # m
      BY <2>1, HeadersInSegments
    <3> QED BY <1>1, <1>2, <3>1
  <2> QED BY <2>2 DEF HeadersAfter
<1> QED BY <1>1, <1>4, <1>5, <1>6

(* So the walk finds the size in the next header that counts.              *)
LEMMA WalkFinds ==
  ASSUME NEW frame \in ValidFrames, NEW i \in 0..Len(frame.segments), Reached(frame, i)
  PROVE  Walk(FrameBytes(frame))[EndOf(frame, i)] = TrueFrom(frame, i)
<1> DEFINE N == Len(frame.segments)
           P(n) == Reached(frame, n) =>
                     Walk(FrameBytes(frame))[EndOf(frame, n)] = TrueFrom(frame, n)
           H == {n \in 0..N : P(n)}
<1>1. N \in Nat
  BY FrameParts
<1>2. PICK bytes : bytes = FrameBytes(frame)
  OBVIOUS
<1>3. bytes \in Seq(Octets) /\ Len(bytes) \in Nat /\ Len(bytes) <= EndOf(frame, N)
  BY <1>2, FrameBytesAre
<1>4. P(N)
  <2> HAVE Reached(frame, N)
  <2>1. PICK p : p = EndOf(frame, N)
    OBVIOUS
  <2>2. p \in Nat /\ p <= Len(bytes)
    <3>1. N \in 0..N
      BY <1>1
    <3> QED BY <1>2, <2>1, <3>1, BytesType DEF Reached
  <2>3. p \in 0..Len(bytes) /\ p + 4 > Len(bytes)
    BY <1>3, <2>1, <2>2
  <2>4. Walk(bytes)[p] = SizeFrom(bytes, p, Walk(bytes))
    BY <1>3, <2>3, WalkDef
  <2>5. Walk(bytes)[p] = NoSize
    BY <2>3, <2>4 DEF SizeFrom
  <2>6. HeadersAfter(frame, N) = {}
    BY <1>1, HeadersInSegments DEF HeadersAfter
  <2>7. TrueFrom(frame, N) = NoSize
    <3> HIDE DEF N
    <3> QED BY <2>6 DEF TrueFrom
  <2> QED BY <1>2, <2>1, <2>5, <2>7
<1>5. ASSUME NEW n \in 0..(N - 1), P(n + 1) PROVE P(n)
  <2> HAVE Reached(frame, n)
  <2>1. PICK p, segment : p = EndOf(frame, n) /\ segment = frame.segments[n + 1]
    OBVIOUS
  <2>2. p <= Len(bytes)
    BY <1>2, <2>1 DEF Reached
  <2>3. CASE EndOf(frame, n + 1) > Len(bytes) \/ ~ Passed(segment)
    <3>1. Walk(bytes)[p] = NoSize
      BY <1>2, <2>1, <2>2, <2>3, RoundStops
    <3>2. HeadersAfter(frame, n) = {}
      BY <1>2, <2>1, <2>3, NoneAfterStop
    <3>3. TrueFrom(frame, n) = NoSize
      BY <3>2 DEF TrueFrom
    <3> QED BY <1>2, <2>1, <3>1, <3>3
  <2>4. CASE ~ (EndOf(frame, n + 1) > Len(bytes)) /\ Passed(segment)
    <3>0. EndOf(frame, n + 1) <= Len(bytes)
      <4>1. n + 1 \in 0..N
        BY <1>1
      <4>2. EndOf(frame, n + 1) \in Nat
        BY <4>1, BytesType
      <4> QED BY <1>3, <2>4, <4>2
    <3>1. /\ Reached(frame, n + 1)
          /\ IsHeader(segment) => HeadersAfter(frame, n) # {} /\ Min(HeadersAfter(frame, n)) = n + 1
          /\ ~ IsHeader(segment) => HeadersAfter(frame, n) = HeadersAfter(frame, n + 1)
      BY <1>2, <2>1, <2>4, <3>0, FirstAfter
    <3>2. CASE IsHeader(segment)
      <4>1. Walk(bytes)[EndOf(frame, n)] = SizeOf(segment.body)
        BY <1>2, <2>1, <2>4, <3>0, <3>2, RoundHeader
      <4>2. TrueFrom(frame, n) = SizeOf(segment.body)
        BY <2>1, <3>1, <3>2 DEF TrueFrom
      <4> QED BY <1>2, <4>1, <4>2
    <3>3. CASE ~ IsHeader(segment)
      <4>1. TrueFrom(frame, n) = TrueFrom(frame, n + 1)
        BY <3>1, <3>3 DEF TrueFrom
      <4>2. \/ Walk(bytes)[EndOf(frame, n)] = Walk(bytes)[EndOf(frame, n + 1)]
            \/ Walk(bytes)[EndOf(frame, n)] = NoSize /\ EndOf(frame, n) + 4 > Len(bytes)
        BY <1>2, <2>1, <2>4, <3>0, <3>3, RoundPasses
      <4>3. CASE Walk(bytes)[EndOf(frame, n)] = Walk(bytes)[EndOf(frame, n + 1)]
        BY <1>2, <1>5, <3>1, <4>1, <4>3
      <4>4. CASE Walk(bytes)[EndOf(frame, n)] = NoSize /\ EndOf(frame, n) + 4 > Len(bytes)
        <5>1. HeadersAfter(frame, n) = {}
          <6> SUFFICES ASSUME NEW k \in Headers(frame), k > n PROVE FALSE
            BY DEF HeadersAfter
          <6>1. n \in 0..(k - 1) /\ n \in 0..N /\ k \in 0..N
            BY <1>1, HeadersInSegments
          <6>2. EndOf(frame, n) + 8 <= EndOf(frame, k) /\ EndOf(frame, k) <= Len(bytes)
            BY <1>2, <6>1, HeaderTakesEight
          <6>3. EndOf(frame, n) \in Nat /\ EndOf(frame, k) \in Nat
            BY <6>1, BytesType
          <6> QED BY <1>3, <4>4, <6>2, <6>3
        <5>2. TrueFrom(frame, n) = NoSize
          BY <5>1 DEF TrueFrom
        <5> QED BY <1>2, <4>4, <5>2
      <4> QED BY <4>2, <4>3, <4>4
    <3> QED BY <3>2, <3>3
  <2> QED BY <2>3, <2>4
<1>6. N \in H
  BY <1>1, <1>4
<1>7. \A n \in 0..(N - 1) : n + 1 \in H => n \in H
  <2> TAKE n \in 0..(N - 1)
  <2> HAVE n + 1 \in H
  <2>1. n \in 0..N
    BY <1>1
  <2>2. P(n + 1)
    OBVIOUS
  <2>3. P(n)
    <3> HIDE DEF P
    <3> QED BY <1>5, <2>2
  <2> QED BY <2>1, <2>3
<1>8. 0..N \subseteq H
  <2> HIDE DEF H, N
  <2> QED BY <1>1, <1>6, <1>7, Downward
<1> QED BY <1>8

(* The walk starts behind SOI, where the first segment starts.             *)
LEMMA FrameStarts ==
  ASSUME NEW frame \in ValidFrames
  PROVE  /\ EndOf(frame, 0) = 2
         /\ Len(FrameBytes(frame)) >= 4 =>
              Byte(FrameBytes(frame), 0) = 255 /\ Byte(FrameBytes(frame), 1) = 216
<1>1. PICK start : start = <<255, 216>>
  OBVIOUS
<1>2. Len(start) = 2 /\ start[1] = 255 /\ start[2] = 216 /\ start = BytesTo(frame, 0)
  BY <1>1, BytesStart
<1>3. EndOf(frame, 0) = 2
  BY <1>2 DEF EndOf
<1>4. 0 \in 0..Len(frame.segments)
  BY FrameParts
<1>5. ASSUME NEW k \in 1..2, Len(FrameBytes(frame)) >= 4 PROVE FrameBytes(frame)[k] = start[k]
  <2>1. k \in 1..EndOf(frame, 0) /\ k \in 1..Len(FrameBytes(frame))
    BY <1>3, <1>5, FrameBytesAre
  <2>2. BytesTo(frame, Len(frame.segments))[k] = BytesTo(frame, 0)[k]
    BY <1>4, <2>1, BytesPrefix
  <2>3. FrameBytes(frame)[k] = BytesTo(frame, Len(frame.segments))[k]
    BY <2>1, FrameBytesAre
  <2> QED BY <1>2, <2>2, <2>3
<1>6. ASSUME Len(FrameBytes(frame)) >= 4
      PROVE  Byte(FrameBytes(frame), 0) = 255 /\ Byte(FrameBytes(frame), 1) = 216
  <2>1. FrameBytes(frame)[1] = 255 /\ FrameBytes(frame)[2] = 216
    BY <1>2, <1>5, <1>6
  <2>2. 0 + 1 = 1 /\ 1 + 1 = 2
    OBVIOUS
  <2> QED BY <2>1, <2>2 DEF Byte
<1> QED BY <1>3, <1>6

(* The size read is the true one.                                          *)
LEMMA DimensionsAreTrue ==
  ASSUME NEW frame \in ValidFrames
  PROVE  ReadJpegDimensions(FrameBytes(frame)) = TrueSize(frame)
<1>1. HeadersAfter(frame, 0) = Headers(frame)
  BY HeadersInSegments DEF HeadersAfter
<1>2. TrueSize(frame) = TrueFrom(frame, 0)
  BY <1>1 DEF TrueSize, TrueFrom, SizeOf
<1>3. PICK bytes : bytes = FrameBytes(frame)
  OBVIOUS
<1>4. Len(bytes) \in Nat /\ EndOf(frame, 0) = 2
  BY <1>3, FrameBytesAre, FrameStarts
<1>5. CASE Len(bytes) < 4
  <2>1. ReadJpegDimensions(bytes) = NoSize
    BY <1>5 DEF ReadJpegDimensions
  <2>2. Headers(frame) = {}
    <3> SUFFICES ASSUME NEW k \in Headers(frame) PROVE FALSE
      OBVIOUS
    <3>1. 0 \in 0..(k - 1) /\ k \in 0..Len(frame.segments)
      BY HeadersInSegments, FrameParts
    <3>2. EndOf(frame, 0) + 8 <= EndOf(frame, k) /\ EndOf(frame, k) <= Len(bytes)
      BY <1>3, <3>1, HeaderTakesEight
    <3>3. EndOf(frame, k) \in Nat
      BY <3>1, BytesType
    <3> QED BY <1>4, <1>5, <3>2, <3>3
  <2>3. TrueFrom(frame, 0) = NoSize
    BY <1>1, <2>2 DEF TrueFrom
  <2> QED BY <1>2, <1>3, <2>1, <2>3
<1>6. CASE ~ (Len(bytes) < 4)
  <2>1. Len(bytes) >= 4
    BY <1>4, <1>6
  <2>2. ReadJpegDimensions(bytes) = Walk(bytes)[2]
    BY <1>3, <1>6, <2>1, FrameStarts DEF ReadJpegDimensions
  <2>3. Reached(frame, 0)
    <3>1. \A j \in 1..0 : Passed(frame.segments[j])
      OBVIOUS
    <3> QED BY <1>3, <1>4, <2>1, <3>1 DEF Reached
  <2>4. 0 \in 0..Len(frame.segments)
    BY FrameParts
  <2> QED BY <1>2, <1>3, <1>4, <2>2, <2>3, <2>4, WalkFinds
<1> QED BY <1>5, <1>6

(* It is none, or neither of its sides is zero.                            *)
LEMMA TrueSizeType ==
  ASSUME NEW frame \in ValidFrames, TrueSize(frame) # NoSize
  PROVE  TrueSize(frame) \in [w : Nat \ {0}, h : Nat \ {0}]
<1>1. Headers(frame) # {}
  BY DEF TrueSize
<1>2. Headers(frame) \in SUBSET Nat
  BY HeadersInSegments
<1>3. PICK k : k = Min(Headers(frame)) /\ k \in Headers(frame)
  BY <1>1, <1>2, MinOf
<1>4. PICK segment : segment = frame.segments[k]
  OBVIOUS
<1>5. k \in 1..Len(frame.segments) /\ segment \in ValidSegments
  BY <1>3, <1>4, HeadersInSegments, FrameParts
<1>6. PICK body, l, length : body = segment.body /\ l = Len(body) /\ length = segment.length
  OBVIOUS
<1>7. body \in Seq(Octets) /\ l \in Nat
  BY <1>5, <1>6, SegmentParts
<1>8. l >= 5
  <2>1. IsHeader(segment) /\ Known(segment)
    <3>1. k \in 1..k
      BY <1>5
    <3> QED BY <1>3, <1>4, <1>5, <3>1, HeaderIs
  <2>2. length = l + 2 /\ length >= 7
    BY <1>6, <2>1, HeadersAreLong DEF Known, IsHeader
  <2> QED BY <1>7, <2>2
<1>9. body[2] \in Nat /\ body[3] \in Nat /\ body[4] \in Nat /\ body[5] \in Nat
  <2>1. 2 \in 1..Len(body) /\ 3 \in 1..Len(body) /\ 4 \in 1..Len(body) /\ 5 \in 1..Len(body)
    BY <1>6, <1>7, <1>8
  <2>2. body[2] \in Octets /\ body[3] \in Octets /\ body[4] \in Octets /\ body[5] \in Octets
    BY <1>7, <2>1
  <2> QED BY <2>2 DEF Octets, Below
<1>10. PICK w, h : w = 256 * body[4] + body[5] /\ h = 256 * body[2] + body[3]
  OBVIOUS
<1>11. w \in Nat /\ h \in Nat
  BY <1>9, <1>10
<1>12. TrueSize(frame) = IF w = 0 \/ h = 0 THEN NoSize ELSE [w |-> w, h |-> h]
  BY <1>1, <1>3, <1>4, <1>6, <1>10 DEF TrueSize
<1> QED BY <1>11, <1>12

(* Of a valid frame the right size is read, and it is shown as it should.  *)
LEMMA SizeTrue ==
  ASSUME NEW frame \in ValidFrames, NEW options
  PROVE  SizeIsTrue(frame, options)
<1>1. PICK bytes, true : bytes = FrameBytes(frame) /\ true = TrueSize(frame)
  OBVIOUS
<1>2. ReadJpegDimensions(bytes) = true
  BY <1>1, DimensionsAreTrue
<1>3. true # NoSize => true.w \in Nat \ {0} /\ true.h \in Nat \ {0}
  <2> HAVE true # NoSize
  <2>1. true \in [w : Nat \ {0}, h : Nat \ {0}]
    BY <1>1, TrueSizeType
  <2> QED BY <2>1
<1>4. ~ WithinLimit(NoSize)
  BY DEF WithinLimit, NoSize
<1>5. ASSUME NEW decoded \in {true, NoSize}
      PROVE  RightlyShown(true, decoded, options, Shown(bytes, decoded, options))
  <2> DEFINE sink == [w |-> options.ow, h |-> options.oh]
  <2>1. Shown(bytes, decoded, options) =
          IF true = sink /\ options.rotation = 0 /\ ~options.mirror THEN "as it is"
          ELSE IF WithinLimit(true) /\ decoded = true THEN "transformed" ELSE "dropped"
    BY <1>2 DEF Shown
  <2> HIDE DEF sink
  <2>2. CASE Shown(bytes, decoded, options) = "as it is"
    <3>1. true = sink
      BY <2>1, <2>2
    <3> QED BY <2>2, <3>1 DEF sink, RightlyShown
  <2>3. CASE Shown(bytes, decoded, options) = "transformed"
    <3>1. WithinLimit(true) /\ decoded = true
      BY <2>1, <2>3
    <3> QED BY <2>3, <3>1 DEF RightlyShown
  <2>4. CASE Shown(bytes, decoded, options) \notin {"as it is", "transformed"}
    <3>1. ~ WithinLimit(true) \/ decoded # true
      BY <2>1, <2>4
    <3>2. decoded = NoSize \/ true.w > 3840 \/ true.h > 2160
      <4>1. CASE decoded = NoSize
        BY <4>1
      <4>2. CASE decoded # NoSize
        <5>1. decoded = true /\ true # NoSize /\ ~ WithinLimit(true)
          BY <3>1, <4>2
        <5>2. PICK w, h : w = true.w /\ h = true.h
          OBVIOUS
        <5>3. w \in Nat \ {0} /\ h \in Nat \ {0} /\ ~ (w > 0 /\ h > 0 /\ w <= 3840 /\ h <= 2160)
          BY <1>3, <5>1, <5>2 DEF WithinLimit
        <5>4. w > 3840 \/ h > 2160
          BY <5>3
        <5> QED BY <5>2, <5>4
      <4> QED BY <4>1, <4>2
    <3> QED BY <2>4, <3>2 DEF RightlyShown
  <2> QED BY <2>2, <2>3, <2>4
<1> QED BY <1>1, <1>2, <1>5, Zenon DEF SizeIsTrue

(* What is measured is a frame, what is recoloured a picture.              *)
JpegInv == jpeg = Nothing \/ jpeg \in [frame : Frames] \cup [picture : Pictures]

(* The invariant holds in the beginning,                                   *)
LEMMA JpegInit == Init => JpegInv
BY DEF Init, JpegInv

(* and each step keeps it.                                                 *)
LEMMA JpegNext == JpegInv /\ [Next]_vars => JpegInv'
BY DEF JpegInv, Next, vars, Convert, Converted, Transform, Transformed, Measure, Recolour, Written

(* The sizes of all frames are true.                                       *)
LEMMA SizesFollow == JpegInv => SizesAreTrue
<1> SUFFICES ASSUME JpegInv, jpeg # Nothing, "frame" \in DOMAIN jpeg, NEW options \in SinkOptions
             PROVE  SizeIsTrue(jpeg.frame, options)
  BY DEF SizesAreTrue
<1>1. jpeg \in [frame : Frames]
  BY DEF JpegInv
<1>2. jpeg.frame \in ValidFrames
  BY <1>1, FramesAssumption
<1> QED BY <1>2, SizeTrue

(* Whatever segments a frame has, wherever it is cut off and whatever the  *)
(* sink's size: its size is read from its own header and no other, or not  *)
(* at all, and the camera is shown no JPEG of another size                 *)
(* (image_transform.cpp:197-247, engine.cpp:311-340).                      *)
THEOREM SizesHold == Spec => []SizesAreTrue
BY JpegInit, JpegNext, SizesFollow, PTL DEF Spec

-------------------------------------------------------------------------------
(* Colours: there and back, in numbers *)

(* What division by 256 rounds down to.                                    *)
LEMMA Division ==
  \A n \in Int : /\ n \div 256 \in Int
                 /\ 256 * (n \div 256) <= n /\ n <= 256 * (n \div 256) + 255
OBVIOUS

(* The numbers l, u and v that NV21 holds of the colour r, g, b, before    *)
(* their offsets and before they are clamped.                              *)
Numbers(r, g, b, l, u, v) ==
  /\ r \in Int /\ g \in Int /\ b \in Int /\ l \in Int /\ u \in Int /\ v \in Int
  /\ 0 <= r /\ r <= 255 /\ 0 <= g /\ g <= 255 /\ 0 <= b /\ b <= 255
  /\ 256 * l <= 66 * r + 129 * g + 25 * b + 128
  /\ 66 * r + 129 * g + 25 * b + 128 <= 256 * l + 255
  /\ 256 * u <= 112 * b - 38 * r - 74 * g + 128
  /\ 112 * b - 38 * r - 74 * g + 128 <= 256 * u + 255
  /\ 256 * v <= 112 * r - 94 * g - 18 * b + 128
  /\ 112 * r - 94 * g - 18 * b + 128 <= 256 * v + 255

(* What NV21 holds of a colour is within a byte before it is clamped.      *)
LEMMA PackedRange ==
  ASSUME NEW r, NEW g, NEW b, NEW l, NEW u, NEW v, Numbers(r, g, b, l, u, v)
  PROVE  /\ 0 <= l /\ l + 16 <= 255 /\ 0 <= u + 128 /\ u + 128 <= 255
         /\ 0 <= v + 128 /\ v + 128 <= 255
BY DEF Numbers

(* Red comes back within 3,                                                *)
LEMMA RedBack ==
  ASSUME NEW r, NEW g, NEW b, NEW l, NEW u, NEW v, Numbers(r, g, b, l, u, v),
         NEW q \in Int, 256 * q <= 298 * l + 409 * v + 128, 298 * l + 409 * v + 128 <= 256 * q + 255
  PROVE  r - 3 <= q /\ q <= r + 3
BY DEF Numbers

(* green, too,                                                             *)
LEMMA GreenBack ==
  ASSUME NEW r, NEW g, NEW b, NEW l, NEW u, NEW v, Numbers(r, g, b, l, u, v),
         NEW q \in Int, 256 * q <= 298 * l - 100 * u - 208 * v + 128,
         298 * l - 100 * u - 208 * v + 128 <= 256 * q + 255
  PROVE  g - 3 <= q /\ q <= g + 3
BY DEF Numbers

(* and blue.                                                               *)
LEMMA BlueBack ==
  ASSUME NEW r, NEW g, NEW b, NEW l, NEW u, NEW v, Numbers(r, g, b, l, u, v),
         NEW q \in Int, 256 * q <= 298 * l + 516 * u + 128, 298 * l + 516 * u + 128 <= 256 * q + 255
  PROVE  b - 3 <= q /\ q <= b + 3
BY DEF Numbers

(* Grey has no chroma.                                                     *)
LEMMA GreyBack ==
  ASSUME NEW r, NEW l, NEW u, NEW v, Numbers(r, r, r, l, u, v)
  PROVE  u = 0 /\ v = 0
BY DEF Numbers

(* Clamping brings no number further from one that is in range.            *)
LEMMA Clamped ==
  ASSUME NEW q \in Int, NEW r \in Int, 0 <= r, r <= 255, r - 3 <= q, q <= r + 3
  PROVE  ClampByte(q) - r \in -3..3
BY DEF ClampByte, Clamp

(* A byte is its own clamped value.                                        *)
LEMMA NotClamped ==
  ASSUME NEW q \in Int, 0 <= q, q <= 255
  PROVE  ClampByte(q) = q
BY DEF ClampByte, Clamp

(* A natural number is at least zero.                                      *)
LEMMA MaxWithZero ==
  ASSUME NEW n \in Nat
  PROVE  Max({0, n}) = n
<1> DEFINE c == CHOOSE x \in {0, n} : \A y \in {0, n} : x >= y
<1>1. \E x \in {0, n} : \A y \in {0, n} : x >= y
  OBVIOUS
<1>2. c \in {0, n} /\ \A y \in {0, n} : c >= y
  BY <1>1
<1>3. Max({0, n}) = c
  BY DEF Max
<1> HIDE DEF c
<1> QED BY <1>2, <1>3

(* The numbers of a colour.                                                *)
LEMMA ColourPacked ==
  ASSUME NEW p \in Colours
  PROVE  \E r, g, b, l, u, v :
           /\ r = p[1] /\ g = p[2] /\ b = p[3] /\ Numbers(r, g, b, l, u, v)
           /\ LumaOf(p) = l + 16 /\ UOf(p) = u + 128 /\ VOf(p) = v + 128
<1>1. PICK r, g, b : r = p[1] /\ g = p[2] /\ b = p[3]
  OBVIOUS
<1>2. r \in Int /\ g \in Int /\ b \in Int /\ 0 <= r /\ r <= 255 /\ 0 <= g /\ g <= 255 /\ 0 <= b /\ b <= 255
  <2>1. 1 \in 1..3 /\ 2 \in 1..3 /\ 3 \in 1..3
    OBVIOUS
  <2>2. r \in Below(256) /\ g \in Below(256) /\ b \in Below(256)
    BY <1>1, <2>1 DEF Colours
  <2> QED BY <2>2 DEF Below
<1>3. PICK i, j, k : /\ i = 66 * r + 129 * g + 25 * b + 128
                     /\ j = 112 * b - 38 * r - 74 * g + 128
                     /\ k = 112 * r - 94 * g - 18 * b + 128
  OBVIOUS
<1>4. i \in Int /\ j \in Int /\ k \in Int
  BY <1>2, <1>3
<1>5. PICK l, u, v : l = i \div 256 /\ u = j \div 256 /\ v = k \div 256
  OBVIOUS
<1>6. /\ l \in Int /\ 256 * l <= i /\ i <= 256 * l + 255
      /\ u \in Int /\ 256 * u <= j /\ j <= 256 * u + 255
      /\ v \in Int /\ 256 * v <= k /\ k <= 256 * v + 255
  BY <1>4, <1>5, Division
<1>7. Numbers(r, g, b, l, u, v)
  BY <1>2, <1>3, <1>6 DEF Numbers
<1>8. 0 <= l + 16 /\ l + 16 <= 255
  BY <1>6, <1>7, PackedRange
<1>9. LumaOf(p) = ClampByte(l + 16)
  BY <1>1, <1>3, <1>5 DEF LumaOf
<1>10. LumaOf(p) = l + 16
  BY <1>6, <1>8, <1>9, NotClamped
<1>11. UOf(p) = u + 128 /\ VOf(p) = v + 128
  BY <1>1, <1>3, <1>5 DEF UOf, VOf
<1> QED BY <1>1, <1>7, <1>10, <1>11

(* A block of one colour has the chroma of that colour.                    *)
LEMMA ChromaOfOne ==
  ASSUME NEW p \in Colours, NEW block, \A k \in 1..4 : block[k] = p
  PROVE  ChromaPair(block) = <<VOf(p), UOf(p)>>
<1>1. PICK u, v : u = UOf(p) /\ v = VOf(p)
  OBVIOUS
<1>2. u \in Int /\ v \in Int /\ 0 <= u /\ u <= 255 /\ 0 <= v /\ v <= 255
  <2>1. PICK r, g, b, l, x, y :
          /\ r = p[1] /\ g = p[2] /\ b = p[3] /\ Numbers(r, g, b, l, x, y)
          /\ LumaOf(p) = l + 16 /\ UOf(p) = x + 128 /\ VOf(p) = y + 128
    BY ColourPacked
  <2>2. x \in Int /\ y \in Int
    BY <2>1 DEF Numbers
  <2> QED BY <1>1, <2>1, <2>2, PackedRange
<1>3. (u + u + u + u) \div 4 = u /\ (v + v + v + v) \div 4 = v
  BY <1>2
<1>4. block[1] = p /\ block[2] = p /\ block[3] = p /\ block[4] = p
  OBVIOUS
<1>5. ChromaPair(block) = <<ClampByte((v + v + v + v) \div 4), ClampByte((u + u + u + u) \div 4)>>
  BY <1>1, <1>4 DEF ChromaPair
<1>6. ClampByte(u) = u /\ ClampByte(v) = v
  BY <1>2, NotClamped
<1> QED BY <1>1, <1>3, <1>5, <1>6

(* What is written of the bytes of a colour is the colour, nearly.         *)
LEMMA ColourKept ==
  ASSUME NEW p \in Colours, NEW nv21, NEW width, NEW height, NEW x, NEW y, NEW chroma,
         chroma = width * height + (y \div 2) * width + Aligned(x),
         Byte(nv21, y * width + x) = LumaOf(p),
         Byte(nv21, chroma) = VOf(p), Byte(nv21, chroma + 1) = UOf(p)
  PROVE  Keeps(Nv21ToRgb(nv21, width, height, x, y), p)
<1>1. PICK r, g, b, l, u, v :
        /\ r = p[1] /\ g = p[2] /\ b = p[3] /\ Numbers(r, g, b, l, u, v)
        /\ LumaOf(p) = l + 16 /\ UOf(p) = u + 128 /\ VOf(p) = v + 128
  BY ColourPacked
<1>2. /\ r \in Int /\ g \in Int /\ b \in Int /\ l \in Nat /\ u \in Int /\ v \in Int
      /\ 0 <= r /\ r <= 255 /\ 0 <= g /\ g <= 255 /\ 0 <= b /\ b <= 255
  BY <1>1, PackedRange DEF Numbers
<1>3. (l + 16) - 16 = l /\ (u + 128) - 128 = u /\ (v + 128) - 128 = v
  BY <1>2
<1>4. PICK i, j, k : /\ i = 298 * l + 409 * v + 128
                     /\ j = 298 * l - 100 * u - 208 * v + 128
                     /\ k = 298 * l + 516 * u + 128
  OBVIOUS
<1>5. i \in Int /\ j \in Int /\ k \in Int
  BY <1>2, <1>4
<1>6. PICK red, green, blue : red = i \div 256 /\ green = j \div 256 /\ blue = k \div 256
  OBVIOUS
<1>7. /\ red \in Int /\ 256 * red <= i /\ i <= 256 * red + 255
      /\ green \in Int /\ 256 * green <= j /\ j <= 256 * green + 255
      /\ blue \in Int /\ 256 * blue <= k /\ k <= 256 * blue + 255
  <2>1. red \in Int /\ 256 * red <= i /\ i <= 256 * red + 255
    BY <1>5, <1>6, Division
  <2>2. green \in Int /\ 256 * green <= j /\ j <= 256 * green + 255
    BY <1>5, <1>6, Division
  <2>3. blue \in Int /\ 256 * blue <= k /\ k <= 256 * blue + 255
    BY <1>5, <1>6, Division
  <2> QED BY <2>1, <2>2, <2>3
<1>8. PICK shown : shown = Nv21ToRgb(nv21, width, height, x, y)
  OBVIOUS
<1>9. shown = <<ClampByte(red), ClampByte(green), ClampByte(blue)>>
  <2>1. Max({0, Byte(nv21, y * width + x) - 16}) = l
    <3>1. Byte(nv21, y * width + x) - 16 = l
      BY <1>1, <1>3
    <3> QED BY <1>2, <3>1, MaxWithZero
  <2>2. shown = Rgb(l, u, v)
    <3>1. /\ Byte(nv21, width * height + (y \div 2) * width + Aligned(x)) - 128 = v
          /\ Byte(nv21, (width * height + (y \div 2) * width + Aligned(x)) + 1) - 128 = u
      BY <1>1, <1>3
    <3> QED BY <1>8, <2>1, <3>1, Zenon DEF Nv21ToRgb
  <2> QED BY <1>4, <1>6, <2>2 DEF Rgb
<1>10. shown[1] = ClampByte(red) /\ shown[2] = ClampByte(green) /\ shown[3] = ClampByte(blue)
  BY <1>9
<1>11. shown[1] - r \in -3..3
  BY <1>1, <1>2, <1>4, <1>7, <1>10, RedBack, Clamped
<1>12. shown[2] - g \in -3..3
  BY <1>1, <1>2, <1>4, <1>7, <1>10, GreenBack, Clamped
<1>13. shown[3] - b \in -3..3
  BY <1>1, <1>2, <1>4, <1>7, <1>10, BlueBack, Clamped
<1>14. Grey(p) => Grey(shown)
  <2> HAVE Grey(p)
  <2>1. r = g /\ g = b
    BY <1>1 DEF Grey
  <2>2. u = 0 /\ v = 0
    BY <1>1, <2>1, GreyBack
  <2>3. i = j /\ j = k
    BY <1>2, <1>4, <2>2
  <2> QED BY <1>6, <1>10, <2>3 DEF Grey
<1>15. \A c \in 1..3 : shown[c] - p[c] \in -3..3
  <2> TAKE c \in 1..3
  <2>1. c = 1 \/ c = 2 \/ c = 3
    OBVIOUS
  <2> QED BY <1>1, <1>11, <1>12, <1>13, <2>1
<1> QED BY <1>8, <1>14, <1>15 DEF Keeps

-------------------------------------------------------------------------------
(* Colours: one sample *)

(* n rows of d and a rest.                                                 *)
LEMMA RowsAndRest ==
  ASSUME NEW n \in Nat, NEW d \in Nat \ {0}, NEW r \in 0..(d - 1)
  PROVE  (n * d + r) \div d = n /\ (n * d + r) % d = r
<1>1. PICK m : m = n * d + r
  OBVIOUS
<1>2. m \in Nat /\ n * d \in Nat
  BY <1>1, ProductIsNat
<1>3. PICK q : q = m \div d
  OBVIOUS
<1>4. q \in Nat
  BY <1>2, <1>3
<1>5. n <= q
  <2>1. n * d <= m
    BY <1>1, <1>2
  <2> QED BY <1>2, <1>3, <2>1, StepsFit
<1>6. q * d <= m
  BY <1>2, <1>3, <1>4, StepsFit
<1>7. q <= n
  <2> SUFFICES ASSUME n + 1 <= q PROVE FALSE
    BY <1>4
  <2>1. (n + 1) * d <= q * d
    BY <1>4
  <2>2. (n + 1) * d = n * d + d
    OBVIOUS
  <2>3. q * d \in Nat
    BY <1>4, ProductIsNat
  <2> QED BY <1>1, <1>2, <1>6, <2>1, <2>2, <2>3
<1>8. q = n
  BY <1>4, <1>5, <1>7
<1>9. m = d * q + (m % d) /\ m % d \in Nat
  BY <1>2, <1>3
<1>10. d * q = n * d
  BY <1>8
<1> QED BY <1>1, <1>2, <1>3, <1>8, <1>9, <1>10

(* A multiple is divided without rest.                                     *)
LEMMA Quotient ==
  ASSUME NEW n \in Nat, NEW d \in Nat \ {0}
  PROVE  (n * d) \div d = n /\ (n * d) % d = 0
<1>1. PICK r \in 0..(d - 1) : r = 0
  OBVIOUS
<1>2. n * d + r = n * d
  BY <1>1
<1> QED BY <1>1, <1>2, RowsAndRest

(* The least of two numbers is the lesser.                                 *)
LEMMA MinOfTwo ==
  ASSUME NEW a \in Int, NEW b \in Int
  PROVE  Min({a, b}) = IF a < b THEN a ELSE b
<1>1. CASE a < b
  <2>1. {a, b} \in SUBSET Int /\ a \in {a, b} /\ \A k \in {a, b} : a <= k
    BY <1>1
  <2>2. Min({a, b}) = a
    BY <2>1, MinIs
  <2> QED BY <1>1, <2>2
<1>2. CASE ~ (a < b)
  <2>1. {a, b} \in SUBSET Int /\ b \in {a, b} /\ \A k \in {a, b} : b <= k
    BY <1>2
  <2>2. Min({a, b}) = b
    BY <2>1, MinIs
  <2> QED BY <1>2, <2>2
<1> QED BY <1>1, <1>2

(* The pixels on either side of a coordinate n, which is clamped to s.     *)
Sides(d, size, n, s, low, high) ==
  /\ s \in Nat /\ low \in 0..(size - 1) /\ high \in 0..(size - 1)
  /\ \A k \in 0..(size - 1) : n = k * d => low = k /\ s % d = 0

(* The two samples to mix are in the picture and next to each other or the *)
(* same.                                                                   *)
LEMMA SidesAre ==
  ASSUME NEW d \in Nat \ {0}, NEW size \in Nat \ {0}, NEW n \in Int,
         NEW s, s = Clamp(n, 0, (size - 1) * d),
         NEW low, low = s \div d, NEW high, high = Min({low + 1, size - 1})
  PROVE  Sides(d, size, n, s, low, high)
<1>1. PICK last : last = size - 1
  OBVIOUS
<1>2. last \in Nat
  BY <1>1
<1>3. PICK limit : limit = last * d
  OBVIOUS
<1>4. limit \in Nat
  BY <1>2, <1>3, ProductIsNat
<1>5. s = Clamp(n, 0, limit)
  BY <1>1, <1>3
<1>6. s \in Nat /\ s <= limit
  BY <1>4, <1>5 DEF Clamp
<1>7. low \in Nat
  BY <1>6
<1>8. low * d <= s
  BY <1>6, <1>7, StepsFit
<1>9. low <= last
  <2> SUFFICES ASSUME last + 1 <= low PROVE FALSE
    BY <1>2, <1>7
  <2>1. (last + 1) * d <= low * d
    BY <1>2, <1>7
  <2>2. (last + 1) * d = limit + d
    BY <1>2, <1>3
  <2>3. low * d \in Nat
    BY <1>7, ProductIsNat
  <2> QED BY <1>4, <1>6, <1>8, <2>1, <2>2, <2>3
<1>10. high \in 0..last
  <2>1. PICK next : next = low + 1
    OBVIOUS
  <2>2. next \in Nat
    BY <1>7, <2>1
  <2>3. high = Min({next, last})
    BY <1>1, <2>1
  <2>4. (high = next /\ next < last) \/ high = last
    BY <1>2, <2>2, <2>3, MinOfTwo
  <2> QED BY <1>2, <2>2, <2>4
<1>11. ASSUME NEW k \in 0..last, n = k * d PROVE low = k /\ s % d = 0
  <2>1. n \in Nat /\ n <= limit
    <3>1. k * d <= last * d
      BY <1>2
    <3> QED BY <1>3, <1>11, <3>1, ProductIsNat
  <2>2. s = n
    BY <1>4, <1>5, <2>1 DEF Clamp
  <2>3. (k * d) \div d = k /\ (k * d) % d = 0
    BY <1>2, Quotient
  <2> QED BY <1>11, <2>2, <2>3
<1> QED BY <1>1, <1>2, <1>6, <1>7, <1>9, <1>10, <1>11 DEF Sides

(* Mixing a value with itself, or with another at a whole pixel, gives it. *)
LEMMA MixIs ==
  ASSUME NEW d \in Nat \ {0}, NEW a \in Int, NEW b \in Int, NEW n \in Nat, a = b \/ n % d = 0
  PROVE  Mix(d, a, b, n) = a * d
<1>1. PICK m \in Nat : m = n % d
  OBVIOUS
<1>2. (b - a) * m = 0
  BY <1>1
<1>3. a * d \in Int
  OBVIOUS
<1> QED BY <1>1, <1>2, <1>3 DEF Mix

(* A colour of the decoded picture.                                        *)
LEMMA DecodedColour ==
  ASSUME NEW t \in JpegTransforms, NEW pixels \in DecodedOf(t),
         NEW x \in 0..(t.sw - 1), NEW y \in 0..(t.sh - 1)
  PROVE  pixels[x][y] \in Colours
BY DEF DecodedOf

(* A channel of a colour is a number.                                      *)
LEMMA ChannelIs ==
  ASSUME NEW p \in Colours, NEW c \in 1..3
  PROVE  p[c] \in Nat
BY DEF Colours, Below

(* A sample is mixed from four pixels.                                     *)
Mixed(t, pixels, x, y, c, d, sx, sy, x0, x1, y0, y1) ==
  LET source == MapOutputToSource(t, x, y)
  IN /\ d \in Nat \ {0} /\ d = Denominator(t)
     /\ Sides(d, t.sw, source.x, sx, x0, x1) /\ Sides(d, t.sh, source.y, sy, y0, y1)
     /\ SampleChannel(t, pixels, x, y, c) =
          Mix(d, Mix(d, pixels[x0][y0][c], pixels[x1][y0][c], sx),
                 Mix(d, pixels[x0][y1][c], pixels[x1][y1][c], sx), sy) \div (d * d)

(* A sample is mixed from four pixels of the picture.                      *)
LEMMA SampleIsMixed ==
  ASSUME NEW t \in JpegTransforms, NEW pixels, NEW x \in 0..(t.ow - 1), NEW y \in 0..(t.oh - 1), NEW c
  PROVE  \E d, sx, sy, x0, x1, y0, y1 : Mixed(t, pixels, x, y, c, d, sx, sy, x0, x1, y0, y1)
<1>1. PICK d : d = Denominator(t)
  OBVIOUS
<1>2. d \in Nat \ {0}
  BY <1>1, ScaleCovers DEF Denominator
<1>3. PICK source : source = MapOutputToSource(t, x, y)
  OBVIOUS
<1>4. source.x \in Int /\ source.y \in Int
  BY <1>3, SourceInPicture DEF InPicture
<1>5. PICK sx, sy : sx = Clamp(source.x, 0, (t.sw - 1) * d) /\ sy = Clamp(source.y, 0, (t.sh - 1) * d)
  OBVIOUS
<1>6. PICK x0, y0 : x0 = sx \div d /\ y0 = sy \div d
  OBVIOUS
<1>7. PICK x1, y1 : x1 = Min({x0 + 1, t.sw - 1}) /\ y1 = Min({y0 + 1, t.sh - 1})
  OBVIOUS
<1>8. Sides(d, t.sw, source.x, sx, x0, x1)
  <2>1. t.sw \in Nat \ {0}
    BY ValidTransform
  <2> QED BY <1>2, <1>4, <1>5, <1>6, <1>7, <2>1, SidesAre
<1>9. Sides(d, t.sh, source.y, sy, y0, y1)
  <2>1. t.sh \in Nat \ {0}
    BY ValidTransform
  <2> QED BY <1>2, <1>4, <1>5, <1>6, <1>7, <2>1, SidesAre
<1>10. SampleChannel(t, pixels, x, y, c) =
         Mix(d, Mix(d, pixels[x0][y0][c], pixels[x1][y0][c], sx),
                Mix(d, pixels[x0][y1][c], pixels[x1][y1][c], sx), sy) \div (d * d)
  BY <1>1, <1>3, <1>5, <1>6, <1>7, Zenon DEF SampleChannel
<1>11. Mixed(t, pixels, x, y, c, d, sx, sy, x0, x1, y0, y1)
  BY <1>1, <1>2, <1>3, <1>8, <1>9, <1>10, Zenon DEF Mixed
<1> QED BY <1>11

(* Of four values the first is the result, if they are equal or nothing is *)
(* mixed.                                                                  *)
LEMMA MixOfFour ==
  ASSUME NEW d \in Nat \ {0}, NEW m \in Nat, NEW n \in Nat,
         NEW a \in Nat, NEW b \in Nat, NEW e \in Nat, NEW f \in Nat,
         (a = b /\ b = e /\ e = f) \/ (m % d = 0 /\ n % d = 0)
  PROVE  Mix(d, Mix(d, a, b, m), Mix(d, e, f, m), n) \div (d * d) = a
<1>1. a \in Int /\ b \in Int /\ e \in Int /\ f \in Int
  OBVIOUS
<1>2. Mix(d, a, b, m) = a * d /\ Mix(d, e, f, m) = e * d
  BY <1>1, MixIs
<1>3. PICK i, j : i = a * d /\ j = e * d
  OBVIOUS
<1>4. i \in Int /\ j \in Int /\ (a = e => i = j)
  BY <1>3
<1>5. Mix(d, i, j, n) = i * d
  BY <1>4, MixIs
<1>6. PICK g : g = d * d
  OBVIOUS
<1>7. g \in Nat \ {0} /\ i * d = a * g
  BY <1>3, <1>6
<1>8. (a * g) \div g = a
  BY <1>7, Quotient
<1> QED BY <1>2, <1>3, <1>5, <1>6, <1>7, <1>8

(* Four equal channels mix to themselves, whatever their weights.          *)
LEMMA MixOfSame ==
  ASSUME NEW d \in Nat \ {0}, NEW m \in Nat, NEW n \in Nat, NEW a \in Nat
  PROVE  Mix(d, Mix(d, a, a, m), Mix(d, a, a, m), n) \div (d * d) = a
<1>1. PICK b, e, f : b = a /\ e = a /\ f = a
  OBVIOUS
<1>2. Mix(d, Mix(d, a, b, m), Mix(d, e, f, m), n) \div (d * d) = a
  BY <1>1, MixOfFour
<1> QED BY <1>1, <1>2

(* A picture of one colour is sampled in that colour.                      *)
LEMMA UniformSample ==
  ASSUME NEW t \in JpegTransforms, NEW pixels \in DecodedOf(t), Uniform(pixels),
         NEW x \in 0..(t.ow - 1), NEW y \in 0..(t.oh - 1)
  PROVE  pixels[0][0] \in Colours /\ Sampled(t, pixels, x, y) = pixels[0][0]
<1>1. t.sw \in Nat \ {0} /\ t.sh \in Nat \ {0}
  BY ValidTransform
<1>2. PICK p : p = pixels[0][0]
  OBVIOUS
<1>3. 0 \in 0..(t.sw - 1) /\ 0 \in 0..(t.sh - 1)
  BY <1>1
<1>4. p \in Colours
  BY <1>2, <1>3, DecodedColour
<1>5. \A i \in 0..(t.sw - 1), j \in 0..(t.sh - 1) : pixels[i][j] = p
  BY <1>2, <1>3 DEF Uniform, DecodedOf
<1>6. ASSUME NEW c \in 1..3 PROVE SampleChannel(t, pixels, x, y, c) = p[c]
  <2>1. PICK d, sx, sy, x0, x1, y0, y1 : Mixed(t, pixels, x, y, c, d, sx, sy, x0, x1, y0, y1)
    BY SampleIsMixed
  <2>2. /\ d \in Nat \ {0} /\ sx \in Nat /\ sy \in Nat
        /\ x0 \in 0..(t.sw - 1) /\ x1 \in 0..(t.sw - 1)
        /\ y0 \in 0..(t.sh - 1) /\ y1 \in 0..(t.sh - 1)
        /\ SampleChannel(t, pixels, x, y, c) =
             Mix(d, Mix(d, pixels[x0][y0][c], pixels[x1][y0][c], sx),
                    Mix(d, pixels[x0][y1][c], pixels[x1][y1][c], sx), sy) \div (d * d)
    BY <2>1 DEF Mixed, Sides
  <2>3. p[c] \in Nat
    BY <1>4, ChannelIs
  <2>4. pixels[x0][y0] = p /\ pixels[x1][y0] = p /\ pixels[x0][y1] = p /\ pixels[x1][y1] = p
    BY <1>5, <2>2
  <2>5. Mix(d, Mix(d, p[c], p[c], sx), Mix(d, p[c], p[c], sx), sy) \div (d * d) = p[c]
    <3>1. d \in Nat \ {0}
      BY <2>2
    <3>2. sx \in Nat
      BY <2>2
    <3>3. sy \in Nat
      BY <2>2
    <3> QED BY <2>3, <3>1, <3>2, <3>3, MixOfSame
  <2>6. SampleChannel(t, pixels, x, y, c) =
          Mix(d, Mix(d, p[c], p[c], sx), Mix(d, p[c], p[c], sx), sy) \div (d * d)
    BY <2>2, <2>4, Zenon
  <2> QED BY <2>5, <2>6, Zenon
<1>7. Sampled(t, pixels, x, y) = [c \in 1..3 |-> p[c]]
  BY <1>6 DEF Sampled
<1>8. p = [c \in 1..3 |-> p[c]]
  BY <1>4 DEF Colours
<1> QED BY <1>2, <1>4, <1>7, <1>8

(* A picture that is not scaled is sampled at the pixel.                   *)
LEMMA UnscaledSample ==
  ASSUME NEW t \in JpegTransforms, NEW pixels \in DecodedOf(t), Unscaled(t),
         NEW x \in 0..(t.ow - 1), NEW y \in 0..(t.oh - 1)
  PROVE  LET at == SourcePixel(t, t.sw, t.sh, x, y)
         IN pixels[at.x][at.y] \in Colours /\ Sampled(t, pixels, x, y) = pixels[at.x][at.y]
<1>1. PICK at : at = SourcePixel(t, t.sw, t.sh, x, y)
  OBVIOUS
<1>2. PICK source : source = MapOutputToSource(t, x, y)
  OBVIOUS
<1>3. /\ at.x \in 0..(t.sw - 1) /\ at.y \in 0..(t.sh - 1)
      /\ source.x = at.x * Denominator(t) /\ source.y = at.y * Denominator(t)
  BY <1>1, <1>2, UnscaledMap DEF Unscaled
<1>4. PICK p : p = pixels[at.x][at.y]
  OBVIOUS
<1>5. p \in Colours
  BY <1>3, <1>4, DecodedColour
<1>6. ASSUME NEW c \in 1..3 PROVE SampleChannel(t, pixels, x, y, c) = p[c]
  <2>1. PICK d, sx, sy, x0, x1, y0, y1 : Mixed(t, pixels, x, y, c, d, sx, sy, x0, x1, y0, y1)
    BY SampleIsMixed
  <2>2. /\ d \in Nat \ {0} /\ sx \in Nat /\ sy \in Nat
        /\ x0 \in 0..(t.sw - 1) /\ x1 \in 0..(t.sw - 1)
        /\ y0 \in 0..(t.sh - 1) /\ y1 \in 0..(t.sh - 1)
        /\ SampleChannel(t, pixels, x, y, c) =
             Mix(d, Mix(d, pixels[x0][y0][c], pixels[x1][y0][c], sx),
                    Mix(d, pixels[x0][y1][c], pixels[x1][y1][c], sx), sy) \div (d * d)
    BY <2>1 DEF Mixed, Sides
  <2>3. x0 = at.x /\ sx % d = 0 /\ y0 = at.y /\ sy % d = 0
    <3>1. source.x = at.x * d /\ source.y = at.y * d
      BY <1>3, <2>1 DEF Mixed
    <3>2. Sides(d, t.sw, source.x, sx, x0, x1) /\ Sides(d, t.sh, source.y, sy, y0, y1)
      BY <1>2, <2>1 DEF Mixed
    <3> QED BY <1>3, <3>1, <3>2 DEF Sides
  <2>4. PICK a, b, e, f : /\ a = pixels[x0][y0][c] /\ b = pixels[x1][y0][c]
                          /\ e = pixels[x0][y1][c] /\ f = pixels[x1][y1][c]
    OBVIOUS
  <2>5. a \in Nat /\ b \in Nat /\ e \in Nat /\ f \in Nat
    <3>1. /\ pixels[x0][y0] \in Colours /\ pixels[x1][y0] \in Colours
          /\ pixels[x0][y1] \in Colours /\ pixels[x1][y1] \in Colours
      BY <2>2, DecodedColour
    <3> QED BY <2>4, <3>1, ChannelIs
  <2>6. Mix(d, Mix(d, a, b, sx), Mix(d, e, f, sx), sy) \div (d * d) = a
    <3>1. d \in Nat \ {0} /\ sx \in Nat /\ sy \in Nat /\ sx % d = 0 /\ sy % d = 0
      BY <2>2, <2>3
    <3> QED BY <2>5, <3>1, MixOfFour, Zenon
  <2> QED BY <1>4, <2>2, <2>3, <2>4, <2>6
<1>7. Sampled(t, pixels, x, y) = [c \in 1..3 |-> p[c]]
  BY <1>6 DEF Sampled
<1>8. p = [c \in 1..3 |-> p[c]]
  BY <1>5 DEF Colours
<1> QED BY <1>1, <1>4, <1>5, <1>7, <1>8

-------------------------------------------------------------------------------
(* Colours: the colour wanted at a pixel *)

(* The pictures that need no mixing, and the colour wanted at a pixel of   *)
(* the output.                                                             *)
NeedsNoMixing(t, pixels) == Uniform(pixels) \/ (Unscaled(t) /\ InBlocks(pixels))

Wanted(t, pixels, x, y) ==
  IF Uniform(pixels) THEN pixels[0][0]
  ELSE pixels[Reference(t, 1)[x][y].x][Reference(t, 1)[x][y].y]

(* Where no mixing is needed the sample is the colour of the reference.    *)
LEMMA SampledIsWanted ==
  ASSUME NEW t \in JpegTransforms, NEW pixels \in DecodedOf(t), NeedsNoMixing(t, pixels),
         NEW x \in 0..(t.ow - 1), NEW y \in 0..(t.oh - 1)
  PROVE  /\ Wanted(t, pixels, x, y) \in Colours
         /\ Sampled(t, pixels, x, y) = Wanted(t, pixels, x, y)
<1>1. CASE Uniform(pixels)
  BY <1>1, UniformSample DEF Wanted
<1>2. CASE ~ Uniform(pixels)
  <2>1. Unscaled(t)
    BY <1>2 DEF NeedsNoMixing
  <2>2. PICK at : at = SourcePixel(t, t.sw, t.sh, x, y)
    OBVIOUS
  <2>3. pixels[at.x][at.y] \in Colours /\ Sampled(t, pixels, x, y) = pixels[at.x][at.y]
    BY <2>1, <2>2, UnscaledSample
  <2>4. Reference(t, 1)[x][y] = at
    <3>1. t.sw \div 1 = t.sw /\ t.sh \div 1 = t.sh
          /\ TurnedWidth(t) \div 1 = t.ow /\ TurnedHeight(t) \div 1 = t.oh
      BY <2>1, ValidTransform DEF Unscaled
    <3>2. Reference(t, 1)[x][y] = SourcePixel(t, t.sw \div 1, t.sh \div 1, x, y)
      BY <3>1, ReferencePixel
    <3> QED BY <2>2, <3>1, <3>2
  <2> QED BY <1>2, <2>3, <2>4 DEF Wanted
<1> QED BY <1>1, <1>2

(* Seen from the other side a pair is a pair.                              *)
LEMMA PairAcross ==
  ASSUME NEW size \in Nat, Even(size), NEW m \in 0..(size - 1), NEW n \in 0..(size - 1),
         m \div 2 = n \div 2
  PROVE  (size - 1 - m) \div 2 = (size - 1 - n) \div 2
BY DEF Even

(* The even neighbour of a coordinate is in the picture, too.              *)
LEMMA AlignedIs ==
  ASSUME NEW size \in Nat, NEW n \in 0..(size - 1)
  PROVE  Aligned(n) = 2 * (n \div 2) /\ Aligned(n) \in 0..(size - 1)
BY DEF Aligned

(* The output pixels of a block show those of a block.                     *)
LEMMA BlocksStay ==
  ASSUME NEW t \in JpegTransforms, Unscaled(t),
         NEW x \in 0..(t.ow - 1), NEW y \in 0..(t.oh - 1),
         NEW i \in 0..(t.ow - 1), NEW j \in 0..(t.oh - 1),
         x \div 2 = i \div 2, y \div 2 = j \div 2
  PROVE  LET at == SourcePixel(t, t.sw, t.sh, x, y)
             by == SourcePixel(t, t.sw, t.sh, i, j)
         IN at.x \div 2 = by.x \div 2 /\ at.y \div 2 = by.y \div 2
<1> DEFINE tw == TurnedWidth(t)
           th == TurnedHeight(t)
           m == Across(t, x, tw)
           n == Across(t, i, tw)
           at == SourcePixel(t, t.sw, t.sh, x, y)
           by == SourcePixel(t, t.sw, t.sh, i, j)
<1>1. /\ tw \in Nat \ {0} /\ th \in Nat \ {0} /\ tw = t.ow /\ th = t.oh
      /\ Even(tw) /\ Even(th)
  BY ValidTransform DEF Unscaled, JpegTransforms, TransformsFrom, EvenSizes
<1>2. m \in 0..(tw - 1) /\ n \in 0..(tw - 1) /\ m \div 2 = n \div 2
  <2>1. CASE t.mirror
    <3>1. m = tw - 1 - x /\ n = tw - 1 - i
      BY <2>1 DEF Across
    <3>2. x \in 0..(tw - 1) /\ i \in 0..(tw - 1)
      BY <1>1
    <3> HIDE DEF m, n, tw
    <3>3. (tw - 1 - x) \div 2 = (tw - 1 - i) \div 2
      BY <1>1, <3>2, PairAcross
    <3> QED BY <1>1, <3>1, <3>2, <3>3
  <2>2. CASE ~ t.mirror
    <3>1. m = x /\ n = i
      BY <2>2 DEF Across
    <3> QED BY <1>1, <3>1
  <2> QED BY <2>1, <2>2
<1>3. m = Across(t, x, IF Turned(t) THEN t.sh ELSE t.sw) /\ n = Across(t, i, IF Turned(t) THEN t.sh ELSE t.sw)
  BY DEF TurnedWidth
<1> HIDE DEF m, n
<1>4. (tw - 1 - m) \div 2 = (tw - 1 - n) \div 2
  BY <1>1, <1>2, PairAcross
<1>5. (th - 1 - y) \div 2 = (th - 1 - j) \div 2
  BY <1>1, PairAcross
<1>6. at.x \div 2 = by.x \div 2 /\ at.y \div 2 = by.y \div 2
  <2>1. CASE t.rotation = 0
    <3>1. at = [x |-> m, y |-> y] /\ by = [x |-> n, y |-> j]
      BY <1>3, <2>1 DEF SourcePixel
    <3> QED BY <1>2, <3>1
  <2>2. CASE t.rotation = 90
    <3>1. at = [x |-> y, y |-> tw - 1 - m] /\ by = [x |-> j, y |-> tw - 1 - n]
      BY <1>3, <2>2 DEF SourcePixel, TurnedWidth, Turned
    <3> QED BY <1>4, <3>1
  <2>3. CASE t.rotation = 180
    <3>1. /\ at = [x |-> tw - 1 - m, y |-> th - 1 - y]
          /\ by = [x |-> tw - 1 - n, y |-> th - 1 - j]
      BY <1>3, <2>3 DEF SourcePixel, TurnedWidth, TurnedHeight, Turned
    <3> QED BY <1>4, <1>5, <3>1
  <2>4. CASE t.rotation = 270
    <3>1. at = [x |-> th - 1 - y, y |-> m] /\ by = [x |-> th - 1 - j, y |-> n]
      BY <1>3, <2>4 DEF SourcePixel, TurnedHeight, Turned
    <3> QED BY <1>2, <1>5, <3>1
  <2> QED BY <2>1, <2>2, <2>3, <2>4, ValidTransform DEF Rotations
<1> QED BY <1>6

(* So a block of the output is of one colour.                              *)
LEMMA BlockIsSampledAlike ==
  ASSUME NEW t \in JpegTransforms, NEW pixels \in DecodedOf(t), NeedsNoMixing(t, pixels),
         NEW x \in 0..(t.ow - 1), NEW y \in 0..(t.oh - 1),
         NEW i \in 0..(t.ow - 1), NEW j \in 0..(t.oh - 1),
         x \div 2 = i \div 2, y \div 2 = j \div 2
  PROVE  Sampled(t, pixels, i, j) = Sampled(t, pixels, x, y)
<1>1. CASE Uniform(pixels)
  <2>1. Sampled(t, pixels, i, j) = pixels[0][0] /\ Sampled(t, pixels, x, y) = pixels[0][0]
    BY <1>1, UniformSample
  <2> QED BY <2>1
<1>2. CASE ~ Uniform(pixels)
  <2>1. Unscaled(t) /\ InBlocks(pixels)
    BY <1>2 DEF NeedsNoMixing
  <2>2. PICK at, by : at = SourcePixel(t, t.sw, t.sh, x, y) /\ by = SourcePixel(t, t.sw, t.sh, i, j)
    OBVIOUS
  <2>3. Sampled(t, pixels, x, y) = pixels[at.x][at.y] /\ Sampled(t, pixels, i, j) = pixels[by.x][by.y]
    BY <2>1, <2>2, UnscaledSample
  <2>4. /\ at.x \in 0..(t.sw - 1) /\ at.y \in 0..(t.sh - 1)
        /\ by.x \in 0..(t.sw - 1) /\ by.y \in 0..(t.sh - 1)
    BY <2>1, <2>2, UnscaledMap DEF Unscaled
  <2>5. at.x \div 2 = by.x \div 2 /\ at.y \div 2 = by.y \div 2
    BY <2>1, <2>2, BlocksStay
  <2>6. Aligned(at.x) = Aligned(by.x) /\ Aligned(at.y) = Aligned(by.y)
    <3>1. t.sw \in Nat /\ t.sh \in Nat
      BY ValidTransform
    <3> QED BY <2>4, <2>5, <3>1, AlignedIs
  <2>7. \A k \in 0..(t.sw - 1), l \in 0..(t.sh - 1) :
          pixels[k][l] = pixels[Aligned(k)][Aligned(l)]
    <3>1. 0 \in 0..(t.sw - 1)
      BY ValidTransform
    <3>2. DOMAIN pixels = 0..(t.sw - 1) /\ DOMAIN pixels[0] = 0..(t.sh - 1)
      BY <3>1 DEF DecodedOf
    <3> QED BY <2>1, <3>2 DEF InBlocks
  <2>8. /\ pixels[at.x][at.y] = pixels[Aligned(at.x)][Aligned(at.y)]
        /\ pixels[by.x][by.y] = pixels[Aligned(by.x)][Aligned(by.y)]
    BY <2>4, <2>7
  <2> QED BY <2>3, <2>6, <2>8
<1> QED BY <1>1, <1>2

-------------------------------------------------------------------------------
(* Colours: the bytes of the NV21 picture *)

(* The halves of the output's sides, and its area.                         *)
Halves(t, a, b, n) ==
  /\ a \in Nat \ {0} /\ b \in Nat \ {0} /\ t.ow = 2 * a /\ t.oh = 2 * b
  /\ a = t.ow \div 2 /\ a * b \in Nat
  /\ n = t.ow * t.oh /\ n = 4 * (a * b) /\ n \in Nat /\ n \div 4 = a * b /\ n \div 2 = 2 * (a * b)

(* Both sides of an output are even, so that its size is four times its    *)
(* blocks.                                                                 *)
LEMMA HalvesAre ==
  ASSUME NEW t \in JpegTransforms
  PROVE  \E a, b, n : Halves(t, a, b, n)
<1>1. PICK w, h : w = t.ow /\ h = t.oh
  OBVIOUS
<1>2. w \in Nat \ {0} /\ h \in Nat \ {0} /\ w % 2 = 0 /\ h % 2 = 0
  BY <1>1 DEF JpegTransforms, TransformsFrom, EvenSizes, Even
<1>3. PICK a, b : a = w \div 2 /\ b = h \div 2
  OBVIOUS
<1>4. a \in Nat \ {0} /\ b \in Nat \ {0} /\ w = 2 * a /\ h = 2 * b
  BY <1>2, <1>3
<1>5. PICK ab : ab = a * b
  OBVIOUS
<1>6. ab \in Nat
  BY <1>4, <1>5, ProductIsNat
<1>7. w * h = 4 * ab
  BY <1>4, <1>5
<1>8. PICK n : n = w * h
  OBVIOUS
<1>9. n = 4 * ab /\ n \in Nat /\ n \div 4 = ab /\ n \div 2 = 2 * ab
  BY <1>6, <1>7, <1>8
<1>10. Halves(t, a, b, n)
  BY <1>1, <1>3, <1>4, <1>5, <1>6, <1>8, <1>9, Zenon DEF Halves
<1> QED BY <1>10

(* A chroma pair is that of the colour at its block.                       *)
LEMMA PairIs ==
  ASSUME NEW t \in JpegTransforms, NEW pixels \in DecodedOf(t), NeedsNoMixing(t, pixels),
         NEW a, NEW b, NEW n, Halves(t, a, b, n),
         NEW column \in 0..(a - 1), NEW row \in 0..(b - 1), NEW i, i = row * a + column + 1,
         NEW x \in {2 * column, 2 * column + 1}, NEW y \in {2 * row, 2 * row + 1}
  PROVE  /\ x \in 0..(t.ow - 1) /\ y \in 0..(t.oh - 1)
         /\ ChromaPair(Block(t, pixels, i)) =
              <<VOf(Wanted(t, pixels, x, y)), UOf(Wanted(t, pixels, x, y))>>
<1>1. a \in Nat \ {0} /\ b \in Nat \ {0} /\ t.ow = 2 * a /\ t.oh = 2 * b /\ a = t.ow \div 2
  BY DEF Halves
<1>2. x \in 0..(t.ow - 1) /\ y \in 0..(t.oh - 1) /\ x \div 2 = column /\ y \div 2 = row
  BY <1>1
<1>3. PICK p : p = Wanted(t, pixels, x, y)
  OBVIOUS
<1>4. p \in Colours /\ Sampled(t, pixels, x, y) = p
  BY <1>2, <1>3, SampledIsWanted
<1>5. (i - 1) % a = column /\ (i - 1) \div a = row
  <2>1. row \in Nat /\ column \in Nat /\ row * a \in Nat
    BY <1>1, ProductIsNat
  <2>2. PICK j : j = row * a + column
    OBVIOUS
  <2>3. i - 1 = j
    BY <2>1, <2>2
  <2>4. a \in Nat \ {0} /\ row \in Nat /\ column \in 0..(a - 1)
    BY <1>1, <2>1
  <2>5. j \div a = row /\ j % a = column
    BY <2>2, <2>4, RowsAndRest, Zenon
  <2> QED BY <2>3, <2>5, Zenon
<1>6. PICK block : block = Block(t, pixels, i)
  OBVIOUS
<1>7. block = [k \in 1..4 |-> Sampled(t, pixels, 2 * column + ((k - 1) % 2), 2 * row + ((k - 1) \div 2))]
  BY <1>1, <1>5, <1>6 DEF Block
<1>8. ASSUME NEW k \in 1..4 PROVE block[k] = p
  <2>1. PICK c, r : c = 2 * column + ((k - 1) % 2) /\ r = 2 * row + ((k - 1) \div 2)
    OBVIOUS
  <2>2. c \in {2 * column, 2 * column + 1} /\ r \in {2 * row, 2 * row + 1}
    <3>1. k = 1 \/ k = 2 \/ k = 3 \/ k = 4
      OBVIOUS
    <3>2. (k - 1) % 2 \in {0, 1} /\ (k - 1) \div 2 \in {0, 1}
      BY <3>1
    <3> QED BY <2>1, <3>2
  <2>3. c \in 0..(t.ow - 1) /\ r \in 0..(t.oh - 1) /\ c \div 2 = column /\ r \div 2 = row
    BY <1>1, <2>2
  <2>4. Sampled(t, pixels, c, r) = Sampled(t, pixels, x, y)
    BY <1>2, <2>3, BlockIsSampledAlike
  <2> QED BY <1>4, <1>7, <2>1, <2>4
<1>9. ChromaPair(block) = <<VOf(p), UOf(p)>>
  BY <1>4, <1>8, ChromaOfOne
<1> QED BY <1>2, <1>3, <1>6, <1>9

(* What NV21 holds of a colour are numbers.                                *)
LEMMA ColourTypes ==
  ASSUME NEW p \in Colours
  PROVE  LumaOf(p) \in Int /\ UOf(p) \in Int /\ VOf(p) \in Int
<1>1. PICK r, g, b, l, u, v :
        /\ r = p[1] /\ g = p[2] /\ b = p[3] /\ Numbers(r, g, b, l, u, v)
        /\ LumaOf(p) = l + 16 /\ UOf(p) = u + 128 /\ VOf(p) = v + 128
  BY ColourPacked
<1>2. l \in Int /\ u \in Int /\ v \in Int
  BY <1>1 DEF Numbers
<1> QED BY <1>1, <1>2

(* Every chroma pair is a pair of numbers.                                 *)
LEMMA PairsAre ==
  ASSUME NEW t \in JpegTransforms, NEW pixels \in DecodedOf(t), NeedsNoMixing(t, pixels),
         NEW a, NEW b, NEW n, Halves(t, a, b, n),
         NEW i \in 1..(a * b)
  PROVE  ChromaPair(Block(t, pixels, i)) \in Seq(Int) /\ Len(ChromaPair(Block(t, pixels, i))) = 2
<1>1. a \in Nat \ {0} /\ b \in Nat \ {0} /\ a * b \in Nat
  BY DEF Halves
<1>2. PICK j : j = i - 1
  OBVIOUS
<1>3. j \in Nat /\ j < a * b
  BY <1>1, <1>2
<1>4. PICK column, row : column = j % a /\ row = j \div a
  OBVIOUS
<1>5. row \in 0..(b - 1) /\ column \in 0..(a - 1) /\ j = a * row + column
  BY <1>1, <1>3, <1>4, RowAndColumn
<1>6. i = row * a + column + 1
  BY <1>1, <1>2, <1>3, <1>5
<1>7. PICK x, y : x = 2 * column /\ y = 2 * row
  OBVIOUS
<1>8. x \in {2 * column, 2 * column + 1} /\ y \in {2 * row, 2 * row + 1}
  BY <1>7
<1>9. PICK p : p = Wanted(t, pixels, x, y)
  OBVIOUS
<1>10. x \in 0..(t.ow - 1) /\ y \in 0..(t.oh - 1) /\ ChromaPair(Block(t, pixels, i)) = <<VOf(p), UOf(p)>>
  BY <1>5, <1>6, <1>8, <1>9, PairIs
<1>11. p \in Colours
  BY <1>9, <1>10, SampledIsWanted
<1>12. VOf(p) \in Int /\ UOf(p) \in Int
  BY <1>11, ColourTypes
<1> QED BY <1>10, <1>12

(* Where the numbers of an output pixel are.                               *)
Holds(t, pixels, nv21, n, x, y) ==
  LET p == Wanted(t, pixels, x, y)
      chroma == n + (y \div 2) * t.ow + Aligned(x)
  IN /\ Byte(nv21, y * t.ow + x) = LumaOf(p)
     /\ Byte(nv21, chroma) = VOf(p) /\ Byte(nv21, chroma + 1) = UOf(p)

(* The NV21 picture has the size it should, and each pixel is where it     *)
(* should be.                                                              *)
LEMMA Nv21Is ==
  ASSUME NEW t \in JpegTransforms, NEW pixels \in DecodedOf(t), NeedsNoMixing(t, pixels),
         NEW a, NEW b, NEW n, Halves(t, a, b, n),
         NEW nv21, nv21 = TransformJpegToNv21(t, pixels)
  PROVE  /\ Len(nv21) = n + n \div 2
         /\ \A x \in 0..(t.ow - 1), y \in 0..(t.oh - 1) : Holds(t, pixels, nv21, n, x, y)
<1>1. /\ a \in Nat \ {0} /\ b \in Nat \ {0} /\ t.ow = 2 * a /\ t.oh = 2 * b
      /\ n = t.ow * t.oh /\ n = 4 * (a * b) /\ n \in Nat /\ n \div 4 = a * b
      /\ n \div 2 = 2 * (a * b) /\ a * b \in Nat
  BY DEF Halves
<1>2. PICK ab : ab = a * b
  OBVIOUS
<1>3. ab \in Nat /\ n = 4 * ab /\ n \div 4 = ab /\ n \div 2 = 2 * ab
  BY <1>1, <1>2
<1>4. PICK luma : luma = [i \in 1..n |-> LumaOf(Sampled(t, pixels, (i - 1) % t.ow, (i - 1) \div t.ow))]
  OBVIOUS
<1>5. PICK pairs : pairs = [i \in 1..ab |-> ChromaPair(Block(t, pixels, i))]
  OBVIOUS
<1>6. PICK flat : flat = FlattenSeq(pairs)
  OBVIOUS
<1>7. nv21 = luma \o flat
  BY <1>1, <1>3, <1>4, <1>5, <1>6, Zenon DEF TransformJpegToNv21
<1>8. ASSUME NEW i \in 1..n
      PROVE  luma[i] \in Int
  <2>1. PICK j, w : j = i - 1 /\ w = t.ow
    OBVIOUS
  <2>2. j \in Nat /\ w \in Nat \ {0} /\ j < w * t.oh /\ t.oh \in Nat
    BY <1>1, <2>1
  <2>3. j \div w \in 0..(t.oh - 1) /\ j % w \in 0..(w - 1)
    BY <2>2, RowAndColumn
  <2>4. Sampled(t, pixels, j % w, j \div w) \in Colours
    BY <2>1, <2>3, SampledIsWanted
  <2>5. luma[i] = LumaOf(Sampled(t, pixels, j % w, j \div w))
    BY <1>4, <2>1
  <2> QED BY <2>4, <2>5, ColourTypes
<1>9. luma \in Seq(Int) /\ Len(luma) = n
  <2>1. luma \in [1..n -> Int]
    BY <1>4, <1>8
  <2> QED BY <1>1, <2>1
<1>10. ASSUME NEW i \in 1..ab
       PROVE  /\ pairs[i] = ChromaPair(Block(t, pixels, i))
              /\ pairs[i] \in Seq(Int) /\ Len(pairs[i]) = 2
  <2>1. pairs[i] = ChromaPair(Block(t, pixels, i))
    BY <1>5
  <2> QED BY <1>2, <2>1, PairsAre
<1>11. pairs \in Seq(Seq(Int)) /\ Len(pairs) = ab
  <2>1. pairs \in [1..ab -> Seq(Int)]
    BY <1>5, <1>10
  <2> QED BY <1>3, <2>1
<1>12. /\ flat \in Seq(Int) /\ Len(flat) = 2 * ab
       /\ \A i \in 1..ab : flat[2 * i - 1] = pairs[i][1] /\ flat[2 * i] = pairs[i][2]
  BY <1>6, <1>10, <1>11, FlattenPairs
<1>13. JoinedAre(Int, luma, flat, nv21, n)
  BY <1>7, <1>9, <1>12, Joined
<1>14. /\ Len(nv21) = n + 2 * ab
       /\ \A k \in 1..n : nv21[k] = luma[k]
       /\ \A k \in 1..(2 * ab) : nv21[n + k] = flat[k]
  BY <1>12, <1>13 DEF JoinedAre
<1>15. Len(nv21) = n + n \div 2
  BY <1>3, <1>14
<1>16. ASSUME NEW x \in 0..(t.ow - 1), NEW y \in 0..(t.oh - 1)
       PROVE  Holds(t, pixels, nv21, n, x, y)
  <2>1. PICK p : p = Wanted(t, pixels, x, y)
    OBVIOUS
  <2>2. Sampled(t, pixels, x, y) = p
    BY <2>1, SampledIsWanted
  <2>3. Byte(nv21, y * t.ow + x) = LumaOf(p)
    <3>1. PICK w, k : w = t.ow /\ k = y * w + x
      OBVIOUS
    <3>2. w \in Nat \ {0} /\ y \in Nat /\ x \in 0..(w - 1) /\ y * w \in Nat
      BY <1>1, <3>1, ProductIsNat
    <3>3. k \div w = y /\ k % w = x
      BY <3>1, <3>2, RowsAndRest
    <3>4. k \in Nat /\ k + 1 \in 1..n
      <4>1. y + 1 <= t.oh /\ t.oh \in Nat
        BY <1>1
      <4>2. (y + 1) * w <= t.oh * w
        BY <3>2, <4>1
      <4>3. (y + 1) * w = y * w + w
        BY <3>2
      <4>4. t.oh * w = n
        BY <1>1, <3>1
      <4> QED BY <1>1, <3>1, <3>2, <4>2, <4>3, <4>4
    <3>5. nv21[k + 1] = luma[k + 1]
      BY <1>14, <3>4
    <3>6. (k + 1) - 1 = k
      BY <3>4
    <3>7. luma[k + 1] = LumaOf(Sampled(t, pixels, k % w, k \div w))
      BY <1>4, <3>1, <3>4, <3>6
    <3> QED BY <2>2, <3>1, <3>3, <3>5, <3>7 DEF Byte
  <2>4. PICK column, row : column = x \div 2 /\ row = y \div 2
    OBVIOUS
  <2>5. /\ column \in 0..(a - 1) /\ row \in 0..(b - 1)
        /\ x \in {2 * column, 2 * column + 1} /\ y \in {2 * row, 2 * row + 1}
        /\ Aligned(x) = 2 * column
    BY <1>1, <2>4 DEF Aligned
  <2>6. PICK i : i = row * a + column + 1
    OBVIOUS
  <2>7. i \in 1..ab /\ row * a \in Nat
    <3>1. row * a \in Nat
      BY <1>1, <2>5, ProductIsNat
    <3>2. (row + 1) * a <= b * a
      BY <1>1, <2>5
    <3>3. (row + 1) * a = row * a + a
      BY <1>1, <2>5
    <3>4. b * a = ab
      BY <1>1, <1>2
    <3> QED BY <1>1, <1>3, <2>5, <2>6, <3>1, <3>2, <3>3, <3>4
  <2>8. pairs[i] = <<VOf(p), UOf(p)>>
    <3>1. /\ column \in 0..(a - 1) /\ row \in 0..(b - 1)
          /\ x \in {2 * column, 2 * column + 1} /\ y \in {2 * row, 2 * row + 1}
      BY <2>5
    <3>2. NeedsNoMixing(t, pixels) /\ Halves(t, a, b, n)
      OBVIOUS
    <3>3. ChromaPair(Block(t, pixels, i)) =
            <<VOf(Wanted(t, pixels, x, y)), UOf(Wanted(t, pixels, x, y))>>
      BY <2>6, <3>1, <3>2, PairIs, SMTT(30)
    <3>4. pairs[i] = ChromaPair(Block(t, pixels, i))
      BY <1>10, <2>7, Zenon
    <3> QED BY <2>1, <3>3, <3>4, Zenon
  <2>9. flat[2 * i - 1] = VOf(p) /\ flat[2 * i] = UOf(p)
    <3>1. pairs[i][1] = VOf(p) /\ pairs[i][2] = UOf(p)
      BY <2>8
    <3> QED BY <1>12, <2>7, <3>1
  <2>10. PICK chroma : chroma = n + row * t.ow + Aligned(x)
    OBVIOUS
  <2>11. chroma + 1 = n + (2 * i - 1) /\ (chroma + 1) + 1 = n + 2 * i
    <3>1. row * t.ow = 2 * (row * a)
      BY <1>1, <2>5
    <3>2. PICK m : m = row * a
      OBVIOUS
    <3>3. m \in Nat /\ i = m + column + 1 /\ chroma = n + 2 * m + 2 * column
      BY <2>5, <2>6, <2>7, <2>10, <3>1, <3>2
    <3> QED BY <1>1, <2>5, <3>3
  <2>12. nv21[n + (2 * i - 1)] = flat[2 * i - 1] /\ nv21[n + 2 * i] = flat[2 * i]
    <3>1. 2 * i - 1 \in 1..(2 * ab) /\ 2 * i \in 1..(2 * ab)
      BY <1>3, <2>7
    <3> QED BY <1>14, <3>1
  <2>13. Byte(nv21, chroma) = VOf(p) /\ Byte(nv21, chroma + 1) = UOf(p)
    BY <2>9, <2>11, <2>12 DEF Byte
  <2> QED BY <2>1, <2>3, <2>4, <2>10, <2>13 DEF Holds
<1> QED BY <1>15, <1>16

(* A decoded picture keeps its colours.                                    *)
LEMMA EveryPictureKeepsColours ==
  ASSUME NEW t \in JpegTransforms, NEW pixels \in DecodedOf(t)
  PROVE  ColoursSurvive(t, pixels)
<1> SUFFICES ASSUME NeedsNoMixing(t, pixels), NEW nv21, nv21 = TransformJpegToNv21(t, pixels)
             PROVE  /\ Len(nv21) = t.ow * t.oh + (t.ow * t.oh) \div 2
                    /\ \A x \in 0..(t.ow - 1), y \in 0..(t.oh - 1) :
                         Keeps(Nv21ToRgb(nv21, t.ow, t.oh, x, y), Wanted(t, pixels, x, y))
  BY Zenon DEF ColoursSurvive, NeedsNoMixing, Wanted
<1>1. PICK a, b, n : Halves(t, a, b, n)
  BY HalvesAre
<1>2. n = t.ow * t.oh
  BY <1>1 DEF Halves
<1>3. /\ Len(nv21) = n + n \div 2
      /\ \A x \in 0..(t.ow - 1), y \in 0..(t.oh - 1) : Holds(t, pixels, nv21, n, x, y)
  BY <1>1, Nv21Is
<1>4. ASSUME NEW x \in 0..(t.ow - 1), NEW y \in 0..(t.oh - 1)
      PROVE  Keeps(Nv21ToRgb(nv21, t.ow, t.oh, x, y), Wanted(t, pixels, x, y))
  <2>1. PICK chroma : chroma = n + (y \div 2) * t.ow + Aligned(x)
    OBVIOUS
  <2>2. PICK p : p = Wanted(t, pixels, x, y)
    OBVIOUS
  <2>3. /\ Byte(nv21, y * t.ow + x) = LumaOf(p)
        /\ Byte(nv21, chroma) = VOf(p) /\ Byte(nv21, chroma + 1) = UOf(p)
    BY <1>3, <2>1, <2>2, Zenon DEF Holds
  <2>4. p \in Colours
    BY <2>2, SampledIsWanted
  <2>5. chroma = t.ow * t.oh + (y \div 2) * t.ow + Aligned(x)
    BY <1>2, <2>1
  <2> QED BY <2>2, <2>3, <2>4, <2>5, ColourKept
<1> QED BY <1>2, <1>3, <1>4

(* Decoded, packed and written again, a picture keeps its colours in their *)
(* places (image_transform.cpp:90-146, 445-491, 596-609).                  *)
THEOREM ColoursHold == Spec => []PicturesKeepColours
<1>1. JpegInv => PicturesKeepColours
  <2> SUFFICES ASSUME JpegInv, jpeg # Nothing, "picture" \in DOMAIN jpeg
               PROVE  ColoursSurvive(jpeg.picture.t, jpeg.picture.pixels)
    BY DEF PicturesKeepColours
  <2>1. jpeg \in [picture : Pictures]
    BY DEF JpegInv
  <2>2. jpeg.picture.t \in JpegTransforms /\ jpeg.picture.pixels \in DecodedOf(jpeg.picture.t)
    BY <2>1, PicturesAssumption
  <2> QED BY <2>2, EveryPictureKeepsColours
<1> QED BY <1>1, JpegInit, JpegNext, PTL DEF Spec

=============================================================================
