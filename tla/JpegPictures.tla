----------------------------- MODULE JpegPictures -----------------------------
(***************************************************************************)
(* A JPEG frame on its way to the camera (daemon/src/image_transform.cpp,  *)
(* engine.cpp:311-349): its size is read from its headers, a frame of the  *)
(* wrong size or orientation is decoded, sampled and packed into NV21, and *)
(* NV21 is turned back into the colours of the JPEG that is written out.   *)
(***************************************************************************)
EXTENDS ImageTransform, SequencesExt

NoSize == [w |-> 0, h |-> 0]

-------------------------------------------------------------------------------
(* The size of a frame, a sequence of bytes *)

IsStartOfFrame(marker) ==
  marker \in 192..207 \ {196, 200, 204}  \* C0 to CF but DHT, JPG and DAC

EndOfImage == 217
StartOfScan == 218
Standalone == {1} \cup 208..216  \* TEM, RST0 to RST7, SOI

(* Offsets count from 0.  A byte beyond the end has no value. *)
Byte(jpeg, offset) == jpeg[offset + 1]
BigEndian16(jpeg, offset) == 256 * Byte(jpeg, offset) + Byte(jpeg, offset + 1)

(* Where the run of FF bytes at an offset ends. *)
AfterFill(jpeg, offset) ==
  Min({i \in offset..(Len(jpeg) - 1) : Byte(jpeg, i) # 255} \cup {Len(jpeg)})

SizeAt(jpeg, offset) ==
  LET size == [w |-> BigEndian16(jpeg, offset + 5), h |-> BigEndian16(jpeg, offset + 3)]
  IN IF size.w = 0 \/ size.h = 0 THEN NoSize ELSE size

(* Where the walk goes after a segment.  Seeded fault: into the segment,   *)
(* past its length only.                                                   *)
NextSegmentInside(jpeg, offset) == offset + 2

NextSegment(jpeg, offset) == offset + BigEndian16(jpeg, offset)

(* One round of the walk over the segments: the size found from an offset  *)
(* on, or none, given what is found from each later offset.                *)
SizeFrom(jpeg, offset, after) ==
  LET size == Len(jpeg)
      at == AfterFill(jpeg, offset)  \* of the marker
      marker == Byte(jpeg, at)
      length == BigEndian16(jpeg, at + 1)
  IN IF offset + 4 > size \/ at = size THEN NoSize
     ELSE IF marker \in Standalone THEN after[at + 1]
     ELSE IF marker \in {EndOfImage, StartOfScan} \/ at + 3 > size THEN NoSize
     ELSE IF length < 2 \/ at + 1 + length > size THEN NoSize
     ELSE IF IsStartOfFrame(marker) /\ length >= 7 THEN SizeAt(jpeg, at + 1)
     ELSE after[NextSegment(jpeg, at + 1)]

Walk(jpeg) ==
  LET found[offset \in 0..Len(jpeg)] == SizeFrom(jpeg, offset, found) IN found

ReadJpegDimensions(jpeg) ==
  IF Len(jpeg) < 4 \/ Byte(jpeg, 0) # 255 \/ Byte(jpeg, 1) # 216
  THEN NoSize ELSE Walk(jpeg)[2]

WithinLimit(size) == size.w > 0 /\ size.h > 0 /\ size.w <= 3840 /\ size.h <= 2160

(* What the engine makes of a frame: it passes as it is, is decoded to a   *)
(* picture of the sink's size, or is dropped.  "decoded" is the size the   *)
(* decoder finds, none if it fails.                                        *)
Shown(jpeg, decoded, options) ==
  LET size == ReadJpegDimensions(jpeg)
      sink == [w |-> options.ow, h |-> options.oh]
  IN IF size = sink /\ options.rotation = 0 /\ ~options.mirror THEN "as it is"
     ELSE IF WithinLimit(size) /\ decoded = size THEN "transformed" ELSE "dropped"

-------------------------------------------------------------------------------
(* Reference: a frame as the sequence of its segments, cut off somewhere.  *)
(* A segment is led by some FF bytes; its length counts its body and       *)
(* itself, unless it is wrong.                                             *)

SegmentBytes(segment) ==
  [i \in 1..segment.fill |-> 255] \o <<segment.marker>>
  \o (IF segment.marker \in Standalone \cup {EndOfImage} THEN <<>>
      ELSE <<segment.length \div 256, segment.length % 256>>)
  \o segment.body

BytesTo(frame, i) ==
  <<255, 216>> \o FlattenSeq([j \in 1..i |-> SegmentBytes(frame.segments[j])])
FrameBytes(frame) ==
  LET all == BytesTo(frame, Len(frame.segments))
  IN SubSeq(all, 1, Len(all) - frame.cut)

Headers(frame) ==
  {i \in DOMAIN frame.segments :
     /\ IsStartOfFrame(frame.segments[i].marker) /\ frame.segments[i].length >= 7
     /\ Len(BytesTo(frame, i)) <= Len(FrameBytes(frame))
     /\ \A j \in 1..(i - 1) : frame.segments[j].marker \notin {EndOfImage, StartOfScan}
     /\ \A j \in 1..i : frame.segments[j].marker \notin Standalone =>
                          frame.segments[j].length = Len(frame.segments[j].body) + 2}

TrueSize(frame) ==
  IF Headers(frame) = {} THEN NoSize
  ELSE LET body == frame.segments[Min(Headers(frame))].body
           size == [w |-> 256 * body[4] + body[5], h |-> 256 * body[2] + body[3]]
       IN IF size.w = 0 \/ size.h = 0 THEN NoSize ELSE size

(* What a frame of a true size, or of none, may become.                    *)
RightlyShown(true, decoded, options, shown) ==
  CASE shown = "as it is" -> true = [w |-> options.ow, h |-> options.oh]
    [] shown = "transformed" -> decoded = true /\ WithinLimit(true)
    [] OTHER -> decoded = NoSize \/ true.w > 3840 \/ true.h > 2160

(* The size found is the one in the first frame header outside any other   *)
(* segment, as of the picture and not of a thumbnail in its metadata; it   *)
(* is none if the frame ends before; and the camera is shown no JPEG of    *)
(* another size than its own (image_transform.cpp:197-247, 407-437,        *)
(* engine.cpp:311-340).                                                    *)
SizeIsTrue(frame, options) ==
  LET jpeg == FrameBytes(frame)
      true == TrueSize(frame)
  IN /\ ReadJpegDimensions(jpeg) = true
     /\ \A decoded \in {true, NoSize} :
          RightlyShown(true, decoded, options, Shown(jpeg, decoded, options))

-------------------------------------------------------------------------------
(* Colours.  A picture is pixels[x][y], a pixel <<red, green, blue>>.      *)

ClampByte(n) == Clamp(n, 0, 255)

(* From a to b, n / d of a pixel past a; times d.                          *)
Mix(d, a, b, n) == a * d + (b - a) * (n % d)

SampleChannel(t, pixels, x, y, channel) ==
  LET d == Denominator(t)
      source == MapOutputToSource(t, x, y)
      sx == Clamp(source.x, 0, (t.sw - 1) * d)
      sy == Clamp(source.y, 0, (t.sh - 1) * d)
      x0 == sx \div d
      y0 == sy \div d
      x1 == Min({x0 + 1, t.sw - 1})
      y1 == Min({y0 + 1, t.sh - 1})
  IN Mix(d, Mix(d, pixels[x0][y0][channel], pixels[x1][y0][channel], sx),
            Mix(d, pixels[x0][y1][channel], pixels[x1][y1][channel], sx), sy) \div (d * d)

Sampled(t, pixels, x, y) == [c \in 1..3 |-> SampleChannel(t, pixels, x, y, c)]

LumaOf(p) == ClampByte((66 * p[1] + 129 * p[2] + 25 * p[3] + 128) \div 256 + 16)
UOf(p) == (112 * p[3] - 38 * p[1] - 74 * p[2] + 128) \div 256 + 128
VOf(p) == (112 * p[1] - 94 * p[2] - 18 * p[3] + 128) \div 256 + 128

(* A pair of the chroma plane: the mean of its 2 by 2 block.  Seeded       *)
(* fault: the planes of NV12.                                              *)
ChromaPairUFirst(block) ==
  LET mean(f(_)) == ClampByte((f(block[1]) + f(block[2]) + f(block[3]) + f(block[4])) \div 4)
  IN <<mean(UOf), mean(VOf)>>

ChromaPair(block) ==
  LET mean(f(_)) == ClampByte((f(block[1]) + f(block[2]) + f(block[3]) + f(block[4])) \div 4)
  IN <<mean(VOf), mean(UOf)>>

(* The 2 by 2 block of the output that shares chroma pair i.               *)
Block(t, pixels, i) ==
  LET x == 2 * ((i - 1) % (t.ow \div 2))
      y == 2 * ((i - 1) \div (t.ow \div 2))
  IN [k \in 1..4 |-> Sampled(t, pixels, x + ((k - 1) % 2), y + ((k - 1) \div 2))]

TransformJpegToNv21(t, pixels) ==
  LET n == t.ow * t.oh
      luma == [i \in 1..n |-> LumaOf(Sampled(t, pixels, (i - 1) % t.ow, (i - 1) \div t.ow))]
  IN luma \o FlattenSeq([i \in 1..(n \div 4) |-> ChromaPair(Block(t, pixels, i))])

(* The pixel of an NV21 picture that is written to the JPEG. *)
Rgb(c, u, v) ==
  <<ClampByte((298 * c + 409 * v + 128) \div 256),
    ClampByte((298 * c - 100 * u - 208 * v + 128) \div 256),
    ClampByte((298 * c + 516 * u + 128) \div 256)>>

Nv21ToRgb(nv21, width, height, x, y) ==
  LET chroma == width * height + (y \div 2) * width + Aligned(x)
  IN Rgb(Max({0, Byte(nv21, y * width + x) - 16}),
         Byte(nv21, chroma + 1) - 128, Byte(nv21, chroma) - 128)

-------------------------------------------------------------------------------
(* What becomes of the colours *)

Uniform(pixels) ==
  \A x \in DOMAIN pixels, y \in DOMAIN pixels[0] : pixels[x][y] = pixels[0][0]
InBlocks(pixels) ==
  \A x \in DOMAIN pixels, y \in DOMAIN pixels[0] :
    pixels[x][y] = pixels[Aligned(x)][Aligned(y)]

Grey(colour) == colour[1] = colour[2] /\ colour[2] = colour[3]
Keeps(shown, colour) ==
  (\A c \in 1..3 : shown[c] - colour[c] \in -3..3) /\ (Grey(colour) => Grey(shown))

(* A picture that needs no mixing, as it is not scaled and each 2 by 2     *)
(* block is of one colour, keeps every colour within 3 of 255 in its       *)
(* place, turned and mirrored, and so does one of a single colour at any   *)
(* scale; grey stays grey (image_transform.cpp:90-146, 445-491, 596-609).  *)
ColoursSurvive(t, pixels) ==
  LET nv21 == TransformJpegToNv21(t, pixels)
      reference == Reference(t, 1)
      wanted(x, y) ==
        IF Uniform(pixels) THEN pixels[0][0] ELSE pixels[reference[x][y].x][reference[x][y].y]
  IN Uniform(pixels) \/ (Unscaled(t) /\ InBlocks(pixels)) =>
       /\ Len(nv21) = t.ow * t.oh + (t.ow * t.oh) \div 2
       /\ \A x \in 0..(t.ow - 1), y \in 0..(t.oh - 1) :
            Keeps(Nv21ToRgb(nv21, t.ow, t.oh, x, y), wanted(x, y))
=============================================================================
