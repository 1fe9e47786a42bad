-------------------------------- MODULE Pixels --------------------------------
(***************************************************************************)
(* The computations on the way of a picture.  A local one: the app packs   *)
(* an Android image into NV21 (Nv21Converter), vcamesd turns, mirrors and  *)
(* scales it (ImageTransform).  A JPEG: vcamesd reads its size, decodes    *)
(* and samples it, and writes the colours of the NV21 to another           *)
(* (JpegPictures).  One picture after another is worked on.                *)
(***************************************************************************)
EXTENDS Nv21Converter, JpegPictures

CONSTANTS
  Images,      \* decoded images: crop rectangle and three buffers
  Transforms,  \* source and output sizes with rotation and mirror
  Frames,      \* JPEG frames: segments and where they are cut off
  SinkOptions, \* output sizes with rotation and mirror
  Pictures     \* decoded JPEGs: a transform and its pixels

(* What the app may get from a decoder: buffers at some address, of sizes  *)
(* and strides that a size_t holds, legal or not.                          *)
Buffer ==
  LET size == {n \in Int : n <= SizeMax}
  IN [address : Nat, capacity : Int, limit : size, position : size,
      rowStride : size, pixelStride : size]

ValidImages ==
  [crop : [left : Nat, top : Nat, right : Int, bottom : Int],
   y : Buffer, u : Buffer, v : Buffer]

ASSUME ImagesAssumption == Images \subseteq ValidImages

EvenSizes == {n \in Nat \ {0} : Even(n)}

(* Sizes are limited in the code, and here by none: what TransformNv21     *)
(* lets pass is even, a decoded JPEG of any size                           *)
(* (image_transform.cpp:392-402, 503-526).                                 *)
TransformsFrom(sizes) ==
  [sw : sizes, sh : sizes, ow : EvenSizes, oh : EvenSizes,
   rotation : Rotations, mirror : BOOLEAN]
ValidTransforms == TransformsFrom(EvenSizes)
JpegTransforms == TransformsFrom(Nat \ {0})

ASSUME TransformsAssumption == Transforms \subseteq ValidTransforms

(* What FFmpeg may deliver: segments whose length is their own, too small, *)
(* or beyond the end.  A length that is wrong and leads into the middle of *)
(* the frame has no right answer.                                          *)
Below(n) == {i \in Nat : i < n}
AnySegment == [fill : Nat, marker : Below(255), body : Seq(Below(256)), length : Below(256 * 256)]
ValidSegments ==
  {segment \in AnySegment : segment.marker \in Standalone => segment.body = <<>>}

AnyFrame == [segments : Seq(ValidSegments), cut : Nat]
ValidFrames ==
  {frame \in AnyFrame :
     \A i \in DOMAIN frame.segments :
       LET segment == frame.segments[i]
       IN \/ segment.length = Len(segment.body) + 2 \/ segment.length < 2
          \/ segment.length > Len(FrameBytes(frame))}

ASSUME FramesAssumption == Frames \subseteq ValidFrames

(* What the decoder delivers: a picture of the transform's source size.    *)
Colours == [1..3 -> Below(256)]
DecodedOf(t) == [0..(t.sw - 1) -> [0..(t.sh - 1) -> Colours]]

ASSUME PicturesAssumption ==
  \A picture \in Pictures :
    picture.t \in JpegTransforms /\ picture.pixels \in DecodedOf(picture.t)

VARIABLES
  image,     \* the image being packed, or none
  transform, \* the transform being made, or none
  jpeg       \* the JPEG being measured or recoloured, or none

vars == <<image, transform, jpeg>>
Nothing == <<>>

Init == image = Nothing /\ transform = Nothing /\ jpeg = Nothing

Convert == image = Nothing /\ image' \in Images /\ UNCHANGED <<transform, jpeg>>
Converted == image # Nothing /\ image' = Nothing /\ UNCHANGED <<transform, jpeg>>

Transform == transform = Nothing /\ transform' \in Transforms /\ UNCHANGED <<image, jpeg>>
Transformed == transform # Nothing /\ transform' = Nothing /\ UNCHANGED <<image, jpeg>>

Measure == jpeg = Nothing /\ jpeg' \in [frame : Frames] /\ UNCHANGED <<image, transform>>
Recolour == jpeg = Nothing /\ jpeg' \in [picture : Pictures] /\ UNCHANGED <<image, transform>>
Written == jpeg # Nothing /\ jpeg' = Nothing /\ UNCHANGED <<image, transform>>

(* One at a time: they share nothing. *)
Next ==
  \/ transform = Nothing /\ jpeg = Nothing /\ (Convert \/ Converted)
  \/ image = Nothing /\ jpeg = Nothing /\ (Transform \/ Transformed)
  \/ image = Nothing /\ transform = Nothing /\ (Measure \/ Recolour \/ Written)

Spec == Init /\ [][Next]_vars

-------------------------------------------------------------------------------
(* ConvertYuv420ToNv21 accepts the images it should and packs them exactly *)
(* (yuv420_converter.cpp:19-115).                                          *)
ConversionIsExact == image # Nothing => ConvertedExactly(image)

(* Turning and mirroring without scaling is exact, luma and chroma         *)
(* (image_transform.cpp:70-146, 527-570).                                  *)
OrientationIsExact == transform # Nothing => OrientsExactly(transform)

(* A scaled picture covers the output (image_transform.cpp:117-146).       *)
OutputIsCovered == transform # Nothing => Covers(transform)

(* TransformNv21 turns and mirrors exactly and fills its whole output.     *)
TransformIsExact == OrientationIsExact /\ OutputIsCovered

(* A frame's size is read from its own header and no other, or not at all  *)
(* (image_transform.cpp:197-247, engine.cpp:311-340).                      *)
SizesAreTrue ==
  jpeg # Nothing /\ "frame" \in DOMAIN jpeg =>
    \A options \in SinkOptions : SizeIsTrue(jpeg.frame, options)

(* Decoded, packed and written again, a picture keeps its colours in their *)
(* places (image_transform.cpp:90-146, 445-491, 596-609).                  *)
PicturesKeepColours ==
  jpeg # Nothing /\ "picture" \in DOMAIN jpeg =>
    ColoursSurvive(jpeg.picture.t, jpeg.picture.pixels)
=============================================================================
