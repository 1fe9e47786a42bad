------------------------------- MODULE MCPixels -------------------------------
(* Pixels with images whose strides, limits and positions lie on either    *)
(* side of every check, with all small sizes of pictures, with JPEG frames *)
(* of up to three segments, and with the colours of a grid.                *)
EXTENDS Pixels

Buffers(addresses, capacities, limits, positions, rowStrides, pixelStrides) ==
  [address : addresses, capacity : capacities, limit : limits, position : positions,
   rowStride : rowStrides, pixelStride : pixelStrides]

GoodLuma == [address |-> 100, capacity |-> 60, limit |-> 60, position |-> 0,
             rowStride |-> 6, pixelStride |-> 1]
GoodChroma == [GoodLuma EXCEPT !.address = 300]

Rectangle(left, top, right, bottom) ==
  [left |-> left, top |-> top, right |-> right, bottom |-> bottom]

Crops == {Rectangle(0, 0, 4, 2), Rectangle(1, 0, 4, 5), Rectangle(2, 2, 5, 4),
          Rectangle(0, 2, 1, 4), Rectangle(0, 0, 2, 10)}

OddLuma ==
  [crop : Crops, u : {GoodChroma}, v : {GoodChroma},
   y : Buffers({100}, {-1, 12, 63}, {-1, 0, 4, 10, 11, 12, 16, 22, 63},
               {-1, 0, 1, 12, 63}, {-1, 0, 1, 2, 4, 6, 21, 32, 63}, {0, 1, 2, 4, 32, 63})]

OddChroma ==
  [crop : Crops \ {Rectangle(0, 2, 1, 4)}, y : {GoodLuma},
   u : Buffers({199, 201, 300}, {63}, {3, 7, 8}, {0, 1}, {2, 4, 61}, {1, 2, 62}),
   v : Buffers({200}, {63}, {3, 4, 7, 8}, {0, 1}, {2, 4}, {1, 2})]

MCImages == OddLuma \cup OddChroma

MCTransforms ==
  [sw : {2, 4, 6, 8}, sh : {2, 4, 6, 8}, ow : {2, 4, 6, 10}, oh : {2, 4, 8, 10},
   rotation : Rotations, mirror : BOOLEAN]

-------------------------------------------------------------------------------
Bytes(n) == <<n \div 256, n % 256>>
Segment(marker, body) ==
  [fill |-> 1, marker |-> marker, body |-> body, length |-> Len(body) + 2]
Header(marker, w, h) == Segment(marker, <<8>> \o Bytes(h) \o Bytes(w) \o <<0>>)

Thumbnail == <<69, 255, 216, 255, 192, 0, 8, 8, 0, 120, 0, 160, 0, 255, 217>>

Segments ==
  {Header(marker, 1280, 720) : marker \in {192, 194, 207}}
  \cup {Header(192, w, 720) : w \in {0, 640, 3840, 3841}} \cup {Header(193, 1280, 2161)}
  \cup {Header(marker, 640, 480) : marker \in {196, 200, 204}}  \* no frame headers
  \cup {Segment(225, Thumbnail), Segment(219, <<>>), Segment(192, <<8, 2, 208, 5>>),
        Segment(218, <<1>>), Segment(217, <<>>), Segment(1, <<>>), Segment(211, <<>>)}
  \cup {[Segment(192, <<8, 2, 208, 5, 0>>) EXCEPT !.fill = 3],
        [Segment(225, <<>>) EXCEPT !.length = 1],
        [Segment(225, <<>>) EXCEPT !.length = 65535]}

MCFrames ==
  [segments : UNION {[1..n -> Segments] : n \in 0..3}, cut : {0, 1, 2, 5, 9}]

MCSinkOptions ==
  {[ow |-> 1280, oh |-> 720, rotation |-> rotation, mirror |-> mirror] :
     rotation \in {0, 90}, mirror \in BOOLEAN}

-------------------------------------------------------------------------------
Levels == {0, 1, 15, 64, 127, 128, 200, 254, 255}
Palette == {<<red, green, blue>> : red, green, blue \in Levels}
Blocks(t, first, other) ==
  [x \in 0..(t.sw - 1) |-> [y \in 0..(t.sh - 1) |->
     IF (x \div 2 + y \div 2) % 2 = 0 THEN first ELSE other]]

Turns(sources, rotations, sizes) ==
  {t \in [sw : sources, sh : sources, ow : sizes, oh : sizes,
          rotation : rotations, mirror : BOOLEAN] : t.sw # t.sh}

MCPictures ==
  {[t |-> t, pixels |-> Blocks(t, first, <<255, 0, 128>>)] :
     t \in {u \in Turns({2, 4}, Rotations, {2, 4}) : Unscaled(u)},
     first \in Palette}
  \cup {[t |-> t, pixels |-> Blocks(t, colour, colour)] :
     t \in Turns({1, 2, 5}, {0, 90}, {2, 6}), colour \in {<<0, 0, 0>>, <<255, 0, 1>>, <<90, 90, 90>>}}
=============================================================================
