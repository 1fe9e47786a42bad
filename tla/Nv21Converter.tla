---------------------------- MODULE Nv21Converter ----------------------------
(***************************************************************************)
(* What the app does to a decoded picture before it sends it: Yuv420-      *)
(* Converter chooses the part to send, yuv420_jni.cpp hands the planes'    *)
(* buffers over, ConvertYuv420ToNv21 packs their samples tightly.          *)
(*                                                                         *)
(* A byte is told apart by its address; size_t wraps at SizeMax + 1.  A    *)
(* copy of adjacent samples by memcpy is the loop over them.               *)
(***************************************************************************)
EXTENDS Integers

CONSTANTS
  SizeMax,  \* numeric_limits<size_t>::max()
  ArrayMax  \* Integer.MAX_VALUE, the longest array

ASSUME SizeAssumption == SizeMax \in Nat
ASSUME ArrayAssumption == ArrayMax \in Nat

Word(n) == n % (SizeMax + 1)
Even(n) == n % 2 = 0
EvenDown(n) == n - (n % 2)

Null == -1  \* no address

(* convert: the part of the crop rectangle that is sent. *)
Cut(crop) ==
  LET left == EvenDown(crop.left)
      top == EvenDown(crop.top)
  IN [left |-> left, top |-> top,
      width |-> EvenDown(crop.right - left), height |-> EvenDown(crop.bottom - top)]

(* A buffer with its strides as Java knows them (signed), seen by C++.     *)
Plane(buffer) ==
  LET limit == IF buffer.limit < 0 THEN 0 ELSE buffer.limit
  IN [data |-> IF buffer.capacity < 0 \/ limit > buffer.capacity
               THEN Null ELSE buffer.address,
      limit |-> limit,
      position |-> IF buffer.position < 0 THEN limit ELSE buffer.position,
      rowStride |-> IF buffer.rowStride <= 0 THEN 0 ELSE buffer.rowStride,
      pixelStride |-> IF buffer.pixelStride <= 0 THEN 0 ELSE buffer.pixelStride]

-------------------------------------------------------------------------------
(* CheckedOffset: where samples of a row begin, if they are in the buffer. *)

Row(plane, y) == Word(plane.position + y * plane.rowStride)
First(plane, x, y) == Word(Row(plane, y) + x * plane.pixelStride)
LastSample(plane, x, y, samples) ==
  Word(First(plane, x, y) + (samples - 1) * plane.pixelStride)

CheckedOffset(plane, x, y, samples) ==
  /\ plane.data # Null /\ plane.rowStride # 0 /\ plane.pixelStride # 0
  /\ plane.position <= plane.limit /\ samples # 0
  /\ y <= (SizeMax - plane.position) \div plane.rowStride
  /\ x <= (SizeMax - Row(plane, y)) \div plane.pixelStride
  /\ samples - 1 <= (SizeMax - First(plane, x, y)) \div plane.pixelStride
  /\ LastSample(plane, x, y, samples) < plane.limit

-------------------------------------------------------------------------------
(* ConvertYuv420ToNv21 of the part cut out of the planes y, u and v into   *)
(* an array of size bytes                                                  *)

Pixels(cut) == Word(cut.width * cut.height)

SizeIsRight(cut, size) ==
  /\ Pixels(cut) \div cut.width = cut.height
  /\ Pixels(cut) <= SizeMax \div 3
  /\ size = (Pixels(cut) * 3) \div 2

ShapeIsRight(cut) ==
  /\ cut.width # 0 /\ cut.height # 0
  /\ Even(cut.width) /\ Even(cut.height) /\ Even(cut.left) /\ Even(cut.top)

RowsAreThere(cut, y, u, v) ==
  /\ \A row \in 0..(cut.height - 1) :
       CheckedOffset(y, cut.left, cut.top + row, cut.width)
  /\ \A row \in 0..((cut.height \div 2) - 1) : \A plane \in {u, v} :
       CheckedOffset(plane, cut.left \div 2, (cut.top \div 2) + row, cut.width \div 2)

(* The offset of the first chroma sample of a row. *)
ChromaFirst(cut, plane, row) == First(plane, cut.left \div 2, (cut.top \div 2) + row)

(* Seeded fault: any two planes of pixel stride 2 count as interleaved. *)
InterleavedByStride(cut, u, v, row) == u.pixelStride = 2 /\ v.pixelStride = 2

(* u and v are views of one buffer that holds VU pairs already, and the    *)
(* row's last pair is within v's limit: the row is copied from v.          *)
Interleaved(cut, u, v, row) ==
  LET uFirst == ChromaFirst(cut, u, row)
      vFirst == ChromaFirst(cut, v, row)
  IN /\ u.pixelStride = 2 /\ v.pixelStride = 2
     /\ v.data + vFirst + 1 = u.data + uFirst
     /\ vFirst <= v.limit /\ cut.width <= v.limit - vFirst

(* Where byte i of the output comes from: a plane and an offset in it.     *)
LumaFrom(cut, y, i) ==
  [plane |-> y,
   offset |-> First(y, cut.left, cut.top + (i \div cut.width))
                + (i % cut.width) * y.pixelStride]

ChromaFrom(cut, u, v, j) ==
  LET row == j \div cut.width
      column == j % cut.width
      plane == IF Even(column) THEN v ELSE u
  IN IF Interleaved(cut, u, v, row)
     THEN [plane |-> v, offset |-> ChromaFirst(cut, v, row) + column]
     ELSE [plane |-> plane,
           offset |-> ChromaFirst(cut, plane, row)
                        + (column \div 2) * plane.pixelStride]

Accepted(cut, y, u, v, size) ==
  ShapeIsRight(cut) /\ SizeIsRight(cut, size) /\ RowsAreThere(cut, y, u, v)

Packed(cut, y, u, v) ==
  [i \in 0..((Pixels(cut) * 3) \div 2 - 1) |->
     IF i < Pixels(cut) THEN LumaFrom(cut, y, i)
                        ELSE ChromaFrom(cut, u, v, i - Pixels(cut))]

(* nativeConvert. *)
NativeAccepted(cut, y, u, v, size) ==
  /\ cut.left >= 0 /\ cut.top >= 0 /\ cut.width > 0 /\ cut.height > 0
  /\ \A buffer \in {y, u, v} : Plane(buffer).data # Null
  /\ Accepted(cut, Plane(y), Plane(u), Plane(v), size)

(* convert: the array has the size the cut needs.  An empty cut throws,    *)
(* and one larger than an array.                                           *)
Converts(image) ==
  LET cut == Cut(image.crop)
      required == (cut.width * cut.height * 3) \div 2
  IN /\ cut.width > 0 /\ cut.height > 0 /\ required <= ArrayMax
     /\ NativeAccepted(cut, image.y, image.u, image.v, required)

Nv21Of(image) ==
  Packed(Cut(image.crop), Plane(image.y), Plane(image.u), Plane(image.v))

-------------------------------------------------------------------------------
(* What Android promises of an image: sample (x, y) of a buffer is at      *)
(* position + y * rowStride + x * pixelStride, chroma at half resolution.  *)

SampleAt(buffer, x, y) ==
  buffer.position + y * buffer.rowStride + x * buffer.pixelStride

Readable(buffer, x, y) ==
  /\ buffer.position >= 0 /\ buffer.rowStride > 0 /\ buffer.pixelStride > 0
  /\ buffer.limit <= buffer.capacity
  /\ SampleAt(buffer, x, y) < buffer.limit

(* A picture whose bytes an array holds is converted exactly when every    *)
(* sample of the part sent is in its buffer, however strides and limits    *)
(* are chosen: nothing that wraps is taken for an offset, and no legal     *)
(* picture is turned away, like one whose last row ends at the limit       *)
(* (yuv420_converter.cpp:19-47).  Then the bytes are those samples, row by *)
(* row, V before U, by the direct copy as by the loop, and each read stays *)
(* within the limit of the plane it reads (yuv420_converter.cpp:76-115).   *)
ConvertedExactly(image) ==
  LET cut == Cut(image.crop)
      pixels == cut.width * cut.height
      nv21 == Nv21Of(image)
      there ==
        /\ cut.width > 0 /\ cut.height > 0
        /\ pixels <= SizeMax \div 3 /\ (pixels * 3) \div 2 <= ArrayMax
        /\ \A x \in cut.left..(cut.left + cut.width - 1),
              y \in cut.top..(cut.top + cut.height - 1) :
             /\ Readable(image.y, x, y)
             /\ Readable(image.u, x \div 2, y \div 2)
             /\ Readable(image.v, x \div 2, y \div 2)
      byteOf(from) == from.plane.data + from.offset
      luma(i) ==
        image.y.address
          + SampleAt(image.y, cut.left + (i % cut.width), cut.top + (i \div cut.width))
      chroma(j) ==
        LET buffer == IF Even(j) THEN image.v ELSE image.u
        IN buffer.address
             + SampleAt(buffer, (cut.left + (j % cut.width)) \div 2,
                                (cut.top \div 2) + (j \div cut.width))
  IN /\ Converts(image) <=> there
     /\ Converts(image) =>
          \A i \in 0..((pixels * 3) \div 2 - 1) :
            /\ nv21[i].offset < nv21[i].plane.limit
            /\ byteOf(nv21[i]) = IF i < pixels THEN luma(i) ELSE chroma(i - pixels)
=============================================================================
