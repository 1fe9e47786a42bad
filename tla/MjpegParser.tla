------------------------------ MODULE MjpegParser ------------------------------
(***************************************************************************)
(* MjpegParser (daemon/src/mjpeg_parser.cpp): cuts the byte stream FFmpeg  *)
(* writes to its pipe into JPEG frames.  The pipe delivers the stream in   *)
(* arbitrary pieces, so markers and frames arrive split anywhere.          *)
(*                                                                         *)
(* Bytes are told apart as far as the parser does: FF, D8, D9 and others.  *)
(***************************************************************************)
EXTENDS Naturals, Sequences, SequencesExt

CONSTANTS
  MaxFrame,  \* max_frame_bytes_
  MaxChunk,  \* bound: bytes per Append
  MaxBytes   \* bound: bytes per stream

ASSUME ParserAssumption ==
  MaxFrame \in Nat \ {0} /\ MaxChunk \in Nat \ {0} /\ MaxBytes \in Nat

Bytes == {"FF", "D8", "D9", "xx"}

VARIABLES
  buffer,  \* buffer_
  frames,  \* what the callback received
  failed,  \* did Append return false?  Stream then stops reading
  fed      \* ghost: every byte appended so far

vars == <<buffer, frames, failed, fed>>

Init == buffer = <<>> /\ frames = <<>> /\ failed = FALSE /\ fed = <<>>

(* Where the marker FF mark stands in b, not before from. *)
Marks(b, from, mark) == {i \in from..(Len(b) - 1) : b[i] = "FF" /\ b[i + 1] = mark}

(* Seeded faults: half a marker at the end is forgotten; junk is kept. *)
LeftoverForgetful(b) == <<>>
LeftoverHoarding(b) == b

(* What stays of a buffer without a start marker: its possible first half. *)
Leftover(b) == IF b # <<>> /\ Last(b) = "FF" THEN <<"FF">> ELSE <<>>

(* Seeded fault: the limit also counts the junk before the frame. *)
OverLimitWithJunk(b, open) == Len(b) > MaxFrame

(* The limit is applied to a frame whose end has not arrived. *)
OverLimit(b, open) == Len(open) > MaxFrame

(* One round of the loop of Append, when the buffer b is cut off up to     *)
(* from: a frame is delivered before those of the rounds after it.         *)
Round(b, from, after) ==
  LET rest == SubSeq(b, from, Len(b))
      starts == Marks(b, from, "D8")
      open == SubSeq(b, Min(starts), Len(b))
      ends == Marks(b, Min(starts) + 2, "D9")
      end == Min(ends) + 1
  IN IF starts = {}
     THEN [buffer |-> Leftover(rest), frames |-> <<>>, failed |-> FALSE]
     ELSE IF ends # {}
     THEN [buffer |-> after[end + 1].buffer,
           frames |-> <<SubSeq(b, Min(starts), end)>> \o after[end + 1].frames,
           failed |-> after[end + 1].failed]
     ELSE IF OverLimit(rest, open)
     THEN [buffer |-> <<>>, frames |-> <<>>, failed |-> TRUE]
     ELSE [buffer |-> open, frames |-> <<>>, failed |-> FALSE]

(* The rounds from each place of the buffer on.                            *)
Rounds(b) == LET round[from \in 1..(Len(b) + 1)] == Round(b, from, round) IN round

Scan(b) == Rounds(b)[1]

AppendChunk(chunk) ==
  /\ ~failed
  /\ Len(fed) + Len(chunk) <= MaxBytes
  /\ LET result == Scan(buffer \o chunk)
     IN /\ buffer' = result.buffer
        /\ frames' = frames \o result.frames
        /\ failed' = result.failed
  /\ fed' = fed \o chunk

(* Reset forgets the stream; what is fed next is a new one. *)
Reset ==
  /\ fed # <<>>
  /\ buffer' = <<>> /\ frames' = <<>> /\ failed' = FALSE /\ fed' = <<>>

Next ==
  \/ \E n \in 1..MaxChunk : \E chunk \in [1..n -> Bytes] : AppendChunk(chunk)
  \/ Reset

Spec == Init /\ [][Next]_vars

-------------------------------------------------------------------------------
(* Reference: the same stream read one byte at a time by an automaton that *)
(* never searches or keeps a buffer.                                       *)

Automaton == [mode |-> "junk", open |-> <<>>, done |-> <<>>]

Read(a, byte) ==
  LET longer == Append(a.open, byte)
  IN IF a.mode \in {"junk", "junkFF"}
     THEN IF a.mode = "junkFF" /\ byte = "D8"
          THEN [a EXCEPT !.mode = "frame", !.open = <<"FF", "D8">>]
          ELSE [a EXCEPT !.mode = IF byte = "FF" THEN "junkFF" ELSE "junk"]
     ELSE IF a.mode = "frameFF" /\ byte = "D9"
          THEN [mode |-> "junk", open |-> <<>>, done |-> Append(a.done, longer)]
          ELSE [a EXCEPT !.mode = IF byte = "FF" THEN "frameFF" ELSE "frame",
                         !.open = longer]

(* Its state after each byte of the stream, and after all of them.         *)
ReadUpTo(stream) ==
  LET read[n \in 0..Len(stream)] ==
        IF n = 0 THEN Automaton ELSE Read(read[n - 1], stream[n])
  IN read

ReadAll(stream) == ReadUpTo(stream)[Len(stream)]

-------------------------------------------------------------------------------
(* What is buffered between two calls is at most one unfinished frame of   *)
(* the allowed size (mjpeg_parser.cpp:31-38, 46-55).                       *)
TypeOK ==
  /\ buffer \in Seq(Bytes)
  /\ Len(buffer) <= MaxFrame
  /\ frames \in Seq(Seq(Bytes))
  /\ failed \in BOOLEAN
  /\ fed \in Seq(Bytes)

(* However the pipe cuts the stream, the frames delivered are those of the *)
(* stream: none lost, split, merged or invented at a chunk boundary.       *)
FramesMatchStream == frames = ReadAll(fed).done

(* The limit hits large frames and nothing else.  It ends a stream exactly *)
(* when a read leaves a frame open that has grown past it, never because   *)
(* of junk or of several small frames in one read.  A frame that a read    *)
(* completes escapes it; it is larger than the limit by less than a read,  *)
(* and PublishFrame drops it (mjpeg_parser.cpp:40-55).                     *)
LimitHitsFrames ==
  /\ failed <=> Len(ReadAll(fed).open) > MaxFrame
  /\ \A i \in DOMAIN frames : Len(frames[i]) <= MaxFrame + MaxChunk

(* What Append delivers is the stream's frames, and what it refuses a      *)
(* frame too large, in whatever pieces the stream is read.                 *)
FramesAreExact == FramesMatchStream /\ LimitHitsFrames
=============================================================================
