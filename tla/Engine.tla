-------------------------------- MODULE Engine --------------------------------
(***************************************************************************)
(* vcamesd: daemon/src/engine.cpp with the part of daemon/src/main.cpp     *)
(* that drives it and the V4L2 sink it writes to (daemon/src/v4l2_sink.cpp)*)
(*                                                                         *)
(* Four threads share one Engine object:                                   *)
(*   control  main thread: boot, ControlServer, HandleControlClient and    *)
(*            every Engine::Start / Stop / WaitForFirstFrameWritten        *)
(*   frames   FrameServer / HandleFrameClient: pushes local frames         *)
(*   writer   Engine::WriterLoop, one per session                          *)
(*   source   Engine::SourceLoop, one per network session                  *)
(*                                                                         *)
(* A critical section under mutex_ is one action.  An access outside it is *)
(* an action of its own, so check-then-act races of the code are races of  *)
(* the model.  Times (frame interval, backoff, 5 s gate) are abstracted:   *)
(* every timed wait may end at any moment.                                 *)
(***************************************************************************)
EXTENDS Naturals

CONSTANTS
  MaxGeneration,  \* bound: publishers start no new frame at this generation
  MaxSessions     \* bound: no request is accepted that could exceed it

ASSUME EngineAssumption ==
  /\ MaxGeneration \in Nat
  /\ MaxSessions \in Nat

(* config_.url as far as the engine tells urls apart *)
Urls == {"local", "placeholder", "network"}

(* A SourceFrame.  origin: who made it; session: the session whose state   *)
(* authorised it (ghost); good: does the transform turn it into a JPEG?    *)
Frame == [origin : Urls, session : Nat, good : BOOLEAN]
NoFrame == [origin |-> "none", session |-> 0, good |-> FALSE]

VARIABLES
  (* status_, config_ and the other members of Engine *)
  running, connected, sinkOpen, written, dropped,
  config, latest, generation, stopReq, fd,
  (* the control thread *)
  cpc, call, after, request, reply,
  (* the writer thread and its locals *)
  wpc, snap, snapGen, consumed, output, outGen,
  (* the source thread and its local *)
  spc, connectedOnce,
  (* the frame server thread and the frame it is about to publish *)
  fpc, pushed,
  (* g_prime_global_camera: is the daemon run as camera backend?  and g_stop *)
  prime, gstop,
  (* the loopback device: the last frame written to it, and that frame's    *)
  (* generation in the current session, 0 when it showed none yet          *)
  device, deviceGen,
  (* ghosts: sessions begun; of this session, the frames shown, those lost  *)
  (* to a failing sink, the oversize ones, and the generation of the newest *)
  (* frame that could not be transformed, 0 for none                        *)
  session, shown, lost, oversized, lastBad

status == <<running, connected, sinkOpen, written, dropped>>
control == <<cpc, call, after, request, reply>>
writer == <<wpc, snap, snapGen, consumed, output, outGen>>
source == <<spc, connectedOnce>>
frames == <<fpc, pushed>>
slot == <<latest, generation>>
screen == <<device, deviceGen>>
ghosts == <<session, shown, lost, oversized, lastBad>>
vars == <<status, config, slot, stopReq, fd, control, writer, source, frames,
          prime, gstop, screen, ghosts>>
-------------------------------------------------------------------------------
(* The control thread *)

Init ==
  /\ running = FALSE /\ connected = FALSE /\ sinkOpen = FALSE
  /\ written = FALSE /\ dropped = 0
  /\ config = "network"
  /\ latest = NoFrame /\ generation = 0
  /\ stopReq = FALSE
  /\ fd = FALSE
  /\ prime \in BOOLEAN
  /\ IF prime
     THEN /\ cpc = "stop" /\ call = "boot" /\ after = "open"
          /\ request = "placeholder" /\ fpc = "none"
     ELSE /\ cpc = "accept" /\ call = "boot" /\ after = "reply"
          /\ request = "network" /\ fpc = "top"
  /\ reply = "none"
  /\ wpc = "none" /\ snap = NoFrame /\ snapGen = 0 /\ consumed = 0
  /\ output = NoFrame /\ outGen = 0
  /\ spc = "none" /\ connectedOnce = FALSE
  /\ pushed = NoFrame
  /\ gstop = FALSE
  /\ device = NoFrame /\ deviceGen = 0
  /\ session = 0 /\ shown = 0 /\ lost = 0 /\ oversized = 0 /\ lastBad = 0

(* Engine::Stop runs first, and the control thread resumes at next. *)
StopThen(next) ==
  /\ cpc' = "stop"
  /\ after' = next

(* A control client's START is parsed: HandleControlClient stops the       *)
(* engine before Start validates the configuration (main.cpp:294-298).     *)
AcceptStart(url) ==
  /\ cpc = "accept" /\ ~gstop
  /\ session + 2 <= MaxSessions
  /\ call' = "start"
  /\ request' = url
  /\ reply' = "none"
  /\ StopThen("validate")
  /\ UNCHANGED <<status, config, slot, stopReq, fd, writer, source, frames,
                 prime, gstop, screen, ghosts>>

(* A control client's STOP: a camera backend goes back to the placeholder, *)
(* any other daemon only stops (main.cpp:311-320).                         *)
AcceptStop ==
  /\ cpc = "accept" /\ ~gstop
  /\ session + 2 <= MaxSessions
  /\ call' = "stop"
  /\ request' = IF prime THEN "placeholder" ELSE request
  /\ reply' = "none"
  /\ StopThen(IF prime THEN "open" ELSE "reply")
  /\ UNCHANGED <<status, config, slot, stopReq, fd, writer, source, frames,
                 prime, gstop, screen, ghosts>>

(* Seeded fault: the engine reports itself stopped before the joins. *)
StopRequestCloses ==
  /\ cpc = "stop"
  /\ stopReq' = TRUE /\ running' = FALSE
  /\ cpc' = "joinSource"
  /\ UNCHANGED <<connected, sinkOpen, written, dropped, config, slot, fd, call, after,
                 request, reply, writer, source, frames, prime, gstop, screen, ghosts>>

(* Engine::Stop, outside the lock: raise the flag, wake the waiters. *)
StopRequest ==
  /\ cpc = "stop"
  /\ stopReq' = TRUE
  /\ cpc' = "joinSource"
  /\ UNCHANGED <<status, config, slot, fd, call, after, request, reply, writer,
                 source, frames, prime, gstop, screen, ghosts>>

(* Seeded faults: a thread detached instead of joined; a join that does    *)
(* not ask joinable() and so waits for a thread that was never started.    *)
JoinDetached(pc, next) == next = pc
JoinUnasked(pc, next) == pc = "done" /\ next = "none"

(* The join of a thread at pc, which leaves none to be joined. *)
Join(pc, next) == pc \in {"none", "done"} /\ next = "none"

StopJoinSource ==
  /\ cpc = "joinSource"
  /\ Join(spc, spc')
  /\ cpc' = "joinWriter"
  /\ UNCHANGED <<status, config, slot, stopReq, fd, call, after, request, reply,
                 writer, connectedOnce, frames, prime, gstop, screen, ghosts>>

StopJoinWriter ==
  /\ cpc = "joinWriter"
  /\ Join(wpc, wpc')
  /\ cpc' = "release"
  /\ UNCHANGED <<status, config, slot, stopReq, fd, call, after, request, reply,
                 snap, snapGen, consumed, output, outGen, source, frames, prime, gstop,
                 screen, ghosts>>

(* Engine::Stop, under the lock. *)
StopRelease ==
  /\ cpc = "release"
  /\ running' = FALSE /\ connected' = FALSE /\ sinkOpen' = FALSE
  /\ latest' = NoFrame
  /\ fd' = FALSE
  /\ cpc' = after
  /\ UNCHANGED <<written, dropped, config, generation, stopReq, call, after,
                 request, reply, writer, source, frames, prime, gstop, screen, ghosts>>

(* Config::Validate of a client's configuration, then Start's own Stop. *)
StartValidate ==
  /\ cpc = "validate"
  /\ \/ StopThen("open")
     \/ /\ cpc' = "failed"
        /\ UNCHANGED after
  /\ UNCHANGED <<status, config, slot, stopReq, fd, call, request, reply, writer,
                 source, frames, prime, gstop, screen, ghosts>>

(* V4l2Sink::Open: any failing step closes the descriptor again. *)
StartOpenSink ==
  /\ cpc = "open"
  /\ \E opened \in BOOLEAN :
       /\ fd' = opened
       /\ cpc' = IF opened THEN "reset" ELSE "failed"
  /\ UNCHANGED <<status, config, slot, stopReq, call, after, request, reply,
                 writer, source, frames, prime, gstop, screen, ghosts>>

(* Start, under the lock: a new session, its black frame as generation 1. *)
StartReset ==
  /\ cpc = "reset"
  /\ config' = request
  /\ running' = TRUE /\ connected' = FALSE /\ sinkOpen' = TRUE
  /\ written' = FALSE /\ dropped' = 0
  /\ session' = session + 1
  /\ latest' = [origin |-> "placeholder", session |-> session + 1, good |-> TRUE]
  /\ generation' = 1
  /\ stopReq' = FALSE
  /\ deviceGen' = 0
  /\ shown' = 0 /\ lost' = 0 /\ oversized' = 0 /\ lastBad' = 0
  /\ cpc' = "spawnWriter"
  /\ UNCHANGED <<fd, call, after, request, reply, writer, source, frames, prime, gstop,
                 device>>

(* WriterLoop's locals when the thread begins, and again once it is gone. *)
InitialWriterLocals ==
  /\ snap' = NoFrame /\ snapGen' = 0 /\ consumed' = 0
  /\ output' = NoFrame /\ outGen' = 0

(* std::thread for the writer; a system_error stops and fails the start. *)
StartSpawnWriter ==
  /\ cpc = "spawnWriter"
  /\ \/ /\ wpc' = "wait"
        /\ InitialWriterLocals
        /\ cpc' = IF config = "network" THEN "spawnSource" ELSE "firstFrame"
        /\ UNCHANGED after
     \/ /\ StopThen("failed")
        /\ UNCHANGED writer
  /\ UNCHANGED <<status, config, slot, stopReq, fd, call, request, reply, source,
                 frames, prime, gstop, screen, ghosts>>

StartSpawnSource ==
  /\ cpc = "spawnSource"
  /\ \/ /\ spc' = "loop"
        /\ connectedOnce' = FALSE
        /\ cpc' = "firstFrame"
        /\ UNCHANGED after
     \/ /\ StopThen("failed")
        /\ UNCHANGED source
  /\ UNCHANGED <<status, config, slot, stopReq, fd, call, request, reply, writer,
                 frames, prime, gstop, screen, ghosts>>

(* The predicate WaitForFirstFrameWritten returns. *)
FirstFrameWritten == written

(* The gate opens: boot starts the frame server, a request is answered.    *)
(* The client whose START failed is told so even when the fallback worked. *)
GateOpens ==
  /\ cpc = "firstFrame"
  /\ FirstFrameWritten
  /\ cpc' = "accept"
  /\ IF call = "boot"
     THEN fpc' = "top" /\ UNCHANGED reply
     ELSE /\ reply' = IF call = "fallback" THEN "failed" ELSE "ok"
          /\ UNCHANGED fpc
  /\ UNCHANGED <<status, config, slot, stopReq, fd, call, after, request, writer,
                 source, pushed, prime, gstop, screen, ghosts>>

(* Seeded fault: a placeholder that missed the gate is left running. *)
AfterGateFailsNoStop == "failed"

(* Five seconds pass or the sink fails before the first frame: only        *)
(* StartGlobalPlaceholder stops the engine it started.                     *)
AfterGateFails == IF call = "start" THEN "failed" ELSE "stop"

GateFails ==
  /\ cpc = "firstFrame"
  /\ ~FirstFrameWritten
  /\ cpc' = AfterGateFails
  /\ after' = IF AfterGateFails = "stop" THEN "failed" ELSE after
  /\ UNCHANGED <<status, config, slot, stopReq, fd, call, request, reply, writer,
                 source, frames, prime, gstop, screen, ghosts>>

(* A failed client START falls back to the placeholder in a camera backend *)
(* and is answered ok:false; a failed boot ends the process.               *)
HandleFailure ==
  /\ cpc = "failed"
  /\ IF call = "start" /\ prime
     THEN /\ call' = "fallback"
          /\ request' = "placeholder"
          /\ StopThen("open")
          /\ UNCHANGED reply
     ELSE /\ cpc' = IF call = "boot" THEN "exited" ELSE "accept"
          /\ reply' = IF call = "boot" THEN "none" ELSE "failed"
          /\ UNCHANGED <<call, request, after>>
  /\ UNCHANGED <<status, config, slot, stopReq, fd, writer, source, frames, prime, gstop,
                 screen, ghosts>>

(* The non-prime STOP is answered once Engine::Stop returned. *)
ReplyStopped ==
  /\ cpc = "reply"
  /\ cpc' = "accept"
  /\ reply' = "ok"
  /\ UNCHANGED <<status, config, slot, stopReq, fd, call, after, request, writer,
                 source, frames, prime, gstop, screen, ghosts>>

(* SIGTERM or SIGINT: g_stop is set, both listeners are closed. *)
Signal ==
  /\ ~gstop
  /\ cpc # "exited"
  /\ gstop' = TRUE
  /\ UNCHANGED <<status, config, slot, stopReq, fd, control, writer, source,
                 frames, prime, screen, ghosts>>

(* ControlServer leaves its loop; main waits for the frame server, stops   *)
(* the engine and only then destroys it.                                   *)
Shutdown ==
  /\ cpc = "accept" /\ gstop
  /\ cpc' = "joinFrames"
  /\ call' = "shutdown"
  /\ reply' = "none"
  /\ UNCHANGED <<status, config, slot, stopReq, fd, after, request, writer,
                 source, frames, prime, gstop, screen, ghosts>>

FrameServerJoined == fpc = "done"

ShutdownJoinFrames ==
  /\ cpc = "joinFrames"
  /\ FrameServerJoined
  /\ StopThen("exited")
  /\ UNCHANGED <<status, config, slot, stopReq, fd, call, request, reply, writer,
                 source, frames, prime, gstop, screen, ghosts>>

ControlStep ==
  \/ StopRequest \/ StopJoinSource \/ StopJoinWriter \/ StopRelease
  \/ StartValidate \/ StartOpenSink \/ StartReset
  \/ StartSpawnWriter \/ StartSpawnSource
  \/ GateOpens \/ GateFails \/ HandleFailure \/ ReplyStopped
  \/ Shutdown \/ ShutdownJoinFrames

-------------------------------------------------------------------------------
(* The writer thread *)

(* Seeded faults: the newest frame counted as skipped; no guard against    *)
(* a tick that finds nothing new.                                          *)
SkippedOffByOne == IF generation > consumed + 1 THEN generation - consumed ELSE 0
SkippedUnguarded == generation - consumed - 1

(* Generations overwritten between two looks at the slot. *)
Skipped == IF generation > consumed + 1 THEN generation - consumed - 1 ELSE 0

(* Seeded fault: the first unseen generation is taken for the last seen. *)
HasNewFrameOffByOne == latest # NoFrame /\ generation > consumed + 1

HasNewFrame == latest # NoFrame /\ generation # consumed

(* The tick: under the lock, take the newest frame and count the skipped.  *)
WriterSnapshot ==
  /\ wpc = "wait" /\ ~stopReq
  /\ snap' = latest
  /\ snapGen' = generation
  /\ dropped' = dropped + Skipped
  /\ wpc' = IF HasNewFrame THEN "transform" ELSE "emit"
  /\ UNCHANGED <<running, connected, sinkOpen, written, config, slot, stopReq, fd,
                 control, consumed, output, outGen, source, frames, prime, gstop, screen,
                 ghosts>>

(* The writer holds a picture the device has not taken yet. *)
Unshown == output # NoFrame /\ deviceGen # outGen

(* A new frame is transformed into the JPEG to write; one that cannot be   *)
(* is counted and leaves nothing to write (engine.cpp:310 and 361).  The   *)
(* picture held before goes, also when no write of it succeeded.           *)
WriterTransform ==
  /\ wpc = "transform"
  /\ IF snap.good
     THEN /\ output' = snap /\ outGen' = snapGen
          /\ UNCHANGED <<dropped, lastBad>>
     ELSE /\ output' = NoFrame /\ outGen' = 0
          /\ dropped' = dropped + 1
          /\ lastBad' = snapGen
  /\ lost' = IF Unshown THEN lost + 1 ELSE lost
  /\ consumed' = snapGen
  /\ wpc' = "emit"
  /\ snap' = NoFrame
  /\ UNCHANGED <<running, connected, sinkOpen, written, config, slot, stopReq, fd,
                 control, snapGen, source, frames, prime, gstop, screen, session,
                 shown, oversized>>

WriterNothing ==
  /\ wpc = "emit" /\ output = NoFrame
  /\ wpc' = "wait"
  /\ snap' = NoFrame
  /\ UNCHANGED <<status, config, slot, stopReq, fd, control, snapGen, consumed,
                 output, outGen, source, frames, prime, gstop, screen, ghosts>>

(* V4l2Sink::Write, outside the lock: fails when the descriptor is closed  *)
(* and whenever the driver refuses the frame or does not take it in 1 s.   *)
(* The first write of a picture shows its frame, each later one repeats it.*)
WriterWrite ==
  /\ wpc = "emit" /\ output # NoFrame
  /\ snap' = NoFrame
  /\ \/ /\ fd
        /\ device' = output /\ deviceGen' = outGen
        /\ shown' = IF Unshown THEN shown + 1 ELSE shown
        /\ wpc' = "count"
     \/ /\ wpc' = "fault"
        /\ UNCHANGED <<screen, shown>>
  /\ UNCHANGED <<status, config, slot, stopReq, fd, control, snapGen, consumed,
                 output, outGen, source, frames, prime, gstop, session, lost,
                 oversized, lastBad>>

WriterCount ==
  /\ wpc = "count"
  /\ sinkOpen' = TRUE /\ written' = TRUE
  /\ wpc' = "wait"
  /\ UNCHANGED <<running, connected, dropped, config, slot, stopReq, fd, control,
                 snap, snapGen, consumed, output, outGen, source, frames, prime, gstop,
                 screen, ghosts>>

(* Seeded fault: the picture is thrown away with the failed write. *)
WriterFaultDropsPicture ==
  /\ wpc = "fault"
  /\ sinkOpen' = FALSE
  /\ output' = NoFrame
  /\ wpc' = "wait"
  /\ UNCHANGED <<running, connected, written, dropped, config, slot, stopReq, fd,
                 control, snap, snapGen, consumed, outGen, source, frames, prime, gstop,
                 screen, ghosts>>

WriterFault ==
  /\ wpc = "fault"
  /\ sinkOpen' = FALSE
  /\ wpc' = "wait"
  /\ UNCHANGED <<running, connected, written, dropped, config, slot, stopReq, fd,
                 control, snap, snapGen, consumed, output, outGen, source, frames,
                 prime, gstop, screen, ghosts>>

WriterExit ==
  /\ wpc = "wait" /\ stopReq
  /\ wpc' = "done"
  /\ InitialWriterLocals
  /\ UNCHANGED <<status, config, slot, stopReq, fd, control, source, frames, prime, gstop,
                 screen, ghosts>>

WriterStep ==
  \/ WriterSnapshot \/ WriterTransform \/ WriterNothing \/ WriterWrite
  \/ WriterCount \/ WriterFault \/ WriterExit

-------------------------------------------------------------------------------
(* PublishFrame: an oversize frame is dropped, any other takes the slot.   *)

Publish(frame) ==
  /\ latest' = frame
  /\ generation' = generation + 1
  /\ connected' = TRUE
  /\ UNCHANGED <<dropped, oversized>>

DropOversize ==
  /\ dropped' = dropped + 1
  /\ oversized' = oversized + 1
  /\ UNCHANGED <<slot, connected>>

(* Bound: publishers begin no frame beyond MaxGeneration.  In a placeholder *)
(* session none should begin at all (OneFrameInFlight), so none is stopped. *)
RoomForFrame ==
  config = "placeholder" \/ generation + oversized < MaxGeneration

-------------------------------------------------------------------------------
(* The source thread: SourceLoop around FfmpegSource::Stream. *)

(* The loop tests the stop flag before each Stream call. *)
SourceLoopTop ==
  /\ spc = "loop"
  /\ spc' = IF stopReq THEN "done" ELSE "stream"
  /\ connectedOnce' = FALSE
  /\ UNCHANGED <<status, config, slot, stopReq, fd, control, writer, frames, prime, gstop,
                 screen, ghosts>>

(* The first complete JPEG of a Stream call reports the connection first. *)
SourceConnect ==
  /\ spc = "stream" /\ ~connectedOnce
  /\ RoomForFrame
  /\ connectedOnce' = TRUE
  /\ connected' = TRUE
  /\ spc' = "deliver"
  /\ UNCHANGED <<running, sinkOpen, written, dropped, config, slot, stopReq, fd,
                 control, writer, frames, prime, gstop, screen, ghosts>>

(* The frame callback, for the first frame and for each later one. *)
SourceDeliver ==
  /\ \/ spc = "deliver"
     \/ spc = "stream" /\ connectedOnce /\ RoomForFrame
  /\ spc' = "stream"
  /\ \/ \E good \in BOOLEAN :
          Publish([origin |-> "network", session |-> session, good |-> good])
     \/ DropOversize
  /\ UNCHANGED <<running, sinkOpen, written, config, stopReq, fd, control, writer,
                 connectedOnce, frames, prime, gstop, screen, session, shown, lost,
                 lastBad>>

(* Stream returns: the child ended, a timeout, a parser error or the flag. *)
SourceReturn ==
  /\ spc = "stream"
  /\ spc' = "returned"
  /\ UNCHANGED <<status, config, slot, stopReq, fd, control, writer,
                 connectedOnce, frames, prime, gstop, screen, ghosts>>

(* The loop ends if stopped, else records the outage and backs off. *)
SourceAfterStream ==
  /\ spc = "returned"
  /\ IF stopReq
     THEN spc' = "done" /\ UNCHANGED connected
     ELSE spc' = "backoff" /\ connected' = FALSE
  /\ UNCHANGED <<running, sinkOpen, written, dropped, config, slot, stopReq, fd,
                 control, writer, connectedOnce, frames, prime, gstop, screen, ghosts>>

(* WaitForStop: the flag was seen, or the backoff ran out. *)
SourceBackoff ==
  /\ spc = "backoff"
  /\ spc' = IF stopReq THEN "done" ELSE "loop"
  /\ UNCHANGED <<status, config, slot, stopReq, fd, control, writer,
                 connectedOnce, frames, prime, gstop, screen, ghosts>>

SourceStep ==
  \/ SourceLoopTop \/ SourceConnect \/ SourceDeliver \/ SourceReturn
  \/ SourceAfterStream \/ SourceBackoff

-------------------------------------------------------------------------------
(* The frame server thread *)

(* Seeded fault: the frame server accepts without testing g_stop. *)
FrameLoopTopUntested ==
  /\ fpc = "top"
  /\ fpc' = "accept"
  /\ UNCHANGED <<status, config, slot, stopReq, fd, control, writer, source,
                 pushed, prime, gstop, screen, ghosts>>

(* FrameServer tests g_stop, then blocks in accept4. *)
FrameLoopTop ==
  /\ fpc = "top"
  /\ fpc' = IF gstop THEN "done" ELSE "accept"
  /\ UNCHANGED <<status, config, slot, stopReq, fd, control, writer, source,
                 pushed, prime, gstop, screen, ghosts>>

(* accept4 returns: a producer connected, or the listener was closed before *)
(* accept4 blocked.  Closing it later does not wake a blocked accept4.      *)
FrameAccept ==
  /\ fpc = "accept"
  /\ \/ fpc' = "read"
     \/ gstop /\ fpc' = "done"
  /\ UNCHANGED <<status, config, slot, stopReq, fd, control, writer, source,
                 pushed, prime, gstop, screen, ghosts>>

(* Seeded fault: any running session takes local frames. *)
LocalProducerActiveAnyMode == running

(* The check of PushFrame and PushNv21Frame, under the lock. *)
LocalProducerActive == running /\ config = "local"

(* A whole frame was read; the check passes and the lock is released. *)
PushCheck ==
  /\ fpc = "read" /\ ~gstop
  /\ RoomForFrame
  /\ LocalProducerActive
  /\ \E good \in BOOLEAN :
       pushed' = [origin |-> "local", session |-> session, good |-> good]
  /\ fpc' = "publish"
  /\ UNCHANGED <<status, config, slot, stopReq, fd, control, writer, source, prime, gstop,
                 screen, ghosts>>

(* The frame is published under the lock again, unchecked. *)
PushPublish ==
  /\ fpc = "publish"
  /\ Publish(pushed)
  /\ pushed' = NoFrame
  /\ fpc' = "read"
  /\ UNCHANGED <<running, sinkOpen, written, config, stopReq, fd, control, writer,
                 source, prime, gstop, screen, session, shown, lost, lastBad>>

(* The connection ends: peer gone, timeout, bad header, frame rejected or  *)
(* g_stop seen.                                                            *)
FrameClose ==
  /\ fpc = "read"
  /\ fpc' = "top"
  /\ UNCHANGED <<status, config, slot, stopReq, fd, control, writer, source,
                 pushed, prime, gstop, screen, ghosts>>

FrameStep ==
  FrameLoopTop \/ FrameAccept \/ PushCheck \/ PushPublish \/ FrameClose

-------------------------------------------------------------------------------
(* The process ended: nothing more happens. *)
Ended == cpc = "exited" /\ UNCHANGED vars

Next ==
  \/ \E url \in {"local", "network"} : AcceptStart(url)
  \/ AcceptStop
  \/ Signal
  \/ ControlStep
  \/ WriterStep
  \/ SourceStep
  \/ FrameStep
  \/ Ended

Spec == Init /\ [][Next]_vars

(* The scheduler runs every thread that can run.  A stream need end only   *)
(* when it is told to stop; that it does then is what CallEnds shows in    *)
(* FfmpegSource, of every child that does not outrun its reader for good.  *)
(* Producers connect, send and leave as they like, except that a reader    *)
(* that sees g_stop leaves.                                                *)
Fairness ==
  /\ WF_vars(ControlStep)
  /\ WF_vars(WriterStep)
  /\ WF_vars(SourceLoopTop \/ SourceAfterStream \/ SourceBackoff)
  /\ WF_vars(spc = "deliver" /\ SourceDeliver)
  /\ WF_vars(stopReq /\ SourceReturn)
  /\ WF_vars(FrameLoopTop \/ PushPublish)
  /\ WF_vars(gstop /\ FrameClose)

FairSpec == Spec /\ Fairness

-------------------------------------------------------------------------------
(* Correctness *)

ControlPoints ==
  {"accept", "stop", "joinSource", "joinWriter", "release", "validate", "open",
   "reset", "spawnWriter", "spawnSource", "firstFrame", "failed", "reply",
   "joinFrames", "exited"}

EngineTypes ==
  /\ running \in BOOLEAN /\ connected \in BOOLEAN /\ sinkOpen \in BOOLEAN
  /\ written \in BOOLEAN /\ dropped \in Nat
  /\ config \in Urls /\ prime \in BOOLEAN
  /\ latest \in Frame \cup {NoFrame} /\ generation \in Nat
  /\ stopReq \in BOOLEAN /\ fd \in BOOLEAN /\ gstop \in BOOLEAN

ControlTypes ==
  /\ cpc \in ControlPoints
  /\ call \in {"boot", "start", "stop", "fallback", "shutdown"}
  /\ after \in {"open", "validate", "failed", "reply", "exited"}
  /\ request \in Urls
  /\ reply \in {"none", "ok", "failed"}

WorkerTypes ==
  /\ wpc \in {"none", "wait", "transform", "emit", "count", "fault", "done"}
  /\ snap \in Frame \cup {NoFrame} /\ snapGen \in Nat /\ consumed \in Nat
  /\ output \in Frame \cup {NoFrame} /\ outGen \in Nat
  /\ spc \in {"none", "loop", "stream", "deliver", "returned", "backoff", "done"}
  /\ connectedOnce \in BOOLEAN
  /\ fpc \in {"none", "top", "accept", "read", "publish", "done"}
  /\ pushed \in Frame \cup {NoFrame}

ObservedTypes ==
  /\ device \in Frame \cup {NoFrame} /\ deviceGen \in Nat
  /\ session \in Nat /\ shown \in Nat /\ lost \in Nat /\ oversized \in Nat
  /\ lastBad \in Nat

(* Every variable has the type its C++ member or thread position has; in   *)
(* particular no counter update can go below zero and wrap.                *)
TypeOK == EngineTypes /\ ControlTypes /\ WorkerTypes /\ ObservedTypes

WriterAlive == wpc \notin {"none", "done"}
SourceAlive == spc \notin {"none", "done"}

(* The writer and source threads read config_ and use the sink without the *)
(* lock (engine.cpp:212-220, 264, 299-353, 371).  That is safe only because*)
(* Start touches config_ and the sink after Stop joined both: while either *)
(* thread lives the descriptor is open and the session is the one that     *)
(* configured it, and the writer always has a frame to look at.            *)
WorkersOwnSession ==
  /\ WriterAlive => fd /\ latest # NoFrame
  /\ SourceAlive => fd /\ config = "network"
  /\ cpc \in {"release", "open", "reset", "exited"} => ~WriterAlive /\ ~SourceAlive

(* The counters the app shows agree with what happened (engine.cpp:292,    *)
(* 360, 369-385, 395, 404).  Each generation the writer has gone past was  *)
(* written to the device, counted dropped, is the picture that waits to be *)
(* written, or was lost to a sink that refused it: exactly one of them,    *)
(* whatever the interleaving of producers and ticks.  No counter tells of  *)
(* the lost ones, but a picture waits, and so can be lost, only while the  *)
(* status says that the sink is not open.                                  *)
Waiting == IF Unshown THEN 1 ELSE 0

FrameAccounting ==
  /\ wpc \in {"wait", "emit", "count", "fault"} =>
       shown + dropped + Waiting + lost = consumed + oversized
  /\ wpc = "transform" => shown + dropped + Waiting + lost + 1 = snapGen + oversized
  /\ wpc \in {"wait", "transform"} /\ Unshown => ~sinkOpen
  /\ WriterAlive => consumed <= generation

(* A camera backend that waits for the next command either runs a session  *)
(* whose picture has reached the device or runs none: a client is never    *)
(* left with a session the five second gate rejected (main.cpp:245-307).   *)
IdleSessionHasPicture ==
  prime /\ cpc = "accept" /\ running => written

(* What a reply says is so.  ok: the requested session runs and its        *)
(* picture was written (or, for a daemon that is no camera backend, the    *)
(* engine is stopped).  failed, from a camera backend: the session that    *)
(* failed is gone; at most the placeholder runs (main.cpp:293-322).        *)
ReplyTellsSession ==
  cpc = "accept" =>
    /\ reply = "ok" /\ (prime \/ call = "start") =>
         running /\ written /\ config = request
    /\ reply = "ok" /\ ~prime /\ call = "stop" => ~running
    /\ reply = "failed" /\ prime => ~running \/ config = "placeholder"

(* The two together: a client always knows the session the daemon runs,    *)
(* and that session has its picture (main.cpp:245-322).                    *)
SessionAsTold == IdleSessionHasPicture /\ ReplyTellsSession

(* The price of PushFrame's unlocked gap, bounded: into a placeholder      *)
(* session only the one local frame that was in flight can still enter     *)
(* (engine.cpp:122-142 and the single frame server thread).                *)
OneFrameInFlight ==
  running /\ config = "placeholder" =>
    /\ generation <= 2
    /\ generation = 2 => pushed = NoFrame

(* A camera reader keeps its picture, though producers pause, the stream   *)
(* breaks or the sink fails for a while (ARCHITECTURE.md:16): the writer   *)
(* holds on to the picture of the newest frame it took, and has none only  *)
(* if that very frame could not be transformed; and between two ticks it   *)
(* is what the device shows, unless the status says the sink is not open.  *)
OutageKeepsPicture ==
  /\ WriterAlive /\ consumed > 0 =>
       IF lastBad = consumed THEN output = NoFrame
       ELSE output # NoFrame /\ outGen = consumed
  /\ wpc = "wait" /\ output # NoFrame /\ sinkOpen => device = output

(* The screen shows the frames of a session in the order they were         *)
(* published, starting anew with each session.                             *)
Pipe == INSTANCE FramePipe
          WITH open <- running, published <- generation, shown <- deviceGen
PipeSpec == Pipe!Spec

(* What the documents and comments of the repository promise, and the code *)
(* does not keep.                                                          *)

(* ARCHITECTURE.md:16: when playback stops the camera goes back to a       *)
(* steady black frame, so the device shows the placeholder once a          *)
(* placeholder session has shown anything.                                 *)
StoppedShowsBlack ==
  running /\ config = "placeholder" /\ written => device.origin = "placeholder"

-------------------------------------------------------------------------------
(* Progress, under FairSpec *)

(* Engine::Stop's joins and the first-frame gate are bounded: a request    *)
(* the control server accepted is answered, whatever the sink and the      *)
(* producers do meanwhile, as long as a stream told to stop ends.          *)
RequestAnswered == cpc = "stop" ~> cpc \in {"accept", "exited"}

(* A decodable frame that stays the newest reaches the device, unless the  *)
(* session is stopped or the sink fails (engine.cpp:261-391).              *)
FreshFrameShown ==
  /\ <>[][FALSE]_<<generation, session>>
  /\ <>[](running /\ latest.good /\ sinkOpen /\ ~stopReq)
  => <>[](deviceGen >= generation)

(* Once a signal arrives the process ends if a producer is connected, or   *)
(* the frame server has not yet blocked in accept4 (main.cpp:499-514).     *)
ShutdownWithProducer ==
  gstop /\ fpc \in {"top", "read", "publish"} ~> cpc = "exited"
=============================================================================
