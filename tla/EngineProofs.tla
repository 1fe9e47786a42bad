----------------------------- MODULE EngineProofs -----------------------------
(***************************************************************************)
(* Theorems about Engine, for every bound and for both kinds of daemon.    *)
(***************************************************************************)
EXTENDS Engine, TLAPS

-------------------------------------------------------------------------------
(* Type correctness, thread by thread *)

(* A frame that is built is a frame, and never taken for the absent one.   *)
LEMMA FrameMade ==
  ASSUME NEW o \in Urls, NEW s \in Nat, NEW g \in BOOLEAN
  PROVE  LET made == [origin |-> o, session |-> s, good |-> g]
         IN made \in Frame /\ made # NoFrame
<1> DEFINE made == [origin |-> o, session |-> s, good |-> g]
<1>1. made \in Frame BY DEF Frame
<1>2. made.origin # NoFrame.origin BY DEF NoFrame, Urls
<1>3. QED BY <1>1, <1>2

(* The control thread's steps keep every type. *)
LEMMA ControlKeepsTypes ==
  ASSUME TypeOK, ControlStep
  PROVE  TypeOK'
<1> USE DEF TypeOK, Urls, ControlPoints, StopThen, status, control, writer, source,
            frames, slot, screen, ghosts
<1>1. CASE StopRequest
  BY <1>1 DEF StopRequest,
     EngineTypes, ControlTypes, WorkerTypes, ObservedTypes
<1>2. CASE StopJoinSource
  BY <1>2 DEF StopJoinSource, Join,
     EngineTypes, ControlTypes, WorkerTypes, ObservedTypes
<1>3. CASE StopJoinWriter
  BY <1>3 DEF StopJoinWriter, Join,
     EngineTypes, ControlTypes, WorkerTypes, ObservedTypes
<1>4. CASE StopRelease
  <2>1. EngineTypes'
    BY <1>4 DEF StopRelease, EngineTypes
  <2>2. ControlTypes'
    BY <1>4 DEF StopRelease, ControlTypes
  <2>3. WorkerTypes'
    BY <1>4 DEF StopRelease, WorkerTypes
  <2>4. ObservedTypes'
    BY <1>4 DEF StopRelease, ObservedTypes
  <2>5. QED BY <2>1, <2>2, <2>3, <2>4
<1>5. CASE StartValidate
  BY <1>5 DEF StartValidate,
     EngineTypes, ControlTypes, WorkerTypes, ObservedTypes
<1>6. CASE StartOpenSink
  BY <1>6 DEF StartOpenSink,
     EngineTypes, ControlTypes, WorkerTypes, ObservedTypes
<1>7. CASE StartReset
  <2>1. EngineTypes'
    <3>1. latest' \in Frame
      BY <1>7, FrameMade, session + 1 \in Nat DEF StartReset, ObservedTypes
    <3>2. QED BY <1>7, <3>1 DEF StartReset, EngineTypes, ControlTypes
  <2>2. ControlTypes'
    BY <1>7 DEF StartReset, Frame, ControlTypes
  <2>3. WorkerTypes'
    BY <1>7 DEF StartReset, Frame, WorkerTypes
  <2>4. ObservedTypes'
    BY <1>7 DEF StartReset, Frame, ObservedTypes
  <2>5. QED BY <2>1, <2>2, <2>3, <2>4
<1>8. CASE StartSpawnWriter
  BY <1>8 DEF StartSpawnWriter, InitialWriterLocals,
     EngineTypes, ControlTypes, WorkerTypes, ObservedTypes
<1>9. CASE StartSpawnSource
  <2>1. EngineTypes'
    BY <1>9 DEF StartSpawnSource, EngineTypes
  <2>2. ControlTypes'
    BY <1>9 DEF StartSpawnSource, ControlTypes
  <2>3. WorkerTypes'
    <3>1. CASE UNCHANGED source
      BY <1>9, <3>1 DEF StartSpawnSource, WorkerTypes
    <3>2. CASE spc' = "loop" /\ connectedOnce' = FALSE
      BY <1>9, <3>2 DEF StartSpawnSource, WorkerTypes
    <3>3. QED BY <1>9, <3>1, <3>2 DEF StartSpawnSource
  <2>4. ObservedTypes'
    BY <1>9 DEF StartSpawnSource, ObservedTypes
  <2>5. QED BY <2>1, <2>2, <2>3, <2>4
<1>10. CASE GateOpens
  BY <1>10 DEF GateOpens,
     EngineTypes, ControlTypes, WorkerTypes, ObservedTypes
<1>11. CASE GateFails
  BY <1>11 DEF GateFails, AfterGateFails,
     EngineTypes, ControlTypes, WorkerTypes, ObservedTypes
<1>12. CASE HandleFailure
  BY <1>12 DEF HandleFailure,
     EngineTypes, ControlTypes, WorkerTypes, ObservedTypes
<1>13. CASE ReplyStopped
  BY <1>13 DEF ReplyStopped,
     EngineTypes, ControlTypes, WorkerTypes, ObservedTypes
<1>14. CASE Shutdown
  BY <1>14 DEF Shutdown,
     EngineTypes, ControlTypes, WorkerTypes, ObservedTypes
<1>15. CASE ShutdownJoinFrames
  BY <1>15 DEF ShutdownJoinFrames,
     EngineTypes, ControlTypes, WorkerTypes, ObservedTypes
<1>16. QED
  BY <1>1, <1>2, <1>3, <1>4, <1>5, <1>6, <1>7, <1>8, <1>9, <1>10, <1>11,
     <1>12, <1>13, <1>14, <1>15
  DEF ControlStep

(* The writer's steps keep every type; its counters stay natural numbers. *)
LEMMA WriterKeepsTypes ==
  ASSUME TypeOK, WriterStep
  PROVE  TypeOK'
<1> USE DEF TypeOK, Urls, ControlPoints, StopThen, status, control, writer, source,
            frames, slot, screen, ghosts
<1>1. CASE WriterSnapshot
  BY <1>1 DEF WriterSnapshot, Skipped,
     EngineTypes, ControlTypes, WorkerTypes, ObservedTypes
<1>2. CASE WriterTransform
  BY <1>2 DEF WriterTransform,
     EngineTypes, ControlTypes, WorkerTypes, ObservedTypes
<1>3. CASE WriterNothing
  BY <1>3 DEF WriterNothing,
     EngineTypes, ControlTypes, WorkerTypes, ObservedTypes
<1>4. CASE WriterWrite
  BY <1>4 DEF WriterWrite,
     EngineTypes, ControlTypes, WorkerTypes, ObservedTypes
<1>5. CASE WriterCount
  BY <1>5 DEF WriterCount,
     EngineTypes, ControlTypes, WorkerTypes, ObservedTypes
<1>6. CASE WriterFault
  <2>1. EngineTypes'
    BY <1>6 DEF WriterFault, EngineTypes
  <2>2. ControlTypes'
    BY <1>6 DEF WriterFault, ControlTypes
  <2>3. WorkerTypes'
    BY <1>6 DEF WriterFault, WorkerTypes
  <2>4. ObservedTypes'
    BY <1>6 DEF WriterFault, ObservedTypes
  <2>5. QED BY <2>1, <2>2, <2>3, <2>4
<1>7. CASE WriterExit
  BY <1>7 DEF WriterExit, InitialWriterLocals,
     EngineTypes, ControlTypes, WorkerTypes, ObservedTypes
<1>8. QED
  BY <1>1, <1>2, <1>3, <1>4, <1>5, <1>6, <1>7
  DEF WriterStep

(* The source's steps keep every type, whatever the stream delivers. *)
LEMMA SourceKeepsTypes ==
  ASSUME TypeOK, SourceStep
  PROVE  TypeOK'
<1> USE DEF TypeOK, Urls, ControlPoints, StopThen, status, control, writer, source,
            frames, slot, screen, ghosts
<1>1. CASE SourceLoopTop
  <2>1. EngineTypes'
    BY <1>1 DEF SourceLoopTop, EngineTypes
  <2>2. ControlTypes'
    BY <1>1 DEF SourceLoopTop, ControlTypes
  <2>3. WorkerTypes'
    BY <1>1 DEF SourceLoopTop, WorkerTypes
  <2>4. ObservedTypes'
    BY <1>1 DEF SourceLoopTop, ObservedTypes
  <2>5. QED BY <2>1, <2>2, <2>3, <2>4
<1>2. CASE SourceConnect
  BY <1>2 DEF SourceConnect,
     EngineTypes, ControlTypes, WorkerTypes, ObservedTypes
<1>3. CASE SourceDeliver
  <2>1. EngineTypes'
    <3>1. CASE DropOversize
      BY <1>3, <3>1 DEF SourceDeliver, DropOversize, EngineTypes
    <3>2. ASSUME NEW good \in BOOLEAN,
                 Publish([origin |-> "network", session |-> session, good |-> good])
          PROVE  EngineTypes'
      <4>1. latest' \in Frame BY <3>2, FrameMade DEF Publish, ObservedTypes
      <4>2. QED BY <1>3, <3>2, <4>1 DEF SourceDeliver, Publish, EngineTypes
    <3>3. QED BY <1>3, <3>1, <3>2 DEF SourceDeliver
  <2>2. ControlTypes'
    BY <1>3 DEF SourceDeliver, Publish, DropOversize, Frame, ControlTypes
  <2>3. WorkerTypes'
    BY <1>3 DEF SourceDeliver, Publish, DropOversize, Frame, WorkerTypes
  <2>4. ObservedTypes'
    BY <1>3 DEF SourceDeliver, Publish, DropOversize, Frame, ObservedTypes
  <2>5. QED BY <2>1, <2>2, <2>3, <2>4
<1>4. CASE SourceReturn
  BY <1>4 DEF SourceReturn,
     EngineTypes, ControlTypes, WorkerTypes, ObservedTypes
<1>5. CASE SourceAfterStream
  <2>1. EngineTypes'
    BY <1>5 DEF SourceAfterStream, EngineTypes
  <2>2. ControlTypes'
    BY <1>5 DEF SourceAfterStream, ControlTypes
  <2>3. WorkerTypes'
    BY <1>5 DEF SourceAfterStream, WorkerTypes
  <2>4. ObservedTypes'
    BY <1>5 DEF SourceAfterStream, ObservedTypes
  <2>5. QED BY <2>1, <2>2, <2>3, <2>4
<1>6. CASE SourceBackoff
  BY <1>6 DEF SourceBackoff,
     EngineTypes, ControlTypes, WorkerTypes, ObservedTypes
<1>7. QED
  BY <1>1, <1>2, <1>3, <1>4, <1>5, <1>6
  DEF SourceStep

(* The frame server's steps keep every type. *)
LEMMA FrameServerKeepsTypes ==
  ASSUME TypeOK, FrameStep
  PROVE  TypeOK'
<1> USE DEF TypeOK, Urls, ControlPoints, StopThen, status, control, writer, source,
            frames, slot, screen, ghosts
<1>1. CASE FrameLoopTop
  BY <1>1 DEF FrameLoopTop,
     EngineTypes, ControlTypes, WorkerTypes, ObservedTypes
<1>2. CASE FrameAccept
  BY <1>2 DEF FrameAccept,
     EngineTypes, ControlTypes, WorkerTypes, ObservedTypes
<1>3. CASE PushCheck
  BY <1>3 DEF PushCheck, Frame,
     EngineTypes, ControlTypes, WorkerTypes, ObservedTypes
<1>4. CASE PushPublish
  BY <1>4 DEF PushPublish, Publish,
     EngineTypes, ControlTypes, WorkerTypes, ObservedTypes
<1>5. CASE FrameClose
  BY <1>5 DEF FrameClose,
     EngineTypes, ControlTypes, WorkerTypes, ObservedTypes
<1>6. QED
  BY <1>1, <1>2, <1>3, <1>4, <1>5
  DEF FrameStep

(* Accepting a request, a signal and the end of the process keep them too. *)
LEMMA EnvironmentKeepsTypes ==
  ASSUME TypeOK,
         \/ \E url \in {"local", "network"} : AcceptStart(url)
         \/ AcceptStop \/ Signal \/ Ended \/ UNCHANGED vars
  PROVE  TypeOK'
<1> USE DEF TypeOK, EngineTypes, ControlTypes, WorkerTypes, ObservedTypes, Urls,
            ControlPoints, StopThen, status, control, writer, source, frames, slot,
            screen, ghosts
<1>1. ASSUME NEW url \in {"local", "network"}, AcceptStart(url) PROVE TypeOK'
  BY <1>1 DEF AcceptStart
<1>2. CASE AcceptStop BY <1>2 DEF AcceptStop
<1>3. CASE Signal BY <1>3 DEF Signal
<1>4. CASE UNCHANGED vars BY <1>4 DEF vars
<1>5. CASE Ended BY <1>4, <1>5 DEF Ended
<1>6. QED BY <1>1, <1>2, <1>3, <1>4, <1>5

(* Every reachable state is type correct: no counter goes below zero. *)
THEOREM TypeCorrect == Spec => []TypeOK
<1>1. ASSUME Init PROVE TypeOK
  <2>1. EngineTypes BY <1>1 DEF Init, EngineTypes, Urls
  <2>2. ControlTypes
    BY <1>1, EngineAssumption DEF Init, ControlTypes, ControlPoints, Urls
  <2>3. WorkerTypes BY <1>1 DEF Init, WorkerTypes
  <2>4. ObservedTypes BY <1>1 DEF Init, ObservedTypes
  <2>5. QED BY <2>1, <2>2, <2>3, <2>4 DEF TypeOK
<1>2. TypeOK /\ [Next]_vars => TypeOK'
  BY ControlKeepsTypes, WriterKeepsTypes, SourceKeepsTypes, FrameServerKeepsTypes,
     EnvironmentKeepsTypes DEF Next
<1>3. QED BY <1>1, <1>2, PTL DEF Spec

-------------------------------------------------------------------------------
(* Hand-over: who may touch config_, the sink and the slot *)

(* Where the control thread is once Stop joined both worker threads.       *)
QuietPoints ==
  {"release", "validate", "open", "reset", "spawnWriter", "reply", "exited"}

(* The inductive form of WorkersOwnSession: between a join and the next    *)
(* spawn no worker lives; the descriptor, the configuration and the black  *)
(* frame are in place before the first of them is spawned.                 *)
Handover ==
  /\ cpc \in QuietPoints => wpc = "none" /\ spc = "none"
  /\ cpc = "failed" /\ call # "start" => wpc = "none" /\ spc = "none"
  /\ cpc \in {"joinWriter", "spawnSource"} => spc = "none"
  /\ cpc \in {"reset", "spawnWriter", "spawnSource"} => fd
  /\ cpc \in {"spawnWriter", "spawnSource"} => latest # NoFrame
  /\ cpc = "spawnSource" => config = "network"
  /\ WriterAlive => fd /\ latest # NoFrame
  /\ SourceAlive => fd /\ config = "network"
  /\ fpc = "publish" => pushed # NoFrame

(* Every step keeps the hand-over (Start, Stop and the thread bodies).     *)
LEMMA HandoverKept ==
  ASSUME TypeOK, Handover, [Next]_vars
  PROVE  Handover'
<1> USE DEF Handover, QuietPoints, WriterAlive, SourceAlive, vars, status,
   control,
            writer, source, frames, slot, screen, ghosts, StopThen
<1>1. CASE StopRequest \/ StopJoinSource \/ StopJoinWriter
  BY <1>1 DEF StopRequest, StopJoinSource, StopJoinWriter, Join
<1>2. CASE StopRelease 
  BY <1>2 DEF StopRelease, TypeOK, ControlTypes
<1>3. CASE StartValidate \/ StartOpenSink
  BY <1>3 DEF StartValidate, StartOpenSink
<1>4. CASE StartReset
  <2>1. latest' # NoFrame
    BY <1>4, FrameMade, session + 1 \in Nat DEF StartReset, TypeOK,
       ObservedTypes, Urls
  <2>2. QED BY <1>4, <2>1 DEF StartReset
<1>5. CASE StartSpawnWriter \/ StartSpawnSource
  BY <1>5 DEF StartSpawnWriter, StartSpawnSource, InitialWriterLocals
<1>6. CASE GateOpens \/ GateFails \/ HandleFailure \/ ReplyStopped
  BY <1>6 DEF GateOpens, GateFails, AfterGateFails, HandleFailure, ReplyStopped
<1>7. CASE \/ Shutdown \/ ShutdownJoinFrames \/ AcceptStop \/ Signal
             \/ \E url \in {"local", "network"} : AcceptStart(url)
  BY <1>7 DEF Shutdown, ShutdownJoinFrames, AcceptStop, Signal, AcceptStart
<1>8. CASE WriterStep
  BY <1>8 DEF WriterStep, WriterSnapshot, WriterTransform, WriterNothing,
     WriterWrite, WriterCount, WriterFault, WriterExit, InitialWriterLocals
<1>9. CASE SourceStep
  <2>1. ASSUME NEW good \in BOOLEAN,
               Publish([origin |-> "network", session |-> session,
                  good |-> good])
        PROVE latest' # NoFrame
    BY <2>1, FrameMade DEF Publish, TypeOK, ObservedTypes, Urls
  <2>2. CASE SourceDeliver
    BY <2>1, <2>2 DEF SourceDeliver, Publish, DropOversize
  <2>3. CASE SourceConnect \/ SourceLoopTop \/ SourceReturn
             \/ SourceAfterStream \/ SourceBackoff
    BY <2>3 DEF SourceLoopTop, SourceConnect, SourceReturn, SourceAfterStream,
       SourceBackoff
  <2>4. QED BY <1>9, <2>2, <2>3 DEF SourceStep
<1>10. CASE PushCheck
  <2>1. pushed' # NoFrame
    BY <1>10, FrameMade DEF PushCheck, TypeOK, ObservedTypes, Urls
  <2>2. QED BY <1>10, <2>1 DEF PushCheck
<1>11. CASE FrameLoopTop \/ FrameAccept \/ PushPublish \/ FrameClose
  BY <1>11 DEF FrameLoopTop, FrameAccept, PushPublish, Publish, FrameClose
<1>12. CASE UNCHANGED vars
  BY <1>12
<1>13. QED
  BY <1>1, <1>2, <1>3, <1>4, <1>5, <1>6, <1>7, <1>8, <1>9, <1>10, <1>11,
     <1>12
  DEF Next, ControlStep, FrameStep, Ended

-------------------------------------------------------------------------------
(* The books: frames shown and dropped *)

(* What the device shows is never newer than what the writer holds, which  *)
(* is never newer than what it consumed; the writer runs inside a session. *)
Ordered ==
  /\ WriterAlive => running /\ deviceGen <= consumed
  /\ WriterAlive /\ output # NoFrame => deviceGen <= outGen /\ outGen <= consumed
  /\ cpc = "spawnWriter" => running /\ deviceGen = 0

(* The inductive form of FrameAccounting: it also holds when the writer is *)
(* spawned, and a frame being transformed is newer than the last one.      *)
Counted ==
  /\ FrameAccounting
  /\ cpc = "spawnWriter" => shown + dropped + lost = oversized
  /\ wpc = "count" => ~Unshown
  /\ wpc = "transform" => consumed < snapGen /\ snapGen <= generation

(* Every step keeps the books of dropped and shown frames.                 *)
LEMMA CountedKept ==
  ASSUME TypeOK, Handover, Counted, Ordered, [Next]_vars
  PROVE  Counted'
<1> USE DEF Counted, FrameAccounting, Waiting, Unshown, WriterAlive, vars, status, control,
   writer,
            source, frames, slot, screen, ghosts, StopThen
<1> USE DEF TypeOK, EngineTypes, WorkerTypes, ObservedTypes
<1>1. CASE StopRequest \/ StopJoinSource \/ StopJoinWriter \/ StopRelease
  BY <1>1 DEF StopRequest, StopJoinSource, StopJoinWriter, Join, StopRelease,
     ControlTypes
<1>2. CASE StartValidate \/ StartOpenSink
  <2>1. CASE StartValidate BY <2>1 DEF StartValidate
  <2>2. CASE StartOpenSink BY <2>2 DEF StartOpenSink
  <2>3. QED BY <1>2, <2>1, <2>2
<1>3. CASE StartReset
  BY <1>3 DEF StartReset, Handover, QuietPoints
<1>4. CASE StartSpawnWriter
  BY <1>4 DEF StartSpawnWriter, InitialWriterLocals, Handover, QuietPoints
<1>5. CASE StartSpawnSource
  BY <1>5 DEF StartSpawnSource
<1>6. CASE GateOpens \/ GateFails \/ HandleFailure \/ ReplyStopped
  BY <1>6 DEF GateOpens, GateFails, AfterGateFails, HandleFailure, ReplyStopped
<1>7. CASE \/ Shutdown \/ ShutdownJoinFrames \/ AcceptStop \/ Signal
             \/ \E url \in {"local", "network"} : AcceptStart(url)
  BY <1>7 DEF Shutdown, ShutdownJoinFrames, AcceptStop, Signal, AcceptStart
<1>8. CASE WriterSnapshot
  BY <1>8 DEF WriterSnapshot, Skipped, HasNewFrame, Handover, QuietPoints
<1>9. CASE WriterTransform
  <2>1. /\ wpc = "transform" /\ wpc' = "emit" /\ consumed' = snapGen
        /\ shown' = shown /\ oversized' = oversized /\ generation' = generation
        /\ lost' = IF Unshown THEN lost + 1 ELSE lost
        /\ deviceGen' = deviceGen /\ cpc' = cpc
    BY <1>9 DEF WriterTransform
  <2>2. shown + dropped + Waiting + lost + 1 = snapGen + oversized
    BY <2>1
  <2>3. shown + dropped + lost' + 1 = snapGen + oversized
    BY <2>1, <2>2
  <2>4. shown' + dropped' + Waiting' + lost' = consumed' + oversized'
    <3>1. CASE snap.good
      <4>1. output' # NoFrame /\ outGen' = snapGen /\ dropped' = dropped
        BY <1>9, <3>1 DEF WriterTransform, NoFrame
      <4>2. deviceGen < snapGen
        BY <2>1 DEF Ordered
      <4>3. Waiting' = 1
        BY <2>1, <4>1, <4>2
      <4>4. QED BY <2>1, <2>3, <4>1, <4>3
    <3>2. CASE ~snap.good
      <4>1. output' = NoFrame /\ dropped' = dropped + 1
        BY <1>9, <3>2 DEF WriterTransform
      <4>2. Waiting' = 0
        BY <4>1
      <4>3. QED BY <2>1, <2>3, <4>1, <4>2
    <3>3. QED BY <3>1, <3>2
  <2>5. cpc # "spawnWriter"
    BY <2>1 DEF Handover, QuietPoints
  <2>6. QED BY <2>1, <2>4, <2>5
<1>10. CASE WriterNothing \/ WriterWrite \/ WriterCount \/ WriterFault
           \/ WriterExit
  <2>1. CASE WriterNothing BY <2>1 DEF WriterNothing
  <2>2. CASE WriterWrite BY <2>2 DEF WriterWrite, Handover, QuietPoints
  <2>3. CASE WriterCount BY <2>3 DEF WriterCount
  <2>4. CASE WriterFault BY <2>4 DEF WriterFault
  <2>5. CASE WriterExit BY <2>5 DEF WriterExit, InitialWriterLocals
  <2>6. QED BY <1>10, <2>1, <2>2, <2>3, <2>4, <2>5
<1>11. CASE SourceDeliver
  BY <1>11 DEF SourceDeliver, Publish, DropOversize, Handover, QuietPoints
<1>12. CASE SourceConnect \/ SourceLoopTop \/ SourceReturn
           \/ SourceAfterStream \/ SourceBackoff
  BY <1>12 DEF SourceLoopTop, SourceConnect, SourceReturn, SourceAfterStream,
     SourceBackoff
<1>13. CASE PushPublish
  BY <1>13 DEF PushPublish, Publish
<1>14. CASE FrameLoopTop \/ FrameAccept \/ PushCheck \/ FrameClose
  BY <1>14 DEF FrameLoopTop, FrameAccept, PushCheck, FrameClose
<1>15. CASE UNCHANGED vars
  BY <1>15
<1>16. QED
  BY <1>1, <1>2, <1>3, <1>4, <1>5, <1>6, <1>7, <1>8, <1>9, <1>10, <1>11,
     <1>12, <1>13, <1>14, <1>15
  DEF Next, ControlStep, WriterStep, SourceStep, FrameStep, Ended

-------------------------------------------------------------------------------
(* The first-frame gate *)

(* The inductive form of IdleSessionHasPicture: the engine is stopped      *)
(* wherever a start may still fail without reaching the gate.              *)
GateHeld ==
  /\ cpc \in {"validate", "open", "reset", "reply"} => ~running
  /\ cpc = "failed" /\ call # "start" => ~running
  /\ IdleSessionHasPicture

(* Every step keeps a camera backend behind the first-frame gate.          *)
LEMMA GateHeldKept ==
  ASSUME TypeOK, GateHeld, [Next]_vars
  PROVE  GateHeld'
<1> USE DEF GateHeld, IdleSessionHasPicture, vars, status, control, writer,
            source, frames, slot, screen, ghosts, StopThen
<1>1. CASE StopRequest \/ StopJoinSource \/ StopJoinWriter \/ StopRelease
  BY <1>1 DEF StopRequest, StopJoinSource, StopJoinWriter, Join, StopRelease, TypeOK,
     ControlTypes
<1>2. CASE StartValidate \/ StartOpenSink \/ StartReset \/ StartSpawnWriter
           \/ StartSpawnSource
  BY <1>2 DEF StartValidate, StartOpenSink, StartReset, StartSpawnWriter,
     StartSpawnSource
<1>3. CASE GateOpens \/ GateFails \/ HandleFailure \/ ReplyStopped
  BY <1>3 DEF GateOpens, GateFails, AfterGateFails, HandleFailure,
     ReplyStopped, FirstFrameWritten
<1>4. CASE \/ Shutdown \/ ShutdownJoinFrames \/ AcceptStop \/ Signal
             \/ \E url \in {"local", "network"} : AcceptStart(url)
  BY <1>4 DEF Shutdown, ShutdownJoinFrames, AcceptStop, Signal, AcceptStart
<1>5. CASE WriterStep
  BY <1>5 DEF WriterStep, WriterSnapshot, WriterTransform, WriterNothing,
     WriterWrite, WriterCount, WriterFault, WriterExit
<1>6. CASE SourceStep
  BY <1>6 DEF SourceStep, SourceLoopTop, SourceConnect, SourceDeliver,
     SourceReturn, SourceAfterStream, SourceBackoff
<1>7. CASE FrameStep
  BY <1>7 DEF FrameStep, FrameLoopTop, FrameAccept, PushCheck, PushPublish,
     FrameClose
<1>8. CASE UNCHANGED vars
  BY <1>8
<1>9. QED
  BY <1>1, <1>2, <1>3, <1>4, <1>5, <1>6, <1>7, <1>8
  DEF Next, ControlStep, Ended

-------------------------------------------------------------------------------
(* The engine implements the latest-value pipe *)

(* Every step keeps that order, and is a step of the pipe or a stutter.    *)
LEMMA OrderedKept ==
  ASSUME TypeOK, Handover, Counted, GateHeld, Ordered, [Next]_vars
  PROVE  Ordered' /\ [Pipe!Next]_(Pipe!pipeVars)
<1> USE DEF Ordered, WriterAlive, vars, status, control, writer,
            source, frames, slot, screen, ghosts, StopThen
<1> USE DEF TypeOK, EngineTypes, WorkerTypes, ObservedTypes
<1> USE DEF Pipe!Next, Pipe!Open, Pipe!Publish, Pipe!Show, Pipe!Close,
   Pipe!pipeVars
<1>1. CASE StopRequest \/ StopJoinSource \/ StopJoinWriter
  BY <1>1 DEF StopRequest, StopJoinSource, StopJoinWriter, Join
<1>2. CASE StopRelease
  BY <1>2 DEF StopRelease, Handover, QuietPoints, ControlTypes
<1>3. CASE StartValidate \/ StartOpenSink \/ StartSpawnSource
  BY <1>3 DEF StartValidate, StartOpenSink, StartSpawnSource
<1>4. CASE StartReset
  BY <1>4 DEF StartReset, Handover, QuietPoints, GateHeld
<1>5. CASE StartSpawnWriter
  BY <1>5 DEF StartSpawnWriter, InitialWriterLocals
<1>6. CASE GateOpens \/ GateFails \/ HandleFailure \/ ReplyStopped
  BY <1>6 DEF GateOpens, GateFails, AfterGateFails, HandleFailure, ReplyStopped
<1>7. CASE \/ Shutdown \/ ShutdownJoinFrames \/ AcceptStop \/ Signal
             \/ \E url \in {"local", "network"} : AcceptStart(url)
  BY <1>7 DEF Shutdown, ShutdownJoinFrames, AcceptStop, Signal, AcceptStart
<1>8. CASE WriterTransform
  BY <1>8 DEF WriterTransform, Counted, FrameAccounting
<1>9. CASE WriterWrite
  <2>1. /\ running /\ wpc = "emit" /\ wpc' \in {"count", "fault"}
        /\ deviceGen' \in {deviceGen, outGen} /\ deviceGen <= outGen
        /\ outGen <= consumed /\ consumed <= generation
        /\ UNCHANGED <<running, generation, consumed, output, outGen, cpc>>
    BY <1>9 DEF WriterWrite, Counted, FrameAccounting
  <2>2. cpc # "spawnWriter"
    BY <2>1 DEF Handover, QuietPoints
  <2>3. QED BY <2>1, <2>2
<1>10. CASE WriterSnapshot \/ WriterNothing \/ WriterCount \/ WriterFault
           \/ WriterExit
  BY <1>10 DEF WriterSnapshot, WriterNothing, WriterCount, WriterFault,
     WriterExit, InitialWriterLocals
<1>11. CASE SourceDeliver
  BY <1>11 DEF SourceDeliver, Publish, DropOversize
<1>12. CASE SourceConnect \/ SourceLoopTop \/ SourceReturn
           \/ SourceAfterStream \/ SourceBackoff
  BY <1>12 DEF SourceLoopTop, SourceConnect, SourceReturn, SourceAfterStream,
     SourceBackoff
<1>13. CASE PushPublish
  BY <1>13 DEF PushPublish, Publish
<1>14. CASE FrameLoopTop \/ FrameAccept \/ PushCheck \/ FrameClose
  BY <1>14 DEF FrameLoopTop, FrameAccept, PushCheck, FrameClose
<1>15. CASE UNCHANGED vars
  BY <1>15
<1>16. QED
  BY <1>1, <1>2, <1>3, <1>4, <1>5, <1>6, <1>7, <1>8, <1>9, <1>10, <1>11,
     <1>12, <1>13, <1>14, <1>15
  DEF Next, ControlStep, WriterStep, SourceStep, FrameStep, Ended

-------------------------------------------------------------------------------
(* Replies *)

(* The inductive form of ReplyTellsSession: a start that was not refused   *)
(* runs the session it was asked for, only the placeholder is a fallback,  *)
(* and only a daemon that is no camera backend stops for a STOP request.   *)
Told ==
  /\ ReplyTellsSession
  /\ cpc \in {"spawnWriter", "spawnSource", "firstFrame"} =>
       running /\ config = request
  /\ call = "boot" => reply = "none"
  /\ call = "fallback" => request = "placeholder"
  /\ cpc = "reply" => ~prime /\ call = "stop"
  /\ cpc \in {"stop", "joinSource", "joinWriter", "release"} /\ after = "reply" =>
       ~prime /\ call = "stop"
  /\ call = "stop" /\ ~prime =>
       \/ cpc \in {"reply", "accept"}
       \/ /\ cpc \in {"stop", "joinSource", "joinWriter", "release"}
          /\ after = "reply"

(* Every step keeps the replies true.                                      *)
LEMMA ToldKept ==
  ASSUME TypeOK, GateHeld, Told, [Next]_vars
  PROVE  Told'
<1> USE DEF Told, ReplyTellsSession, vars, status, control, writer,
            source, frames, slot, screen, ghosts, StopThen
<1>1. CASE StopRequest \/ StopJoinSource \/ StopJoinWriter
  BY <1>1 DEF StopRequest, StopJoinSource, StopJoinWriter, Join
<1>2. CASE StopRelease
  BY <1>2 DEF StopRelease, TypeOK, ControlTypes
<1>3. CASE StartValidate \/ StartOpenSink \/ StartReset
  BY <1>3 DEF StartValidate, StartOpenSink, StartReset
<1>4. CASE StartSpawnWriter \/ StartSpawnSource
  BY <1>4 DEF StartSpawnWriter, StartSpawnSource
<1>5. CASE GateOpens
  BY <1>5 DEF GateOpens, FirstFrameWritten
<1>6. CASE GateFails
  BY <1>6 DEF GateFails, AfterGateFails
<1>7. CASE HandleFailure
  BY <1>7 DEF HandleFailure, GateHeld
<1>8. CASE ReplyStopped
  BY <1>8 DEF ReplyStopped, GateHeld
<1>9. CASE \/ Shutdown \/ ShutdownJoinFrames \/ AcceptStop \/ Signal
             \/ \E url \in {"local", "network"} : AcceptStart(url)
  BY <1>9 DEF Shutdown, ShutdownJoinFrames, AcceptStop, Signal, AcceptStart
<1>10. CASE WriterStep
  BY <1>10 DEF WriterStep, WriterSnapshot, WriterTransform, WriterNothing,
     WriterWrite, WriterCount, WriterFault, WriterExit
<1>11. CASE SourceStep
  BY <1>11 DEF SourceStep, SourceLoopTop, SourceConnect, SourceDeliver,
     SourceReturn, SourceAfterStream, SourceBackoff
<1>12. CASE FrameStep
  BY <1>12 DEF FrameStep, FrameLoopTop, FrameAccept, PushCheck, PushPublish,
     FrameClose
<1>13. CASE UNCHANGED vars
  BY <1>13
<1>14. QED
  BY <1>1, <1>2, <1>3, <1>4, <1>5, <1>6, <1>7, <1>8, <1>9, <1>10, <1>11,
     <1>12, <1>13
  DEF Next, ControlStep, WriterStep, SourceStep, FrameStep, Ended

-------------------------------------------------------------------------------
(* Late frames and outages *)

(* Every step lets at most the one frame in flight into a placeholder      *)
(* session: there is one frame server, and the check precedes each frame.  *)
LEMMA OneFrameKept ==
  ASSUME TypeOK, Handover, OneFrameInFlight, [Next]_vars
  PROVE  OneFrameInFlight'
<1> USE DEF OneFrameInFlight, vars, status, control, writer,
            source, frames, slot, screen, ghosts, StopThen
<1>1. CASE StopRequest \/ StopJoinSource \/ StopJoinWriter \/ StopRelease
  BY <1>1 DEF StopRequest, StopJoinSource, StopJoinWriter, Join, StopRelease
<1>2. CASE StartValidate \/ StartOpenSink \/ StartSpawnWriter \/ StartSpawnSource
  BY <1>2 DEF StartValidate, StartOpenSink, StartSpawnWriter, StartSpawnSource
<1>3. CASE StartReset
  BY <1>3 DEF StartReset
<1>4. CASE GateOpens \/ GateFails \/ HandleFailure \/ ReplyStopped
  BY <1>4 DEF GateOpens, GateFails, HandleFailure, ReplyStopped
<1>5. CASE \/ Shutdown \/ ShutdownJoinFrames \/ AcceptStop \/ Signal
             \/ \E url \in {"local", "network"} : AcceptStart(url)
  BY <1>5 DEF Shutdown, ShutdownJoinFrames, AcceptStop, Signal, AcceptStart
<1>6. CASE WriterStep
  BY <1>6 DEF WriterStep, WriterSnapshot, WriterTransform, WriterNothing,
     WriterWrite, WriterCount, WriterFault, WriterExit
<1>7. CASE SourceStep
  BY <1>7 DEF SourceStep, SourceLoopTop, SourceConnect, SourceDeliver,
     SourceReturn, SourceAfterStream, SourceBackoff, Handover, SourceAlive
<1>8. CASE PushCheck
  BY <1>8 DEF PushCheck, LocalProducerActive
<1>9. CASE PushPublish
  BY <1>9 DEF PushPublish, Publish, Handover, TypeOK, EngineTypes
<1>10. CASE FrameLoopTop \/ FrameAccept \/ FrameClose
  BY <1>10 DEF FrameLoopTop, FrameAccept, FrameClose
<1>11. CASE UNCHANGED vars
  BY <1>11
<1>12. QED
  BY <1>1, <1>2, <1>3, <1>4, <1>5, <1>6, <1>7, <1>8, <1>9, <1>10, <1>11
  DEF Next, ControlStep, WriterStep, SourceStep, FrameStep, Ended

(* The inductive form of OutageKeepsPicture: a bad frame is one that the   *)
(* writer took, and a successful write leaves the picture on the device.   *)
Pictured ==
  /\ OutageKeepsPicture
  /\ cpc = "spawnWriter" => lastBad = 0
  /\ WriterAlive => lastBad <= consumed
  /\ wpc = "count" => device = output

(* Every step keeps the picture the writer has, but for a bad frame.       *)
LEMMA PicturedKept ==
  ASSUME TypeOK, Handover, Counted, Pictured, [Next]_vars
  PROVE  Pictured'
<1> USE DEF Pictured, OutageKeepsPicture, WriterAlive, vars, status, control, writer,
            source, frames, slot, screen, ghosts, StopThen
<1> USE DEF TypeOK, EngineTypes, WorkerTypes, ObservedTypes
<1>1. CASE StopRequest \/ StopJoinSource \/ StopJoinWriter \/ StopRelease
  BY <1>1 DEF StopRequest, StopJoinSource, StopJoinWriter, Join, StopRelease,
     Handover, QuietPoints, ControlTypes
<1>2. CASE StartValidate \/ StartOpenSink \/ StartSpawnSource
  BY <1>2 DEF StartValidate, StartOpenSink, StartSpawnSource
<1>3. CASE StartSpawnWriter
  BY <1>3 DEF StartSpawnWriter, InitialWriterLocals
<1>4. CASE StartReset
  BY <1>4 DEF StartReset, Handover, QuietPoints
<1>5. CASE GateOpens \/ GateFails \/ HandleFailure \/ ReplyStopped
  BY <1>5 DEF GateOpens, GateFails, AfterGateFails, HandleFailure, ReplyStopped
<1>6. CASE \/ Shutdown \/ ShutdownJoinFrames \/ AcceptStop \/ Signal
             \/ \E url \in {"local", "network"} : AcceptStart(url)
  BY <1>6 DEF Shutdown, ShutdownJoinFrames, AcceptStop, Signal, AcceptStart
<1>7. CASE WriterSnapshot
  BY <1>7 DEF WriterSnapshot, Skipped
<1>8. CASE WriterTransform
  <2>1. snap.good => snap # NoFrame BY DEF NoFrame
  <2>2. lastBad <= consumed /\ consumed < snapGen
    BY <1>8 DEF WriterTransform, Counted
  <2>3. /\ wpc' = "emit" /\ consumed' = snapGen /\ lastBad' \in {lastBad, snapGen}
        /\ IF lastBad' = snapGen THEN output' = NoFrame
           ELSE output' # NoFrame /\ outGen' = snapGen
    BY <1>8, <2>1, <2>2 DEF WriterTransform
  <2>4. cpc' # "spawnWriter"
    BY <1>8 DEF WriterTransform, Handover, QuietPoints
  <2>5. QED BY <2>2, <2>3, <2>4
<1>9. CASE WriterNothing \/ WriterWrite \/ WriterCount \/ WriterFault \/ WriterExit
  BY <1>9 DEF WriterNothing, WriterWrite, WriterCount, WriterFault, WriterExit,
     InitialWriterLocals
<1>10. CASE SourceDeliver
  BY <1>10 DEF SourceDeliver, Publish, DropOversize
<1>11. CASE SourceConnect \/ SourceLoopTop \/ SourceReturn
  BY <1>11 DEF SourceConnect, SourceLoopTop, SourceReturn
<1>12. CASE SourceAfterStream \/ SourceBackoff
  BY <1>12 DEF SourceAfterStream, SourceBackoff
<1>13. CASE FrameStep
  BY <1>13 DEF FrameStep, FrameLoopTop, FrameAccept, PushCheck, PushPublish,
     FrameClose, Publish
<1>14. CASE UNCHANGED vars
  BY <1>14
<1>15. QED
  BY <1>1, <1>2, <1>3, <1>4, <1>5, <1>6, <1>7, <1>8, <1>9, <1>10, <1>11,
     <1>12, <1>13, <1>14
  DEF Next, ControlStep, WriterStep, SourceStep, FrameStep, Ended

-------------------------------------------------------------------------------
(* The theorems *)

(* Together the parts are inductive, and hold in the beginning.            *)
EngineInv ==
  /\ TypeOK /\ Handover /\ Counted /\ GateHeld /\ Ordered
  /\ Told /\ OneFrameInFlight /\ Pictured

(* The strengthened invariant of the engine's threads holds for ever.      *)
LEMMA InvariantHolds == Spec => []EngineInv
<1>1. ASSUME Init
      PROVE  /\ Handover /\ Counted /\ GateHeld /\ Ordered
             /\ Told /\ OneFrameInFlight /\ Pictured
  <2>1. wpc = "none" /\ spc = "none" /\ ~running /\ pushed = NoFrame
    BY <1>1 DEF Init
  <2>2. cpc \in {"stop", "accept"} /\ fpc \in {"none", "top"}
    BY <1>1 DEF Init
  <2>3. Told
    BY <1>1, <2>2 DEF Init, Told, ReplyTellsSession
  <2>4. QED
    BY <1>1, <2>1, <2>2, <2>3 DEF Init, Handover, QuietPoints, Counted,
       FrameAccounting, GateHeld, IdleSessionHasPicture, Ordered, WriterAlive,
       SourceAlive, OneFrameInFlight, Pictured, OutageKeepsPicture
<1>2. ASSUME EngineInv, [Next]_vars, TypeOK' PROVE EngineInv'
  BY <1>2, HandoverKept, CountedKept, GateHeldKept, OrderedKept, ToldKept,
     OneFrameKept, PicturedKept DEF EngineInv
<1>3. QED BY <1>1, <1>2, TypeCorrect, PTL DEF Spec, EngineInv

(* The threads that read config_ and the sink without the lock only live   *)
(* while nobody else may write them.                                       *)
THEOREM OwnershipHolds == Spec => []WorkersOwnSession
<1>1. EngineInv => WorkersOwnSession
  BY DEF EngineInv, Handover, QuietPoints, WorkersOwnSession, WriterAlive,
     SourceAlive
<1>2. QED BY <1>1, InvariantHolds, PTL

(* frames_dropped counts each frame that was not shown exactly once.       *)
THEOREM AccountingHolds == Spec => []FrameAccounting
<1>1. EngineInv => FrameAccounting BY DEF EngineInv, Counted
<1>2. QED BY <1>1, InvariantHolds, PTL

(* A camera backend never idles in a session the gate rejected.            *)
THEOREM GateHolds == Spec => []IdleSessionHasPicture
<1>1. EngineInv => IdleSessionHasPicture BY DEF EngineInv, GateHeld
<1>2. QED BY <1>1, InvariantHolds, PTL

(* What a reply tells the client about its session is so.                  *)
THEOREM RepliesTrue == Spec => []ReplyTellsSession
<1>1. EngineInv => ReplyTellsSession BY DEF EngineInv, Told
<1>2. QED BY <1>1, InvariantHolds, PTL

(* Whoever talks to vcamesd knows its session, and sees its picture.       *)
THEOREM SessionToldTrue == Spec => []SessionAsTold
<1>1. IdleSessionHasPicture /\ ReplyTellsSession => SessionAsTold
  BY DEF SessionAsTold
<1>2. QED BY <1>1, GateHolds, RepliesTrue, PTL

(* Only one local frame can be late into a placeholder session.            *)
THEOREM LateFramesBounded == Spec => []OneFrameInFlight
<1>1. EngineInv => OneFrameInFlight BY DEF EngineInv
<1>2. QED BY <1>1, InvariantHolds, PTL

(* The writer loses its picture only to a frame it could not transform.    *)
THEOREM PictureKept == Spec => []OutageKeepsPicture
<1>1. EngineInv => OutageKeepsPicture
  BY DEF EngineInv, Pictured, OutageKeepsPicture, WriterAlive
<1>2. QED BY <1>1, InvariantHolds, PTL

(* The device shows the frames of a session in order: the engine, with all *)
(* its threads and control requests, implements FramePipe.                 *)
THEOREM EngineImplementsPipe == Spec => PipeSpec
<1>1. Init => Pipe!Init BY DEF Init, Pipe!Init
<1>2. EngineInv /\ [Next]_vars => [Pipe!Next]_(Pipe!pipeVars)
  BY OrderedKept DEF EngineInv
<1>3. QED BY <1>1, <1>2, InvariantHolds, PTL DEF Spec, PipeSpec, Pipe!Spec
=============================================================================
