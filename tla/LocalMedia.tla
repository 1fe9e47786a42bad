------------------------------ MODULE LocalMedia ------------------------------
(***************************************************************************)
(* Local playback in the app: who starts and stops it (MainActivity,       *)
(* BootReceiver, the notification), LocalMediaService with its playback    *)
(* threads and image listeners, and the frame endpoint they push to.       *)
(*                                                                         *)
(* Three commanders, each a background thread, send a request to vcamesd   *)
(* and an intent to the service, in an order that depends on the command.  *)
(* The service handles intents one by one and waits at most 2.5 s for an   *)
(* old playback, so several may be alive.  A playback connects, decodes,   *)
(* closes and connects again.  Of the endpoint (SocketProxy) and the       *)
(* engine's mode (Engine) only what a playback notices is kept.            *)
(***************************************************************************)
EXTENDS Naturals, Sequences, SequencesExt

CONSTANTS
  MaxCommands,  \* bound: commands given
  Backlog       \* connections that wait or are served before connect blocks

ASSUME LocalMediaAssumption ==
  MaxCommands \in Nat /\ Backlog \in Nat \ {0}

Commanders == {"activity", "recreated", "boot"}
Wants == {"local", "network", "stop"}
Playbacks == 1..MaxCommands
NoPlayback == 0

VARIABLES
  place, want,     \* the commanders' threads: place and command
  destroyed,       \* is the first activity gone?
  asked,           \* control requests not yet handled, in order
  mode,            \* what vcamesd takes frames from: "idle", "local", "network"
  intents,         \* messages for the service's main thread, in order
  svc,             \* the message it is in the middle of, or "idle"
  worker,          \* worker: the playback the service knows of
  stop,            \* [Playbacks -> BOOLEAN]: stopRequested of each playback
  wpc,             \* [Playbacks -> place of the playback thread]
  lpc,             \* [Playbacks -> place of its image listener]
  queue,           \* connections to the frame endpoint, the first is served
  begun, plays,    \* commands given and playbacks started so far
  clean,           \* ghost: [Commanders -> BOOLEAN]: alone since it began?
  last,            \* ghost: the last command, if it ran alone and succeeded
  taken, late      \* ghosts: whose frame was taken last; frames sent after the stop

commands == <<place, want, destroyed, begun, clean, last>>
daemon == <<asked, mode>>
service == <<intents, svc, worker, stop, plays>>
threads == <<wpc, lpc>>
endpoint == <<queue, taken, late>>
vars == <<commands, daemon, service, threads, endpoint>>

Init ==
  /\ place = [c \in Commanders |-> "idle"] /\ want = [c \in Commanders |-> "stop"]
  /\ destroyed = FALSE /\ begun = 0
  /\ clean = [c \in Commanders |-> FALSE] /\ last = "none"
  /\ asked = <<>> /\ mode = "idle"
  /\ intents = <<>> /\ svc = "idle" /\ worker = NoPlayback /\ plays = 0
  /\ stop = [w \in Playbacks |-> FALSE]
  /\ wpc = [w \in Playbacks |-> "none"] /\ lpc = [w \in Playbacks |-> "idle"]
  /\ queue = <<>> /\ taken = NoPlayback /\ late = [w \in Playbacks |-> 0]

-------------------------------------------------------------------------------
(* Commanders: the activity's ioExecutor and the boot thread *)

Go(c, p) == place' = [place EXCEPT ![c] = p]

(* The command of c is over; outcome is remembered if nobody interfered. *)
End(c, outcome) ==
  /\ Go(c, IF c = "boot" THEN "over" ELSE "idle")
  /\ want' = [want EXCEPT ![c] = "stop"]
  /\ last' = IF clean[c] THEN outcome ELSE "unknown"
  /\ clean' = [clean EXCEPT ![c] = FALSE]
  /\ UNCHANGED <<destroyed, begun>>

Post(message) == intents' = Append(intents, message)

(* Each activity has one executor; a task outlives the activity.  Booting  *)
(* happens once and never stops anything.                                  *)
MayBegin(c, command) ==
  CASE c = "activity" -> ~destroyed
    [] c = "recreated" -> destroyed
    [] OTHER -> command # "stop"

Busy(c) == place[c] \notin {"idle", "over"}

(* A start first asks the daemon, if it is ready; a stop first tells the   *)
(* service.                                                                *)
Begin(c, command) ==
  /\ place[c] = "idle" /\ begun < MaxCommands /\ MayBegin(c, command)
  /\ Go(c, IF command = "stop" THEN "service" ELSE "ask")
  /\ want' = [want EXCEPT ![c] = command]
  /\ begun' = begun + 1
  /\ clean' = [d \in Commanders |-> d = c /\ ~\E e \in Commanders : Busy(e)]
  /\ last' = "none"
  /\ UNCHANGED <<destroyed, daemon, service, threads, endpoint>>

Recreate ==
  /\ ~destroyed /\ destroyed' = TRUE
  /\ UNCHANGED <<place, want, begun, clean, last, daemon, service, threads, endpoint>>

(* A command fails before it reaches the daemon: not ready, no connection. *)
AskFails(c) ==
  /\ place[c] = "ask"
  /\ End(c, "failed")
  /\ UNCHANGED <<daemon, service, threads, endpoint>>

Ask(c) ==
  /\ place[c] = "ask"
  /\ asked' = Append(asked, [by |-> c, want |-> want[c]])
  /\ Go(c, "wait")
  /\ UNCHANGED <<want, destroyed, begun, clean, last, mode, service, threads, endpoint>>

(* Eight seconds are over; the request stays with the daemon. *)
GiveUp(c) ==
  /\ place[c] = "wait"
  /\ asked' = [i \in DOMAIN asked |->
                 IF asked[i].by = c THEN [asked[i] EXCEPT !.by = "nobody"] ELSE asked[i]]
  /\ End(c, "failed")
  /\ UNCHANGED <<mode, service, threads, endpoint>>

(* vcamesd carries out a request; one whose client is gone may be lost.    *)
HandleRequest ==
  /\ asked # <<>> /\ asked' = Tail(asked)
  /\ LET request == Head(asked)
         by == request.by
     IN \/ /\ request.want # "stop" /\ mode' = request.want
           /\ IF by = "nobody" THEN UNCHANGED commands
              ELSE Go(by, "service") /\ UNCHANGED <<want, destroyed, begun, clean, last>>
        \/ /\ request.want = "stop" /\ mode' = "idle"
           /\ IF by = "nobody" THEN UNCHANGED commands ELSE End(by, "stop")
        \/ /\ mode' \in {"idle", mode}
           /\ IF by = "nobody" THEN UNCHANGED commands ELSE End(by, "failed")
        \/ by = "nobody" /\ UNCHANGED <<mode, commands>>
  /\ UNCHANGED <<service, threads, endpoint>>

(* Is a stop under way?  Its stopSelf ends whatever was started before it. *)
Stopping == svc = "stop" \/ Contains(intents, "stop")

(* Seeded fault: starting a network stream leaves the local video alone. *)
TellServiceLocalOnly(c) ==
  IF want[c] = "local" THEN Post("start") ELSE UNCHANGED intents

(* A local start starts the service; a network start and a stop stop it.   *)
(* The boot thread leaves the service alone unless it plays local video.   *)
TellService(c) ==
  CASE want[c] = "local" -> Post("start")
    [] want[c] = "network" /\ c = "boot" -> UNCHANGED intents
    [] OTHER -> Post("stop")

(* What a start that reached its end can rely on. *)
StartOutcome(c) ==
  CASE want[c] = "local" /\ Stopping -> "contested"
    [] want[c] = "network" /\ c = "boot" -> "bootNetwork"
    [] OTHER -> want[c]

(* startCamera tells the service last, stopCamera first. *)
UseService(c) ==
  /\ place[c] = "service"
  /\ TellService(c)
  /\ IF want[c] = "stop"
     THEN Go(c, "ask") /\ UNCHANGED <<want, destroyed, begun, clean, last>>
     ELSE End(c, StartOutcome(c))
  /\ UNCHANGED <<daemon, svc, worker, stop, plays, threads, endpoint>>

(* The notification's button stops the service and tells nobody else. *)
Dismiss ==
  /\ worker # NoPlayback /\ begun < MaxCommands
  /\ Post("stop")
  /\ begun' = begun + 1
  /\ last' = "dismissed"
  /\ clean' = [c \in Commanders |-> FALSE]
  /\ UNCHANGED <<place, want, destroyed, daemon, svc, worker, stop, plays, threads,
                 endpoint>>

-------------------------------------------------------------------------------
(* LocalMediaService's main thread *)

(* stopPlayback: flag the playback, forget it, wait for it a while. *)
StopPlayback ==
  /\ svc = "idle" /\ intents # <<>>
  /\ svc' = Head(intents) /\ intents' = Tail(intents)
  /\ stop' = IF worker = NoPlayback THEN stop ELSE [stop EXCEPT ![worker] = TRUE]
  /\ worker' = NoPlayback
  /\ UNCHANGED <<commands, daemon, plays, threads, endpoint>>

(* Seeded fault: the new thread is given the flag of the old one. *)
FlagReused(w) == stop' = [stop EXCEPT ![w] = w > 1]

FreshFlag(w) == stop' = [stop EXCEPT ![w] = FALSE]

(* The join has ended or timed out; the new playback starts. *)
StartPlayback ==
  /\ svc = "start" /\ svc' = "idle"
  /\ plays' = plays + 1 /\ worker' = plays + 1
  /\ FreshFlag(plays + 1)
  /\ wpc' = [wpc EXCEPT ![plays + 1] = "top"]
  /\ UNCHANGED <<commands, daemon, intents, lpc, endpoint>>

(* stopSelf: the system sends onDestroy after what it has already sent. *)
StopSelf ==
  /\ svc = "stop" /\ svc' = "idle"
  /\ IF Contains(intents, "destroy") THEN UNCHANGED intents ELSE Post("destroy")
  /\ UNCHANGED <<commands, daemon, worker, stop, plays, threads, endpoint>>

OnDestroy ==
  /\ svc = "destroy" /\ svc' = "idle"
  /\ UNCHANGED <<commands, daemon, intents, worker, stop, plays, threads, endpoint>>

ServiceStep == StopPlayback \/ StartPlayback \/ StopSelf \/ OnDestroy

-------------------------------------------------------------------------------
(* A playback's thread *)

(* The connections w has open, at most one. *)
Mine(w) == {i \in DOMAIN queue : queue[i].by = w /\ queue[i].open}

At(w, p) == wpc' = [wpc EXCEPT ![w] = p]

(* Seeded fault: the loop does not look at the flag. *)
LoopTopUntested(w) ==
  /\ wpc[w] = "top" /\ At(w, "connect")
  /\ UNCHANGED <<commands, daemon, service, lpc, endpoint>>

(* The test of the flag in playbackLoop, and in the pause of a second that *)
(* follows a failure.                                                      *)
LoopTop(w) ==
  /\ wpc[w] = "top" /\ At(w, IF stop[w] THEN "done" ELSE "connect")
  /\ UNCHANGED <<commands, daemon, service, lpc, endpoint>>

Connect(w) ==
  /\ wpc[w] = "connect" /\ Len(queue) < Backlog
  /\ queue' = Append(queue, [by |-> w, n |-> 0, open |-> TRUE, live |-> TRUE])
  /\ At(w, "decode")
  /\ UNCHANGED <<commands, daemon, service, lpc, taken, late>>

ConnectFails(w) ==
  /\ wpc[w] = "connect" /\ At(w, "top")
  /\ UNCHANGED <<commands, daemon, service, lpc, endpoint>>

(* runDecoder ends: stopped, failed listener, end of the video, exception. *)
RoundEnds(w) ==
  /\ wpc[w] = "decode"
  /\ At(w, "close")
  /\ UNCHANGED <<commands, daemon, service, lpc, endpoint>>

(* The wait for the image thread has ended or timed out; closing the       *)
(* sender waits for a write under way.  What a late listener still tries   *)
(* fails and reaches nobody.                                               *)
Close(w) ==
  /\ wpc[w] = "close" /\ lpc[w] # "writing"
  /\ At(w, "top")
  /\ lpc' = [lpc EXCEPT ![w] = "idle"]
  /\ queue' = [i \in DOMAIN queue |->
                 IF i \in Mine(w) THEN [queue[i] EXCEPT !.open = FALSE] ELSE queue[i]]
  /\ UNCHANGED <<commands, daemon, service, taken, late>>

WorkerStep(w) == LoopTop(w) \/ Connect(w) \/ Close(w)

-------------------------------------------------------------------------------
(* Its image listener *)

Listen(w, p) == lpc' = [lpc EXCEPT ![w] = p]

(* Seeded fault: the listener does not look at the flag. *)
MayPushAnyway(w) == TRUE

MayPush(w) == ~stop[w]

Check(w) ==
  /\ wpc[w] \in {"decode", "close"} /\ lpc[w] = "idle"
  /\ MayPush(w) /\ Listen(w, "checked")
  /\ UNCHANGED <<commands, daemon, service, wpc, endpoint>>

Write(w) ==
  /\ lpc[w] = "checked" /\ Listen(w, "writing")
  /\ UNCHANGED <<commands, daemon, service, wpc, endpoint>>

ConvertFails(w) ==
  /\ lpc[w] = "checked" /\ Listen(w, "failed")
  /\ UNCHANGED <<commands, daemon, service, wpc, endpoint>>

(* Seeded fault: a frame is written whether or not the last one is out. *)
RoomIgnored(i) == TRUE

(* sendNv21 blocks while the frame before is not taken. *)
Room(i) == queue[i].n = 0

Sent(w) ==
  /\ lpc[w] = "writing" /\ Listen(w, "idle")
  /\ \E i \in Mine(w) :
       /\ Room(i)
       /\ queue' = [queue EXCEPT ![i].n = @ + 1]
  /\ late' = IF stop[w] THEN [late EXCEPT ![w] = @ + 1] ELSE late
  /\ UNCHANGED <<commands, daemon, service, wpc, taken>>

SendFails(w) ==
  /\ lpc[w] = "writing" /\ Mine(w) = {} /\ Listen(w, "failed")
  /\ UNCHANGED <<commands, daemon, service, wpc, endpoint>>

ListenerStep(w) == Check(w) \/ Write(w) \/ ConvertFails(w) \/ Sent(w) \/ SendFails(w)

-------------------------------------------------------------------------------
(* The frame endpoint: the proxy's relay with vcamesd's frame server *)

TakeFrame ==
  /\ queue # <<>> /\ Head(queue).n > 0 /\ Head(queue).live /\ mode = "local"
  /\ queue' = [queue EXCEPT ![1].n = @ - 1]
  /\ taken' = Head(queue).by
  /\ UNCHANGED <<commands, daemon, service, threads, late>>

(* The engine takes no local frames, or vcamesd has left: the connection   *)
(* ends with the first frame; it ends, too, once the client has closed it. *)
Drop ==
  /\ queue # <<>>
  /\ \/ Head(queue).n > 0 /\ (mode # "local" \/ ~Head(queue).live)
     \/ Head(queue).n = 0 /\ ~Head(queue).open
  /\ queue' = Tail(queue)
  /\ UNCHANGED <<commands, daemon, service, threads, taken, late>>

(* Two seconds without a frame: vcamesd leaves, the relay notices later. *)
Abandon ==
  /\ queue # <<>> /\ Head(queue).n = 0 /\ Head(queue).open /\ Head(queue).live
  /\ queue' = [queue EXCEPT ![1].live = FALSE]
  /\ UNCHANGED <<commands, daemon, service, threads, taken, late>>

-------------------------------------------------------------------------------

CommandStep ==
  \/ \E c \in Commanders :
       \/ \E command \in Wants : Begin(c, command)
       \/ AskFails(c) \/ Ask(c) \/ GiveUp(c) \/ UseService(c)
  \/ Recreate \/ Dismiss

(* No message is under way. *)
Quiet ==
  /\ \A c \in Commanders : ~Busy(c)
  /\ asked = <<>> /\ intents = <<>> /\ svc = "idle"

Ended(w) == wpc[w] \in {"none", "done"}

(* The bound is reached and all is over. *)
Rest ==
  /\ begun = MaxCommands /\ destroyed /\ Quiet /\ queue = <<>>
  /\ \A w \in Playbacks : Ended(w)
  /\ UNCHANGED vars

Next ==
  \/ CommandStep \/ HandleRequest \/ ServiceStep
  \/ \E w \in Playbacks :
       WorkerStep(w) \/ ConnectFails(w) \/ RoundEnds(w) \/ ListenerStep(w)
  \/ TakeFrame \/ Drop \/ Abandon
  \/ Rest

Spec == Init /\ [][Next]_vars

(* What ends a round before its time, or keeps it from beginning. *)
Disturbed ==
  \/ Abandon
  \/ \E w \in Playbacks :
       \/ ConnectFails(w) \/ ConvertFails(w)
       \/ RoundEnds(w) /\ ~stop[w] /\ lpc[w] # "failed"

(* The main thread and the frame server run; of a playback's two threads   *)
(* one that can run does.  A flagged or failed round ends, for runDecoder  *)
(* looks at both every 20 ms; a video has pictures.  A connect that waits  *)
(* for room in the backlog gets it in the end.  Nobody owes a command.     *)
FairSpec ==
  /\ Spec
  /\ WF_vars(ServiceStep) /\ WF_vars(TakeFrame \/ Drop)
  /\ \A w \in Playbacks :
       /\ SF_vars(Connect(w))
       /\ WF_vars(\/ WorkerStep(w) \/ Check(w) \/ Write(w) \/ Sent(w) \/ SendFails(w)
                  \/ (stop[w] \/ lpc[w] = "failed") /\ RoundEnds(w))

-------------------------------------------------------------------------------
(* Correctness *)

Connection == [by : Playbacks, n : 0..1, open : BOOLEAN, live : BOOLEAN]
Outcomes == Wants \cup {"none", "failed", "unknown", "contested", "bootNetwork", "dismissed"}

(* Every variable has its type. *)
TypeOK ==
  /\ place \in [Commanders -> {"idle", "ask", "wait", "service", "over"}]
  /\ want \in [Commanders -> Wants] /\ destroyed \in BOOLEAN
  /\ begun \in 0..MaxCommands /\ plays \in 0..MaxCommands
  /\ clean \in [Commanders -> BOOLEAN] /\ last \in Outcomes
  /\ asked \in Seq([by : Commanders \cup {"nobody"}, want : Wants])
  /\ mode \in {"idle", "local", "network"}
  /\ intents \in Seq({"start", "stop", "destroy"})
  /\ svc \in {"idle", "start", "stop", "destroy"}
  /\ worker \in Playbacks \cup {NoPlayback} /\ taken \in Playbacks \cup {NoPlayback}
  /\ stop \in [Playbacks -> BOOLEAN] /\ late \in [Playbacks -> Nat]
  /\ wpc \in [Playbacks -> {"none", "top", "connect", "decode", "close", "done"}]
  /\ lpc \in [Playbacks -> {"idle", "checked", "writing", "failed"}]
  /\ queue \in Seq(Connection) /\ Len(queue) <= Backlog

(* Frames of two playbacks never mix, although an old playback that missed *)
(* the 2.5 s of stopPlayback lives on and even connects after the new one: *)
(* vcamesd takes them in the order the playbacks were started.  And a      *)
(* stopped playback sends at most the one frame its listener had decided   *)
(* to send before the flag was set (LocalMediaService.java:115-157,        *)
(* 208-231).                                                               *)
PlaybacksApart == [][taken' >= taken /\ \A w \in Playbacks : late'[w] <= 1]_vars

(* When no message is under way and the last command was given alone and   *)
(* succeeded, daemon and service both do what it said, even if requests    *)
(* that were given up before were carried out late.  A local start may     *)
(* lose its playback only to a stop the service was still busy with        *)
(* (MainActivity.java:238-281, BootReceiver.java:24-45, stopSelf in        *)
(* LocalMediaService.java:64-68).                                          *)
LastCommandHolds ==
  Quiet =>
    /\ last = "local" => mode = "local" /\ worker # NoPlayback
    /\ last = "contested" => mode = "local"
    /\ last = "network" => mode = "network" /\ worker = NoPlayback
    /\ last = "bootNetwork" => mode = "network"
    /\ last = "stop" => mode = "idle" /\ worker = NoPlayback
    /\ last = "dismissed" => worker = NoPlayback

(* A stopped playback ends, whatever its connection waits for.             *)
StoppedPlaybackEnds ==
  \A w \in Playbacks : stop[w] /\ ~Ended(w) ~> Ended(w)

(* The playback that stays the service's gets its frames through to a      *)
(* daemon that takes local frames, past the connections of its             *)
(* predecessors, once nothing disturbs it (LocalMediaService.java:145-157).*)
LatestPlaybackServed ==
  \A w \in Playbacks :
    <>[](worker = w /\ mode = "local") /\ <>[][~Disturbed]_vars => <>(taken = w)
=============================================================================
