# VCamES in TLA+

VCamES replaces the camera of a Pixel 5 by a virtual one. A Magisk module takes
the camera over from the manufacturer's ("OEM") camera provider; a daemon feeds
frames of a network stream or of a local video into a V4L2 loopback device; a
replacement provider serves that device as `legacy/0`; an app controls it.

The modules beside this file model the parts of the system that are concurrent,
stateful or hard to test, TLC checks them on small instances, and TLAPS proves
the central invariants for every value of the constants. `PROJECT.json` maps
each definition to its source lines and lists runs, seeded faults, hazards,
findings and theorems. Source paths below are relative to the repository root.

## 1. The system

| Part | Source | State | Operations | Modelled by |
|---|---|---|---|---|
| Streaming engine | `daemon/src/engine.cpp` | status, config, newest frame and its generation, stop flag, two worker threads | Start, Stop, WaitForFirstFrameWritten, PushFrame, PushNv21Frame, SourceLoop, WriterLoop | `Engine`, `FramePipe` |
| vcamesd process | `daemon/src/main.cpp` | `g_stop`, listeners | boot, START/STOP/STATUS, frame connections, signal, exit; argument parsing, peer check, reading a request | `Engine`, `SocketProxy`; `Launch`, `Requests` |
| V4L2 sink | `daemon/src/v4l2_sink.cpp` | one descriptor | Open, Write, Close | `Engine` |
| FFmpeg source | `daemon/src/ffmpeg_source.cpp` | child, two pipes, clocks | Stream, TerminateChild | `FfmpegSource` |
| MJPEG parser | `daemon/src/mjpeg_parser.cpp` | byte buffer | Append, Reset | `MjpegParser` |
| UID socket proxy | `daemon/src/socket_proxy.cpp` | listener, one connection | Serve, Relay; option parsing, privilege drop | `SocketProxy`; `Launch`, `Requests` |
| App's socket clients | `DaemonClient.java`, `FramePushClient.java` | one socket | request; sendNv21, close | `SocketProxy`, `Requests`, `LocalMedia` |
| Takeover script | `root-module/template/service.sh` | flags, pids, `status.txt` | pre-flight, OEM stop, starts with retries, monitor loop, cleanup, traps | `Takeover` |
| Readiness check | `DeploymentManager.java` | none | checkStartReadiness | `Runtime` |
| Local playback | `LocalMediaService.java` | worker thread, image listener | startPlayback, stopPlayback, playbackLoop, decodeOnce | `LocalMedia` |
| UI and boot | `MainActivity.java`, `BootReceiver.java` | preferences | startCamera, stopCamera, onReceive; VCamConfig | `LocalMedia`; `Command` |
| URL and command parsers | `stream_source.cpp`, `config.cpp` | none | ParseStreamSourceUrl, BuildFfmpegArguments; ParseCommand, Validate, JsonEscape | `StreamSource`, `Command` |
| Pixel code | `image_transform.cpp`; `native/yuv420_converter.cpp`, `yuv420_jni.cpp`, `Yuv420Converter.java` | none | TransformNv21, ReadJpegDimensions, TransformJpegToNv21, Nv21ToJpeg; convert | `ImageTransform`, `JpegPictures`; `Nv21Converter` |
| Install scripts, offline tools | `customize.sh`, `device-probe.sh`, `action.sh`, `tools/` | files | checks, packing, signing, patching | not modelled |

How they interact:

    app --LocalSocket--> proxy --abstract socket--> vcamesd: control thread --> Engine
    app --LocalSocket--> proxy --abstract socket--> vcamesd: frame thread ----> Engine.PushNv21Frame
    FFmpeg --pipe--> FfmpegSource --> MjpegParser --> Engine.PublishFrame   (source thread)
    Engine.WriterLoop --> V4l2Sink --> /dev/video100 --> replacement provider --> apps
    service.sh: starts and watches vcamesd, provider and proxy; stops and restores the OEM provider

Threads of vcamesd share one `Engine` under one mutex, but several pairs of
accesses are not one critical section. The script, its three processes, init
and hwservicemanager know of each other only through properties, pids and
registrations that may change between two commands.

What makes each part correct:

* Engine: no worker outlives its session; frames reach the device in order and
  never from an older session; counters add up; a reply tells the truth; the HAL
  reader always has a picture; requests are answered and shutdown ends.
* FFmpeg source: no child, zombie or descriptor is left; signals go only to the
  child's own group; stop, stall and a chatty child all end as intended, unless the
  child fills a pipe as fast as it is read.
* Parser: the frames found do not depend on how the stream is cut into reads;
  the size limit hits frames and nothing else.
* Proxy: requests and replies pass whole; one client cannot keep the endpoint.
* Local playback: frames of two playbacks never mix; a stopped playback sends at
  most one more frame and ends; the current one is served; the last command holds
  in the daemon and in the service.
* Parsers: a request of the app that is cut off anywhere is carried out in full or
  not at all; what the app lets the user start is understood and its answer taken for
  what it is; FFmpeg reads the URL that was checked, and nothing else.
* Readiness: however stale what the app has read, a start is carried out only in a
  camera the script has taken over.
* Takeover: two providers are never registered together; whatever fails, the OEM
  provider comes back, after our processes have gone; READY does not outlive it.
* Pixel code: the converter accepts exactly the pictures whose samples are all in
  their buffers and packs each sample to its place; turning and mirroring loses,
  doubles and shifts nothing; a scaled picture covers the output; a frame's size is
  the one of its own header; colours survive the way through NV21.

## 2. Modules

* **FramePipe** is the abstract promise of the engine: a session is opened,
  frames are published with growing generations, the screen shows a frame not
  older than the one it shows, and a new session starts with nothing shown.
* **Engine** is the code: four threads (control, frame server, writer, source),
  each with a program counter. One critical section under `mutex_` is one action;
  what happens outside it is an action of its own, so that the races of the code
  are races of the model. It refines `FramePipe` through the instance in its last
  section (`PipeSpec`).
* **EngineProofs** proves its invariants and the refinement.
* **Takeover** is `service.sh`, command by command, with the world it watches:
  init, hwservicemanager, its processes, the video device, signals between any
  two commands.
* **FfmpegSource** is one call of `Stream` after another, with the child, its
  pipes, the clock and the engine's stop flag. Each read of either inner loop is a
  step, between which the child may write again. **FfmpegProofs** proves its
  invariants.
* **MjpegParser** is `Append` on a byte alphabet of the four classes the parser
  tells apart, checked against an automaton that reads the stream byte by byte
  (`ReadAll`), over all bounded inputs and all chunkings. The loop is a function of
  the place where the buffer is cut off, each round given by those after it.
  **MjpegProofs** proves the same of streams, chunks and limits of any size.
* **SocketProxy** is one endpoint of the proxy with clients before it and the
  daemon's server thread behind it. A connection is four byte streams counted in
  units, with end of stream, closed ends and pending resets; the variable
  `control` tells the control endpoint from the one for frames.
* **LocalMedia** is the app around the other end of these sockets: two activities
  one after the other and the boot thread give commands, to the daemon and to the
  service, in the order of the code; the service's main thread starts and stops
  playbacks; each playback is a decoding thread and an image listener with a
  connection. The frame endpoint is what `SocketProxy` shows of it: it serves
  connections in order, one at a time. A playback's flag `stop[w]` is its own, as
  each thread is given an `AtomicBoolean` of its own.
* **LocalMediaProofs** and **SocketProxyProofs** prove what holds of the two for any
  number of commands and clients, and buffers and backlogs of any size.
* **Runtime** composes `Takeover` with the app in front of it: three reads, one after
  another, of what says that everything is ready, then a START that reaches vcamesd
  through the proxy and is carried out later, in whatever has become of the takeover
  by then. Every step of the script is taken together with what it does to a request
  under way. **RuntimeProofs** proves the invariants of `Takeover`, and that
  `Runtime` is a `Takeover`, so that they hold there too.
* **StreamSource**, **Command** and **Launch** are pure: texts are sequences of tokens, a
  token being a piece of text no check looks into, with a length. `StreamSource` is
  `ParseStreamSourceUrl` and the FFmpeg command line, with how FFmpeg reads one;
  `Command` is what the app writes for a user's settings, what vcamesd makes of a
  text and how it words its answer (the app's list of schemes, `NetworkSchemes`, and
  the daemon's, `kSchemes`, are two definitions, as they are two lists in the code); `Launch` is how the script starts vcamesd and the
  proxy, what the two make of their words, and which sockets then lead where.
* **Requests** composes them into a machine: both are launched, then one connection
  after another is admitted or not, read in pieces until its end, its limit or two
  seconds of silence, carried out and answered. Its constants are the uids and how a uid
  is written, the user's settings, the texts of scripts and those of errors; assumed of
  them is that two uids are not written alike, that strangers' uids are not the app's,
  that the two marks the read loop leaves in a text ("torn", "flood") are no part of a
  URL, and that only the peer check refuses with "permission denied". **MCRequests**
  chooses the texts. **RequestsProofs** proves the invariants of `Requests`.
* **Nv21Converter** is the app's packing of a decoded picture: the even cut, the
  buffers as native code sees them, `CheckedOffset` with a `size_t` that wraps at
  `SizeMax`, and for each byte of the output the plane and offset it is read from.
  `ConvertedExactly` compares that with what Android promises of an image.
* **ImageTransform** is the index arithmetic of the daemon's transforms: which
  source sample each output pixel shows, luma and chroma. Its references are
  pictures as functions, turned by quarters.
* **JpegPictures** is the way of a JPEG frame: its size read from its segments, whether
  it is passed on or transformed, and its colours through RGB, NV21 and back.
  `SizeFrom` is one round of the loop over the segments, `Walk` all of them.
  `TrueSize` reads the size off the sequence of segments instead, and `Reference`
  the colour a pixel should have off the picture turned by quarters.
* **Pixels** works on one image, transform, frame or picture after another, so that
  their properties are invariants, and says which of each there may be
  (`ValidImages`, `ValidTransforms`, `ValidFrames`, `DecodedOf`); **MCPixels** chooses
  some for TLC, **PixelProofs** proves the properties for all of them.

No module declares a RECURSIVE operator: loops are recursive functions or folds.
Definitions commented "Seeded fault" are never used by a
specification: each is a plausible bug that takes the place of the definition
after it, to see that a property notices.

## 3. Runs

| Run | Bounds | States | What it shows |
|---|---|---|---|
| `engine` | 3 sessions, generation 2 | 714,090 | hand-over, accounting, gate, replies, late frames, picture and refinement in all interleavings; requests are answered, the newest decodable frame is shown, a signal ends the process while a producer is connected |
| `takeover` | 2 signals | 330,200 | module `Runtime`: flag, order of registration and restoration, what cleanup guarantees; a start finds a camera taken over; a signal ends the script; a lost provider brings the OEM provider back |
| `ffmpeg` | timeouts 2 and 1 ticks, 2 looks, 2 units | 118,200 | nothing is left behind, only the own group is signalled; stop, stall and full stderr come to an end, but for a child that outruns its reader for good |
| `mjpeg_parser` | 8 bytes, chunks of 3, frames of 3 | 79,857 | frames, limit and buffer for every stream and chunking |
| `proxy` | 2 clients, buffers of 1 | 663,864 | requests and replies pass whole, a client that is gone is let go of, a requester gets its turn |
| `local_media` | 2 commands, backlog 2 | 223,826 | late frames, order of playbacks, the last command, the end of a stopped and the service of the current playback |
| `requests` | 3 uids of the app, the settings, texts and errors of `MCRequests` | 61,314 | what the app asked for is carried out in full or not at all, and of scripts what their whole text says, but for two cuts; the app is admitted, understood and answered, FFmpeg reads that URL only, no client holds the control thread |
| `pixels` | `size_t` up to 63, arrays up to 29; pictures up to 8 by 8, outputs up to 10 by 10; frames of 3 segments | 119,807 | conversion accepts and packs exactly what is there, turning and mirroring is exact, scaling covers the output, a frame's size is its own, colours survive |

Several properties are conjunctions with a name, each for one promise:
`PlaybacksApart` (frames in order of playbacks, one late frame at most),
`TransfersAreWhole` (requests and replies), `BookkeepingIsTrue` and `QuietHandover`
(flags, processes and order of the takeover), `EndIsSafe`, `ChildIsOurs` (nothing left
behind, no foreign group signalled), `CallEnds` (stop and stall), `EndpointMovesOn`,
`FramesAreExact` and `TransformIsExact`. Their parts stand before them in the modules.

Four more runs end in a counterexample; section 4 lists them.

Why the bounds suffice. Two sessions already give every old/new pair of workers
and frames; three leave room for the boot placeholder, a request and its fallback.
With two generations in a session the writer can be one behind the source. `prime`, chosen in `Init`, covers the daemon that shows a
placeholder (as `service.sh` starts it) and the one that does not. Retries
(three) and monitor failures (three) of the script are not scaled down. Two
signals are one in the script and one in its cleanup; further ones find the
script ended or cleaning up as before. One tick between the two FFmpeg timeouts
tells them apart, one look before SIGKILL tells a child that obeys SIGTERM from
one that does not. Eight bytes hold two adjacent frames, or junk, a split marker
and a frame above the limit; the limit of three is below a read with junk and the
start of a frame, and below every frame, so that it is a read that decides. A socket buffer of one unit makes the relay block
in every write, for a client may send without end; the second client is the one
that waits. A reply is one unit: a status line is far shorter than a socket
buffer. Without that, relay and daemon could block writing to each other, which
the code excludes only by it. `control`, chosen in `Init`, covers both endpoints.
Two commands of the app are a playback and its successor, a start and a stop, a
start by the boot thread and one by the user, or one given up and one after it. A
backlog of two holds the connection being served and one that waits for it. With
`size_t` at 63 the strides, positions and limits of `MCPixels` make each product
and sum of `CheckedOffset` wrap, end at the limit or stay below it; one crop is
right in all but the length of the array. Of 57,000 images some 4,800 are accepted, 125
of them by the direct copy of interleaved chroma. Pictures of two to ten pixels have scales that are whole, broken, above
and below one, equal in both directions or not. Frames of up to three segments are
cut off at five places and have fill bytes, standalone markers, an embedded
thumbnail's header or a length below two before their own. The texts of `MCRequests`
are each scheme, the tails and authorities on either side of each limit in
characters and in bytes, and what a hand-written script can get wrong; the uids are the
first and one past either end of the range `main.cpp` accepts.

Deadlock is checked in every run. `Ended` (Engine), `Stopped` (SocketProxy) and
`Rest` (LocalMedia) are what has come to its end; a parser that failed or was fed everything is reset.

Fairness. `Engine`: each thread that can run does, and a network stream ends when
it is asked to stop, which is what `FfmpegSource` shows (`StopEndsCall` in `CallEnds`)
of every child that does not outrun its reader; nobody owes a frame, a request or a
signal. `Takeover`: the shell goes on and the
daemon's gate is decided. `FfmpegSource`: the thread runs, time passes, a child
dies of SIGKILL, and of SIGTERM unless it ignores it. Nothing is assumed of how fast
the child writes. The code's two inner loops, over stdout and over stderr, read until
there is nothing left and look at neither the stop flag nor the time, so a child that
fills a pipe as fast as it is read keeps `Stream`, and whoever joins it, for ever. The
properties say so: `OutrunByOutput` and `OutrunByLog` are those behaviours, and
`CallEnds` and `LogNeverBlocks` are about all others. `SocketProxy`: relay and daemon
run, but an `accept4` need not fail, and after one that did the endpoint stays down
(`AcceptFails`, `Connect`); the daemon's two-second receive timeout fires, and a requester closes in the end, because its
socket times out after eight seconds. A producer owes nothing. `LocalMedia`: the
service's main thread, the frame endpoint and a playback's two threads run; a
round whose flag is set or whose listener has failed ends, because `runDecoder`
looks at both every 20 ms; strong fairness of `Connect` says that a connection
which waits for room in the backlog gets it. Nobody owes a command.
`Runtime`: as `Takeover`; the app owes nothing. `Requests`: a read returns, for its
socket has a receive timeout of two seconds.
`LatestPlaybackServed` has a premise besides, that from some time on no connection
fails or is abandoned (`Disturbed`): the code promises nothing without it.

`LastCommandHolds` leaves one case open, and names it "contested". A stop ends with
`stopSelf()` without a start id (`LocalMediaService.java:67`): a start that arrives
while the stop still waits for the old playback is begun, and then destroyed with
the service. The daemon is then in local mode with nobody to play. No document
says otherwise, so it is a limit of the property and no finding.

## 4. Where the code and its documentation differ

Each of these runs checks one statement of a document or comment and ends in a
counterexample.

| Run | Statement | What the code does |
|---|---|---|
| `engine_stop_black` | stop goes back to steady black (`docs/ARCHITECTURE.md:16`) | `PushFrame` checks the mode and publishes in two critical sections; a local frame crosses STOP. `OneFrameInFlight` bounds it to one frame. |
| `takeover_trap_order` | the trap ends our processes before it restores (`docs/ROOT_STOCK.md:13`) | a process started but not yet recorded survives. `RecordedProcessesReaped` says what holds. |
| `takeover_stop_undone` | takeover fails closed and restores (`customize.sh:107`) | an OEM service that takes longer than twenty seconds to stop is not started again, because the flag is set only after the wait. |
| `proxy_stalled` | a stalled producer cannot monopolize the frame endpoint (`daemon/src/main.cpp:222-223`) | the daemon abandons it, the proxy does not: its only relay waits for the producer to write or close. |

An outage keeps the last frame (same line of `ARCHITECTURE.md`) as long as there is
one to repeat: a failed transform clears `output_jpeg`. `OutageKeepsPicture` says
exactly what holds: the writer holds the picture of the newest frame it took, and none
only if that very frame could not be transformed. A second signal during cleanup abandons it: `UninterruptedCleanupRestores`,
a part of `EndIsSafe`, is what holds of the trap (`docs/ROOT_STOCK.md:13`), and
says so in its name.

## 5. Proofs

TLAPS proves, for all values of the constants that satisfy their named `ASSUME`:

* `EngineProofs`: `TypeOK`, `WorkersOwnSession`, `FrameAccounting`,
  `SessionAsTold`, `OneFrameInFlight`, `OutageKeepsPicture`, and `PipeSpec`, the
  refinement of `FramePipe`.
* `RuntimeProofs`, of `Takeover`: `TypeOK`, `BookkeepingIsTrue` and `EndIsSafe` for any number of
  signals; `QuietHandover`, which speaks of the steps before the first signal. Of the
  steps after one, `ProcessesEndBeforeRestore` is false, as `takeover_trap_order` shows.
* `RuntimeProofs`, of `Runtime`: it implements `Takeover`, so all of these hold beside an app
  that asks at the wrong time; and `StartFindsTakeover`.
* `FfmpegProofs`: `TypeOK`, `ChildIsOurs`.
* `MjpegProofs`: `TypeOK` and `FramesAreExact` for any stream, any chunking and any
  limit.
* `SocketProxyProofs`: `TypeOK` and `TransfersAreWhole` for any number of clients and
  socket buffers of any size.
* `LocalMediaProofs`: `TypeOK`, `PlaybacksApart` and `LastCommandHolds` for any number
  of commands and any backlog.
* `PixelProofs`, of the transforms: `TransformIsExact` for pictures of every
  even size, and `CheckedOffsetIsExact`: for every width of `size_t` the divisions
  of `CheckedOffset` reject the rows that are not in their buffer and no others.
* `PixelProofs`, of the converter: `ConversionIsExact` for every image in `ValidImages` (a crop that
  begins at no negative position, strides and sizes a `size_t` holds). Rows are
  carried to samples (`RowIsReadable`), the part cut out to half its size for chroma
  (`ChromaIsThere`), and bytes of the output to the samples they come from
  (`LumaByte`, `ChromaByte`, where the direct copy is one of two cases).
* `PixelProofs`, of JPEG frames: `SizesAreTrue` for every frame in `ValidFrames` (any
  number of segments, cut off anywhere, with lengths that are right, below two or
  beyond the end). One round of the walk at the end of a segment reads the next marker
  (`RoundReads`) and ends there or leads to the end of the next segment; the induction over the segments
  goes from the last one to the first, as the walk from an offset rests on that from
  later ones.
* `PixelProofs`, of decoded pictures: `PicturesKeepColours` for all sizes, odd ones of
  the source included. Eight bits there and back lose at most 3 of 255 (`RedBack`,
  `GreenBack`, `BlueBack`: linear bounds on what the divisions by 256 drop), a sample of
  equal pixels is that pixel whatever its weights (`MixOfSame`), a pixel of a 2 by 2 block
  of one colour is sampled from one block (`BlockIsSampledAlike`), and each byte
  of NV21 is found where the writer looks for it (`Nv21Is`). A picture that is scaled or
  has other blocks is mixed, and its colours are not claimed to survive.
* `RequestsProofs`: `TypeOK`, `NothingButAsked`, `AppIsObeyed` and `AcceptedIsPlayed` for
  all uids, settings, scripts and errors, with URLs and texts of any length. Most of it
  is about texts. A request of the app is laid out in the same way for every URL the app
  lets through (`RequestLaid`); its lines are where they are expected, because such a URL
  has no line feed (`LinesAre`, `EndIs`), so that it is parsed to what the user meant
  (`LaidParsed`) and is below the limit in bytes (`RequestFits`). A request that is cut
  off parses to nothing, unless all but its last line feed was read (`WholeOrNothing`),
  for only the last line is a dot. A text of a script may be cut anywhere: if what was
  read says STOP or STATUS, or has its closing line, so does the whole
  (`DecidedStays`), with the same options (`OptionsStay`), unless that line went on
  (`ReadIsWhole`). In an escaped error every quotation mark follows a
  backslash, so the row of tokens the app looks for is only in a refusal
  (`RefusalIsTaken`, `StatusIsNotTaken`). Of the words of a command line the places of
  the values are found from the first to the last (`PlacesAre`), which gives the options
  of both programs (`DaemonIs`, `ProxyIs`) and the roles of FFmpeg's arguments for every
  URL (`LinePlays`).

  The pixel proofs are no inductions over steps: what is invariant is that only
  `Transforms` are made, only `Images` packed, only `Frames` measured and only `Pictures`
  recoloured; the rest is arithmetic, split into lemmas that carry one
  product each.

`FrameAccounting` counts a frame as shown at its first successful `V4l2Sink::Write`. A
picture the sink refused until another frame replaced it is counted by none of the
code's counters: the ghost `lost` counts it, and the property says that it can only
happen while the status says the sink is not open. `NothingButAsked` is exact for the
app: in full or not at all. The texts of root and system may be anything, and there are
two cuts after which the daemon cannot tell that more was to come: a text over the
limit, of which the beginning was well formed, and a line `STOP`, `STATUS` or `.` that
would have gone on (`CutAfterWord`); of all other texts it does what the whole says.

The properties are not inductive: they speak of the places where something can
go wrong, not of how the threads got there. `EngineInv` adds what each place of
the control thread knows of the workers (`Handover`), where the books of a frame
under way are kept (`Counted`), that the engine is stopped where a start can
still fail (`GateHeld`), the chain device ≤ writer's output ≤ consumed ≤
generation (`Ordered`), what a reply under way will say (`Told`) and when the
writer holds a picture (`Pictured`). `SupervisorInv` says, for each command of
the script, whether an attempt is left (`Bounded`), whether the OEM provider is
stopped and flagged (`Flagged`) and what cleanup has done so far (`Cleaning`);
until a signal arrives also which processes can run (`Accounted`) and what the provider
about to register finds (`Primed`). `SourceInv` says, for each place of `Stream`,
who owns the child and which descriptors are open. `ProxyInv` follows a connection
from the backlog over the relay to the daemon and back: while the daemon reads, what
is unread of a request is exactly what the streams and the relay hold, and the relay
does not let go while a reply is awaited; a step touches one connection, and lemma
`Untouched` carries the rest. `PlaybackInv` says which connections can still bear a
frame: they lie behind those of earlier playbacks, because the listener of a stopped
playback that connects late has decided nothing yet. `CommandInv` counts: playbacks
started, starts under way to the service and starts still owed by a command are no more
than the commands given. `LastInv` follows a command that runs alone: its request is the
last in the daemon's queue, so what was given up earlier is carried out before it
(`Alone`), and the last message to the service decides what is left in the end (`Gone`,
`Playing`). For `StartFindsTakeover`
`RuntimeInv` adds that a proxy anyone can reach was started after a provider that had
been seen serving (`ProxyLast`, `Requested`), and that the OEM provider stays down
until cleanup restores it (`Taken`). `ParserInv`
says that what the buffer holds is what the reader of the whole stream still has open
(`BufferIsTail`); that a chunk keeps this (`ChunkCut`) is an induction over the rounds of
the loop, from the last one to the first (`ScanCuts`), and over the bytes of the stream
(`JunkRun`, `FrameRun`). `RequestInv` says what the launched programs were told
(`Launched`), that the request is what the user settled on or one of the app's two words
(`Asking`), that what was read is the beginning of it and comes of an admitted client
(`Reading`), and that the answer is that of the command (`Answered`). The prover has no induction rule for operators, so each is
made from the least number that is a counterexample (`LeastNat`). In each module an invariant
part has a lemma with one step per action, and the theorem combines them.

Every invariant the runs check is proved. Only model-checked: all liveness properties,
for fairness and ENABLED are beyond the prover.

## 6. What is left out

* Time is order, or ticks: the 5 s gate, the 8 s client timeout and their sums
  are not compared. Every timed wait may end at any moment.
  All waits of the engine are timed, so `Stop`, which notifies without the lock,
  can be noticed late but not missed.
* `GateDecided` (Takeover) assumes of time that the `sleep 6` of `start_daemon` ends after
  the daemon's five-second gate, which has one second to begin in. A daemon that is
  slower to come up would be taken for started before its gate is decided.
* Wording: error messages, logs and status labels beyond what a reader tells
  apart; of the JSON of an answer, what the app's test for a refusal can see. To `Engine` a frame is decodable or it is not.
* In the pixel modules: JPEG decoding and encoding, and the rounding of interpolated
  samples (`TransformIsExact` is about where a sample comes from, `PicturesKeepColours`
  about pictures that need no mixing). Coordinates are exact fractions where the code has
  floats; at a tie of `lround` either neighbour is allowed, but a float error that
  carries a coordinate over a tie is not modelled.
* In `LocalMedia`, a process killed by the system and its redelivered start
  (`START_REDELIVER_INTENT`), and a restart of vcamesd between two commands.
* A crash of vcamesd inside `SocketProxy` (the script model has it), memory
  exhaustion, and the kernel driver behind the V4L2 device.
* In `Requests`, an app that is installed anew under another uid after the launch
  (`Reinstall` comes before it), and the case of letters in the URL FFmpeg is handed:
  `SchemeOf` lower-cases as the code does, FFmpeg is given the text as it was typed.
  `AcceptedIsPlayed` catches a protocol that is missing from FFmpeg's list, not one too
  many.
* In `Requests`, bytes within a token: a token stands for every text the checks treat
  alike. One connection is served at a time, as the control thread does; the relay in
  between is `SocketProxy`.
* The JPEG codec (a library), `TransformJpeg` and `CreateSolidJpeg`, which nothing in the
  repository calls, and the ioctls of `V4l2Sink::Open`, which are one step that fails
  or not.
* The pre-flight checks of the script one by one, and the join of the proxy's two
  threads at its exit.
* Installation and probe scripts, device-pack and profile tools, the AOSP patch tool:
  straight-line programs that run by hand or on a build machine, with no state the
  others share but the files they leave.

## 7. Plan

Done, in this order: FramePipe, Engine, EngineProofs, Takeover,
MjpegParser, FfmpegSource, FfmpegProofs, SocketProxy, LocalMedia, Nv21Converter,
ImageTransform, Pixels, PixelProofs, Runtime, RuntimeProofs, StreamSource, Command,
Requests, JpegPictures, Launch, SocketProxyProofs, LocalMediaProofs, MjpegProofs, in
PixelProofs the converter, the sizes of frames and the colours of pictures, and
RequestsProofs.

What could follow, most useful first:

1. An abstract supervisor (taken over, serving, given back) that `Takeover` refines.
2. The gates of the profile and device-pack tools as predicates, and the staging of
   the AOSP patch tool (all files or none).
