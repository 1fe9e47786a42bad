-------------------------------- MODULE Launch --------------------------------
(***************************************************************************)
(* How service.sh starts vcamesd and the proxy, what the two make of their *)
(* command lines (main.cpp, socket_proxy.cpp), and which of the app's      *)
(* connections lead where.  A command line is a sequence of words.         *)
(***************************************************************************)
EXTENDS Integers, SequencesExt

CONSTANTS
  Uids,       \* uids that are written on command lines
  UidText(_)  \* a uid as a word

ASSUME UidTextAssumption ==
  Uids \subseteq Nat /\ \A a, b \in Uids : UidText(a) = UidText(b) => a = b

AppUids == 10000..2000000
SystemUid == 1000

(* std::from_chars of the words that stand for a uid *)
IsAppUid(word) == \E uid \in Uids \cap AppUids : word = UidText(uid)
UidOf(word) == CHOOSE uid \in Uids : word = UidText(uid)

SafeSocketName(word) == word \notin {"", "not/safe", "too-long"}
SafePath(word) == word \notin {"", "relative", "/not safe", "/too-long"}

DaemonNames == {"--control-socket", "--frame-socket"}
ProxyNames == {"--public-control", "--private-control", "--public-frames", "--private-frames"}

(* A flag stands alone, every other word takes the next one as its value.  *)
(* Where the values are:                                                   *)
ValuePlaces(words, flags) ==
  LET value[i \in 1..Len(words)] ==
        i > 1 /\ ~value[i - 1] /\ words[i - 1] \notin flags
  IN {i \in 1..Len(words) : value[i]}

Flagged(words, flags, flag) ==
  \E i \in 1..Len(words) : i \notin ValuePlaces(words, flags) /\ words[i] = flag

(* Every other word is known, and its value is there and passes.           *)
Passes(words, flags, names) ==
  \A i \in 1..Len(words) :
    \/ i \in ValuePlaces(words, flags)
    \/ words[i] \in flags
    \/ /\ i < Len(words)
       /\ \/ words[i] \in names /\ SafeSocketName(words[i + 1])
          \/ words[i] = "--allowed-uid" /\ IsAppUid(words[i + 1])
          \/ words[i] = "--ffmpeg-path" /\ names = DaemonNames /\ SafePath(words[i + 1])

(* The last value given, or else the default.                              *)
Given(words, flags, name, default) ==
  LET places == {i \in ValuePlaces(words, flags) : words[i - 1] = name}
  IN IF places = {} THEN default ELSE words[Max(places)]

-------------------------------------------------------------------------------
(* vcamesd *)

DaemonFlags == {"--drop-to-system", "--prime-global-camera"}

ParseArguments(words) == Passes(words, DaemonFlags, DaemonNames)

DaemonOptions(words) ==
  LET given(name, default) == Given(words, DaemonFlags, name, default)
      uid == given("--allowed-uid", "none")
  IN [control |-> given("--control-socket", "vcamesd"),
      frames |-> given("--frame-socket", "vcamesd_frames"),
      ffmpeg |-> given("--ffmpeg-path", "/data/adb/modules/vcames_root_bridge/bin/ffmpeg"),
      allowed |-> IF uid = "none" THEN {} ELSE {UidOf(uid)},
      prime |-> Flagged(words, DaemonFlags, "--prime-global-camera")]

(* start_daemon *)
DaemonCommand ==
  <<"--control-socket", "vcamesd_private", "--frame-socket", "vcamesd_frames_private",
    "--ffmpeg-path", "/module/bin/ffmpeg", "--prime-global-camera">>

-------------------------------------------------------------------------------
(* The proxy *)

ProxyFlags == {"--drop-to-system"}

ProxyOptions(words) ==
  LET given(name, default) == Given(words, ProxyFlags, name, default)
  IN [uid |-> UidOf(given("--allowed-uid", "none")),
      publicControl |-> given("--public-control", "vcamesd"),
      control |-> given("--private-control", "vcamesd_private"),
      publicFrames |-> given("--public-frames", "vcamesd_frames"),
      frames |-> given("--private-frames", "vcamesd_frames_private"),
      drop |-> Flagged(words, ProxyFlags, "--drop-to-system")]

ParseOptions(words) ==
  LET options == ProxyOptions(words)
  IN /\ Passes(words, ProxyFlags, ProxyNames)
     /\ Given(words, ProxyFlags, "--allowed-uid", "none") # "none"
     /\ options.publicControl # options.control /\ options.publicFrames # options.frames

(* start_proxy *)
ProxyCommand(uid) ==
  <<"--allowed-uid", UidText(uid), "--drop-to-system",
    "--public-control", "vcamesd", "--private-control", "vcamesd_private",
    "--public-frames", "vcamesd_frames", "--private-frames", "vcamesd_frames_private">>

-------------------------------------------------------------------------------
(* bind fails for a name that is taken. *)
Listen(daemon, proxy) ==
  Cardinality({daemon.control, daemon.frames, proxy.publicControl, proxy.publicFrames}) = 4

(* The names DaemonClient and FramePushClient connect to *)
ControlSocket == "vcamesd"
FrameSocket == "vcamesd_frames"

ControlIsReached(daemon, proxy) ==
  ControlSocket = proxy.publicControl /\ proxy.control = daemon.control
FramesAreReached(daemon, proxy) ==
  FrameSocket = proxy.publicFrames /\ proxy.frames = daemon.frames
=============================================================================
