------------------------------- MODULE Requests -------------------------------
(***************************************************************************)
(* vcamesd and the proxy are launched, then one control connection after   *)
(* another: who may ask (socket_proxy.cpp, main.cpp), how the request is   *)
(* read in pieces until the client has sent all or falls silent for two    *)
(* seconds, and what comes of the piece read.                              *)
(***************************************************************************)
EXTENDS Command, Launch

CONSTANTS
  InstalledAs, \* uids the app may be installed with
  Strangers,   \* uids of other apps
  Settings,    \* the user's choices: url as typed, rotation, mirror
  Scripts,     \* texts that root or system may send
  Errors       \* texts of the engine's and FFmpeg's errors

ASSUME UidsAssumption ==
  /\ InstalledAs \subseteq Uids /\ Strangers \cap InstalledAs = {}
  /\ {0, SystemUid} \cap (Strangers \cup InstalledAs) = {}

(* Pieces the read loop makes do not occur in a URL.                       *)
ASSUME SettingsAssumption ==
  Settings \subseteq [url : Seq(STRING \ {"torn", "flood"}), rotation : Int, mirror : BOOLEAN]

ASSUME ScriptsAssumption == Scripts \subseteq Seq(STRING)

(* Only main.cpp's refusal says "permission denied".                       *)
ASSUME ErrorsAssumption == Errors \subseteq Seq(STRING) \ {<<"permission denied">>}

VARIABLES
  appUid,  \* the app's uid
  daemon,  \* options of vcamesd
  proxy,   \* options of the proxy
  pc,      \* "down", "idle", "reading", "read" or "answered"
  client,  \* who asks: uid, and whether on the public socket
  wish,    \* the app's settings, or none
  request, \* the text the client sends
  flood,   \* the client never stops sending
  got,     \* how much was read: whole tokens, a piece of the next, reads of flood
  command, \* what the daemon carries out
  reply    \* its answer, empty if there is none

programs == <<appUid, daemon, proxy>>
vars == <<programs, pc, client, wish, request, flood, got, command, reply>>

NoWish == [url |-> <<>>, rotation |-> 0, mirror |-> FALSE]
NoOptions == <<>>
NothingRead == [tokens |-> 0, torn |-> FALSE, more |-> 0]

Init ==
  /\ pc = "down" /\ appUid \in InstalledAs /\ daemon = NoOptions /\ proxy = NoOptions
  /\ client = [uid |-> 0, public |-> FALSE] /\ wish = NoWish
  /\ request = <<>> /\ flood = FALSE /\ got = NothingRead /\ command = Invalid /\ reply = <<>>

-------------------------------------------------------------------------------
(* The script launches both once it knows the app's uid. *)
LaunchBoth ==
  /\ pc = "down" /\ appUid \in AppUids
  /\ ParseArguments(DaemonCommand) /\ ParseOptions(ProxyCommand(appUid))
  /\ daemon' = DaemonOptions(DaemonCommand) /\ proxy' = ProxyOptions(ProxyCommand(appUid))
  /\ Listen(daemon', proxy')
  /\ pc' = "idle"
  /\ UNCHANGED <<appUid, client, wish, request, flood, got, command, reply>>

(* Nothing is launched for another uid before the next boot. *)
Reinstall ==
  /\ pc = "down" /\ appUid' \in InstalledAs
  /\ UNCHANGED <<daemon, proxy, pc, client, wish, request, flood, got, command, reply>>

-------------------------------------------------------------------------------
(* Who may ask *)

AllowedPeer(uid) == uid \in {proxy.uid, 0, SystemUid}
IsAllowedPeer(uid) == uid \in {0, SystemUid} \cup daemon.allowed

(* The proxy has dropped to system before it serves, if it was told to. *)
SeenBy(who) == IF ~who.public THEN who.uid ELSE IF proxy.drop THEN SystemUid ELSE 0

Denial == Refusal(<<"permission denied">>)
Answer(text) == pc' = "answered" /\ reply' = text

Connect(who, text) ==
  /\ pc = "idle"
  /\ client' = who /\ request' = text /\ got' = NothingRead /\ command' = Invalid
  /\ UNCHANGED programs
  /\ IF who.public /\ ~(AllowedPeer(who.uid) /\ ControlIsReached(daemon, proxy))
     THEN Answer(<<>>)
     ELSE IF ~IsAllowedPeer(SeenBy(who)) THEN Answer(Denial)
     ELSE pc' = "reading" /\ reply' = <<>>

AppClient == [uid |-> appUid, public |-> TRUE]

AppStarts(settings) ==
  LET config == Normalized(settings)
  IN /\ Validates(config.url)
     /\ Connect(AppClient, ToStartCommand(config))
     /\ wish' = settings /\ flood' = FALSE

AppAsks(word) ==
  Connect(AppClient, <<word, NL, ".", NL>>) /\ wish' = NoWish /\ flood' = FALSE

OtherConnects(who, text) ==
  Connect(who, text) /\ wish' = NoWish /\ flood' \in BOOLEAN

-------------------------------------------------------------------------------
(* The read loop *)

Text(piece) ==
  SubSeq(request, 1, piece.tokens) \o (IF piece.torn THEN <<"torn">> ELSE <<>>)
  \o [i \in 1..piece.more |-> "flood"]

(* Seeded fault: the limit is left to ParseCommand. *)
TooLargeNever(text) == FALSE

TooLarge(text) == Bytes(text) > kMaxCommandBytes

(* What is read must stay below the limit. *)
Read(piece) ==
  /\ pc = "reading"
  /\ got' = piece
  /\ IF TooLarge(Text(piece)) THEN Answer(Refusal(<<"command too large">>))
     ELSE UNCHANGED <<pc, reply>>
  /\ UNCHANGED <<programs, client, wish, request, flood, command>>

Characters == ControlTokens \cup {"=", ".", "/", "?", "#", " ", "\"", "\\", "0", "1"}

(* The next piece: a token, or part of a token of several bytes.  A read   *)
(* that brings more is several of these.                                   *)
ReadRequest ==
  /\ got.tokens < Len(request)
  /\ \/ Read([got EXCEPT !.tokens = @ + 1, !.torn = FALSE])
     \/ /\ ~got.torn /\ request[got.tokens + 1] \notin Characters
        /\ Read([got EXCEPT !.torn = TRUE])

(* Beyond the limit it makes no difference how much more is read. *)
MostReads == kMaxCommandBytes \div Flood + 1

ReadFlood ==
  /\ flood /\ got.tokens = Len(request)
  /\ Read([got EXCEPT !.more = Min({@ + 1, MostReads})])

(* End of file, or two seconds of silence after any piece; a flood has     *)
(* neither.                                                                *)
EndRead ==
  /\ pc = "reading" /\ ~flood /\ pc' = "read"
  /\ UNCHANGED <<programs, client, wish, request, flood, got, command, reply>>

(* The engine carries a command out, or fails and says why. *)
CarryOut ==
  /\ pc = "read"
  /\ command' = ParseCommand(Text(got))
  /\ \E error \in Errors :
       \/ command'.type \in {"kInvalid", "kStart", "kStop"} /\ Answer(Refusal(error))
       \/ command'.type # "kInvalid" /\ Answer(StatusJson(error))
  /\ UNCHANGED <<programs, client, wish, request, flood, got>>

Close ==
  /\ pc = "answered"
  /\ UNCHANGED programs
  /\ pc' = "idle" /\ client' = [uid |-> 0, public |-> FALSE] /\ wish' = NoWish
  /\ request' = <<>> /\ flood' = FALSE /\ got' = NothingRead /\ command' = Invalid /\ reply' = <<>>

Next ==
  \/ LaunchBoth \/ Reinstall
  \/ \E settings \in Settings : AppStarts(settings)
  \/ \E word \in {"STOP", "STATUS"} : AppAsks(word)
  \/ \E who \in [uid : {0, SystemUid} \cup Strangers, public : BOOLEAN] :
       \E text \in Scripts : OtherConnects(who, text)
  \/ ReadRequest \/ ReadFlood \/ EndRead \/ CarryOut \/ Close

Spec == Init /\ [][Next]_vars

(* read returns in the end, for it is limited to two seconds. *)
FairSpec == Spec /\ WF_vars(ReadRequest \/ ReadFlood \/ EndRead)

-------------------------------------------------------------------------------
TypeOK ==
  /\ appUid \in InstalledAs
  /\ pc \in {"down", "idle", "reading", "read", "answered"} /\ flood \in BOOLEAN
  /\ wish \in Settings \cup {NoWish}
  /\ got.tokens \in 0..Len(request) /\ got.torn \in BOOLEAN /\ got.more \in 0..MostReads
  /\ pc \in {"reading", "read"} => Bytes(Text(got)) <= kMaxCommandBytes
  /\ command.type \in {"kInvalid", "kStart", "kStop", "kStatus"}

Meant(settings) ==
  [DefaultConfig EXCEPT !.url = Trim(settings.url), !.mirror = settings.mirror,
     !.rotation = IF settings.rotation \in {90, 180, 270} THEN settings.rotation ELSE 0]

(* The read ended in a line of the request, right after one of the three   *)
(* texts that decide what a request is.                                    *)
CutAfterWord ==
  /\ got.tokens < Len(request)
  /\ \E s \in LineStarts(Text(got)) :
       /\ LineAt(Text(got), s) \in {<<"STOP">>, <<"STATUS">>, <<".">>}
       /\ NL \notin {request[i] : i \in s..(got.tokens + 1)}

(* However a request is cut by a timeout, the daemon does what the app     *)
(* asked for in full, or nothing: never a start with some of the options   *)
(* (main.cpp:262-293, config.cpp:109-240).  Of root and system it does     *)
(* what their whole text says, but for two cuts it cannot tell: a text     *)
(* that would have been too large, and a line STOP, STATUS or "." that     *)
(* would have gone on.                                                     *)
NothingButAsked ==
  command.type # "kInvalid" =>
    /\ client = AppClient \/ client.uid \in {0, SystemUid}
    /\ wish # NoWish => command = [type |-> "kStart", config |-> Meant(wish)]
    /\ client = AppClient /\ wish = NoWish => command = ParseCommand(request)
    /\ command = ParseCommand(request) \/ TooLarge(request) \/ CutAfterWord

(* Once both are launched the app is admitted and its frames have a way.   *)
(* What the app lets the user start is understood whole, refused only for  *)
(* a URL that is longer in bytes than in characters or has an overlong     *)
(* authority, and the app takes the answer for what it is, whatever text   *)
(* the error in it quotes (service.sh:285-305, main.cpp:115-180,           *)
(* socket_proxy.cpp:57-87, VCamConfig.java:78-107, DaemonClient.java:      *)
(* 49-52, config.cpp:52-251).                                              *)
AppIsObeyed ==
  /\ pc # "down" => FramesAreReached(daemon, proxy)
  /\ pc = "answered" /\ client = AppClient => reply \notin {<<>>, Denial}
  /\ pc = "answered" /\ wish # NoWish /\ got.tokens = Len(request) =>
    /\ \/ command.type = "kStart"
       \/ Bytes(Trim(wish.url)) > 4 * KiB
       \/ Bytes(Authority(Trim(wish.url))) > KiB
    /\ \E error \in Errors :
         \/ reply = Refusal(error) /\ TakenAsRefusal(reply)
         \/ reply = StatusJson(error) /\ ~TakenAsRefusal(reply)

(* A start that is carried out makes FFmpeg read that URL by an allowed    *)
(* protocol and write to the pipe, and nothing else (stream_source.cpp:    *)
(* 13-133).                                                                *)
AcceptedIsPlayed ==
  command.type = "kStart" =>
    \/ command.config.url \in LocalUrls
    \/ PlaysOnly(command.config.url,
                 BuildFfmpegArguments(daemon.ffmpeg, command.config.url, command.config.fps))

(* No client holds the one control thread for ever, also not one that      *)
(* never stops sending (main.cpp:268-287).                                 *)
ReadLoopEnds == pc = "reading" ~> pc # "reading"
=============================================================================
