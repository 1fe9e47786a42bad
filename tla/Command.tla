------------------------------- MODULE Command --------------------------------
(***************************************************************************)
(* The text of a control request: what the app writes for the user's       *)
(* choices (VCamConfig.java), what vcamesd makes of a text (config.cpp)    *)
(* and how it words its answer.                                            *)
(***************************************************************************)
EXTENDS StreamSource

NL == "\n"
Rotations == {0, 90, 180, 270}

(* The numbers in the texts, in decimal. *)
IntTexts ==
  {<<-90, "-90">>, <<0, "0">>, <<1, "1">>, <<30, "30">>, <<45, "45">>, <<90, "90">>,
   <<180, "180">>, <<270, "270">>, <<720, "720">>, <<1280, "1280">>, <<1920, "1920">>}
Decimal(n) == (CHOOSE pair \in IntTexts : pair[1] = n)[2]

-------------------------------------------------------------------------------
(* The app *)

Blank == {"\n", "\r", "\t", " "}

(* String.trim *)
Trim(text) ==
  LET kept == {i \in DOMAIN text : text[i] \notin Blank}
  IN IF kept = {} THEN <<>> ELSE SubSeq(text, Min(kept), Max(kept))

(* VCamConfig's constructor: settings hold the url as typed, the rotation  *)
(* as stored, and mirror.                                                  *)
Normalized(settings) ==
  [settings EXCEPT !.url = Trim(@), !.rotation = IF @ \in Rotations THEN @ ELSE 0]

(* java.net.URI takes no blank, control, quote or backslash, and any other *)
(* character beyond ASCII.                                                 *)
IsJavaUri(text) == ToSet(text) \cap (ControlTokens \cup {" ", "\"", "\\"}) = {}

(* The app's own list of schemes. *)
NetworkSchemes ==
  {"http", "https", "rtmp", "rtmps", "rtmpe", "rtmpt", "rtmpte", "rtmpts", "rtsp",
   "rtsps", "srt", "rist", "rtp", "srtp", "udp", "tcp", "mmsh", "mmst"}

Validates(url) ==
  \/ url = <<"push", "://", "local">>
  \/ /\ Chars(url) \in 1 .. 4 * KiB /\ IsJavaUri(url)
     /\ SchemeOf(url) \in NetworkSchemes /\ Authority(url) # <<>>

ToStartCommand(config) ==
  <<"START", NL, "url", "=">> \o config.url
  \o <<NL, "video_device", "=", "/dev/video", "100",
       NL, "width", "=", Decimal(1280), NL, "height", "=", Decimal(720),
       NL, "fps", "=", Decimal(30), NL, "rotation", "=", Decimal(config.rotation),
       NL, "mirror", "=", Decimal(IF config.mirror THEN 1 ELSE 0), NL, ".", NL>>

-------------------------------------------------------------------------------
(* The lines of a text as std::getline yields them, by where they start.   *)

LineStarts(text) == {s \in DOMAIN text : s > 1 => text[s - 1] = NL}

LineAt(text, s) ==
  LET rest == SubSeq(text, s, Len(text))
      line == SubSeq(rest, 1, Before(rest, {NL}))
  IN IF line # <<>> /\ Last(line) = "\r" THEN Front(line) ELSE line

Ends(text) == {s \in LineStarts(text) \ {1} : LineAt(text, s) = <<".">>}

(* Seeded fault: the end of the text ends the options, too. *)
TerminatedAnyway(text) == TRUE

Terminated(text) == Ends(text) # {}

OptionLines(text) ==
  LET ends == Ends(text)
  IN {s \in LineStarts(text) \ {1} : \A end \in ends : s < end}

Key(line) == SubSeq(line, 1, Before(line, {"="}))
ValueOf(line) == SubSeq(line, Before(line, {"="}) + 2, Len(line))

WellFormed(text) ==
  LET lines == OptionLines(text)
  IN /\ \A s \in lines : Before(LineAt(text, s), {"="}) \in 1 .. Len(LineAt(text, s)) - 1
     /\ \A s, t \in lines : Key(LineAt(text, s)) = Key(LineAt(text, t)) => s = t

(* A key of several words is none of the known options. *)
WordKeys(text) == \A s \in OptionLines(text) : Len(Key(LineAt(text, s))) = 1

(* unordered_map values, the keys being single words. *)
Values(text) ==
  LET lines == {LineAt(text, s) : s \in OptionLines(text)}
  IN [key \in {Key(line)[1] : line \in lines} |->
        ValueOf(CHOOSE line \in lines : Key(line)[1] = key)]

-------------------------------------------------------------------------------
(* Options and configuration *)

IntOptions == {"width", "height", "fps", "rotation"}
BoolTexts == [true |-> {<<"1">>, <<"true">>}, false |-> {<<"0">>, <<"false">>}]

(* What std::from_chars reads. *)
IsInt(text) == \E pair \in IntTexts : text = <<pair[2]>>
IntOf(text) == (CHOOSE pair \in IntTexts : text = <<pair[2]>>)[1]

Understood(values) ==
  /\ DOMAIN values \subseteq IntOptions \cup {"url", "video_device", "mirror"}
  /\ \A key \in IntOptions \cap DOMAIN values : IsInt(values[key])
  /\ "mirror" \in DOMAIN values => values["mirror"] \in BoolTexts.true \cup BoolTexts.false

DefaultConfig ==
  [url |-> <<"http", "://", "192.168.1.10:8888", "/", "live.mjpg">>,
   video_device |-> <<"/dev/video", "100">>,
   width |-> 1280, height |-> 720, fps |-> 30, rotation |-> 0, mirror |-> FALSE]

Configured(values) ==
  [option \in DOMAIN DefaultConfig |->
     IF option \notin DOMAIN values THEN DefaultConfig[option]
     ELSE CASE option \in IntOptions -> IntOf(values[option])
            [] option = "mirror" -> values[option] \in BoolTexts.true
            [] OTHER -> values[option]]

LocalUrls == {<<"push", "://", "local">>, <<"push", "://", "placeholder">>}

(* Config::Validate; the default FFmpeg path is valid and no option sets it. *)
Validate(config) ==
  /\ config.url \in LocalUrls \/ ParseStreamSourceUrl(config.url)
  /\ config.video_device # <<>> /\ config.video_device[1] = "/dev/video"
  /\ Bytes(config.video_device) <= 64 /\ ~HasControlCharacter(config.video_device)
  /\ config.width = 1280 /\ config.height = 720 /\ config.fps = 30
  /\ config.rotation \in Rotations

kMaxCommandBytes == 16 * KiB
Invalid == [type |-> "kInvalid"]

ParseStart(text) ==
  LET values == Values(text)
  IN IF WellFormed(text) /\ Terminated(text) /\ WordKeys(text) /\ Understood(values)
        /\ Validate(Configured(values))
     THEN [type |-> "kStart", config |-> Configured(values)]
     ELSE Invalid

ParseCommand(text) ==
  IF text = <<>> \/ Bytes(text) > kMaxCommandBytes THEN Invalid
  ELSE CASE LineAt(text, 1) = <<"STOP">> -> [type |-> "kStop"]
         [] LineAt(text, 1) = <<"STATUS">> -> [type |-> "kStatus"]
         [] LineAt(text, 1) = <<"START">> -> ParseStart(text)
         [] OTHER -> Invalid

-------------------------------------------------------------------------------
(* Answers *)

(* Seeded fault: only control characters are escaped. *)
JsonEscapeControls(text) ==
  FlattenSeq([i \in DOMAIN text |->
    IF text[i] \in ControlTokens \ {"DEL"} THEN <<"\\", "letter">> ELSE <<text[i]>>])

JsonEscape(text) ==
  FlattenSeq([i \in DOMAIN text |->
    CASE text[i] \in {"\"", "\\"} -> <<"\\", text[i]>>
      [] text[i] \in ControlTokens \ {"DEL"} -> <<"\\", "letter">>
      [] OTHER -> <<text[i]>>])

OkFalse == <<"\"", "ok", "\"", ":false">>
Refusal(error) == <<"{">> \o OkFalse \o <<",error:", "\"">> \o JsonEscape(error) \o <<"\"", "}">>
StatusJson(error) == <<"{running,...,error:", "\"">> \o JsonEscape(error) \o <<"\"", "}">>

(* What DaemonClient.request makes of the answer: result.contains(...). *)
TakenAsRefusal(reply) ==
  \E i \in 1 .. Len(reply) - Len(OkFalse) + 1 :
    SubSeq(reply, i, i + Len(OkFalse) - 1) = OkFalse
=============================================================================
