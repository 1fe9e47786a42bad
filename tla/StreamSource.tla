----------------------------- MODULE StreamSource -----------------------------
(***************************************************************************)
(* stream_source.cpp: which URLs vcamesd reads, and the FFmpeg command     *)
(* line that reads them.  A text is a sequence of tokens: a token stands   *)
(* for a piece of text no check looks into.                                *)
(***************************************************************************)
EXTENDS Integers, FiniteSets, SequencesExt

KiB == 1024

(* A token counts eight bytes, but for ASCII text longer than an authority *)
(* may be, text of three UTF-8 bytes to a Java char, and whole reads.      *)
Short == 8
Long == 1100
Wide == 1300
Flood == 2048

Count(text, token) == Cardinality({i \in DOMAIN text : text[i] = token})

Chars(text) ==
  Short * Len(text) + Long * Count(text, "long") + Wide * Count(text, "wide")
Bytes(text) ==
  Chars(text) + 2 * Wide * Count(text, "wide") + Flood * Count(text, "flood")

ControlTokens == {"\n", "\r", "\t", "DEL"}

HasControlCharacter(text) == ToSet(text) \cap ControlTokens # {}

(* The number of tokens before the first of a set of them. *)
Before(text, tokens) ==
  Min({i \in DOMAIN text : text[i] \in tokens} \cup {Len(text) + 1}) - 1

kSchemes ==
  {"http", "https", "rtmp", "rtmps", "rtmpe", "rtmpt", "rtmpte", "rtmpts", "rtsp",
   "rtsps", "srt", "rist", "rtp", "srtp", "udp", "tcp", "mmsh", "mmst"}

(* tolower of a scheme, and of nothing else. *)
Lower(token) == IF token = "HTTP" THEN "http" ELSE token

(* "://" is one token. *)
SchemeEnd(url) == Before(url, {"://"})
SchemeOf(url) ==
  IF SchemeEnd(url) = 1 THEN Lower(url[1]) ELSE "none"
Authority(url) ==
  LET rest == SubSeq(url, SchemeEnd(url) + 2, Len(url))
  IN SubSeq(rest, 1, Before(rest, {"/", "?", "#"}))

ParseStreamSourceUrl(url) ==
  /\ url # <<>> /\ Bytes(url) <= 4 * KiB /\ ~HasControlCharacter(url)
  /\ SchemeEnd(url) + 1 < Len(url)
  /\ SchemeOf(url) \in kSchemes
  /\ Bytes(Authority(url)) \in 1..KiB

-------------------------------------------------------------------------------
(* The command line; an argument is a text. *)

(* Seeded fault: a scheme was added to kSchemes only. *)
WhitelistWithoutMmst ==
  (kSchemes \ {"mmst"}) \cup {"httpproxy", "tls", "crypto", "ffrtmpcrypt", "ffrtmphttp"}

FfmpegProtocolWhitelist ==
  {"http", "https", "httpproxy", "tcp", "tls", "crypto", "ffrtmpcrypt", "ffrtmphttp",
   "rtmp", "rtmps", "rtmpe", "rtmpt", "rtmpte", "rtmpts", "rtsp", "rtsps", "rtp",
   "srtp", "udp", "srt", "rist", "mmsh", "mmst"}

Words(words) == [i \in DOMAIN words |-> <<words[i]>>]

HttpOptions ==
  <<"-user_agent", "VCamES/3.2", "-reconnect", "1", "-reconnect_at_eof", "1",
    "-reconnect_streamed", "1", "-reconnect_on_network_error", "1",
    "-reconnect_on_http_error", "4xx,5xx", "-reconnect_delay_max", "10">>

BuildFfmpegArguments(path, url, fps) ==
  Words(<<path, "-hide_banner", "-nostdin", "-loglevel", "error",
          "-protocol_whitelist", "whitelist", "-rw_timeout", "15000000",
          "-fflags", "nobuffer", "-flags", "low_delay", "-probesize", "1048576",
          "-analyzeduration", "2000000">>)
  \o Words(IF SchemeOf(url) \in {"http", "https"} THEN HttpOptions ELSE <<>>)
  \o Words(IF SchemeOf(url) \in {"rtsp", "rtsps"} THEN <<"-rtsp_transport", "tcp">> ELSE <<>>)
  \o Words(<<"-thread_queue_size", "8", "-i">>) \o <<url>>
  \o Words(<<"-map", "0:v:0", "-an", "-sn", "-dn", "-vf">>)
  \o <<<<"fps=", ToString(fps), ",scale=1280:720">>>>
  \o Words(<<"-threads", "2", "-c:v", "mjpeg", "-q:v", "3", "-f", "image2pipe", "pipe:1">>)

(* How FFmpeg reads its command line: an option takes the next argument    *)
(* unless it is a flag, and what belongs to no option is an output.        *)
Flags == {"-hide_banner", "-nostdin", "-an", "-sn", "-dn"}
InputOptions ==
  {"-protocol_whitelist", "-rw_timeout", "-fflags", "-flags", "-probesize",
   "-analyzeduration", "-rtsp_transport", "-thread_queue_size"} \cup ToSet(HttpOptions)
OtherOptions == {"-loglevel", "-i", "-map", "-vf", "-threads", "-c:v", "-q:v", "-f"}

Role(before, argument) ==
  CASE before = "option" -> "value"
    [] before # "option" /\ argument[1] \in Flags -> "flag"
    [] before # "option" /\ argument[1] \in InputOptions \cup OtherOptions -> "option"
    [] OTHER -> "output"

Roles(arguments) ==
  LET role[i \in 1..Len(arguments)] ==
        IF i = 1 THEN "program" ELSE Role(role[i - 1], arguments[i])
  IN role

(* The command reads this URL and nothing else, with a whitelist that      *)
(* holds for it and its protocol in it, and writes to the pipe only.       *)
PlaysOnly(url, arguments) ==
  LET role == Roles(arguments)
      input == {i \in DOMAIN role : role[i] = "option" /\ arguments[i] = <<"-i">>}
      output == {i \in DOMAIN role : role[i] = "output"}
      list == {i \in DOMAIN role : role[i] = "option" /\ arguments[i] = <<"-protocol_whitelist">>}
  IN /\ Cardinality(input) = 1
     /\ \A i \in input :
          /\ arguments[i + 1] = url
          /\ \E w \in list : w < i /\ arguments[w + 1] = <<"whitelist">>
          /\ \A o \in DOMAIN role :
               role[o] = "option" /\ arguments[o][1] \in InputOptions => o < i
     /\ {arguments[i] : i \in output} = {<<"pipe:1">>}
     /\ SchemeOf(url) \in FfmpegProtocolWhitelist
=============================================================================
