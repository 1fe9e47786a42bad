------------------------------ MODULE MCRequests ------------------------------
(* Requests with URLs as users type them and texts as scripts send them.   *)
EXTENDS Requests

MCUidText(uid) == ToString(uid)

Url(scheme, host, tail) == <<scheme, "://">> \o host \o tail

Tails ==
  {<<>>, <<"/">>, <<"/", "live", "?", "t", "=", "a", "=", "b">>, <<"?", "q">>, <<"#", "f">>,
   <<"/", "wide", "wide">>, <<"/", "wide", "wide", "wide">>, <<"/", "wide">>,
   <<"/", "long", "long", "long">>, <<"/", "long", "long", "long", "long">>,
   <<"/", " ", "x">>, <<"/", "DEL">>, <<"/", "\"">>, <<"/", "\r">>,
   <<"/", "\n", "rotation", "=", "90">>, <<"/", "\n", ".", "\n">>}

Hosts == {<<>>, <<"host">>, <<"long">>, <<"user", "=", "host">>}

Urls ==
  {Url(s, <<"host">>, t) : s \in kSchemes \cup {"HTTP", "file", "push", "concat"},
                          t \in {<<>>, <<"/", "live">>}}
  \cup {Url(s, h, t) : s \in {"http", "rtsp"}, h \in Hosts, t \in Tails}
  \cup {<<"push", "://", "local">>, <<"push", "://", "placeholder">>, <<"://", "host">>,
        <<"host">>, <<>>, <<"a", "/", "http", "://", "host">>, <<"-i">>}

MCSettings ==
  [url : Urls, rotation : {0}, mirror : {FALSE}]
  \cup [url : {before \o <<"rtsp", "://", "host">> \o after :
                 before \in {<<>>, <<" ">>}, after \in {<<>>, <<"\n">>, <<"\t">>}},
        rotation : Rotations \cup {45}, mirror : BOOLEAN]

Start(lines) == <<"START", NL>> \o FlattenSeq([i \in DOMAIN lines |-> Append(lines[i], NL)])
Rotate(text) == <<"rotation", "=">> \o text

MCScripts ==
  {<<>>, <<NL>>, <<"UNKNOWN", NL, ".", NL>>, <<"STOP">>, <<"STATUS", "\r", NL>>,
   <<"STOP", "x", NL>>, <<"STOP", "\r", "x">>, <<"START">>, <<"START", NL, ".", "x", NL>>,
   <<"START", NL, ".">>, <<"START", "\r", NL, ".", "\r", NL>>}
  \cup {Start(<<line, <<".">>>>) : line \in
         {<<"width", "=", "1920">>, <<"width", "=", "nope">>, <<"target", "=", "front">>,
          <<"rotation", " ", "=", "90">>,
          Rotate(<<"-90">>), Rotate(<<"45">>), Rotate(<<"90", " ">>), Rotate(<<>>),
          <<"=", "x">>, <<"x">>, <<>>, <<"mirror", "=", "true">>, <<"mirror", "=", "yes">>,
          <<"video_device", "=", "/dev/video", "101">>, <<"video_device", "=", "/dev/null">>,
          <<"video_device", "=", "/dev/video", "long">>, <<"url", "=", "srt", "://", "host">>,
          <<"url", "=", "http", "://", "host", "/", "\"", "\\">>, <<"url", "=">>}}
  \cup {Start(<<Rotate(<<"90">>), Rotate(<<"90">>), <<".">>>>),
        Start(<<Rotate(<<"90">>), <<".">>, Rotate(<<"180">>)>>)}

MCErrors == {<<"busy">>, OkFalse, <<"\\", "\"">>, <<"\n">>}
=============================================================================
