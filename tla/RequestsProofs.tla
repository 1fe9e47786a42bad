---------------------------- MODULE RequestsProofs ----------------------------
(***************************************************************************)
(* What Requests promises, for all settings, scripts and errors: the types *)
(* of its variables, that the daemon does what was asked in full or        *)
(* nothing, that the app is obeyed, and that FFmpeg plays what is accepted *)
(* and nothing else.                                                       *)
(***************************************************************************)
EXTENDS Requests, TLAPS, NaturalsInduction, WellFoundedInduction, FiniteSetTheorems,
        SequenceTheorems

-------------------------------------------------------------------------------
(* Numbers *)

(* On the natural numbers, less than is well-founded.                      *)
LEMMA NatOrder == IsWellFoundedOn({p \in Nat \X Nat : p[1] < p[2]}, Nat)
BY NatLessThanWellFounded DEF OpToRel

(* A set of natural numbers that is not empty has a least element.         *)
LEMMA LeastOf ==
  ASSUME NEW T, T \subseteq Nat, T # {}
  PROVE  \E m \in T : \A k \in T : m <= k
<1> DEFINE R == {p \in Nat \X Nat : p[1] < p[2]}
<1>1. IsWellFoundedOn(R, Nat)
  BY NatOrder
<1>2. \A x, y \in Nat : <<y, x>> \in R <=> y < x
  OBVIOUS
<1> HIDE DEF R
<1>3. PICK m \in T : \A y \in T : ~ (<<y, m>> \in R)
  BY <1>1, WFMin
<1>4. m \in Nat /\ \A k \in T : k \in Nat /\ ~ (k < m)
  BY <1>2, <1>3
<1> QED
  BY <1>4

(* What holds of one and is passed on to the next holds up to a limit.     *)
LEMMA FromOne ==
  ASSUME NEW n \in Nat, NEW H, 1 \in H, \A k \in 2..n : k - 1 \in H => k \in H
  PROVE  1..n \subseteq H
<1> DEFINE T == {k \in 1..n : k \notin H}
<1> SUFFICES ASSUME T # {} PROVE FALSE
  OBVIOUS
<1>0. T \subseteq Nat
  OBVIOUS
<1>1. PICK m \in T : \A k \in T : m <= k
  <2> HIDE DEF T
  <2> QED BY <1>0, LeastOf
<1>2. m \in 2..n /\ m \notin H
  OBVIOUS
<1>3. m - 1 \in H
  BY <1>1, <1>2
<1> QED BY <1>2, <1>3

-------------------------------------------------------------------------------
(* Launch: command lines *)

(* The places of the values, if a function says of every place whether it  *)
(* is one.                                                                 *)
LEMMA PlacesAre ==
  ASSUME NEW words, NEW flags, Len(words) \in Nat, NEW P, P \subseteq 1..Len(words),
         \A i \in 1..Len(words) : i \in P <=> (i > 1 /\ i - 1 \notin P /\ words[i - 1] \notin flags)
  PROVE  /\ \E f : f = [i \in 1..Len(words) |-> i > 1 /\ ~f[i - 1] /\ words[i - 1] \notin flags]
         /\ ValuePlaces(words, flags) = P
<1> DEFINE w == [i \in 1..Len(words) |-> i \in P]
           n == Len(words)
           Is(f, i) == i > 1 /\ ~f[i - 1] /\ words[i - 1] \notin flags
           value == CHOOSE f : f = [i \in 1..n |-> Is(f, i)]
<1>0. \A i \in 1..n : (w[i] <=> i \in P) /\ (w[i] <=> Is(w, i))
  <2> TAKE i \in 1..n
  <2>1. w[i] <=> i \in P
    OBVIOUS
  <2>2. i > 1 => (w[i - 1] <=> i - 1 \in P)
    <3>1. i > 1 => i - 1 \in 1..n
      OBVIOUS
    <3> QED BY <3>1
  <2>3. i \in P <=> (i > 1 /\ i - 1 \notin P /\ words[i - 1] \notin flags)
    OBVIOUS
  <2> HIDE DEF w
  <2> QED BY <2>1, <2>2, <2>3
<1> HIDE DEF w
<1>1. \E f : f = [i \in 1..n |-> Is(f, i)]
  <2> DEFINE g == [i \in 1..n |-> Is(w, i)]
  <2>1. \A i \in 1..n : Is(g, i) <=> Is(w, i)
    <3> TAKE i \in 1..n
    <3>1. CASE i = 1
      BY <3>1
    <3>2. CASE i # 1
      <4>1. i - 1 \in 1..n
        BY <3>2
      <4>2. g[i - 1] <=> w[i - 1]
        BY <1>0, <4>1
      <4> QED BY <4>2
    <3> QED BY <3>1, <3>2
  <2>2. \A i \in 1..n : Is(g, i) = Is(w, i)
    BY <2>1
  <2>3. g = [i \in 1..n |-> Is(g, i)]
    BY <2>2
  <2> QED BY <2>3
<1>2. value = [i \in 1..n |-> Is(value, i)]
  BY <1>1
<1>3. ValuePlaces(words, flags) = {i \in 1..n : value[i]}
  BY DEF ValuePlaces
<1> HIDE DEF value
<1> DEFINE H == {i \in 1..n : value[i] <=> w[i]}
<1>4. \A i \in 1..n : value[i] <=> Is(value, i)
  BY <1>2
<1>5. n # 0 => 1 \in H
  BY <1>0, <1>4
<1>6. \A k \in 2..n : k - 1 \in H => k \in H
  BY <1>0, <1>4
<1>7. \A i \in 1..n : value[i] <=> w[i]
  <2>1. CASE n = 0
    BY <2>1
  <2>2. CASE n # 0
    <3>1. 1..n \subseteq H
      <4> HIDE DEF H
      <4> QED BY <1>5, <1>6, <2>2, FromOne
    <3> QED BY <3>1
  <2> QED BY <2>1, <2>2
<1> QED BY <1>0, <1>1, <1>3, <1>7

(* An option that is given once has the value given.                       *)
LEMMA GivenOnce ==
  ASSUME NEW words, NEW flags, NEW name, NEW default, NEW p \in Nat,
         p \in ValuePlaces(words, flags), words[p - 1] = name,
         \A q \in ValuePlaces(words, flags) : words[q - 1] = name => q = p
  PROVE  Given(words, flags, name, default) = words[p]
<1> DEFINE places == {i \in ValuePlaces(words, flags) : words[i - 1] = name}
<1>1. places = {p}
  OBVIOUS
<1>2. Max({p}) = p
  BY DEF Max
<1> QED BY <1>1, <1>2 DEF Given

(* An option that is not given has its default.                            *)
LEMMA NotGiven ==
  ASSUME NEW words, NEW flags, NEW name, NEW default,
         \A q \in ValuePlaces(words, flags) : words[q - 1] # name
  PROVE  Given(words, flags, name, default) = default
<1>1. {i \in ValuePlaces(words, flags) : words[i - 1] = name} = {}
  OBVIOUS
<1> QED BY <1>1 DEF Given

(* vcamesd listens on the private names, primes the camera, runs the       *)
(* module's FFmpeg and allows no uid but root and system.                  *)
LEMMA DaemonIs ==
  /\ DaemonOptions(DaemonCommand).control = "vcamesd_private"
  /\ DaemonOptions(DaemonCommand).frames = "vcamesd_frames_private"
  /\ DaemonOptions(DaemonCommand).ffmpeg = "/module/bin/ffmpeg"
  /\ DaemonOptions(DaemonCommand).allowed = {}
<1> DEFINE words == DaemonCommand
<1>1. /\ Len(words) = 7
      /\ words[1] = "--control-socket" /\ words[2] = "vcamesd_private"
      /\ words[3] = "--frame-socket" /\ words[4] = "vcamesd_frames_private"
      /\ words[5] = "--ffmpeg-path" /\ words[6] = "/module/bin/ffmpeg"
      /\ words[7] = "--prime-global-camera"
  BY DEF DaemonCommand
<1> HIDE DEF words
<1>2. \A i \in 1..7 :
        i \in {2, 4, 6} <=> (i > 1 /\ i - 1 \notin {2, 4, 6} /\ words[i - 1] \notin DaemonFlags)
  <2>1. words[1] \notin DaemonFlags /\ words[3] \notin DaemonFlags /\ words[5] \notin DaemonFlags
    BY <1>1 DEF DaemonFlags
  <2> QED BY <2>1
<1>3. ValuePlaces(words, DaemonFlags) = {2, 4, 6}
  <2>1. {2, 4, 6} \subseteq 1..Len(words) /\ Len(words) \in Nat
    BY <1>1
  <2>2. \A i \in 1..Len(words) :
          i \in {2, 4, 6} <=> (i > 1 /\ i - 1 \notin {2, 4, 6} /\ words[i - 1] \notin DaemonFlags)
    BY <1>1, <1>2
  <2> QED BY <2>1, <2>2, PlacesAre
<1>4. \A d : Given(words, DaemonFlags, "--control-socket", d) = "vcamesd_private"
  BY <1>1, <1>3, GivenOnce
<1>5. \A d : Given(words, DaemonFlags, "--frame-socket", d) = "vcamesd_frames_private"
  BY <1>1, <1>3, GivenOnce
<1>6. \A d : Given(words, DaemonFlags, "--ffmpeg-path", d) = "/module/bin/ffmpeg"
  BY <1>1, <1>3, GivenOnce
<1>7. Given(words, DaemonFlags, "--allowed-uid", "none") = "none"
  BY <1>1, <1>3, NotGiven
<1>8. \A r : r = DaemonOptions(words) =>
        /\ r.control = "vcamesd_private" /\ r.frames = "vcamesd_frames_private"
        /\ r.ffmpeg = "/module/bin/ffmpeg" /\ r.allowed = {}
  BY <1>4, <1>5, <1>6, <1>7 DEF DaemonOptions
<1> QED BY <1>8 DEF words

(* The proxy passes the public names on to the private ones, for the uid   *)
(* it is started for, and drops to system.                                 *)
LEMMA ProxyIs ==
  ASSUME NEW uid \in Uids
  PROVE  /\ ProxyOptions(ProxyCommand(uid)).uid = uid
         /\ ProxyOptions(ProxyCommand(uid)).publicControl = "vcamesd"
         /\ ProxyOptions(ProxyCommand(uid)).control = "vcamesd_private"
         /\ ProxyOptions(ProxyCommand(uid)).publicFrames = "vcamesd_frames"
         /\ ProxyOptions(ProxyCommand(uid)).frames = "vcamesd_frames_private"
         /\ ProxyOptions(ProxyCommand(uid)).drop
<1> DEFINE words == ProxyCommand(uid)
<1>1. /\ Len(words) = 11
      /\ words[1] = "--allowed-uid" /\ words[2] = UidText(uid) /\ words[3] = "--drop-to-system"
      /\ words[4] = "--public-control" /\ words[5] = "vcamesd"
      /\ words[6] = "--private-control" /\ words[7] = "vcamesd_private"
      /\ words[8] = "--public-frames" /\ words[9] = "vcamesd_frames"
      /\ words[10] = "--private-frames" /\ words[11] = "vcamesd_frames_private"
  BY DEF ProxyCommand
<1> HIDE DEF words
<1> DEFINE P == {2, 5, 7, 9, 11}
<1>2. \A i \in 1..11 : i \in P <=> (i > 1 /\ i - 1 \notin P /\ words[i - 1] \notin ProxyFlags)
  <2>1. /\ words[1] \notin ProxyFlags /\ words[3] \in ProxyFlags /\ words[4] \notin ProxyFlags
        /\ words[6] \notin ProxyFlags /\ words[8] \notin ProxyFlags /\ words[10] \notin ProxyFlags
    BY <1>1 DEF ProxyFlags
  <2> QED BY <2>1
<1>3. ValuePlaces(words, ProxyFlags) = P
  <2>1. P \subseteq 1..Len(words) /\ Len(words) \in Nat
    BY <1>1
  <2>2. \A i \in 1..Len(words) :
          i \in P <=> (i > 1 /\ i - 1 \notin P /\ words[i - 1] \notin ProxyFlags)
    BY <1>1, <1>2
  <2> HIDE DEF P
  <2> QED BY <2>1, <2>2, PlacesAre
<1>4. \A d : Given(words, ProxyFlags, "--allowed-uid", d) = UidText(uid)
  BY <1>1, <1>3, GivenOnce
<1>5. \A d : Given(words, ProxyFlags, "--public-control", d) = "vcamesd"
  BY <1>1, <1>3, GivenOnce
<1>6. \A d : Given(words, ProxyFlags, "--private-control", d) = "vcamesd_private"
  BY <1>1, <1>3, GivenOnce
<1>7. \A d : Given(words, ProxyFlags, "--public-frames", d) = "vcamesd_frames"
  BY <1>1, <1>3, GivenOnce
<1>8. \A d : Given(words, ProxyFlags, "--private-frames", d) = "vcamesd_frames_private"
  BY <1>1, <1>3, GivenOnce
<1>9. Flagged(words, ProxyFlags, "--drop-to-system")
  <2>1. 3 \in 1..Len(words) /\ 3 \notin P /\ words[3] = "--drop-to-system"
    BY <1>1
  <2> HIDE DEF P
  <2> QED BY <1>3, <2>1 DEF Flagged
<1>10. UidOf(UidText(uid)) = uid
  BY UidTextAssumption DEF UidOf
<1>11. \A r : r = ProxyOptions(words) =>
         /\ r.uid = uid /\ r.publicControl = "vcamesd" /\ r.control = "vcamesd_private"
         /\ r.publicFrames = "vcamesd_frames" /\ r.frames = "vcamesd_frames_private" /\ r.drop
  BY <1>4, <1>5, <1>6, <1>7, <1>8, <1>9, <1>10 DEF ProxyOptions
<1> QED BY <1>11 DEF words

-------------------------------------------------------------------------------
(* Sequences *)

(* r is s followed by t.                                                   *)
Joined(r, s, t) ==
  /\ Len(r) = Len(s) + Len(t)
  /\ \A i \in 1..Len(s) : r[i] = s[i]
  /\ \A j \in 1..Len(t) : r[Len(s) + j] = t[j]

(* Concatenation joins.                                                    *)
LEMMA ConcatJoins ==
  ASSUME NEW S, NEW s \in Seq(S), NEW t \in Seq(S)
  PROVE  s \o t \in Seq(S) /\ Joined(s \o t, s, t)
<1>1. /\ s \o t \in Seq(S) /\ Len(s \o t) = Len(s) + Len(t)
      /\ \A i \in 1 .. Len(s) + Len(t) : (s \o t)[i] = IF i <= Len(s) THEN s[i] ELSE t[i - Len(s)]
  BY ConcatProperties, Zenon
<1>2. Len(s) \in Nat /\ Len(t) \in Nat
  OBVIOUS
<1>3. PICK r : r = s \o t
  OBVIOUS
<1>4. r \in Seq(S) /\ Joined(r, s, t)
  BY <1>1, <1>2, <1>3 DEF Joined
<1> QED BY <1>3, <1>4

-------------------------------------------------------------------------------
(* FFmpeg's command line *)

(* The roles are those of a function that is what they are defined to be.  *)
LEMMA RolesAre ==
  ASSUME NEW arguments, Len(arguments) \in Nat, NEW w,
         w = [i \in 1..Len(arguments) |->
                IF i = 1 THEN "program" ELSE Role(w[i - 1], arguments[i])]
  PROVE  Roles(arguments) = w
<1> DEFINE n == Len(arguments)
           Is(f, i) == IF i = 1 THEN "program" ELSE Role(f[i - 1], arguments[i])
           role == CHOOSE f : f = [i \in 1..n |-> Is(f, i)]
<1>1. Roles(arguments) = role /\ role = [i \in 1..n |-> Is(role, i)]
  BY DEF Roles
<1> HIDE DEF role
<1> DEFINE H == {i \in 1..n : role[i] = w[i]}
<1>2. \A i \in 1..n : role[i] = Is(role, i) /\ w[i] = Is(w, i)
  BY <1>1
<1>3. n # 0 => 1 \in H
  BY <1>2
<1>4. \A k \in 2..n : k - 1 \in H => k \in H
  BY <1>2
<1>5. \A i \in 1..n : role[i] = w[i]
  <2>1. CASE n = 0
    BY <2>1
  <2>2. CASE n # 0
    <3>1. 1..n \subseteq H
      <4> HIDE DEF H
      <4> QED BY <1>3, <1>4, <2>2, FromOne
    <3> QED BY <3>1
  <2> QED BY <2>1, <2>2
<1>6. [i \in 1..n |-> Is(role, i)] = [i \in 1..n |-> Is(w, i)]
  BY <1>2, <1>5
<1> QED BY <1>1, <1>6

(* The shape of the command line, with p pairs of options for the URL's    *)
(* protocol.                                                               *)
Shape(line, url, p) ==
  /\ Len(line) = 37 + 2 * p
  /\ line[2][1] \in Flags /\ line[3][1] \in Flags
  /\ \A i \in 4..(19 + 2 * p) : i % 2 = 0 => line[i][1] \in InputOptions \cup {"-loglevel"}
  /\ line[6] = <<"-protocol_whitelist">> /\ line[7] = <<"whitelist">>
  /\ line[20 + 2 * p] = <<"-i">> /\ line[21 + 2 * p] = url
  /\ line[22 + 2 * p][1] \in OtherOptions \ {"-i"}
  /\ \A i \in (24 + 2 * p)..(26 + 2 * p) : line[i][1] \in Flags
  /\ \A i \in (27 + 2 * p)..(36 + 2 * p) : i % 2 = 1 => line[i][1] \in OtherOptions \ {"-i"}
  /\ line[37 + 2 * p] = <<"pipe:1">>

(* The role of each word in it.                                            *)
ShapeRole(p, i) ==
  IF i = 1 THEN "program"
  ELSE IF i \in {2, 3} \/ i \in (24 + 2 * p)..(26 + 2 * p) THEN "flag"
  ELSE IF i = 37 + 2 * p THEN "output"
  ELSE IF i < 24 + 2 * p THEN IF i % 2 = 0 THEN "option" ELSE "value"
  ELSE IF i % 2 = 1 THEN "option" ELSE "value"

(* Flags, options and the output differ.                                   *)
LEMMA WordsDiffer ==
  /\ Flags \cap (InputOptions \cup OtherOptions) = {}
  /\ InputOptions \cap OtherOptions = {}
  /\ "pipe:1" \notin Flags \cup InputOptions \cup OtherOptions
  /\ "-loglevel" \in OtherOptions /\ "-i" \in OtherOptions
  /\ "-protocol_whitelist" \in InputOptions
<1> DEFINE W == {"-user_agent", "VCamES/3.2", "-reconnect", "1", "-reconnect_at_eof",
                 "-reconnect_streamed", "-reconnect_on_network_error",
                 "-reconnect_on_http_error", "4xx,5xx", "-reconnect_delay_max", "10"}
<1>1. ToSet(HttpOptions) \subseteq W
  <2>1. DOMAIN HttpOptions = 1..14
    BY DEF HttpOptions
  <2>2. /\ HttpOptions[1] \in W /\ HttpOptions[2] \in W /\ HttpOptions[3] \in W
        /\ HttpOptions[4] \in W /\ HttpOptions[5] \in W /\ HttpOptions[6] \in W
        /\ HttpOptions[7] \in W /\ HttpOptions[8] \in W /\ HttpOptions[9] \in W
        /\ HttpOptions[10] \in W /\ HttpOptions[11] \in W /\ HttpOptions[12] \in W
        /\ HttpOptions[13] \in W /\ HttpOptions[14] \in W
    BY DEF HttpOptions
  <2> HIDE DEF W
  <2> QED BY <2>1, <2>2 DEF ToSet
<1>2. InputOptions \subseteq W \cup
        {"-protocol_whitelist", "-rw_timeout", "-fflags", "-flags", "-probesize",
         "-analyzeduration", "-rtsp_transport", "-thread_queue_size"}
  BY <1>1 DEF InputOptions
<1>3. "-protocol_whitelist" \in InputOptions
  BY DEF InputOptions
<1> QED BY <1>2, <1>3 DEF Flags, OtherOptions

(* The roles of the words of such a line.                                  *)
LEMMA ShapeRoles ==
  ASSUME NEW line, NEW url, NEW p \in Nat, Shape(line, url, p)
  PROVE  Roles(line) = [i \in 1..(37 + 2 * p) |-> ShapeRole(p, i)]
<1> DEFINE n == 37 + 2 * p
           w == [i \in 1..n |-> ShapeRole(p, i)]
<1>1. Len(line) = n /\ n \in Nat
  BY DEF Shape
<1>2. \A i \in 2..n : ShapeRole(p, i) = Role(ShapeRole(p, i - 1), line[i])
  <2> TAKE i \in 2..n
  <2>1. CASE ShapeRole(p, i) = "flag"
    <3>1. i \in {2, 3} \/ i \in (24 + 2 * p)..(26 + 2 * p)
      BY <2>1 DEF ShapeRole
    <3>2. line[i][1] \in Flags
      BY <3>1 DEF Shape
    <3>3. ShapeRole(p, i - 1) # "option"
      BY <3>1 DEF ShapeRole
    <3> QED BY <2>1, <3>2, <3>3, WordsDiffer DEF Role
  <2>2. CASE ShapeRole(p, i) = "output"
    <3>1. i = n
      BY <2>2 DEF ShapeRole
    <3>2. line[i][1] = "pipe:1"
      BY <3>1 DEF Shape
    <3>3. ShapeRole(p, i - 1) = "value"
      BY <3>1 DEF ShapeRole
    <3> QED BY <2>2, <3>2, <3>3, WordsDiffer DEF Role
  <2>3. CASE ShapeRole(p, i) = "option"
    <3>1. \/ i \in 4..(22 + 2 * p) /\ i % 2 = 0
          \/ i \in (27 + 2 * p)..(36 + 2 * p) /\ i % 2 = 1
      BY <2>3 DEF ShapeRole
    <3>2. line[i][1] \in InputOptions \cup OtherOptions
      <4>1. CASE i \in 4..(19 + 2 * p)
        BY <3>1, <4>1, WordsDiffer DEF Shape
      <4>2. CASE i = 20 + 2 * p
        BY <4>2, WordsDiffer DEF Shape
      <4>3. CASE i = 22 + 2 * p
        BY <4>3 DEF Shape
      <4>4. CASE i \in (27 + 2 * p)..(36 + 2 * p)
        BY <3>1, <4>4 DEF Shape
      <4> QED BY <3>1, <4>1, <4>2, <4>3, <4>4
    <3>3. ShapeRole(p, i - 1) # "option"
      BY <3>1 DEF ShapeRole
    <3> QED BY <2>3, <3>2, <3>3, WordsDiffer DEF Role
  <2>4. CASE ShapeRole(p, i) = "value"
    <3>1. \/ i \in 5..(23 + 2 * p) /\ i % 2 = 1
          \/ i \in (28 + 2 * p)..(36 + 2 * p) /\ i % 2 = 0
      BY <2>4 DEF ShapeRole
    <3>2. ShapeRole(p, i - 1) = "option"
      BY <3>1 DEF ShapeRole
    <3> QED BY <2>4, <3>2 DEF Role
  <2>5. ShapeRole(p, i) # "program"
    BY DEF ShapeRole
  <2>6. ShapeRole(p, i) \in {"program", "flag", "output", "option", "value"}
    BY DEF ShapeRole
  <2> QED BY <2>1, <2>2, <2>3, <2>4, <2>5, <2>6
<1>3. \A i \in 1..n : w[i] = IF i = 1 THEN "program" ELSE Role(w[i - 1], line[i])
  <2> TAKE i \in 1..n
  <2>1. CASE i = 1
    BY <2>1 DEF ShapeRole
  <2>2. CASE i # 1
    <3>1. i \in 2..n /\ i - 1 \in 1..n
      BY <2>2
    <3>2. w[i] = ShapeRole(p, i) /\ w[i - 1] = ShapeRole(p, i - 1)
      BY <3>1
    <3> QED BY <1>2, <2>2, <3>1, <3>2
  <2> QED BY <2>1, <2>2
<1>4. w = [i \in 1..Len(line) |-> IF i = 1 THEN "program" ELSE Role(w[i - 1], line[i])]
  <2>1. [i \in 1..n |-> w[i]] = [i \in 1..n |-> IF i = 1 THEN "program" ELSE Role(w[i - 1], line[i])]
    BY <1>3, Zenon
  <2>2. w = [i \in 1..n |-> w[i]]
    OBVIOUS
  <2> QED BY <1>1, <2>1, <2>2
<1>5. Len(line) \in Nat
  BY <1>1
<1> HIDE DEF w
<1>6. Roles(line) = w
  BY <1>4, <1>5, RolesAre
<1> QED BY <1>6 DEF w

(* Such a line reads the URL and nothing else, and writes to the pipe.     *)
LEMMA ShapePlays ==
  ASSUME NEW line, NEW url, NEW p \in Nat, Shape(line, url, p),
         SchemeOf(url) \in FfmpegProtocolWhitelist
  PROVE  PlaysOnly(url, line)
<1> DEFINE n == 37 + 2 * p
           role == Roles(line)
           in == 20 + 2 * p
           input == {i \in DOMAIN role : role[i] = "option" /\ line[i] = <<"-i">>}
           output == {i \in DOMAIN role : role[i] = "output"}
           list == {i \in DOMAIN role : role[i] = "option" /\ line[i] = <<"-protocol_whitelist">>}
<1>1. DOMAIN role = 1..n /\ \A i \in 1..n : role[i] = ShapeRole(p, i)
  BY ShapeRoles
<1> HIDE DEF role
<1>2. \A i \in 1..n : role[i] = "option" /\ i # in =>
        line[i][1] \in InputOptions \cup (OtherOptions \ {"-i"})
  <2> SUFFICES ASSUME NEW i \in 1..n, ShapeRole(p, i) = "option", i # in
               PROVE  line[i][1] \in InputOptions \cup (OtherOptions \ {"-i"})
    BY <1>1
  <2>1. \/ i \in 4..(22 + 2 * p) /\ i % 2 = 0
        \/ i \in (27 + 2 * p)..(36 + 2 * p) /\ i % 2 = 1
    BY DEF ShapeRole
  <2>2. CASE i \in 4..(19 + 2 * p)
    BY <2>1, <2>2, WordsDiffer DEF Shape
  <2>3. CASE i = 22 + 2 * p
    BY <2>3 DEF Shape
  <2>4. CASE i \in (27 + 2 * p)..(36 + 2 * p)
    BY <2>1, <2>4 DEF Shape
  <2> QED BY <2>1, <2>2, <2>3, <2>4
<1>3. input = {in}
  <2>1. in \in 1..n /\ ShapeRole(p, in) = "option" /\ line[in] = <<"-i">>
    BY DEF Shape, ShapeRole
  <2>2. in \in input
    BY <1>1, <2>1
  <2>3. \A i \in input : i = in
    <3> SUFFICES ASSUME NEW i \in 1..n, role[i] = "option", line[i] = <<"-i">>, i # in
                 PROVE  FALSE
      BY <1>1
    <3>1. line[i][1] = "-i"
      OBVIOUS
    <3> QED BY <1>2, <3>1, WordsDiffer
  <2> HIDE DEF input
  <2> QED BY <2>2, <2>3
<1>4. line[in + 1] = url
  BY DEF Shape
<1>5. 6 \in list /\ 6 < in /\ line[6 + 1] = <<"whitelist">>
  <2>1. 6 \in 1..n /\ ShapeRole(p, 6) = "option" /\ line[6] = <<"-protocol_whitelist">>
    BY DEF Shape, ShapeRole
  <2>2. line[6 + 1] = <<"whitelist">>
    BY DEF Shape
  <2> QED BY <1>1, <2>1, <2>2
<1>6. \A o \in DOMAIN role : role[o] = "option" /\ line[o][1] \in InputOptions => o < in
  <2> SUFFICES ASSUME NEW o \in 1..n, ShapeRole(p, o) = "option", line[o][1] \in InputOptions, ~ (o < in)
               PROVE  FALSE
    BY <1>1
  <2>1. \/ o = in \/ o = 22 + 2 * p
        \/ o \in (27 + 2 * p)..(36 + 2 * p) /\ o % 2 = 1
    BY DEF ShapeRole
  <2>2. line[o][1] \in OtherOptions
    BY <2>1, WordsDiffer DEF Shape
  <2> QED BY <2>2, WordsDiffer
<1>7. output = {n}
  <2>1. \A i \in 1..n : ShapeRole(p, i) = "output" <=> i = n
    BY DEF ShapeRole
  <2> QED BY <1>1, <2>1
<1>8. {line[i] : i \in output} = {<<"pipe:1">>}
  BY <1>7 DEF Shape
<1>9. Cardinality({in}) = 1
  BY FS_Singleton
<1> QED BY <1>3, <1>4, <1>5, <1>6, <1>8, <1>9 DEF PlaysOnly, role

(* r is an n-tuple over S.                                                 *)
IsTuple(S, r, n) ==
  DOMAIN r = 1..n /\ r = [i \in DOMAIN r |-> r[i]] /\ \A i \in 1..n : r[i] \in S

(* A tuple is a sequence.                                                  *)
LEMMA TupleIsSeq ==
  ASSUME NEW S, NEW r, NEW n \in Nat, IsTuple(S, r, n)
  PROVE  r \in Seq(S) /\ Len(r) = n
BY DEF IsTuple

(* HttpOptions is a tuple.                                                 *)
LEMMA HttpOptionsAre ==
  DOMAIN HttpOptions = 1..14 /\ HttpOptions = [i \in DOMAIN HttpOptions |-> HttpOptions[i]]
<1>1. DOMAIN HttpOptions = 1..14
  BY DEF HttpOptions
<1>2. HttpOptions = [i \in DOMAIN HttpOptions |-> HttpOptions[i]]
  BY DEF HttpOptions
<1> QED BY <1>1, <1>2

(* The empty sequence is one of anything.                                  *)
LEMMA NoTokens == \A S : <<>> \in Seq(S) /\ Len(<<>>) = 0
OBVIOUS

(* Words, one argument each.                                               *)
LEMMA WordsAre ==
  ASSUME NEW S, NEW words \in Seq(S)
  PROVE  /\ Words(words) \in Seq(Seq(S)) /\ Len(Words(words)) = Len(words)
         /\ \A i \in 1..Len(words) : Words(words)[i] = <<words[i]>>
<1>1. Len(words) \in Nat /\ DOMAIN words = 1..Len(words) /\ \A i \in 1..Len(words) : words[i] \in S
  OBVIOUS
<1>2. \A i \in 1..Len(words) : <<words[i]>> \in Seq(S)
  BY <1>1
<1>3. Words(words) = [i \in 1..Len(words) |-> <<words[i]>>]
  BY <1>1 DEF Words
<1> QED BY <1>1, <1>2, <1>3

(* s stands in r after the first k elements.                               *)
At(r, k, s) == \A j \in 1..Len(s) : r[k + j] = s[j]

(* r is s and t, and what stands in s stands in r.                         *)
Extends(S, r, s, t) ==
  /\ r \in Seq(S) /\ Len(r) = Len(s) + Len(t) /\ At(r, 0, s) /\ At(r, Len(s), t)
  /\ \A k \in Nat : \A u \in Seq(S) : At(s, k, u) /\ k + Len(u) <= Len(s) => At(r, k, u)

(* What stands in a sequence stays when another is appended.               *)
LEMMA JoinedAt ==
  ASSUME NEW S, NEW s \in Seq(S), NEW t \in Seq(S), NEW r, r = s \o t
  PROVE  Extends(S, r, s, t)
<1>1. r \in Seq(S) /\ Joined(r, s, t)
  BY ConcatJoins
<1>2. Len(s) \in Nat /\ Len(t) \in Nat /\ Len(r) = Len(s) + Len(t)
  BY <1>1 DEF Joined
<1>3. At(r, 0, s) /\ At(r, Len(s), t)
  BY <1>1, <1>2 DEF Joined, At
<1>4. ASSUME NEW k \in Nat, NEW u \in Seq(S), At(s, k, u), k + Len(u) <= Len(s)
      PROVE  At(r, k, u)
  <2>1. \A j \in 1..Len(u) : k + j \in 1..Len(s)
    BY <1>2, <1>4
  <2>2. \A j \in 1..Len(u) : r[k + j] = u[j]
    BY <1>1, <1>4, <2>1 DEF Joined, At
  <2> QED BY <2>2 DEF At
<1> QED BY <1>1, <1>2, <1>3, <1>4 DEF Extends

(* Where eight sequences stand in their concatenation.                     *)
EightAt(r, a, b, c, d, e, f, g, h) ==
  /\ Len(r) = Len(a) + Len(b) + Len(c) + Len(d) + Len(e) + Len(f) + Len(g) + Len(h)
  /\ At(r, 0, a) /\ At(r, Len(a), b) /\ At(r, Len(a) + Len(b), c)
  /\ At(r, Len(a) + Len(b) + Len(c), d)
  /\ At(r, Len(a) + Len(b) + Len(c) + Len(d), e)
  /\ At(r, Len(a) + Len(b) + Len(c) + Len(d) + Len(e), f)
  /\ At(r, Len(a) + Len(b) + Len(c) + Len(d) + Len(e) + Len(f) + Len(g), h)

(* They stand there.                                                       *)
LEMMA EightJoined ==
  ASSUME NEW S, NEW a \in Seq(S), NEW b \in Seq(S), NEW c \in Seq(S), NEW d \in Seq(S),
         NEW e \in Seq(S), NEW f \in Seq(S), NEW g \in Seq(S), NEW h \in Seq(S),
         NEW r, r = a \o b \o c \o d \o e \o f \o g \o h
  PROVE  EightAt(r, a, b, c, d, e, f, g, h)
<1>1. /\ Len(a) \in Nat /\ Len(b) \in Nat /\ Len(c) \in Nat /\ Len(d) \in Nat
      /\ Len(e) \in Nat /\ Len(f) \in Nat /\ Len(g) \in Nat /\ Len(h) \in Nat
  OBVIOUS
<1>2. PICK x1 : x1 = a \o b
  OBVIOUS
<1>3. /\ x1 \in Seq(S) /\ Len(x1) = Len(a) + Len(b)
       /\ At(x1, 0, a)
       /\ At(x1, Len(a), b)
  <2>1. Extends(S, x1, a, b)
    BY <1>2, JoinedAt, Zenon
  <2> QED BY <2>1 DEF Extends
<1>4. PICK x2 : x2 = x1 \o c
  OBVIOUS
<1>5. /\ x2 \in Seq(S) /\ Len(x2) = Len(a) + Len(b) + Len(c)
       /\ At(x2, 0, a)
       /\ At(x2, Len(a), b)
       /\ At(x2, Len(a) + Len(b), c)
  <2>1. Extends(S, x2, x1, c)
    BY <1>4, <1>3, JoinedAt, Zenon
  <2> QED BY <1>1, <1>3, <2>1 DEF Extends
<1>6. PICK x3 : x3 = x2 \o d
  OBVIOUS
<1>7. /\ x3 \in Seq(S) /\ Len(x3) = Len(a) + Len(b) + Len(c) + Len(d)
       /\ At(x3, 0, a)
       /\ At(x3, Len(a), b)
       /\ At(x3, Len(a) + Len(b), c)
       /\ At(x3, Len(a) + Len(b) + Len(c), d)
  <2>1. Extends(S, x3, x2, d)
    BY <1>6, <1>5, JoinedAt, Zenon
  <2> QED BY <1>1, <1>5, <2>1 DEF Extends
<1>8. PICK x4 : x4 = x3 \o e
  OBVIOUS
<1>9. /\ x4 \in Seq(S) /\ Len(x4) = Len(a) + Len(b) + Len(c) + Len(d) + Len(e)
       /\ At(x4, 0, a)
       /\ At(x4, Len(a), b)
       /\ At(x4, Len(a) + Len(b), c)
       /\ At(x4, Len(a) + Len(b) + Len(c), d)
       /\ At(x4, Len(a) + Len(b) + Len(c) + Len(d), e)
  <2>1. Extends(S, x4, x3, e)
    BY <1>8, <1>7, JoinedAt, Zenon
  <2> QED BY <1>1, <1>7, <2>1 DEF Extends
<1>10. PICK x5 : x5 = x4 \o f
  OBVIOUS
<1>11. /\ x5 \in Seq(S) /\ Len(x5) = Len(a) + Len(b) + Len(c) + Len(d) + Len(e) + Len(f)
       /\ At(x5, 0, a)
       /\ At(x5, Len(a), b)
       /\ At(x5, Len(a) + Len(b), c)
       /\ At(x5, Len(a) + Len(b) + Len(c), d)
       /\ At(x5, Len(a) + Len(b) + Len(c) + Len(d), e)
       /\ At(x5, Len(a) + Len(b) + Len(c) + Len(d) + Len(e), f)
  <2>1. Extends(S, x5, x4, f)
    BY <1>10, <1>9, JoinedAt, Zenon
  <2> QED BY <1>1, <1>9, <2>1 DEF Extends
<1>12. PICK x6 : x6 = x5 \o g
  OBVIOUS
<1>13. /\ x6 \in Seq(S) /\ Len(x6) = Len(a) + Len(b) + Len(c) + Len(d) + Len(e) + Len(f) + Len(g)
       /\ At(x6, 0, a)
       /\ At(x6, Len(a), b)
       /\ At(x6, Len(a) + Len(b), c)
       /\ At(x6, Len(a) + Len(b) + Len(c), d)
       /\ At(x6, Len(a) + Len(b) + Len(c) + Len(d), e)
       /\ At(x6, Len(a) + Len(b) + Len(c) + Len(d) + Len(e), f)
       /\ At(x6, Len(a) + Len(b) + Len(c) + Len(d) + Len(e) + Len(f), g)
  <2>1. Extends(S, x6, x5, g)
    BY <1>12, <1>11, JoinedAt, Zenon
  <2> QED BY <1>1, <1>11, <2>1 DEF Extends
<1>14. r = x6 \o h
  BY <1>2, <1>4, <1>6, <1>8, <1>10, <1>12
<1>15. /\ r \in Seq(S) /\ Len(r) = Len(a) + Len(b) + Len(c) + Len(d) + Len(e) + Len(f) + Len(g) + Len(h)
       /\ At(r, 0, a)
       /\ At(r, Len(a), b)
       /\ At(r, Len(a) + Len(b), c)
       /\ At(r, Len(a) + Len(b) + Len(c), d)
       /\ At(r, Len(a) + Len(b) + Len(c) + Len(d), e)
       /\ At(r, Len(a) + Len(b) + Len(c) + Len(d) + Len(e), f)
       /\ At(r, Len(a) + Len(b) + Len(c) + Len(d) + Len(e) + Len(f) + Len(g), h)
  <2>1. Extends(S, r, x6, h)
    BY <1>14, <1>13, JoinedAt, Zenon
  <2> QED BY <1>1, <1>13, <2>1 DEF Extends
<1> QED BY <1>15, Zenon DEF EightAt

(* The pairs of options for the URL's protocol.                            *)
PairsAre(S, http, rtsp, p) ==
  /\ http \in Seq(S) /\ rtsp \in Seq(S) /\ Len(http) + Len(rtsp) = 2 * p /\ Len(http) % 2 = 0
  /\ \A i \in 1..Len(http) : i % 2 = 1 => http[i] \in InputOptions
  /\ \A i \in 1..Len(rtsp) : i % 2 = 1 => rtsp[i] \in InputOptions

(* They come in pairs, options before their values.                        *)
LEMMA ProtocolPairs ==
  ASSUME NEW url,
         NEW http, http = IF SchemeOf(url) \in {"http", "https"} THEN HttpOptions ELSE <<>>,
         NEW rtsp, rtsp = IF SchemeOf(url) \in {"rtsp", "rtsps"} THEN <<"-rtsp_transport", "tcp">> ELSE <<>>
  PROVE  \E p \in {0, 1, 7} : PairsAre(InputOptions \cup {"tcp"}, http, rtsp, p)
<1>1. PICK S : S = InputOptions \cup {"tcp"}
  OBVIOUS
<1>2. CASE SchemeOf(url) \in {"http", "https"}
  <2>1. http = HttpOptions /\ rtsp = <<>>
    BY <1>2
  <2>2. DOMAIN HttpOptions = 1..14
    BY HttpOptionsAre
  <2>3. \A i \in 1..14 : HttpOptions[i] \in InputOptions
    BY <2>2 DEF InputOptions, ToSet
  <2>4. HttpOptions \in Seq(S) /\ Len(HttpOptions) = 14
    <3>1. IsTuple(S, HttpOptions, 14)
      BY <1>1, <2>3, HttpOptionsAre DEF IsTuple
    <3> QED BY <3>1, TupleIsSeq
  <2>5. PairsAre(S, HttpOptions, <<>>, 7)
    BY <2>3, <2>4, NoTokens DEF PairsAre
  <2> QED BY <1>1, <2>1, <2>5
<1>3. CASE SchemeOf(url) \in {"rtsp", "rtsps"}
  <2>1. http = <<>> /\ rtsp = <<"-rtsp_transport", "tcp">>
    BY <1>3
  <2>2. "-rtsp_transport" \in InputOptions /\ "-rtsp_transport" \in S /\ "tcp" \in S
    BY <1>1 DEF InputOptions
  <2>3. PICK r : r = <<"-rtsp_transport", "tcp">>
    OBVIOUS
  <2>4. DOMAIN r = 1..2 /\ r = [i \in DOMAIN r |-> r[i]] /\ r[1] = "-rtsp_transport" /\ r[2] = "tcp"
    BY <2>3
  <2>5. IsTuple(S, r, 2)
    BY <2>2, <2>4 DEF IsTuple
  <2>6. r \in Seq(S) /\ Len(r) = 2
    BY <2>5, TupleIsSeq
  <2>7. PairsAre(S, <<>>, r, 1)
    BY <2>2, <2>4, <2>6, NoTokens DEF PairsAre
  <2> QED BY <1>1, <2>1, <2>3, <2>7
<1>4. CASE SchemeOf(url) \notin {"http", "https", "rtsp", "rtsps"}
  <2>1. http = <<>> /\ rtsp = <<>>
    BY <1>4
  <2>2. PairsAre(S, <<>>, <<>>, 0)
    BY NoTokens DEF PairsAre
  <2> QED BY <1>1, <2>1, <2>2
<1> QED BY <1>2, <1>3, <1>4

(* The words before, around and after the URL.                             *)
HeadWords(path) ==
  <<path, "-hide_banner", "-nostdin", "-loglevel", "error",
    "-protocol_whitelist", "whitelist", "-rw_timeout", "15000000",
    "-fflags", "nobuffer", "-flags", "low_delay", "-probesize", "1048576",
    "-analyzeduration", "2000000">>
InputWords == <<"-thread_queue_size", "8", "-i">>
MapWords == <<"-map", "0:v:0", "-an", "-sn", "-dn", "-vf">>
EncodeWords == <<"-threads", "2", "-c:v", "mjpeg", "-q:v", "3", "-f", "image2pipe", "pipe:1">>

(* Where they stand, with the options b and c for the protocol.            *)
PartsAt(line, path, url, p, b, c) ==
  /\ Len(line) = 37 + 2 * p
  /\ \A i \in 1..17 : line[i] = <<HeadWords(path)[i]>>
  /\ \A j \in 1..Len(b) : line[17 + j] = <<b[j]>>
  /\ \A j \in 1..Len(c) : line[17 + Len(b) + j] = <<c[j]>>
  /\ \A j \in 1..3 : line[17 + 2 * p + j] = <<InputWords[j]>>
  /\ line[21 + 2 * p] = url
  /\ \A j \in 1..6 : line[21 + 2 * p + j] = <<MapWords[j]>>
  /\ \A j \in 1..9 : line[28 + 2 * p + j] = <<EncodeWords[j]>>

(* What stands in the daemon's command lines.                              *)
LEMMA LineParts ==
  ASSUME NEW T, NEW path, NEW url \in Seq(T), NEW fps, NEW line,
         line = BuildFfmpegArguments(path, url, fps),
         NEW B, NEW b \in Seq(B), NEW c \in Seq(B), NEW p \in Nat, Len(b) + Len(c) = 2 * p,
         b = IF SchemeOf(url) \in {"http", "https"} THEN HttpOptions ELSE <<>>,
         c = IF SchemeOf(url) \in {"rtsp", "rtsps"} THEN <<"-rtsp_transport", "tcp">> ELSE <<>>
  PROVE  PartsAt(line, path, url, p, b, c)
<1>1. PICK a, d, f, h : a = HeadWords(path) /\ d = InputWords /\ f = MapWords /\ h = EncodeWords
  OBVIOUS
<1>5. PICK g : g = <<<<"fps=", ToString(fps), ",scale=1280:720">>>>
  OBVIOUS
<1>6. PICK e : e = <<url>>
  OBVIOUS
<1>7. line = Words(a) \o Words(b) \o Words(c) \o Words(d) \o e \o Words(f) \o g \o Words(h)
  BY <1>1, <1>5, <1>6 DEF BuildFfmpegArguments, HeadWords, InputWords, MapWords, EncodeWords
<1>8. /\ DOMAIN a = 1..17 /\ a = [i \in DOMAIN a |-> a[i]]
      /\ DOMAIN d = 1..3 /\ d = [i \in DOMAIN d |-> d[i]]
      /\ DOMAIN f = 1..6 /\ f = [i \in DOMAIN f |-> f[i]]
      /\ DOMAIN h = 1..9 /\ h = [i \in DOMAIN h |-> h[i]]
  BY <1>1 DEF HeadWords, InputWords, MapWords, EncodeWords
<1>9. PICK S : S = T \cup B \cup {"fps=", ToString(fps), ",scale=1280:720"}
                   \cup {a[i] : i \in 1..17} \cup {d[i] : i \in 1..3}
                   \cup {f[i] : i \in 1..6} \cup {h[i] : i \in 1..9}
  OBVIOUS
<1>10. /\ T \subseteq S /\ B \subseteq S
       /\ \A i \in 1..17 : a[i] \in S
       /\ \A i \in 1..3 : d[i] \in S
       /\ \A i \in 1..6 : f[i] \in S
       /\ \A i \in 1..9 : h[i] \in S
  BY <1>9
<1>11. /\ a \in Seq(S) /\ Len(a) = 17 /\ d \in Seq(S) /\ Len(d) = 3
       /\ f \in Seq(S) /\ Len(f) = 6 /\ h \in Seq(S) /\ Len(h) = 9
  <2>1. 17 \in Nat /\ 3 \in Nat /\ 6 \in Nat /\ 9 \in Nat
    OBVIOUS
  <2>2. a \in Seq(S) /\ Len(a) = 17
    <3>1. IsTuple(S, a, 17)
      BY <1>8, <1>10, Zenon DEF IsTuple
    <3> QED BY <2>1, <3>1, TupleIsSeq, Zenon
  <2>3. d \in Seq(S) /\ Len(d) = 3
    <3>1. IsTuple(S, d, 3)
      BY <1>8, <1>10, Zenon DEF IsTuple
    <3> QED BY <2>1, <3>1, TupleIsSeq, Zenon
  <2>4. f \in Seq(S) /\ Len(f) = 6
    <3>1. IsTuple(S, f, 6)
      BY <1>8, <1>10, Zenon DEF IsTuple
    <3> QED BY <2>1, <3>1, TupleIsSeq, Zenon
  <2>5. h \in Seq(S) /\ Len(h) = 9
    <3>1. IsTuple(S, h, 9)
      BY <1>8, <1>10, Zenon DEF IsTuple
    <3> QED BY <2>1, <3>1, TupleIsSeq, Zenon
  <2> QED BY <2>2, <2>3, <2>4, <2>5
<1>12. g \in Seq(Seq(S)) /\ Len(g) = 1
  <2>1. PICK x, y, z : x = "fps=" /\ y = ToString(fps) /\ z = ",scale=1280:720"
    OBVIOUS
  <2>2. x \in S /\ y \in S /\ z \in S
    BY <1>9, <2>1
  <2>3. <<x, y, z>> \in Seq(S)
    BY <2>2
  <2>4. PICK w : w = <<x, y, z>>
    OBVIOUS
  <2>5. g = <<w>> /\ w \in Seq(S)
    BY <1>5, <2>1, <2>3, <2>4
  <2> QED BY <2>5
<1>13. b \in Seq(S) /\ c \in Seq(S) /\ url \in Seq(S)
  BY <1>10, SeqMonotonic
<1>14. e \in Seq(Seq(S)) /\ Len(e) = 1 /\ e[1] = url
  BY <1>6, <1>13
<1>15. /\ Words(a) \in Seq(Seq(S)) /\ Len(Words(a)) = 17 /\ \A i \in 1..17 : Words(a)[i] = <<a[i]>>
       /\ Words(b) \in Seq(Seq(S)) /\ Len(Words(b)) = Len(b) /\ \A i \in 1..Len(b) : Words(b)[i] = <<b[i]>>
       /\ Words(c) \in Seq(Seq(S)) /\ Len(Words(c)) = Len(c) /\ \A i \in 1..Len(c) : Words(c)[i] = <<c[i]>>
       /\ Words(d) \in Seq(Seq(S)) /\ Len(Words(d)) = 3 /\ \A i \in 1..3 : Words(d)[i] = <<d[i]>>
       /\ Words(f) \in Seq(Seq(S)) /\ Len(Words(f)) = 6 /\ \A i \in 1..6 : Words(f)[i] = <<f[i]>>
       /\ Words(h) \in Seq(Seq(S)) /\ Len(Words(h)) = 9 /\ \A i \in 1..9 : Words(h)[i] = <<h[i]>>
  BY <1>11, <1>13, WordsAre
<1>16. PICK wa, wb, wc, wd, wf, wh :
         wa = Words(a) /\ wb = Words(b) /\ wc = Words(c) /\ wd = Words(d) /\ wf = Words(f) /\ wh = Words(h)
  OBVIOUS
<1>17. EightAt(line, wa, wb, wc, wd, e, wf, g, wh)
  <2>1. line = wa \o wb \o wc \o wd \o e \o wf \o g \o wh
    BY <1>7, <1>16
  <2>2. /\ wa \in Seq(Seq(S)) /\ wb \in Seq(Seq(S)) /\ wc \in Seq(Seq(S)) /\ wd \in Seq(Seq(S))
        /\ wf \in Seq(Seq(S)) /\ wh \in Seq(Seq(S))
    BY <1>15, <1>16
  <2> QED BY <1>12, <1>14, <2>1, <2>2, EightJoined, Zenon
<1>18. /\ Len(wa) = 17 /\ Len(wb) = Len(b) /\ Len(wc) = Len(c) /\ Len(wd) = 3 /\ Len(wf) = 6 /\ Len(wh) = 9
  BY <1>15, <1>16
<1>19. Len(b) \in Nat /\ Len(c) \in Nat
  OBVIOUS
<1>20. PICK m, n : m = Len(b) /\ n = Len(c)
  OBVIOUS
<1>21. /\ Len(line) = 37 + 2 * p
       /\ At(line, 0, wa) /\ At(line, 17, wb) /\ At(line, 17 + m, wc)
       /\ At(line, 17 + 2 * p, wd) /\ At(line, 20 + 2 * p, e)
       /\ At(line, 21 + 2 * p, wf) /\ At(line, 28 + 2 * p, wh)
  <2>1. /\ 17 + m + n = 17 + 2 * p
        /\ 17 + m + n + 3 = 20 + 2 * p /\ 17 + m + n + 3 + 1 = 21 + 2 * p
        /\ 17 + m + n + 3 + 1 + 6 + 1 = 28 + 2 * p /\ 17 + m + n + 3 + 1 + 6 + 1 + 9 = 37 + 2 * p
    <3>1. m \in Nat /\ n \in Nat /\ m + n = 2 * p
      BY <1>19, <1>20
    <3> QED BY <3>1
  <2>2. /\ Len(line) = 17 + m + n + 3 + 1 + 6 + 1 + 9
        /\ At(line, 0, wa) /\ At(line, 17, wb) /\ At(line, 17 + m, wc)
        /\ At(line, 17 + m + n, wd) /\ At(line, 17 + m + n + 3, e)
        /\ At(line, 17 + m + n + 3 + 1, wf) /\ At(line, 17 + m + n + 3 + 1 + 6 + 1, wh)
    BY <1>12, <1>14, <1>17, <1>18, <1>20, Zenon DEF EightAt
  <2> QED BY <2>1, <2>2, Zenon
<1>22. \A i \in 1..17 : line[i] = <<a[i]>>
  <2>1. \A i \in 1..17 : line[0 + i] = wa[i]
    BY <1>18, <1>21, Zenon DEF At
  <2>2. \A i \in 1..17 : 0 + i = i
    OBVIOUS
  <2>3. \A i \in 1..17 : wa[i] = <<a[i]>>
    BY <1>15, <1>16, Zenon
  <2> QED BY <2>1, <2>2, <2>3, Zenon
<1>23. \A j \in 1..Len(b) : line[17 + j] = <<b[j]>>
  <2>1. \A j \in 1..Len(b) : line[17 + j] = wb[j]
    BY <1>18, <1>21, Zenon DEF At
  <2>2. \A j \in 1..Len(b) : wb[j] = <<b[j]>>
    BY <1>15, <1>16, Zenon
  <2> QED BY <2>1, <2>2, Zenon
<1>24. \A j \in 1..Len(c) : line[17 + Len(b) + j] = <<c[j]>>
  <2>1. \A j \in 1..Len(c) : line[17 + m + j] = wc[j]
    BY <1>18, <1>21, Zenon DEF At
  <2>2. \A j \in 1..Len(c) : wc[j] = <<c[j]>>
    BY <1>15, <1>16, Zenon
  <2> QED BY <1>20, <2>1, <2>2, Zenon
<1>25. \A j \in 1..3 : line[17 + 2 * p + j] = <<d[j]>>
  <2>1. \A j \in 1..3 : line[17 + 2 * p + j] = wd[j]
    BY <1>18, <1>21, Zenon DEF At
  <2>2. \A j \in 1..3 : wd[j] = <<d[j]>>
    BY <1>15, <1>16, Zenon
  <2> QED BY <2>1, <2>2, Zenon
<1>26. line[21 + 2 * p] = url
  <2>1. line[20 + 2 * p + 1] = e[1]
    BY <1>14, <1>21 DEF At
  <2>2. 20 + 2 * p + 1 = 21 + 2 * p
    OBVIOUS
  <2> QED BY <1>14, <2>1, <2>2
<1>27. \A j \in 1..6 : line[21 + 2 * p + j] = <<f[j]>>
  BY <1>15, <1>16, <1>18, <1>21 DEF At
<1>28. \A j \in 1..9 : line[28 + 2 * p + j] = <<h[j]>>
  BY <1>15, <1>16, <1>18, <1>21 DEF At
<1> QED BY <1>1, <1>21, <1>22, <1>23, <1>24, <1>25, <1>26, <1>27, <1>28, Zenon DEF PartsAt

(* The daemon's command lines have this shape.                             *)
LEMMA ArgumentsAre ==
  ASSUME NEW T, NEW path, NEW url \in Seq(T), NEW fps
  PROVE  \E p \in {0, 1, 7} : Shape(BuildFfmpegArguments(path, url, fps), url, p)
<1>0. PICK line, b, c :
        /\ line = BuildFfmpegArguments(path, url, fps)
        /\ b = IF SchemeOf(url) \in {"http", "https"} THEN HttpOptions ELSE <<>>
        /\ c = IF SchemeOf(url) \in {"rtsp", "rtsps"} THEN <<"-rtsp_transport", "tcp">> ELSE <<>>
  OBVIOUS
<1>1. PICK p \in {0, 1, 7} :
        /\ b \in Seq(InputOptions \cup {"tcp"}) /\ c \in Seq(InputOptions \cup {"tcp"})
        /\ Len(b) + Len(c) = 2 * p /\ Len(b) % 2 = 0
        /\ \A i \in 1..Len(b) : i % 2 = 1 => b[i] \in InputOptions
        /\ \A i \in 1..Len(c) : i % 2 = 1 => c[i] \in InputOptions
  <2>1. \E p \in {0, 1, 7} : PairsAre(InputOptions \cup {"tcp"}, b, c, p)
    BY <1>0, ProtocolPairs
  <2> QED BY <2>1, Zenon DEF PairsAre
<1>2. PartsAt(line, path, url, p, b, c)
  <2>1. p \in Nat
    OBVIOUS
  <2> QED BY <1>0, <1>1, <2>1, LineParts, Zenon
<1>3. PICK a, d, f, h : a = HeadWords(path) /\ d = InputWords /\ f = MapWords /\ h = EncodeWords
  OBVIOUS
<1>4. /\ Len(line) = 37 + 2 * p
      /\ \A i \in 1..17 : line[i] = <<a[i]>>
      /\ \A j \in 1..Len(b) : line[17 + j] = <<b[j]>>
      /\ \A j \in 1..Len(c) : line[17 + Len(b) + j] = <<c[j]>>
      /\ \A j \in 1..3 : line[17 + 2 * p + j] = <<d[j]>>
      /\ line[21 + 2 * p] = url
      /\ \A j \in 1..6 : line[21 + 2 * p + j] = <<f[j]>>
      /\ \A j \in 1..9 : line[28 + 2 * p + j] = <<h[j]>>
  BY <1>2, <1>3, Zenon DEF PartsAt
<1>5. /\ a[2] \in Flags /\ a[3] \in Flags /\ a[4] = "-loglevel" /\ a[6] = "-protocol_whitelist"
      /\ a[7] = "whitelist" /\ a[8] \in InputOptions /\ a[10] \in InputOptions
      /\ a[12] \in InputOptions /\ a[14] \in InputOptions /\ a[16] \in InputOptions
  BY <1>3 DEF HeadWords, Flags, InputOptions
<1>6. /\ d[1] \in InputOptions /\ d[3] = "-i"
      /\ f[1] \in OtherOptions \ {"-i"} /\ f[3] \in Flags /\ f[4] \in Flags /\ f[5] \in Flags
      /\ f[6] \in OtherOptions \ {"-i"}
  BY <1>3 DEF InputWords, MapWords, Flags, InputOptions, OtherOptions
<1>7. /\ h[1] \in OtherOptions \ {"-i"} /\ h[3] \in OtherOptions \ {"-i"}
      /\ h[5] \in OtherOptions \ {"-i"} /\ h[7] \in OtherOptions \ {"-i"} /\ h[9] = "pipe:1"
  BY <1>3 DEF EncodeWords, OtherOptions
<1>18. Len(b) \in Nat /\ Len(c) \in Nat
  BY <1>1, LenProperties
<1>27. /\ line[2][1] \in Flags /\ line[3][1] \in Flags
       /\ line[6] = <<"-protocol_whitelist">> /\ line[7] = <<"whitelist">>
  <2>1. \A i \in 1..17 : line[i] = <<a[i]>>
    BY <1>4
  <2>2. line[2] = <<a[2]>> /\ line[3] = <<a[3]>> /\ line[6] = <<a[6]>> /\ line[7] = <<a[7]>>
    BY <2>1
  <2> QED BY <1>5, <2>2
<1>28. \A i \in 4..(19 + 2 * p) : i % 2 = 0 => line[i][1] \in InputOptions \cup {"-loglevel"}
  <2> SUFFICES ASSUME NEW i \in 4..(19 + 2 * p), i % 2 = 0
               PROVE  line[i][1] \in InputOptions \cup {"-loglevel"}
    OBVIOUS
  <2>1. CASE i <= 17
    <3>1. i \in {4, 6, 8, 10, 12, 14, 16}
      BY <2>1
    <3>2. a[i] \in InputOptions \cup {"-loglevel"}
      BY <1>5, <3>1, WordsDiffer
    <3>3. line[i] = <<a[i]>>
      <4>1. \A k \in 1..17 : line[k] = <<a[k]>>
        BY <1>4
      <4> QED BY <3>1, <4>1
    <3> QED BY <3>2, <3>3
  <2>2. CASE i \in 18..(17 + Len(b))
    <3>1. PICK j \in 1..Len(b) : i = 17 + j
      <4>1. i - 17 \in 1..Len(b) /\ i = 17 + (i - 17)
        BY <1>18, <2>2
      <4> QED BY <4>1
    <3>2. j % 2 = 1
      BY <1>18, <3>1
    <3>3. line[i] = <<b[j]>> /\ b[j] \in InputOptions
      BY <1>1, <1>4, <3>1, <3>2
    <3> QED BY <3>3
  <2>3. CASE i \in (18 + Len(b))..(17 + 2 * p)
    <3>1. PICK j \in 1..Len(c) : i = 17 + Len(b) + j
      <4>1. i - 17 - Len(b) \in 1..Len(c) /\ i = 17 + Len(b) + (i - 17 - Len(b))
        BY <1>1, <1>18, <2>3
      <4> QED BY <4>1
    <3>2. j % 2 = 1
      <4>1. PICK m : m = Len(b)
        OBVIOUS
      <4>2. m \in Nat /\ m % 2 = 0 /\ i = 17 + m + j /\ j \in Int
        BY <1>1, <1>18, <3>1, <4>1
      <4> QED BY <4>2
    <3>3. line[i] = <<c[j]>> /\ c[j] \in InputOptions
      BY <1>1, <1>4, <3>1, <3>2
    <3> QED BY <3>3
  <2>4. CASE i = 18 + 2 * p
    <3>1. i = 17 + 2 * p + 1
      BY <1>1, <2>4
    <3>2. line[i] = <<d[1]>>
      BY <1>4, <3>1
    <3> QED BY <1>6, <3>2
  <2>5. i # 19 + 2 * p
    BY <1>1
  <2> QED BY <1>1, <1>18, <2>1, <2>2, <2>3, <2>4, <2>5
<1>29. /\ line[20 + 2 * p] = <<"-i">> /\ line[22 + 2 * p][1] \in OtherOptions \ {"-i"}
  <2>1. 20 + 2 * p = 17 + 2 * p + 3 /\ 22 + 2 * p = 21 + 2 * p + 1
    BY <1>1
  <2>2. line[20 + 2 * p] = <<d[3]>> /\ line[22 + 2 * p] = <<f[1]>>
    <3>1. /\ \A j \in 1..3 : line[17 + 2 * p + j] = <<d[j]>>
          /\ \A j \in 1..6 : line[21 + 2 * p + j] = <<f[j]>>
      BY <1>4
    <3>2. line[17 + 2 * p + 3] = <<d[3]>> /\ line[21 + 2 * p + 1] = <<f[1]>>
      BY <3>1
    <3> QED BY <2>1, <3>2
  <2> QED BY <1>6, <2>2
<1>30. \A i \in (24 + 2 * p)..(26 + 2 * p) : line[i][1] \in Flags
  <2> TAKE i \in (24 + 2 * p)..(26 + 2 * p)
  <2>1. PICK j \in {3, 4, 5} : i = 21 + 2 * p + j
    <3>1. i - 21 - 2 * p \in {3, 4, 5} /\ i = 21 + 2 * p + (i - 21 - 2 * p)
      BY <1>1
    <3> QED BY <3>1
  <2>2. line[i] = <<f[j]>>
    <3>1. \A k \in 1..6 : line[21 + 2 * p + k] = <<f[k]>>
      BY <1>4
    <3> QED BY <2>1, <3>1
  <2> QED BY <1>6, <2>2
<1>31. \A i \in (27 + 2 * p)..(36 + 2 * p) : i % 2 = 1 => line[i][1] \in OtherOptions \ {"-i"}
  <2> SUFFICES ASSUME NEW i \in (27 + 2 * p)..(36 + 2 * p), i % 2 = 1
               PROVE  line[i][1] \in OtherOptions \ {"-i"}
    OBVIOUS
  <2>1. CASE i = 27 + 2 * p
    <3>1. i = 21 + 2 * p + 6
      BY <1>1, <2>1
    <3>2. line[i] = <<f[6]>>
      <4>1. \A k \in 1..6 : line[21 + 2 * p + k] = <<f[k]>>
        BY <1>4
      <4> QED BY <3>1, <4>1
    <3> QED BY <1>6, <3>2
  <2>2. CASE i # 27 + 2 * p
    <3>1. PICK j \in {1, 3, 5, 7} : i = 28 + 2 * p + j
      <4>1. i - 28 - 2 * p \in {1, 3, 5, 7} /\ i = 28 + 2 * p + (i - 28 - 2 * p)
        BY <1>1, <2>2
      <4> QED BY <4>1
    <3>2. line[i] = <<h[j]>>
      <4>1. \A k \in 1..9 : line[28 + 2 * p + k] = <<h[k]>>
        BY <1>4
      <4>2. j \in 1..9
        BY <3>1
      <4> QED BY <3>1, <4>1, <4>2, Zenon
    <3> QED BY <1>7, <3>1, <3>2
  <2> QED BY <2>1, <2>2
<1>32. line[37 + 2 * p] = <<"pipe:1">>
  <2>1. 37 + 2 * p = 28 + 2 * p + 9
    BY <1>1
  <2>2. \A k \in 1..9 : line[28 + 2 * p + k] = <<h[k]>>
    BY <1>4
  <2>3. line[37 + 2 * p] = <<h[9]>>
    BY <2>1, <2>2
  <2> QED BY <1>7, <2>3
<1>33. Shape(line, url, p)
  BY <1>4, <1>27, <1>28, <1>29, <1>30, <1>31, <1>32, Zenon DEF Shape
<1> QED BY <1>0, <1>33

(* A URL of a known scheme is played by its command line.                  *)
LEMMA LinePlays ==
  ASSUME NEW T, NEW path, NEW url \in Seq(T), NEW fps, SchemeOf(url) \in kSchemes
  PROVE  PlaysOnly(url, BuildFfmpegArguments(path, url, fps))
<1>1. PICK p \in {0, 1, 7} : Shape(BuildFfmpegArguments(path, url, fps), url, p)
  BY ArgumentsAre
<1>2. SchemeOf(url) \in FfmpegProtocolWhitelist
  BY DEF kSchemes, FfmpegProtocolWhitelist
<1> QED BY <1>1, <1>2, ShapePlays

-------------------------------------------------------------------------------
(* Answers *)

(* FlattenSeq is what its definition says.                                 *)
LEMMA FlattenIs ==
  ASSUME NEW S, NEW s \in Seq(Seq(S)), s # <<>>
  PROVE  \E f : /\ f[1] = s[1] /\ \A i \in 2..Len(s) : f[i] = f[i - 1] \o s[i]
                /\ FlattenSeq(s) = f[Len(s)]
<1> DEFINE L == Len(s)
           Step(f, i) == IF i = 1 THEN s[i] ELSE f[i - 1] \o s[i]
           Has(n) == \E f : f = [i \in 1..n |-> Step(f, i)]
           H == {n \in 1..L : Has(n)}
<1>1. L \in Nat \ {0}
  BY EmptySeq
<1>2. Has(1)
  <2>1. PICK g : g = [i \in 1..1 |-> s[i]]
    OBVIOUS
  <2>2. \A i \in 1..1 : s[i] = Step(g, i)
    OBVIOUS
  <2>3. g = [i \in 1..1 |-> Step(g, i)]
    BY <2>1, <2>2
  <2> QED BY <2>3
<1>3. ASSUME NEW n \in 1..L, Has(n) PROVE Has(n + 1)
  <2>1. PICK f : f = [i \in 1..n |-> Step(f, i)]
    BY <1>3
  <2> DEFINE g == [i \in 1..(n + 1) |-> IF i = n + 1 THEN Step(f, i) ELSE f[i]]
  <2>2. \A i \in 1..(n + 1) : g[i] = Step(g, i)
    <3> TAKE i \in 1..(n + 1)
    <3>1. i # 1 => i - 1 \in 1..(n + 1) /\ i - 1 # n + 1
      BY <1>3
    <3>2. i # 1 => g[i - 1] = f[i - 1]
      BY <3>1
    <3>3. Step(g, i) = Step(f, i)
      BY <3>2
    <3>4. i # n + 1 => f[i] = Step(f, i)
      <4>1. i # n + 1 => i \in 1..n
        BY <1>3
      <4> QED BY <2>1, <4>1
    <3> QED BY <3>3, <3>4
  <2>3. g = [i \in 1..(n + 1) |-> Step(g, i)]
    BY <2>2
  <2> QED BY <2>3
<1> HIDE DEF Has
<1>4. 1..L \subseteq H
  <2>1. 1 \in H
    BY <1>1, <1>2
  <2>2. \A k \in 2..L : k - 1 \in H => k \in H
    <3> TAKE k \in 2..L
    <3> HAVE k - 1 \in H
    <3>1. PICK n : n = k - 1
      OBVIOUS
    <3>2. n \in 1..L /\ Has(n) /\ n + 1 = k
      BY <1>1, <3>1
    <3>3. Has(k)
      BY <1>3, <3>2
    <3> QED BY <1>1, <3>3
  <2> HIDE DEF H, L
  <2> QED BY <1>1, <2>1, <2>2, FromOne
<1>5. Has(L)
  BY <1>1, <1>4
<1> DEFINE F(f) == f = [i \in 1..Len(s) |-> IF i = 1 THEN s[i] ELSE f[i - 1] \o s[i]]
           c == CHOOSE f : F(f)
<1>6. F(c)
  BY <1>5 DEF Has
<1>7. FlattenSeq(s) = c[Len(s)]
  BY <1>1 DEF FlattenSeq
<1>8. \A i \in 1..L : c[i] = Step(c, i)
  BY <1>6
<1> HIDE DEF c
<1>9. c[1] = s[1] /\ \A i \in 2..L : c[i] = c[i - 1] \o s[i]
  <2>1. 1 \in 1..L /\ \A i \in 2..L : i \in 1..L /\ i # 1
    BY <1>1
  <2> QED BY <1>8, <2>1
<1> QED BY <1>7, <1>9

(* In a JSON string a quote follows a backslash, and each token is there.  *)
Escaped(S, j, n) ==
  /\ j \in Seq(S) /\ Len(j) >= n
  /\ \A i \in 1..Len(j) : j[i] = "\"" => i > 1 /\ j[i - 1] = "\\"

(* One more token.                                                         *)
LEMMA EscapedMore ==
  ASSUME NEW S, NEW r, NEW n \in Nat, Escaped(S, r, n), NEW t, Escaped(S, t, 1)
  PROVE  Escaped(S, r \o t, n + 1)
<1>1. PICK q : q = r \o t
  OBVIOUS
<1>2. r \in Seq(S) /\ t \in Seq(S) /\ Len(r) \in Nat /\ Len(t) \in Nat /\ Len(r) >= n /\ Len(t) >= 1
  BY LenProperties DEF Escaped
<1>3. /\ q \in Seq(S) /\ Len(q) = Len(r) + Len(t)
      /\ \A i \in 1..Len(r) : q[i] = r[i]
      /\ \A j \in 1..Len(t) : q[Len(r) + j] = t[j]
  BY <1>1, <1>2, ConcatJoins DEF Joined
<1>4. ASSUME NEW i \in 1..Len(q), q[i] = "\"" PROVE i > 1 /\ q[i - 1] = "\\"
  <2>1. CASE i <= Len(r)
    <3>0. i \in 1..Len(r)
      BY <1>2, <2>1
    <3>1. i \in 1..Len(r) /\ r[i] = "\""
      BY <1>3, <1>4, <3>0, Zenon
    <3>2. i > 1 /\ r[i - 1] = "\\"
      BY <3>1 DEF Escaped
    <3>3. i - 1 \in 1..Len(r)
      <4>1. PICK k : k = Len(r)
        OBVIOUS
      <4>2. k \in Nat /\ i \in 1..k /\ i > 1
        BY <1>2, <3>0, <3>2, <4>1
      <4>3. i - 1 \in 1..k
        BY <4>2
      <4> QED BY <4>1, <4>3
    <3> QED BY <1>3, <3>2, <3>3
  <2>2. CASE ~ (i <= Len(r))
    <3>1. PICK j : j = i - Len(r)
      OBVIOUS
    <3>2. j \in 1..Len(t) /\ i = Len(r) + j
      BY <1>2, <1>3, <2>2, <3>1
    <3>3. t[j] = "\""
      BY <1>3, <1>4, <3>2
    <3>4. j > 1 /\ t[j - 1] = "\\"
      BY <3>2, <3>3 DEF Escaped
    <3>5. j - 1 \in 1..Len(t) /\ i - 1 = Len(r) + (j - 1)
      BY <1>2, <3>2, <3>4
    <3>6. q[Len(r) + (j - 1)] = t[j - 1]
      BY <1>3, <3>5
    <3> QED BY <1>2, <3>2, <3>4, <3>5, <3>6
  <2> QED BY <2>1, <2>2
<1>5. Len(q) >= n + 1
  BY <1>2, <1>3
<1> QED BY <1>1, <1>3, <1>4, <1>5 DEF Escaped

(* What one token becomes.                                                 *)
OneEscaped(token) ==
  CASE token \in {"\"", "\\"} -> <<"\\", token>>
    [] token \in ControlTokens \ {"DEL"} -> <<"\\", "letter">>
    [] OTHER -> <<token>>

(* It is escaped.                                                          *)
LEMMA OneIs ==
  ASSUME NEW S, "\\" \in S, "letter" \in S, NEW token \in S
  PROVE  /\ Escaped(S, OneEscaped(token), 1)
         /\ \A other : OneEscaped(token) = <<other>> => token = other
<1>0. "\\" # "\"" /\ "letter" # "\"" /\ {"\"", "\\"} \cap ControlTokens = {}
  BY DEF ControlTokens
<1>1. CASE token \in {"\"", "\\"}
  <2>1. PICK r : r = <<"\\", token>>
    OBVIOUS
  <2>2. r \in Seq(S) /\ Len(r) = 2 /\ r[1] = "\\" /\ r[2] = token
    BY <2>1
  <2>3. Escaped(S, r, 1)
    <3>1. \A i \in 1..Len(r) : i = 1 \/ i = 2
      BY <2>2
    <3>2. \A i \in 1..Len(r) : r[i] = "\"" => i > 1 /\ r[i - 1] = "\\"
      <4>1. r[1] # "\""
        BY <1>0, <2>2, Zenon
      <4>2. 2 > 1 /\ 2 - 1 = 1
        OBVIOUS
      <4> QED BY <2>2, <3>1, <4>1, <4>2
    <3>3. Len(r) >= 1
      BY <2>2
    <3> QED BY <2>2, <3>2, <3>3 DEF Escaped
  <2>4. OneEscaped(token) = r
    BY <1>0, <1>1, <2>1 DEF OneEscaped
  <2>5. \A other : r # <<other>>
    BY <2>2
  <2> QED BY <2>3, <2>4, <2>5
<1>2. CASE token \in ControlTokens \ {"DEL"}
  <2>1. PICK r : r = <<"\\", "letter">>
    OBVIOUS
  <2>2. r \in Seq(S) /\ Len(r) = 2 /\ r[1] = "\\" /\ r[2] = "letter"
    BY <2>1
  <2>3. Escaped(S, r, 1)
    <3>1. \A i \in 1..Len(r) : i = 1 \/ i = 2
      BY <2>2
    <3>2. \A i \in 1..Len(r) : r[i] = "\"" => i > 1 /\ r[i - 1] = "\\"
      <4>1. r[1] # "\""
        BY <1>0, <2>2, Zenon
      <4>2. 2 > 1 /\ 2 - 1 = 1
        OBVIOUS
      <4> QED BY <2>2, <3>1, <4>1, <4>2
    <3>3. Len(r) >= 1
      BY <2>2
    <3> QED BY <2>2, <3>2, <3>3 DEF Escaped
  <2>4. OneEscaped(token) = r
    BY <1>0, <1>2, <2>1 DEF OneEscaped
  <2>5. \A other : r # <<other>>
    BY <2>2
  <2> QED BY <2>3, <2>4, <2>5
<1>3. CASE token \notin {"\"", "\\"} /\ token \notin ControlTokens \ {"DEL"}
  <2>1. PICK r : r = <<token>>
    OBVIOUS
  <2>2. r \in Seq(S) /\ Len(r) = 1 /\ r[1] = token
    BY <2>1
  <2>3. Escaped(S, r, 1)
    <3>1. \A i \in 1..Len(r) : i = 1
      BY <2>2
    <3>2. \A i \in 1..Len(r) : r[i] = "\"" => i > 1 /\ r[i - 1] = "\\"
      BY <1>3, <2>2, <3>1
    <3>3. Len(r) >= 1
      BY <2>2
    <3> QED BY <2>2, <3>2, <3>3 DEF Escaped
  <2>4. OneEscaped(token) = r
    BY <1>3, <2>1 DEF OneEscaped
  <2>5. \A other : r = <<other>> => token = other
    BY <2>1
  <2> QED BY <2>3, <2>4, <2>5
<1> QED BY <1>1, <1>2, <1>3

(* JsonEscape escapes, and leaves no token out.                            *)
LEMMA EscapeIs ==
  ASSUME NEW S, "\\" \in S, "letter" \in S, NEW text \in Seq(S)
  PROVE  /\ Escaped(S, JsonEscape(text), Len(text))
         /\ \A other : JsonEscape(text) = <<other>> => text = <<other>>
<1> DEFINE n == Len(text)
<1>1. PICK s : s = [i \in DOMAIN text |-> OneEscaped(text[i])]
  OBVIOUS
<1>2. n \in Nat /\ DOMAIN text = 1..n /\ \A i \in 1..n : text[i] \in S
  OBVIOUS
<1>3. JsonEscape(text) = FlattenSeq(s)
  BY <1>1, Zenon DEF JsonEscape, OneEscaped
<1>4. \A i \in 1..n : s[i] = OneEscaped(text[i]) /\ Escaped(S, s[i], 1)
  BY <1>1, <1>2, OneIs
<1>5. s \in Seq(Seq(S)) /\ Len(s) = n
  <2>1. \A i \in 1..n : s[i] \in Seq(S)
    BY <1>4 DEF Escaped
  <2>2. s = [i \in 1..n |-> s[i]]
    BY <1>1, <1>2
  <2> QED BY <1>2, <2>1, <2>2
<1>6. CASE n = 0
  <2>1. s = <<>> /\ text = <<>>
    BY <1>5, <1>6, EmptySeq
  <2>2. FlattenSeq(s) = <<>>
    BY <1>5, <1>6, <2>1 DEF FlattenSeq
  <2>3. Escaped(S, <<>>, 0)
    BY NoTokens DEF Escaped
  <2>4. \A other : <<>> # <<other>>
    OBVIOUS
  <2> QED BY <1>3, <1>6, <2>2, <2>3, <2>4
<1>7. CASE n # 0
  <2>1. PICK f : /\ f[1] = s[1] /\ \A i \in 2..Len(s) : f[i] = f[i - 1] \o s[i]
                 /\ FlattenSeq(s) = f[Len(s)]
    <3>1. s # <<>>
      BY <1>5, <1>7, NoTokens
    <3> QED BY <1>5, <3>1, FlattenIs
  <2> DEFINE H == {i \in 1..n : Escaped(S, f[i], i)}
  <2>2. 1 \in H
    BY <1>2, <1>4, <1>7, <2>1
  <2>3. \A k \in 2..n : k - 1 \in H => k \in H
    <3> TAKE k \in 2..n
    <3> HAVE k - 1 \in H
    <3>1. k - 1 \in Nat /\ Escaped(S, f[k - 1], k - 1) /\ (k - 1) + 1 = k /\ k \in 1..n
      BY <1>2
    <3>2. Escaped(S, f[k - 1] \o s[k], (k - 1) + 1)
      BY <1>4, <3>1, EscapedMore
    <3>3. f[k] = f[k - 1] \o s[k]
      BY <1>5, <2>1
    <3>4. Escaped(S, f[k], k)
      BY <3>1, <3>2, <3>3
    <3> QED BY <3>1, <3>4
  <2>4. Escaped(S, f[n], n)
    <3>1. 1..n \subseteq H
      <4> HIDE DEF H
      <4> QED BY <1>2, <2>2, <2>3, FromOne
    <3> QED BY <1>2, <1>7, <3>1
  <2>5. JsonEscape(text) = f[n]
    BY <1>3, <1>5, <2>1
  <2>6. ASSUME NEW other, f[n] = <<other>> PROVE text = <<other>>
    <3>1. n <= 1
      BY <1>2, <2>4, <2>6 DEF Escaped
    <3>2. n = 1 /\ 1 \in 1..n
      BY <1>2, <1>7, <3>1
    <3>3. OneEscaped(text[1]) = <<other>> /\ text[1] \in S
      BY <1>2, <1>4, <2>1, <2>6, <3>2
    <3>4. text[1] = other
      BY <3>3, OneIs
    <3>5. text = <<other>>
      BY <3>2, <3>4
    <3> QED BY <3>5
  <2> QED BY <2>4, <2>5, <2>6
<1> QED BY <1>6, <1>7

(* The tokens of requests and answers.                                     *)
Token ==
  STRING \cup
  {"\\", "letter", "\"", "ok", ":false", "{", ",error:", "}", "{running,...,error:",
   "permission denied", "command too large", "START", "STOP", "STATUS", NL, ".", "=",
   "url", "video_device", "/dev/video", "100", "width", "1280", "height", "720",
   "fps", "30", "rotation", "0", "90", "180", "270", "mirror", "1", "torn", "flood"}

(* Three sequences in a row.                                               *)
Three(S, r, a, b, c) ==
  /\ r \in Seq(S) /\ Len(r) = Len(a) + Len(b) + Len(c)
  /\ At(r, 0, a) /\ At(r, Len(a), b) /\ At(r, Len(a) + Len(b), c)

(* Their concatenation.                                                    *)
LEMMA ThreeJoined ==
  ASSUME NEW S, NEW a \in Seq(S), NEW b \in Seq(S), NEW c \in Seq(S), NEW r, r = a \o b \o c
  PROVE  Three(S, r, a, b, c)
<1>1. PICK x : x = a \o b
  OBVIOUS
<1>2. Extends(S, x, a, b)
  BY <1>1, JoinedAt
<1>3. r = x \o c /\ x \in Seq(S)
  BY <1>1, <1>2 DEF Extends
<1>4. Extends(S, r, x, c)
  BY <1>3, JoinedAt
<1>5. Len(a) \in Nat /\ Len(b) \in Nat /\ Len(c) \in Nat
  OBVIOUS
<1>6. /\ Len(x) = Len(a) + Len(b) /\ At(x, 0, a) /\ At(x, Len(a), b)
      /\ r \in Seq(S) /\ Len(r) = Len(x) + Len(c) /\ At(r, Len(x), c)
      /\ \A k \in Nat : \A u \in Seq(S) : At(x, k, u) /\ k + Len(u) <= Len(x) => At(r, k, u)
  BY <1>2, <1>4, Zenon DEF Extends
<1> QED BY <1>5, <1>6 DEF Three

(* A sequence of some length is not empty.                                 *)
LEMMA SomeTokens == ASSUME NEW s, Len(s) # 0 PROVE s # <<>>
OBVIOUS

(* Tuples of tokens are sequences of them.                                 *)
LEMMA OneToken == ASSUME NEW S, NEW a \in S PROVE <<a>> \in Seq(S) /\ Len(<<a>>) = 1 /\ <<a>>[1] = a
OBVIOUS

LEMMA TwoTokens ==
  ASSUME NEW S, NEW a \in S, NEW b \in S
  PROVE  <<a, b>> \in Seq(S) /\ Len(<<a, b>>) = 2 /\ <<a, b>>[1] = a /\ <<a, b>>[2] = b
OBVIOUS

LEMMA FourTokens ==
  ASSUME NEW S, NEW a \in S, NEW b \in S, NEW c \in S, NEW d \in S
  PROVE  /\ <<a, b, c, d>> \in Seq(S) /\ Len(<<a, b, c, d>>) = 4
         /\ <<a, b, c, d>>[1] = a /\ <<a, b, c, d>>[2] = b
         /\ <<a, b, c, d>>[3] = c /\ <<a, b, c, d>>[4] = d
OBVIOUS

(* j between a beginning whose first tokens are a to d and an end.         *)
RefusalLike(S, r, j, brace, quote, ok, no) ==
  /\ r \in Seq(S) /\ Len(r) = Len(j) + 9
  /\ r[1] = brace /\ r[2] = quote /\ r[3] = ok /\ r[4] = quote /\ r[5] = no
  /\ At(r, 7, j)

(* The parts of a refusal.                                                 *)
LEMMA RefusalShape ==
  ASSUME NEW S, NEW brace \in S, NEW quote \in S, NEW ok \in S, NEW no \in S, NEW field \in S,
         NEW close \in S, NEW j \in Seq(S), NEW r,
         r = <<brace>> \o <<quote, ok, quote, no>> \o <<field, quote>> \o j \o <<quote, close>>
  PROVE  RefusalLike(S, r, j, brace, quote, ok, no)
<1>1. PICK a, b, c, t : /\ a = <<brace>> /\ b = <<quote, ok, quote, no>> /\ c = <<field, quote>>
                        /\ t = <<quote, close>>
  OBVIOUS
<1>2. a \in Seq(S) /\ Len(a) = 1 /\ a[1] = brace
  BY <1>1, OneToken
<1>3. /\ b \in Seq(S) /\ Len(b) = 4 /\ b[1] = quote /\ b[2] = ok /\ b[3] = quote /\ b[4] = no
  BY <1>1, FourTokens
<1>4. c \in Seq(S) /\ Len(c) = 2
  BY <1>1, TwoTokens
<1>5. t \in Seq(S) /\ Len(t) = 2
  BY <1>1, TwoTokens
<1>6. PICK h : h = a \o b \o c
  OBVIOUS
<1>7. /\ h \in Seq(S) /\ Len(h) = Len(a) + Len(b) + Len(c)
      /\ At(h, 0, a) /\ At(h, Len(a), b) /\ At(h, Len(a) + Len(b), c)
  <2>1. Three(S, h, a, b, c)
    BY <1>2, <1>3, <1>4, <1>6, ThreeJoined, Zenon
  <2> QED BY <2>1, Zenon DEF Three
<1>8. Len(h) = 7
  BY <1>2, <1>3, <1>4, <1>7
<1>9. /\ h[0 + 1] = a[1] /\ h[1 + 1] = b[1] /\ h[1 + 2] = b[2] /\ h[1 + 3] = b[3] /\ h[1 + 4] = b[4]
  BY <1>2, <1>3, <1>7 DEF At
<1>10. h[1] = brace /\ h[2] = quote /\ h[3] = ok /\ h[4] = quote /\ h[5] = no
  BY <1>2, <1>3, <1>9
<1>11. r = h \o j \o t
  BY <1>1, <1>6
<1>12. /\ r \in Seq(S) /\ Len(r) = Len(h) + Len(j) + Len(t)
       /\ At(r, 0, h) /\ At(r, Len(h), j)
  <2>1. Three(S, r, h, j, t)
    BY <1>5, <1>7, <1>11, ThreeJoined, Zenon
  <2> QED BY <2>1, Zenon DEF Three
<1>13. /\ r[0 + 1] = h[1] /\ r[0 + 2] = h[2] /\ r[0 + 3] = h[3] /\ r[0 + 4] = h[4] /\ r[0 + 5] = h[5]
  BY <1>8, <1>12 DEF At
<1>14. /\ r[1] = brace /\ r[2] = quote /\ r[3] = ok /\ r[4] = quote /\ r[5] = no
  BY <1>10, <1>13
<1>15. Len(j) \in Nat
  OBVIOUS
<1>16. Len(r) = Len(j) + 9 /\ At(r, 7, j)
  <2>1. PICK n : n = Len(j)
    OBVIOUS
  <2>2. n \in Nat /\ Len(r) = 7 + n + 2
    BY <1>5, <1>8, <1>12, <1>15, <2>1, Zenon
  <2>3. 7 + n + 2 = n + 9
    BY <2>2
  <2> QED BY <1>8, <1>12, <2>1, <2>2, <2>3, Zenon
<1> QED BY <1>12, <1>14, <1>16 DEF RefusalLike

(* Four tokens in a row.                                                   *)
HasRow(r, a, b, c, d) == \E i \in 1 .. Len(r) - 4 + 1 : SubSeq(r, i, i + 4 - 1) = <<a, b, c, d>>

(* A refusal has them.                                                     *)
LEMMA RefusalHas ==
  ASSUME NEW S, NEW brace, NEW quote, NEW ok, NEW no, NEW r, NEW j \in Seq(S),
         RefusalLike(S, r, j, brace, quote, ok, no)
  PROVE  HasRow(r, quote, ok, quote, no)
<1>1. PICK n : n = Len(r)
  OBVIOUS
<1>2. n \in Nat /\ n >= 9 /\ \A i \in 1..n : r[i] \in S
  <2>1. Len(j) \in Nat
    OBVIOUS
  <2> QED BY <1>1, <2>1 DEF RefusalLike
<1>3. PICK q : q = SubSeq(r, 2, 5)
  OBVIOUS
<1>4. Len(q) = 4 /\ q \in Seq(S) /\ \A i \in 1..4 : q[i] = r[2 + i - 1]
  <2>1. \A i \in 2..5 : r[i] \in S
    BY <1>2
  <2>2. /\ SubSeq(r, 2, 5) \in Seq(S)
        /\ Len(SubSeq(r, 2, 5)) = IF 2 <= 5 THEN 5 - 2 + 1 ELSE 0
        /\ \A i \in 1..(5 - 2 + 1) : SubSeq(r, 2, 5)[i] = r[2 + i - 1]
    BY <2>1, SubSeqProperties
  <2> QED BY <1>3, <2>2
<1>5. q[1] = quote /\ q[2] = ok /\ q[3] = quote /\ q[4] = no
  BY <1>4 DEF RefusalLike
<1>6. q = <<quote, ok, quote, no>>
  BY <1>4, <1>5
<1>7. 2 \in 1 .. n - 4 + 1 /\ 2 + 4 - 1 = 5
  BY <1>2
<1> QED BY <1>1, <1>3, <1>6, <1>7 DEF HasRow

(* What the tokens of answers are.                                         *)
LEMMA TokensAre ==
  /\ "{" \in Token /\ "\"" \in Token /\ "ok" \in Token /\ ":false" \in Token
  /\ ",error:" \in Token /\ "}" \in Token /\ "\\" \in Token /\ "letter" \in Token
  /\ "{running,...,error:" \in Token
BY DEF Token

(* The text of an error, escaped.                                          *)
LEMMA EscapeFits ==
  ASSUME NEW error \in Seq(Token)
  PROVE  /\ Escaped(Token, JsonEscape(error), Len(error))
         /\ \A other : JsonEscape(error) = <<other>> => error = <<other>>
BY TokensAre, EscapeIs

(* Where the parts of a refusal stand.                                     *)
LEMMA RefusalParts ==
  ASSUME NEW error \in Seq(Token)
  PROVE  /\ JsonEscape(error) \in Seq(Token)
         /\ RefusalLike(Token, Refusal(error), JsonEscape(error), "{", "\"", "ok", ":false")
<1>1. PICK r, j : r = Refusal(error) /\ j = JsonEscape(error)
  OBVIOUS
<1>2. j \in Seq(Token)
  BY <1>1, EscapeFits DEF Escaped
<1>3. r = <<"{">> \o <<"\"", "ok", "\"", ":false">> \o <<",error:", "\"">> \o j \o <<"\"", "}">>
  BY <1>1, Zenon DEF Refusal, OkFalse
<1>4. RefusalLike(Token, r, j, "{", "\"", "ok", ":false")
  BY <1>2, <1>3, TokensAre, RefusalShape, Zenon
<1> QED BY <1>1, <1>2, <1>4

(* The app takes every refusal for one.                                    *)
LEMMA RefusalIsTaken ==
  ASSUME NEW error \in Seq(Token)
  PROVE  TakenAsRefusal(Refusal(error)) /\ Refusal(error)[1] = "{" /\ Refusal(error) # <<>>
<1>1. PICK r, j : r = Refusal(error) /\ j = JsonEscape(error)
  OBVIOUS
<1>2. j \in Seq(Token) /\ RefusalLike(Token, r, j, "{", "\"", "ok", ":false")
  BY <1>1, RefusalParts
<1>3. HasRow(r, "\"", "ok", "\"", ":false")
  BY <1>2, RefusalHas, Zenon
<1>4. Len(OkFalse) = 4 /\ OkFalse = <<"\"", "ok", "\"", ":false">>
  BY DEF OkFalse
<1>5. TakenAsRefusal(r)
  BY <1>3, <1>4, Zenon DEF TakenAsRefusal, HasRow
<1>6. r[1] = "{"
  BY <1>2, Zenon DEF RefusalLike
<1>7. r # <<>>
  <2>1. Len(r) = Len(j) + 9 /\ Len(j) \in Nat
    <3>1. Len(j) \in Nat
      BY <1>2, LenProperties
    <3> QED BY <1>2, <3>1, Zenon DEF RefusalLike
  <2>2. Len(r) # 0
    BY <2>1
  <2> QED BY <2>2, SomeTokens
<1> QED BY <1>1, <1>5, <1>6, <1>7

(* Only equal errors have equal refusals, as far as one token goes.        *)
LEMMA RefusalTells ==
  ASSUME NEW error \in Seq(Token), NEW token \in Token, OneEscaped(token) = <<token>>,
         Refusal(error) = Refusal(<<token>>)
  PROVE  error = <<token>>
<1>1. PICK r, j, k : r = Refusal(error) /\ j = JsonEscape(error) /\ k = JsonEscape(<<token>>)
  OBVIOUS
<1>2. PICK one : one = <<token>>
  OBVIOUS
<1>3. one \in Seq(Token) /\ Len(one) = 1 /\ one[1] = token /\ DOMAIN one = 1..1
  BY <1>2
<1>4. j \in Seq(Token) /\ RefusalLike(Token, r, j, "{", "\"", "ok", ":false")
  BY <1>1, RefusalParts
<1>5. k \in Seq(Token) /\ RefusalLike(Token, r, k, "{", "\"", "ok", ":false")
  BY <1>1, <1>2, <1>3, RefusalParts
<1>6. k = one
  <2>1. PICK s : s = [i \in DOMAIN one |-> OneEscaped(one[i])]
    OBVIOUS
  <2>2. k = FlattenSeq(s)
    <3>1. k = JsonEscape(one)
      BY <1>1, <1>2
    <3> QED BY <2>1, <3>1, Zenon DEF JsonEscape, OneEscaped
  <2>3. DOMAIN s = 1..1 /\ s[1] = one /\ s = [i \in 1..1 |-> s[i]]
    BY <1>2, <1>3, <2>1
  <2>4. s \in Seq(Seq(Token)) /\ Len(s) = 1
    BY <1>3, <2>3
  <2>5. s # <<>>
    <3>1. Len(s) # 0
      <4>1. PICK n : n = Len(s)
        OBVIOUS
      <4>2. n = 1
        BY <2>4, <4>1, Zenon
      <4> QED BY <4>1, <4>2
    <3> QED BY <3>1, SomeTokens, Zenon
  <2>6. \E f : f[1] = s[1] /\ FlattenSeq(s) = f[Len(s)]
    BY <2>4, <2>5, FlattenIs
  <2> QED BY <2>2, <2>3, <2>4, <2>6
<1>7. Len(j) = 1 /\ j[1] = token
  <2>1. Len(r) = Len(j) + 9 /\ Len(r) = Len(k) + 9 /\ At(r, 7, j) /\ At(r, 7, k)
    BY <1>4, <1>5, Zenon DEF RefusalLike
  <2>2. Len(k) = 1 /\ k[1] = token /\ Len(j) \in Nat
    <3>1. Len(j) \in Nat
      BY <1>4, LenProperties, Zenon
    <3> QED BY <1>3, <1>6, <3>1, Zenon
  <2>3. Len(j) = 1
    <3>1. PICK n : n = Len(j)
      OBVIOUS
    <3>2. n + 9 = 1 + 9 /\ n \in Nat
      BY <2>1, <2>2, <3>1, Zenon
    <3>3. n = 1
      BY <3>2
    <3> QED BY <3>1, <3>3
  <2> QED BY <2>1, <2>2, <2>3 DEF At
<1>8. j = <<token>>
  <2>1. j = [i \in 1..1 |-> j[i]]
    BY <1>4, <1>7, LenProperties
  <2>2. j = <<j[1]>>
    BY <2>1
  <2> QED BY <1>7, <2>2, Zenon
<1> QED BY <1>1, <1>8, EscapeFits

(* A text between quotes in which a quote always follows a backslash.      *)
StatusLike(S, r, j, first, quote, close) ==
  /\ r \in Seq(S) /\ Len(r) = Len(j) + 4 /\ r[1] = first
  /\ At(r, 2, j) /\ r[Len(j) + 3] = quote /\ r[Len(j) + 4] = close

(* The parts of a status.                                                  *)
LEMMA StatusShape ==
  ASSUME NEW S, NEW first \in S, NEW quote \in S, NEW close \in S, NEW j \in Seq(S), NEW r,
         r = <<first, quote>> \o j \o <<quote, close>>
  PROVE  StatusLike(S, r, j, first, quote, close)
<1>1. PICK h, t, n : h = <<first, quote>> /\ t = <<quote, close>> /\ n = Len(j)
  OBVIOUS
<1>2. h \in Seq(S) /\ Len(h) = 2 /\ h[1] = first
  BY <1>1, TwoTokens
<1>3. t \in Seq(S) /\ Len(t) = 2 /\ t[1] = quote /\ t[2] = close
  BY <1>1, TwoTokens
<1>4. Three(S, r, h, j, t)
  BY <1>1, <1>2, <1>3, ThreeJoined, Zenon
<1>5. n \in Nat
  BY <1>1, LenProperties
<1>6. r \in Seq(S) /\ Len(r) = 2 + n + 2 /\ At(r, 0, h) /\ At(r, 2, j) /\ At(r, 2 + n, t)
  BY <1>1, <1>2, <1>3, <1>4, Zenon DEF Three
<1>7. r[0 + 1] = h[1]
  BY <1>2, <1>6 DEF At
<1>8. r[2 + n + 1] = t[1] /\ r[2 + n + 2] = t[2]
  <2>1. \A i \in 1..2 : r[2 + n + i] = t[i]
    BY <1>3, <1>6, Zenon DEF At
  <2>2. 1 \in 1..2 /\ 2 \in 1..2
    OBVIOUS
  <2> QED BY <2>1, <2>2, Zenon
<1>9. 0 + 1 = 1 /\ 2 + n + 2 = n + 4 /\ 2 + n + 1 = n + 3
  BY <1>5
<1> QED BY <1>1, <1>2, <1>3, <1>6, <1>7, <1>8, <1>9, Zenon DEF StatusLike

(* It has no row of quote, ok, quote and no.                               *)
LEMMA StatusHasNot ==
  ASSUME NEW S, NEW first, NEW quote, NEW close, NEW back, NEW ok, NEW no, NEW j \in Seq(S), NEW r,
         StatusLike(S, r, j, first, quote, close), back # ok, close # no,
         \A i \in 1..Len(j) : j[i] = quote => i > 1 /\ j[i - 1] = back
  PROVE  ~ HasRow(r, quote, ok, quote, no)
<1>1. PICK n : n = Len(j)
  OBVIOUS
<1>2. n \in Nat
  BY <1>1, LenProperties
<1>3. /\ r \in Seq(S) /\ Len(r) = n + 4 /\ r[n + 4] = close
      /\ \A i \in 1..n : r[2 + i] = j[i]
  BY <1>1, Zenon DEF StatusLike, At
<1>4. \A i \in 1..(n + 4) : r[i] \in S
  BY <1>3, ElementOfSeq
<1> SUFFICES ASSUME NEW i \in 1 .. (n + 4) - 4 + 1, SubSeq(r, i, i + 4 - 1) = <<quote, ok, quote, no>>
             PROVE  FALSE
  BY <1>3, Zenon DEF HasRow
<1>5. PICK q : q = SubSeq(r, i, i + 3)
  OBVIOUS
<1>6. i \in 1..(n + 1) /\ i + 4 - 1 = i + 3 /\ i \in Int /\ i + 3 \in Int
  BY <1>2
<1>7. \A k \in 1..4 : q[k] = r[i + k - 1]
  <2>1. \A k \in i..(i + 3) : r[k] \in S
    BY <1>2, <1>4, <1>6
  <2>2. \A k \in 1..(i + 3 - i + 1) : SubSeq(r, i, i + 3)[k] = r[i + k - 1]
    BY <1>6, <2>1, SubSeqProperties
  <2>3. i + 3 - i + 1 = 4
    BY <1>6
  <2> QED BY <1>5, <2>2, <2>3
<1>8. q = <<quote, ok, quote, no>>
  BY <1>5, <1>6
<1>9. q[2] = ok /\ q[3] = quote /\ q[4] = no
  BY <1>8
<1>10. r[i + 2 - 1] = ok /\ r[i + 3 - 1] = quote /\ r[i + 4 - 1] = no
  BY <1>7, <1>9
<1>11. CASE i = n + 1
  <2>1. i + 4 - 1 = n + 4
    BY <1>2, <1>11
  <2> QED BY <1>3, <1>10, <2>1
<1>12. CASE i # n + 1
  <2>1. i \in 1..n /\ i + 3 - 1 = 2 + i
    BY <1>2, <1>6, <1>12
  <2>2. j[i] = quote
    BY <1>3, <1>10, <2>1
  <2>3. i > 1 /\ j[i - 1] = back
    BY <1>1, <2>1, <2>2
  <2>4. i - 1 \in 1..n /\ 2 + (i - 1) = i + 2 - 1
    BY <1>2, <2>1, <2>3
  <2>5. r[i + 2 - 1] = back
    BY <1>3, <2>3, <2>4
  <2> QED BY <1>10, <2>5
<1> QED BY <1>11, <1>12

(* The app takes no status for a refusal, whatever text is in it, and a    *)
(* status is no refusal.                                                   *)
LEMMA StatusIsNotTaken ==
  ASSUME NEW error \in Seq(Token)
  PROVE  /\ ~ TakenAsRefusal(StatusJson(error)) /\ StatusJson(error) # <<>>
         /\ StatusJson(error)[1] = "{running,...,error:"
<1>1. PICK r, j : r = StatusJson(error) /\ j = JsonEscape(error)
  OBVIOUS
<1>2. j \in Seq(Token) /\ \A i \in 1..Len(j) : j[i] = "\"" => i > 1 /\ j[i - 1] = "\\"
  BY <1>1, EscapeFits, Zenon DEF Escaped
<1>3. r = <<"{running,...,error:", "\"">> \o j \o <<"\"", "}">>
  BY <1>1, Zenon DEF StatusJson
<1>4. StatusLike(Token, r, j, "{running,...,error:", "\"", "}")
  BY <1>2, <1>3, TokensAre, StatusShape, Zenon
<1>5. ~ HasRow(r, "\"", "ok", "\"", ":false")
  <2>1. "\\" # "ok" /\ "}" # ":false"
    OBVIOUS
  <2> QED BY <1>2, <1>4, <2>1, StatusHasNot, Zenon
<1>6. Len(OkFalse) = 4 /\ OkFalse = <<"\"", "ok", "\"", ":false">>
  BY DEF OkFalse
<1>7. ~ TakenAsRefusal(r)
  BY <1>5, <1>6, Zenon DEF TakenAsRefusal, HasRow
<1>8. r # <<>>
  <2>1. PICK n : n = Len(j)
    OBVIOUS
  <2>2. n \in Nat /\ Len(r) = n + 4
    BY <1>2, <1>4, <2>1, LenProperties, Zenon DEF StatusLike
  <2>3. Len(r) # 0
    BY <2>2
  <2> QED BY <2>3, SomeTokens, Zenon
<1>9. r[1] = "{running,...,error:"
  BY <1>4, Zenon DEF StatusLike
<1> QED BY <1>1, <1>7, <1>8, <1>9

-------------------------------------------------------------------------------
(* Texts: tokens and lines *)

(* Before counts the tokens in front of the first of some tokens.          *)
LEMMA BeforeCounts ==
  ASSUME NEW S, NEW text \in Seq(S), NEW tokens
  PROVE  /\ Before(text, tokens) \in 0..Len(text)
         /\ \A i \in 1..Before(text, tokens) : text[i] \notin tokens
         /\ Before(text, tokens) < Len(text) => text[Before(text, tokens) + 1] \in tokens
<1>1. PICK n : n = Len(text)
  OBVIOUS
<1>2. n \in Nat /\ DOMAIN text = 1..n
  BY <1>1, LenProperties
<1> DEFINE T == {i \in DOMAIN text : text[i] \in tokens} \cup {n + 1}
<1>3. T \subseteq Nat /\ T # {} /\ T \subseteq 1..(n + 1)
  BY <1>2
<1>4. \A i \in 1..n : i \in T <=> text[i] \in tokens
  BY <1>2
<1>5. Before(text, tokens) = (CHOOSE m \in T : \A k \in T : m <= k) - 1
  BY <1>1, Zenon DEF Before, Min
<1> HIDE DEF T
<1>6. PICK m : m = CHOOSE x \in T : \A k \in T : x <= k
  OBVIOUS
<1>7. m \in T /\ \A k \in T : m <= k
  BY <1>3, <1>6, LeastOf
<1>8. m \in 1..(n + 1) /\ \A i \in 1..(m - 1) : i \notin T /\ i \in 1..n
  BY <1>2, <1>3, <1>7
<1>9. Before(text, tokens) = m - 1
  BY <1>5, <1>6
<1>10. PICK b : b = Before(text, tokens)
  OBVIOUS
<1>11. b \in 0..n /\ (\A i \in 1..b : text[i] \notin tokens) /\ (b < n => text[b + 1] \in tokens)
  <2>1. m - 1 \in 0..n /\ (m - 1 < n => m \in 1..n) /\ m - 1 + 1 = m
    BY <1>2, <1>8
  <2> QED BY <1>4, <1>7, <1>8, <1>9, <1>10, <2>1
<1> QED BY <1>1, <1>10, <1>11

(* So many there are before the first.                                     *)
LEMMA BeforeIs ==
  ASSUME NEW S, NEW text \in Seq(S), NEW tokens, NEW k \in 0..Len(text),
         \A i \in 1..k : text[i] \notin tokens, k < Len(text) => text[k + 1] \in tokens
  PROVE  Before(text, tokens) = k
<1>1. PICK n, b : n = Len(text) /\ b = Before(text, tokens)
  OBVIOUS
<1>2. n \in Nat /\ b \in 0..n /\ (\A i \in 1..b : text[i] \notin tokens)
      /\ (b < n => text[b + 1] \in tokens)
  BY <1>1, LenProperties, BeforeCounts
<1>3. ~ (b < k)
  <2> SUFFICES ASSUME b < k PROVE FALSE
    OBVIOUS
  <2>1. b < n /\ b + 1 \in 1..k
    BY <1>1, <1>2
  <2> QED BY <1>2, <2>1
<1>4. ~ (k < b)
  <2> SUFFICES ASSUME k < b PROVE FALSE
    OBVIOUS
  <2>1. k < n /\ k + 1 \in 1..b
    BY <1>1, <1>2
  <2> QED BY <1>1, <1>2, <2>1
<1> QED BY <1>1, <1>2, <1>3, <1>4

(* Part of a sequence.                                                     *)
LEMMA PartOf ==
  ASSUME NEW S, NEW s \in Seq(S), NEW m \in 1..(Len(s) + 1), NEW n \in 0..Len(s)
  PROVE  /\ SubSeq(s, m, n) \in Seq(S)
         /\ Len(SubSeq(s, m, n)) = IF m <= n THEN n - m + 1 ELSE 0
         /\ \A i \in 1..(n - m + 1) : SubSeq(s, m, n)[i] = s[m + i - 1]
<1>1. Len(s) \in Nat /\ \A i \in 1..Len(s) : s[i] \in S
  BY LenProperties, ElementOfSeq
<1>2. m \in Int /\ n \in Int /\ \A i \in m..n : s[i] \in S
  BY <1>1
<1> QED BY <1>2, SubSeqProperties

(* A line of a text is what stands from its start to a line feed, but for  *)
(* a carriage return.                                                      *)
LEMMA LineStands ==
  ASSUME NEW S, NEW text \in Seq(S), NEW s \in 1..Len(text)
  PROVE  /\ LineAt(text, s) \in Seq(S) /\ At(text, s - 1, LineAt(text, s))
         /\ s + Len(LineAt(text, s)) <= Len(text) + 1
<1>1. PICK n, rest, line :
        n = Len(text) /\ rest = SubSeq(text, s, n) /\ line = SubSeq(rest, 1, Before(rest, {NL}))
  OBVIOUS
<1>2. n \in Nat /\ s \in 1..n /\ n \in 0..n
  BY <1>1, LenProperties
<1>3. rest \in Seq(S) /\ Len(rest) = n - s + 1 /\ \A i \in 1..(n - s + 1) : rest[i] = text[s + i - 1]
  <2>1. s \in 1..(n + 1) /\ s <= n
    BY <1>2
  <2> QED BY <1>1, <1>2, <2>1, PartOf
<1>4. PICK b : b = Before(rest, {NL}) /\ b \in 0..Len(rest)
  BY <1>3, BeforeCounts
<1>5. line \in Seq(S) /\ Len(line) = b /\ \A i \in 1..b : line[i] = rest[1 + i - 1]
  <2>1. 1 \in 1..(Len(rest) + 1) /\ b - 1 + 1 = b /\ (IF 1 <= b THEN b - 1 + 1 ELSE 0) = b
    BY <1>2, <1>3, <1>4
  <2>2. line = SubSeq(rest, 1, b)
    BY <1>1, <1>4
  <2>3. 1 \in 1..(Len(rest) + 1) /\ b \in 0..Len(rest)
    BY <1>4, <2>1
  <2>4. /\ SubSeq(rest, 1, b) \in Seq(S)
        /\ Len(SubSeq(rest, 1, b)) = IF 1 <= b THEN b - 1 + 1 ELSE 0
        /\ \A i \in 1..(b - 1 + 1) : SubSeq(rest, 1, b)[i] = rest[1 + i - 1]
    BY <1>3, <2>3, PartOf
  <2> QED BY <2>1, <2>2, <2>4
<1>6. b \in 0..(n - s + 1) /\ \A i \in 1..b : line[i] = text[s - 1 + i]
  <2>1. b \in 0..(n - s + 1)
    BY <1>3, <1>4
  <2>2. \A i \in 1..b : 1 + i - 1 = i /\ i \in 1..(n - s + 1) /\ s + i - 1 = s - 1 + i
    BY <1>2, <2>1
  <2> QED BY <1>3, <1>5, <2>1, <2>2
<1>7. LineAt(text, s) = IF line # <<>> /\ Last(line) = "\r" THEN Front(line) ELSE line
  BY <1>1, Zenon DEF LineAt
<1>8. CASE LineAt(text, s) = line
  <2>1. At(text, s - 1, line)
    BY <1>5, <1>6 DEF At
  <2>2. s + b <= n + 1
    BY <1>2, <1>6
  <2> QED BY <1>1, <1>5, <1>8, <2>1, <2>2
<1>9. CASE LineAt(text, s) = Front(line) /\ line # <<>>
  <2>1. PICK front : front = Front(line)
    OBVIOUS
  <2>2. b \in Nat \ {0}
    BY <1>5, <1>9, EmptySeq
  <2>3. front \in Seq(S) /\ Len(front) = b - 1 /\ \A i \in 1..(b - 1) : front[i] = line[i]
    <3>1. front = SubSeq(line, 1, b - 1)
      BY <1>5, <2>1 DEF Front
    <3>2. 1 \in 1..(b + 1) /\ b - 1 \in 0..b /\ b - 1 - 1 + 1 = b - 1
          /\ (IF 1 <= b - 1 THEN b - 1 - 1 + 1 ELSE 0) = b - 1 /\ \A i \in 1..(b - 1) : 1 + i - 1 = i
      BY <2>2
    <3> QED BY <1>5, <3>1, <3>2, PartOf
  <2>4. At(text, s - 1, front)
    BY <1>6, <2>2, <2>3 DEF At
  <2>5. s + (b - 1) <= n + 1
    BY <1>2, <1>6, <2>2
  <2> QED BY <1>1, <1>9, <2>1, <2>3, <2>4, <2>5
<1> QED BY <1>7, <1>8, <1>9

(* What stands between a start and a line feed or the end is the line.     *)
LEMMA LineIs ==
  ASSUME NEW S, NEW text \in Seq(S), NEW line \in Seq(S), NEW s \in 1..Len(text),
         s + Len(line) <= Len(text) + 1, At(text, s - 1, line),
         \A i \in 1..Len(line) : line[i] # NL,
         \A i \in 1..Len(line) : line[i] # "\r",
         s + Len(line) <= Len(text) => text[s + Len(line)] = NL
  PROVE  LineAt(text, s) = line
<1>1. PICK n, k, rest : n = Len(text) /\ k = Len(line) /\ rest = SubSeq(text, s, n)
  OBVIOUS
<1>2. n \in Nat /\ k \in Nat /\ s \in 1..n /\ k <= n - s + 1
  BY <1>1, LenProperties
<1>3. rest \in Seq(S) /\ Len(rest) = n - s + 1 /\ \A i \in 1..(n - s + 1) : rest[i] = text[s + i - 1]
  <2>1. s \in 1..(n + 1) /\ s <= n /\ n \in 0..n
    BY <1>2
  <2> QED BY <1>1, <1>2, <2>1, PartOf
<1>4. \A i \in 1..k : rest[i] = line[i]
  <2>1. \A i \in 1..k : i \in 1..(n - s + 1) /\ s + i - 1 = s - 1 + i
    BY <1>2
  <2> QED BY <1>1, <1>3, <2>1 DEF At
<1>5. k < n - s + 1 => rest[k + 1] = NL
  <2>1. k < n - s + 1 => k + 1 \in 1..(n - s + 1) /\ s + (k + 1) - 1 = s + k /\ s + k <= n
    BY <1>2
  <2> QED BY <1>1, <1>3, <2>1
<1>6. Before(rest, {NL}) = k
  <2>1. k \in 0..Len(rest)
    BY <1>2, <1>3
  <2>2. \A i \in 1..k : rest[i] \notin {NL}
    BY <1>1, <1>4
  <2>3. k < Len(rest) => rest[k + 1] \in {NL}
    BY <1>3, <1>5
  <2> QED BY <1>3, <2>1, <2>2, <2>3, BeforeIs
<1>7. PICK l : l = SubSeq(rest, 1, k)
  OBVIOUS
<1>8. l = line
  <2>1. 1 \in 1..(Len(rest) + 1) /\ k \in 0..Len(rest) /\ (IF 1 <= k THEN k - 1 + 1 ELSE 0) = k
        /\ k - 1 + 1 = k /\ \A i \in 1..k : 1 + i - 1 = i
    BY <1>2, <1>3
  <2>2. l \in Seq(S) /\ Len(l) = k /\ \A i \in 1..k : l[i] = rest[i]
    BY <1>3, <1>7, <2>1, PartOf
  <2> QED BY <1>1, <1>4, <2>2, SeqEqual
<1>9. ~ (l # <<>> /\ Last(l) = "\r")
  <2> SUFFICES ASSUME line # <<>> PROVE Last(line) # "\r"
    BY <1>8
  <2>1. k \in 1..k
    BY <1>1, <1>2, EmptySeq
  <2> QED BY <1>1, <2>1 DEF Last
<1>10. LineAt(text, s) = IF l # <<>> /\ Last(l) = "\r" THEN Front(l) ELSE l
  BY <1>1, <1>6, <1>7, Zenon DEF LineAt
<1> QED BY <1>8, <1>9, <1>10

(* So many tokens stand between a start and a line feed or the end.        *)
LineLength(text, s, c) ==
  /\ c \in Nat /\ s + c <= Len(text) + 1
  /\ \A i \in 1..c : text[s - 1 + i] # NL
  /\ s + c <= Len(text) => text[s + c] = NL

(* There is such a number.                                                 *)
LEMMA LineHasLength ==
  ASSUME NEW S, NEW text \in Seq(S), NEW s \in 1..Len(text)
  PROVE  \E c : LineLength(text, s, c)
<1>1. PICK n, rest : n = Len(text) /\ rest = SubSeq(text, s, n)
  OBVIOUS
<1>2. n \in Nat /\ s \in 1..n
  BY <1>1, LenProperties
<1>3. rest \in Seq(S) /\ Len(rest) = n - s + 1 /\ \A i \in 1..(n - s + 1) : rest[i] = text[s + i - 1]
  <2>1. s \in 1..(n + 1) /\ s <= n /\ n \in 0..n
    BY <1>2
  <2> QED BY <1>1, <1>2, <2>1, PartOf
<1>4. PICK c : /\ c \in 0..Len(rest) /\ (\A i \in 1..c : rest[i] \notin {NL})
               /\ c < Len(rest) => rest[c + 1] \in {NL}
  BY <1>3, BeforeCounts
<1>5. c \in Nat /\ s + c <= n + 1 /\ c \in 0..(n - s + 1)
  BY <1>2, <1>3, <1>4
<1>6. \A i \in 1..c : text[s - 1 + i] # NL
  <2>1. \A i \in 1..c : i \in 1..(n - s + 1) /\ s + i - 1 = s - 1 + i
    BY <1>2, <1>5
  <2> QED BY <1>3, <1>4, <2>1
<1>7. s + c <= n => text[s + c] = NL
  <2> SUFFICES ASSUME s + c <= n PROVE text[s + c] = NL
    OBVIOUS
  <2>1. c < n - s + 1 /\ c + 1 \in 1..(n - s + 1) /\ s + (c + 1) - 1 = s + c
    BY <1>2, <1>5
  <2> QED BY <1>3, <1>4, <2>1
<1> QED BY <1>1, <1>5, <1>6, <1>7 DEF LineLength

(* Two texts with the same tokens there have the same line there.          *)
LEMMA LineKept ==
  ASSUME NEW S, NEW p \in Seq(S), NEW t \in Seq(S), NEW s \in 1..Len(p), s \in 1..Len(t), NEW c,
         LineLength(p, s, c), LineLength(t, s, c), \A i \in 1..c : p[s - 1 + i] = t[s - 1 + i]
  PROVE  LineAt(p, s) = LineAt(t, s)
<1>1. ASSUME NEW text \in Seq(S), s \in 1..Len(text), LineLength(text, s, c)
      PROVE  \E line \in Seq(S) :
               /\ LineAt(text, s) = IF line # <<>> /\ Last(line) = "\r" THEN Front(line) ELSE line
               /\ Len(line) = c /\ \A i \in 1..c : line[i] = text[s - 1 + i]
  <2>1. PICK n, rest, line :
          n = Len(text) /\ rest = SubSeq(text, s, n) /\ line = SubSeq(rest, 1, Before(rest, {NL}))
    OBVIOUS
  <2>2. n \in Nat /\ s \in 1..n /\ c \in Nat /\ c <= n - s + 1
    BY <1>1, <2>1, LenProperties DEF LineLength
  <2>3. rest \in Seq(S) /\ Len(rest) = n - s + 1 /\ \A i \in 1..(n - s + 1) : rest[i] = text[s + i - 1]
    <3>1. s \in 1..(n + 1) /\ s <= n /\ n \in 0..n
      BY <2>2
    <3> QED BY <1>1, <2>1, <2>2, <3>1, PartOf
  <2>4. \A i \in 1..c : rest[i] = text[s - 1 + i]
    <3>1. \A i \in 1..c : i \in 1..(n - s + 1) /\ s + i - 1 = s - 1 + i
      BY <2>2
    <3> QED BY <2>3, <3>1
  <2>5. c < n - s + 1 => rest[c + 1] = NL
    <3>1. c < n - s + 1 => c + 1 \in 1..(n - s + 1) /\ s + (c + 1) - 1 = s + c /\ s + c <= n
      BY <2>2
    <3> QED BY <1>1, <2>1, <2>3, <3>1 DEF LineLength
  <2>6. Before(rest, {NL}) = c
    <3>1. c \in 0..Len(rest)
      BY <2>2, <2>3
    <3>2. \A i \in 1..c : rest[i] \notin {NL}
      BY <1>1, <2>4 DEF LineLength
    <3>3. c < Len(rest) => rest[c + 1] \in {NL}
      BY <2>3, <2>5
    <3> QED BY <2>3, <3>1, <3>2, <3>3, BeforeIs
  <2>7. line \in Seq(S) /\ Len(line) = c /\ \A i \in 1..c : line[i] = rest[i]
    <3>1. 1 \in 1..(Len(rest) + 1) /\ c \in 0..Len(rest) /\ (IF 1 <= c THEN c - 1 + 1 ELSE 0) = c
          /\ c - 1 + 1 = c /\ \A i \in 1..c : 1 + i - 1 = i
      BY <2>2, <2>3
    <3>2. line = SubSeq(rest, 1, c)
      BY <2>1, <2>6
    <3> QED BY <2>3, <3>1, <3>2, PartOf
  <2>8. LineAt(text, s) = IF line # <<>> /\ Last(line) = "\r" THEN Front(line) ELSE line
    BY <2>1, Zenon DEF LineAt
  <2> QED BY <2>4, <2>7, <2>8
<1>2. PICK a \in Seq(S) :
        /\ LineAt(p, s) = IF a # <<>> /\ Last(a) = "\r" THEN Front(a) ELSE a
        /\ Len(a) = c /\ \A i \in 1..c : a[i] = p[s - 1 + i]
  BY <1>1
<1>3. PICK b \in Seq(S) :
        /\ LineAt(t, s) = IF b # <<>> /\ Last(b) = "\r" THEN Front(b) ELSE b
        /\ Len(b) = c /\ \A i \in 1..c : b[i] = t[s - 1 + i]
  BY <1>1
<1>4. a = b
  <2>1. \A i \in 1..c : a[i] = b[i]
    BY <1>2, <1>3
  <2> QED BY <1>2, <1>3, <2>1, SeqEqual
<1> QED BY <1>2, <1>3, <1>4

(* The line that sets an option.                                           *)
Option(key, value) == <<key, "=">> \o value

(* Its parts.                                                              *)
OptionParts(S, line, key, value) ==
  /\ line \in Seq(S) /\ Len(line) = 2 + Len(value) /\ line[1] = key /\ line[2] = "="
  /\ At(line, 2, value)

(* What is read from a line that sets an option.                           *)
OptionReads(line, key, value) ==
  Before(line, {"="}) = 1 /\ Key(line) = <<key>> /\ ValueOf(line) = value

(* A line that sets an option has these parts.                             *)
LEMMA OptionIs ==
  ASSUME NEW S, NEW key \in S, "=" \in S, NEW value \in Seq(S)
  PROVE  OptionParts(S, Option(key, value), key, value)
<1>1. PICK eq : eq = "=" /\ eq \in S
  OBVIOUS
<1>2. PICK h, line : h = <<key, eq>> /\ line = h \o value
  OBVIOUS
<1>3. h \in Seq(S) /\ Len(h) = 2 /\ h[1] = key /\ h[2] = eq
  BY <1>1, <1>2, TwoTokens
<1>4. Extends(S, line, h, value)
  BY <1>2, <1>3, JoinedAt
<1>5. line \in Seq(S) /\ Len(line) = 2 + Len(value) /\ At(line, 0, h) /\ At(line, 2, value)
  BY <1>3, <1>4, Zenon DEF Extends
<1>6. line[0 + 1] = h[1] /\ line[0 + 2] = h[2]
  BY <1>3, <1>5 DEF At
<1>7. line[1] = key /\ line[2] = eq
  BY <1>3, <1>6
<1>8. line = Option(key, value)
  BY <1>1, <1>2, Zenon DEF Option
<1> QED BY <1>1, <1>5, <1>7, <1>8, Zenon DEF OptionParts

(* And it is read as what it sets.                                         *)
LEMMA OptionRead ==
  ASSUME NEW S, NEW line, NEW key \in S, NEW value \in Seq(S), OptionParts(S, line, key, value),
         key # "="
  PROVE  OptionReads(line, key, value)
<1>1. PICK n : n = Len(value) /\ n \in Nat
  BY LenProperties
<1>2. /\ line \in Seq(S) /\ Len(line) = 2 + n /\ line[1] = key /\ line[2] = "="
      /\ \A j \in 1..n : line[2 + j] = value[j]
  BY <1>1, Zenon DEF OptionParts, At
<1>3. Before(line, {"="}) = 1
  <2>1. 1 \in 0..Len(line) /\ 1 + 1 = 2 /\ \A i \in 1..1 : i = 1
    BY <1>1, <1>2
  <2>2. \A i \in 1..1 : line[i] \notin {"="}
    BY <1>2, <2>1
  <2>3. 1 < Len(line) => line[1 + 1] \in {"="}
    BY <1>2
  <2> QED BY <1>2, <2>1, <2>2, <2>3, BeforeIs
<1>4. Key(line) = <<key>>
  <2>1. PICK p : p = SubSeq(line, 1, 1)
    OBVIOUS
  <2>2. p = Key(line)
    BY <1>3, <2>1, Zenon DEF Key
  <2>3. 1 \in 1..(Len(line) + 1) /\ 1 \in 0..Len(line) /\ (IF 1 <= 1 THEN 1 - 1 + 1 ELSE 0) = 1
        /\ 1 - 1 + 1 = 1 /\ 1 \in 1..1 /\ 1 + 1 - 1 = 1
    BY <1>1, <1>2
  <2>4. p \in Seq(S) /\ Len(p) = 1 /\ p[1] = line[1]
    <3>1. /\ SubSeq(line, 1, 1) \in Seq(S)
          /\ Len(SubSeq(line, 1, 1)) = IF 1 <= 1 THEN 1 - 1 + 1 ELSE 0
          /\ \A i \in 1..(1 - 1 + 1) : SubSeq(line, 1, 1)[i] = line[1 + i - 1]
      BY <1>2, <2>3, PartOf
    <3> QED BY <2>1, <2>3, <3>1
  <2>5. <<key>> \in Seq(S) /\ Len(<<key>>) = 1 /\ <<key>>[1] = key
    BY OneToken
  <2>6. p = <<key>>
    <3>1. PICK one : one = <<key>>
      OBVIOUS
    <3>2. one \in Seq(S) /\ Len(p) = Len(one) /\ \A i \in 1..Len(p) : p[i] = one[i]
      BY <1>2, <2>4, <2>5, <3>1
    <3> QED BY <2>4, <3>1, <3>2, SeqEqual
  <2> QED BY <2>2, <2>6
<1>5. ValueOf(line) = value
  <2>1. PICK m, v : m = n + 2 /\ v = SubSeq(line, 3, m)
    OBVIOUS
  <2>2. v = ValueOf(line)
    <3>1. 1 + 2 = 3 /\ m = 2 + n
      BY <1>1, <2>1
    <3> QED BY <1>2, <1>3, <2>1, <3>1, Zenon DEF ValueOf
  <2>3. 3 \in 1..(Len(line) + 1) /\ m \in 0..Len(line) /\ m - 3 + 1 = n
        /\ (IF 3 <= m THEN m - 3 + 1 ELSE 0) = n /\ \A i \in 1..n : 3 + i - 1 = 2 + i
    BY <1>1, <1>2, <2>1
  <2>4. v \in Seq(S) /\ Len(v) = n /\ \A i \in 1..n : v[i] = line[2 + i]
    <3>1. /\ SubSeq(line, 3, m) \in Seq(S)
          /\ Len(SubSeq(line, 3, m)) = IF 3 <= m THEN m - 3 + 1 ELSE 0
          /\ \A i \in 1..(m - 3 + 1) : SubSeq(line, 3, m)[i] = line[3 + i - 1]
      BY <1>2, <2>3, PartOf
    <3> QED BY <2>1, <2>3, <3>1
  <2>5. v = value
    BY <1>1, <1>2, <2>4, SeqEqual
  <2> QED BY <2>2, <2>5
<1> QED BY <1>3, <1>4, <1>5, Zenon DEF OptionReads

(* A text in which an option stands between a start and a line feed has    *)
(* the line that sets it.                                                  *)
LEMMA OptionLine ==
  ASSUME NEW S, NEW text \in Seq(S), NEW s \in 1..Len(text), NEW key \in S, "=" \in S,
         NEW value \in Seq(S), s + 2 + Len(value) <= Len(text),
         text[s] = key, text[s + 1] = "=", At(text, s + 1, value), text[s + 2 + Len(value)] = NL,
         key \notin {NL, "\r", "="},
         \A i \in 1..Len(value) : value[i] \notin {NL, "\r"}
  PROVE  LineAt(text, s) = Option(key, value) /\ OptionReads(LineAt(text, s), key, value)
<1>1. PICK n, k, line : n = Len(text) /\ k = Len(value) /\ line = Option(key, value)
  OBVIOUS
<1>2. n \in Nat /\ k \in Nat /\ s \in 1..n /\ s + 2 + k <= n
  BY <1>1, LenProperties
<1>3. OptionParts(S, line, key, value)
  BY <1>1, OptionIs
<1>4. /\ line \in Seq(S) /\ Len(line) = 2 + k /\ line[1] = key /\ line[2] = "="
      /\ \A j \in 1..k : line[2 + j] = value[j]
  BY <1>1, <1>3, Zenon DEF OptionParts, At
<1>5. \A i \in 1..(2 + k) : i = 1 \/ i = 2 \/ (i - 2 \in 1..k /\ 2 + (i - 2) = i)
  BY <1>2
<1>6. \A i \in 1..(2 + k) : line[i] \in {key, "="} \cup {value[j] : j \in 1..k}
  BY <1>4, <1>5
<1>7. \A i \in 1..(2 + k) : line[i] # NL /\ line[i] # "\r"
  <2>1. "=" # NL /\ "=" # "\r"
    BY DEF NL
  <2> QED BY <1>1, <1>6, <2>1
<1>8. At(text, s - 1, line)
  <2>1. \A i \in 1..(2 + k) : s - 1 + i = s + (i - 1)
    BY <1>2
  <2>2. s + (1 - 1) = s /\ s + (2 - 1) = s + 1 /\ \A i \in 3..(2 + k) : s + (i - 1) = s + 1 + (i - 2)
    BY <1>2
  <2>3. \A j \in 1..k : text[s + 1 + j] = value[j]
    BY <1>1 DEF At
  <2>4. \A i \in 3..(2 + k) : i - 2 \in 1..k /\ 2 + (i - 2) = i
    BY <1>2
  <2>5. \A i \in 3..(2 + k) : text[s - 1 + i] = line[i]
    <3> TAKE i \in 3..(2 + k)
    <3>1. PICK j \in 1..k : j = i - 2
      BY <2>4
    <3>2. s - 1 + i = s + 1 + j /\ i = 2 + j
      BY <1>2, <3>1
    <3> QED BY <1>4, <2>3, <3>2
  <2>6. s - 1 + 1 = s /\ s - 1 + 2 = s + 1 /\ \A i \in 1..(2 + k) : i \in {1, 2} \cup 3..(2 + k)
    BY <1>2
  <2>7. \A i \in {1, 2} : text[s - 1 + i] = line[i]
    BY <1>4, <2>6
  <2> QED BY <1>4, <2>5, <2>6, <2>7 DEF At
<1>9. LineAt(text, s) = line
  <2>1. s + Len(line) = s + 2 + k /\ s + Len(line) <= n + 1
    BY <1>2, <1>4
  <2>2. s + Len(line) <= Len(text) + 1 /\ text[s + Len(line)] = NL
    BY <1>1, <2>1
  <2>3. \A i \in 1..Len(line) : line[i] # NL /\ line[i] # "\r"
    BY <1>4, <1>7
  <2> QED BY <1>4, <1>8, <2>2, <2>3, LineIs, Zenon
<1> QED BY <1>1, <1>3, <1>9, OptionRead

-------------------------------------------------------------------------------
(* Texts: the app's request *)

(* What follows the URL.                                                   *)
Ending(rotation, mirror) ==
  <<NL, "video_device", "=", "/dev/video", "100", NL, "width", "=", "1280",
    NL, "height", "=", "720", NL, "fps", "=", "30", NL, "rotation", "=", rotation,
    NL, "mirror", "=", mirror, NL, ".", NL>>

(* The texts that stand for numbers and for mirror.                        *)
RotationTexts == {"0", "90", "180", "270"}
MirrorTexts == {"0", "1"}

(* text is such a request, but perhaps for the line feed at its end.       *)
Laid(text, n, url, rotation, mirror) ==
  /\ text \in Seq(Token) /\ Len(text) \in {n + 31, n + 32}
  /\ text[1] = "START" /\ text[2] = NL /\ text[3] = "url" /\ text[4] = "=" /\ At(text, 4, url)
  /\ text[n + 5] = NL /\ text[n + 6] = "video_device" /\ text[n + 7] = "="
  /\ text[n + 8] = "/dev/video" /\ text[n + 9] = "100"
  /\ text[n + 10] = NL /\ text[n + 11] = "width" /\ text[n + 12] = "=" /\ text[n + 13] = "1280"
  /\ text[n + 14] = NL /\ text[n + 15] = "height" /\ text[n + 16] = "=" /\ text[n + 17] = "720"
  /\ text[n + 18] = NL /\ text[n + 19] = "fps" /\ text[n + 20] = "=" /\ text[n + 21] = "30"
  /\ text[n + 22] = NL /\ text[n + 23] = "rotation" /\ text[n + 24] = "=" /\ text[n + 25] = rotation
  /\ text[n + 26] = NL /\ text[n + 27] = "mirror" /\ text[n + 28] = "=" /\ text[n + 29] = mirror
  /\ text[n + 30] = NL /\ text[n + 31] = "."
  /\ Len(text) = n + 32 => text[n + 32] = NL

(* Where its line feeds are, all but the last, its words, and the starts   *)
(* of its lines.                                                           *)
Feeds(n) == {2, n + 5, n + 10, n + 14, n + 18, n + 22, n + 26, n + 30}
WordPlaces(n) ==
  {1, 3, 4, n + 6, n + 7, n + 8, n + 9, n + 11, n + 12, n + 13, n + 15, n + 16, n + 17,
   n + 19, n + 20, n + 21, n + 23, n + 24, n + 25, n + 27, n + 28, n + 29, n + 31}
Starts(n) == {3, n + 6, n + 11, n + 15, n + 19, n + 23, n + 27, n + 31}

(* These are all places, and lines start after line feeds.                 *)
LEMMA PlacesFit ==
  ASSUME NEW n \in Nat, NEW m \in {n + 31, n + 32}
  PROVE  /\ \A i \in 1..(n + 31) : i \in Feeds(n) \/ i \in WordPlaces(n) \/ i \in 5..(n + 4)
         /\ \A s \in 1..m : s > 1 => s - 1 \in 1..(n + 31)
         /\ {s \in 1..m : s > 1 /\ s - 1 \in Feeds(n)} = Starts(n)
<1>1. \A i \in 1..(n + 31) : i \in Feeds(n) \/ i \in WordPlaces(n) \/ i \in 5..(n + 4)
  <2> SUFFICES ASSUME NEW i \in 1..(n + 31), i \notin 5..(n + 4)
               PROVE  i \in Feeds(n) \/ i \in WordPlaces(n)
    OBVIOUS
  <2>1. i \in 1..4 \/ i \in (n + 5)..(n + 31)
    OBVIOUS
  <2>2. CASE i \in 1..4
    BY <2>2 DEF Feeds, WordPlaces
  <2>3. CASE i \in (n + 5)..(n + 31)
    BY <2>3 DEF Feeds, WordPlaces
  <2> QED BY <2>1, <2>2, <2>3
<1>2. \A s \in 1..m : s > 1 => s - 1 \in 1..(n + 31)
  OBVIOUS
<1>3. \A s \in 1..m : s > 1 /\ s - 1 \in Feeds(n) => s \in Starts(n)
  BY DEF Feeds, Starts
<1>4. \A s \in Starts(n) : s \in 1..m /\ s > 1 /\ s - 1 \in Feeds(n)
  BY DEF Feeds, Starts
<1> QED BY <1>1, <1>2, <1>3, <1>4

(* The words of a request.                                                 *)
RequestWords ==
  {"START", "=", "url", "video_device", "/dev/video", "100", "width", "1280",
   "height", "720", "fps", "30", "rotation", "mirror", "."}
  \cup RotationTexts \cup MirrorTexts

(* What stands at those places.                                            *)
LEMMA FeedsAre ==
  ASSUME NEW text, NEW url, NEW n, NEW rotation \in RotationTexts, NEW mirror \in MirrorTexts,
         Laid(text, n, url, rotation, mirror)
  PROVE  /\ \A i \in Feeds(n) : text[i] = NL
         /\ \A i \in WordPlaces(n) : text[i] \in RequestWords
<1>1. \A i \in Feeds(n) : text[i] = NL
  <2>1. /\ text[2] = NL /\ text[n + 5] = NL /\ text[n + 10] = NL /\ text[n + 14] = NL
        /\ text[n + 18] = NL /\ text[n + 22] = NL /\ text[n + 26] = NL /\ text[n + 30] = NL
    BY DEF Laid
  <2> QED BY <2>1 DEF Feeds
<1>2. \A i \in WordPlaces(n) : text[i] \in RequestWords
  <2>1. /\ text[1] = "START" /\ text[3] = "url" /\ text[4] = "="
        /\ text[n + 6] = "video_device" /\ text[n + 7] = "=" /\ text[n + 8] = "/dev/video"
        /\ text[n + 9] = "100" /\ text[n + 11] = "width" /\ text[n + 12] = "="
        /\ text[n + 13] = "1280" /\ text[n + 15] = "height" /\ text[n + 16] = "="
        /\ text[n + 17] = "720"
    BY DEF Laid
  <2>2. /\ text[n + 19] = "fps" /\ text[n + 20] = "=" /\ text[n + 21] = "30"
        /\ text[n + 23] = "rotation" /\ text[n + 24] = "=" /\ text[n + 25] = rotation
        /\ text[n + 27] = "mirror" /\ text[n + 28] = "=" /\ text[n + 29] = mirror
        /\ text[n + 31] = "."
    BY DEF Laid
  <2>3. \A i \in {1, 3, 4, n + 6, n + 7, n + 8, n + 9, n + 11, n + 12, n + 13, n + 15, n + 16, n + 17} :
          text[i] \in RequestWords
    <3>1. {"START", "=", "url", "video_device", "/dev/video", "100", "width", "1280",
           "height", "720"} \subseteq RequestWords
      BY DEF RequestWords
    <3> QED BY <2>1, <3>1
  <2>4. \A i \in {n + 19, n + 20, n + 21, n + 23, n + 24, n + 25, n + 27, n + 28, n + 29, n + 31} :
          text[i] \in RequestWords
    <3>1. {"=", "fps", "30", "rotation", "mirror", ".", rotation, mirror} \subseteq RequestWords
      BY DEF RequestWords
    <3> QED BY <2>2, <3>1
  <2> QED BY <2>3, <2>4, Zenon DEF WordPlaces
<1> QED BY <1>1, <1>2

(* Where its lines start.                                                  *)
LEMMA StartsAre ==
  ASSUME NEW text, NEW url \in Seq(Token), NEW n, n = Len(url),
         NEW rotation \in RotationTexts, NEW mirror \in MirrorTexts,
         Laid(text, n, url, rotation, mirror), \A i \in 1..n : url[i] # NL
  PROVE  LineStarts(text) \ {1} = Starts(n)
<1>1. n \in Nat
  BY LenProperties
<1>2. PICK m : m = Len(text)
  OBVIOUS
<1>3. m \in {n + 31, n + 32} /\ DOMAIN text = 1..m
  <2>1. text \in Seq(Token) /\ Len(text) \in {n + 31, n + 32}
    BY Zenon DEF Laid
  <2> QED BY <1>2, <2>1, LenProperties
<1>4. /\ \A i \in Feeds(n) : text[i] = NL
      /\ \A i \in WordPlaces(n) : text[i] \in RequestWords
  BY FeedsAre
<1>6. NL \notin RequestWords
  BY DEF NL, RequestWords, RotationTexts, MirrorTexts
<1>7. \A i \in 5..(n + 4) : text[i] # NL
  <2> TAKE i \in 5..(n + 4)
  <2>1. PICK j : j = i - 4
    OBVIOUS
  <2>2. j \in 1..n /\ i = 4 + j
    BY <1>1, <2>1
  <2>3. text[4 + j] = url[j]
    BY <2>2, Zenon DEF Laid, At
  <2> QED BY <2>2, <2>3
<1>8. /\ \A i \in 1..(n + 31) : i \in Feeds(n) \/ i \in WordPlaces(n) \/ i \in 5..(n + 4)
      /\ \A s \in 1..m : s > 1 => s - 1 \in 1..(n + 31)
      /\ {s \in 1..m : s > 1 /\ s - 1 \in Feeds(n)} = Starts(n)
  BY <1>1, <1>3, PlacesFit
<1>9. \A i \in 1..(n + 31) : text[i] = NL <=> i \in Feeds(n)
  BY <1>4, <1>6, <1>7, <1>8, Zenon
<1>10. \A s \in 1..m : s > 1 <=> s # 1
  BY <1>1, <1>3
<1>11. LineStarts(text) \ {1} = {s \in 1..m : s > 1 /\ text[s - 1] = NL}
  BY <1>3, <1>10, Zenon DEF LineStarts
<1>12. {s \in 1..m : s > 1 /\ text[s - 1] = NL} = {s \in 1..m : s > 1 /\ s - 1 \in Feeds(n)}
  BY <1>8, <1>9, Zenon
<1> QED BY <1>8, <1>11, <1>12

(* The options it sets.                                                    *)
AppOptions == {"url", "video_device", "width", "height", "fps", "rotation", "mirror"}

AskedFor(key, url, rotation, mirror) ==
  CASE key = "url" -> url
    [] key = "video_device" -> <<"/dev/video", "100">>
    [] key = "width" -> <<"1280">>
    [] key = "height" -> <<"720">>
    [] key = "fps" -> <<"30">>
    [] key = "rotation" -> <<rotation>>
    [] key = "mirror" -> <<mirror>>

Asked(url, rotation, mirror) == [key \in AppOptions |-> AskedFor(key, url, rotation, mirror)]

(* What is set at each start.                                              *)
LineSets(text, s, key, value) ==
  LineAt(text, s) = Option(key, value) /\ OptionReads(LineAt(text, s), key, value)

LinesSet(text, n, url, rotation, mirror) ==
  /\ LineSets(text, 3, "url", url)
  /\ LineSets(text, n + 6, "video_device", <<"/dev/video", "100">>)
  /\ LineSets(text, n + 11, "width", <<"1280">>)
  /\ LineSets(text, n + 15, "height", <<"720">>)
  /\ LineSets(text, n + 19, "fps", <<"30">>)
  /\ LineSets(text, n + 23, "rotation", <<rotation>>)
  /\ LineSets(text, n + 27, "mirror", <<mirror>>)

(* A value of one token, set by a line of a text.                          *)
LEMMA WordSet ==
  ASSUME NEW S, NEW text \in Seq(S), NEW s \in 1..Len(text), NEW key \in S, "=" \in S,
         NEW word \in S, s + 3 <= Len(text),
         text[s] = key, text[s + 1] = "=", text[s + 2] = word, text[s + 3] = NL,
         key \notin {NL, "\r", "="}, word \notin {NL, "\r"}
  PROVE  LineSets(text, s, key, <<word>>)
<1>1. PICK value : value = <<word>>
  OBVIOUS
<1>2. value \in Seq(S) /\ Len(value) = 1 /\ value[1] = word
  BY <1>1, OneToken
<1>3. At(text, s + 1, value)
  <2>1. \A j \in 1..1 : s + 1 + j = s + 2 /\ j = 1
    OBVIOUS
  <2> QED BY <1>2, <2>1 DEF At
<1>4. s + 2 + Len(value) <= Len(text) /\ text[s + 2 + Len(value)] = NL
  <2>1. s + 2 + Len(value) = s + 3
    BY <1>2
  <2> QED BY <2>1
<1>5. \A i \in 1..Len(value) : value[i] \notin {NL, "\r"}
  <2>1. \A i \in 1..Len(value) : i = 1
    BY <1>2
  <2> QED BY <1>2, <2>1
<1>6. LineAt(text, s) = Option(key, value) /\ OptionReads(LineAt(text, s), key, value)
  BY <1>2, <1>3, <1>4, <1>5, OptionLine, ZenonT(30)
<1> QED BY <1>1, <1>6, Zenon DEF LineSets

(* Words that set options one after another from some place on.            *)
LEMMA WordAt ==
  ASSUME NEW S, NEW text \in Seq(S), NEW n \in Nat, NEW k \in 1..27, n + 31 <= Len(text),
         NEW key \in S, "=" \in S, NEW word \in S,
         text[n + k] = key, text[n + (k + 1)] = "=", text[n + (k + 2)] = word,
         text[n + (k + 3)] = NL, key \notin {NL, "\r", "="}, word \notin {NL, "\r"}
  PROVE  LineSets(text, n + k, key, <<word>>)
<1>1. PICK s, m : s = n + k /\ m = Len(text)
  OBVIOUS
<1>2. m \in Nat
  BY <1>1, LenProperties
<1>3. s \in 1..m /\ s + 3 <= m /\ s + 1 = n + (k + 1) /\ s + 2 = n + (k + 2) /\ s + 3 = n + (k + 3)
  BY <1>1, <1>2
<1>4. text[s] = key /\ text[s + 1] = "=" /\ text[s + 2] = word /\ text[s + 3] = NL
  BY <1>1, <1>3
<1>5. LineSets(text, s, key, <<word>>)
  BY <1>1, <1>3, <1>4, WordSet
<1> QED BY <1>1, <1>5

(* What its lines set.                                                     *)
LEMMA LinesAre ==
  ASSUME NEW text, NEW url \in Seq(Token), NEW n, n = Len(url),
         NEW rotation \in RotationTexts, NEW mirror \in MirrorTexts,
         Laid(text, n, url, rotation, mirror),
         \A i \in 1..n : url[i] \notin {NL, "\r"}
  PROVE  LinesSet(text, n, url, rotation, mirror)
<1>1. n \in Nat
  BY LenProperties
<1>2. text \in Seq(Token) /\ n + 31 <= Len(text)
  <2>1. text \in Seq(Token) /\ Len(text) \in {n + 31, n + 32}
    BY Zenon DEF Laid
  <2> QED BY <1>1, <2>1
<1>3. /\ "url" \in Token /\ "=" \in Token /\ "video_device" \in Token /\ "width" \in Token
      /\ "height" \in Token /\ "fps" \in Token /\ "rotation" \in Token /\ "mirror" \in Token
  BY DEF Token
<1>4. /\ "/dev/video" \in Token /\ "100" \in Token /\ "1280" \in Token /\ "720" \in Token
      /\ "30" \in Token /\ rotation \in Token /\ mirror \in Token
  BY DEF Token, RotationTexts, MirrorTexts
<1>5. /\ "url" \notin {NL, "\r", "="} /\ "video_device" \notin {NL, "\r", "="}
      /\ "width" \notin {NL, "\r", "="} /\ "height" \notin {NL, "\r", "="}
      /\ "fps" \notin {NL, "\r", "="} /\ "rotation" \notin {NL, "\r", "="}
      /\ "mirror" \notin {NL, "\r", "="}
  BY DEF NL
<1>6. /\ "/dev/video" \notin {NL, "\r"} /\ "100" \notin {NL, "\r"} /\ "1280" \notin {NL, "\r"}
      /\ "720" \notin {NL, "\r"} /\ "30" \notin {NL, "\r"}
      /\ rotation \notin {NL, "\r"} /\ mirror \notin {NL, "\r"}
  BY DEF NL, RotationTexts, MirrorTexts
<1>7. LineSets(text, 3, "url", url)
  <2>1. /\ 3 \in 1..Len(text) /\ 3 + 2 + n <= Len(text) /\ 3 + 1 = 4 /\ 3 + 2 + n = n + 5
    BY <1>1, <1>2
  <2>2. text[3] = "url" /\ text[4] = "=" /\ At(text, 4, url) /\ text[n + 5] = NL
    BY DEF Laid
  <2>3. LineAt(text, 3) = Option("url", url) /\ OptionReads(LineAt(text, 3), "url", url)
    BY <1>2, <1>3, <1>5, <2>1, <2>2, OptionLine
  <2> QED BY <2>3, Zenon DEF LineSets
<1>8. LineSets(text, n + 6, "video_device", <<"/dev/video", "100">>)
  <2>1. PICK s, value : s = n + 6 /\ value = <<"/dev/video", "100">>
    OBVIOUS
  <2>2. value \in Seq(Token) /\ Len(value) = 2 /\ value[1] = "/dev/video" /\ value[2] = "100"
    BY <1>4, <2>1, TwoTokens
  <2>3. /\ s \in 1..Len(text) /\ s + 2 + 2 <= Len(text) /\ s + 1 = n + 7 /\ s + 1 + 1 = n + 8
        /\ s + 1 + 2 = n + 9 /\ s + 2 + 2 = n + 10
    BY <1>1, <1>2, <2>1
  <2>4. /\ text[s] = "video_device" /\ text[s + 1] = "=" /\ text[s + 1 + 1] = "/dev/video"
        /\ text[s + 1 + 2] = "100" /\ text[s + 2 + 2] = NL
    BY <2>1, <2>3 DEF Laid
  <2>5. At(text, s + 1, value)
    <3>1. \A j \in 1..2 : j = 1 \/ j = 2
      OBVIOUS
    <3> QED BY <2>2, <2>4, <3>1 DEF At
  <2>6. \A i \in 1..Len(value) : value[i] \notin {NL, "\r"}
    <3>1. \A j \in 1..2 : j = 1 \/ j = 2
      OBVIOUS
    <3> QED BY <1>6, <2>2, <3>1
  <2>7. s + 2 + Len(value) <= Len(text) /\ text[s + 2 + Len(value)] = NL
    BY <2>2, <2>3, <2>4
  <2>8. LineAt(text, s) = Option("video_device", value)
        /\ OptionReads(LineAt(text, s), "video_device", value)
    BY <1>2, <1>3, <1>5, <2>2, <2>3, <2>4, <2>5, <2>6, <2>7, OptionLine, Zenon
  <2> QED BY <2>1, <2>8, Zenon DEF LineSets
<1>9. /\ 11 + 1 = 12 /\ 11 + 2 = 13 /\ 11 + 3 = 14 /\ 15 + 1 = 16 /\ 15 + 2 = 17 /\ 15 + 3 = 18
      /\ 19 + 1 = 20 /\ 19 + 2 = 21 /\ 19 + 3 = 22 /\ 23 + 1 = 24 /\ 23 + 2 = 25 /\ 23 + 3 = 26
      /\ 27 + 1 = 28 /\ 27 + 2 = 29 /\ 27 + 3 = 30
      /\ 11 \in 1..27 /\ 15 \in 1..27 /\ 19 \in 1..27 /\ 23 \in 1..27 /\ 27 \in 1..27
  OBVIOUS
<1>10. LineSets(text, n + 11, "width", <<"1280">>)
  <2>1. /\ text[n + 11] = "width" /\ text[n + 12] = "=" /\ text[n + 13] = "1280"
        /\ text[n + 14] = NL
    BY DEF Laid
  <2> QED BY <1>1, <1>2, <1>3, <1>4, <1>5, <1>6, <1>9, <2>1, WordAt, Zenon
<1>11. LineSets(text, n + 15, "height", <<"720">>)
  <2>1. /\ text[n + 15] = "height" /\ text[n + 16] = "=" /\ text[n + 17] = "720"
        /\ text[n + 18] = NL
    BY DEF Laid
  <2> QED BY <1>1, <1>2, <1>3, <1>4, <1>5, <1>6, <1>9, <2>1, WordAt, Zenon
<1>12. LineSets(text, n + 19, "fps", <<"30">>)
  <2>1. /\ text[n + 19] = "fps" /\ text[n + 20] = "=" /\ text[n + 21] = "30" /\ text[n + 22] = NL
    BY DEF Laid
  <2> QED BY <1>1, <1>2, <1>3, <1>4, <1>5, <1>6, <1>9, <2>1, WordAt, Zenon
<1>13. LineSets(text, n + 23, "rotation", <<rotation>>)
  <2>1. /\ text[n + 23] = "rotation" /\ text[n + 24] = "=" /\ text[n + 25] = rotation
        /\ text[n + 26] = NL
    BY DEF Laid
  <2> QED BY <1>1, <1>2, <1>3, <1>4, <1>5, <1>6, <1>9, <2>1, WordAt, Zenon
<1>14. LineSets(text, n + 27, "mirror", <<mirror>>)
  <2>1. /\ text[n + 27] = "mirror" /\ text[n + 28] = "=" /\ text[n + 29] = mirror
        /\ text[n + 30] = NL
    BY DEF Laid
  <2> QED BY <1>1, <1>2, <1>3, <1>4, <1>5, <1>6, <1>9, <2>1, WordAt, Zenon
<1> QED BY <1>7, <1>8, <1>10, <1>11, <1>12, <1>13, <1>14, Zenon DEF LinesSet

(* A line of one word begins with it.                                      *)
LEMMA WordStands ==
  ASSUME NEW S, NEW text \in Seq(S), NEW s \in 1..Len(text), NEW word, LineAt(text, s) = <<word>>
  PROVE  text[s] = word
<1>1. PICK line : line = LineAt(text, s)
  OBVIOUS
<1>2. line = <<word>> /\ Len(line) = 1 /\ line[1] = word
  BY <1>1
<1>3. At(text, s - 1, line)
  BY <1>1, LineStands
<1>4. text[s - 1 + 1] = line[1] /\ s - 1 + 1 = s
  BY <1>2, <1>3 DEF At
<1> QED BY <1>2, <1>4

(* It has one end, and all lines before it are options.                    *)
LEMMA EndIs ==
  ASSUME NEW text, NEW url \in Seq(Token), NEW n, n = Len(url),
         NEW rotation \in RotationTexts, NEW mirror \in MirrorTexts,
         Laid(text, n, url, rotation, mirror), \A i \in 1..n : url[i] # NL
  PROVE  Ends(text) = {n + 31} /\ OptionLines(text) = Starts(n) \ {n + 31}
<1>1. n \in Nat
  BY LenProperties
<1>2. PICK m : m = Len(text)
  OBVIOUS
<1>3. text \in Seq(Token) /\ m \in {n + 31, n + 32} /\ (m = n + 32 => text[n + 32] = NL)
  BY <1>2 DEF Laid
<1>4. LineStarts(text) \ {1} = Starts(n)
  BY StartsAre
<1>5. \A s \in Starts(n) : s \in 1..m /\ (s = n + 31 \/ s < n + 31)
  BY <1>1, <1>3 DEF Starts
<1>6. LineAt(text, n + 31) = <<".">>
  <2>1. PICK s, line, dot : s = n + 31 /\ dot = "." /\ line = <<dot>>
    OBVIOUS
  <2>2. dot \in Token /\ dot # NL /\ dot # "\r"
    BY <2>1 DEF Token, NL
  <2>3. line \in Seq(Token) /\ Len(line) = 1 /\ line[1] = dot
    BY <2>1, <2>2, OneToken
  <2>4. s \in 1..m /\ s + 1 <= m + 1 /\ s - 1 + 1 = s /\ s + 1 = n + 32 /\ (s + 1 <= m => m = n + 32)
    BY <1>1, <1>3, <2>1
  <2>5. text[s] = dot
    BY <2>1 DEF Laid
  <2>6. At(text, s - 1, line) /\ \A i \in 1..Len(line) : line[i] # NL /\ line[i] # "\r"
    <3>1. \A i \in 1..1 : i = 1
      OBVIOUS
    <3> QED BY <2>2, <2>3, <2>4, <2>5, <3>1 DEF At
  <2>7. s + Len(line) <= Len(text) + 1 /\ (s + Len(line) <= Len(text) => text[s + Len(line)] = NL)
    BY <1>2, <1>3, <2>3, <2>4
  <2>8. LineAt(text, s) = line
    BY <1>2, <1>3, <2>3, <2>4, <2>6, <2>7, LineIs, Zenon
  <2> QED BY <2>1, <2>8
<1>7. \A s \in Starts(n) : LineAt(text, s) = <<".">> => s = n + 31
  <2> SUFFICES ASSUME NEW s \in Starts(n), s # n + 31, LineAt(text, s) = <<".">> PROVE FALSE
    OBVIOUS
  <2>1. text[s] = "."
    BY <1>2, <1>3, <1>5, WordStands
  <2>2. /\ text[3] = "url" /\ text[n + 6] = "video_device" /\ text[n + 11] = "width"
        /\ text[n + 15] = "height" /\ text[n + 19] = "fps" /\ text[n + 23] = "rotation"
        /\ text[n + 27] = "mirror"
    BY DEF Laid
  <2>3. text[s] \in {"url", "video_device", "width", "height", "fps", "rotation", "mirror"}
    BY <2>2 DEF Starts
  <2> QED BY <2>1, <2>3
<1>8. n + 31 \in Starts(n)
  BY Zenon DEF Starts
<1>9. Ends(text) = {n + 31}
  <2>1. Ends(text) = {s \in Starts(n) : LineAt(text, s) = <<".">>}
    BY <1>4, Zenon DEF Ends
  <2> QED BY <1>6, <1>7, <1>8, <2>1, Zenon
<1>10. OptionLines(text) = {s \in Starts(n) : s < n + 31}
  <2>1. OptionLines(text) = {s \in Starts(n) : \A end \in {n + 31} : s < end}
    BY <1>4, <1>9, Zenon DEF OptionLines
  <2> QED BY <2>1, Zenon
<1>11. ~ (n + 31 < n + 31)
  BY <1>1
<1>12. OptionLines(text) = Starts(n) \ {n + 31}
  BY <1>5, <1>10, <1>11, Zenon
<1> QED BY <1>9, <1>12

(* Its options are set to what was asked.                                  *)
LEMMA SetsAsked ==
  ASSUME NEW text, NEW n \in Nat, NEW url, NEW rotation, NEW mirror,
         LinesSet(text, n, url, rotation, mirror)
  PROVE  /\ \A s \in Starts(n) \ {n + 31} :
              \E key \in AppOptions : LineSets(text, s, key, Asked(url, rotation, mirror)[key])
         /\ \A key \in AppOptions :
              \E s \in Starts(n) \ {n + 31} : LineSets(text, s, key, Asked(url, rotation, mirror)[key])
<1>1. PICK a : a = Asked(url, rotation, mirror)
  OBVIOUS
<1>2. /\ a["url"] = url /\ a["video_device"] = <<"/dev/video", "100">> /\ a["width"] = <<"1280">>
      /\ a["height"] = <<"720">> /\ a["fps"] = <<"30">> /\ a["rotation"] = <<rotation>>
      /\ a["mirror"] = <<mirror>>
  BY <1>1 DEF Asked, AskedFor, AppOptions
<1>3. /\ LineSets(text, 3, "url", a["url"])
      /\ LineSets(text, n + 6, "video_device", a["video_device"])
      /\ LineSets(text, n + 11, "width", a["width"])
      /\ LineSets(text, n + 15, "height", a["height"])
      /\ LineSets(text, n + 19, "fps", a["fps"])
      /\ LineSets(text, n + 23, "rotation", a["rotation"])
      /\ LineSets(text, n + 27, "mirror", a["mirror"])
  BY <1>2, Zenon DEF LinesSet
<1>4. Starts(n) \ {n + 31} = {3, n + 6, n + 11, n + 15, n + 19, n + 23, n + 27}
  BY DEF Starts
<1>5. \A s \in Starts(n) \ {n + 31} : \E key \in AppOptions : LineSets(text, s, key, a[key])
  <2> TAKE s \in Starts(n) \ {n + 31}
  <2>1. \/ s = 3 \/ s = n + 6 \/ s = n + 11 \/ s = n + 15 \/ s = n + 19
        \/ s = n + 23 \/ s = n + 27
    BY <1>4, Zenon
  <2>2. {"url", "video_device", "width", "height", "fps", "rotation", "mirror"} = AppOptions
    BY DEF AppOptions
  <2> QED BY <1>3, <2>1, <2>2, ZenonT(30)
<1>6. \A key \in AppOptions : \E s \in Starts(n) \ {n + 31} : LineSets(text, s, key, a[key])
  <2> TAKE key \in AppOptions
  <2>1. \/ key = "url" \/ key = "video_device" \/ key = "width" \/ key = "height"
        \/ key = "fps" \/ key = "rotation" \/ key = "mirror"
    BY Zenon DEF AppOptions
  <2> QED BY <1>3, <1>4, <2>1, ZenonT(30)
<1> QED BY <1>1, <1>5, <1>6

(* No option is set by two lines.                                          *)
LEMMA SetOnce ==
  ASSUME NEW text, NEW n \in Nat, NEW url, NEW rotation, NEW mirror,
         LinesSet(text, n, url, rotation, mirror),
         NEW s \in Starts(n) \ {n + 31}, NEW t \in Starts(n) \ {n + 31},
         Key(LineAt(text, s)) = Key(LineAt(text, t))
  PROVE  s = t
<1>1. /\ Key(LineAt(text, 3)) = <<"url">> /\ Key(LineAt(text, n + 6)) = <<"video_device">>
      /\ Key(LineAt(text, n + 11)) = <<"width">> /\ Key(LineAt(text, n + 15)) = <<"height">>
      /\ Key(LineAt(text, n + 19)) = <<"fps">> /\ Key(LineAt(text, n + 23)) = <<"rotation">>
      /\ Key(LineAt(text, n + 27)) = <<"mirror">>
  BY Zenon DEF LinesSet, LineSets, OptionReads
<1>2. PICK name : name = [p \in 1..(n + 27) |-> Key(LineAt(text, p))[1]]
  OBVIOUS
<1>3. /\ name[3] = "url" /\ name[n + 6] = "video_device" /\ name[n + 11] = "width"
      /\ name[n + 15] = "height" /\ name[n + 19] = "fps" /\ name[n + 23] = "rotation"
      /\ name[n + 27] = "mirror"
  <2>1. /\ name[3] = Key(LineAt(text, 3))[1] /\ name[n + 6] = Key(LineAt(text, n + 6))[1]
        /\ name[n + 11] = Key(LineAt(text, n + 11))[1] /\ name[n + 15] = Key(LineAt(text, n + 15))[1]
        /\ name[n + 19] = Key(LineAt(text, n + 19))[1] /\ name[n + 23] = Key(LineAt(text, n + 23))[1]
        /\ name[n + 27] = Key(LineAt(text, n + 27))[1]
    BY <1>2
  <2> QED BY <1>1, <2>1
<1>4. Starts(n) \ {n + 31} = {3, n + 6, n + 11, n + 15, n + 19, n + 23, n + 27}
  BY DEF Starts
<1>5. \A p \in Starts(n) \ {n + 31} : p \in 1..(n + 27)
  BY <1>4
<1>6. name[s] = name[t]
  BY <1>2, <1>5
<1> QED BY <1>3, <1>4, <1>6

(* What the app asks for is text.                                          *)
LEMMA AskedIsText ==
  ASSUME NEW url \in Seq(Token), NEW rotation \in RotationTexts, NEW mirror \in MirrorTexts,
         NEW key \in AppOptions
  PROVE  Asked(url, rotation, mirror)[key] \in Seq(Token) /\ key \in Token /\ "=" \in Token
<1>1. PICK a : a = Asked(url, rotation, mirror)
  OBVIOUS
<1>2. /\ a["url"] = url /\ a["video_device"] = <<"/dev/video", "100">> /\ a["width"] = <<"1280">>
      /\ a["height"] = <<"720">> /\ a["fps"] = <<"30">> /\ a["rotation"] = <<rotation>>
      /\ a["mirror"] = <<mirror>>
  BY <1>1 DEF Asked, AskedFor, AppOptions
<1>3. /\ "/dev/video" \in Token /\ "100" \in Token /\ "1280" \in Token /\ "720" \in Token
      /\ "30" \in Token /\ rotation \in Token /\ mirror \in Token /\ "=" \in Token
  BY DEF Token, RotationTexts, MirrorTexts
<1>4. <<"/dev/video", "100">> \in Seq(Token)
  BY <1>3, TwoTokens, Zenon
<1>5. /\ <<"1280">> \in Seq(Token) /\ <<"720">> \in Seq(Token) /\ <<"30">> \in Seq(Token)
      /\ <<rotation>> \in Seq(Token) /\ <<mirror>> \in Seq(Token)
  BY <1>3, OneToken, Zenon
<1>6. a[key] \in Seq(Token)
  BY <1>2, <1>4, <1>5, Zenon DEF AppOptions
<1>7. key \in Token
  BY DEF AppOptions, Token
<1> QED BY <1>1, <1>3, <1>6, <1>7

(* A request sets what is asked, in lines that are well formed.            *)
LEMMA ValuesAre ==
  ASSUME NEW text, NEW url \in Seq(Token), NEW n, n = Len(url),
         NEW rotation \in RotationTexts, NEW mirror \in MirrorTexts,
         Laid(text, n, url, rotation, mirror), \A i \in 1..n : url[i] \notin {NL, "\r"}
  PROVE  /\ WellFormed(text) /\ Terminated(text) /\ WordKeys(text)
         /\ Values(text) = Asked(url, rotation, mirror)
<1>1. n \in Nat
  BY LenProperties
<1>2. PICK a : a = Asked(url, rotation, mirror)
  OBVIOUS
<1>3. Ends(text) = {n + 31} /\ OptionLines(text) = Starts(n) \ {n + 31}
  BY EndIs
<1>4. PICK places : places = Starts(n) \ {n + 31}
  OBVIOUS
<1>5. LinesSet(text, n, url, rotation, mirror)
  BY LinesAre
<1>6. /\ \A s \in places : \E key \in AppOptions : LineSets(text, s, key, a[key])
      /\ \A key \in AppOptions : \E s \in places : LineSets(text, s, key, a[key])
  BY <1>1, <1>2, <1>4, <1>5, SetsAsked, Zenon
<1>7. \A s \in places : Before(LineAt(text, s), {"="}) \in 1 .. Len(LineAt(text, s)) - 1
  <2> TAKE s \in places
  <2>1. PICK key \in AppOptions : LineSets(text, s, key, a[key])
    BY <1>6
  <2>2. a[key] \in Seq(Token) /\ key \in Token /\ "=" \in Token
    BY <1>2, AskedIsText
  <2>3. PICK line, value : line = LineAt(text, s) /\ value = a[key]
    OBVIOUS
  <2>4. line = Option(key, value) /\ Before(line, {"="}) = 1
    BY <2>1, <2>3, Zenon DEF LineSets, OptionReads
  <2>5. OptionParts(Token, line, key, value)
    BY <2>2, <2>3, <2>4, OptionIs
  <2>6. Len(line) = 2 + Len(value) /\ Len(value) \in Nat
    BY <2>2, <2>3, <2>5, LenProperties DEF OptionParts
  <2> QED BY <2>3, <2>4, <2>6
<1>8. \A s, t \in places : Key(LineAt(text, s)) = Key(LineAt(text, t)) => s = t
  BY <1>1, <1>4, <1>5, SetOnce
<1>9. WellFormed(text)
  BY <1>3, <1>4, <1>7, <1>8, Zenon DEF WellFormed
<1>10. Terminated(text)
  BY <1>3 DEF Terminated
<1>11. Values(text) = a
  <2> DEFINE lines == {LineAt(text, s) : s \in OptionLines(text)}
  <2>1. lines = {LineAt(text, s) : s \in places}
    BY <1>3, <1>4
  <2>8. Values(text) = [key \in {Key(line)[1] : line \in lines} |->
                          ValueOf(CHOOSE line \in lines : Key(line)[1] = key)]
    BY DEF Values
  <2> HIDE DEF lines
  <2>2. \A line \in lines :
          \E key \in AppOptions : line = Option(key, a[key]) /\ OptionReads(line, key, a[key])
    BY <1>6, <2>1, Zenon DEF LineSets
  <2>3. \A key \in AppOptions : \E line \in lines : OptionReads(line, key, a[key])
    BY <1>6, <2>1, Zenon DEF LineSets
  <2>4. \A line \in lines : \E key \in AppOptions :
          line = Option(key, a[key]) /\ Key(line)[1] = key /\ ValueOf(line) = a[key]
    <3> TAKE line \in lines
    <3>1. PICK key \in AppOptions : line = Option(key, a[key]) /\ OptionReads(line, key, a[key])
      BY <2>2
    <3>2. Key(line) = <<key>> /\ ValueOf(line) = a[key]
      BY <3>1, Zenon DEF OptionReads
    <3>3. Key(line)[1] = key
      BY <3>2
    <3> QED BY <3>1, <3>2, <3>3
  <2>5. \A key \in AppOptions : \E line \in lines : Key(line)[1] = key /\ ValueOf(line) = a[key]
    <3> TAKE key \in AppOptions
    <3>1. PICK line \in lines : OptionReads(line, key, a[key])
      BY <2>3
    <3>2. Key(line) = <<key>> /\ ValueOf(line) = a[key]
      BY <3>1, Zenon DEF OptionReads
    <3>3. Key(line)[1] = key
      BY <3>2
    <3> QED BY <3>2, <3>3
  <2>6. {Key(line)[1] : line \in lines} = AppOptions
    BY <2>4, <2>5
  <2>7. \A key \in AppOptions : ValueOf(CHOOSE line \in lines : Key(line)[1] = key) = a[key]
    <3> TAKE key \in AppOptions
    <3>1. PICK line : line = CHOOSE l \in lines : Key(l)[1] = key
      OBVIOUS
    <3>2. line \in lines /\ Key(line)[1] = key
      BY <2>5, <3>1
    <3> QED BY <2>4, <3>1, <3>2
  <2>9. Values(text) = [key \in AppOptions |-> a[key]]
    BY <2>6, <2>7, <2>8, Zenon
  <2>10. a = [key \in AppOptions |-> a[key]]
    <3>1. DOMAIN a = AppOptions
      BY <1>2, Zenon DEF Asked
    <3>2. a = [key \in DOMAIN a |-> a[key]]
      BY <1>2 DEF Asked
    <3> QED BY <3>1, <3>2
  <2> QED BY <2>9, <2>10, Zenon
<1>12. WordKeys(text)
  <2> SUFFICES ASSUME NEW s \in places PROVE Len(Key(LineAt(text, s))) = 1
    BY <1>3, <1>4, Zenon DEF WordKeys
  <2>1. PICK key : Key(LineAt(text, s)) = <<key>>
    BY <1>6, Zenon DEF LineSets, OptionReads
  <2> QED BY <2>1
<1> QED BY <1>2, <1>9, <1>10, <1>11, <1>12

(* A number has one text, and a text stands for one number.                *)
LEMMA TextsDiffer == \A p, q \in IntTexts : p[1] = q[1] <=> p[2] = q[2]
<1> DEFINE text == [n \in Int |->
                      CASE n = -90 -> "-90" [] n = 0 -> "0" [] n = 1 -> "1" [] n = 30 -> "30"
                        [] n = 45 -> "45" [] n = 90 -> "90" [] n = 180 -> "180" [] n = 270 -> "270"
                        [] n = 720 -> "720" [] n = 1280 -> "1280" [] n = 1920 -> "1920"]
<1>1. \A p \in IntTexts : p[1] \in {-90, 0, 1, 30, 45, 90, 180, 270, 720, 1280, 1920}
  BY DEF IntTexts
<1>2. \A p \in IntTexts : p[2] = text[p[1]]
  BY DEF IntTexts
<1>3. \A m, n \in {-90, 0, 1, 30, 45, 90, 180, 270, 720, 1280, 1920} : text[m] = text[n] => m = n
  OBVIOUS
<1> HIDE DEF text
<1> QED BY <1>1, <1>2, <1>3

(* A number of the texts is written and read as it is.                     *)
LEMMA DecimalIs ==
  ASSUME NEW n, NEW t, <<n, t>> \in IntTexts
  PROVE  Decimal(n) = t /\ IsInt(<<t>>) /\ IntOf(<<t>>) = n
<1>1. PICK pair : pair = <<n, t>>
  OBVIOUS
<1>2. pair \in IntTexts /\ pair[1] = n /\ pair[2] = t
  BY <1>1
<1>3. \A p, q : <<p>> = <<q>> <=> p = q
  OBVIOUS
<1>4. Decimal(n) = t
  <2>1. PICK p : p = CHOOSE x \in IntTexts : x[1] = n
    OBVIOUS
  <2>2. p \in IntTexts /\ p[1] = n
    BY <1>2, <2>1, Zenon
  <2>3. p[2] = t
    BY <1>2, <2>2, TextsDiffer, Zenon
  <2> QED BY <2>1, <2>3, Zenon DEF Decimal
<1>5. IsInt(<<t>>)
  BY <1>2, Zenon DEF IsInt
<1>6. IntOf(<<t>>) = n
  <2>1. PICK p : p = CHOOSE x \in IntTexts : <<t>> = <<x[2]>>
    OBVIOUS
  <2>2. p \in IntTexts /\ <<t>> = <<p[2]>>
    BY <1>2, <2>1, Zenon
  <2>3. p[2] = t
    BY <1>3, <2>2, Zenon
  <2>4. p[1] = n
    BY <1>2, <2>2, <2>3, TextsDiffer, Zenon
  <2> QED BY <2>1, <2>4, Zenon DEF IntOf
<1> QED BY <1>4, <1>5, <1>6

(* The texts of the numbers that the user cannot choose.                   *)
LEMMA FixedTexts ==
  /\ Decimal(1280) = "1280" /\ IsInt(<<"1280">>) /\ IntOf(<<"1280">>) = 1280
  /\ Decimal(720) = "720" /\ IsInt(<<"720">>) /\ IntOf(<<"720">>) = 720
  /\ Decimal(30) = "30" /\ IsInt(<<"30">>) /\ IntOf(<<"30">>) = 30
<1>1. <<1280, "1280">> \in IntTexts /\ <<720, "720">> \in IntTexts /\ <<30, "30">> \in IntTexts
  BY DEF IntTexts
<1>2. Decimal(1280) = "1280" /\ IsInt(<<"1280">>) /\ IntOf(<<"1280">>) = 1280
  BY <1>1, DecimalIs
<1>3. Decimal(720) = "720" /\ IsInt(<<"720">>) /\ IntOf(<<"720">>) = 720
  BY <1>1, DecimalIs
<1>4. Decimal(30) = "30" /\ IsInt(<<"30">>) /\ IntOf(<<"30">>) = 30
  BY <1>1, DecimalIs
<1> QED BY <1>2, <1>3, <1>4

(* Functions that agree everywhere are one.                                *)
LEMMA SameFunction ==
  ASSUME NEW D, NEW f, NEW g, DOMAIN f = D, DOMAIN g = D,
         f = [x \in DOMAIN f |-> f[x]], g = [x \in DOMAIN g |-> g[x]],
         \A x \in D : f[x] = g[x]
  PROVE  f = g
OBVIOUS

(* What the user meant: this URL, rotation and mirror, and the default for *)
(* the rest.                                                               *)
Wanted(url, rotation, mirror) ==
  [DefaultConfig EXCEPT !.url = url, !.mirror = mirror, !.rotation = rotation]

(* Its options.                                                            *)
LEMMA WantedIs ==
  ASSUME NEW url, NEW rotation, NEW mirror
  PROVE  /\ DOMAIN DefaultConfig = AppOptions /\ DOMAIN Wanted(url, rotation, mirror) = AppOptions
         /\ Wanted(url, rotation, mirror).url = url
         /\ Wanted(url, rotation, mirror).rotation = rotation
         /\ Wanted(url, rotation, mirror).mirror = mirror
         /\ Wanted(url, rotation, mirror).video_device = <<"/dev/video", "100">>
         /\ Wanted(url, rotation, mirror).width = 1280
         /\ Wanted(url, rotation, mirror).height = 720
         /\ Wanted(url, rotation, mirror).fps = 30
<1>1. DOMAIN DefaultConfig = AppOptions
  BY DEF DefaultConfig, AppOptions
<1>2. DefaultConfig.video_device = <<"/dev/video", "100">> /\ DefaultConfig.width = 1280
      /\ DefaultConfig.height = 720 /\ DefaultConfig.fps = 30
  BY DEF DefaultConfig
<1>3. PICK d : d = DefaultConfig
  OBVIOUS
<1>4. DOMAIN d = AppOptions /\ d.video_device = <<"/dev/video", "100">> /\ d.width = 1280
      /\ d.height = 720 /\ d.fps = 30
  BY <1>1, <1>2, <1>3
<1>5. PICK w : w = [d EXCEPT !.url = url, !.mirror = mirror, !.rotation = rotation]
  OBVIOUS
<1>6. w = Wanted(url, rotation, mirror)
  BY <1>3, <1>5, Zenon DEF Wanted
<1>7. /\ DOMAIN w = AppOptions /\ w.url = url /\ w.rotation = rotation /\ w.mirror = mirror
      /\ w.video_device = d.video_device /\ w.width = d.width /\ w.height = d.height /\ w.fps = d.fps
  BY <1>4, <1>5 DEF AppOptions
<1> QED BY <1>1, <1>4, <1>6, <1>7

(* The request of the app configures what the user meant.                  *)
LEMMA ConfiguredIs ==
  ASSUME NEW url, NEW rotation \in Rotations, NEW mirror \in BOOLEAN, NEW values,
         values = Asked(url, Decimal(rotation), Decimal(IF mirror THEN 1 ELSE 0))
  PROVE  /\ Decimal(rotation) \in RotationTexts
         /\ Decimal(IF mirror THEN 1 ELSE 0) \in MirrorTexts
         /\ Understood(values) /\ Configured(values) = Wanted(url, rotation, mirror)
<1>1. PICK r, m : r = Decimal(rotation) /\ m = Decimal(IF mirror THEN 1 ELSE 0)
  OBVIOUS
<1>2. r \in RotationTexts /\ IsInt(<<r>>) /\ IntOf(<<r>>) = rotation
  <2>1. /\ <<0, "0">> \in IntTexts /\ <<90, "90">> \in IntTexts
        /\ <<180, "180">> \in IntTexts /\ <<270, "270">> \in IntTexts
    BY DEF IntTexts
  <2>2. \E t \in RotationTexts : <<rotation, t>> \in IntTexts
    BY <2>1 DEF Rotations, RotationTexts
  <2>3. PICK t \in RotationTexts : <<rotation, t>> \in IntTexts
    BY <2>2
  <2> QED BY <1>1, <2>3, DecimalIs
<1>3. m \in MirrorTexts /\ (mirror => m = "1") /\ (~ mirror => m = "0")
  <2>1. <<0, "0">> \in IntTexts /\ <<1, "1">> \in IntTexts
    BY DEF IntTexts
  <2>2. Decimal(0) = "0" /\ Decimal(1) = "1"
    BY <2>1, DecimalIs
  <2> QED BY <1>1, <2>2 DEF MirrorTexts
<1>4. /\ IsInt(<<"1280">>) /\ IntOf(<<"1280">>) = 1280 /\ IsInt(<<"720">>) /\ IntOf(<<"720">>) = 720
      /\ IsInt(<<"30">>) /\ IntOf(<<"30">>) = 30
  BY FixedTexts
<1>5. values = Asked(url, r, m)
  BY <1>1
<1>6. /\ DOMAIN values = AppOptions /\ values["url"] = url
      /\ values["video_device"] = <<"/dev/video", "100">> /\ values["width"] = <<"1280">>
      /\ values["height"] = <<"720">> /\ values["fps"] = <<"30">>
      /\ values["rotation"] = <<r>> /\ values["mirror"] = <<m>>
  BY <1>5 DEF Asked, AskedFor, AppOptions
<1>7. BoolTexts.true = {<<"1">>, <<"true">>} /\ BoolTexts.false = {<<"0">>, <<"false">>}
  BY DEF BoolTexts
<1>8. <<m>> \in BoolTexts.true \cup BoolTexts.false /\ (<<m>> \in BoolTexts.true <=> mirror)
  BY <1>3, <1>7
<1>9. Understood(values)
  <2>1. DOMAIN values \subseteq IntOptions \cup {"url", "video_device", "mirror"}
    BY <1>6 DEF AppOptions, IntOptions
  <2>2. \A key \in IntOptions \cap DOMAIN values : IsInt(values[key])
    BY <1>2, <1>4, <1>6 DEF IntOptions
  <2> QED BY <1>6, <1>8, <2>1, <2>2, Zenon DEF Understood
<1>10. PICK f, g : f = Configured(values) /\ g = Wanted(url, rotation, mirror)
  OBVIOUS
<1>11. /\ DOMAIN DefaultConfig = AppOptions /\ DOMAIN g = AppOptions
       /\ g["url"] = url /\ g["rotation"] = rotation /\ g["mirror"] = mirror
       /\ g["video_device"] = <<"/dev/video", "100">> /\ g["width"] = 1280
       /\ g["height"] = 720 /\ g["fps"] = 30
  BY <1>10, WantedIs
<1>12. f = [option \in AppOptions |->
              CASE option \in IntOptions -> IntOf(values[option])
                [] option = "mirror" -> values[option] \in BoolTexts.true
                [] OTHER -> values[option]]
  BY <1>6, <1>10, <1>11 DEF Configured
<1>13. /\ DOMAIN f = AppOptions
       /\ f["url"] = values["url"] /\ f["video_device"] = values["video_device"]
       /\ f["width"] = IntOf(values["width"]) /\ f["height"] = IntOf(values["height"])
       /\ f["fps"] = IntOf(values["fps"]) /\ f["rotation"] = IntOf(values["rotation"])
       /\ f["mirror"] = (values["mirror"] \in BoolTexts.true)
  BY <1>12 DEF AppOptions, IntOptions
<1>14. \A option \in AppOptions : f[option] = g[option]
  <2>1. f["url"] = g["url"] /\ f["video_device"] = g["video_device"]
    BY <1>6, <1>11, <1>13
  <2>2. f["width"] = g["width"] /\ f["height"] = g["height"] /\ f["fps"] = g["fps"]
        /\ f["rotation"] = g["rotation"]
    BY <1>2, <1>4, <1>6, <1>11, <1>13
  <2>3. f["mirror"] = g["mirror"]
    BY <1>6, <1>8, <1>11, <1>13
  <2> QED BY <2>1, <2>2, <2>3, Zenon DEF AppOptions
<1>15. f = [option \in DOMAIN f |-> f[option]]
  BY <1>10 DEF Configured
<1>16. g = [option \in DOMAIN g |-> g[option]]
  BY <1>10 DEF Wanted
<1>17. f = g
  BY <1>11, <1>13, <1>14, <1>15, <1>16, SameFunction
<1> QED BY <1>1, <1>2, <1>3, <1>9, <1>10, <1>17

-------------------------------------------------------------------------------
(* Texts: their sizes *)

(* Tokens are counted with natural numbers.                                *)
LEMMA CountIs ==
  ASSUME NEW S, NEW text \in Seq(S), NEW token
  PROVE  /\ Count(text, token) \in Nat
         /\ IsFiniteSet({i \in DOMAIN text : text[i] = token})
         /\ (\A i \in DOMAIN text : text[i] # token) => Count(text, token) = 0
<1>1. PICK places : places = {i \in DOMAIN text : text[i] = token}
  OBVIOUS
<1>2. Len(text) \in Nat /\ DOMAIN text = 1..Len(text)
  BY LenProperties
<1>3. IsFiniteSet(1..Len(text)) /\ places \in SUBSET (1..Len(text))
  <2>1. 1 \in Int /\ Len(text) \in Int
    BY <1>2
  <2> QED BY <1>1, <1>2, <2>1, FS_Interval
<1>4. IsFiniteSet(places) /\ Cardinality(places) \in Nat
  <2>1. IsFiniteSet(places)
    BY <1>3, FS_Subset
  <2> QED BY <2>1, FS_CardinalityType
<1>5. (\A i \in DOMAIN text : text[i] # token) => Cardinality(places) = 0
  <2> SUFFICES ASSUME \A i \in DOMAIN text : text[i] # token PROVE Cardinality(places) = 0
    OBVIOUS
  <2>1. places = {}
    BY <1>1
  <2> QED BY <2>1, FS_EmptySet
<1>6. Count(text, token) = Cardinality(places)
  BY <1>1, Zenon DEF Count
<1> QED BY <1>1, <1>4, <1>5, <1>6

(* No set has fewer elements than one that is mapped into it one to one.   *)
LEMMA NoFewer ==
  ASSUME NEW S, NEW T, IsFiniteSet(S), IsFiniteSet(T), NEW f \in [S -> T],
         \A x, y \in S : f[x] = f[y] => x = y
  PROVE  Cardinality(S) <= Cardinality(T)
<1>1. Cardinality(S) \in Nat /\ Cardinality(T) \in Nat
  BY FS_CardinalityType
<1>2. ~ (Cardinality(T) < Cardinality(S))
  BY FS_PigeonHole
<1> QED BY <1>1, <1>2

(* The URL holds all that counts for more than eight bytes.                *)
LEMMA CountMoves ==
  ASSUME NEW text, NEW url \in Seq(Token), NEW n, n = Len(url),
         NEW rotation \in RotationTexts, NEW mirror \in MirrorTexts,
         Laid(text, n, url, rotation, mirror), NEW token \in {"long", "wide", "flood"}
  PROVE  Count(text, token) <= Count(url, token)
<1>1. n \in Nat
  BY LenProperties
<1>2. PICK m : m = Len(text)
  OBVIOUS
<1>3. text \in Seq(Token) /\ m \in {n + 31, n + 32} /\ (m = n + 32 => text[n + 32] = NL)
  BY <1>2 DEF Laid
<1>4. PICK places, moved :
        places = {i \in DOMAIN text : text[i] = token} /\ moved = {i \in DOMAIN url : url[i] = token}
  OBVIOUS
<1>5. IsFiniteSet(places) /\ IsFiniteSet(moved)
  BY <1>3, <1>4, CountIs
<1>6. DOMAIN text = 1..m /\ DOMAIN url = 1..n
  BY <1>2, <1>3, LenProperties
<1>7. \A i \in places : i \in 5..(n + 4)
  <2> SUFFICES ASSUME NEW i \in 1..m, text[i] = token PROVE i \in 5..(n + 4)
    BY <1>4, <1>6
  <2>1. CASE i = n + 32
    BY <1>1, <1>3, <2>1 DEF NL
  <2>2. CASE i # n + 32
    <3>1. i \in 1..(n + 31)
      BY <1>1, <1>3, <2>2
    <3>2. i \in Feeds(n) \/ i \in WordPlaces(n) \/ i \in 5..(n + 4)
      BY <1>1, <1>3, <3>1, PlacesFit
    <3>3. i \notin Feeds(n)
      <4>1. token # NL
        BY DEF NL
      <4> QED BY <4>1, FeedsAre
    <3>4. i \notin WordPlaces(n)
      <4>1. token \notin RequestWords
        BY DEF RequestWords, RotationTexts, MirrorTexts
      <4> QED BY <4>1, FeedsAre
    <3> QED BY <3>2, <3>3, <3>4
  <2> QED BY <2>1, <2>2
<1>8. \A i \in places : i - 4 \in moved
  <2> TAKE i \in places
  <2>1. PICK j : j = i - 4
    OBVIOUS
  <2>2. j \in 1..n /\ i = 4 + j
    BY <1>1, <1>7, <2>1
  <2>3. text[4 + j] = url[j]
    BY <2>2, Zenon DEF Laid, At
  <2>4. text[i] = token
    BY <1>4
  <2> QED BY <1>4, <1>6, <2>1, <2>2, <2>3, <2>4
<1>9. PICK f : f = [i \in places |-> i - 4]
  OBVIOUS
<1>10. f \in [places -> moved] /\ \A i, j \in places : f[i] = f[j] => i = j
  <2>1. \A i, j \in places : i - 4 = j - 4 => i = j
    BY <1>1, <1>7
  <2> QED BY <1>8, <1>9, <2>1
<1>11. Cardinality(places) <= Cardinality(moved)
  BY <1>5, <1>10, NoFewer
<1> QED BY <1>4, <1>11, Zenon DEF Count

(* The bytes of a text.                                                    *)
LEMMA BytesAre ==
  ASSUME NEW text
  PROVE  /\ Chars(text) = 8 * Len(text) + 1100 * Count(text, "long") + 1300 * Count(text, "wide")
         /\ Bytes(text) = Chars(text) + 2600 * Count(text, "wide") + 2048 * Count(text, "flood")
<1>1. 2 * 1300 = 2600
  OBVIOUS
<1> QED BY <1>1 DEF Chars, Bytes, Short, Long, Wide, Flood

(* So many bytes has a text of short tokens.                               *)
LEMMA ShortBytes ==
  ASSUME NEW S, NEW text \in Seq(S),
         \A i \in DOMAIN text : text[i] \notin {"long", "wide", "flood"}
  PROVE  Bytes(text) = 8 * Len(text)
<1>1. Count(text, "long") = 0 /\ Count(text, "wide") = 0 /\ Count(text, "flood") = 0
  BY CountIs
<1>2. PICK k, l, w, f, s : k = Len(text) /\ l = Count(text, "long") /\ w = Count(text, "wide")
                           /\ f = Count(text, "flood") /\ s = Bytes(text)
  OBVIOUS
<1>3. s = 8 * k + 1100 * l + 1300 * w + 2600 * w + 2048 * f
  BY <1>2, BytesAre
<1>4. k \in Nat /\ l = 0 /\ w = 0 /\ f = 0
  BY <1>1, <1>2, LenProperties
<1>5. s = 8 * k
  BY <1>3, <1>4
<1> QED BY <1>2, <1>5

(* What the app lets the user start is not too long to be read.            *)
LEMMA RequestFits ==
  ASSUME NEW text, NEW url \in Seq(Token), NEW n, n = Len(url),
         NEW rotation \in RotationTexts, NEW mirror \in MirrorTexts,
         Laid(text, n, url, rotation, mirror), Chars(url) <= 4 * KiB,
         \A i \in 1..n : url[i] # "flood"
  PROVE  Bytes(text) <= kMaxCommandBytes
<1>1. PICK a, b, c, x, y, z :
        /\ a = Count(url, "long") /\ b = Count(url, "wide") /\ c = Count(url, "flood")
        /\ x = Count(text, "long") /\ y = Count(text, "wide") /\ z = Count(text, "flood")
  OBVIOUS
<1>2. n \in Nat /\ DOMAIN url = 1..n
  BY LenProperties
<1>3. text \in Seq(Token) /\ Len(text) \in {n + 31, n + 32}
  BY DEF Laid
<1>4. a \in Nat /\ b \in Nat /\ c = 0
  BY <1>1, <1>2, CountIs
<1>5. x \in Nat /\ y \in Nat /\ z \in Nat
  BY <1>1, <1>3, CountIs
<1>6. x <= a /\ y <= b /\ z <= c
  BY <1>1, CountMoves
<1>7. PICK k, p : k = Len(text) /\ p = Bytes(text)
  OBVIOUS
<1>8. 8 * n + 1100 * a + 1300 * b <= 4096
  <2>1. Chars(url) = 8 * n + 1100 * a + 1300 * b
    BY <1>1, BytesAre
  <2> QED BY <2>1 DEF KiB
<1>9. p = 8 * k + 1100 * x + 1300 * y + 2600 * y + 2048 * z
  BY <1>1, <1>7, BytesAre
<1>10. k \in {n + 31, n + 32}
  BY <1>3, <1>7
<1>11. p <= 16384
  BY <1>2, <1>4, <1>5, <1>6, <1>8, <1>9, <1>10
<1> QED BY <1>7, <1>11 DEF kMaxCommandBytes, KiB

-------------------------------------------------------------------------------
(* Texts: what is accepted *)

(* An authority follows what ends the scheme.                              *)
LEMMA AuthorityFollows ==
  ASSUME NEW S, NEW url \in Seq(S)
  PROVE  /\ Authority(url) \in Seq(S)
         /\ Authority(url) # <<>> => SchemeEnd(url) + 1 < Len(url) /\ Len(Authority(url)) \in Nat \ {0}
<1>1. PICK n, e : n = Len(url) /\ e = SchemeEnd(url)
  OBVIOUS
<1>2. n \in Nat /\ e \in 0..n
  BY <1>1, LenProperties, BeforeCounts DEF SchemeEnd
<1>3. PICK m, rest : m = e + 2 /\ rest = SubSeq(url, m, n)
  OBVIOUS
<1>4. rest \in Seq(S) /\ (n < m => rest = <<>>)
  <2>1. m \in Int /\ n \in Int /\ n \in 0..n
    BY <1>2, <1>3
  <2>2. CASE n < m
    <3>1. SubSeq(url, m, n) = <<>>
      BY <2>1, <2>2, SubSeqEmpty
    <3> QED BY <1>3, <2>2, <3>1, NoTokens
  <2>3. CASE ~ (n < m)
    <3>1. m \in 1..(n + 1)
      BY <1>2, <1>3, <2>3
    <3> QED BY <1>1, <1>3, <2>1, <2>3, <3>1, PartOf
  <2> QED BY <2>2, <2>3
<1>5. PICK b : b = Before(rest, {"/", "?", "#"}) /\ b \in 0..Len(rest)
  BY <1>4, BeforeCounts
<1>6. Len(rest) \in Nat
  BY <1>4, LenProperties
<1>7. PICK a : a = SubSeq(rest, 1, b)
  OBVIOUS
<1>8. a \in Seq(S) /\ (b = 0 => a = <<>>)
  <2>1. 1 \in 1..(Len(rest) + 1) /\ 1 \in Int /\ b \in Int /\ (b = 0 => b < 1)
    BY <1>5, <1>6
  <2> QED BY <1>4, <1>5, <1>7, <2>1, PartOf, SubSeqEmpty
<1>9. Authority(url) = a
  BY <1>1, <1>3, <1>5, <1>7, Zenon DEF Authority
<1>10. ASSUME a # <<>> PROVE e + 1 < n /\ Len(a) \in Nat \ {0}
  <2>1. ~ (n < m)
    <3> SUFFICES ASSUME n < m PROVE FALSE
      OBVIOUS
    <3>1. Len(rest) = 0
      BY <1>4, NoTokens
    <3> QED BY <1>5, <1>8, <1>10, <3>1
  <2>2. e + 1 < n
    BY <1>2, <1>3, <2>1
  <2> QED BY <1>8, <1>10, <2>2, EmptySeq
<1> QED BY <1>1, <1>8, <1>9, <1>10

(* The daemon knows every scheme the app does.                             *)
LEMMA SchemesKnown == NetworkSchemes \subseteq kSchemes
BY DEF NetworkSchemes, kSchemes

(* What the app lets the user start holds no control character and is not  *)
(* longer than that many characters.                                       *)
LEMMA ValidUrl ==
  ASSUME NEW url \in Seq(Token), Validates(url)
  PROVE  /\ \A i \in 1..Len(url) : url[i] \notin ControlTokens
         /\ Chars(url) <= 4 * KiB
         /\ url \notin LocalUrls =>
              IsJavaUri(url) /\ SchemeOf(url) \in kSchemes /\ Authority(url) # <<>>
<1>1. CASE url = <<"push", "://", "local">>
  <2>1. PICK a, b, c : a = "push" /\ b = "://" /\ c = "local"
    OBVIOUS
  <2>2. Len(url) = 3 /\ url[1] = a /\ url[2] = b /\ url[3] = c
    BY <1>1, <2>1
  <2>3. \A i \in 1..3 : url[i] \in {a, b, c}
    <3>1. \A i \in 1..3 : i = 1 \/ i = 2 \/ i = 3
      OBVIOUS
    <3> QED BY <2>2, <3>1
  <2>4. \A i \in 1..3 : url[i] \notin ControlTokens /\ url[i] # "long" /\ url[i] # "wide"
    BY <2>1, <2>3 DEF ControlTokens
  <2>5. Count(url, "long") = 0 /\ Count(url, "wide") = 0
    <3>1. DOMAIN url = 1..3
      BY <2>2, LenProperties
    <3> QED BY <2>4, <3>1, CountIs
  <2>6. Chars(url) = 8 * Len(url) + 1100 * Count(url, "long") + 1300 * Count(url, "wide")
    BY BytesAre
  <2>7. PICK n, l, w, k : n = Len(url) /\ l = Count(url, "long") /\ w = Count(url, "wide") /\ k = Chars(url)
    OBVIOUS
  <2>8. k <= 4096
    BY <2>2, <2>5, <2>6, <2>7
  <2>9. url \in LocalUrls
    BY <1>1 DEF LocalUrls
  <2> QED BY <2>2, <2>4, <2>7, <2>8, <2>9 DEF KiB
<1>2. CASE url # <<"push", "://", "local">>
  <2>1. /\ Chars(url) \in 1 .. 4 * KiB /\ IsJavaUri(url)
        /\ SchemeOf(url) \in NetworkSchemes /\ Authority(url) # <<>>
    BY <1>2, Zenon DEF Validates
  <2>2. Chars(url) <= 4 * KiB
    <3>1. PICK k : k = Chars(url)
      OBVIOUS
    <3>2. k \in 1..4096
      BY <2>1, <3>1 DEF KiB
    <3>3. k <= 4096
      BY <3>2
    <3> QED BY <3>1, <3>3 DEF KiB
  <2>3. \A i \in 1..Len(url) : url[i] \notin ControlTokens
    <3>1. DOMAIN url = 1..Len(url)
      BY LenProperties
    <3> QED BY <2>1, <3>1 DEF IsJavaUri, ToSet
  <2> QED BY <2>1, <2>2, <2>3, SchemesKnown
<1> QED BY <1>1, <1>2

(* The daemon refuses it only for its size in bytes.                       *)
LEMMA UrlTaken ==
  ASSUME NEW url \in Seq(Token), Validates(url), Bytes(url) <= 4 * KiB,
         Bytes(Authority(url)) <= KiB
  PROVE  url \in LocalUrls \/ ParseStreamSourceUrl(url)
<1> SUFFICES ASSUME url \notin LocalUrls PROVE ParseStreamSourceUrl(url)
  OBVIOUS
<1>1. PICK n, e, a : n = Len(url) /\ e = SchemeEnd(url) /\ a = Authority(url)
  OBVIOUS
<1>2. n \in Nat /\ e \in 0..n
  BY <1>1, LenProperties, BeforeCounts DEF SchemeEnd
<1>3. SchemeOf(url) \in kSchemes /\ a # <<>> /\ \A i \in 1..n : url[i] \notin ControlTokens
  BY <1>1, ValidUrl
<1>4. a \in Seq(Token) /\ e + 1 < n /\ Len(a) \in Nat \ {0}
  BY <1>1, <1>3, AuthorityFollows
<1>5. url # <<>>
  <2>1. Len(url) # 0
    BY <1>1, <1>2, <1>4
  <2> QED BY <2>1, SomeTokens
<1>6. ~ HasControlCharacter(url)
  <2>1. DOMAIN url = 1..n
    BY <1>1, LenProperties
  <2> QED BY <1>3, <2>1 DEF HasControlCharacter, ToSet
<1>7. Bytes(a) \in 1..KiB
  <2>1. PICK k, l, w, f, s : k = Len(a) /\ l = Count(a, "long") /\ w = Count(a, "wide")
                             /\ f = Count(a, "flood") /\ s = Bytes(a)
    OBVIOUS
  <2>2. l \in Nat /\ w \in Nat /\ f \in Nat /\ k \in Nat \ {0}
    BY <1>4, <2>1, CountIs
  <2>3. s = 8 * k + 1100 * l + 1300 * w + 2600 * w + 2048 * f
    BY <2>1, BytesAre
  <2>4. s <= 1024
    BY <1>1, <2>1 DEF KiB
  <2>5. s \in 1..1024
    BY <2>2, <2>3, <2>4
  <2> QED BY <2>1, <2>5 DEF KiB
<1> QED BY <1>1, <1>3, <1>4, <1>5, <1>6, <1>7 DEF ParseStreamSourceUrl

(* A configuration with a URL that is taken is valid.                      *)
LEMMA WantedValid ==
  ASSUME NEW url, NEW rotation \in Rotations, NEW mirror \in BOOLEAN,
         url \in LocalUrls \/ ParseStreamSourceUrl(url)
  PROVE  Validate(Wanted(url, rotation, mirror))
<1>1. PICK c : c = Wanted(url, rotation, mirror)
  OBVIOUS
<1>2. /\ c.url = url /\ c.rotation = rotation /\ c.video_device = <<"/dev/video", "100">>
      /\ c.width = 1280 /\ c.height = 720 /\ c.fps = 30
  BY <1>1, WantedIs
<1>3. PICK d, x, y : d = c.video_device /\ x = "/dev/video" /\ y = "100"
  OBVIOUS
<1>4. d \in Seq({x, y}) /\ Len(d) = 2 /\ d[1] = x /\ d[2] = y
  BY <1>2, <1>3, TwoTokens
<1>5. DOMAIN d = 1..2 /\ \A i \in 1..2 : d[i] \in {x, y}
  BY <1>4, LenProperties, ElementOfSeq
<1>6. \A i \in DOMAIN d : d[i] \notin {"long", "wide", "flood"} \cup ControlTokens
  BY <1>3, <1>5 DEF ControlTokens
<1>7. Bytes(d) <= 64
  <2>1. Bytes(d) = 8 * Len(d)
    BY <1>4, <1>6, ShortBytes
  <2> QED BY <1>4, <2>1
<1>8. ~ HasControlCharacter(d)
  BY <1>6 DEF HasControlCharacter, ToSet
<1>9. d # <<>> /\ d[1] = "/dev/video"
  <2>1. Len(d) # 0
    BY <1>4
  <2> QED BY <1>3, <1>4, <2>1, SomeTokens
<1> QED BY <1>1, <1>2, <1>3, <1>7, <1>8, <1>9 DEF Validate

-------------------------------------------------------------------------------
(* Texts: what becomes of the app's request *)

(* The request, all texts given, and the tokens that follow its URL.       *)
RequestText(url, width, height, fps, rotation, mirror) ==
  <<"START", NL, "url", "=">> \o url
  \o <<NL, "video_device", "=", "/dev/video", "100",
       NL, "width", "=", width, NL, "height", "=", height, NL, "fps", "=", fps,
       NL, "rotation", "=", rotation, NL, "mirror", "=", mirror, NL, ".", NL>>

EndingParts(e, rotation, mirror) ==
  /\ e \in Seq(Token) /\ Len(e) = 28
  /\ e[1] = NL /\ e[2] = "video_device" /\ e[3] = "=" /\ e[4] = "/dev/video" /\ e[5] = "100"
  /\ e[6] = NL /\ e[7] = "width" /\ e[8] = "=" /\ e[9] = "1280"
  /\ e[10] = NL /\ e[11] = "height" /\ e[12] = "=" /\ e[13] = "720"
  /\ e[14] = NL /\ e[15] = "fps" /\ e[16] = "=" /\ e[17] = "30"
  /\ e[18] = NL /\ e[19] = "rotation" /\ e[20] = "=" /\ e[21] = rotation
  /\ e[22] = NL /\ e[23] = "mirror" /\ e[24] = "=" /\ e[25] = mirror
  /\ e[26] = NL /\ e[27] = "." /\ e[28] = NL

(* What follows the URL is text.                                           *)
LEMMA EndingIs ==
  ASSUME NEW rotation \in RotationTexts, NEW mirror \in MirrorTexts, NEW e,
         e = Ending(rotation, mirror)
  PROVE  EndingParts(e, rotation, mirror)
<1>1. /\ e[1] = NL /\ e[2] = "video_device" /\ e[3] = "=" /\ e[4] = "/dev/video" /\ e[5] = "100"
      /\ e[6] = NL /\ e[7] = "width" /\ e[8] = "=" /\ e[9] = "1280"
      /\ e[10] = NL /\ e[11] = "height" /\ e[12] = "=" /\ e[13] = "720"
      /\ e[14] = NL /\ e[15] = "fps" /\ e[16] = "=" /\ e[17] = "30"
      /\ e[18] = NL /\ e[19] = "rotation" /\ e[20] = "=" /\ e[21] = rotation
      /\ e[22] = NL /\ e[23] = "mirror" /\ e[24] = "=" /\ e[25] = mirror
      /\ e[26] = NL /\ e[27] = "." /\ e[28] = NL
  BY DEF Ending
<1>2. DOMAIN e = 1..28 /\ e = [i \in DOMAIN e |-> e[i]]
  BY DEF Ending
<1>3. /\ NL \in Token /\ "video_device" \in Token /\ "=" \in Token /\ "/dev/video" \in Token
      /\ "100" \in Token /\ "width" \in Token /\ "1280" \in Token /\ "height" \in Token
      /\ "720" \in Token /\ "fps" \in Token /\ "30" \in Token /\ "rotation" \in Token
      /\ "mirror" \in Token /\ "." \in Token /\ rotation \in Token /\ mirror \in Token
  BY DEF Token, RotationTexts, MirrorTexts
<1>4. \A i \in 1..28 : e[i] \in Token
  <2>1. \A i \in 1..28 : i \in 1..9 \/ i \in 10..17 \/ i \in 18..28
    OBVIOUS
  <2>2. \A i \in 1..9 : e[i] \in Token
    BY <1>1, <1>3
  <2>3. \A i \in 10..17 : e[i] \in Token
    BY <1>1, <1>3
  <2>4. \A i \in 18..28 : e[i] \in Token
    BY <1>1, <1>3
  <2> QED BY <2>1, <2>2, <2>3, <2>4, Zenon
<1>5. e \in Seq(Token) /\ Len(e) = 28
  <2>1. IsTuple(Token, e, 28)
    BY <1>2, <1>4, Zenon DEF IsTuple
  <2>2. 28 \in Nat
    OBVIOUS
  <2> QED BY <2>1, <2>2, TupleIsSeq, Zenon
<1> QED BY <1>1, <1>5, Zenon DEF EndingParts

(* The app's request is laid out like this.                                *)
LEMMA RequestLaid ==
  ASSUME NEW url \in Seq(Token), NEW rotation \in Rotations, NEW mirror \in BOOLEAN, NEW config,
         config.url = url, config.rotation = rotation, config.mirror = mirror,
         NEW n, n = Len(url)
  PROVE  /\ Laid(ToStartCommand(config), n, url, Decimal(rotation), Decimal(IF mirror THEN 1 ELSE 0))
         /\ Len(ToStartCommand(config)) = n + 32
<1>1. PICK r, x, y, a, e :
        /\ r = ToStartCommand(config) /\ x = Decimal(rotation) /\ y = Decimal(IF mirror THEN 1 ELSE 0)
        /\ a = <<"START", NL, "url", "=">> /\ e = Ending(x, y)
  OBVIOUS
<1>2. x \in RotationTexts /\ y \in MirrorTexts
  BY <1>1, ConfiguredIs
<1>3. a \in Seq(Token) /\ Len(a) = 4 /\ a[1] = "START" /\ a[2] = NL /\ a[3] = "url" /\ a[4] = "="
  <2>1. "START" \in Token /\ NL \in Token /\ "url" \in Token /\ "=" \in Token
    BY DEF Token
  <2> QED BY <1>1, <2>1, FourTokens, Zenon
<1>4. EndingParts(e, x, y)
  BY <1>1, <1>2, EndingIs
<1>5. r = a \o url \o e
  <2>1. r = RequestText(config.url, Decimal(1280), Decimal(720), Decimal(30), Decimal(config.rotation),
                        Decimal(IF config.mirror THEN 1 ELSE 0))
    BY <1>1, Zenon DEF ToStartCommand, RequestText
  <2>3. Decimal(1280) = "1280" /\ Decimal(720) = "720" /\ Decimal(30) = "30"
    BY FixedTexts
  <2>4. r = RequestText(url, "1280", "720", "30", x, y)
    BY <1>1, <2>1, <2>3
  <2> QED BY <1>1, <2>4, Zenon DEF RequestText, Ending
<1>6. Three(Token, r, a, url, e)
  BY <1>3, <1>4, <1>5, ThreeJoined, Zenon DEF EndingParts
<1>7. n \in Nat
  BY LenProperties
<1>8. r \in Seq(Token) /\ Len(r) = 4 + n + 28 /\ At(r, 0, a) /\ At(r, 4, url) /\ At(r, 4 + n, e)
  BY <1>3, <1>4, <1>6, Zenon DEF Three, EndingParts
<1>9. Len(r) = n + 32
  BY <1>7, <1>8
<1>10. r[1] = "START" /\ r[2] = NL /\ r[3] = "url" /\ r[4] = "="
  <2>1. \A i \in 1..4 : r[0 + i] = a[i]
    BY <1>3, <1>8, Zenon DEF At
  <2>2. \A i \in 1..4 : r[i] = a[i]
    <3>1. \A i \in 1..4 : 0 + i = i
      OBVIOUS
    <3> QED BY <2>1, <3>1, Zenon
  <2>3. 1 \in 1..4 /\ 2 \in 1..4 /\ 3 \in 1..4 /\ 4 \in 1..4
    OBVIOUS
  <2> QED BY <1>3, <2>2, <2>3, Zenon
<1>11. \A i \in 5..32 : r[n + i] = e[i - 4]
  <2>1. \A i \in 1..28 : r[4 + n + i] = e[i]
    BY <1>4, <1>8, Zenon DEF At, EndingParts
  <2>2. \A i \in 5..32 : i - 4 \in 1..28 /\ 4 + n + (i - 4) = n + i
    BY <1>7
  <2> QED BY <2>1, <2>2
<1>12. /\ r[n + 5] = NL /\ r[n + 6] = "video_device" /\ r[n + 7] = "="
       /\ r[n + 8] = "/dev/video" /\ r[n + 9] = "100"
       /\ r[n + 10] = NL /\ r[n + 11] = "width" /\ r[n + 12] = "=" /\ r[n + 13] = "1280"
       /\ r[n + 14] = NL /\ r[n + 15] = "height" /\ r[n + 16] = "=" /\ r[n + 17] = "720"
  BY <1>4, <1>11 DEF EndingParts
<1>13. /\ r[n + 18] = NL /\ r[n + 19] = "fps" /\ r[n + 20] = "=" /\ r[n + 21] = "30"
       /\ r[n + 22] = NL /\ r[n + 23] = "rotation" /\ r[n + 24] = "=" /\ r[n + 25] = x
       /\ r[n + 26] = NL /\ r[n + 27] = "mirror" /\ r[n + 28] = "=" /\ r[n + 29] = y
       /\ r[n + 30] = NL /\ r[n + 31] = "." /\ r[n + 32] = NL
  BY <1>4, <1>11 DEF EndingParts
<1>14. Laid(r, n, url, x, y)
  <2>1. Len(r) \in {n + 31, n + 32}
    BY <1>9
  <2> QED BY <1>8, <1>10, <1>12, <1>13, <2>1 DEF Laid
<1> QED BY <1>1, <1>9, <1>14

(* Its first line is the name of the command.                              *)
LEMMA StartLine ==
  ASSUME NEW S, NEW text \in Seq(S), NEW word \in S, Len(text) # 0, text[1] = word,
         Len(text) > 1 => text[2] = NL, word \notin {NL, "\r"}
  PROVE  LineAt(text, 1) = <<word>>
<1>1. PICK line : line = <<word>>
  OBVIOUS
<1>2. line \in Seq(S) /\ Len(line) = 1 /\ line[1] = word
  BY <1>1, OneToken
<1>3. Len(text) \in Nat \ {0}
  BY LenProperties
<1>4. /\ 1 \in 1..Len(text) /\ 1 + Len(line) <= Len(text) + 1 /\ 1 + Len(line) = 2
      /\ (1 + Len(line) <= Len(text) => Len(text) > 1)
  BY <1>2, <1>3
<1>5. At(text, 1 - 1, line) /\ \A i \in 1..Len(line) : line[i] # NL /\ line[i] # "\r"
  <2>1. \A i \in 1..1 : i = 1 /\ 1 - 1 + i = 1
    OBVIOUS
  <2> QED BY <1>2, <2>1 DEF At
<1>6. 1 + Len(line) <= Len(text) => text[1 + Len(line)] = NL
  BY <1>4
<1>7. LineAt(text, 1) = line
  BY <1>2, <1>4, <1>5, <1>6, LineIs, Zenon
<1> QED BY <1>1, <1>7

(* What the daemon makes of the request.                                   *)
Carried(config) == IF Validate(config) THEN [type |-> "kStart", config |-> config] ELSE Invalid

(* A request as it is laid out is parsed to what the user meant.           *)
LEMMA LaidParsed ==
  ASSUME NEW text, NEW url \in Seq(Token), NEW n, n = Len(url), \A i \in 1..n : url[i] \notin {NL, "\r"},
         NEW rotation \in Rotations, NEW mirror \in BOOLEAN,
         Laid(text, n, url, Decimal(rotation), Decimal(IF mirror THEN 1 ELSE 0)),
         Bytes(text) <= kMaxCommandBytes
  PROVE  ParseCommand(text) = Carried(Wanted(url, rotation, mirror))
<1>1. PICK x, y : x = Decimal(rotation) /\ y = Decimal(IF mirror THEN 1 ELSE 0)
  OBVIOUS
<1>2. PICK values : values = Asked(url, x, y)
  OBVIOUS
<1>3. /\ x \in RotationTexts /\ y \in MirrorTexts /\ Understood(values)
      /\ Configured(values) = Wanted(url, rotation, mirror)
  BY <1>1, <1>2, ConfiguredIs
<1>4. Laid(text, n, url, x, y)
  BY <1>1
<1>5. WellFormed(text) /\ Terminated(text) /\ WordKeys(text) /\ Values(text) = values
  BY <1>2, <1>3, <1>4, ValuesAre
<1>6. n \in Nat
  BY LenProperties
<1>7. PICK k : k = Len(text)
  OBVIOUS
<1>8. text \in Seq(Token) /\ k \in {n + 31, n + 32} /\ text[1] = "START" /\ text[2] = NL
  BY <1>4, <1>7 DEF Laid
<1>9. k # 0 /\ k > 1
  BY <1>6, <1>8
<1>10. LineAt(text, 1) = <<"START">>
  <2>1. "START" \in Token /\ "START" \notin {NL, "\r"}
    BY DEF Token, NL
  <2> QED BY <1>7, <1>8, <1>9, <2>1, StartLine, Zenon
<1>11. text # <<>>
  BY <1>7, <1>9, SomeTokens
<1>12. ~ (Bytes(text) > kMaxCommandBytes)
  <2>1. PICK b : b = Bytes(text)
    OBVIOUS
  <2>2. b \in Int
    <3>1. PICK c, l, w, f : c = Len(text) /\ l = Count(text, "long") /\ w = Count(text, "wide")
                            /\ f = Count(text, "flood")
      OBVIOUS
    <3>2. c \in Nat /\ l \in Nat /\ w \in Nat /\ f \in Nat
      BY <1>8, <3>1, LenProperties, CountIs
    <3>3. b = 8 * c + 1100 * l + 1300 * w + 2600 * w + 2048 * f
      BY <2>1, <3>1, BytesAre
    <3> QED BY <3>2, <3>3
  <2>3. b <= 16384
    BY <2>1 DEF kMaxCommandBytes, KiB
  <2>4. ~ (b > 16384)
    BY <2>2, <2>3
  <2> QED BY <2>1, <2>4 DEF kMaxCommandBytes, KiB
<1>13. ParseCommand(text) = ParseStart(text)
  <2>1. <<"START">> # <<"STOP">> /\ <<"START">> # <<"STATUS">>
    OBVIOUS
  <2> QED BY <1>10, <1>11, <1>12, <2>1 DEF ParseCommand
<1>14. ParseStart(text) = Carried(Wanted(url, rotation, mirror))
  BY <1>3, <1>5, Zenon DEF ParseStart, Carried
<1> QED BY <1>13, <1>14

-------------------------------------------------------------------------------
(* Texts: what becomes of a request that is cut *)

(* The first k tokens of a request, and perhaps part of the next.          *)
CutOf(text, request_, k, torn) ==
  /\ text \in Seq(Token) /\ Len(text) = k + (IF torn THEN 1 ELSE 0)
  /\ \A i \in 1..k : text[i] = request_[i]
  /\ torn => text[k + 1] = "torn"
  /\ ~ torn => text = SubSeq(request_, 1, k)

(* What is read of a request is such a beginning.                          *)
LEMMA CutIs ==
  ASSUME NEW r \in Seq(Token), NEW k \in 0..Len(r), NEW torn \in BOOLEAN, NEW text,
         text = SubSeq(r, 1, k) \o (IF torn THEN <<"torn">> ELSE <<>>)
  PROVE  CutOf(text, r, k, torn)
<1>1. PICK p, t : p = SubSeq(r, 1, k) /\ t = (IF torn THEN <<"torn">> ELSE <<>>)
  OBVIOUS
<1>2. Len(r) \in Nat /\ k \in Nat
  BY LenProperties
<1>3. p \in Seq(Token) /\ Len(p) = k /\ \A i \in 1..k : p[i] = r[i]
  <2>1. 1 \in 1..(Len(r) + 1) /\ k - 1 + 1 = k /\ (IF 1 <= k THEN k - 1 + 1 ELSE 0) = k
        /\ \A i \in 1..k : 1 + i - 1 = i
    BY <1>2
  <2>2. /\ SubSeq(r, 1, k) \in Seq(Token)
        /\ Len(SubSeq(r, 1, k)) = IF 1 <= k THEN k - 1 + 1 ELSE 0
        /\ \A i \in 1..(k - 1 + 1) : SubSeq(r, 1, k)[i] = r[1 + i - 1]
    BY <2>1, PartOf
  <2> QED BY <1>1, <2>1, <2>2
<1>4. CASE torn
  <2>1. "torn" \in Token
    BY DEF Token
  <2>2. t \in Seq(Token) /\ Len(t) = 1 /\ t[1] = "torn"
    BY <1>1, <1>4, <2>1, OneToken
  <2>3. Extends(Token, text, p, t)
    BY <1>1, <1>3, <2>2, JoinedAt
  <2>4. text \in Seq(Token) /\ Len(text) = k + 1 /\ At(text, 0, p) /\ At(text, k, t)
    BY <1>3, <2>2, <2>3, Zenon DEF Extends
  <2>5. \A i \in 1..k : text[i] = r[i]
    BY <1>3, <2>4 DEF At
  <2>6. text[k + 1] = "torn"
    BY <2>2, <2>4 DEF At
  <2> QED BY <1>4, <2>4, <2>5, <2>6, Zenon DEF CutOf
<1>5. CASE ~ torn
  <2>1. t = <<>>
    BY <1>1, <1>5
  <2>2. text = p
    BY <1>1, <1>3, <2>1, ConcatEmptySeq, Zenon
  <2>3. k + 0 = k
    BY <1>2
  <2> QED BY <1>1, <1>3, <1>5, <2>2, <2>3, Zenon DEF CutOf
<1> QED BY <1>4, <1>5

(* A request without its last line feed is laid out the same.              *)
LEMMA LaidCut ==
  ASSUME NEW r, NEW text, NEW n \in Nat, NEW url \in Seq(Token), n = Len(url), NEW rotation, NEW mirror,
         Laid(r, n, url, rotation, mirror), CutOf(text, r, n + 31, FALSE)
  PROVE  Laid(text, n, url, rotation, mirror)
<1>1. text \in Seq(Token) /\ Len(text) = n + 31
  <2>1. PICK k : k = n + 31
    OBVIOUS
  <2>2. text \in Seq(Token) /\ Len(text) = k + 0 /\ k + 0 = k
    BY <2>1 DEF CutOf
  <2> QED BY <2>1, <2>2
<1>2. \A i \in 1..(n + 31) : text[i] = r[i]
  BY Zenon DEF CutOf
<1>3. At(text, 4, url)
  <2>1. \A j \in 1..n : r[4 + j] = url[j] /\ 4 + j \in 1..(n + 31)
    BY DEF Laid, At
  <2> QED BY <1>2, <2>1 DEF At
<1>4. \A i \in 1..4 : text[i] = r[i]
  BY <1>2
<1>5. \A i \in 5..31 : text[n + i] = r[n + i]
  <2>1. \A i \in 5..31 : n + i \in 1..(n + 31)
    OBVIOUS
  <2> QED BY <1>2, <2>1
<1>6. text[1] = "START" /\ text[2] = NL /\ text[3] = "url" /\ text[4] = "="
  BY <1>4 DEF Laid
<1>7. /\ text[n + 5] = NL /\ text[n + 6] = "video_device" /\ text[n + 7] = "="
      /\ text[n + 8] = "/dev/video" /\ text[n + 9] = "100"
  <2>1. /\ r[n + 5] = NL /\ r[n + 6] = "video_device" /\ r[n + 7] = "="
        /\ r[n + 8] = "/dev/video" /\ r[n + 9] = "100"
    BY Zenon DEF Laid
  <2>2. /\ text[n + 5] = r[n + 5] /\ text[n + 6] = r[n + 6] /\ text[n + 7] = r[n + 7]
        /\ text[n + 8] = r[n + 8] /\ text[n + 9] = r[n + 9]
    BY <1>5
  <2> QED BY <2>1, <2>2
<1>8. /\ text[n + 10] = NL /\ text[n + 11] = "width" /\ text[n + 12] = "=" /\ text[n + 13] = "1280"
  <2>1. /\ r[n + 10] = NL /\ r[n + 11] = "width" /\ r[n + 12] = "=" /\ r[n + 13] = "1280"
    BY Zenon DEF Laid
  <2>2. /\ text[n + 10] = r[n + 10] /\ text[n + 11] = r[n + 11] /\ text[n + 12] = r[n + 12]
        /\ text[n + 13] = r[n + 13]
    BY <1>5
  <2> QED BY <2>1, <2>2
<1>9. /\ text[n + 14] = NL /\ text[n + 15] = "height" /\ text[n + 16] = "=" /\ text[n + 17] = "720"
  <2>1. /\ r[n + 14] = NL /\ r[n + 15] = "height" /\ r[n + 16] = "=" /\ r[n + 17] = "720"
    BY Zenon DEF Laid
  <2>2. /\ text[n + 14] = r[n + 14] /\ text[n + 15] = r[n + 15] /\ text[n + 16] = r[n + 16]
        /\ text[n + 17] = r[n + 17]
    BY <1>5
  <2> QED BY <2>1, <2>2
<1>10. /\ text[n + 18] = NL /\ text[n + 19] = "fps" /\ text[n + 20] = "=" /\ text[n + 21] = "30"
  <2>1. /\ r[n + 18] = NL /\ r[n + 19] = "fps" /\ r[n + 20] = "=" /\ r[n + 21] = "30"
    BY Zenon DEF Laid
  <2>2. /\ text[n + 18] = r[n + 18] /\ text[n + 19] = r[n + 19] /\ text[n + 20] = r[n + 20]
        /\ text[n + 21] = r[n + 21]
    BY <1>5
  <2> QED BY <2>1, <2>2
<1>11. /\ text[n + 22] = NL /\ text[n + 23] = "rotation" /\ text[n + 24] = "=" /\ text[n + 25] = rotation
  <2>1. /\ r[n + 22] = NL /\ r[n + 23] = "rotation" /\ r[n + 24] = "=" /\ r[n + 25] = rotation
    BY Zenon DEF Laid
  <2>2. /\ text[n + 22] = r[n + 22] /\ text[n + 23] = r[n + 23] /\ text[n + 24] = r[n + 24]
        /\ text[n + 25] = r[n + 25]
    BY <1>5
  <2> QED BY <2>1, <2>2
<1>12. /\ text[n + 26] = NL /\ text[n + 27] = "mirror" /\ text[n + 28] = "=" /\ text[n + 29] = mirror
       /\ text[n + 30] = NL /\ text[n + 31] = "."
  <2>1. /\ r[n + 26] = NL /\ r[n + 27] = "mirror" /\ r[n + 28] = "=" /\ r[n + 29] = mirror
        /\ r[n + 30] = NL /\ r[n + 31] = "."
    BY Zenon DEF Laid
  <2>2. /\ text[n + 26] = r[n + 26] /\ text[n + 27] = r[n + 27] /\ text[n + 28] = r[n + 28]
        /\ text[n + 29] = r[n + 29] /\ text[n + 30] = r[n + 30] /\ text[n + 31] = r[n + 31]
    BY <1>5
  <2> QED BY <2>1, <2>2
<1>13. Len(text) \in {n + 31, n + 32} /\ (Len(text) = n + 32 => text[n + 32] = NL)
  BY <1>1
<1> QED BY <1>1, <1>3, <1>6, <1>7, <1>8, <1>9, <1>10, <1>11, <1>12, <1>13, Zenon DEF Laid

(* The commands by the line they begin with.                               *)
LEMMA ParsedBy ==
  ASSUME NEW text, ParseCommand(text) # Invalid
  PROVE  /\ text # <<>>
         /\ \/ LineAt(text, 1) = <<"STOP">> \/ LineAt(text, 1) = <<"STATUS">>
            \/ LineAt(text, 1) = <<"START">> /\ Terminated(text)
<1>1. text # <<>>
  BY DEF ParseCommand
<1>2. CASE LineAt(text, 1) = <<"START">>
  <2>1. <<"START">> # <<"STOP">> /\ <<"START">> # <<"STATUS">>
    OBVIOUS
  <2>2. ParseCommand(text) = ParseStart(text)
    BY <1>2, <2>1 DEF ParseCommand
  <2>3. Terminated(text)
    BY <2>2 DEF ParseStart
  <2> QED BY <1>1, <1>2, <2>3
<1>3. CASE LineAt(text, 1) \notin {<<"START">>, <<"STOP">>, <<"STATUS">>}
  BY <1>3 DEF ParseCommand
<1> QED BY <1>1, <1>2, <1>3

(* Of the app's request to start, the daemon takes only the whole, with or *)
(* without the last line feed.                                             *)
LEMMA WholeOrNothing ==
  ASSUME NEW r, NEW text, NEW url \in Seq(Token), NEW n, n = Len(url), \A i \in 1..n : url[i] # NL,
         NEW rotation \in RotationTexts, NEW mirror \in MirrorTexts,
         Laid(r, n, url, rotation, mirror), Len(r) = n + 32,
         NEW k \in 0..Len(r), NEW torn \in BOOLEAN, CutOf(text, r, k, torn),
         torn => k < Len(r) /\ r[k + 1] \notin Characters,
         ParseCommand(text) # Invalid
  PROVE  Laid(text, n, url, rotation, mirror)
<1>1. n \in Nat /\ k \in 0..(n + 32)
  BY LenProperties
<1>2. r \in Seq(Token) /\ r[1] = "START" /\ r[n + 32] = NL
  BY DEF Laid
<1>3. /\ text \in Seq(Token) /\ Len(text) = k + (IF torn THEN 1 ELSE 0)
      /\ \A i \in 1..k : text[i] = r[i]
      /\ torn => text[k + 1] = "torn"
      /\ ~ torn => text = SubSeq(r, 1, k)
  BY Zenon DEF CutOf
<1>4. /\ text # <<>>
      /\ \/ LineAt(text, 1) = <<"STOP">> \/ LineAt(text, 1) = <<"STATUS">>
         \/ LineAt(text, 1) = <<"START">> /\ Terminated(text)
  BY ParsedBy
<1>5. PICK m : m = Len(text) /\ m \in Nat \ {0}
  BY <1>3, <1>4, EmptySeq
<1>6. m \in {k, k + 1} /\ \A i \in 1..m : i \in 1..k \/ (torn /\ i = k + 1)
  BY <1>1, <1>3, <1>5
<1>7. text[1] = "START" \/ text[1] = "torn"
  <2>1. 1 \in 1..m
    BY <1>5
  <2> QED BY <1>2, <1>3, <1>6, <2>1
<1>8. Terminated(text)
  <2>1. ASSUME NEW word, LineAt(text, 1) = <<word>> PROVE text[1] = word
    <3>1. 1 \in 1..Len(text)
      BY <1>5
    <3> QED BY <1>3, <2>1, <3>1, WordStands
  <2>2. "STOP" \notin {"START", "torn"} /\ "STATUS" \notin {"START", "torn"}
    OBVIOUS
  <2> QED BY <1>4, <1>7, <2>1, <2>2, Zenon
<1>9. PICK s : s \in LineStarts(text) \ {1} /\ LineAt(text, s) = <<".">>
  BY <1>8 DEF Terminated, Ends
<1>10. s \in 1..m /\ s > 1 /\ text[s - 1] = NL
  <2>1. DOMAIN text = 1..m
    BY <1>3, <1>5, LenProperties
  <2> QED BY <1>5, <1>9, <2>1 DEF LineStarts
<1>11. text[s] = "."
  BY <1>3, <1>5, <1>9, <1>10, WordStands
<1>12. s \in 1..k
  BY <1>3, <1>6, <1>10, <1>11
<1>13. s - 1 \in 1..k /\ s \in 1..(n + 32) /\ s > 1
  BY <1>1, <1>10, <1>12
<1>14. r[s] = "." /\ r[s - 1] = NL
  BY <1>3, <1>10, <1>11, <1>12, <1>13
<1>15. s \in Starts(n)
  <2>1. DOMAIN r = 1..(n + 32)
    BY <1>2, LenProperties
  <2>2. s \in LineStarts(r) \ {1}
    BY <1>13, <1>14, <2>1 DEF LineStarts
  <2> QED BY <2>2, StartsAre
<1>16. s = n + 31
  <2> SUFFICES ASSUME s # n + 31 PROVE FALSE
    OBVIOUS
  <2>1. /\ r[3] = "url" /\ r[n + 6] = "video_device" /\ r[n + 11] = "width"
        /\ r[n + 15] = "height" /\ r[n + 19] = "fps" /\ r[n + 23] = "rotation"
        /\ r[n + 27] = "mirror"
    BY DEF Laid
  <2>2. r[s] \in {"url", "video_device", "width", "height", "fps", "rotation", "mirror"}
    BY <1>15, <2>1 DEF Starts
  <2> QED BY <1>14, <2>2
<1>17. CASE k = n + 31
  <2>1. ~ torn
    <3>1. k + 1 = n + 32
      BY <1>1, <1>17
    <3>2. NL \in Characters
      BY DEF Characters, ControlTokens, NL
    <3> QED BY <1>2, <3>1, <3>2
  <2>2. CutOf(text, r, n + 31, FALSE)
    BY <1>17, <2>1
  <2> QED BY <1>1, <2>2, LaidCut
<1>18. CASE k = n + 32
  <2>1. ~ torn
    BY <1>1, <1>18
  <2>2. text = r
    BY <1>2, <1>3, <1>18, <2>1, SubSeqFull
  <2> QED BY <2>2
<1> QED BY <1>1, <1>12, <1>16, <1>17, <1>18

(* Bytes are counted with natural numbers.                                 *)
LEMMA BytesIn ==
  ASSUME NEW S, NEW text \in Seq(S)
  PROVE  Bytes(text) \in Nat /\ Chars(text) \in Nat /\ Chars(text) >= 8 * Len(text)
<1>1. PICK c, l, w, f, b, h : c = Len(text) /\ l = Count(text, "long") /\ w = Count(text, "wide")
                            /\ f = Count(text, "flood") /\ b = Bytes(text) /\ h = Chars(text)
  OBVIOUS
<1>2. c \in Nat /\ l \in Nat /\ w \in Nat /\ f \in Nat
  BY <1>1, LenProperties, CountIs
<1>3. h = 8 * c + 1100 * l + 1300 * w /\ b = h + 2600 * w + 2048 * f
  BY <1>1, BytesAre
<1>4. b \in Nat /\ h \in Nat /\ h >= 8 * c
  BY <1>2, <1>3
<1> QED BY <1>1, <1>4

(* A text that begins with a line STOP or STATUS is that command.          *)
NamedCommand(word) == IF word = "STOP" THEN [type |-> "kStop"] ELSE [type |-> "kStatus"]

LEMMA WordParsed ==
  ASSUME NEW word \in {"STOP", "STATUS"}, NEW text \in Seq(Token), Len(text) # 0, text[1] = word,
         Len(text) > 1 => text[2] = NL, ~ (Bytes(text) > kMaxCommandBytes)
  PROVE  ParseCommand(text) = NamedCommand(word)
<1>1. LineAt(text, 1) = <<word>>
  <2>1. word \in Token /\ word \notin {NL, "\r"}
    BY DEF Token, NL
  <2> QED BY <2>1, StartLine
<1>2. text # <<>>
  BY SomeTokens
<1>3. CASE word = "STOP"
  <2>1. <<"STOP">> # <<"START">> /\ <<"STOP">> # <<"STATUS">>
    OBVIOUS
  <2> QED BY <1>1, <1>2, <1>3, <2>1 DEF ParseCommand, NamedCommand
<1>4. CASE word = "STATUS"
  <2>1. <<"STATUS">> # <<"START">> /\ <<"STATUS">> # <<"STOP">>
    OBVIOUS
  <2> QED BY <1>1, <1>2, <1>4, <2>1 DEF ParseCommand, NamedCommand
<1> QED BY <1>3, <1>4

(* The app's other requests.                                               *)
WordRequest(r, word) ==
  /\ r \in Seq(Token) /\ Len(r) = 4 /\ r[1] = word /\ r[2] = NL /\ r[3] = "." /\ r[4] = NL
  /\ ~ (Bytes(r) > kMaxCommandBytes)

(* They are STOP and STATUS, with the line that ends them.                 *)
LEMMA WordRequestIs ==
  ASSUME NEW word \in {"STOP", "STATUS"}, NEW r, r = <<word, NL, ".", NL>>
  PROVE  WordRequest(r, word)
<1>1. word \in Token /\ NL \in Token /\ "." \in Token
  BY DEF Token
<1>2. r \in Seq(Token) /\ Len(r) = 4 /\ r[1] = word /\ r[2] = NL /\ r[3] = "." /\ r[4] = NL
  BY <1>1, FourTokens, Zenon
<1>3. \A i \in 1..4 : r[i] \in {word, NL, "."}
  <2>1. \A i \in 1..4 : i = 1 \/ i = 2 \/ i = 3 \/ i = 4
    OBVIOUS
  <2> QED BY <1>2, <2>1
<1>4. \A i \in DOMAIN r : r[i] \notin {"long", "wide", "flood"}
  <2>1. DOMAIN r = 1..4
    BY <1>2, LenProperties
  <2> QED BY <1>3, <2>1 DEF NL
<1>6. ~ (Bytes(r) > kMaxCommandBytes)
  <2>1. Bytes(r) = 8 * Len(r)
    BY <1>2, <1>4, ShortBytes, Zenon
  <2>2. PICK b : b = Bytes(r)
    OBVIOUS
  <2>3. b = 8 * 4
    BY <1>2, <2>1, <2>2, Zenon
  <2>4. ~ (b > 16384)
    BY <2>3
  <2> QED BY <2>2, <2>4 DEF kMaxCommandBytes, KiB
<1> QED BY <1>2, <1>6, Zenon DEF WordRequest

(* Cut or not, they are the same command or none.                          *)
LEMMA WordOrNothing ==
  ASSUME NEW word \in {"STOP", "STATUS"}, NEW r, WordRequest(r, word), NEW text,
         NEW k \in 0..Len(r), NEW torn \in BOOLEAN, CutOf(text, r, k, torn),
         torn => k < Len(r) /\ r[k + 1] \notin Characters,
         ParseCommand(text) # Invalid
  PROVE  ParseCommand(text) = ParseCommand(r)
<1>1. /\ r \in Seq(Token) /\ Len(r) = 4 /\ r[1] = word /\ r[2] = NL /\ r[3] = "." /\ r[4] = NL
      /\ ~ (Bytes(r) > kMaxCommandBytes)
  BY Zenon DEF WordRequest
<1>2. /\ text \in Seq(Token) /\ Len(text) = k + (IF torn THEN 1 ELSE 0)
      /\ \A i \in 1..k : text[i] = r[i]
      /\ torn => text[k + 1] = "torn"
  BY Zenon DEF CutOf
<1>3. k \in 0..4
  BY <1>1
<1>4. /\ text # <<>>
      /\ \/ LineAt(text, 1) = <<"STOP">> \/ LineAt(text, 1) = <<"STATUS">>
         \/ LineAt(text, 1) = <<"START">>
  BY ParsedBy
<1>5. Len(text) \in Nat \ {0}
  BY <1>2, <1>4, EmptySeq
<1>6. text[1] \in {"STOP", "STATUS", "START"}
  <2>1. 1 \in 1..Len(text)
    BY <1>5
  <2> QED BY <1>2, <1>4, <2>1, WordStands
<1>7. k # 0
  <2> SUFFICES ASSUME k = 0 PROVE FALSE
    OBVIOUS
  <2>1. torn
    BY <1>2, <1>5
  <2>2. text[1] = "torn"
    BY <1>2, <2>1
  <2> QED BY <1>6, <2>2
<1>8. ~ torn
  <2> SUFFICES ASSUME torn PROVE FALSE
    OBVIOUS
  <2>1. k \in 1..3
    BY <1>1, <1>3, <1>7
  <2>2. k + 1 \in {2, 3, 4}
    BY <2>1
  <2>3. NL \in Characters /\ "." \in Characters
    BY DEF Characters, ControlTokens, NL
  <2> QED BY <1>1, <2>2, <2>3
<1>9. Len(text) = k /\ k \in 1..4
  BY <1>2, <1>3, <1>7, <1>8
<1>10. text[1] = word /\ (Len(text) > 1 => text[2] = NL)
  BY <1>1, <1>2, <1>9
<1>11. ~ (Bytes(text) > kMaxCommandBytes)
  BY DEF ParseCommand
<1>12. ParseCommand(text) = NamedCommand(word)
  BY <1>2, <1>9, <1>10, <1>11, WordParsed
<1>13. ParseCommand(r) = NamedCommand(word)
  <2>1. Len(r) # 0
    BY <1>1
  <2> QED BY <1>1, <2>1, WordParsed
<1> QED BY <1>12, <1>13

(* A line of a text stays in what is read of it if its line feed does, or  *)
(* if what is read ends right before that.                                 *)
LEMMA LineStays ==
  ASSUME NEW S, NEW r \in Seq(S), NEW text \in Seq(S), NEW k \in Nat, k <= Len(text), k <= Len(r),
         \A i \in 1..k : text[i] = r[i], NEW s \in 1..k,
         (\E j \in s..k : r[j] = NL) \/ (Len(text) = k /\ (k = Len(r) \/ r[k + 1] = NL))
  PROVE  LineAt(text, s) = LineAt(r, s)
<1>1. PICK m, n : m = Len(text) /\ n = Len(r) /\ m \in Nat /\ n \in Nat
  BY LenProperties
<1>2. k <= m /\ k <= n /\ s \in 1..m /\ s \in 1..n
  BY <1>1
<1>3. PICK c : LineLength(r, s, c)
  BY <1>1, <1>2, LineHasLength
<1>4. /\ c \in Nat /\ s + c <= n + 1 /\ (\A i \in 1..c : r[s - 1 + i] # NL)
      /\ s + c <= n => r[s + c] = NL
  BY <1>1, <1>3 DEF LineLength
<1>5. CASE \E j \in s..k : r[j] = NL
  <2>1. PICK j \in s..k : r[j] = NL
    BY <1>5
  <2>2. s + c <= k
    <3> SUFFICES ASSUME s + c > j PROVE FALSE
      BY <1>4, <2>1
    <3>1. PICK i : i = j - s + 1
      OBVIOUS
    <3>2. i \in 1..c /\ s - 1 + i = j
      BY <1>4, <3>1
    <3> QED BY <1>4, <2>1, <3>2
  <2>3. \A i \in 1..c : s - 1 + i \in 1..k
    BY <1>4, <2>2
  <2>4. \A i \in 1..c : text[s - 1 + i] = r[s - 1 + i]
    BY <2>3
  <2>5. text[s + c] = NL
    <3>1. s + c \in 1..k /\ s + c <= n
      BY <1>1, <1>2, <1>4, <2>2
    <3> QED BY <1>4, <3>1
  <2>6. s + c <= m + 1
    BY <1>1, <1>2, <1>4, <2>2
  <2>7. LineLength(text, s, c)
    BY <1>1, <1>4, <2>4, <2>5, <2>6 DEF LineLength
  <2> QED BY <1>1, <1>2, <1>3, <2>4, <2>7, LineKept
<1>6. CASE ~ (\E j \in s..k : r[j] = NL) /\ Len(text) = k /\ (k = Len(r) \/ r[k + 1] = NL)
  <2>1. ~ (s + c <= k)
    <3> SUFFICES ASSUME s + c <= k PROVE FALSE
      OBVIOUS
    <3>1. s + c \in s..k /\ s + c <= n
      BY <1>1, <1>2, <1>4
    <3> QED BY <1>4, <1>6, <3>1
  <2>2. s + c <= k + 1
    <3>1. CASE k = Len(r)
      BY <1>1, <1>4, <3>1
    <3>2. CASE r[k + 1] = NL
      <4> SUFFICES ASSUME s + c > k + 1 PROVE FALSE
        BY <1>4
      <4>1. PICK i : i = k - s + 2
        OBVIOUS
      <4>2. i \in 1..c /\ s - 1 + i = k + 1
        BY <1>4, <4>1
      <4> QED BY <1>4, <3>2, <4>2
    <3> QED BY <1>6, <3>1, <3>2
  <2>3. \A i \in 1..c : s - 1 + i \in 1..k
    BY <1>4, <2>2
  <2>4. \A i \in 1..c : text[s - 1 + i] = r[s - 1 + i]
    BY <2>3
  <2>5. LineLength(text, s, c)
    BY <1>4, <1>6, <2>1, <2>2, <2>4 DEF LineLength
  <2> QED BY <1>1, <1>2, <1>3, <2>4, <2>5, LineKept
<1> QED BY <1>5, <1>6

(* The reading did not end in one of the lines that decide what a text is. *)
DecidedBy == {<<"STOP">>, <<"STATUS">>, <<".">>}
NotAfterWord(text, r, k) ==
  k < Len(r) => \A s \in LineStarts(text) :
                  LineAt(text, s) \in DecidedBy => \E i \in s..(k + 1) : r[i] = NL

(* Those lines stand in the request, too.                                  *)
LEMMA DecidedStays ==
  ASSUME NEW r \in Seq(Token), NEW text, NEW k \in 0..Len(r), NEW torn \in BOOLEAN,
         CutOf(text, r, k, torn), torn => k < Len(r) /\ r[k + 1] \notin Characters,
         NotAfterWord(text, r, k), NEW s \in LineStarts(text), LineAt(text, s) \in DecidedBy
  PROVE  s \in 1..k /\ LineAt(text, s) = LineAt(r, s)
<1>1. /\ text \in Seq(Token) /\ Len(text) = k + (IF torn THEN 1 ELSE 0)
      /\ (\A i \in 1..k : text[i] = r[i]) /\ (torn => text[k + 1] = "torn")
  BY Zenon DEF CutOf
<1>2. PICK m, n : m = Len(text) /\ n = Len(r) /\ m \in Nat /\ n \in Nat
  BY <1>1, LenProperties
<1>3. k \in Nat /\ k <= m /\ k <= n /\ (~ torn => m = k) /\ (torn => m = k + 1)
  BY <1>1, <1>2
<1>4. s \in 1..m
  <2>1. DOMAIN text = 1..m
    BY <1>1, <1>2, LenProperties
  <2> QED BY <2>1 DEF LineStarts
<1>5. text[s] # "torn"
  <2>1. PICK word \in {"STOP", "STATUS", "."} : LineAt(text, s) = <<word>>
    BY DEF DecidedBy
  <2>2. text[s] = word
    BY <1>1, <1>2, <1>4, <2>1, WordStands
  <2> QED BY <2>2
<1>6. s \in 1..k
  <2>1. s = k + 1 => torn
    BY <1>3, <1>4
  <2>2. s # k + 1
    BY <1>1, <1>5, <2>1
  <2> QED BY <1>3, <1>4, <2>2
<1>7. (\E j \in s..k : r[j] = NL) \/ (m = k /\ (k = n \/ r[k + 1] = NL))
  <2>1. CASE k = n
    BY <1>2, <1>3, <2>1
  <2>2. CASE k # n
    <3>1. PICK j \in s..(k + 1) : r[j] = NL
      BY <1>2, <1>3, <2>2 DEF NotAfterWord
    <3>2. CASE j \in s..k
      BY <3>1, <3>2
    <3>3. CASE j = k + 1
      <4>1. NL \in Characters
        BY DEF Characters, ControlTokens, NL
      <4> QED BY <1>3, <3>1, <3>3, <4>1
    <3> QED BY <1>3, <1>6, <3>2, <3>3
  <2> QED BY <2>1, <2>2
<1> QED BY <1>1, <1>2, <1>3, <1>6, <1>7, LineStays

(* A request whose reading ended in no such line has the same options as   *)
(* what was read, if that has an end.                                      *)
LEMMA OptionsStay ==
  ASSUME NEW r \in Seq(Token), NEW text, NEW k \in 0..Len(r), NEW torn \in BOOLEAN,
         CutOf(text, r, k, torn), torn => k < Len(r) /\ r[k + 1] \notin Characters,
         NotAfterWord(text, r, k), Terminated(text)
  PROVE  /\ Terminated(r) /\ OptionLines(r) = OptionLines(text)
         /\ LineAt(text, 1) = LineAt(r, 1)
         /\ \A s \in OptionLines(text) : LineAt(text, s) = LineAt(r, s)
<1>1. /\ text \in Seq(Token) /\ Len(text) = k + (IF torn THEN 1 ELSE 0)
      /\ \A i \in 1..k : text[i] = r[i]
  BY Zenon DEF CutOf
<1>2. PICK m, n : m = Len(text) /\ n = Len(r) /\ m \in Nat /\ n \in Nat
  BY <1>1, LenProperties
<1>3. k \in Nat /\ k <= m /\ k <= n
  BY <1>1, <1>2
<1>4. DOMAIN text = 1..m /\ DOMAIN r = 1..n
  BY <1>1, <1>2, LenProperties
<1>5. \A s \in 1..k : s \in LineStarts(text) <=> s \in LineStarts(r)
  <2> TAKE s \in 1..k
  <2>1. s \in 1..m /\ s \in 1..n /\ (s > 1 => s - 1 \in 1..k)
    BY <1>2, <1>3
  <2> QED BY <1>1, <1>4, <2>1 DEF LineStarts
<1>6. \A s \in LineStarts(text) : s \in 1..m
  BY <1>4 DEF LineStarts
<1>7. \A s \in LineStarts(r) : s \in 1..n
  BY <1>4 DEF LineStarts
<1>8. \A e \in Ends(text) : e \in 1..k /\ e > 1 /\ r[e - 1] = NL /\ e \in Ends(r)
  <2> TAKE e \in Ends(text)
  <2>1. e \in LineStarts(text) /\ e # 1 /\ LineAt(text, e) = <<".">>
    BY DEF Ends
  <2>2. e \in 1..k /\ LineAt(text, e) = LineAt(r, e)
    <3>1. LineAt(text, e) \in DecidedBy
      BY <2>1 DEF DecidedBy
    <3> QED BY <2>1, <3>1, DecidedStays
  <2>3. e > 1 /\ e - 1 \in 1..k
    BY <1>3, <2>1, <2>2
  <2>4. text[e - 1] = NL
    BY <2>1, <2>3 DEF LineStarts
  <2>5. e \in Ends(r)
    BY <1>5, <2>1, <2>2 DEF Ends
  <2> QED BY <1>1, <2>2, <2>3, <2>4, <2>5
<1>9. PICK e : e \in Ends(text)
  BY DEF Terminated
<1>10. e \in 1..k /\ e > 1 /\ e - 1 \in 1..k
  BY <1>3, <1>8, <1>9
<1>11. \A s \in 1..(e - 1) : s \in 1..k /\ LineAt(text, s) = LineAt(r, s)
  <2> TAKE s \in 1..(e - 1)
  <2>1. s \in 1..k /\ e - 1 \in s..k
    BY <1>3, <1>10
  <2>2. \E j \in s..k : r[j] = NL
    BY <1>8, <1>9, <2>1
  <2> QED BY <1>1, <1>2, <1>3, <2>1, <2>2, LineStays
<1>12. Terminated(r)
  BY <1>8, <1>9 DEF Terminated
<1>13. OptionLines(r) \subseteq OptionLines(text)
  <2> SUFFICES ASSUME NEW s \in OptionLines(r) PROVE s \in OptionLines(text)
    OBVIOUS
  <2>1. s \in LineStarts(r) /\ s # 1 /\ \A end \in Ends(r) : s < end
    BY DEF OptionLines
  <2>2. s \in 1..k
    BY <1>7, <1>8, <1>9, <1>10, <2>1
  <2>3. \A end \in Ends(text) : s < end
    BY <1>8, <2>1
  <2> QED BY <1>5, <2>1, <2>2, <2>3 DEF OptionLines
<1>14. \A s \in OptionLines(text) : s \in 1..(e - 1) /\ s \in OptionLines(r)
  <2> TAKE s \in OptionLines(text)
  <2>1. s \in LineStarts(text) /\ s # 1 /\ \A end \in Ends(text) : s < end
    BY DEF OptionLines
  <2>2. s \in 1..(e - 1) /\ s \in 1..k
    BY <1>6, <1>9, <1>10, <2>1
  <2>3. ASSUME NEW end \in Ends(r) PROVE s < end
    <3>1. end \in LineStarts(r) /\ end # 1 /\ LineAt(r, end) = <<".">> /\ end \in 1..n
      BY <1>7 DEF Ends
    <3> SUFFICES ASSUME end <= s PROVE FALSE
      BY <2>2, <3>1
    <3>2. end \in 1..(e - 1)
      BY <1>10, <2>2, <3>1
    <3>3. end \in 1..k /\ LineAt(text, end) = <<".">>
      BY <1>11, <3>1, <3>2
    <3>4. end \in Ends(text)
      BY <1>5, <3>1, <3>3 DEF Ends
    <3>5. s < end
      BY <2>1, <3>4
    <3> QED BY <2>2, <3>3, <3>5
  <2> QED BY <1>5, <2>1, <2>2, <2>3 DEF OptionLines
<1>15. 1 \in 1..(e - 1)
  BY <1>10
<1> QED BY <1>11, <1>12, <1>13, <1>14, <1>15

(* The values are those of the lines, wherever these stand.                *)
ValuesIn(lines) ==
  [key \in {Key(line)[1] : line \in lines} |->
     ValueOf(CHOOSE line \in lines : Key(line)[1] = key)]

(* So what was read is the same command as the whole request.              *)
LEMMA ReadIsWhole ==
  ASSUME NEW r \in Seq(Token), NEW text, NEW k \in 0..Len(r), NEW torn \in BOOLEAN,
         CutOf(text, r, k, torn), torn => k < Len(r) /\ r[k + 1] \notin Characters,
         NotAfterWord(text, r, k), ~ (Bytes(r) > kMaxCommandBytes),
         ParseCommand(text) # Invalid
  PROVE  ParseCommand(text) = ParseCommand(r)
<1>1. text \in Seq(Token) /\ Len(text) = k + (IF torn THEN 1 ELSE 0)
  BY Zenon DEF CutOf
<1>2. /\ text # <<>> /\ ~ (Bytes(text) > kMaxCommandBytes)
      /\ \/ LineAt(text, 1) = <<"STOP">> \/ LineAt(text, 1) = <<"STATUS">>
         \/ LineAt(text, 1) = <<"START">> /\ Terminated(text)
  BY ParsedBy DEF ParseCommand
<1>3. r # <<>>
  <2>1. Len(text) # 0
    BY <1>1, <1>2, EmptySeq
  <2>2. Len(r) = 0 => k = 0 /\ ~ torn
    OBVIOUS
  <2>3. Len(r) # 0
    BY <1>1, <2>1, <2>2
  <2> QED BY <2>3, SomeTokens
<1>4. <<"START">> # <<"STOP">> /\ <<"START">> # <<"STATUS">> /\ <<"STOP">> # <<"STATUS">>
  OBVIOUS
<1>5. CASE LineAt(text, 1) = <<"STOP">> \/ LineAt(text, 1) = <<"STATUS">>
  <2>1. 1 \in LineStarts(text)
    <3>1. Len(text) \in Nat \ {0} /\ DOMAIN text = 1..Len(text)
      BY <1>1, <1>2, EmptySeq, LenProperties
    <3> QED BY <3>1 DEF LineStarts
  <2>2. LineAt(text, 1) = LineAt(r, 1)
    <3>1. LineAt(text, 1) \in DecidedBy
      BY <1>5 DEF DecidedBy
    <3> QED BY <2>1, <3>1, DecidedStays
  <2>3. CASE LineAt(text, 1) = <<"STOP">>
    BY <1>2, <1>3, <2>2, <2>3 DEF ParseCommand
  <2>4. CASE LineAt(text, 1) = <<"STATUS">>
    BY <1>2, <1>3, <1>4, <2>2, <2>4 DEF ParseCommand
  <2> QED BY <1>5, <2>3, <2>4
<1>6. CASE LineAt(text, 1) = <<"START">> /\ Terminated(text)
  <2>1. PICK lines : lines = OptionLines(text)
    OBVIOUS
  <2>2. /\ Terminated(r) /\ OptionLines(r) = lines /\ LineAt(r, 1) = <<"START">>
        /\ \A s \in lines : LineAt(text, s) = LineAt(r, s)
    BY <1>6, <2>1, OptionsStay
  <2>3. ParseCommand(text) = ParseStart(text) /\ ParseCommand(r) = ParseStart(r)
    BY <1>2, <1>3, <1>4, <1>6, <2>2 DEF ParseCommand
  <2>4. /\ WellFormed(text) /\ WordKeys(text)
        /\ Understood(Values(text)) /\ Validate(Configured(Values(text)))
    BY <2>3, Zenon DEF ParseStart
  <2>5. WellFormed(r)
    <3>1. /\ \A s \in lines : Before(LineAt(text, s), {"="}) \in 1 .. Len(LineAt(text, s)) - 1
          /\ \A s, t \in lines : Key(LineAt(text, s)) = Key(LineAt(text, t)) => s = t
      BY <2>1, <2>4, Zenon DEF WellFormed
    <3>2. \A s \in lines : Before(LineAt(r, s), {"="}) \in 1 .. Len(LineAt(r, s)) - 1
      BY <2>2, <3>1, Zenon
    <3>3. \A s, t \in lines : Key(LineAt(r, s)) = Key(LineAt(r, t)) => s = t
      <4> TAKE s \in lines, t \in lines
      <4>1. LineAt(text, s) = LineAt(r, s) /\ LineAt(text, t) = LineAt(r, t)
        BY <2>2, Zenon
      <4> QED BY <3>1, <4>1
    <3> QED BY <2>2, <3>2, <3>3, Zenon DEF WellFormed
  <2>6. WordKeys(r)
    BY <2>1, <2>2, <2>4, Zenon DEF WordKeys
  <2>7. Values(r) = Values(text)
    <3>1. {LineAt(text, s) : s \in OptionLines(text)} = {LineAt(r, s) : s \in OptionLines(r)}
      BY <2>1, <2>2
    <3>2. /\ Values(text) = ValuesIn({LineAt(text, s) : s \in OptionLines(text)})
          /\ Values(r) = ValuesIn({LineAt(r, s) : s \in OptionLines(r)})
      BY DEF Values, ValuesIn
    <3> QED BY <3>1, <3>2, Zenon
  <2>8. ParseStart(r) = ParseStart(text)
    BY <1>6, <2>2, <2>4, <2>5, <2>6, <2>7, Zenon DEF ParseStart
  <2> QED BY <2>3, <2>8
<1> QED BY <1>2, <1>5, <1>6

(* There are four kinds of command.                                        *)
LEMMA CommandIs ==
  ASSUME NEW text
  PROVE  /\ ParseCommand(text).type \in {"kInvalid", "kStart", "kStop", "kStatus"}
         /\ ParseCommand(text).type = "kInvalid" <=> ParseCommand(text) = Invalid
         /\ ParseCommand(text).type = "kStart" =>
              /\ WellFormed(text) /\ Understood(Values(text)) /\ Validate(Configured(Values(text)))
              /\ ParseCommand(text) = [type |-> "kStart", config |-> Configured(Values(text))]
<1>1. PICK c : c = Configured(Values(text))
  OBVIOUS
<1>2. Invalid.type = "kInvalid"
  BY DEF Invalid
<1>3. ParseCommand(text) \in {Invalid, [type |-> "kStop"], [type |-> "kStatus"], ParseStart(text)}
  <2>1. CASE text = <<>> \/ Bytes(text) > kMaxCommandBytes
    BY <2>1 DEF ParseCommand
  <2>2. CASE ~ (text = <<>> \/ Bytes(text) > kMaxCommandBytes)
    <3>1. <<"STOP">> # <<"STATUS">> /\ <<"STOP">> # <<"START">> /\ <<"STATUS">> # <<"START">>
      OBVIOUS
    <3> QED BY <2>2, <3>1 DEF ParseCommand
  <2> QED BY <2>1, <2>2
<1>4. \/ ParseStart(text) = Invalid
      \/ /\ ParseStart(text) = [type |-> "kStart", config |-> c]
         /\ WellFormed(text) /\ Understood(Values(text)) /\ Validate(c)
  BY <1>1, Zenon DEF ParseStart
<1>5. [type |-> "kStart", config |-> c].type = "kStart" /\ [type |-> "kStop"].type = "kStop"
      /\ [type |-> "kStatus"].type = "kStatus"
  OBVIOUS
<1>6. CASE ParseCommand(text) = Invalid
  BY <1>2, <1>6
<1>7. CASE ParseCommand(text) = [type |-> "kStop"]
  BY <1>2, <1>5, <1>7
<1>8. CASE ParseCommand(text) = [type |-> "kStatus"]
  BY <1>2, <1>5, <1>8
<1>9. CASE ParseCommand(text) = [type |-> "kStart", config |-> c]
           /\ WellFormed(text) /\ Understood(Values(text)) /\ Validate(c)
  BY <1>1, <1>2, <1>5, <1>9
<1> QED BY <1>3, <1>4, <1>6, <1>7, <1>8, <1>9

-------------------------------------------------------------------------------
(* The user's settings *)

(* What is left of a text is text.                                         *)
LEMMA TrimIs ==
  ASSUME NEW S, NEW text \in Seq(S)
  PROVE  Trim(text) \in Seq(S)
<1>1. PICK n : n = Len(text) /\ n \in Nat
  BY LenProperties
<1>2. PICK kept : kept = {i \in DOMAIN text : text[i] \notin Blank}
  OBVIOUS
<1>3. kept \subseteq 1..n
  BY <1>1, <1>2, LenProperties
<1>4. Trim(text) = IF kept = {} THEN <<>> ELSE SubSeq(text, Min(kept), Max(kept))
  BY <1>2, Zenon DEF Trim
<1>5. CASE kept = {}
  BY <1>4, <1>5, NoTokens
<1>6. CASE kept # {}
  <2>1. PICK a, b : a = Min(kept) /\ b = Max(kept)
    OBVIOUS
  <2>2. a \in kept
    <3>1. kept \subseteq Nat
      BY <1>3
    <3>2. a = CHOOSE x \in kept : \A y \in kept : x <= y
      BY <2>1, Zenon DEF Min
    <3>3. \E x \in kept : \A y \in kept : x <= y
      BY <1>6, <3>1, LeastOf
    <3> QED BY <3>2, <3>3
  <2>3. b \in kept
    <3>1. PICK below : below = {n - i : i \in kept}
      OBVIOUS
    <3>2. below \subseteq Nat /\ below # {}
      <4>1. \A i \in kept : n - i \in Nat
        BY <1>1, <1>3
      <4>2. PICK i \in kept : TRUE
        BY <1>6
      <4>3. n - i \in below
        BY <3>1, <4>2
      <4> QED BY <3>1, <4>1, <4>3
    <3>3. PICK d \in below : \A e \in below : d <= e
      BY <3>2, LeastOf
    <3>4. PICK x \in kept : d = n - x
      BY <3>1
    <3>5. \A y \in kept : x >= y
      <4> TAKE y \in kept
      <4>1. n - x <= n - y
        BY <3>1, <3>3, <3>4
      <4>2. x \in 1..n /\ y \in 1..n
        BY <1>3
      <4> QED BY <1>1, <4>1, <4>2
    <3>6. b = CHOOSE z \in kept : \A y \in kept : z >= y
      BY <2>1, Zenon DEF Max
    <3> QED BY <3>5, <3>6
  <2>4. a \in 1..(n + 1) /\ b \in 0..n
    BY <1>1, <1>3, <2>2, <2>3
  <2>5. SubSeq(text, a, b) \in Seq(S)
    BY <1>1, <2>4, PartOf
  <2> QED BY <1>4, <1>6, <2>1, <2>5
<1> QED BY <1>5, <1>6

(* What the app makes of the settings, and what the user meant by them.    *)
Chosen(settings, url, rotation, mirror) ==
  /\ url \in Seq(STRING \ {"torn", "flood"}) /\ url \in Seq(Token)
  /\ rotation \in Rotations /\ mirror \in BOOLEAN
  /\ url = Trim(settings.url) /\ Normalized(settings).url = url
  /\ Normalized(settings).rotation = rotation /\ Normalized(settings).mirror = mirror
  /\ Meant(settings) = Wanted(url, rotation, mirror)

(* All settings have them.                                                 *)
LEMMA SettingsChosen ==
  ASSUME NEW settings \in Settings
  PROVE  \E url, rotation, mirror : Chosen(settings, url, rotation, mirror)
<1>1. PICK S : S = STRING \ {"torn", "flood"}
  OBVIOUS
<1>2. settings \in [url : Seq(S), rotation : Int, mirror : BOOLEAN]
  BY <1>1, SettingsAssumption
<1>3. PICK url, rotation, mirror :
        /\ url = Trim(settings.url) /\ mirror = settings.mirror
        /\ rotation = IF settings.rotation \in Rotations THEN settings.rotation ELSE 0
  OBVIOUS
<1>4. url \in Seq(S)
  BY <1>2, <1>3, TrimIs
<1>5. S \subseteq Token
  BY <1>1 DEF Token
<1>6. url \in Seq(Token)
  BY <1>4, <1>5, SeqMonotonic
<1>7. rotation \in Rotations /\ mirror \in BOOLEAN
  BY <1>2, <1>3 DEF Rotations
<1>8. /\ Normalized(settings).url = url /\ Normalized(settings).rotation = rotation
      /\ Normalized(settings).mirror = mirror
  BY <1>2, <1>3 DEF Normalized
<1>9. Meant(settings) = Wanted(url, rotation, mirror)
  <2>1. rotation = IF settings.rotation \in {90, 180, 270} THEN settings.rotation ELSE 0
    BY <1>2, <1>3 DEF Rotations
  <2> QED BY <1>3, <2>1, Zenon DEF Meant, Wanted
<1>10. Chosen(settings, url, rotation, mirror)
  BY <1>1, <1>3, <1>4, <1>6, <1>7, <1>8, <1>9, Zenon DEF Chosen
<1> QED BY <1>10

(* The app asks for nothing without a URL.                                 *)
LEMMA NoWishIsNone == ~ Validates(Normalized(NoWish).url)
<1>1. NoWish.url = <<>>
  BY DEF NoWish
<1>2. Normalized(NoWish).url = Trim(NoWish.url)
  BY DEF Normalized, NoWish
<1>3. Trim(<<>>) = <<>>
  <2>1. DOMAIN <<>> = {}
    OBVIOUS
  <2>2. {i \in DOMAIN <<>> : <<>>[i] \notin Blank} = {}
    BY <2>1
  <2> QED BY <2>2 DEF Trim
<1>4. ~ Validates(<<>>)
  <2> SUFFICES ASSUME NEW e, e = <<>>, Validates(e) PROVE FALSE
    OBVIOUS
  <2>1. e \in Seq(Token) /\ Len(e) = 0
    BY NoTokens
  <2>2. e \notin LocalUrls
    <3>1. <<"push", "://", "local">> # <<>> /\ <<"push", "://", "placeholder">> # <<>>
      OBVIOUS
    <3> QED BY <3>1 DEF LocalUrls
  <2>3. Authority(e) # <<>>
    BY <2>1, <2>2, ValidUrl
  <2>4. SchemeEnd(e) \in 0..Len(e)
    BY <2>1, BeforeCounts DEF SchemeEnd
  <2>5. SchemeEnd(e) + 1 < Len(e)
    BY <2>1, <2>3, AuthorityFollows
  <2> QED BY <2>1, <2>4, <2>5
<1> QED BY <1>1, <1>2, <1>3, <1>4

-------------------------------------------------------------------------------
(* What was read *)

Piece(r, piece) ==
  SubSeq(r, 1, piece.tokens) \o (IF piece.torn THEN <<"torn">> ELSE <<>>)
  \o [i \in 1..piece.more |-> "flood"]

(* The reads of a flood are tokens.                                        *)
LEMMA SameTokens ==
  ASSUME NEW S, NEW x \in S, NEW n \in Nat
  PROVE  [i \in 1..n |-> x] \in Seq(S) /\ Len([i \in 1..n |-> x]) = n
OBVIOUS

(* No reads, no tokens.                                                    *)
LEMMA NoneLikeIt == ASSUME NEW x PROVE [i \in 1..0 |-> x] = <<>>
OBVIOUS

(* What was read is a text, what is not flood is the beginning of the      *)
(* request, and all of it is the request.                                  *)
LEMMA PieceIs ==
  ASSUME NEW r \in Seq(Token), NEW k \in 0..Len(r), NEW torn \in BOOLEAN, NEW more \in Nat,
         NEW piece, piece = [tokens |-> k, torn |-> torn, more |-> more]
  PROVE  /\ Piece(r, piece) \in Seq(Token)
         /\ more = 0 => CutOf(Piece(r, piece), r, k, torn)
         /\ more = 0 /\ k = Len(r) /\ ~ torn => Piece(r, piece) = r
<1>1. PICK c, f : /\ c = SubSeq(r, 1, k) \o (IF torn THEN <<"torn">> ELSE <<>>)
                  /\ f = [i \in 1..more |-> "flood"]
  OBVIOUS
<1>2. Piece(r, piece) = c \o f
  BY <1>1 DEF Piece
<1>3. CutOf(c, r, k, torn)
  BY <1>1, CutIs
<1>4. c \in Seq(Token)
  BY <1>3, Zenon DEF CutOf
<1>5. "flood" \in Token
  BY DEF Token
<1>6. f \in Seq(Token)
  BY <1>1, <1>5, SameTokens
<1>7. c \o f \in Seq(Token)
  BY <1>4, <1>6, ConcatProperties
<1>8. more = 0 => c \o f = c
  <2> SUFFICES ASSUME more = 0 PROVE c \o f = c
    OBVIOUS
  <2>1. f = <<>>
    BY <1>1, NoneLikeIt
  <2> QED BY <1>4, <2>1, ConcatEmptySeq
<1>9. k = Len(r) /\ ~ torn => c = r
  <2> SUFFICES ASSUME k = Len(r), ~ torn PROVE c = r
    OBVIOUS
  <2>1. c = SubSeq(r, 1, k)
    BY <1>3, Zenon DEF CutOf
  <2> QED BY <2>1, SubSeqFull
<1> QED BY <1>2, <1>3, <1>7, <1>8, <1>9

(* Nothing has no bytes.                                                   *)
LEMMA NothingIsSmall ==
  ASSUME NEW r
  PROVE  Bytes(Piece(r, NothingRead)) = 0
<1>1. PICK e : e = Piece(r, NothingRead)
  OBVIOUS
<1>2. e = <<>>
  <2>1. SubSeq(r, 1, 0) = <<>>
    BY SubSeqEmpty
  <2>2. [i \in 1..0 |-> "flood"] = <<>>
    BY NoneLikeIt
  <2>3. <<>> \o <<>> \o <<>> = <<>>
    OBVIOUS
  <2>4. e = SubSeq(r, 1, 0) \o <<>> \o [i \in 1..0 |-> "flood"]
    BY <1>1 DEF Piece, NothingRead
  <2> QED BY <2>1, <2>2, <2>3, <2>4
<1>3. \A token : Count(e, token) = 0
  <2> TAKE token
  <2>1. {i \in DOMAIN e : e[i] = token} = {}
    BY <1>2
  <2> QED BY <2>1, FS_EmptySet DEF Count
<1>4. Len(e) = 0
  BY <1>2
<1>5. Bytes(e) = 0
  BY <1>3, <1>4 DEF Bytes, Chars, Short, Long, Wide, Flood
<1> QED BY <1>1, <1>5

-------------------------------------------------------------------------------
(* What is accepted is played *)

(* The URL of the defaults has five tokens.                                *)
LEMMA FiveTokens ==
  ASSUME NEW S, NEW a \in S, NEW b \in S, NEW c \in S, NEW d \in S, NEW e \in S
  PROVE  <<a, b, c, d, e>> \in Seq(S)
OBVIOUS

(* The URL of a start is a text.                                           *)
LEMMA UrlTyped ==
  ASSUME NEW text \in Seq(Token), WellFormed(text)
  PROVE  \E T : Configured(Values(text)).url \in Seq(T)
<1>1. PICK values : values = Values(text)
  OBVIOUS
<1>2. DOMAIN DefaultConfig = AppOptions /\ "url" \in AppOptions
  BY WantedIs DEF AppOptions
<1>3. CASE "url" \notin DOMAIN values
  <2>1. Configured(values)["url"] = DefaultConfig["url"]
    BY <1>2, <1>3 DEF Configured
  <2>2. DefaultConfig.url = <<"http", "://", "192.168.1.10:8888", "/", "live.mjpg">>
    BY DEF DefaultConfig
  <2>3. PICK T : T = {"http", "://", "192.168.1.10:8888", "/", "live.mjpg"}
    OBVIOUS
  <2>4. DefaultConfig.url \in Seq(T)
    BY <2>2, <2>3, FiveTokens
  <2>5. Configured(values).url = DefaultConfig.url
    BY <2>1
  <2> QED BY <1>1, <2>4, <2>5
<1>4. CASE "url" \in DOMAIN values
  <2>1. Configured(values)["url"] = values["url"]
    <3>1. "url" \notin IntOptions /\ "url" # "mirror"
      BY DEF IntOptions
    <3> QED BY <1>2, <1>4, <3>1 DEF Configured
  <2> DEFINE lines == {LineAt(text, s) : s \in OptionLines(text)}
  <2>2. values = [key \in {Key(line)[1] : line \in lines} |->
                    ValueOf(CHOOSE line \in lines : Key(line)[1] = key)]
    BY <1>1, Zenon DEF Values
  <2>3. \A line \in lines : \E s \in OptionLines(text) : line = LineAt(text, s)
    OBVIOUS
  <2> HIDE DEF lines
  <2>4. \E line \in lines : Key(line)[1] = "url"
    BY <1>4, <2>2
  <2>5. PICK line \in lines : values["url"] = ValueOf(line)
    BY <1>4, <2>2, <2>4
  <2>6. PICK s \in OptionLines(text) : line = LineAt(text, s)
    BY <2>3
  <2>7. s \in 1..Len(text)
    BY LenProperties DEF OptionLines, LineStarts
  <2>8. line \in Seq(Token)
    BY <2>6, <2>7, LineStands
  <2>9. PICK b, n : b = Before(line, {"="}) /\ n = Len(line)
    OBVIOUS
  <2>10. n \in Nat /\ b \in 1 .. n - 1
    BY <2>6, <2>8, <2>9, LenProperties DEF WellFormed
  <2>11. b + 2 \in 1 .. n + 1 /\ n \in 0..n
    BY <2>10
  <2>12. SubSeq(line, b + 2, n) \in Seq(Token)
    BY <2>8, <2>9, <2>11, PartOf
  <2>13. values["url"] \in Seq(Token)
    BY <2>5, <2>9, <2>12, Zenon DEF ValueOf
  <2>14. Configured(values).url = values["url"]
    BY <2>1
  <2> QED BY <1>1, <2>13, <2>14
<1> QED BY <1>3, <1>4

(* A text that is taken for a start has FFmpeg play its URL.               *)
LEMMA AcceptedPlays ==
  ASSUME NEW text \in Seq(Token), NEW path, ParseCommand(text).type = "kStart"
  PROVE  \/ ParseCommand(text).config.url \in LocalUrls
         \/ PlaysOnly(ParseCommand(text).config.url,
              BuildFfmpegArguments(path, ParseCommand(text).config.url, ParseCommand(text).config.fps))
<1>1. PICK config : config = Configured(Values(text))
  OBVIOUS
<1>2. /\ WellFormed(text) /\ Validate(config)
      /\ ParseCommand(text) = [type |-> "kStart", config |-> config]
  BY <1>1, CommandIs
<1>3. PICK url, fps : url = config.url /\ fps = config.fps
  OBVIOUS
<1>4. ParseCommand(text).config = config
  BY <1>2
<1>5. PICK T : url \in Seq(T)
  BY <1>1, <1>2, <1>3, UrlTyped
<1>6. url \in LocalUrls \/ ParseStreamSourceUrl(url)
  BY <1>2, <1>3, Zenon DEF Validate
<1>7. ParseStreamSourceUrl(url) => SchemeOf(url) \in kSchemes
  BY Zenon DEF ParseStreamSourceUrl
<1>8. url \in LocalUrls \/ PlaysOnly(url, BuildFfmpegArguments(path, url, fps))
  BY <1>5, <1>6, <1>7, LinePlays
<1> QED BY <1>3, <1>4, <1>8

-------------------------------------------------------------------------------
(* The inductive invariant *)

Nobody == [uid |-> 0, public |-> FALSE]

(* Both programs have the options they were given.                         *)
Launched ==
  pc # "down" =>
    /\ appUid \in AppUids /\ proxy.uid = appUid /\ proxy.drop /\ daemon.allowed = {}
    /\ ControlIsReached(daemon, proxy) /\ FramesAreReached(daemon, proxy)

Admitted == client = AppClient \/ client.uid \in {0, SystemUid}

(* The request is what the user settled on, or one of the app's two words. *)
FromSettings ==
  wish \in Settings /\ Validates(Normalized(wish).url) /\ request = ToStartCommand(Normalized(wish))
FromWord == wish = NoWish /\ \E word \in {"STOP", "STATUS"} : request = <<word, NL, ".", NL>>

Asking ==
  /\ request \in Seq(Token) /\ flood \in BOOLEAN
  /\ pc \in {"down", "idle"} => client = Nobody
  /\ client # AppClient => wish = NoWish
  /\ client = AppClient => ~ flood /\ (FromSettings \/ FromWord)

(* What was read is the beginning of it, and fits while more may come.     *)
Reading ==
  /\ got \in [tokens : 0..Len(request), torn : BOOLEAN, more : 0..MostReads]
  /\ got.torn => got.tokens < Len(request) /\ request[got.tokens + 1] \notin Characters
  /\ got.more # 0 => flood
  /\ pc \in {"reading", "read"} => Admitted /\ Bytes(Piece(request, got)) <= kMaxCommandBytes
  /\ pc = "read" => ~ flood

(* The app is told that it was too much, or what came of the command.      *)
ToldTooLarge ==
  /\ command = Invalid /\ reply = Refusal(<<"command too large">>)
  /\ Bytes(Piece(request, got)) > kMaxCommandBytes
ToldOutcome ==
  /\ command = ParseCommand(Piece(request, got))
  /\ \E error \in Errors : reply \in {Refusal(error), StatusJson(error)}

Answered ==
  /\ \/ command = Invalid
     \/ Admitted /\ ~ flood /\ pc = "answered" /\ command = ParseCommand(Piece(request, got))
  /\ pc = "answered" /\ client = AppClient => ToldTooLarge \/ ToldOutcome

RequestInv ==
  /\ appUid \in InstalledAs /\ pc \in {"down", "idle", "reading", "read", "answered"}
  /\ Launched /\ Asking /\ Reading /\ Answered

(* The read loop looks at that piece.                                      *)
LEMMA TextIs == \A piece : Text(piece) = Piece(request, piece)
BY DEF Text, Piece

(* The limits as numbers.                                                  *)
LEMMA LimitsAre == MostReads \in Nat /\ kMaxCommandBytes = 16384
<1>1. 16384 \div 2048 \in Nat
  OBVIOUS
<1>2. 16 * 1024 = 16384
  OBVIOUS
<1> QED BY <1>1, <1>2 DEF MostReads, kMaxCommandBytes, KiB, Flood

(* Nothing is read of any text yet.                                        *)
LEMMA NothingIsRead ==
  ASSUME NEW r \in Seq(Token)
  PROVE  /\ NothingRead \in [tokens : 0..Len(r), torn : BOOLEAN, more : 0..MostReads]
         /\ NothingRead.torn = FALSE /\ NothingRead.more = 0
         /\ Bytes(Piece(r, NothingRead)) <= kMaxCommandBytes
<1>1. Len(r) \in Nat /\ MostReads \in Nat /\ kMaxCommandBytes = 16384
  BY LenProperties, LimitsAre
<1>2. 0 \in 0..Len(r) /\ 0 \in 0..MostReads
  BY <1>1
<1>3. 0 <= kMaxCommandBytes
  BY <1>1
<1> QED BY <1>2, <1>3, NothingIsSmall DEF NothingRead

(* The app's client is not nobody, and no stranger.                        *)
LEMMA ClientsDiffer ==
  ASSUME appUid \in InstalledAs, NEW who, who.uid \in {0, SystemUid} \cup Strangers \/ ~ who.public
  PROVE  who # AppClient
<1>1. AppClient.uid = appUid /\ AppClient.public = TRUE
  BY DEF AppClient
<1> QED BY <1>1, UidsAssumption

(* Nothing is launched and nobody asks in the beginning.                   *)
LEMMA InitHolds == Init => RequestInv
<1> SUFFICES ASSUME Init PROVE RequestInv
  OBVIOUS
<1>1. request = <<>> /\ request \in Seq(Token)
  BY NoTokens DEF Init
<1>2. client = Nobody /\ Nobody.public = FALSE /\ appUid \in InstalledAs
  BY DEF Init, Nobody
<1>3. client # AppClient
  BY <1>2, ClientsDiffer
<1>4. Asking
  BY <1>1, <1>2, <1>3 DEF Init, Asking
<1>5. Reading
  <2>1. got = NothingRead /\ pc = "down"
    BY DEF Init
  <2> QED BY <1>1, <2>1, NothingIsRead DEF Reading
<1>6. Launched /\ Answered
  BY DEF Init, Launched, Answered
<1> QED BY <1>2, <1>4, <1>5, <1>6 DEF Init, RequestInv

(* The options the script gives are the ones both end up with.             *)
LEMMA LaunchKeeps == RequestInv /\ LaunchBoth => RequestInv'
<1> SUFFICES ASSUME RequestInv, LaunchBoth PROVE RequestInv'
  OBVIOUS
<1>1. /\ appUid \in InstalledAs /\ appUid \in AppUids /\ appUid \in Uids
      /\ pc = "down" /\ pc' = "idle" /\ daemon' = DaemonOptions(DaemonCommand)
      /\ proxy' = ProxyOptions(ProxyCommand(appUid))
      /\ UNCHANGED <<appUid, client, wish, request, flood, got, command, reply>>
  BY UidsAssumption DEF RequestInv, LaunchBoth
<1>2. /\ proxy'.uid = appUid /\ proxy'.drop /\ daemon'.allowed = {}
      /\ proxy'.publicControl = "vcamesd" /\ proxy'.publicFrames = "vcamesd_frames"
      /\ proxy'.control = daemon'.control /\ proxy'.frames = daemon'.frames
  BY <1>1, DaemonIs, ProxyIs
<1>3. Launched'
  BY <1>1, <1>2 DEF Launched, ControlIsReached, FramesAreReached, ControlSocket, FrameSocket
<1>4. Asking'
  BY <1>1 DEF RequestInv, Asking, AppClient, FromSettings, FromWord
<1>5. Reading'
  BY <1>1 DEF RequestInv, Reading
<1>6. Answered'
  BY <1>1 DEF RequestInv, Answered
<1> QED BY <1>1, <1>3, <1>4, <1>5, <1>6 DEF RequestInv

(* Another uid, while nothing runs.                                        *)
LEMMA ReinstallKeeps == RequestInv /\ Reinstall => RequestInv'
<1> SUFFICES ASSUME RequestInv, Reinstall PROVE RequestInv'
  OBVIOUS
<1>1. /\ pc = "down" /\ appUid' \in InstalledAs
      /\ UNCHANGED <<daemon, proxy, pc, client, wish, request, flood, got, command, reply>>
  BY DEF Reinstall
<1>2. client = Nobody /\ Nobody.public = FALSE
  BY <1>1 DEF RequestInv, Asking, Nobody
<1>3. client # AppClient /\ client # AppClient'
  <2>1. AppClient.public = TRUE /\ AppClient'.public = TRUE
    BY DEF AppClient
  <2> QED BY <1>2, <2>1
<1>4. Asking'
  BY <1>1, <1>3 DEF RequestInv, Asking
<1>5. Reading'
  BY <1>1 DEF RequestInv, Reading
<1>6. Answered'
  BY <1>1 DEF RequestInv, Answered
<1>7. Launched'
  BY <1>1 DEF Launched
<1> QED BY <1>1, <1>4, <1>5, <1>6, <1>7 DEF RequestInv

(* A connection is admitted if it is the app's or comes from root or       *)
(* system, and the app's is.                                               *)
LEMMA ConnectIs ==
  ASSUME RequestInv, NEW U, NEW who \in [uid : U, public : BOOLEAN], NEW text, Connect(who, text),
         who = AppClient \/ who.uid \in {0, SystemUid} \cup Strangers
  PROVE  /\ client' = who /\ request' = text /\ got' = NothingRead /\ command' = Invalid
         /\ UNCHANGED programs
         /\ \/ pc' = "answered" /\ who # AppClient
            \/ pc' = "reading" /\ (who = AppClient \/ who.uid \in {0, SystemUid})
<1>1. /\ pc = "idle" /\ client' = who /\ request' = text /\ got' = NothingRead /\ command' = Invalid
      /\ UNCHANGED programs
  BY DEF Connect
<1>2. /\ proxy.uid = appUid /\ proxy.drop /\ daemon.allowed = {} /\ appUid \in InstalledAs
      /\ ControlIsReached(daemon, proxy)
  BY <1>1 DEF RequestInv, Launched
<1>3. AppClient.uid = appUid /\ AppClient.public
  BY DEF AppClient
<1>4. SeenBy(who) = IF who.public THEN SystemUid ELSE who.uid
  BY <1>2 DEF SeenBy
<1>5. IsAllowedPeer(SeenBy(who)) <=> SeenBy(who) \in {0, SystemUid}
  BY <1>2 DEF IsAllowedPeer
<1>6. CASE who = AppClient
  <2>1. AllowedPeer(who.uid)
    BY <1>2, <1>3, <1>6 DEF AllowedPeer
  <2>2. IsAllowedPeer(SeenBy(who))
    BY <1>3, <1>4, <1>5, <1>6
  <2> QED BY <1>1, <1>2, <1>6, <2>1, <2>2 DEF Connect
<1>7. CASE who # AppClient /\ who.uid \in {0, SystemUid}
  BY <1>1, <1>7 DEF Connect, Answer
<1>8. CASE who # AppClient /\ who.uid \notin {0, SystemUid}
  <2>1. who.uid \in Strangers /\ who.uid # appUid
    BY <1>2, <1>8, UidsAssumption
  <2>2. CASE who.public
    <3>1. ~ AllowedPeer(who.uid)
      BY <1>2, <1>8, <2>1 DEF AllowedPeer
    <3> QED BY <1>1, <1>8, <2>2, <3>1 DEF Connect, Answer
  <2>3. CASE ~ who.public
    <3>1. ~ IsAllowedPeer(SeenBy(who))
      BY <1>4, <1>5, <1>8, <2>3
    <3> QED BY <1>1, <1>8, <2>3, <3>1 DEF Connect, Answer
  <2> QED BY <2>2, <2>3
<1> QED BY <1>6, <1>7, <1>8

(* A connection brings its request and nothing else.                       *)
LEMMA ConnectKeeps ==
  ASSUME RequestInv, NEW U, NEW who \in [uid : U, public : BOOLEAN], NEW text \in Seq(Token),
         Connect(who, text), flood' \in BOOLEAN,
         \/ who = AppClient /\ flood' = FALSE /\ (FromSettings \/ FromWord)'
         \/ who.uid \in {0, SystemUid} \cup Strangers /\ who # AppClient /\ wish' = NoWish
  PROVE  RequestInv'
<1>1. /\ client' = who /\ request' = text /\ got' = NothingRead /\ command' = Invalid
      /\ UNCHANGED programs
      /\ \/ pc' = "answered" /\ who # AppClient
         \/ pc' = "reading" /\ (who = AppClient \/ who.uid \in {0, SystemUid})
  BY ConnectIs
<1>2. AppClient' = AppClient /\ appUid' = appUid /\ daemon' = daemon /\ proxy' = proxy /\ pc = "idle"
  BY <1>1 DEF programs, AppClient, Connect
<1>3. pc' \in {"answered", "reading"}
  BY <1>1
<1>4. Launched'
  BY <1>2 DEF RequestInv, Launched
<1>5. Asking'
  BY <1>1, <1>2, <1>3 DEF Asking
<1>6. Reading'
  <2>1. /\ NothingRead \in [tokens : 0..Len(text), torn : BOOLEAN, more : 0..MostReads]
        /\ NothingRead.torn = FALSE /\ NothingRead.more = 0
        /\ Bytes(Piece(text, NothingRead)) <= kMaxCommandBytes
    BY NothingIsRead
  <2>2. pc' \in {"reading", "read"} => Admitted'
    BY <1>1, <1>2 DEF Admitted
  <2> QED BY <1>1, <1>3, <2>1, <2>2 DEF Reading
<1>7. Answered'
  BY <1>1, <1>2 DEF Answered
<1> QED BY <1>2, <1>3, <1>4, <1>5, <1>6, <1>7 DEF RequestInv

(* The app's three requests.                                               *)
LEMMA StartsKeep ==
  ASSUME RequestInv, NEW settings \in Settings, AppStarts(settings)
  PROVE  RequestInv'
<1>1. PICK config : config = Normalized(settings)
  OBVIOUS
<1>2. /\ Validates(config.url) /\ Connect(AppClient, ToStartCommand(config))
      /\ wish' = settings /\ flood' = FALSE
  BY <1>1, Zenon DEF AppStarts
<1>3. PICK url, rotation, mirror : Chosen(settings, url, rotation, mirror)
  BY SettingsChosen
<1>4. /\ url \in Seq(Token) /\ rotation \in Rotations /\ mirror \in BOOLEAN
      /\ config.url = url /\ config.rotation = rotation /\ config.mirror = mirror
  BY <1>1, <1>3, Zenon DEF Chosen
<1>5. PICK n : n = Len(url)
  OBVIOUS
<1>6. Laid(ToStartCommand(config), n, url, Decimal(rotation), Decimal(IF mirror THEN 1 ELSE 0))
  BY <1>4, <1>5, RequestLaid
<1>7. ToStartCommand(config) \in Seq(Token)
  BY <1>6, Zenon DEF Laid
<1>8. AppClient \in [uid : InstalledAs, public : BOOLEAN]
  BY DEF RequestInv, AppClient
<1>9. request' = ToStartCommand(config)
  BY <1>2 DEF Connect
<1>10. FromSettings'
  BY <1>1, <1>2, <1>9 DEF FromSettings
<1>11. flood' \in BOOLEAN
  BY <1>2
<1> QED BY <1>2, <1>7, <1>8, <1>10, <1>11, ConnectKeeps

LEMMA AsksKeep ==
  ASSUME RequestInv, NEW word \in {"STOP", "STATUS"}, AppAsks(word)
  PROVE  RequestInv'
<1>1. PICK r : r = <<word, NL, ".", NL>>
  OBVIOUS
<1>2. Connect(AppClient, r) /\ wish' = NoWish /\ flood' = FALSE
  BY <1>1, Zenon DEF AppAsks
<1>3. r \in Seq(Token)
  BY <1>1, WordRequestIs, Zenon DEF WordRequest
<1>4. AppClient \in [uid : InstalledAs, public : BOOLEAN]
  BY DEF RequestInv, AppClient
<1>5. request' = r
  BY <1>2 DEF Connect
<1>6. FromWord'
  BY <1>1, <1>2, <1>5 DEF FromWord
<1>7. flood' \in BOOLEAN
  BY <1>2
<1> QED BY <1>2, <1>3, <1>4, <1>6, <1>7, ConnectKeeps

(* Root, system and other apps.                                            *)
LEMMA OthersKeep ==
  ASSUME RequestInv, NEW who \in [uid : {0, SystemUid} \cup Strangers, public : BOOLEAN],
         NEW text \in Scripts, OtherConnects(who, text)
  PROVE  RequestInv'
<1>1. Connect(who, text) /\ wish' = NoWish /\ flood' \in BOOLEAN
  BY DEF OtherConnects
<1>2. text \in Seq(Token)
  <2>1. PICK S : S = STRING
    OBVIOUS
  <2>2. text \in Seq(S) /\ S \subseteq Token
    BY <2>1, ScriptsAssumption DEF Token
  <2> QED BY <2>2, SeqMonotonic
<1>3. who.uid \in {0, SystemUid} \cup Strangers
  OBVIOUS
<1>4. who # AppClient
  BY <1>3, ClientsDiffer DEF RequestInv
<1> QED BY <1>1, <1>2, <1>3, <1>4, ConnectKeeps

(* The next piece is a piece of the same request.                          *)
LEMMA ReadKeeps ==
  ASSUME RequestInv, NEW piece \in [tokens : 0..Len(request), torn : BOOLEAN, more : 0..MostReads],
         piece.torn => piece.tokens < Len(request) /\ request[piece.tokens + 1] \notin Characters,
         piece.more # 0 => flood, Read(piece)
  PROVE  RequestInv'
<1>1. /\ pc = "reading" /\ got' = piece
      /\ UNCHANGED <<programs, client, wish, request, flood, command>>
  BY DEF Read
<1>2. /\ AppClient' = AppClient /\ appUid' = appUid /\ daemon' = daemon /\ proxy' = proxy
      /\ UNCHANGED <<client, wish, request, flood, command>>
  BY <1>1 DEF programs, AppClient
<1>3. PICK bytes : bytes = Bytes(Piece(request, piece))
  OBVIOUS
<1>4. bytes \in Nat /\ kMaxCommandBytes \in Nat
  <2>1. PICK k, torn, more : k = piece.tokens /\ torn = piece.torn /\ more = piece.more
    OBVIOUS
  <2>2. k \in 0..Len(request) /\ torn \in BOOLEAN /\ more \in 0..MostReads
        /\ piece = [tokens |-> k, torn |-> torn, more |-> more]
    BY <2>1
  <2>3. more \in Nat
    BY <2>2, LimitsAre
  <2>4. request \in Seq(Token)
    BY DEF RequestInv, Asking
  <2>5. Piece(request, piece) \in Seq(Token)
    BY <2>2, <2>3, <2>4, PieceIs
  <2> QED BY <1>3, <2>5, BytesIn, LimitsAre
<1>5. \/ pc' = "answered" /\ reply' = Refusal(<<"command too large">>) /\ bytes > kMaxCommandBytes
      \/ pc' = "reading" /\ reply' = reply /\ bytes <= kMaxCommandBytes
  <2>1. TooLarge(Text(piece)) <=> bytes > kMaxCommandBytes
    BY <1>3, TextIs DEF TooLarge
  <2>2. CASE bytes > kMaxCommandBytes
    BY <2>1, <2>2 DEF Read, Answer
  <2>3. CASE ~ (bytes > kMaxCommandBytes)
    <3>1. bytes <= kMaxCommandBytes
      BY <1>4, <2>3
    <3> QED BY <1>1, <2>1, <2>3, <3>1 DEF Read
  <2> QED BY <2>2, <2>3
<1>6. Admitted /\ command = Invalid
  BY <1>1 DEF RequestInv, Reading, Answered
<1>7. Launched'
  BY <1>1, <1>2 DEF RequestInv, Launched
<1>8. Asking'
  <2>1. (FromSettings' <=> FromSettings) /\ (FromWord' <=> FromWord)
    BY <1>2 DEF FromSettings, FromWord
  <2>2. pc' \notin {"down", "idle"}
    BY <1>5
  <2>3. Asking
    BY DEF RequestInv
  <2> QED BY <1>2, <2>1, <2>2, <2>3 DEF Asking
<1>9. Reading'
  <2>1. Admitted'
    BY <1>2, <1>6 DEF Admitted
  <2>2. pc' \in {"reading", "read"} => bytes <= kMaxCommandBytes
    BY <1>5
  <2>3. pc' # "read"
    BY <1>5
  <2> QED BY <1>1, <1>2, <1>3, <2>1, <2>2, <2>3 DEF Reading
<1>10. Answered'
  BY <1>1, <1>2, <1>3, <1>5, <1>6 DEF Answered, ToldTooLarge
<1>11. pc' \in {"reading", "answered"}
  BY <1>5
<1> QED BY <1>2, <1>7, <1>8, <1>9, <1>10, <1>11 DEF RequestInv

(* Each step of the read loop reads such a piece.                          *)
LEMMA ReadsKeep == RequestInv /\ (ReadRequest \/ ReadFlood) => RequestInv'
<1> SUFFICES ASSUME RequestInv, ReadRequest \/ ReadFlood PROVE RequestInv'
  OBVIOUS
<1>1. PICK k, torn, more, n : k = got.tokens /\ torn = got.torn /\ more = got.more /\ n = Len(request)
  OBVIOUS
<1>2. n \in Nat /\ MostReads \in Nat
  BY <1>1, LenProperties, LimitsAre DEF RequestInv, Asking
<1>3. /\ got \in [tokens : 0..n, torn : BOOLEAN, more : 0..MostReads]
      /\ k \in 0..n /\ torn \in BOOLEAN /\ more \in 0..MostReads
      /\ got = [tokens |-> k, torn |-> torn, more |-> more]
  BY <1>1 DEF RequestInv, Reading
<1>4. (more # 0 => flood) /\ (torn => k < n /\ request[k + 1] \notin Characters)
  BY <1>1 DEF RequestInv, Reading
<1>5. ASSUME k < n, Read([got EXCEPT !.tokens = @ + 1, !.torn = FALSE])
      PROVE  RequestInv'
  <2>1. PICK piece : piece = [got EXCEPT !.tokens = @ + 1, !.torn = FALSE]
    OBVIOUS
  <2>2. k + 1 \in 0..n
    BY <1>2, <1>3, <1>5
  <2>3. piece.tokens = k + 1 /\ piece.torn = FALSE /\ piece.more = more
        /\ piece \in [tokens : 0..n, torn : BOOLEAN, more : 0..MostReads]
    BY <1>3, <2>1, <2>2
  <2> QED BY <1>1, <1>4, <1>5, <2>1, <2>3, ReadKeeps
<1>6. ASSUME k < n, request[k + 1] \notin Characters, Read([got EXCEPT !.torn = TRUE])
      PROVE  RequestInv'
  <2>1. PICK piece : piece = [got EXCEPT !.torn = TRUE]
    OBVIOUS
  <2>2. piece.tokens = k /\ piece.torn = TRUE /\ piece.more = more
        /\ piece \in [tokens : 0..n, torn : BOOLEAN, more : 0..MostReads]
    BY <1>3, <2>1
  <2> QED BY <1>1, <1>4, <1>6, <2>1, <2>2, ReadKeeps
<1>7. ASSUME flood, k = n, Read([got EXCEPT !.more = Min({@ + 1, MostReads})])
      PROVE  RequestInv'
  <2>1. PICK m : m = Min({more + 1, MostReads})
    OBVIOUS
  <2>2. PICK piece : piece = [got EXCEPT !.more = Min({@ + 1, MostReads})]
    OBVIOUS
  <2>3. m \in 0..MostReads
    <3>1. \E x \in {more + 1, MostReads} : \A y \in {more + 1, MostReads} : x <= y
      BY <1>2, <1>3
    <3>2. m \in {more + 1, MostReads} /\ m <= MostReads
      BY <2>1, <3>1 DEF Min
    <3> QED BY <1>2, <1>3, <3>2
  <2>4. ~ torn
    BY <1>2, <1>3, <1>4, <1>7
  <2>5. piece.tokens = k /\ piece.torn = torn /\ piece.more = m
        /\ piece \in [tokens : 0..n, torn : BOOLEAN, more : 0..MostReads]
    BY <1>3, <2>1, <2>2, <2>3
  <2> QED BY <1>1, <1>4, <1>7, <2>2, <2>4, <2>5, ReadKeeps
<1>8. CASE ReadRequest
  BY <1>1, <1>5, <1>6, <1>8 DEF ReadRequest
<1>9. CASE ReadFlood
  BY <1>1, <1>7, <1>9 DEF ReadFlood
<1> QED BY <1>8, <1>9

(* The end of the reading changes nothing but where the loop is.           *)
LEMMA EndKeeps == RequestInv /\ EndRead => RequestInv'
<1> SUFFICES ASSUME RequestInv, EndRead PROVE RequestInv'
  OBVIOUS
<1>1. /\ pc = "reading" /\ ~ flood /\ pc' = "read"
      /\ UNCHANGED <<appUid, daemon, proxy, client, wish, request, flood, got, command, reply>>
  BY DEF EndRead, programs
<1>2. Launched'
  BY <1>1 DEF RequestInv, Launched
<1>3. Asking'
  BY <1>1 DEF RequestInv, Asking, AppClient, FromSettings, FromWord
<1>4. Reading'
  BY <1>1 DEF RequestInv, Reading, Admitted, AppClient
<1>5. Answered'
  BY <1>1 DEF RequestInv, Answered
<1> QED BY <1>1, <1>2, <1>3, <1>4, <1>5 DEF RequestInv

(* The command is what was read, for better or worse.                      *)
LEMMA CarryKeeps == RequestInv /\ CarryOut => RequestInv'
<1> SUFFICES ASSUME RequestInv, CarryOut PROVE RequestInv'
  OBVIOUS
<1>1. /\ pc = "read" /\ pc' = "answered" /\ command' = ParseCommand(Piece(request, got))
      /\ \E error \in Errors : reply' \in {Refusal(error), StatusJson(error)}
      /\ UNCHANGED <<programs, client, wish, request, flood, got>>
  BY TextIs DEF CarryOut, Answer
<1>2. /\ UNCHANGED <<appUid, daemon, proxy, client, wish, request, flood, got>>
      /\ AppClient' = AppClient
  BY <1>1 DEF programs, AppClient
<1>3. Launched'
  BY <1>1, <1>2 DEF RequestInv, Launched
<1>4. Asking'
  BY <1>1, <1>2 DEF RequestInv, Asking, FromSettings, FromWord
<1>5. Reading'
  BY <1>1, <1>2 DEF RequestInv, Reading
<1>6. Admitted' /\ ~ flood'
  BY <1>1, <1>2 DEF RequestInv, Reading, Admitted
<1>7. Answered'
  BY <1>1, <1>2, <1>6 DEF Answered, ToldOutcome
<1> QED BY <1>1, <1>2, <1>3, <1>4, <1>5, <1>7 DEF RequestInv

(* The daemon waits for the next client with nothing left of this one.     *)
LEMMA CloseKeeps == RequestInv /\ Close => RequestInv'
<1> SUFFICES ASSUME RequestInv, Close PROVE RequestInv'
  OBVIOUS
<1>1. /\ pc = "answered" /\ pc' = "idle" /\ client' = Nobody /\ wish' = NoWish /\ request' = <<>>
      /\ flood' = FALSE /\ got' = NothingRead /\ command' = Invalid
      /\ UNCHANGED <<appUid, daemon, proxy>>
  BY DEF Close, programs, Nobody
<1>2. client' # AppClient' /\ <<>> \in Seq(Token)
  <2>1. Nobody.public = FALSE /\ AppClient'.public = TRUE
    BY DEF Nobody, AppClient
  <2> QED BY <1>1, <2>1, NoTokens
<1>3. Launched'
  BY <1>1 DEF RequestInv, Launched
<1>4. Asking'
  BY <1>1, <1>2 DEF Asking
<1>5. Reading'
  BY <1>1, <1>2, NothingIsRead DEF Reading
<1>6. Answered'
  BY <1>1 DEF Answered
<1> QED BY <1>1, <1>3, <1>4, <1>5, <1>6 DEF RequestInv

(* So every step keeps the invariant.                                      *)
LEMMA NextKeeps == RequestInv /\ [Next]_vars => RequestInv'
<1> SUFFICES ASSUME RequestInv, [Next]_vars PROVE RequestInv'
  OBVIOUS
<1>1. CASE LaunchBoth
  BY <1>1, LaunchKeeps
<1>2. CASE Reinstall
  BY <1>2, ReinstallKeeps
<1>3. CASE \E settings \in Settings : AppStarts(settings)
  BY <1>3, StartsKeep
<1>4. CASE \E word \in {"STOP", "STATUS"} : AppAsks(word)
  BY <1>4, AsksKeep
<1>5. CASE \E who \in [uid : {0, SystemUid} \cup Strangers, public : BOOLEAN] :
             \E text \in Scripts : OtherConnects(who, text)
  BY <1>5, OthersKeep
<1>6. CASE ReadRequest \/ ReadFlood
  BY <1>6, ReadsKeep
<1>7. CASE EndRead
  BY <1>7, EndKeeps
<1>8. CASE CarryOut
  BY <1>8, CarryKeeps
<1>9. CASE Close
  BY <1>9, CloseKeeps
<1>10. CASE UNCHANGED vars
  <2>1. UNCHANGED <<appUid, daemon, proxy, pc, client, wish, request, flood, got, command, reply>>
    BY <1>10 DEF vars, programs
  <2>2. Launched'
    BY <2>1 DEF RequestInv, Launched
  <2>3. Asking'
    BY <2>1 DEF RequestInv, Asking, AppClient, FromSettings, FromWord
  <2>4. Reading'
    BY <2>1 DEF RequestInv, Reading, Admitted, AppClient
  <2>5. Answered'
    BY <2>1 DEF RequestInv, Answered, Admitted, AppClient, ToldTooLarge, ToldOutcome
  <2> QED BY <2>1, <2>2, <2>3, <2>4, <2>5 DEF RequestInv
<1> QED BY <1>1, <1>2, <1>3, <1>4, <1>5, <1>6, <1>7, <1>8, <1>9, <1>10 DEF Next

(* The invariant holds of every state.                                     *)
THEOREM Kept == Spec => []RequestInv
<1>1. Init => RequestInv
  BY InitHolds
<1>2. RequestInv /\ [Next]_vars => RequestInv'
  BY NextKeeps
<1> QED BY <1>1, <1>2, PTL DEF Spec

-------------------------------------------------------------------------------
(* What the invariant says *)

(* The variables have their types, and no more is read than the limit, for *)
(* all uids, settings, scripts and errors.                                 *)
THEOREM TypeCorrect == Spec => []TypeOK
<1>1. RequestInv => TypeOK
  <2> SUFFICES ASSUME RequestInv PROVE TypeOK
    OBVIOUS
  <2>1. wish \in Settings \cup {NoWish}
    BY DEF RequestInv, Asking, FromSettings, FromWord
  <2>2. got.tokens \in 0..Len(request) /\ got.torn \in BOOLEAN /\ got.more \in 0..MostReads
    BY DEF RequestInv, Reading
  <2>3. pc \in {"reading", "read"} => Bytes(Text(got)) <= kMaxCommandBytes
    BY TextIs DEF RequestInv, Reading
  <2>4. command.type \in {"kInvalid", "kStart", "kStop", "kStatus"}
    <3>1. CASE command = Invalid
      BY <3>1 DEF Invalid
    <3>2. CASE command = ParseCommand(Piece(request, got))
      BY <3>2, CommandIs
    <3> QED BY <3>1, <3>2 DEF RequestInv, Answered
  <2> QED BY <2>1, <2>2, <2>3, <2>4 DEF RequestInv, Asking, TypeOK
<1> QED BY <1>1, Kept, PTL

(* A start that is carried out makes FFmpeg read that URL by an allowed    *)
(* protocol and write to the pipe, and nothing else, for every text that   *)
(* ParseCommand takes for a start (stream_source.cpp:13-133).              *)
THEOREM AcceptedStartsPlay == Spec => []AcceptedIsPlayed
<1>1. RequestInv => AcceptedIsPlayed
  <2> SUFFICES ASSUME RequestInv, command.type = "kStart"
               PROVE  \/ command.config.url \in LocalUrls
                      \/ PlaysOnly(command.config.url,
                           BuildFfmpegArguments(daemon.ffmpeg, command.config.url, command.config.fps))
    BY DEF AcceptedIsPlayed
  <2>1. PICK text : text = Piece(request, got)
    OBVIOUS
  <2>2. command = ParseCommand(text)
    <3>1. Invalid.type # "kStart"
      BY DEF Invalid
    <3> QED BY <2>1, <3>1 DEF RequestInv, Answered
  <2>3. text \in Seq(Token)
    <3>1. PICK k, torn, more : k = got.tokens /\ torn = got.torn /\ more = got.more
      OBVIOUS
    <3>2. /\ k \in 0..Len(request) /\ torn \in BOOLEAN /\ more \in 0..MostReads
          /\ got = [tokens |-> k, torn |-> torn, more |-> more]
      BY <3>1 DEF RequestInv, Reading
    <3>3. more \in Nat /\ request \in Seq(Token)
      BY <3>2, LimitsAre DEF RequestInv, Asking
    <3> QED BY <2>1, <3>2, <3>3, PieceIs
  <2>4. PICK path : path = daemon.ffmpeg
    OBVIOUS
  <2> QED BY <2>2, <2>3, <2>4, AcceptedPlays
<1> QED BY <1>1, Kept, PTL

(* The request of a user's settings, as it is laid out and parsed.         *)
Settled(url, rotation, mirror, n) ==
  /\ Chosen(wish, url, rotation, mirror) /\ url \in Seq(Token) /\ n = Len(url)
  /\ rotation \in Rotations /\ mirror \in BOOLEAN
  /\ Validates(url) /\ (\A i \in 1..n : url[i] \notin ControlTokens) /\ Chars(url) <= 4 * KiB
  /\ \A i \in 1..n : url[i] # "flood"
  /\ Laid(request, n, url, Decimal(rotation), Decimal(IF mirror THEN 1 ELSE 0))
  /\ Len(request) = n + 32

(* The settings the app lets through make such a request.                  *)
LEMMA SettledIs ==
  ASSUME FromSettings
  PROVE  \E url, rotation, mirror, n : Settled(url, rotation, mirror, n)
<1>1. PICK config : config = Normalized(wish)
  OBVIOUS
<1>2. PICK url, rotation, mirror : Chosen(wish, url, rotation, mirror)
  BY SettingsChosen DEF FromSettings
<1>3. PICK n, S : n = Len(url) /\ S = STRING \ {"torn", "flood"}
  OBVIOUS
<1>4. /\ url \in Seq(S) /\ url \in Seq(Token) /\ rotation \in Rotations /\ mirror \in BOOLEAN
      /\ config.url = url /\ config.rotation = rotation /\ config.mirror = mirror
  BY <1>1, <1>2, <1>3, Zenon DEF Chosen
<1>5. Validates(url) /\ request = ToStartCommand(config)
  BY <1>1, <1>4 DEF FromSettings
<1>6. Laid(request, n, url, Decimal(rotation), Decimal(IF mirror THEN 1 ELSE 0))
      /\ Len(request) = n + 32
  BY <1>3, <1>4, <1>5, RequestLaid
<1>7. (\A i \in 1..n : url[i] \notin ControlTokens) /\ Chars(url) <= 4 * KiB
  BY <1>3, <1>4, <1>5, ValidUrl
<1>8. \A i \in 1..n : url[i] # "flood"
  <2>1. \A i \in 1..n : url[i] \in S
    BY <1>3, <1>4, ElementOfSeq
  <2> QED BY <1>3, <2>1
<1> QED BY <1>2, <1>3, <1>4, <1>5, <1>6, <1>7, <1>8, Zenon DEF Settled

(* What was read of a request without a flood.                             *)
LEMMA CutRead ==
  ASSUME RequestInv, ~ flood, NEW k, k = got.tokens, NEW torn, torn = got.torn,
         NEW text, text = Piece(request, got)
  PROVE  /\ request \in Seq(Token) /\ k \in 0..Len(request) /\ torn \in BOOLEAN
         /\ CutOf(text, request, k, torn)
         /\ torn => k < Len(request) /\ request[k + 1] \notin Characters
         /\ k = Len(request) => text = request
         /\ text \in Seq(Token)
<1>1. PICK more : more = got.more
  OBVIOUS
<1>2. /\ k \in 0..Len(request) /\ torn \in BOOLEAN /\ more \in 0..MostReads
      /\ got = [tokens |-> k, torn |-> torn, more |-> more]
      /\ torn => k < Len(request) /\ request[k + 1] \notin Characters
  BY <1>1 DEF RequestInv, Reading
<1>3. more = 0 /\ 0 \in Nat
  BY <1>1 DEF RequestInv, Reading
<1>4. request \in Seq(Token)
  BY DEF RequestInv, Asking
<1>5. Len(request) \in Nat /\ (k = Len(request) => ~ torn)
  BY <1>2, <1>4, LenProperties
<1>6. /\ text \in Seq(Token) /\ CutOf(text, request, k, torn)
      /\ k = Len(request) /\ ~ torn => text = request
  BY <1>2, <1>3, <1>4, PieceIs
<1> QED BY <1>2, <1>4, <1>5, <1>6

(* A text that is a command is not too large.                              *)
LEMMA CommandFits ==
  ASSUME NEW text \in Seq(Token), ParseCommand(text) # Invalid
  PROVE  Bytes(text) <= kMaxCommandBytes
<1>1. ~ (Bytes(text) > kMaxCommandBytes)
  BY DEF ParseCommand
<1> QED BY <1>1, BytesIn, LimitsAre

(* A command that comes of settings is the start they ask for.             *)
LEMMA SettingsAsked ==
  ASSUME RequestInv, FromSettings, ~ flood, NEW text, text = Piece(request, got),
         ParseCommand(text) # Invalid
  PROVE  ParseCommand(text) = [type |-> "kStart", config |-> Meant(wish)]
<1>1. PICK url, rotation, mirror, n : Settled(url, rotation, mirror, n)
  BY SettledIs
<1>2. PICK x, y : x = Decimal(rotation) /\ y = Decimal(IF mirror THEN 1 ELSE 0)
  OBVIOUS
<1>3. PICK values : values = Asked(url, Decimal(rotation), Decimal(IF mirror THEN 1 ELSE 0))
  OBVIOUS
<1>4. /\ Chosen(wish, url, rotation, mirror) /\ url \in Seq(Token) /\ n = Len(url)
      /\ rotation \in Rotations /\ mirror \in BOOLEAN
      /\ (\A i \in 1..n : url[i] \notin ControlTokens)
      /\ Laid(request, n, url, x, y) /\ Len(request) = n + 32
  BY <1>1, <1>2, Zenon DEF Settled
<1>5. \A i \in 1..n : url[i] # NL /\ url[i] \notin {NL, "\r"}
  BY <1>4 DEF ControlTokens, NL
<1>6. x \in RotationTexts /\ y \in MirrorTexts
  BY <1>2, <1>3, <1>4, ConfiguredIs
<1>7. PICK k, torn : k = got.tokens /\ torn = got.torn
  OBVIOUS
<1>8. /\ text \in Seq(Token) /\ k \in 0..Len(request) /\ torn \in BOOLEAN
      /\ CutOf(text, request, k, torn)
      /\ torn => k < Len(request) /\ request[k + 1] \notin Characters
  BY <1>7, CutRead
<1>9. Laid(text, n, url, x, y)
  BY <1>4, <1>5, <1>6, <1>8, WholeOrNothing
<1>10. Bytes(text) <= kMaxCommandBytes
  BY <1>8, CommandFits
<1>11. Laid(text, n, url, Decimal(rotation), Decimal(IF mirror THEN 1 ELSE 0))
  BY <1>2, <1>9
<1>12. ParseCommand(text) = Carried(Wanted(url, rotation, mirror))
  BY <1>4, <1>5, <1>10, <1>11, LaidParsed
<1>13. Wanted(url, rotation, mirror) = Meant(wish)
  BY <1>4, Zenon DEF Chosen
<1> QED BY <1>12, <1>13 DEF Carried

(* A command that comes of a word is the request's.                        *)
LEMMA WordAsked ==
  ASSUME RequestInv, FromWord, ~ flood, NEW text, text = Piece(request, got),
         ParseCommand(text) # Invalid
  PROVE  ParseCommand(text) = ParseCommand(request)
<1>1. PICK word \in {"STOP", "STATUS"} : request = <<word, NL, ".", NL>>
  BY DEF FromWord
<1>2. WordRequest(request, word)
  BY <1>1, WordRequestIs
<1>3. PICK k, torn : k = got.tokens /\ torn = got.torn
  OBVIOUS
<1>4. /\ k \in 0..Len(request) /\ torn \in BOOLEAN /\ CutOf(text, request, k, torn)
      /\ torn => k < Len(request) /\ request[k + 1] \notin Characters
  BY <1>3, CutRead
<1> QED BY <1>2, <1>4, WordOrNothing

(* Settings are not taken for none.                                        *)
LEMMA WishTells ==
  ASSUME RequestInv
  PROVE  /\ wish # NoWish => client = AppClient /\ FromSettings /\ ~ flood
         /\ wish = NoWish /\ client = AppClient => FromWord /\ ~ flood
<1>1. client = AppClient => ~ flood /\ (FromSettings \/ FromWord)
  BY DEF RequestInv, Asking
<1>2. wish # NoWish => client = AppClient
  BY DEF RequestInv, Asking
<1>3. FromWord => wish = NoWish
  BY DEF FromWord
<1>4. FromSettings => wish # NoWish
  BY NoWishIsNone DEF FromSettings
<1> QED BY <1>1, <1>2, <1>3, <1>4

(* A command that comes of any text is the text's, unless it is too large  *)
(* or the reading ended in a line that had not come to its end.            *)
LEMMA TextAsked ==
  ASSUME RequestInv, ~ flood, NEW text, text = Piece(request, got),
         ParseCommand(text) # Invalid, ~ TooLarge(request), ~ CutAfterWord
  PROVE  ParseCommand(text) = ParseCommand(request)
<1>1. PICK k, torn : k = got.tokens /\ torn = got.torn
  OBVIOUS
<1>2. /\ request \in Seq(Token) /\ k \in 0..Len(request) /\ torn \in BOOLEAN
      /\ CutOf(text, request, k, torn)
      /\ torn => k < Len(request) /\ request[k + 1] \notin Characters
  BY <1>1, CutRead
<1>3. Text(got) = text
  BY TextIs
<1>4. NotAfterWord(text, request, k)
  <2> SUFFICES ASSUME k < Len(request), NEW s \in LineStarts(text), LineAt(text, s) \in DecidedBy
               PROVE  \E i \in s..(k + 1) : request[i] = NL
    BY DEF NotAfterWord
  <2>1. NL \in {request[i] : i \in s..(k + 1)}
    BY <1>1, <1>3, Zenon DEF CutAfterWord, DecidedBy
  <2> QED BY <2>1
<1>5. ~ (Bytes(request) > kMaxCommandBytes)
  BY DEF TooLarge
<1> QED BY <1>2, <1>4, <1>5, ReadIsWhole

(* However a request is cut by a timeout, and whatever the settings are,   *)
(* the daemon does what the app asked for in full, or nothing; and of any  *)
(* text of root and system what the whole text says, unless that is too    *)
(* large or what was read ends in a line STOP, STATUS or "." that would    *)
(* have gone on (main.cpp:262-293, config.cpp:109-240).                    *)
THEOREM InFullOrNotAtAll == Spec => []NothingButAsked
<1>1. RequestInv => NothingButAsked
  <2> SUFFICES ASSUME RequestInv, command.type # "kInvalid" PROVE
                 /\ client = AppClient \/ client.uid \in {0, SystemUid}
                 /\ wish # NoWish => command = [type |-> "kStart", config |-> Meant(wish)]
                 /\ client = AppClient /\ wish = NoWish => command = ParseCommand(request)
                 /\ command = ParseCommand(request) \/ TooLarge(request) \/ CutAfterWord
    BY DEF NothingButAsked
  <2>1. PICK text : text = Piece(request, got)
    OBVIOUS
  <2>2. command # Invalid
    BY DEF Invalid
  <2>3. Admitted /\ ~ flood /\ command = ParseCommand(text)
    BY <2>1, <2>2 DEF RequestInv, Answered
  <2>4. wish # NoWish => command = [type |-> "kStart", config |-> Meant(wish)]
    BY <2>1, <2>2, <2>3, WishTells, SettingsAsked
  <2>5. client = AppClient /\ wish = NoWish => command = ParseCommand(request)
    BY <2>1, <2>2, <2>3, WishTells, WordAsked
  <2>6. command = ParseCommand(request) \/ TooLarge(request) \/ CutAfterWord
    BY <2>1, <2>2, <2>3, TextAsked
  <2> QED BY <2>3, <2>4, <2>5, <2>6 DEF Admitted
<1> QED BY <1>1, Kept, PTL

(* Every error of the engine is a text, and not the denial's.              *)
LEMMA ErrorsAre ==
  ASSUME NEW error \in Errors
  PROVE  error \in Seq(Token) /\ error # <<"permission denied">>
<1>1. PICK S : S = STRING
  OBVIOUS
<1>2. error \in Seq(S) /\ S \subseteq Token /\ error # <<"permission denied">>
  BY <1>1, ErrorsAssumption DEF Token
<1> QED BY <1>2, SeqMonotonic

(* No other answer is the denial, or none.                                 *)
LEMMA DenialTells ==
  ASSUME NEW error \in Seq(Token), error # <<"permission denied">>
  PROVE  /\ Refusal(error) \notin {<<>>, Denial} /\ TakenAsRefusal(Refusal(error))
         /\ StatusJson(error) \notin {<<>>, Denial} /\ ~ TakenAsRefusal(StatusJson(error))
<1>1. PICK token, denied : token = "permission denied" /\ denied = <<token>>
  OBVIOUS
<1>2. token \in Token
  BY <1>1 DEF Token
<1>3. OneEscaped(token) = <<token>>
  <2>1. token \notin {"\"", "\\"} /\ token \notin ControlTokens
    BY <1>1 DEF ControlTokens
  <2> QED BY <2>1 DEF OneEscaped
<1>4. denied \in Seq(Token) /\ Denial = Refusal(denied) /\ denied = <<"permission denied">>
  <2>1. denied \in Seq(Token)
    BY <1>1, <1>2, OneToken
  <2> QED BY <1>1, <2>1 DEF Denial
<1>5. Refusal(error) # Denial
  BY <1>1, <1>2, <1>3, <1>4, RefusalTells
<1>6. /\ TakenAsRefusal(Refusal(error)) /\ Refusal(error) # <<>>
      /\ ~ TakenAsRefusal(StatusJson(error)) /\ StatusJson(error) # <<>>
      /\ TakenAsRefusal(Denial)
  BY <1>4, RefusalIsTaken, StatusIsNotTaken
<1> QED BY <1>5, <1>6

(* So the app is always answered, and never denied.                        *)
LEMMA AnswersAre ==
  ASSUME RequestInv, pc = "answered", client = AppClient
  PROVE  reply \notin {<<>>, Denial}
<1>1. CASE ToldTooLarge
  <2>1. PICK error : error = <<"command too large">>
    OBVIOUS
  <2>2. error # <<"permission denied">>
    BY <2>1
  <2>3. error \in Seq(Token)
    <3>1. "command too large" \in Token
      BY DEF Token
    <3> QED BY <2>1, <3>1, OneToken
  <2>4. reply = Refusal(error)
    BY <1>1, <2>1 DEF ToldTooLarge
  <2> QED BY <2>2, <2>3, <2>4, DenialTells
<1>2. CASE ToldOutcome
  <2>1. PICK error \in Errors : reply \in {Refusal(error), StatusJson(error)}
    BY <1>2 DEF ToldOutcome
  <2> QED BY <2>1, ErrorsAre, DenialTells
<1> QED BY <1>1, <1>2 DEF RequestInv, Answered

(* An authority is a text.                                                 *)
LEMMA AuthorityTyped ==
  ASSUME NEW url \in Seq(Token)
  PROVE  Authority(url) \in Seq(Token)
<1>1. PICK n, e, rest, b : /\ n = Len(url) /\ e = SchemeEnd(url) /\ rest = SubSeq(url, e + 2, n)
                           /\ b = Before(rest, {"/", "?", "#"})
  OBVIOUS
<1>2. n \in Nat /\ e \in 0..n
  BY <1>1, LenProperties, BeforeCounts DEF SchemeEnd
<1>3. rest \in Seq(Token)
  <2>1. CASE e + 2 <= n + 1
    <3>1. e + 2 \in 1 .. n + 1 /\ n \in 0..n
      BY <1>2, <2>1
    <3> QED BY <1>1, <3>1, PartOf
  <2>2. CASE ~ (e + 2 <= n + 1)
    <3>1. e + 2 > n /\ e + 2 \in Int /\ n \in Int
      BY <1>2, <2>2
    <3>2. rest = <<>>
      BY <1>1, <3>1, SubSeqEmpty
    <3> QED BY <3>2, NoTokens
  <2> QED BY <2>1, <2>2
<1>4. Len(rest) \in Nat /\ b \in 0..Len(rest)
  BY <1>1, <1>3, LenProperties, BeforeCounts
<1>5. 1 \in 1 .. Len(rest) + 1
  BY <1>4
<1>6. SubSeq(rest, 1, b) \in Seq(Token)
  BY <1>3, <1>4, <1>5, PartOf
<1>7. Authority(url) = SubSeq(rest, 1, b)
  BY <1>1, Zenon DEF Authority
<1> QED BY <1>6, <1>7

(* A start that is read in full is carried out, but for a URL or an        *)
(* authority of too many bytes, and the answer is taken for what it is.    *)
LEMMA StartsAreObeyed ==
  ASSUME RequestInv, pc = "answered", wish # NoWish, got.tokens = Len(request)
  PROVE  /\ \/ command.type = "kStart"
            \/ Bytes(Trim(wish.url)) > 4 * KiB
            \/ Bytes(Authority(Trim(wish.url))) > KiB
         /\ \E error \in Errors :
              \/ reply = Refusal(error) /\ TakenAsRefusal(reply)
              \/ reply = StatusJson(error) /\ ~ TakenAsRefusal(reply)
<1>1. client = AppClient /\ FromSettings /\ ~ flood
  BY WishTells
<1>2. PICK url, rotation, mirror, n : Settled(url, rotation, mirror, n)
  BY <1>1, SettledIs
<1>3. PICK x, y : x = Decimal(rotation) /\ y = Decimal(IF mirror THEN 1 ELSE 0)
  OBVIOUS
<1>4. PICK values : values = Asked(url, Decimal(rotation), Decimal(IF mirror THEN 1 ELSE 0))
  OBVIOUS
<1>5. /\ Chosen(wish, url, rotation, mirror) /\ url \in Seq(Token) /\ n = Len(url)
      /\ rotation \in Rotations /\ mirror \in BOOLEAN /\ Validates(url)
      /\ (\A i \in 1..n : url[i] \notin ControlTokens) /\ Chars(url) <= 4 * KiB
      /\ (\A i \in 1..n : url[i] # "flood")
      /\ Laid(request, n, url, x, y)
      /\ Laid(request, n, url, Decimal(rotation), Decimal(IF mirror THEN 1 ELSE 0))
  BY <1>2, <1>3, Zenon DEF Settled
<1>6. \A i \in 1..n : url[i] \notin {NL, "\r"}
  BY <1>5 DEF ControlTokens, NL
<1>7. x \in RotationTexts /\ y \in MirrorTexts
  BY <1>3, <1>4, <1>5, ConfiguredIs
<1>8. Bytes(request) <= kMaxCommandBytes
  BY <1>5, <1>7, RequestFits
<1>9. Piece(request, got) = request /\ request \in Seq(Token)
  <2>1. PICK k, torn, text : k = got.tokens /\ torn = got.torn /\ text = Piece(request, got)
    OBVIOUS
  <2> QED BY <1>1, <2>1, CutRead
<1>10. ToldOutcome
  <2>1. ~ (Bytes(request) > kMaxCommandBytes)
    BY <1>8, <1>9, BytesIn, LimitsAre
  <2> QED BY <1>1, <1>9, <2>1 DEF RequestInv, Answered, ToldTooLarge
<1>11. command = Carried(Wanted(url, rotation, mirror))
  <2>1. ParseCommand(request) = Carried(Wanted(url, rotation, mirror))
    BY <1>5, <1>6, <1>8, LaidParsed
  <2> QED BY <1>9, <1>10, <2>1 DEF ToldOutcome
<1>12. url = Trim(wish.url)
  BY <1>5, Zenon DEF Chosen
<1>13. PICK a, b, c : a = Authority(url) /\ b = Bytes(a) /\ c = Bytes(url)
  OBVIOUS
<1>14. command.type = "kStart" \/ c > 4 * KiB \/ b > KiB
  <2>1. CASE c <= 4 * KiB /\ b <= KiB
    <3>1. url \in LocalUrls \/ ParseStreamSourceUrl(url)
      BY <1>5, <1>13, <2>1, UrlTaken
    <3>2. Validate(Wanted(url, rotation, mirror))
      BY <1>5, <3>1, WantedValid
    <3>3. command = [type |-> "kStart", config |-> Wanted(url, rotation, mirror)]
      BY <1>11, <3>2 DEF Carried
    <3> QED BY <3>3
  <2>2. b \in Nat /\ c \in Nat
    BY <1>5, <1>13, AuthorityTyped, BytesIn
  <2>3. ~ (c > 4 * KiB) => c <= 4 * KiB
    BY <2>2 DEF KiB
  <2>4. ~ (b > KiB) => b <= KiB
    BY <2>2 DEF KiB
  <2> QED BY <2>1, <2>3, <2>4
<1>15. \E error \in Errors :
         \/ reply = Refusal(error) /\ TakenAsRefusal(reply)
         \/ reply = StatusJson(error) /\ ~ TakenAsRefusal(reply)
  <2>1. PICK error \in Errors : reply \in {Refusal(error), StatusJson(error)}
    BY <1>10 DEF ToldOutcome
  <2> QED BY <2>1, ErrorsAre, DenialTells
<1> QED BY <1>12, <1>13, <1>14, <1>15

(* Once both are launched, the app is admitted and its frames have a way,  *)
(* what it lets the user start is understood whole, and it takes the       *)
(* answer for what it is, whatever uid it has and whatever text the error  *)
(* quotes (service.sh:285-305, main.cpp:115-180, socket_proxy.cpp:57-87,   *)
(* VCamConfig.java:78-107, DaemonClient.java:49-52, config.cpp:52-251).    *)
THEOREM TheAppIsObeyed == Spec => []AppIsObeyed
<1>1. RequestInv => AppIsObeyed
  <2> SUFFICES ASSUME RequestInv PROVE AppIsObeyed
    OBVIOUS
  <2>1. pc # "down" => FramesAreReached(daemon, proxy)
    BY DEF RequestInv, Launched
  <2> QED BY <2>1, AnswersAre, StartsAreObeyed DEF AppIsObeyed
<1> QED BY <1>1, Kept, PTL

===============================================================================
