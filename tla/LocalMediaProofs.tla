--------------------------- MODULE LocalMediaProofs ---------------------------
(***************************************************************************)
(* Theorems about LocalMedia, for any number of commands and any backlog:  *)
(* frames of different playbacks never mix, and a stopped playback sends   *)
(* one frame at most; no more playbacks are started than asked for; and    *)
(* the last command holds in the end.                                      *)
(*                                                                         *)
(* The first invariant says which connections can still yield a frame.     *)
(* All of them lie behind those of earlier playbacks; a connection that a  *)
(* stopped playback makes behind its successor's stays empty, because its  *)
(* listener has decided nothing yet when the thread connects.              *)
(***************************************************************************)
EXTENDS LocalMedia, FiniteSetTheorems, TLAPS

Deciding(w) == lpc[w] \in {"checked", "writing"}

(* Connection i has a frame or may still get one. *)
Bears(i) ==
  \/ queue[i].n > 0
  \/ /\ queue[i].open
     /\ ~stop[queue[i].by] \/ Deciding(queue[i].by)

Types ==
  /\ queue \in Seq(Connection) /\ plays \in Nat /\ worker \in Nat /\ taken \in Nat
  /\ stop \in [Playbacks -> BOOLEAN] /\ late \in [Playbacks -> Nat]
  /\ wpc \in [Playbacks -> {"none", "top", "connect", "decode", "close", "done"}]
  /\ lpc \in [Playbacks -> {"idle", "checked", "writing", "failed"}]

(* The service knows the playback it started last, or none, and all others *)
(* are stopped.                                                            *)
OneKnown ==
  /\ worker \in {NoPlayback, plays} /\ (svc # "idle" => worker = NoPlayback)
  /\ \A w \in Playbacks :
       IF w > plays THEN wpc[w] = "none" /\ ~stop[w] /\ late[w] = 0
                    ELSE w # worker => stop[w]

ListenersBound ==
  \A w \in Playbacks :
    /\ lpc[w] # "idle" => wpc[w] \in {"decode", "close"}
    /\ late[w] <= 1 /\ (late[w] > 0 => stop[w] /\ ~Deciding(w))

QueueOrdered ==
  /\ taken <= plays
  /\ \A i \in DOMAIN queue :
       queue[i].by <= plays /\ (Bears(i) => taken <= queue[i].by)
  /\ \A i, j \in DOMAIN queue : i < j /\ Bears(j) => queue[i].by <= queue[j].by

PlaybackInv == Types /\ OneKnown /\ ListenersBound /\ QueueOrdered

LEMMA QueueFacts ==
  ASSUME Types
  PROVE  /\ Len(queue) \in Nat /\ DOMAIN queue = 1..Len(queue)
         /\ \A i \in DOMAIN queue :
              /\ queue[i] \in Connection /\ queue[i].by \in Playbacks /\ queue[i].by \in Nat
              /\ queue[i].n \in 0..1 /\ queue[i].open \in BOOLEAN
<1>1. /\ Len(queue) \in Nat /\ DOMAIN queue = 1..Len(queue)
      /\ \A i \in DOMAIN queue : queue[i] \in Connection
  BY DEF Types
<1>2. \A c \in Connection : c.by \in Playbacks /\ c.n \in 0..1 /\ c.open \in BOOLEAN
  BY DEF Connection
<1>3. \A w \in Playbacks : w \in Nat
  BY LocalMediaAssumption DEF LocalMediaAssumption, Playbacks
<1> QED
  BY <1>1, <1>2, <1>3

LEMMA ChangeAt ==
  ASSUME Types, NEW k \in DOMAIN queue, NEW c \in Connection, NEW s, s = [queue EXCEPT ![k] = c]
  PROVE  /\ s \in Seq(Connection) /\ DOMAIN s = DOMAIN queue /\ s[k] = c
         /\ \A i \in DOMAIN queue : i # k => s[i] = queue[i]
<1>1. /\ s = [i \in DOMAIN queue |-> IF i = k THEN c ELSE queue[i]]
  OBVIOUS
<1>2. queue \in Seq(Connection)
  BY DEF Types
<1>3. k \in 1..Len(queue)
  BY <1>2
<1>4. s \in Seq(Connection)
  BY <1>2, <1>3
<1> QED
  BY <1>1, <1>4

(* A step after which no more connections can yield a frame than before,   *)
(* and all stay in their places.                                           *)
LEMMA QueueKept ==
  ASSUME PlaybackInv, plays' = plays, taken' = taken, DOMAIN queue' = DOMAIN queue,
         \A i \in DOMAIN queue : queue'[i].by = queue[i].by /\ (Bears(i)' => Bears(i))
  PROVE  QueueOrdered'
  BY DEF PlaybackInv, QueueOrdered

core == <<svc, worker, stop, plays, wpc, lpc, queue, taken, late>>

LEMMA OtherStep == PlaybackInv /\ UNCHANGED core => PlaybackInv'
<1> SUFFICES ASSUME PlaybackInv, UNCHANGED core PROVE PlaybackInv'
  OBVIOUS
<1>1. Types' /\ OneKnown' /\ ListenersBound'
  BY DEF PlaybackInv, Types, OneKnown, ListenersBound, Deciding, core
<1>2. QueueOrdered'
  BY QueueKept DEF Bears, Deciding, core
<1> QED
  BY <1>1, <1>2 DEF PlaybackInv

LEMMA CommandersStep ==
  PlaybackInv /\ (CommandStep \/ HandleRequest \/ Rest \/ UNCHANGED vars) => UNCHANGED core
<1> USE DEF core, service, threads, endpoint
<1>1. CASE CommandStep
  BY <1>1 DEF CommandStep, Begin, AskFails, Ask, GiveUp, UseService, Recreate, Dismiss
<1>2. CASE HandleRequest
  BY <1>2 DEF HandleRequest
<1>3. CASE Rest \/ UNCHANGED vars
  BY <1>3 DEF Rest, vars
<1> QED
  BY <1>1, <1>2, <1>3

LEMMA ServiceKeepsInv == PlaybackInv /\ ServiceStep => PlaybackInv'
<1> SUFFICES ASSUME PlaybackInv, ServiceStep PROVE PlaybackInv'
  OBVIOUS
<1> USE DEF endpoint, threads
<1>0. Types
  BY DEF PlaybackInv
<1>1. CASE StopPlayback
  <2> USE DEF StopPlayback
  <2>0. /\ UNCHANGED <<plays, wpc, lpc, queue, taken, late>> /\ worker' = NoPlayback
        /\ stop' \in [Playbacks -> BOOLEAN]
        /\ \A w \in Playbacks : (stop[w] => stop'[w]) /\ (w = worker => stop'[w])
        /\ \A w \in Playbacks : w # worker => stop'[w] = stop[w]
    <3>1. CASE worker = NoPlayback
      BY <1>0, <1>1, <3>1, LocalMediaAssumption DEF Types, NoPlayback, Playbacks, LocalMediaAssumption
    <3>2. CASE worker # NoPlayback
      <4>1. stop' = [stop EXCEPT ![worker] = TRUE]
        BY <1>1, <3>2
      <4>2. /\ stop' \in [Playbacks -> BOOLEAN] /\ \A w \in Playbacks : w = worker => stop'[w]
            /\ \A w \in Playbacks : w # worker => stop'[w] = stop[w]
        BY <1>0, <4>1 DEF Types
      <4> QED
        BY <1>1, <4>2
    <3> QED
      BY <3>1, <3>2
  <2>1. Types'
    BY <1>0, <2>0 DEF Types, NoPlayback
  <2>2. OneKnown'
    <3> SUFFICES ASSUME NEW w \in Playbacks
                 PROVE  IF w > plays THEN wpc[w] = "none" /\ ~stop'[w] /\ late[w] = 0 ELSE stop'[w]
      BY <2>0 DEF OneKnown
    <3>1. w \in Nat \ {0}
      BY LocalMediaAssumption DEF LocalMediaAssumption, Playbacks
    <3>2. CASE w > plays
      <4>1. w # worker
        BY <1>0, <3>1, <3>2 DEF PlaybackInv, OneKnown, Types, NoPlayback
      <4> QED
        BY <2>0, <3>2, <4>1 DEF PlaybackInv, OneKnown
    <3>3. CASE ~(w > plays)
      BY <2>0, <3>3 DEF PlaybackInv, OneKnown
    <3> QED
      BY <3>2, <3>3
  <2>3. ListenersBound'
    BY <2>0 DEF PlaybackInv, ListenersBound, Deciding
  <2>4. QueueOrdered'
    BY <1>0, <2>0, QueueKept, QueueFacts DEF Bears, Deciding
  <2> QED
    BY <2>1, <2>2, <2>3, <2>4 DEF PlaybackInv
<1>2. CASE StartPlayback
  <2>0. /\ svc = "start" /\ plays' = plays + 1 /\ worker' = plays + 1 /\ svc' = "idle"
        /\ UNCHANGED <<lpc, queue, taken, late>>
        /\ stop' \in [Playbacks -> BOOLEAN] /\ wpc' \in [Playbacks -> {"none", "top", "connect", "decode", "close", "done"}]
        /\ \A w \in Playbacks : w # plays + 1 => stop'[w] = stop[w] /\ wpc'[w] = wpc[w]
        /\ \A w \in Playbacks : w = plays + 1 => ~stop'[w]
    BY <1>0, <1>2 DEF StartPlayback, FreshFlag, Types
  <2>1. Types'
    BY <1>0, <2>0 DEF Types
  <2>2. OneKnown'
    BY <1>0, <2>0, LocalMediaAssumption
       DEF PlaybackInv, Types, OneKnown, Playbacks, NoPlayback, LocalMediaAssumption
  <2>3. ListenersBound'
    <3> SUFFICES ASSUME NEW w \in Playbacks
                 PROVE  /\ lpc[w] # "idle" => wpc'[w] \in {"decode", "close"}
                        /\ late[w] <= 1 /\ (late[w] > 0 => stop'[w] /\ ~Deciding(w))
      BY <2>0 DEF ListenersBound, Deciding
    <3>1. CASE w = plays + 1
      <4>1. wpc[w] = "none" /\ late[w] = 0
        BY <1>0, <3>1 DEF PlaybackInv, OneKnown, Types
      <4> QED
        BY <4>1 DEF PlaybackInv, ListenersBound
    <3>2. CASE w # plays + 1
      BY <2>0, <3>2 DEF PlaybackInv, ListenersBound
    <3> QED
      BY <3>1, <3>2
  <2>4. QueueOrdered'
    <3>1. \A i \in DOMAIN queue : queue[i].by # plays + 1 /\ queue[i].by \in Playbacks
      BY <1>0, QueueFacts DEF PlaybackInv, QueueOrdered, Types
    <3>2. \A i \in DOMAIN queue : Bears(i)' = Bears(i)
      BY <2>0, <3>1 DEF Bears, Deciding
    <3> QED
      BY <1>0, <2>0, <3>2, QueueFacts DEF PlaybackInv, QueueOrdered, Types
  <2> QED
    BY <2>1, <2>2, <2>3, <2>4 DEF PlaybackInv
<1>3. CASE StopSelf \/ OnDestroy
  <2>1. UNCHANGED <<worker, stop, plays, wpc, lpc, queue, taken, late>> /\ svc' = "idle"
    BY <1>3 DEF StopSelf, OnDestroy
  <2>2. Types' /\ OneKnown' /\ ListenersBound'
    BY <2>1 DEF PlaybackInv, Types, OneKnown, ListenersBound, Deciding
  <2>3. QueueOrdered'
    BY <2>1, QueueKept DEF Bears, Deciding
  <2> QED
    BY <2>2, <2>3 DEF PlaybackInv
<1> QED
  BY <1>1, <1>2, <1>3 DEF ServiceStep

(* The steps of a playback and its listener that leave the queue alone *)
LEMMA ThreadKeepsInv ==
  \A w \in Playbacks :
    /\ PlaybackInv
    /\ \/ LoopTop(w) \/ ConnectFails(w) \/ RoundEnds(w)
       \/ Check(w) \/ Write(w) \/ ConvertFails(w) \/ SendFails(w)
    => PlaybackInv'
<1> SUFFICES ASSUME NEW w \in Playbacks, PlaybackInv,
                    \/ LoopTop(w) \/ ConnectFails(w) \/ RoundEnds(w)
                    \/ Check(w) \/ Write(w) \/ ConvertFails(w) \/ SendFails(w)
             PROVE  PlaybackInv'
  OBVIOUS
<1>0. Types
  BY DEF PlaybackInv
<1>1. UNCHANGED <<svc, worker, stop, plays, queue, taken, late>>
  BY DEF LoopTop, ConnectFails, RoundEnds, Check, Write, ConvertFails, SendFails, service, endpoint
<1>2. /\ wpc' \in [Playbacks -> {"none", "top", "connect", "decode", "close", "done"}]
      /\ lpc' \in [Playbacks -> {"idle", "checked", "writing", "failed"}]
      /\ \A v \in Playbacks : v # w => wpc'[v] = wpc[v] /\ lpc'[v] = lpc[v]
      /\ wpc[w] # "none"
      /\ \/ lpc'[w] = lpc[w] /\ (lpc[w] = "idle" \/ wpc'[w] \in {"decode", "close"})
         \/ wpc'[w] = wpc[w] /\ wpc[w] \in {"decode", "close"} /\ (~Deciding(w)' \/ Deciding(w) \/ ~stop[w])
  <2> USE DEF Types, Deciding
  <2>1. CASE LoopTop(w) \/ ConnectFails(w) \/ RoundEnds(w)
    BY <1>0, <2>1 DEF LoopTop, ConnectFails, RoundEnds, At, PlaybackInv, ListenersBound
  <2>2. CASE Check(w)
    BY <1>0, <2>2 DEF Check, Listen, MayPush
  <2>3. CASE Write(w) \/ ConvertFails(w) \/ SendFails(w)
    BY <1>0, <2>3 DEF Write, ConvertFails, SendFails, Listen, PlaybackInv, ListenersBound
  <2> QED
    BY <2>1, <2>2, <2>3
<1>3. Types'
  BY <1>0, <1>1, <1>2 DEF Types
<1>4. OneKnown'
  BY <1>1, <1>2 DEF PlaybackInv, OneKnown
<1>5. ListenersBound'
  BY <1>1, <1>2 DEF PlaybackInv, ListenersBound, Deciding
<1>6. QueueOrdered'
  <2>1. \A i \in DOMAIN queue : Bears(i)' => Bears(i)
    BY <1>0, <1>1, <1>2, QueueFacts DEF Bears, Deciding
  <2> QED
    BY <1>1, <2>1, QueueKept
<1> QED
  BY <1>3, <1>4, <1>5, <1>6 DEF PlaybackInv

LEMMA ConnectKeepsInv == \A w \in Playbacks : PlaybackInv /\ Connect(w) => PlaybackInv'
<1> SUFFICES ASSUME NEW w \in Playbacks, PlaybackInv, Connect(w) PROVE PlaybackInv'
  OBVIOUS
<1>0. Types /\ w \in Nat
  BY LocalMediaAssumption DEF PlaybackInv, Playbacks, LocalMediaAssumption
<1>1. /\ UNCHANGED <<svc, worker, stop, plays, lpc, taken, late>> /\ wpc[w] = "connect"
      /\ lpc[w] = "idle" /\ w <= plays /\ plays \in Nat
  BY <1>0 DEF Connect, service, PlaybackInv, OneKnown, ListenersBound, Types
<1>2. /\ wpc' \in [Playbacks -> {"none", "top", "connect", "decode", "close", "done"}]
      /\ wpc'[w] = "decode" /\ \A v \in Playbacks : v # w => wpc'[v] = wpc[v]
  BY <1>0 DEF Connect, At, Types
<1> DEFINE new == [by |-> w, n |-> 0, open |-> TRUE, live |-> TRUE]
<1>3. new \in Connection /\ queue' = Append(queue, new)
  BY DEF Connect, Connection
<1>4. /\ queue' \in Seq(Connection) /\ DOMAIN queue' = 1..(Len(queue) + 1)
      /\ \A i \in DOMAIN queue : queue'[i] = queue[i]
      /\ queue'[Len(queue) + 1] = new /\ Len(queue) \in Nat /\ DOMAIN queue = 1..Len(queue)
  <2> HIDE DEF new
  <2> QED
    BY <1>0, <1>3 DEF Types
<1>5. Types'
  BY <1>0, <1>1, <1>2, <1>4 DEF Types
<1>6. OneKnown' /\ ListenersBound'
  BY <1>1, <1>2 DEF PlaybackInv, OneKnown, ListenersBound, Deciding
<1>7. \A i \in DOMAIN queue : Bears(i)' = Bears(i)
  BY <1>1, <1>4 DEF Bears, Deciding
<1>8. ASSUME NEW k \in Nat, k = Len(queue) + 1, Bears(k)' PROVE w = plays
  <2>1. ~stop[w]
    <3>1. queue'[k].n = 0 /\ queue'[k].by = w
      BY <1>4, <1>8
    <3> QED
      BY <1>1, <1>8, <3>1 DEF Bears, Deciding
  <2>2. w # worker => stop[w]
    BY <1>0, <1>1 DEF PlaybackInv, OneKnown
  <2>3. worker \in {0, plays} /\ w # 0
    BY LocalMediaAssumption DEF PlaybackInv, OneKnown, NoPlayback, Playbacks, LocalMediaAssumption
  <2> QED
    BY <2>1, <2>2, <2>3
<1>9. QueueOrdered'
  <2>1. taken' <= plays' /\ taken \in Nat
    BY <1>0, <1>1 DEF PlaybackInv, QueueOrdered, Types
  <2>2. ASSUME NEW i \in DOMAIN queue'
        PROVE  queue'[i].by <= plays /\ (Bears(i)' => taken <= queue'[i].by)
    <3>1. CASE i \in DOMAIN queue
      BY <1>4, <1>7, <3>1 DEF PlaybackInv, QueueOrdered
    <3>2. CASE i = Len(queue) + 1
      <4>1. queue'[i].by = w /\ i \in Nat /\ (Bears(i)' => w = plays)
        BY <1>4, <1>8, <3>2
      <4> QED
        BY <1>1, <2>1, <4>1
    <3> QED
      BY <1>4, <3>1, <3>2
  <2>3. ASSUME NEW i \in DOMAIN queue', NEW j \in DOMAIN queue', i < j, Bears(j)'
        PROVE  queue'[i].by <= queue'[j].by
    <3>1. CASE j \in DOMAIN queue
      <4>1. i \in DOMAIN queue
        BY <1>4, <2>3, <3>1
      <4> QED
        BY <1>4, <1>7, <2>3, <3>1, <4>1 DEF PlaybackInv, QueueOrdered
    <3>2. CASE j = Len(queue) + 1
      <4>1. i \in DOMAIN queue
        BY <1>4, <2>3, <3>2
      <4>2. queue'[j].by = w /\ j \in Nat /\ queue'[i].by = queue[i].by
        BY <1>4, <3>2, <4>1
      <4>3. w = plays
        BY <1>8, <2>3, <3>2, <4>2
      <4> QED
        BY <4>1, <4>2, <4>3 DEF PlaybackInv, QueueOrdered
    <3> QED
      BY <1>4, <3>1, <3>2
  <2> QED
    BY <1>1, <2>1, <2>2, <2>3 DEF QueueOrdered
<1> QED
  BY <1>5, <1>6, <1>9 DEF PlaybackInv

LEMMA CloseKeepsInv == \A w \in Playbacks : PlaybackInv /\ Close(w) => PlaybackInv'
<1> SUFFICES ASSUME NEW w \in Playbacks, PlaybackInv, Close(w) PROVE PlaybackInv'
  OBVIOUS
<1>0. Types
  BY DEF PlaybackInv
<1>1. /\ UNCHANGED <<svc, worker, stop, plays, taken, late>> /\ wpc[w] = "close"
  BY DEF Close, service
<1>2. /\ wpc' \in [Playbacks -> {"none", "top", "connect", "decode", "close", "done"}]
      /\ lpc' \in [Playbacks -> {"idle", "checked", "writing", "failed"}] /\ lpc'[w] = "idle"
      /\ \A v \in Playbacks : v # w => wpc'[v] = wpc[v] /\ lpc'[v] = lpc[v]
  BY <1>0 DEF Close, At, Types
<1>3. /\ queue' \in Seq(Connection) /\ DOMAIN queue' = DOMAIN queue
      /\ \A i \in DOMAIN queue :
           /\ queue'[i].by = queue[i].by /\ queue'[i].n = queue[i].n
           /\ queue'[i].open => queue[i].open
  <2>1. queue' = [i \in 1..Len(queue) |->
                 IF i \in Mine(w) THEN [queue[i] EXCEPT !.open = FALSE] ELSE queue[i]]
    BY <1>0, QueueFacts DEF Close
  <2>2. \A i \in DOMAIN queue : [queue[i] EXCEPT !.open = FALSE] \in Connection
    BY <1>0, QueueFacts DEF Connection
  <2>3. \A i \in 1..Len(queue) : queue'[i] \in Connection
    BY <1>0, <2>1, <2>2, QueueFacts
  <2>4. queue' \in Seq(Connection) /\ DOMAIN queue' = DOMAIN queue
    BY <1>0, <2>1, <2>3, QueueFacts
  <2>5. ASSUME NEW i \in DOMAIN queue
        PROVE  /\ queue'[i].by = queue[i].by /\ queue'[i].n = queue[i].n
               /\ queue'[i].open => queue[i].open
    <3>1. i \in 1..Len(queue) /\ queue[i] \in Connection
      BY <1>0, QueueFacts
    <3>2. CASE i \in Mine(w)
      BY <2>1, <3>1, <3>2 DEF Connection, Mine
    <3>3. CASE i \notin Mine(w)
      BY <2>1, <3>1, <3>3
    <3> QED
      BY <3>2, <3>3
  <2> QED
    BY <2>4, <2>5
<1>4. Types'
  BY <1>0, <1>1, <1>2, <1>3 DEF Types
<1>5. OneKnown' /\ ListenersBound'
  BY <1>1, <1>2 DEF PlaybackInv, OneKnown, ListenersBound, Deciding
<1>6. QueueOrdered'
  <2>1. \A i \in DOMAIN queue : queue'[i].by = queue[i].by /\ (Bears(i)' => Bears(i))
    BY <1>0, <1>1, <1>2, <1>3, QueueFacts DEF Bears, Deciding
  <2> QED
    BY <1>1, <1>3, <2>1, QueueKept
<1> QED
  BY <1>4, <1>5, <1>6 DEF PlaybackInv

LEMMA SentKeepsInv == \A w \in Playbacks : PlaybackInv /\ Sent(w) => PlaybackInv'
<1> SUFFICES ASSUME NEW w \in Playbacks, PlaybackInv, Sent(w) PROVE PlaybackInv'
  OBVIOUS
<1>0. Types
  BY DEF PlaybackInv
<1>1. /\ UNCHANGED <<svc, worker, stop, plays, wpc, taken>> /\ lpc[w] = "writing"
  BY DEF Sent, service
<1>2. /\ lpc' \in [Playbacks -> {"idle", "checked", "writing", "failed"}] /\ lpc'[w] = "idle"
      /\ \A v \in Playbacks : v # w => lpc'[v] = lpc[v]
  BY <1>0 DEF Sent, Listen, Types
<1>3. late[w] = 0
  BY <1>0, <1>1 DEF PlaybackInv, ListenersBound, Deciding, Types
<1>4. /\ late' \in [Playbacks -> Nat] /\ late'[w] <= 1 /\ (late'[w] > 0 => stop[w])
      /\ \A v \in Playbacks : v # w => late'[v] = late[v]
  BY <1>0, <1>3 DEF Sent, Types
<1>5. PICK k \in Mine(w) : queue[k].n = 0 /\ queue' = [queue EXCEPT ![k].n = @ + 1]
  BY DEF Sent, Room
<1>6. k \in 1..Len(queue) /\ k \in DOMAIN queue /\ queue[k].by = w /\ queue[k].open
  BY <1>0, <1>5, QueueFacts DEF Mine
<1>7. /\ queue' \in Seq(Connection) /\ DOMAIN queue' = DOMAIN queue
      /\ \A i \in DOMAIN queue :
           queue'[i].by = queue[i].by /\ (i # k => queue'[i] = queue[i])
  <2> DEFINE c == [queue[k] EXCEPT !.n = queue[k].n + 1]
  <2>1. queue[k] \in Connection /\ queue' = [queue EXCEPT ![k] = c]
    BY <1>0, <1>5, <1>6, QueueFacts
  <2>2. c \in Connection /\ c.by = queue[k].by
    BY <1>5, <2>1 DEF Connection
  <2> HIDE DEF c
  <2> QED
    BY <1>0, <1>6, <2>1, <2>2, ChangeAt
<1>8. Types'
  BY <1>0, <1>1, <1>2, <1>4, <1>7 DEF Types
<1>9. OneKnown'
  <2>1. wpc[w] # "none" /\ w \in Nat /\ plays \in Nat
    BY <1>0, <1>1, LocalMediaAssumption
       DEF PlaybackInv, ListenersBound, Types, Playbacks, LocalMediaAssumption
  <2>2. ~(w > plays)
    BY <2>1 DEF PlaybackInv, OneKnown
  <2> QED
    BY <1>1, <1>4, <2>2 DEF PlaybackInv, OneKnown
<1>10. ListenersBound'
  BY <1>1, <1>2, <1>4 DEF PlaybackInv, ListenersBound, Deciding
<1>11. QueueOrdered'
  <2>1. Bears(k)
    BY <1>1, <1>6 DEF Bears, Deciding
  <2>2. ASSUME NEW i \in DOMAIN queue, i # k, Bears(i)' PROVE Bears(i)
    BY <1>0, <1>1, <1>2, <1>7, <2>2, QueueFacts DEF Bears, Deciding
  <2>3. \A i \in DOMAIN queue : queue'[i].by = queue[i].by /\ (Bears(i)' => Bears(i))
    BY <1>7, <2>1, <2>2
  <2> QED
    BY <1>1, <1>7, <2>3, QueueKept
<1> QED
  BY <1>8, <1>9, <1>10, <1>11 DEF PlaybackInv

(* What the frame endpoint does *)
LEMMA EndpointKeepsInv == PlaybackInv /\ (TakeFrame \/ Drop \/ Abandon) => PlaybackInv' /\ taken' >= taken
<1> SUFFICES ASSUME PlaybackInv, TakeFrame \/ Drop \/ Abandon PROVE PlaybackInv' /\ taken' >= taken
  OBVIOUS
<1>0. Types /\ taken \in Nat /\ plays \in Nat
  BY DEF PlaybackInv, Types
<1>1. /\ UNCHANGED <<svc, worker, stop, plays, wpc, lpc, late>> /\ queue # <<>>
  BY DEF TakeFrame, Drop, Abandon, service, threads
<1>2. OneKnown' /\ ListenersBound'
  BY <1>1 DEF PlaybackInv, OneKnown, ListenersBound, Deciding
<1>3. 1 \in DOMAIN queue /\ queue[1] = Head(queue) /\ queue[1] \in Connection /\ queue[1].n \in 0..1
      /\ queue[1].by \in Playbacks /\ queue[1].by \in Nat
  BY <1>0, <1>1, QueueFacts DEF Types
<1>4. CASE TakeFrame
  <2>1. /\ queue[1].n = 1 /\ taken' = queue[1].by /\ queue' = [queue EXCEPT ![1].n = @ - 1]
    BY <1>3, <1>4 DEF TakeFrame
  <2>2. Bears(1) /\ taken <= taken' /\ taken' \in Nat /\ taken' <= plays
    <3>1. Bears(1)
      BY <1>3, <2>1 DEF Bears
    <3> QED
      BY <1>3, <2>1, <3>1 DEF PlaybackInv, QueueOrdered
  <2>3. /\ queue' \in Seq(Connection) /\ DOMAIN queue' = DOMAIN queue
        /\ \A i \in DOMAIN queue :
             /\ queue'[i].by = queue[i].by /\ queue'[i].open = queue[i].open
             /\ queue'[i].n > 0 => queue[i].n > 0
    <3> DEFINE c == [queue[1] EXCEPT !.n = queue[1].n - 1]
    <3>1. queue' = [queue EXCEPT ![1] = c]
      BY <2>1
    <3>2. /\ c \in Connection /\ c.by = queue[1].by /\ c.open = queue[1].open
          /\ c.n = 0
      BY <1>3, <2>1 DEF Connection
    <3> HIDE DEF c
    <3>3. /\ queue' \in Seq(Connection) /\ DOMAIN queue' = DOMAIN queue /\ queue'[1] = c
          /\ \A i \in DOMAIN queue : i # 1 => queue'[i] = queue[i]
      BY <1>0, <1>3, <3>1, <3>2, ChangeAt
    <3> QED
      BY <2>1, <3>2, <3>3
  <2>4. Types'
    BY <1>0, <1>1, <2>2, <2>3 DEF Types
  <2>5. \A i \in DOMAIN queue : Bears(i)' => Bears(i)
    BY <1>1, <2>3 DEF Bears, Deciding
  <2>6. QueueOrdered'
    <3>1. \A i \in DOMAIN queue' : queue'[i].by <= plays
      BY <2>3 DEF PlaybackInv, QueueOrdered
    <3>2. ASSUME NEW i \in DOMAIN queue', Bears(i)' PROVE taken' <= queue'[i].by
      <4>1. i = 1 \/ 1 < i
        BY <1>0, <2>3, QueueFacts
      <4> QED
        BY <1>3, <2>1, <2>3, <2>5, <3>2, <4>1 DEF PlaybackInv, QueueOrdered
    <3>3. \A i, j \in DOMAIN queue' : i < j /\ Bears(j)' => queue'[i].by <= queue'[j].by
      BY <2>3, <2>5 DEF PlaybackInv, QueueOrdered
    <3> QED
      BY <1>1, <2>2, <3>1, <3>2, <3>3 DEF QueueOrdered
  <2> QED
    BY <1>0, <1>2, <2>2, <2>4, <2>6 DEF PlaybackInv
<1>5. CASE Drop
  <2>1. queue' = Tail(queue) /\ taken' = taken
    BY <1>5 DEF Drop
  <2>2. /\ queue' \in Seq(Connection) /\ Len(queue) \in Nat /\ DOMAIN queue' = 1..(Len(queue) - 1)
        /\ \A i \in 1..(Len(queue) - 1) : queue'[i] = queue[i + 1]
        /\ DOMAIN queue = 1..Len(queue)
    BY <1>0, <1>1, <2>1 DEF Types
  <2>3. Types'
    BY <1>0, <1>1, <2>1, <2>2 DEF Types
  <2>4. ASSUME NEW i \in DOMAIN queue', NEW k \in Nat, k = i + 1
        PROVE  k \in DOMAIN queue /\ queue'[i] = queue[k] /\ Bears(i)' = Bears(k)
    BY <1>1, <2>2, <2>4 DEF Bears, Deciding
  <2>5. QueueOrdered'
    <3>1. ASSUME NEW i \in DOMAIN queue'
          PROVE  queue'[i].by <= plays /\ (Bears(i)' => taken <= queue'[i].by)
      <4>1. i + 1 \in Nat
        BY <2>2
      <4> QED
        BY <2>4, <4>1 DEF PlaybackInv, QueueOrdered
    <3>2. ASSUME NEW i \in DOMAIN queue', NEW j \in DOMAIN queue', i < j, Bears(j)'
          PROVE  queue'[i].by <= queue'[j].by
      <4>1. i + 1 \in Nat /\ j + 1 \in Nat /\ i + 1 < j + 1
        BY <2>2, <3>2
      <4>2. i + 1 \in DOMAIN queue /\ j + 1 \in DOMAIN queue /\ Bears(j + 1)
            /\ queue'[i] = queue[i + 1] /\ queue'[j] = queue[j + 1]
        BY <2>4, <3>2, <4>1
      <4> QED
        BY <4>1, <4>2 DEF PlaybackInv, QueueOrdered
    <3> QED
      BY <1>1, <2>1, <3>1, <3>2 DEF PlaybackInv, QueueOrdered
  <2> QED
    BY <1>0, <1>2, <2>1, <2>3, <2>5 DEF PlaybackInv
<1>6. CASE Abandon
  <2>1. queue' = [queue EXCEPT ![1].live = FALSE] /\ taken' = taken
    BY <1>6 DEF Abandon
  <2>2. /\ queue' \in Seq(Connection) /\ DOMAIN queue' = DOMAIN queue
        /\ \A i \in DOMAIN queue :
             queue'[i].by = queue[i].by /\ queue'[i].open = queue[i].open /\ queue'[i].n = queue[i].n
    <3> DEFINE c == [queue[1] EXCEPT !.live = FALSE]
    <3>1. queue' = [queue EXCEPT ![1] = c]
      BY <2>1
    <3>2. /\ c \in Connection /\ c.by = queue[1].by /\ c.open = queue[1].open
          /\ c.n = queue[1].n
      BY <1>3, <2>1 DEF Connection
    <3> HIDE DEF c
    <3>3. /\ queue' \in Seq(Connection) /\ DOMAIN queue' = DOMAIN queue /\ queue'[1] = c
          /\ \A i \in DOMAIN queue : i # 1 => queue'[i] = queue[i]
      BY <1>0, <1>3, <3>1, <3>2, ChangeAt
    <3> QED
      BY <2>1, <3>2, <3>3
  <2>3. Types'
    BY <1>0, <1>1, <2>1, <2>2 DEF Types
  <2>4. \A i \in DOMAIN queue : queue'[i].by = queue[i].by /\ (Bears(i)' => Bears(i))
    BY <1>1, <2>2 DEF Bears, Deciding
  <2>5. QueueOrdered'
    BY <1>1, <2>1, <2>2, <2>4, QueueKept
  <2> QED
    BY <1>0, <1>2, <2>1, <2>3, <2>5 DEF PlaybackInv
<1> QED
  BY <1>4, <1>5, <1>6

LEMMA PlaybackInvInit == Init => PlaybackInv
<1> SUFFICES ASSUME Init PROVE PlaybackInv
  OBVIOUS
<1> USE LocalMediaAssumption DEF LocalMediaAssumption, Init
<1>1. queue = <<>> /\ DOMAIN queue = {} /\ queue \in Seq(Connection) /\ taken = 0 /\ plays = 0 /\ worker = 0
      /\ \A w \in Playbacks : ~(w <= 0) /\ w \in Nat
  BY DEF NoPlayback, Playbacks
<1>2. Types
  BY <1>1 DEF Types
<1>3. OneKnown
  BY <1>1 DEF OneKnown, NoPlayback
<1>4. ListenersBound
  BY <1>1 DEF ListenersBound, Deciding
<1>5. QueueOrdered
  BY <1>1 DEF QueueOrdered
<1> QED
  BY <1>2, <1>3, <1>4, <1>5 DEF PlaybackInv

LEMMA PlaybackInvNext == PlaybackInv /\ [Next]_vars => PlaybackInv' /\ taken' >= taken
<1> SUFFICES ASSUME PlaybackInv, [Next]_vars PROVE PlaybackInv' /\ taken' >= taken
  OBVIOUS
<1>0. taken \in Nat
  BY DEF PlaybackInv, Types
<1>1. CASE CommandStep \/ HandleRequest \/ Rest \/ UNCHANGED vars
  <2>1. UNCHANGED core
    BY <1>1, CommandersStep
  <2> QED
    BY <1>0, <2>1, OtherStep DEF core
<1>2. CASE ServiceStep
  BY <1>0, <1>2, ServiceKeepsInv
     DEF ServiceStep, StopPlayback, StartPlayback, StopSelf, OnDestroy, endpoint
<1>3. CASE \E w \in Playbacks : WorkerStep(w) \/ ConnectFails(w) \/ RoundEnds(w) \/ ListenerStep(w)
  <2> SUFFICES ASSUME NEW w \in Playbacks,
                      WorkerStep(w) \/ ConnectFails(w) \/ RoundEnds(w) \/ ListenerStep(w)
               PROVE  PlaybackInv' /\ taken' >= taken
    BY <1>3
  <2>1. taken' = taken
    BY DEF WorkerStep, ListenerStep, LoopTop, Connect, Close, ConnectFails, RoundEnds, Check,
           Write, ConvertFails, Sent, SendFails, endpoint
  <2>2. PlaybackInv'
    BY ThreadKeepsInv, ConnectKeepsInv, CloseKeepsInv, SentKeepsInv DEF WorkerStep, ListenerStep
  <2> QED
    BY <1>0, <2>1, <2>2
<1>4. CASE TakeFrame \/ Drop \/ Abandon
  BY <1>4, EndpointKeepsInv
<1> QED
  BY <1>1, <1>2, <1>3, <1>4 DEF Next

(* For any number of commands and any backlog, vcamesd takes frames in the *)
(* order the playbacks were started, and a stopped playback sends no more  *)
(* than the one frame that was decided on (LocalMediaService.java:115-157, *)
(* 208-231).                                                               *)
THEOREM PlaybacksHold == Spec => PlaybacksApart
<1>1. PlaybackInv /\ [Next]_vars => [taken' >= taken /\ \A w \in Playbacks : late'[w] <= 1]_vars
  <2> SUFFICES ASSUME PlaybackInv, [Next]_vars
               PROVE  taken' >= taken /\ \A w \in Playbacks : late'[w] <= 1
    OBVIOUS
  <2> QED
    BY PlaybackInvNext DEF PlaybackInv, ListenersBound
<1> QED
  BY <1>1, PlaybackInvInit, PlaybackInvNext, PTL DEF Spec, PlaybacksApart


-------------------------------------------------------------------------------
(* Types: as many playbacks as commands, at most.  A playback is started   *)
(* for a start under way, which is a command's own until it is posted.     *)

CommandTypes ==
  /\ place \in [Commanders -> {"idle", "ask", "wait", "service", "over"}]
  /\ want \in [Commanders -> Wants] /\ destroyed \in BOOLEAN
  /\ begun \in 0..MaxCommands
  /\ clean \in [Commanders -> BOOLEAN] /\ last \in Outcomes
  /\ asked \in Seq([by : Commanders \cup {"nobody"}, want : Wants])
  /\ mode \in {"idle", "local", "network"}
  /\ intents \in Seq({"start", "stop", "destroy"})
  /\ svc \in {"idle", "start", "stop", "destroy"}
  /\ \A c \in Commanders : place[c] \in {"idle", "over"} => want[c] = "stop"

Owing ==
  {c \in Commanders : place[c] \in {"ask", "wait", "service"} /\ want[c] = "local"}
StartsIn(s) == {i \in 1..Len(s) : s[i] = "start"}
Starts == Cardinality(StartsIn(intents)) + (IF svc = "start" THEN 1 ELSE 0)

StartsCounted == plays + Starts + Cardinality(Owing) <= begun

CommandInv == CommandTypes /\ StartsCounted

LEMMA Sizes ==
  ASSUME NEW A, IsFiniteSet(A), NEW B, NEW c
  PROVE  /\ Cardinality(A) \in Nat
         /\ B \subseteq A =>
              IsFiniteSet(B) /\ Cardinality(B) \in Nat /\ Cardinality(B) <= Cardinality(A)
         /\ B \subseteq A \cup {c} => Cardinality(B) \in Nat /\ Cardinality(B) <= Cardinality(A) + 1
         /\ c \in A /\ B \subseteq A \ {c} =>
              Cardinality(B) \in Nat /\ Cardinality(B) + 1 <= Cardinality(A)
<1>1. Cardinality(A) \in Nat
  BY FS_CardinalityType
<1>2. ASSUME NEW D, IsFiniteSet(D), B \subseteq D
      PROVE  IsFiniteSet(B) /\ Cardinality(B) \in Nat /\ Cardinality(B) <= Cardinality(D)
  <2>1. B \in SUBSET D
    BY <1>2
  <2>2. IsFiniteSet(B) /\ Cardinality(B) <= Cardinality(D)
    BY <1>2, <2>1, FS_Subset
  <2> QED
    BY <2>2, FS_CardinalityType
<1>3. /\ IsFiniteSet(A \cup {c})
      /\ Cardinality(A \cup {c}) =
           IF c \in A THEN Cardinality(A) ELSE Cardinality(A) + 1
  BY FS_AddElement
<1>4. /\ IsFiniteSet(A \ {c})
      /\ Cardinality(A \ {c}) = IF c \in A THEN Cardinality(A) - 1 ELSE Cardinality(A)
  BY FS_RemoveElement
<1>5. B \subseteq A => IsFiniteSet(B) /\ Cardinality(B) \in Nat /\ Cardinality(B) <= Cardinality(A)
  BY <1>2
<1>6. ASSUME B \subseteq A \cup {c}
      PROVE  Cardinality(B) \in Nat /\ Cardinality(B) <= Cardinality(A) + 1
  <2>1. Cardinality(B) \in Nat /\ Cardinality(B) <= Cardinality(A \cup {c})
    BY <1>2, <1>3, <1>6
  <2> QED
    BY <1>1, <1>3, <2>1
<1>7. ASSUME c \in A, B \subseteq A \ {c}
      PROVE  Cardinality(B) \in Nat /\ Cardinality(B) + 1 <= Cardinality(A)
  <2>1. Cardinality(B) \in Nat /\ Cardinality(B) <= Cardinality(A \ {c})
    BY <1>2, <1>4, <1>7
  <2> QED
    BY <1>1, <1>4, <1>7, <2>1
<1> QED
  BY <1>1, <1>5, <1>6, <1>7

LEMMA OwingFinite == IsFiniteSet(Owing)
<1>1. IsFiniteSet({})
  BY FS_EmptySet
<1>2. IsFiniteSet({} \cup {"activity"})
  BY <1>1, FS_AddElement
<1>3. IsFiniteSet(({} \cup {"activity"}) \cup {"recreated"})
  BY <1>2, FS_AddElement
<1>4. IsFiniteSet((({} \cup {"activity"}) \cup {"recreated"}) \cup {"boot"})
  BY <1>3, FS_AddElement
<1>5. Owing \subseteq (({} \cup {"activity"}) \cup {"recreated"}) \cup {"boot"}
  BY DEF Owing, Commanders
<1> QED
  BY <1>4, <1>5, Sizes

LEMMA StartsFinite ==
  ASSUME NEW M, NEW s \in Seq(M)
  PROVE  IsFiniteSet(StartsIn(s)) /\ Cardinality(StartsIn(s)) \in Nat
<1>1. Len(s) \in Int /\ 1 \in Int /\ StartsIn(s) \subseteq 1..Len(s)
  BY DEF StartsIn
<1>2. IsFiniteSet(1..Len(s))
  BY <1>1, FS_Interval
<1> QED
  BY <1>1, <1>2, Sizes

LEMMA StartPosted ==
  ASSUME NEW M, NEW s \in Seq(M), NEW m \in M
  PROVE  Cardinality(StartsIn(Append(s, m)))
           <= Cardinality(StartsIn(s)) + (IF m = "start" THEN 1 ELSE 0)
<1> DEFINE t == Append(s, m)
           n == Len(s) + 1
<1>1. Len(s) \in Nat /\ Len(t) = n /\ n \in Nat /\ t[n] = m
      /\ \A i \in 1..Len(s) : t[i] = s[i]
  OBVIOUS
<1> HIDE DEF t
<1>2. \A i \in 1..n : i # n => i \in 1..Len(s)
  BY <1>1
<1>3. StartsIn(t) \subseteq StartsIn(s) \cup {n}
  BY <1>1, <1>2 DEF StartsIn
<1>4. m # "start" => StartsIn(t) \subseteq StartsIn(s)
  BY <1>1, <1>2 DEF StartsIn
<1>5. IsFiniteSet(StartsIn(s)) /\ Cardinality(StartsIn(s)) \in Nat
  BY StartsFinite
<1>6. /\ Cardinality(StartsIn(t)) \in Nat
      /\ Cardinality(StartsIn(t)) <= Cardinality(StartsIn(s)) + 1
      /\ m # "start" => Cardinality(StartsIn(t)) <= Cardinality(StartsIn(s))
  <2> HIDE DEF n
  <2> QED
    BY <1>3, <1>4, <1>5, Sizes
<1> QED
  BY <1>5, <1>6 DEF t

LEMMA StartReceived ==
  ASSUME NEW M, NEW s \in Seq(M), s # <<>>
  PROVE  Cardinality(StartsIn(Tail(s))) + (IF Head(s) = "start" THEN 1 ELSE 0)
           <= Cardinality(StartsIn(s))
<1> DEFINE t == Tail(s)
           rest == StartsIn(s) \ {1}
           f == [i \in StartsIn(t) |-> i + 1]
<1>1. /\ Len(s) \in Nat \ {0} /\ Len(t) = Len(s) - 1 /\ Head(s) = s[1]
      /\ \A i \in 1..Len(t) : t[i] = s[i + 1]
  OBVIOUS
<1>2. t \in Seq(M)
  OBVIOUS
<1> HIDE DEF t
<1>3. \A i \in StartsIn(t) : i \in Nat /\ i + 1 \in rest
  BY <1>1 DEF StartsIn
<1>4. f \in Injection(StartsIn(t), rest)
  BY <1>3 DEF Injection, IsInjective
<1>5. /\ IsFiniteSet(StartsIn(s)) /\ Cardinality(StartsIn(s)) \in Nat
      /\ Cardinality(StartsIn(t)) \in Nat
  BY <1>2, StartsFinite
<1>6. /\ IsFiniteSet(rest)
      /\ Cardinality(rest) = IF 1 \in StartsIn(s) THEN Cardinality(StartsIn(s)) - 1
                                                  ELSE Cardinality(StartsIn(s))
  BY <1>5, FS_RemoveElement
<1>7. 1 \in StartsIn(s) <=> Head(s) = "start"
  BY <1>1 DEF StartsIn
<1>8. Cardinality(StartsIn(t)) <= Cardinality(rest)
  BY <1>4, <1>6, FS_Injection
<1> QED
  BY <1>5, <1>6, <1>7, <1>8 DEF t

LEMMA CountKept ==
  ASSUME CommandInv, plays \in Nat, plays' = plays, begun' \in Nat, Starts' \in Nat, NEW c,
         \/ Owing' \subseteq Owing /\ begun' >= begun /\ Starts' <= Starts
         \/ Owing' \subseteq Owing \cup {c} /\ begun' = begun + 1 /\ Starts' <= Starts
         \/ c \in Owing /\ Owing' \subseteq Owing \ {c} /\ begun' = begun /\ Starts' <= Starts + 1
  PROVE  StartsCounted'
<1>1. /\ begun \in Nat /\ plays \in Nat /\ Starts \in Nat
      /\ plays + Starts + Cardinality(Owing) <= begun
  <2>1. Cardinality(StartsIn(intents)) \in Nat
    BY StartsFinite DEF CommandInv, CommandTypes
  <2> QED
    BY <2>1, LocalMediaAssumption
       DEF CommandInv, CommandTypes, StartsCounted, Starts, LocalMediaAssumption
<1>2. /\ Cardinality(Owing) \in Nat
      /\ Owing' \subseteq Owing =>
           Cardinality(Owing') \in Nat /\ Cardinality(Owing') <= Cardinality(Owing)
      /\ Owing' \subseteq Owing \cup {c} =>
           Cardinality(Owing') \in Nat /\ Cardinality(Owing') <= Cardinality(Owing) + 1
      /\ c \in Owing /\ Owing' \subseteq Owing \ {c} =>
           Cardinality(Owing') \in Nat /\ Cardinality(Owing') + 1 <= Cardinality(Owing)
  BY OwingFinite, Sizes
<1>3. plays' + Starts' + Cardinality(Owing') <= begun'
  BY <1>1, <1>2
<1> QED
  BY <1>3 DEF StartsCounted

Messages == {"start", "stop", "destroy"}

(* Posting a message adds a start if it is one. *)
LEMMA Added ==
  ASSUME intents \in Seq(Messages), NEW m \in Messages, Post(m)
  PROVE  /\ intents' \in Seq(Messages)
         /\ Cardinality(StartsIn(intents)) \in Nat /\ Cardinality(StartsIn(intents')) \in Nat
         /\ Cardinality(StartsIn(intents'))
              <= Cardinality(StartsIn(intents)) + (IF m = "start" THEN 1 ELSE 0)
<1>1. intents' = Append(intents, m)
  BY DEF Post
<1>2. intents' \in Seq(Messages)
  BY <1>1
<1> QED
  BY <1>1, <1>2, StartsFinite, StartPosted

LEMMA Posted ==
  ASSUME CommandTypes, NEW m \in Messages, Post(m), svc' = svc
  PROVE  /\ intents' \in Seq(Messages) /\ Starts \in Nat /\ Starts' \in Nat
         /\ Starts' <= Starts + (IF m = "start" THEN 1 ELSE 0)
<1>1. intents \in Seq(Messages)
  BY DEF CommandTypes, Messages
<1> QED
  BY <1>1, Added DEF Starts

LEMMA NotPosted ==
  ASSUME CommandTypes, UNCHANGED <<intents, svc>>
  PROVE  Starts \in Nat /\ Starts' = Starts
<1>1. Cardinality(StartsIn(intents)) \in Nat
  BY StartsFinite DEF CommandTypes
<1> QED
  BY <1>1 DEF Starts

(* What the commander of c leaves when its command ends or goes on.        *)
Own ==
  /\ place \in [Commanders -> {"idle", "ask", "wait", "service", "over"}]
  /\ want \in [Commanders -> Wants] /\ destroyed \in BOOLEAN
  /\ begun \in 0..MaxCommands
  /\ clean \in [Commanders -> BOOLEAN] /\ last \in Outcomes
  /\ \A c \in Commanders : place[c] \in {"idle", "over"} => want[c] = "stop"

LEMMA Ending ==
  ASSUME CommandTypes, NEW c \in Commanders, NEW outcome \in Outcomes, End(c, outcome)
  PROVE  Own' /\ begun' = begun /\ Owing' \subseteq Owing \ {c}
<1>1. /\ place' = [place EXCEPT ![c] = IF c = "boot" THEN "over" ELSE "idle"]
      /\ want' = [want EXCEPT ![c] = "stop"] /\ clean' = [clean EXCEPT ![c] = FALSE]
      /\ last' \in Outcomes /\ UNCHANGED <<destroyed, begun>>
  BY DEF End, Go, Outcomes
<1>2. /\ place \in [Commanders -> {"idle", "ask", "wait", "service", "over"}]
      /\ want \in [Commanders -> Wants] /\ clean \in [Commanders -> BOOLEAN]
      /\ destroyed \in BOOLEAN /\ begun \in 0..MaxCommands
      /\ \A d \in Commanders : place[d] \in {"idle", "over"} => want[d] = "stop"
  BY DEF CommandTypes
<1>3. /\ place' \in [Commanders -> {"idle", "ask", "wait", "service", "over"}]
      /\ want' \in [Commanders -> Wants] /\ clean' \in [Commanders -> BOOLEAN]
      /\ want'[c] = "stop"
      /\ \A d \in Commanders : d # c => place'[d] = place[d] /\ want'[d] = want[d]
  BY <1>1, <1>2 DEF Wants
<1>4. Own'
  BY <1>1, <1>2, <1>3 DEF Own
<1>5. Owing' \subseteq Owing \ {c}
  BY <1>3 DEF Owing
<1> QED
  BY <1>1, <1>4, <1>5

LEMMA GoingOn ==
  ASSUME CommandTypes, NEW c \in Commanders, NEW p \in {"ask", "wait", "service"}, Go(c, p),
         UNCHANGED <<want, destroyed, begun, clean, last>>
  PROVE  Own' /\ begun' = begun /\ Owing' \subseteq Owing
<1>1. /\ place \in [Commanders -> {"idle", "ask", "wait", "service", "over"}]
      /\ \A d \in Commanders : place[d] \in {"idle", "over"} => want[d] = "stop"
      /\ \A d \in Commanders : place[d] \notin {"idle", "over"} => place[d] \in {"ask", "wait", "service"}
  BY DEF CommandTypes
<1>2. /\ place' \in [Commanders -> {"idle", "ask", "wait", "service", "over"}]
      /\ place'[c] \in {"ask", "wait", "service"}
      /\ \A d \in Commanders : d # c => place'[d] = place[d]
  BY <1>1 DEF Go
<1>3. Own'
  BY <1>1, <1>2 DEF Own, CommandTypes
<1>4. Owing' \subseteq Owing
  <2> SUFFICES ASSUME NEW d \in Commanders, place'[d] \in {"ask", "wait", "service"},
                      want[d] = "local"
               PROVE  place[d] \in {"ask", "wait", "service"}
    BY DEF Owing
  <2> QED
    BY <1>1
<1> QED
  BY <1>3, <1>4

LEMMA InvFromParts ==
  ASSUME CommandInv, Own', mode' \in {"idle", "local", "network"},
         asked' \in Seq([by : Commanders \cup {"nobody"}, want : Wants]),
         intents' \in Seq(Messages), svc' \in {"idle", "start", "stop", "destroy"},
         StartsCounted'
  PROVE  CommandInv'
  BY DEF CommandInv, CommandTypes, Own, Messages

LEMMA BeginKeepsCount ==
  ASSUME CommandInv, plays \in Nat, NEW c \in Commanders, NEW command \in Wants, Begin(c, command)
  PROVE  CommandInv'
<1>0. CommandTypes
  BY DEF CommandInv
<1>1. /\ place' = [place EXCEPT ![c] = IF command = "stop" THEN "service" ELSE "ask"]
      /\ want' = [want EXCEPT ![c] = command] /\ begun' = begun + 1 /\ begun < MaxCommands
      /\ clean' \in [Commanders -> BOOLEAN] /\ last' \in Outcomes
      /\ UNCHANGED <<destroyed, asked, mode, intents, svc, plays>>
  BY DEF Begin, Go, daemon, service, Outcomes
<1>2. /\ place' \in [Commanders -> {"idle", "ask", "wait", "service", "over"}]
      /\ want' \in [Commanders -> Wants] /\ place'[c] \in {"ask", "service"}
      /\ \A d \in Commanders : d # c => place'[d] = place[d] /\ want'[d] = want[d]
  BY <1>0, <1>1 DEF CommandTypes
<1>3. begun' \in 0..MaxCommands /\ begun' \in Nat
  BY <1>0, <1>1, LocalMediaAssumption DEF CommandTypes, LocalMediaAssumption
<1>4. Own'
  BY <1>0, <1>1, <1>2, <1>3 DEF CommandTypes, Own
<1>5. Owing' \subseteq Owing \cup {c}
  BY <1>2 DEF Owing
<1>6. Starts \in Nat /\ Starts' = Starts
  BY <1>0, <1>1, NotPosted
<1>7. StartsCounted'
  BY <1>1, <1>3, <1>5, <1>6, CountKept
<1> QED
  BY <1>0, <1>1, <1>4, <1>7, InvFromParts DEF CommandTypes, Messages

LEMMA AskingKeepsCount ==
  ASSUME CommandInv, plays \in Nat, NEW c \in Commanders, AskFails(c) \/ Ask(c) \/ GiveUp(c)
  PROVE  CommandInv'
<1> DEFINE Request == [by : Commanders \cup {"nobody"}, want : Wants]
<1>0. CommandTypes /\ asked \in Seq(Request) /\ "failed" \in Outcomes
  BY DEF CommandInv, CommandTypes, Outcomes
<1>1. UNCHANGED <<mode, intents, svc, plays>>
  BY DEF AskFails, Ask, GiveUp, daemon, service
<1>2. Own' /\ begun' = begun /\ Owing' \subseteq Owing
  <2>1. CASE Ask(c)
    BY <1>0, <2>1, GoingOn DEF Ask
  <2>2. CASE AskFails(c) \/ GiveUp(c)
    <3>1. End(c, "failed")
      BY <2>2 DEF AskFails, GiveUp
    <3> QED
      BY <1>0, <3>1, Ending
  <2> QED
    BY <2>1, <2>2
<1>3. asked' \in Seq(Request)
  <2>1. CASE AskFails(c)
    BY <1>0, <2>1 DEF AskFails, daemon
  <2>2. CASE Ask(c)
    <3>1. [by |-> c, want |-> want[c]] \in Request
      BY <1>0 DEF CommandTypes
    <3> HIDE DEF Request
    <3> QED
      BY <1>0, <2>2, <3>1 DEF Ask
  <2>3. CASE GiveUp(c)
    <3> DEFINE new(i) == IF asked[i].by = c THEN [asked[i] EXCEPT !.by = "nobody"] ELSE asked[i]
    <3>1. \A i \in 1..Len(asked) : asked[i] \in Request
      <4> HIDE DEF Request
      <4> QED
        BY <1>0
    <3>2. ASSUME NEW r \in Request PROVE [r EXCEPT !.by = "nobody"] \in Request
      OBVIOUS
    <3>3. \A i \in 1..Len(asked) : new(i) \in Request
      BY <3>1, <3>2
    <3>4. asked' = [i \in 1..Len(asked) |-> new(i)] /\ Len(asked) \in Nat
      BY <1>0, <2>3 DEF GiveUp
    <3> HIDE DEF Request, new
    <3> QED
      BY <3>3, <3>4
  <2> QED
    BY <2>1, <2>2, <2>3
<1>4. Starts \in Nat /\ Starts' = Starts
  BY <1>0, <1>1, NotPosted
<1>5. begun' \in Nat /\ begun' >= begun
  BY <1>0, <1>2, LocalMediaAssumption DEF CommandTypes, LocalMediaAssumption
<1>6. StartsCounted'
  BY <1>1, <1>2, <1>4, <1>5, CountKept
<1> QED
  BY <1>0, <1>1, <1>2, <1>3, <1>6, InvFromParts DEF CommandTypes, Messages

LEMMA UseServiceKeepsCount ==
  ASSUME CommandInv, plays \in Nat, NEW c \in Commanders, UseService(c)
  PROVE  CommandInv'
<1>0. CommandTypes /\ want[c] \in Wants
  BY DEF CommandInv, CommandTypes
<1>1. UNCHANGED <<asked, mode, svc, plays>> /\ place[c] = "service" /\ TellService(c)
  BY DEF UseService, daemon
<1>2. /\ intents' \in Seq(Messages) /\ Starts \in Nat /\ Starts' \in Nat
      /\ Starts' <= Starts + (IF want[c] = "local" THEN 1 ELSE 0)
  <2>1. CASE want[c] = "local"
    <3>1. Post("start")
      BY <1>1, <2>1 DEF TellService
    <3> QED
      BY <1>0, <1>1, <2>1, <3>1, Posted DEF Messages
  <2>2. CASE want[c] # "local" /\ ~(want[c] = "network" /\ c = "boot")
    <3>1. Post("stop")
      BY <1>1, <2>2 DEF TellService
    <3> QED
      BY <1>0, <1>1, <2>2, <3>1, Posted DEF Messages
  <2>3. CASE want[c] = "network" /\ c = "boot"
    <3>1. UNCHANGED intents
      BY <1>1, <2>3 DEF TellService
    <3>2. Starts \in Nat /\ Starts' = Starts
      BY <1>0, <1>1, <3>1, NotPosted
    <3>3. intents' \in Seq(Messages)
      BY <1>0, <3>1 DEF CommandTypes, Messages
    <3> QED
      BY <2>3, <3>2, <3>3
  <2> QED
    BY <2>1, <2>2, <2>3
<1>3. /\ Own' /\ begun' = begun /\ Owing' \subseteq Owing
      /\ want[c] = "local" => c \in Owing /\ Owing' \subseteq Owing \ {c}
  <2>1. CASE want[c] = "stop"
    <3>1. Go(c, "ask") /\ UNCHANGED <<want, destroyed, begun, clean, last>>
      BY <2>1 DEF UseService
    <3> QED
      BY <1>0, <2>1, <3>1, GoingOn
  <2>2. CASE want[c] # "stop"
    <3>1. End(c, StartOutcome(c)) /\ StartOutcome(c) \in Outcomes
      BY <1>0, <2>2 DEF UseService, StartOutcome, Outcomes
    <3>2. Own' /\ begun' = begun /\ Owing' \subseteq Owing \ {c}
      BY <1>0, <3>1, Ending
    <3> QED
      BY <1>1, <3>2 DEF Owing
  <2> QED
    BY <2>1, <2>2
<1>4. begun' \in Nat /\ begun' >= begun
  BY <1>0, <1>3, LocalMediaAssumption DEF CommandTypes, LocalMediaAssumption
<1>5. StartsCounted'
  <2>1. \/ Owing' \subseteq Owing /\ begun' >= begun /\ Starts' <= Starts
        \/ c \in Owing /\ Owing' \subseteq Owing \ {c} /\ begun' = begun /\ Starts' <= Starts + 1
    BY <1>2, <1>3, <1>4
  <2> QED
    BY <1>1, <1>2, <1>4, <2>1, CountKept
<1> QED
  BY <1>0, <1>1, <1>2, <1>3, <1>5, InvFromParts DEF CommandTypes, Messages

LEMMA OthersKeepCount ==
  ASSUME CommandInv, plays \in Nat, Recreate \/ Dismiss
  PROVE  CommandInv'
<1>0. CommandTypes
  BY DEF CommandInv
<1>1. UNCHANGED <<place, want, asked, mode, svc, plays>>
  BY DEF Recreate, Dismiss, daemon, service
<1>2. Owing' \subseteq Owing
  BY <1>1 DEF Owing
<1>3. /\ begun' \in 0..MaxCommands /\ begun' \in Nat /\ begun' >= begun
      /\ Own' /\ intents' \in Seq(Messages)
      /\ Starts \in Nat /\ Starts' \in Nat /\ Starts' <= Starts
  <2>1. CASE Recreate
    <3>1. UNCHANGED <<place, want, begun, clean, last, intents>> /\ destroyed' = TRUE
      BY <2>1 DEF Recreate, service
    <3>2. Starts \in Nat /\ Starts' = Starts
      BY <1>0, <1>1, <3>1, NotPosted
    <3>3. Own' /\ begun' \in 0..MaxCommands /\ intents' \in Seq(Messages)
      BY <1>0, <3>1 DEF CommandTypes, Own, Messages
    <3> QED
      BY <3>1, <3>2, <3>3, LocalMediaAssumption DEF LocalMediaAssumption
  <2>2. CASE Dismiss
    <3>1. /\ Post("stop") /\ begun' = begun + 1 /\ begun < MaxCommands /\ last' = "dismissed"
          /\ clean' = [d \in Commanders |-> FALSE] /\ UNCHANGED destroyed
      BY <2>2 DEF Dismiss
    <3>2. begun \in 0..MaxCommands /\ begun' \in 0..MaxCommands /\ begun' \in Nat /\ begun' >= begun
      BY <1>0, <3>1, LocalMediaAssumption DEF CommandTypes, LocalMediaAssumption
    <3>3. intents' \in Seq(Messages) /\ Starts \in Nat /\ Starts' \in Nat /\ Starts' <= Starts
      BY <1>0, <1>1, <3>1, Posted DEF Messages
    <3>4. Own'
      BY <1>0, <1>1, <3>1, <3>2 DEF CommandTypes, Own, Outcomes
    <3> QED
      BY <3>2, <3>3, <3>4
  <2> QED
    BY <2>1, <2>2
<1>4. StartsCounted'
  BY <1>1, <1>2, <1>3, CountKept
<1> QED
  BY <1>0, <1>1, <1>3, <1>4, InvFromParts DEF CommandTypes

LEMMA HandleRequestKeepsCount ==
  ASSUME CommandInv, plays \in Nat, HandleRequest
  PROVE  CommandInv'
<1> DEFINE Request == [by : Commanders \cup {"nobody"}, want : Wants]
<1>0. CommandTypes /\ asked \in Seq(Request) /\ {"stop", "failed"} \subseteq Outcomes
  BY DEF CommandInv, CommandTypes, Outcomes, Wants
<1>1. UNCHANGED <<intents, svc, plays>> /\ asked # <<>> /\ asked' = Tail(asked)
  BY DEF HandleRequest, service
<1>2. asked' \in Seq(Request) /\ Head(asked) \in Request
  <2> HIDE DEF Request
  <2> QED
    BY <1>0, <1>1
<1> DEFINE by == Head(asked).by
<1>3. by \in Commanders \cup {"nobody"} /\ Head(asked).want \in Wants
  BY <1>2
<1>4. /\ mode' \in {"idle", "local", "network"}
      /\ IF by = "nobody" THEN UNCHANGED commands
         ELSE \/ Go(by, "service") /\ UNCHANGED <<want, destroyed, begun, clean, last>>
              \/ End(by, "stop") \/ End(by, "failed")
  BY <1>0, <1>3 DEF HandleRequest, CommandTypes, Wants
<1> HIDE DEF Request, by
<1>5. Own' /\ begun' = begun /\ Owing' \subseteq Owing
  <2>1. CASE by = "nobody"
    BY <1>0, <1>4, <2>1 DEF commands, CommandTypes, Own, Owing
  <2>2. CASE by # "nobody"
    BY <1>0, <1>3, <1>4, <2>2, GoingOn, Ending
  <2> QED
    BY <2>1, <2>2
<1>6. Starts \in Nat /\ Starts' = Starts
  BY <1>0, <1>1, NotPosted
<1>7. begun' \in Nat /\ begun' >= begun
  BY <1>0, <1>5, LocalMediaAssumption DEF CommandTypes, LocalMediaAssumption
<1>8. StartsCounted'
  BY <1>1, <1>5, <1>6, <1>7, CountKept
<1> QED
  BY <1>0, <1>1, <1>2, <1>4, <1>5, <1>8, InvFromParts DEF CommandTypes, Messages, Request

LEMMA ServiceKeepsCount ==
  ASSUME CommandInv, plays \in Nat, ServiceStep
  PROVE  CommandInv'
<1>0. CommandTypes /\ intents \in Seq(Messages)
  BY DEF CommandInv, CommandTypes, Messages
<1>1. UNCHANGED <<place, want, destroyed, begun, clean, last, asked, mode>>
  BY DEF ServiceStep, StopPlayback, StartPlayback, StopSelf, OnDestroy, commands, daemon
<1>2. /\ begun' \in Nat /\ begun' = begun /\ begun \in Nat /\ Own' /\ Owing' \subseteq Owing
      /\ Owing' = Owing
  BY <1>0, <1>1, LocalMediaAssumption DEF CommandTypes, Own, Owing, LocalMediaAssumption
<1>3. /\ intents' \in Seq(Messages) /\ svc' \in {"idle", "start", "stop", "destroy"}
      /\ StartsCounted'
  <2>1. CASE StopPlayback
    <3>1. /\ svc = "idle" /\ intents # <<>> /\ svc' = Head(intents) /\ intents' = Tail(intents)
          /\ plays' = plays
      BY <2>1 DEF StopPlayback
    <3>2. intents' \in Seq(Messages) /\ svc' \in Messages
      BY <1>0, <3>1
    <3>3. /\ Cardinality(StartsIn(intents)) \in Nat /\ Cardinality(StartsIn(intents')) \in Nat
          /\ Cardinality(StartsIn(intents')) + (IF svc' = "start" THEN 1 ELSE 0)
               <= Cardinality(StartsIn(intents))
      BY <1>0, <3>1, <3>2, StartsFinite, StartReceived
    <3>4. Starts' \in Nat /\ Starts' <= Starts
      BY <3>1, <3>3 DEF Starts
    <3>5. StartsCounted'
      BY <1>2, <3>1, <3>4, CountKept
    <3> QED
      BY <3>2, <3>5 DEF Messages
  <2>2. CASE StartPlayback
    <3>1. svc = "start" /\ svc' = "idle" /\ plays' = plays + 1 /\ UNCHANGED intents
      BY <2>2 DEF StartPlayback
    <3>2. Cardinality(StartsIn(intents)) \in Nat
      BY <1>0, StartsFinite
    <3>3. Starts' = Cardinality(StartsIn(intents)) /\ Starts = Cardinality(StartsIn(intents)) + 1
      BY <3>1, <3>2 DEF Starts
    <3>4. Cardinality(Owing') = Cardinality(Owing) /\ Cardinality(Owing) \in Nat
      BY <1>2, OwingFinite, FS_CardinalityType
    <3>5. plays + Starts + Cardinality(Owing) <= begun
      BY DEF CommandInv, StartsCounted
    <3>6. plays' + Starts' + Cardinality(Owing') <= begun'
      BY <1>2, <3>1, <3>2, <3>3, <3>4, <3>5
    <3> QED
      BY <1>0, <3>1, <3>6 DEF StartsCounted
  <2>3. CASE StopSelf \/ OnDestroy
    <3>1. svc # "start" /\ svc' = "idle" /\ plays' = plays /\ (UNCHANGED intents \/ Post("destroy"))
      BY <2>3 DEF StopSelf, OnDestroy
    <3>2. Cardinality(StartsIn(intents)) \in Nat
      BY <1>0, StartsFinite
    <3>3. /\ intents' \in Seq(Messages) /\ Cardinality(StartsIn(intents')) \in Nat
          /\ Cardinality(StartsIn(intents')) <= Cardinality(StartsIn(intents))
      <4>1. CASE UNCHANGED intents
        BY <1>0, <3>2, <4>1
      <4>2. CASE Post("destroy")
        <5>1. "destroy" \in Messages
          BY DEF Messages
        <5>2. /\ intents' \in Seq(Messages) /\ Cardinality(StartsIn(intents')) \in Nat
              /\ Cardinality(StartsIn(intents')) <= Cardinality(StartsIn(intents)) + 0
          BY <1>0, <4>2, <5>1, Added
        <5> QED
          BY <3>2, <5>2
      <4> QED
        BY <3>1, <4>1, <4>2
    <3>4. Starts' \in Nat /\ Starts' <= Starts
      BY <3>1, <3>2, <3>3 DEF Starts
    <3>5. StartsCounted'
      BY <1>2, <3>1, <3>4, CountKept
    <3> QED
      BY <3>1, <3>3, <3>5
  <2> QED
    BY <2>1, <2>2, <2>3 DEF ServiceStep
<1> QED
  BY <1>0, <1>1, <1>2, <1>3, InvFromParts DEF CommandTypes

LEMMA StutterKeepsCount ==
  ASSUME CommandInv, UNCHANGED <<commands, daemon, intents, svc, plays>>
  PROVE  CommandInv'
  BY DEF CommandInv, CommandTypes, StartsCounted, Starts, Owing, commands, daemon

(* The backlog's bound *)
Short == Len(queue) <= Backlog

LEMMA QueueStaysShort ==
  ASSUME PlaybackInv, Short, [Next]_vars
  PROVE  Short'
<1>0. Types /\ Len(queue) \in Nat /\ queue \in Seq(Connection) /\ DOMAIN queue = 1..Len(queue)
  BY DEF PlaybackInv, Types
<1>1. CASE UNCHANGED queue
  BY <1>1 DEF Short
<1>2. ASSUME NEW w \in Playbacks, Connect(w) PROVE Short'
  <2> DEFINE new == [by |-> w, n |-> 0, open |-> TRUE, live |-> TRUE]
  <2>1. new \in Connection /\ queue' = Append(queue, new) /\ Len(queue) < Backlog
    BY <1>2 DEF Connect, Connection
  <2> HIDE DEF new
  <2>2. Len(queue') = Len(queue) + 1
    BY <1>0, <2>1
  <2> QED
    BY <1>0, <2>1, <2>2, LocalMediaAssumption DEF Short, LocalMediaAssumption
<1>3. ASSUME NEW w \in Playbacks, Close(w) PROVE Short'
  <2>1. DOMAIN queue' = 1..Len(queue) /\ queue' = [i \in 1..Len(queue) |-> queue'[i]]
    BY <1>0, <1>3 DEF Close
  <2>2. Len(queue') = Len(queue)
    BY <1>0, <2>1
  <2> QED
    BY <2>2 DEF Short
<1>4. ASSUME NEW w \in Playbacks, Sent(w) PROVE Short'
  <2>1. PICK k \in DOMAIN queue : queue' = [queue EXCEPT ![k].n = @ + 1]
    BY <1>4 DEF Sent, Mine
  <2>2. Len(queue') = Len(queue)
    BY <1>0, <2>1
  <2> QED
    BY <2>2 DEF Short
<1>5. CASE TakeFrame \/ Abandon
  <2>1. Len(queue') = Len(queue)
    BY <1>0, <1>5 DEF TakeFrame, Abandon
  <2> QED
    BY <2>1 DEF Short
<1>6. CASE Drop
  <2>1. queue # <<>> /\ queue' = Tail(queue)
    BY <1>6 DEF Drop
  <2>2. Len(queue') = Len(queue) - 1
    BY <1>0, <2>1
  <2> QED
    BY <1>0, <2>2, LocalMediaAssumption DEF Short, LocalMediaAssumption
<1>7. \/ UNCHANGED queue \/ TakeFrame \/ Abandon \/ Drop
      \/ \E w \in Playbacks : Connect(w) \/ Close(w) \/ Sent(w)
  <2>1. CommandStep \/ HandleRequest \/ Rest \/ UNCHANGED vars => UNCHANGED queue
    BY CommandersStep DEF core, PlaybackInv
  <2>2. ServiceStep => UNCHANGED queue
    BY DEF ServiceStep, StopPlayback, StartPlayback, StopSelf, OnDestroy, endpoint
  <2>3. \A w \in Playbacks :
          LoopTop(w) \/ ConnectFails(w) \/ RoundEnds(w) \/ Check(w) \/ Write(w)
            \/ ConvertFails(w) \/ SendFails(w) => UNCHANGED queue
    BY DEF LoopTop, ConnectFails, RoundEnds, Check, Write, ConvertFails, SendFails, endpoint
  <2> QED
    BY <2>1, <2>2, <2>3 DEF Next, WorkerStep, ListenerStep
<1> QED
  BY <1>1, <1>2, <1>3, <1>4, <1>5, <1>6, <1>7

LEMMA OutsideStep ==
  ASSUME [Next]_vars, ~(CommandStep \/ HandleRequest \/ ServiceStep)
  PROVE  UNCHANGED <<commands, daemon, service>>
<1>1. \A w \in Playbacks :
        WorkerStep(w) \/ ConnectFails(w) \/ RoundEnds(w) \/ ListenerStep(w)
          => UNCHANGED <<commands, daemon, service>>
  BY DEF WorkerStep, LoopTop, Connect, Close, ConnectFails, RoundEnds,
         ListenerStep, Check, Write, ConvertFails, Sent, SendFails
<1>2. TakeFrame \/ Drop \/ Abandon => UNCHANGED <<commands, daemon, service>>
  BY DEF TakeFrame, Drop, Abandon
<1>3. Rest \/ UNCHANGED vars => UNCHANGED <<commands, daemon, service>>
  BY DEF Rest, vars
<1> QED
  BY <1>1, <1>2, <1>3 DEF Next

LEMMA CommandInvNext ==
  ASSUME PlaybackInv, CommandInv, [Next]_vars
  PROVE  CommandInv'
<1>0. plays \in Nat
  BY DEF PlaybackInv, Types
<1>1. CASE CommandStep
  BY <1>0, <1>1, BeginKeepsCount, AskingKeepsCount, UseServiceKeepsCount, OthersKeepCount
     DEF CommandStep
<1>2. CASE HandleRequest
  BY <1>0, <1>2, HandleRequestKeepsCount
<1>3. CASE ServiceStep
  BY <1>0, <1>3, ServiceKeepsCount
<1>4. CASE ~(CommandStep \/ HandleRequest \/ ServiceStep)
  BY <1>4, OutsideStep, StutterKeepsCount DEF service
<1> QED
  BY <1>1, <1>2, <1>3, <1>4

LEMMA CommandInvInit == Init => CommandInv /\ Short
<1> SUFFICES ASSUME Init PROVE CommandInv /\ Short
  OBVIOUS
<1> DEFINE Request == [by : Commanders \cup {"nobody"}, want : Wants]
<1>1. asked \in Seq(Request) /\ intents \in Seq({"start", "stop", "destroy"})
  <2> HIDE DEF Request
  <2> QED
    BY DEF Init
<1>2. CommandTypes
  <2>1. /\ destroyed \in BOOLEAN /\ begun \in 0..MaxCommands /\ last \in Outcomes
        /\ mode \in {"idle", "local", "network"} /\ svc \in {"idle", "start", "stop", "destroy"}
    <3>1. last \in Outcomes
      BY DEF Init, Outcomes
    <3>2. begun = 0 /\ 0 \in 0..MaxCommands
      BY LocalMediaAssumption DEF Init, LocalMediaAssumption
    <3>3. destroyed = FALSE /\ mode = "idle" /\ svc = "idle"
      BY DEF Init
    <3> QED
      BY <3>1, <3>2, <3>3
  <2>2. /\ place \in [Commanders -> {"idle", "ask", "wait", "service", "over"}]
        /\ want \in [Commanders -> Wants] /\ clean \in [Commanders -> BOOLEAN]
        /\ \A c \in Commanders : place[c] \in {"idle", "over"} => want[c] = "stop"
    BY DEF Init, Wants
  <2> QED
    BY <1>1, <2>1, <2>2 DEF CommandTypes
<1>3. Owing = {} /\ StartsIn(intents) = {} /\ Short
  BY LocalMediaAssumption DEF Init, Owing, StartsIn, Short, LocalMediaAssumption
<1>4. Cardinality({}) = 0
  BY FS_EmptySet
<1>5. StartsCounted
  <2>1. Cardinality(StartsIn(intents)) = 0 /\ Cardinality(Owing) = 0
    BY <1>3, <1>4
  <2>2. plays = 0 /\ begun = 0 /\ svc # "start"
    BY DEF Init
  <2> QED
    BY <2>1, <2>2 DEF StartsCounted, Starts
<1> QED
  BY <1>2, <1>3, <1>5 DEF CommandInv

(* For any number of commands and any backlog, every variable keeps its    *)
(* type; above all, the service never starts more playbacks than it was    *)
(* told to, so each has a flag of its own (LocalMediaService.java:60-113). *)
THEOREM TypeCorrect == Spec => []TypeOK
<1>1. PlaybackInv /\ CommandInv /\ Short => TypeOK
  <2> SUFFICES ASSUME PlaybackInv, CommandInv, Short PROVE TypeOK
    OBVIOUS
  <2>1. plays \in 0..MaxCommands
    <3>1. Cardinality(StartsIn(intents)) \in Nat /\ Cardinality(Owing) \in Nat
      BY OwingFinite, StartsFinite, FS_CardinalityType DEF CommandInv, CommandTypes
    <3>2. plays \in Nat /\ Starts \in Nat /\ begun \in 0..MaxCommands
      BY <3>1 DEF Starts, CommandInv, CommandTypes, PlaybackInv, Types
    <3>3. plays + Starts + Cardinality(Owing) <= begun
      BY DEF CommandInv, StartsCounted
    <3> QED
      BY <3>1, <3>2, <3>3, LocalMediaAssumption DEF LocalMediaAssumption
  <2>2. worker \in Playbacks \cup {NoPlayback} /\ taken \in Playbacks \cup {NoPlayback}
    BY <2>1, LocalMediaAssumption
       DEF PlaybackInv, Types, OneKnown, QueueOrdered, Playbacks, NoPlayback, LocalMediaAssumption
  <2> QED
    BY <2>1, <2>2 DEF PlaybackInv, Types, CommandInv, CommandTypes, Short, TypeOK
<1>2. Init => PlaybackInv /\ CommandInv /\ Short
  BY PlaybackInvInit, CommandInvInit
<1>3. (PlaybackInv /\ CommandInv /\ Short) /\ [Next]_vars => (PlaybackInv /\ CommandInv /\ Short)'
  BY PlaybackInvNext, CommandInvNext, QueueStaysShort
<1> QED
  BY <1>1, <1>2, <1>3, PTL DEF Spec

-------------------------------------------------------------------------------
(* The last command holds.  A command that ran alone has its request last  *)
(* in the daemon's queue and its message last in the service's; what comes *)
(* before it is carried out before it.                                     *)

(* The message handled last, or the state left by it, is no start. *)
Gone ==
  IF intents = <<>> THEN worker = NoPlayback /\ svc # "start"
                    ELSE intents[Len(intents)] # "start"

(* It is a start, and no stopSelf will follow. *)
Playing ==
  /\ svc # "stop" /\ \A i \in 1..Len(intents) : intents[i] # "stop"
  /\ IF intents = <<>> THEN svc = "start" \/ (svc = "idle" /\ worker # NoPlayback)
                       ELSE intents[Len(intents)] = "start"

AskedTracked ==
  /\ \A i \in 1..Len(asked) : asked[i].by \in Commanders => place[asked[i].by] = "wait"
  /\ \A i, j \in 1..Len(asked) :
       asked[i].by \in Commanders /\ asked[i].by = asked[j].by => i = j

Alone(c) ==
  /\ Busy(c) /\ \A d \in Commanders \ {c} : ~Busy(d)
  /\ place[c] = "wait" => asked # <<>> /\ asked[Len(asked)] = [by |-> c, want |-> want[c]]
  /\ place[c] = "service" /\ want[c] # "stop" => asked = <<>> /\ mode = want[c]
  /\ place[c] \in {"ask", "wait"} /\ want[c] = "stop" => Gone

Settled == {"local", "contested", "network", "bootNetwork", "stop"}

Concluded ==
  /\ last \in Settled => asked = <<>> /\ \A c \in Commanders : ~Busy(c)
  /\ last \in {"local", "contested"} => mode = "local"
  /\ last \in {"network", "bootNetwork"} => mode = "network"
  /\ last = "stop" => mode = "idle"
  /\ last = "local" => Playing
  /\ last \in {"network", "stop", "dismissed"} => Gone

LastInv ==
  AskedTracked /\ (\A c \in Commanders : clean[c] => Alone(c)) /\ Concluded

LEMMA AskedFacts ==
  ASSUME CommandTypes
  PROVE  /\ asked \in Seq([by : Commanders \cup {"nobody"}, want : Wants])
         /\ Len(asked) \in Nat /\ DOMAIN asked = 1..Len(asked)
         /\ \A i \in 1..Len(asked) :
              /\ asked[i] \in [by : Commanders \cup {"nobody"}, want : Wants]
              /\ asked[i].by \in Commanders \cup {"nobody"}
         /\ "nobody" \notin Commanders
<1> DEFINE Request == [by : Commanders \cup {"nobody"}, want : Wants]
<1>1. asked \in Seq(Request)
  BY DEF CommandTypes
<1>2. \A r \in Request : r.by \in Commanders \cup {"nobody"}
  OBVIOUS
<1>3. /\ Len(asked) \in Nat /\ DOMAIN asked = 1..Len(asked)
      /\ \A i \in 1..Len(asked) : asked[i] \in Request
  <2> HIDE DEF Request
  <2> QED
    BY <1>1
<1>4. "nobody" \notin Commanders
  BY DEF Commanders
<1> QED
  BY <1>1, <1>2, <1>3, <1>4

LEMMA PostedGone ==
  ASSUME intents \in Seq(Messages), NEW m \in Messages, Post(m), m # "start"
  PROVE  Gone'
<1>1. intents' = Append(intents, m)
  BY DEF Post
<1>2. intents' # <<>> /\ intents'[Len(intents')] = m
  BY <1>1
<1> QED
  BY <1>2 DEF Gone

LEMMA PostedPlaying ==
  ASSUME intents \in Seq(Messages), ~Stopping, Post("start"), svc' = svc
  PROVE  Playing'
<1>1. svc # "stop" /\ \A i \in 1..Len(intents) : intents[i] # "stop"
  BY DEF Stopping, Contains
<1>2. intents' = Append(intents, "start") /\ "start" \in Messages
  BY DEF Post, Messages
<1>3. /\ intents' # <<>> /\ intents'[Len(intents')] = "start"
      /\ Len(intents) \in Nat /\ Len(intents') = Len(intents) + 1
      /\ \A i \in 1..Len(intents) : intents'[i] = intents[i]
  BY <1>2
<1>4. \A i \in 1..Len(intents') : i \in 1..Len(intents) \/ i = Len(intents')
  BY <1>3
<1>5. \A i \in 1..Len(intents') : intents'[i] # "stop"
  BY <1>1, <1>3, <1>4
<1> QED
  BY <1>1, <1>3, <1>5 DEF Playing

LEMMA ServiceSettles ==
  ASSUME PlaybackInv, CommandTypes, ServiceStep
  PROVE  (Gone => Gone') /\ (Playing => Playing')
<1>0. /\ intents \in Seq(Messages) /\ plays \in Nat
      /\ svc # "idle" => worker = NoPlayback
  BY DEF PlaybackInv, Types, OneKnown, CommandTypes, Messages
<1>1. CASE StopPlayback
  <2>1. /\ svc = "idle" /\ intents # <<>> /\ svc' = Head(intents) /\ intents' = Tail(intents)
        /\ worker' = NoPlayback
    BY <1>1 DEF StopPlayback
  <2>2. /\ Len(intents) \in Nat \ {0} /\ Len(intents') = Len(intents) - 1
        /\ svc' = intents[1] /\ \A i \in 1..Len(intents') : intents'[i] = intents[i + 1]
    BY <1>0, <2>1
  <2>3. CASE intents' = <<>>
    <3>1. Len(intents) = 1
      BY <2>2, <2>3
    <3> QED
      BY <2>1, <2>2, <2>3, <3>1 DEF Gone, Playing
  <2>4. CASE intents' # <<>>
    <3>1. Len(intents') \in 1..Len(intents') /\ Len(intents') + 1 = Len(intents)
      BY <1>0, <2>1, <2>2, <2>4
    <3>2. intents'[Len(intents')] = intents[Len(intents)]
      BY <2>2, <3>1
    <3>3. Gone => Gone'
      BY <2>1, <2>4, <3>2 DEF Gone
    <3>4. ASSUME \A i \in 1..Len(intents) : intents[i] # "stop"
          PROVE  svc' # "stop" /\ \A i \in 1..Len(intents') : intents'[i] # "stop"
      <4>1. 1 \in 1..Len(intents) /\ \A i \in 1..Len(intents') : i + 1 \in 1..Len(intents)
        BY <2>2
      <4> QED
        BY <2>2, <3>4, <4>1
    <3>5. Playing => Playing'
      BY <2>1, <2>4, <3>2, <3>4 DEF Playing
    <3> QED
      BY <3>3, <3>5
  <2> QED
    BY <2>3, <2>4
<1>2. CASE StartPlayback
  BY <1>0, <1>2 DEF StartPlayback, Gone, Playing, NoPlayback
<1>3. CASE StopSelf
  <2>1. svc = "stop" /\ svc' = "idle" /\ worker' = worker
    BY <1>3 DEF StopSelf
  <2>2. ~Playing
    BY <2>1 DEF Playing
  <2>3. Gone => Gone'
    <3>1. CASE Post("destroy")
      BY <1>0, <3>1, PostedGone DEF Messages
    <3>2. CASE UNCHANGED intents
      BY <2>1, <3>2 DEF Gone
    <3> QED
      BY <1>3, <3>1, <3>2 DEF StopSelf
  <2> QED
    BY <2>2, <2>3
<1>4. CASE OnDestroy
  BY <1>4 DEF OnDestroy, Gone, Playing
<1> QED
  BY <1>1, <1>2, <1>3, <1>4 DEF ServiceStep

LEMMA BusyFacts ==
  ASSUME LastInv, NEW c \in Commanders, Busy(c)
  PROVE  (\A d \in Commanders \ {c} : ~clean[d]) /\ last \notin Settled
  BY DEF LastInv, Alone, Concluded

LEMMA CommandsRest ==
  ASSUME LastInv, UNCHANGED <<place, want, clean, last, asked, mode>>,
         Gone => Gone', Playing => Playing'
  PROVE  LastInv'
<1>1. AskedTracked'
  BY DEF LastInv, AskedTracked
<1>2. \A c \in Commanders : clean'[c] => Alone(c)'
  BY DEF LastInv, Alone, Busy
<1>3. Concluded'
  BY DEF LastInv, Concluded, Busy
<1> QED
  BY <1>1, <1>2, <1>3 DEF LastInv

(* What End leaves when the outcome settles nothing. *)
LEMMA EndingLast ==
  ASSUME CommandTypes, LastInv, NEW c \in Commanders, Busy(c), NEW outcome, End(c, outcome)
  PROVE  /\ \A d \in Commanders : ~clean'[d]
         /\ last' = IF clean[c] THEN outcome ELSE "unknown"
         /\ place'[c] \in {"idle", "over"} /\ want'[c] = "stop"
         /\ \A d \in Commanders \ {c} : place'[d] = place[d] /\ want'[d] = want[d]
<1>1. \A d \in Commanders \ {c} : ~clean[d]
  BY BusyFacts
<1>2. /\ place \in [Commanders -> {"idle", "ask", "wait", "service", "over"}]
      /\ want \in [Commanders -> Wants] /\ clean \in [Commanders -> BOOLEAN]
  BY DEF CommandTypes
<1>3. /\ place' = [place EXCEPT ![c] = IF c = "boot" THEN "over" ELSE "idle"]
      /\ want' = [want EXCEPT ![c] = "stop"] /\ clean' = [clean EXCEPT ![c] = FALSE]
      /\ last' = IF clean[c] THEN outcome ELSE "unknown"
  BY DEF End, Go
<1> QED
  BY <1>1, <1>2, <1>3

LEMMA NothingSettled ==
  ASSUME \A d \in Commanders : ~clean'[d], last' \in {"failed", "unknown"}, AskedTracked'
  PROVE  LastInv'
  BY DEF LastInv, Concluded, Settled

LEMMA BeginKeepsLast ==
  ASSUME CommandTypes, LastInv, NEW c \in Commanders, NEW command \in Wants, Begin(c, command)
  PROVE  LastInv'
<1>1. /\ place[c] = "idle" /\ UNCHANGED asked /\ last' = "none"
      /\ place' = [place EXCEPT ![c] = IF command = "stop" THEN "service" ELSE "ask"]
      /\ want' = [want EXCEPT ![c] = command]
      /\ clean' = [d \in Commanders |-> d = c /\ ~\E e \in Commanders : Busy(e)]
  BY DEF Begin, Go, daemon
<1>2. /\ place'[c] = (IF command = "stop" THEN "service" ELSE "ask") /\ want'[c] = command
      /\ \A d \in Commanders \ {c} : place'[d] = place[d] /\ want'[d] = want[d]
  BY <1>1 DEF CommandTypes
<1>3. AskedTracked'
  BY <1>1, <1>2, AskedFacts DEF LastInv, AskedTracked
<1>4. ASSUME NEW d \in Commanders, clean'[d] PROVE Alone(d)'
  <2>1. d = c /\ \A e \in Commanders : ~Busy(e)
    BY <1>1, <1>4
  <2>2. Busy(c)' /\ \A e \in Commanders \ {c} : ~Busy(e)'
    BY <1>2, <2>1 DEF Busy
  <2> QED
    BY <1>2, <2>1, <2>2 DEF Alone
<1>5. Concluded'
  BY <1>1 DEF Concluded, Settled
<1> QED
  BY <1>3, <1>4, <1>5 DEF LastInv

LEMMA AskKeepsLast ==
  ASSUME CommandTypes, LastInv, NEW c \in Commanders, Ask(c)
  PROVE  LastInv'
<1> DEFINE new == [by |-> c, want |-> want[c]]
           n == Len(asked) + 1
<1>1. /\ place[c] = "ask" /\ asked' = Append(asked, new)
      /\ place' = [place EXCEPT ![c] = "wait"]
      /\ UNCHANGED <<want, clean, last, mode, intents, svc, worker>>
  BY DEF Ask, Go, service
<1>2. place'[c] = "wait" /\ \A d \in Commanders \ {c} : place'[d] = place[d]
  BY <1>1 DEF CommandTypes
<1>3. /\ Len(asked) \in Nat /\ Len(asked') = n /\ asked' # <<>> /\ asked'[n] = new
      /\ \A i \in 1..Len(asked) : asked'[i] = asked[i]
      /\ \A i \in 1..n : i \in 1..Len(asked) \/ i = n
  <2>1. asked \in Seq([by : Commanders \cup {"nobody"}, want : Wants]) /\ new \in [by : Commanders \cup {"nobody"}, want : Wants]
    BY AskedFacts DEF CommandTypes
  <2> HIDE DEF new
  <2> QED
    BY <1>1, <2>1
<1>4. Busy(c) /\ (\A d \in Commanders \ {c} : ~clean[d]) /\ last \notin Settled
  BY <1>1, BusyFacts DEF Busy
<1>5. new.by = c
  OBVIOUS
<1> HIDE DEF new, n
<1>6. AskedTracked'
  <2>1. \A i \in 1..Len(asked) : asked[i].by \in Commanders => place[asked[i].by] = "wait"
    BY DEF LastInv, AskedTracked
  <2>2. \A i \in 1..Len(asked) : asked[i].by # c
    BY <1>1, <2>1
  <2>3. \A i \in 1..Len(asked') : asked'[i].by \in Commanders => place'[asked'[i].by] = "wait"
    BY <1>2, <1>3, <1>5, <2>1, <2>2
  <2>4. \A i, j \in 1..Len(asked') :
          asked'[i].by \in Commanders /\ asked'[i].by = asked'[j].by => i = j
    BY <1>3, <1>5, <2>2 DEF LastInv, AskedTracked
  <2> QED
    BY <2>3, <2>4 DEF AskedTracked
<1>7. ASSUME NEW d \in Commanders, clean'[d] PROVE Alone(d)'
  <2>1. d = c /\ clean[c] /\ Alone(c)
    BY <1>1, <1>4, <1>7 DEF LastInv
  <2>2. Busy(c)' /\ \A e \in Commanders \ {c} : ~Busy(e)'
    BY <1>2, <2>1 DEF Busy, Alone
  <2>3. asked'[Len(asked')] = [by |-> c, want |-> want[c]]
    BY <1>3 DEF new
  <2>4. want[c] = "stop" => Gone'
    BY <1>1, <2>1 DEF Alone, Gone
  <2> QED
    BY <1>1, <1>2, <1>3, <2>1, <2>2, <2>3, <2>4 DEF Alone
<1>8. Concluded'
  BY <1>1, <1>4 DEF LastInv, Concluded, Settled, Gone
<1> QED
  BY <1>6, <1>7, <1>8 DEF LastInv

LEMMA FailuresKeepLast ==
  ASSUME CommandTypes, LastInv, NEW c \in Commanders, AskFails(c) \/ GiveUp(c)
  PROVE  LastInv'
<1>1. Busy(c) /\ End(c, "failed")
  BY DEF AskFails, GiveUp, Busy
<1>2. /\ \A d \in Commanders : ~clean'[d]
      /\ last' \in {"failed", "unknown"}
      /\ \A d \in Commanders \ {c} : place'[d] = place[d]
  BY <1>1, EndingLast
<1>3. AskedTracked'
  <2>1. CASE AskFails(c)
    <3>1. place[c] = "ask" /\ UNCHANGED asked
      BY <2>1 DEF AskFails, daemon
    <3> QED
      BY <1>2, <3>1, AskedFacts DEF LastInv, AskedTracked
  <2>2. CASE GiveUp(c)
    <3>1. /\ Len(asked) \in Nat /\ DOMAIN asked = 1..Len(asked)
          /\ \A i \in 1..Len(asked) : asked[i] \in [by : Commanders \cup {"nobody"}, want : Wants]
      BY AskedFacts
    <3>2. asked' = [i \in 1..Len(asked) |->
                     IF asked[i].by = c THEN [asked[i] EXCEPT !.by = "nobody"] ELSE asked[i]]
      BY <2>2, <3>1 DEF GiveUp
    <3>3. \A i \in 1..Len(asked) :
            IF asked[i].by = c THEN asked'[i].by = "nobody" ELSE asked'[i] = asked[i]
      BY <3>1, <3>2
    <3>4. Len(asked') = Len(asked)
      BY <3>1, <3>2
    <3> QED
      BY <1>2, <3>3, <3>4, AskedFacts DEF LastInv, AskedTracked
  <2> QED
    BY <2>1, <2>2
<1> QED
  BY <1>2, <1>3, NothingSettled

LEMMA UseServiceKeepsLast ==
  ASSUME CommandTypes, LastInv, NEW c \in Commanders, UseService(c)
  PROVE  LastInv'
<1>1. /\ place[c] = "service" /\ Busy(c) /\ TellService(c)
      /\ UNCHANGED <<asked, mode, svc, worker>> /\ want[c] \in Wants
      /\ intents \in Seq(Messages) /\ "stop" \in Messages
  BY DEF UseService, daemon, Busy, CommandTypes, Messages
<1>2. (\A d \in Commanders \ {c} : ~clean[d]) /\ last \notin Settled
  BY <1>1, BusyFacts
<1>3. CASE want[c] = "stop"
  <2>1. /\ place' = [place EXCEPT ![c] = "ask"] /\ UNCHANGED <<want, clean, last>>
    BY <1>3 DEF UseService, Go
  <2>2. place'[c] = "ask" /\ \A d \in Commanders \ {c} : place'[d] = place[d]
    BY <2>1 DEF CommandTypes
  <2>3. Post("stop")
    BY <1>1, <1>3 DEF TellService
  <2>4. Gone'
    BY <1>1, <2>3, PostedGone
  <2>5. AskedTracked'
    BY <1>1, <2>2, AskedFacts DEF LastInv, AskedTracked
  <2>6. ASSUME NEW d \in Commanders, clean'[d] PROVE Alone(d)'
    <3>1. d = c /\ clean[c] /\ Alone(c)
      BY <1>2, <2>1, <2>6 DEF LastInv
    <3>2. Busy(c)' /\ \A e \in Commanders \ {c} : ~Busy(e)'
      BY <2>2, <3>1 DEF Busy, Alone
    <3> QED
      BY <2>2, <2>4, <3>1, <3>2 DEF Alone
  <2>7. Concluded'
    BY <1>2, <2>1, <2>4 DEF Concluded, Settled
  <2> QED
    BY <2>5, <2>6, <2>7 DEF LastInv
<1>4. CASE want[c] # "stop"
  <2>1. End(c, StartOutcome(c))
    BY <1>4 DEF UseService
  <2>2. /\ \A d \in Commanders : ~clean'[d]
        /\ last' = IF clean[c] THEN StartOutcome(c) ELSE "unknown"
        /\ place'[c] \in {"idle", "over"}
        /\ \A d \in Commanders \ {c} : place'[d] = place[d]
    BY <1>1, <2>1, EndingLast
  <2>3. AskedTracked'
    BY <1>1, <2>2, AskedFacts DEF LastInv, AskedTracked
  <2>4. CASE ~clean[c]
    BY <2>2, <2>3, <2>4, NothingSettled
  <2>5. CASE clean[c]
    <3>1. asked = <<>> /\ mode = want[c] /\ \A d \in Commanders \ {c} : ~Busy(d)
      BY <1>1, <1>4, <2>5 DEF LastInv, Alone
    <3>2. asked' = <<>> /\ \A d \in Commanders : ~Busy(d)'
      BY <1>1, <2>2, <3>1 DEF Busy
    <3>3. CASE want[c] = "local"
      <4>1. Post("start") /\ mode' = "local"
        BY <1>1, <3>1, <3>3 DEF TellService
      <4>2. last' = IF Stopping THEN "contested" ELSE "local"
        BY <2>2, <2>5, <3>3 DEF StartOutcome
      <4>3. ~Stopping => Playing'
        BY <1>1, <4>1, PostedPlaying
      <4>4. Concluded'
        BY <3>2, <4>1, <4>2, <4>3 DEF Concluded, Settled
      <4> QED
        BY <2>2, <2>3, <4>4 DEF LastInv
    <3>4. CASE want[c] = "network"
      <4>1. last' = (IF c = "boot" THEN "bootNetwork" ELSE "network") /\ mode' = "network"
        BY <1>1, <2>2, <2>5, <3>1, <3>4 DEF StartOutcome
      <4>2. c # "boot" => Gone'
        BY <1>1, <3>4, PostedGone DEF TellService
      <4>3. Concluded'
        BY <3>2, <4>1, <4>2 DEF Concluded, Settled
      <4> QED
        BY <2>2, <2>3, <4>3 DEF LastInv
    <3> QED
      BY <1>1, <1>4, <3>3, <3>4 DEF Wants
  <2> QED
    BY <2>4, <2>5
<1> QED
  BY <1>3, <1>4

LEMMA DismissKeepsLast ==
  ASSUME CommandTypes, LastInv, Dismiss
  PROVE  LastInv'
<1>1. /\ Post("stop") /\ last' = "dismissed" /\ clean' = [d \in Commanders |-> FALSE]
      /\ UNCHANGED <<place, asked>>
  BY DEF Dismiss, daemon
<1>2. intents \in Seq(Messages) /\ "stop" \in Messages
  BY DEF CommandTypes, Messages
<1>3. Gone'
  BY <1>1, <1>2, PostedGone
<1>4. AskedTracked'
  BY <1>1 DEF LastInv, AskedTracked
<1> QED
  BY <1>1, <1>3, <1>4 DEF LastInv, Concluded, Settled

LEMMA HandleRequestKeepsLast ==
  ASSUME CommandTypes, LastInv, HandleRequest
  PROVE  LastInv'
<1> DEFINE Request == [by : Commanders \cup {"nobody"}, want : Wants]
           head == asked[1]
<1>1. /\ asked # <<>> /\ asked' = Tail(asked) /\ head = Head(asked)
      /\ UNCHANGED <<intents, svc, worker>>
  <2>1. asked # <<>> /\ asked' = Tail(asked) /\ UNCHANGED <<intents, svc, worker>>
    BY DEF HandleRequest, service
  <2> QED
    BY <2>1
<1>2. /\ Len(asked) \in Nat \ {0} /\ Len(asked') = Len(asked) - 1
      /\ \A i \in 1..Len(asked') : asked'[i] = asked[i + 1] /\ i + 1 \in 1..Len(asked)
      /\ 1 \in 1..Len(asked)
  <2>1. asked \in Seq(Request)
    BY AskedFacts
  <2> HIDE DEF Request
  <2> QED
    BY <1>1, <2>1
<1>3. head.by \in Commanders \cup {"nobody"} /\ "nobody" \notin Commanders
  BY <1>2, AskedFacts
<1> HIDE DEF head, Request
<1>4. /\ last \notin Settled
      /\ \A i \in 1..Len(asked) : asked[i].by \in Commanders => place[asked[i].by] = "wait"
      /\ \A i, j \in 1..Len(asked) : asked[i].by \in Commanders /\ asked[i].by = asked[j].by => i = j
  BY <1>1 DEF LastInv, Concluded, AskedTracked
<1>5. \A i, j \in 1..Len(asked') : asked'[i].by \in Commanders /\ asked'[i].by = asked'[j].by => i = j
  <2> SUFFICES ASSUME NEW i \in 1..Len(asked'), NEW j \in 1..Len(asked'),
                      asked'[i].by \in Commanders, asked'[i].by = asked'[j].by
               PROVE  i = j
    OBVIOUS
  <2>1. i + 1 = j + 1
    BY <1>2, <1>4
  <2> QED
    BY <1>2, <2>1
<1>6. (Gone <=> Gone') /\ (Playing <=> Playing')
  BY <1>1 DEF Gone, Playing
<1>7. CASE head.by = "nobody"
  <2>1. UNCHANGED <<place, want, clean, last>>
    BY <1>1, <1>7 DEF HandleRequest, commands
  <2>2. AskedTracked'
    BY <1>2, <1>4, <1>5, <2>1 DEF AskedTracked
  <2>3. ASSUME NEW c \in Commanders, clean'[c] PROVE Alone(c)'
    <3>1. Alone(c)
      BY <2>1, <2>3 DEF LastInv
    <3>2. place[c] = "wait" => asked' # <<>> /\ asked'[Len(asked')] = asked[Len(asked)]
      <4> SUFFICES ASSUME place[c] = "wait"
                   PROVE  asked' # <<>> /\ asked'[Len(asked')] = asked[Len(asked)]
        OBVIOUS
      <4>1. asked[Len(asked)].by = c
        BY <3>1 DEF Alone
      <4>2. Len(asked) # 1
        BY <1>3, <1>7, <4>1 DEF head
      <4> QED
        BY <1>2, <4>2
    <3>3. ~(place[c] = "service" /\ want[c] # "stop")
      BY <1>1, <3>1 DEF Alone
    <3> QED
      BY <1>6, <2>1, <3>1, <3>2, <3>3 DEF Alone, Busy
  <2>4. Concluded'
    BY <1>4, <1>6, <2>1 DEF LastInv, Concluded, Settled
  <2> QED
    BY <2>2, <2>3, <2>4 DEF LastInv
<1>8. CASE head.by \in Commanders
  <2>0. PICK c \in Commanders : c = head.by
    BY <1>8
  <2>1. /\ place[c] = "wait" /\ Busy(c)
        /\ \A i \in 1..Len(asked) : i # 1 => asked[i].by # c
    BY <1>2, <1>4, <2>0 DEF head, Busy
  <2>2. \A d \in Commanders \ {c} : ~clean[d]
    BY <2>1, BusyFacts
  <2>3. clean[c] => /\ Len(asked) = 1 /\ asked' = <<>> /\ head.want = want[c]
                    /\ \A d \in Commanders \ {c} : ~Busy(d)
    <3> SUFFICES ASSUME clean[c]
                 PROVE  /\ Len(asked) = 1 /\ asked' = <<>> /\ head.want = want[c]
                        /\ \A d \in Commanders \ {c} : ~Busy(d)
      OBVIOUS
    <3>1. Alone(c)
      BY DEF LastInv
    <3>2. asked[Len(asked)].by = c /\ asked[Len(asked)].want = want[c]
      BY <2>1, <3>1 DEF Alone
    <3>3. Len(asked) = 1
      BY <1>2, <2>1, <3>2
    <3>4. asked' = <<>>
      <4>1. asked \in Seq(Request)
        BY AskedFacts DEF Request
      <4> QED
        BY <1>1, <3>3, <4>1
    <3> QED
      BY <3>1, <3>2, <3>3, <3>4 DEF Alone, head
  <2>4. ASSUME \A d \in Commanders \ {c} : place'[d] = place[d] PROVE AskedTracked'
    <3>1. \A i \in 1..Len(asked') : asked'[i].by # c
      BY <1>2, <2>1
    <3>2. \A i \in 1..Len(asked') : asked'[i].by \in Commanders => place'[asked'[i].by] = "wait"
      BY <1>2, <1>4, <2>4, <3>1
    <3> QED
      BY <1>5, <3>2 DEF AskedTracked
  <2>5. \/ /\ head.want # "stop" /\ mode' = head.want /\ Go(c, "service")
           /\ UNCHANGED <<want, clean, last>>
        \/ head.want = "stop" /\ mode' = "idle" /\ End(c, "stop")
        \/ End(c, "failed")
    BY <1>1, <1>3, <2>0 DEF HandleRequest
  <2>6. CASE /\ head.want # "stop" /\ mode' = head.want /\ Go(c, "service")
             /\ UNCHANGED <<want, clean, last>>
    <3>1. place'[c] = "service" /\ \A d \in Commanders \ {c} : place'[d] = place[d]
      BY <2>6 DEF Go, CommandTypes
    <3>2. ASSUME NEW d \in Commanders, clean'[d] PROVE Alone(d)'
      <4>1. d = c /\ clean[c]
        BY <2>2, <2>6, <3>2
      <4>2. Busy(c)' /\ \A e \in Commanders \ {c} : ~Busy(e)'
        BY <2>3, <3>1, <4>1 DEF Busy
      <4> QED
        BY <2>3, <2>6, <3>1, <4>1, <4>2 DEF Alone
    <3>3. Concluded'
      BY <1>4, <1>6, <2>6 DEF LastInv, Concluded, Settled
    <3> QED
      BY <2>4, <3>1, <3>2, <3>3 DEF LastInv
  <2>7. CASE head.want = "stop" /\ mode' = "idle" /\ End(c, "stop")
    <3>1. /\ \A d \in Commanders : ~clean'[d]
          /\ last' = IF clean[c] THEN "stop" ELSE "unknown"
          /\ place'[c] \in {"idle", "over"}
          /\ \A d \in Commanders \ {c} : place'[d] = place[d]
      BY <2>1, <2>7, EndingLast
    <3>2. CASE ~clean[c]
      BY <2>4, <3>1, <3>2, NothingSettled
    <3>3. CASE clean[c]
      <4>1. asked' = <<>> /\ \A d \in Commanders : ~Busy(d)'
        BY <2>3, <3>1, <3>3 DEF Busy
      <4>2. Gone'
        <5>1. Alone(c)
          BY <3>3 DEF LastInv
        <5> QED
          BY <1>6, <2>1, <2>3, <2>7, <3>3, <5>1 DEF Alone
      <4>3. Concluded'
        BY <2>7, <3>1, <3>3, <4>1, <4>2 DEF Concluded, Settled
      <4> QED
        BY <2>4, <3>1, <4>3 DEF LastInv
    <3> QED
      BY <3>2, <3>3
  <2>8. CASE End(c, "failed")
    <3>1. /\ \A d \in Commanders : ~clean'[d]
          /\ last' \in {"failed", "unknown"}
          /\ \A d \in Commanders \ {c} : place'[d] = place[d]
      BY <2>1, <2>8, EndingLast
    <3> QED
      BY <2>4, <3>1, NothingSettled
  <2> QED
    BY <2>5, <2>6, <2>7, <2>8
<1> QED
  BY <1>3, <1>7, <1>8

LEMMA LastInvNext ==
  ASSUME PlaybackInv, CommandInv, LastInv, [Next]_vars
  PROVE  LastInv'
<1>0. CommandTypes
  BY DEF CommandInv
<1>1. CASE CommandStep
  <2>1. CASE Recreate
    <3>1. UNCHANGED <<place, want, clean, last, asked, mode, intents, svc, worker>>
      BY <2>1 DEF Recreate, daemon, service
    <3>2. (Gone => Gone') /\ (Playing => Playing')
      BY <3>1 DEF Gone, Playing
    <3> QED
      BY <3>1, <3>2, CommandsRest
  <2>2. CASE \E c \in Commanders : \E command \in Wants : Begin(c, command)
    BY <1>0, <2>2, BeginKeepsLast
  <2>3. CASE \E c \in Commanders : AskFails(c) \/ GiveUp(c)
    BY <1>0, <2>3, FailuresKeepLast
  <2>4. CASE \E c \in Commanders : Ask(c)
    BY <1>0, <2>4, AskKeepsLast
  <2>5. CASE \E c \in Commanders : UseService(c)
    BY <1>0, <2>5, UseServiceKeepsLast
  <2>6. CASE Dismiss
    BY <1>0, <2>6, DismissKeepsLast
  <2> QED
    BY <1>1, <2>1, <2>2, <2>3, <2>4, <2>5, <2>6 DEF CommandStep
<1>2. CASE HandleRequest
  BY <1>0, <1>2, HandleRequestKeepsLast
<1>3. CASE ServiceStep
  <2>1. UNCHANGED <<place, want, clean, last, asked, mode>>
    BY <1>3 DEF ServiceStep, StopPlayback, StartPlayback, StopSelf, OnDestroy, commands, daemon
  <2> QED
    BY <1>0, <1>3, <2>1, ServiceSettles, CommandsRest
<1>4. CASE ~(CommandStep \/ HandleRequest \/ ServiceStep)
  <2>1. UNCHANGED <<commands, daemon, service>>
    BY <1>4, OutsideStep
  <2>2. (Gone => Gone') /\ (Playing => Playing')
    BY <2>1 DEF Gone, Playing, service
  <2> QED
    BY <2>1, <2>2, CommandsRest DEF commands, daemon
<1> QED
  BY <1>1, <1>2, <1>3, <1>4

(* For any number of commands, by any of the commanders: when all is       *)
(* quiet, daemon and service do what the last command said, if it ran      *)
(* alone and succeeded, whatever requests were given up before it          *)
(* (MainActivity.java:238-281, BootReceiver.java:24-45).                   *)
THEOREM LastCommandWins == Spec => []LastCommandHolds
<1> DEFINE Inv == PlaybackInv /\ CommandInv /\ LastInv
<1>1. Inv => LastCommandHolds
  BY DEF LastInv, Concluded, Gone, Playing, Quiet, LastCommandHolds
<1>2. Init => Inv
  <2> SUFFICES ASSUME Init PROVE LastInv
    BY PlaybackInvInit, CommandInvInit
  <2>1. asked = <<>> /\ last = "none" /\ \A c \in Commanders : ~clean[c]
    BY DEF Init
  <2>2. AskedTracked
    BY <2>1 DEF AskedTracked
  <2> QED
    BY <2>1, <2>2 DEF LastInv, Concluded, Settled
<1>3. Inv /\ [Next]_vars => Inv'
  BY PlaybackInvNext, CommandInvNext, LastInvNext
<1> HIDE DEF Inv
<1> QED
  BY <1>1, <1>2, <1>3, PTL DEF Spec
=============================================================================
