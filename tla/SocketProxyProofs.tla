--------------------------- MODULE SocketProxyProofs ---------------------------
(***************************************************************************)
(* Theorems about SocketProxy, for any number of clients and buffers of    *)
(* any size: its variables have their types, and requests and replies pass *)
(* the relay whole.                                                        *)
(*                                                                         *)
(* The inductive invariant follows a connection from the backlog over the  *)
(* relay to the daemon and back.  While the daemon reads, what it has not  *)
(* read of a request is exactly what the streams and the relay hold, and   *)
(* the relay does not let go; once it has replied, the same holds of the   *)
(* reply until the client has gone.                                        *)
(***************************************************************************)
EXTENDS SocketProxy, TLAPS

HeldFor(c, place) == IF cur = c /\ pc = place THEN held ELSE 0

(* What is under way to the daemon and to the client. *)
ToDaemon(c) == up[c].n + HeldFor(c, "writeTarget") + fwd[c].n
ToClient(c) == back[c].n + HeldFor(c, "writeClient") + down[c].n

Queued(c) == \E i \in 1..Len(pending) : pending[i] = c
Reading(c) == Queued(c) \/ (served = c /\ dpc = "read")
Awaiting(c) == Reading(c) \/ (served = c /\ dpc = "reply")

NoDup(s) == \A i, j \in 1..Len(s) : s[i] = s[j] => i = j

RelayPlace ==
  /\ pc \in {"accept", "done"} <=> cur = NoClient
  /\ pc \in {"writeTarget", "writeClient"} => held > 0
  /\ cur = NoClient => events = {}

DaemonPlace == dpc = "accept" <=> served = NoClient

Queues ==
  /\ NoDup(backlog) /\ NoDup(pending)
  /\ \A c \in Clients : served = c => ~Queued(c)

(* A connection in the backlog is as Connect has made it, but for what the *)
(* client has sent.                                                        *)
Waiting(c) ==
  Waits(c) =>
    /\ cur # c /\ "relayClient" \in open[c] /\ open[c] \cap {"relayTarget", "daemon"} = {}
    /\ reset[c] = {} /\ fwd[c] = Empty /\ back[c] = Empty /\ down[c] = Empty
    /\ unread[c] = up[c].n /\ undelivered[c] = 0 /\ sawEnd[c] = {}

(* Who holds which end, and what the ends of streams say of them. *)
Sides(c) ==
  /\ cur = c => {"relayClient", "relayTarget"} \subseteq open[c]
  /\ "relayTarget" \in open[c] => cur = c
  /\ "relayClient" \in open[c] => cur = c \/ Waits(c)
  /\ "daemon" \in open[c] <=> Queued(c) \/ served = c
  /\ Waits(c) \/ cur = c => "client" \in open[c] \/ up[c].fin
  /\ "relayClient" \in reset[c] => up[c].fin /\ "client" \notin open[c]
  /\ cur = c /\ pc = "client" /\ "client" \in events => up[c].n > 0 \/ up[c].fin
  /\ cur = c /\ "target" \notin readable => down[c].fin
  /\ "client" \in sawEnd[c] => down[c].fin

(* Nothing arrives that was not sent. *)
Counted(c) == unread[c] >= ToDaemon(c) /\ undelivered[c] >= ToClient(c)

(* Before the reply nothing is on its way to the client. *)
Unanswered(c) ==
  /\ Awaiting(c) =>
       undelivered[c] = 0 /\ back[c] = Empty /\ reset[c] \cap {"relayClient", "relayTarget"} = {}
  /\ Reading(c) => "daemon" \notin sawEnd[c]

(* The relay does not let go of a connection that awaits its reply. *)
Kept(c) ==
  Awaiting(c) /\ ~stop =>
    /\ cur = c /\ pc # "close" /\ ~down[c].fin
    /\ events \cap {"target", "error"} = {}

(* A request loses nothing, and its end comes last. *)
RequestKept(c) ==
  ~stop =>
    /\ Reading(c) =>
         /\ unread[c] = ToDaemon(c)
         /\ fwd[c].fin => up[c].n = 0 /\ up[c].fin /\ HeldFor(c, "writeTarget") = 0
    /\ "daemon" \in sawEnd[c] => unread[c] = 0 /\ up[c].fin

(* Nor does a reply while its client is there. *)
ReplyKept(c) ==
  ~stop /\ "daemon" \in sawEnd[c] =>
    /\ ~Awaiting(c) /\ "client" \in open[c] =>
         /\ undelivered[c] = ToClient(c)
         /\ down[c].fin => back[c].n = 0 /\ HeldFor(c, "writeClient") = 0
         /\ cur = c => "error" \notin events /\ (pc = "close" => back[c].n = 0)
    /\ "relayTarget" \notin reset[c]
    /\ "client" \in sawEnd[c] => undelivered[c] = 0

Connection(c) ==
  /\ Waiting(c) /\ Sides(c) /\ Counted(c) /\ Unanswered(c)
  /\ Kept(c) /\ RequestKept(c) /\ ReplyKept(c)

Places == RelayPlace /\ DaemonPlace /\ Queues
ProxyInv == TypeOK /\ Places /\ \A c \in Clients : Connection(c)

(* What happens to a stream. *)
LEMMA TakeFacts ==
  ASSUME NEW s \in [Clients -> Stream], NEW c \in Clients
  PROVE  /\ Take(s, c) \in [Clients -> Stream]
         /\ Take(s, c)[c].n = 0 /\ Take(s, c)[c].fin = s[c].fin
         /\ \A d \in Clients : d # c => Take(s, c)[d] = s[d]
  BY ProxyAssumption DEF ProxyAssumption, Take, Stream

LEMMA FinishFacts ==
  ASSUME NEW s \in [Clients -> Stream], NEW c \in Clients
  PROVE  /\ Finish(s, c) \in [Clients -> Stream]
         /\ Finish(s, c)[c].n = s[c].n /\ Finish(s, c)[c].fin = TRUE
         /\ \A d \in Clients : d # c => Finish(s, c)[d] = s[d]
  BY DEF Finish, Stream

LEMMA AddFacts ==
  ASSUME NEW s \in [Clients -> Stream], NEW c \in Clients, s[c].n < Cap
  PROVE  /\ Add(s, c) \in [Clients -> Stream]
         /\ Add(s, c)[c].n = s[c].n + 1 /\ Add(s, c)[c].fin = s[c].fin
         /\ \A d \in Clients : d # c => Add(s, c)[d] = s[d]
  BY ProxyAssumption DEF ProxyAssumption, Add, Stream

LEMMA StreamFacts ==
  ASSUME NEW s \in [Clients -> Stream], NEW c \in Clients
  PROVE  s[c].n \in 0..Cap /\ s[c].n \in Nat /\ s[c].fin \in BOOLEAN
  BY ProxyAssumption DEF ProxyAssumption, Stream


(* A connection that a step does not touch. *)
Untouched(d) ==
  /\ up'[d] = up[d] /\ fwd'[d] = fwd[d] /\ back'[d] = back[d] /\ down'[d] = down[d]
  /\ open'[d] = open[d] /\ reset'[d] = reset[d] /\ sawEnd'[d] = sawEnd[d]
  /\ unread'[d] = unread[d] /\ undelivered'[d] = undelivered[d]
  /\ Waits(d)' = Waits(d) /\ Queued(d)' = Queued(d)
  /\ served' = d <=> served = d
  /\ served = d => dpc' = dpc
  /\ cur' = d <=> cur = d
  /\ cur = d => pc' = pc /\ held' = held /\ events' = events /\ readable' = readable
  /\ stop => stop'

LEMMA UntouchedKept ==
  ASSUME NEW d \in Clients, Connection(d), Untouched(d)
  PROVE  Connection(d)'
<1> USE DEF Untouched
<1>0. /\ Queued(d)' = Queued(d) /\ Reading(d)' = Reading(d) /\ Awaiting(d)' = Awaiting(d)
      /\ HeldFor(d, "writeTarget")' = HeldFor(d, "writeTarget")
      /\ HeldFor(d, "writeClient")' = HeldFor(d, "writeClient")
      /\ ToDaemon(d)' = ToDaemon(d) /\ ToClient(d)' = ToClient(d)
  BY DEF Reading, Awaiting, HeldFor, ToDaemon, ToClient
<1>1. Waiting(d)'
  BY DEF Connection, Waiting
<1>2. Sides(d)'
  BY DEF Connection, Sides
<1>3. Counted(d)'
  BY <1>0 DEF Connection, Counted
<1>4. Unanswered(d)'
  BY <1>0 DEF Connection, Unanswered
<1>5. Kept(d)'
  BY <1>0 DEF Connection, Kept
<1>6. RequestKept(d)'
  BY <1>0 DEF Connection, RequestKept
<1>7. ReplyKept(d)'
  BY <1>0 DEF Connection, ReplyKept
<1> QED
  BY <1>1, <1>2, <1>3, <1>4, <1>5, <1>6, <1>7 DEF Connection

LEMMA Amounts ==
  ASSUME TypeOK, NEW c \in Clients
  PROVE  /\ up[c].n \in 0..Cap /\ fwd[c].n \in 0..Cap /\ back[c].n \in 0..Cap /\ down[c].n \in 0..Cap
         /\ up[c].fin \in BOOLEAN /\ fwd[c].fin \in BOOLEAN
         /\ back[c].fin \in BOOLEAN /\ down[c].fin \in BOOLEAN
         /\ unread[c] \in Nat /\ undelivered[c] \in 0..1 /\ held \in 0..Cap
  BY StreamFacts DEF TypeOK


-------------------------------------------------------------------------------
(* Queues *)

Member(s, c) == \E i \in 1..Len(s) : s[i] = c

LEMMA AppendFacts ==
  ASSUME NEW s \in Seq(Clients), NEW c \in Clients
  PROVE  /\ Append(s, c) \in Seq(Clients)
         /\ Member(Append(s, c), c)
         /\ \A d \in Clients : d # c => Member(Append(s, c), d) = Member(s, d)
         /\ NoDup(s) /\ ~Member(s, c) => NoDup(Append(s, c))
<1>1. /\ Append(s, c) \in Seq(Clients) /\ Len(s) \in Nat /\ Len(Append(s, c)) = Len(s) + 1
      /\ \A i \in 1..Len(s) : Append(s, c)[i] = s[i]
      /\ Append(s, c)[Len(s) + 1] = c
  OBVIOUS
<1>2. /\ Member(Append(s, c), c)
      /\ \A d \in Clients : d # c => Member(Append(s, c), d) = Member(s, d)
  <2>1. ASSUME NEW d \in Clients, d # c, Member(Append(s, c), d) PROVE Member(s, d)
    BY <1>1, <2>1 DEF Member
  <2>2. ASSUME NEW d \in Clients, Member(s, d) PROVE Member(Append(s, c), d)
    BY <1>1, <2>2 DEF Member
  <2>3. Member(Append(s, c), c)
    BY <1>1 DEF Member
  <2> QED
    BY <2>1, <2>2, <2>3 DEF Member
<1>3. ASSUME NoDup(s), ~Member(s, c) PROVE NoDup(Append(s, c))
  <2> SUFFICES ASSUME NEW i \in 1..(Len(s) + 1), NEW j \in 1..(Len(s) + 1),
                      Append(s, c)[i] = Append(s, c)[j]
               PROVE  i = j
    BY <1>1 DEF NoDup
  <2>1. CASE i \in 1..Len(s) /\ j \in 1..Len(s)
    BY <1>1, <1>3, <2>1 DEF NoDup
  <2>2. CASE i = Len(s) + 1 /\ j \in 1..Len(s)
    BY <1>1, <1>3, <2>2 DEF Member
  <2>3. CASE i \in 1..Len(s) /\ j = Len(s) + 1
    BY <1>1, <1>3, <2>3 DEF Member
  <2> QED
    BY <1>1, <2>1, <2>2, <2>3
<1> QED
  BY <1>1, <1>2, <1>3

LEMMA TailFacts ==
  ASSUME NEW s \in Seq(Clients), s # <<>>, NoDup(s)
  PROVE  /\ Head(s) \in Clients /\ Member(s, Head(s))
         /\ Tail(s) \in Seq(Clients) /\ NoDup(Tail(s)) /\ ~Member(Tail(s), Head(s))
         /\ \A d \in Clients : d # Head(s) => Member(Tail(s), d) = Member(s, d)
<1>1. /\ Len(s) \in Nat \ {0} /\ Head(s) = s[1] /\ s[1] \in Clients
      /\ Tail(s) \in Seq(Clients) /\ Len(Tail(s)) = Len(s) - 1
      /\ \A i \in 1..(Len(s) - 1) : Tail(s)[i] = s[i + 1]
  OBVIOUS
<1>2. Member(s, Head(s))
  BY <1>1 DEF Member
<1>3. NoDup(Tail(s))
  <2> SUFFICES ASSUME NEW i \in 1..(Len(s) - 1), NEW j \in 1..(Len(s) - 1),
                      Tail(s)[i] = Tail(s)[j]
               PROVE  i = j
    BY <1>1 DEF NoDup
  <2>1. s[i + 1] = s[j + 1] /\ i + 1 \in 1..Len(s) /\ j + 1 \in 1..Len(s)
    BY <1>1
  <2>2. i + 1 = j + 1
    BY <2>1 DEF NoDup
  <2> QED
    BY <1>1, <2>2
<1>4. ~Member(Tail(s), Head(s))
  <2> SUFFICES ASSUME NEW i \in 1..(Len(s) - 1), Tail(s)[i] = s[1] PROVE FALSE
    BY <1>1 DEF Member
  <2>1. s[i + 1] = s[1] /\ i + 1 \in 1..Len(s) /\ 1 \in 1..Len(s)
    BY <1>1
  <2>2. i + 1 = 1
    BY <2>1 DEF NoDup
  <2> QED
    BY <1>1, <2>2
<1>5. ASSUME NEW d \in Clients, d # Head(s) PROVE Member(Tail(s), d) = Member(s, d)
  <2>1. ASSUME NEW i \in 1..(Len(s) - 1), Tail(s)[i] = d PROVE Member(s, d)
    <3>1. s[i + 1] = d /\ i + 1 \in 1..Len(s)
      BY <1>1, <2>1
    <3> QED
      BY <3>1 DEF Member
  <2>2. ASSUME NEW i \in 1..Len(s), s[i] = d PROVE Member(Tail(s), d)
    <3>1. i # 1 /\ i - 1 \in 1..(Len(s) - 1) /\ (i - 1) + 1 = i
      BY <1>1, <1>5, <2>2
    <3>2. Tail(s)[i - 1] = d
      BY <1>1, <2>2, <3>1
    <3> QED
      BY <1>1, <3>1, <3>2 DEF Member
  <2> QED
    BY <1>1, <2>1, <2>2 DEF Member
<1> QED
  BY <1>1, <1>2, <1>3, <1>4, <1>5

(* Whether it waits in the backlog or is queued at the daemon *)
LEMMA QueuesAreMembers ==
  ASSUME NEW c \in Clients
  PROVE  /\ Waits(c) = Member(backlog, c)
         /\ Queued(c) = Member(pending, c)
         /\ Waits(c)' = Member(backlog', c)
         /\ Queued(c)' = Member(pending', c)
<1>1. (Waits(c) <=> Member(backlog, c)) /\ (Waits(c)' <=> Member(backlog', c))
  BY DEF Waits, Member
<1>2. Waits(c) \in BOOLEAN /\ Waits(c)' \in BOOLEAN
  BY DEF Waits
<1>3. Queued(c) = Member(pending, c) /\ Queued(c)' = Member(pending', c)
  BY DEF Queued, Member
<1> QED
  BY <1>1, <1>2, <1>3 DEF Member

-------------------------------------------------------------------------------
(* The relay *)

LEMMA ReadClientStep == ProxyInv /\ ReadClient => ProxyInv'
<1> SUFFICES ASSUME ProxyInv, ReadClient PROVE ProxyInv'
  OBVIOUS
<1> USE ProxyAssumption DEF ProxyAssumption
<1>0. cur \in Clients /\ TypeOK /\ Connection(cur) /\ cur' = cur
  BY DEF ProxyInv, Places, RelayPlace, TypeOK, ReadClient
<1>t. /\ up[cur].n \in 0..Cap /\ fwd[cur].n \in 0..Cap /\ up[cur].fin \in BOOLEAN
      /\ fwd[cur].fin \in BOOLEAN /\ held \in 0..Cap
  BY <1>0, Amounts
<1>u. /\ up' \in [Clients -> Stream] /\ fwd' \in [Clients -> Stream] /\ held' \in 0..Cap
      /\ \A d \in Clients : d # cur => up'[d] = up[d] /\ fwd'[d] = fwd[d]
      /\ \/ /\ "client" \notin events
            /\ pc' = "target" /\ UNCHANGED <<held, up, fwd, readable>>
         \/ /\ up[cur].n > 0 /\ held' = up[cur].n /\ pc' = "writeTarget"
            /\ up'[cur].n = 0 /\ up'[cur].fin = up[cur].fin /\ UNCHANGED <<fwd, readable>>
         \/ /\ "client" \in events /\ up[cur].n = 0 /\ pc' = "target"
            /\ readable' = readable \ {"client"}
            /\ fwd'[cur].n = fwd[cur].n /\ fwd'[cur].fin = TRUE /\ UNCHANGED <<held, up>>
  <2>1. CASE "client" \notin events
    BY <1>0, <2>1 DEF ReadClient, TypeOK
  <2>2. CASE "client" \in events /\ up[cur].n > 0
    <3>1. up' = Take(up, cur) /\ held' = up[cur].n /\ UNCHANGED <<fwd, readable>> /\ pc' = "writeTarget"
      BY <2>2 DEF ReadClient
    <3>2. up \in [Clients -> Stream] /\ fwd \in [Clients -> Stream]
      BY <1>0 DEF TypeOK
    <3>3. /\ up' \in [Clients -> Stream] /\ up'[cur].n = 0 /\ up'[cur].fin = up[cur].fin
          /\ \A d \in Clients : d # cur => up'[d] = up[d]
      BY <1>0, <3>1, <3>2, TakeFacts
    <3> QED
      BY <1>t, <2>2, <3>1, <3>2, <3>3
  <2>3. CASE "client" \in events /\ ~(up[cur].n > 0)
    <3>1. fwd' = Finish(fwd, cur) /\ readable' = readable \ {"client"} /\ UNCHANGED <<held, up>>
          /\ pc' = "target" /\ up[cur].n = 0
      BY <2>3, <1>t DEF ReadClient, EndSeen, AfterClientEnd
    <3> QED
      BY <1>0, <1>t, <2>3, <3>1, FinishFacts DEF TypeOK
  <2> QED
    BY <2>1, <2>2, <2>3
<1>1. TypeOK'
  BY <1>0, <1>u DEF TypeOK, ReadClient, flags, daemon, sockets, history
<1>2. Places'
  BY <1>0, <1>u, <1>t DEF ProxyInv, Places, RelayPlace, DaemonPlace, Queues, NoDup, Queued, ReadClient, TypeOK, daemon
<1>3. ASSUME NEW d \in Clients, d # cur PROVE Connection(d)'
  BY <1>0, <1>3, <1>u, UntouchedKept
     DEF ProxyInv, Untouched, Waits, Queued, ReadClient, flags, daemon, sockets, history
<1>4. Connection(cur)'
  <2> DEFINE c == cur
  <2> USE DEF ReadClient, flags, daemon, sockets, history
  <2>0. /\ Waits(c)' = Waits(c) /\ Queued(c)' = Queued(c) /\ Reading(c)' = Reading(c)
        /\ Awaiting(c)' = Awaiting(c) /\ HeldFor(c, "writeClient") = 0 /\ HeldFor(c, "writeClient")' = 0
        /\ HeldFor(c, "writeTarget") = 0 /\ ToDaemon(c)' = ToDaemon(c) /\ ToClient(c)' = ToClient(c)
    BY <1>0, <1>t, <1>u DEF Waits, Queued, Reading, Awaiting, HeldFor, ToDaemon, ToClient
  <2>1. Waiting(c)'
    BY <1>0, <2>0 DEF Waiting, Connection
  <2>2. Sides(c)'
    BY <1>0, <1>t, <1>u, <2>0 DEF Sides, Connection
  <2>3. Counted(c)'
    BY <1>0, <2>0 DEF Counted, Connection
  <2>4. Unanswered(c)'
    BY <1>0, <2>0 DEF Unanswered, Connection
  <2>5. Kept(c)'
    BY <1>0, <1>u, <2>0 DEF Kept, Connection
  <2>6. RequestKept(c)'
    BY <1>0, <1>t, <1>u, <2>0 DEF RequestKept, Connection, Sides, HeldFor
  <2>7. ReplyKept(c)'
    BY <1>0, <1>u, <2>0 DEF ReplyKept, Connection
  <2> QED
    BY <1>0, <2>1, <2>2, <2>3, <2>4, <2>5, <2>6, <2>7 DEF Connection
<1> QED
  BY <1>0, <1>1, <1>2, <1>3, <1>4 DEF ProxyInv

LEMMA WriteTargetStep == ProxyInv /\ WriteTarget => ProxyInv'
<1> SUFFICES ASSUME ProxyInv, WriteTarget PROVE ProxyInv'
  OBVIOUS
<1> USE ProxyAssumption DEF ProxyAssumption
<1>0. cur \in Clients /\ TypeOK /\ Connection(cur) /\ cur' = cur /\ held > 0
  BY DEF ProxyInv, Places, RelayPlace, TypeOK, WriteTarget
<1>t. fwd[cur].n \in 0..Cap /\ held \in 0..Cap /\ unread[cur] \in Nat /\ up[cur].n \in 0..Cap
  BY <1>0, Amounts
<1>u. /\ fwd' \in [Clients -> Stream] /\ held' \in 0..Cap
      /\ \A d \in Clients : d # cur => fwd'[d] = fwd[d]
      /\ \/ "daemon" \notin open[cur] /\ pc' = "close" /\ UNCHANGED <<held, fwd>>
         \/ /\ "daemon" \in open[cur] /\ held' = held - 1
            /\ fwd'[cur].n = fwd[cur].n + 1 /\ fwd'[cur].fin = fwd[cur].fin
            /\ pc' = IF held = 1 THEN "target" ELSE "writeTarget"
  <2>1. CASE "daemon" \notin open[cur]
    BY <1>0, <2>1 DEF WriteTarget, TypeOK
  <2>2. CASE "daemon" \in open[cur]
    <3>1. /\ fwd[cur].n < Cap /\ fwd' = Add(fwd, cur) /\ held' = held - 1
          /\ pc' = IF held = 1 THEN "target" ELSE "writeTarget"
      BY <2>2 DEF WriteTarget, SendTarget
    <3>2. fwd \in [Clients -> Stream]
      BY <1>0 DEF TypeOK
    <3>3. /\ fwd' \in [Clients -> Stream] /\ fwd'[cur].n = fwd[cur].n + 1
          /\ fwd'[cur].fin = fwd[cur].fin /\ \A d \in Clients : d # cur => fwd'[d] = fwd[d]
      BY <1>0, <3>1, <3>2, AddFacts
    <3> QED
      BY <1>0, <1>t, <2>2, <3>1, <3>3
  <2> QED
    BY <2>1, <2>2
<1>1. TypeOK'
  BY <1>0, <1>u DEF TypeOK, WriteTarget, flags, daemon, sockets, history
<1>2. Places'
  BY <1>0, <1>t, <1>u DEF ProxyInv, Places, RelayPlace, DaemonPlace, Queues, NoDup, Queued, WriteTarget, daemon
<1>3. ASSUME NEW d \in Clients, d # cur PROVE Connection(d)'
  BY <1>0, <1>3, <1>u, UntouchedKept
     DEF ProxyInv, Untouched, Waits, Queued, WriteTarget, flags, daemon, sockets, history
<1>4. Connection(cur)'
  <2> DEFINE c == cur
  <2> USE DEF WriteTarget, flags, daemon, sockets, history
  <2>0. /\ Waits(c)' = Waits(c) /\ Queued(c)' = Queued(c) /\ Reading(c)' = Reading(c)
        /\ Awaiting(c)' = Awaiting(c) /\ HeldFor(c, "writeClient") = 0 /\ HeldFor(c, "writeClient")' = 0
        /\ ToClient(c)' = ToClient(c) /\ HeldFor(c, "writeTarget") = held
    BY <1>0, <1>t, <1>u DEF Waits, Queued, Reading, Awaiting, HeldFor, ToClient
  <2>m. \/ "daemon" \in open[c] /\ ToDaemon(c)' = ToDaemon(c)
        \/ "daemon" \notin open[c] /\ ToDaemon(c)' <= ToDaemon(c)
    BY <1>0, <1>t, <1>u DEF HeldFor, ToDaemon
  <2>n. ToDaemon(c) \in Nat /\ ToDaemon(c)' \in Nat /\ ToDaemon(c) > 0 /\ unread[c] > 0
    BY <1>0, <1>t, <1>u DEF HeldFor, ToDaemon, Connection, Counted
  <2>1. Waiting(c)'
    BY <1>0, <2>0 DEF Waiting, Connection
  <2>2. Sides(c)'
    BY <1>0, <1>u, <2>0 DEF Sides, Connection
  <2>3. Counted(c)'
    BY <1>0, <1>t, <2>0, <2>m, <2>n DEF Counted, Connection
  <2>4. Unanswered(c)'
    BY <1>0, <2>0 DEF Unanswered, Connection
  <2>5. Kept(c)'
    BY <1>0, <1>u, <2>0 DEF Kept, Connection, Sides, Awaiting, Reading
  <2>6. RequestKept(c)'
    BY <1>0, <1>u, <2>0, <2>m, <2>n DEF RequestKept, Connection, Sides, Reading
  <2>7. ReplyKept(c)'
    BY <1>0, <1>u, <2>0, <2>n DEF ReplyKept, RequestKept, Connection
  <2> QED
    BY <1>0, <2>1, <2>2, <2>3, <2>4, <2>5, <2>6, <2>7 DEF Connection
<1> QED
  BY <1>0, <1>1, <1>2, <1>3, <1>4 DEF ProxyInv

LEMMA ReadTargetStep == ProxyInv /\ ReadTarget => ProxyInv'
<1> SUFFICES ASSUME ProxyInv, ReadTarget PROVE ProxyInv'
  OBVIOUS
<1> USE ProxyAssumption DEF ProxyAssumption
<1>0. cur \in Clients /\ TypeOK /\ Connection(cur) /\ cur' = cur
  BY DEF ProxyInv, Places, RelayPlace, TypeOK, ReadTarget
<1>t. back[cur].n \in 0..Cap /\ down[cur].n \in 0..Cap /\ held \in 0..Cap
  BY <1>0, Amounts
<1>u. /\ back' \in [Clients -> Stream] /\ down' \in [Clients -> Stream] /\ held' \in 0..Cap
      /\ \A d \in Clients : d # cur => back'[d] = back[d] /\ down'[d] = down[d]
      /\ \/ /\ "target" \notin events
            /\ pc' = "check" /\ UNCHANGED <<held, back, down, readable>>
         \/ /\ "target" \in events /\ back[cur].n > 0 /\ held' = back[cur].n /\ pc' = "writeClient"
            /\ back'[cur].n = 0 /\ back'[cur].fin = back[cur].fin /\ UNCHANGED <<down, readable>>
         \/ /\ "target" \in events /\ back[cur].n = 0 /\ pc' = "check"
            /\ readable' = readable \ {"target"}
            /\ down'[cur].n = down[cur].n /\ down'[cur].fin = TRUE /\ UNCHANGED <<held, back>>
  <2>a. back \in [Clients -> Stream] /\ down \in [Clients -> Stream]
    BY <1>0 DEF TypeOK
  <2>1. CASE "target" \notin events
    BY <1>0, <2>1 DEF ReadTarget, TypeOK
  <2>2. CASE "target" \in events /\ back[cur].n > 0
    <3>1. back' = Take(back, cur) /\ held' = back[cur].n /\ UNCHANGED <<down, readable>> /\ pc' = "writeClient"
      BY <2>2 DEF ReadTarget
    <3>2. /\ back' \in [Clients -> Stream] /\ back'[cur].n = 0 /\ back'[cur].fin = back[cur].fin
          /\ \A d \in Clients : d # cur => back'[d] = back[d]
      BY <1>0, <2>a, <3>1, TakeFacts
    <3> QED
      BY <1>t, <2>a, <2>2, <3>1, <3>2
  <2>3. CASE "target" \in events /\ ~(back[cur].n > 0)
    <3>1. down' = Finish(down, cur) /\ readable' = readable \ {"target"} /\ UNCHANGED <<held, back>>
          /\ pc' = "check" /\ back[cur].n = 0
      BY <2>3, <1>t DEF ReadTarget, EndSeen
    <3>3. cur \in Clients /\ down \in [Clients -> Stream] /\ down' = Finish(down, cur)
      BY <1>0, <2>a, <3>1
    <3>2. /\ down' \in [Clients -> Stream] /\ down'[cur].n = down[cur].n /\ down'[cur].fin = TRUE
          /\ \A d \in Clients : d # cur => down'[d] = down[d]
      BY <3>3, FinishFacts
    <3> QED
      BY <1>t, <2>a, <2>3, <3>1, <3>2
  <2> QED
    BY <2>1, <2>2, <2>3
<1>1. TypeOK'
  BY <1>0, <1>u DEF TypeOK, ReadTarget, flags, daemon, sockets, history
<1>2. Places'
  BY <1>0, <1>t, <1>u DEF ProxyInv, Places, RelayPlace, DaemonPlace, Queues, NoDup, Queued, ReadTarget, daemon
<1>3. ASSUME NEW d \in Clients, d # cur PROVE Connection(d)'
  BY <1>0, <1>3, <1>u, UntouchedKept
     DEF ProxyInv, Untouched, Waits, Queued, ReadTarget, flags, daemon, sockets, history
<1>4. Connection(cur)'
  <2> DEFINE c == cur
  <2> USE DEF ReadTarget, flags, daemon, sockets, history
  <2>0. /\ Waits(c)' = Waits(c) /\ Queued(c)' = Queued(c) /\ Reading(c)' = Reading(c)
        /\ Awaiting(c)' = Awaiting(c) /\ HeldFor(c, "writeTarget") = 0 /\ HeldFor(c, "writeTarget")' = 0
        /\ HeldFor(c, "writeClient") = 0 /\ ToDaemon(c)' = ToDaemon(c) /\ ToClient(c)' = ToClient(c)
    BY <1>0, <1>t, <1>u DEF Waits, Queued, Reading, Awaiting, HeldFor, ToDaemon, ToClient
  <2>1. Waiting(c)'
    BY <1>0, <2>0 DEF Waiting, Connection
  <2>2. Sides(c)'
    BY <1>0, <1>u, <2>0 DEF Sides, Connection
  <2>3. Counted(c)'
    BY <1>0, <2>0 DEF Counted, Connection
  <2>4. Unanswered(c)'
    BY <1>0, <1>t, <1>u, <2>0 DEF Unanswered, Connection, Counted, ToClient, Empty
  <2>5. Kept(c)'
    BY <1>0, <1>u, <2>0 DEF Kept, Connection
  <2>6. RequestKept(c)'
    BY <1>0, <1>u, <2>0 DEF RequestKept, Connection
  <2>7. ReplyKept(c)'
    BY <1>0, <1>t, <1>u, <2>0 DEF ReplyKept, Connection, HeldFor
  <2> QED
    BY <1>0, <2>1, <2>2, <2>3, <2>4, <2>5, <2>6, <2>7 DEF Connection
<1> QED
  BY <1>0, <1>1, <1>2, <1>3, <1>4 DEF ProxyInv

LEMMA WriteClientStep == ProxyInv /\ WriteClient => ProxyInv'
<1> SUFFICES ASSUME ProxyInv, WriteClient PROVE ProxyInv'
  OBVIOUS
<1> USE ProxyAssumption DEF ProxyAssumption
<1>0. cur \in Clients /\ TypeOK /\ Connection(cur) /\ cur' = cur /\ held > 0
  BY DEF ProxyInv, Places, RelayPlace, TypeOK, WriteClient
<1>t. /\ down[cur].n \in 0..Cap /\ back[cur].n \in 0..Cap /\ held \in 0..Cap
      /\ undelivered[cur] \in 0..1
  BY <1>0, Amounts
<1>u. /\ down' \in [Clients -> Stream] /\ held' \in 0..Cap
      /\ \A d \in Clients : d # cur => down'[d] = down[d]
      /\ \/ "client" \notin open[cur] /\ pc' = "close" /\ UNCHANGED <<held, down>>
         \/ /\ "client" \in open[cur] /\ held' = held - 1
            /\ down'[cur].n = down[cur].n + 1 /\ down'[cur].fin = down[cur].fin
            /\ pc' = IF held = 1 THEN "check" ELSE "writeClient"
  <2>1. CASE "client" \notin open[cur]
    BY <1>0, <2>1 DEF WriteClient, TypeOK
  <2>2. CASE "client" \in open[cur]
    <3>1. /\ down[cur].n < Cap /\ down' = Add(down, cur) /\ held' = held - 1
          /\ pc' = IF held = 1 THEN "check" ELSE "writeClient"
      BY <2>2 DEF WriteClient
    <3>2. down \in [Clients -> Stream]
      BY <1>0 DEF TypeOK
    <3>3. /\ down' \in [Clients -> Stream] /\ down'[cur].n = down[cur].n + 1
          /\ down'[cur].fin = down[cur].fin /\ \A d \in Clients : d # cur => down'[d] = down[d]
      BY <1>0, <3>1, <3>2, AddFacts
    <3> QED
      BY <1>0, <1>t, <2>2, <3>1, <3>3
  <2> QED
    BY <2>1, <2>2
<1>1. TypeOK'
  BY <1>0, <1>u DEF TypeOK, WriteClient, flags, daemon, sockets, history
<1>2. Places'
  BY <1>0, <1>t, <1>u DEF ProxyInv, Places, RelayPlace, DaemonPlace, Queues, NoDup, Queued, WriteClient, daemon
<1>3. ASSUME NEW d \in Clients, d # cur PROVE Connection(d)'
  BY <1>0, <1>3, <1>u, UntouchedKept
     DEF ProxyInv, Untouched, Waits, Queued, WriteClient, flags, daemon, sockets, history
<1>4. Connection(cur)'
  <2> DEFINE c == cur
  <2> USE DEF WriteClient, flags, daemon, sockets, history
  <2>0. /\ Waits(c)' = Waits(c) /\ Queued(c)' = Queued(c) /\ Reading(c)' = Reading(c)
        /\ Awaiting(c)' = Awaiting(c) /\ HeldFor(c, "writeTarget") = 0 /\ HeldFor(c, "writeTarget")' = 0
        /\ ToDaemon(c)' = ToDaemon(c) /\ HeldFor(c, "writeClient") = held
    BY <1>0, <1>t, <1>u DEF Waits, Queued, Reading, Awaiting, HeldFor, ToDaemon
  <2>m. \/ "client" \in open[c] /\ ToClient(c)' = ToClient(c)
        \/ "client" \notin open[c] /\ ToClient(c)' <= ToClient(c)
    BY <1>0, <1>t, <1>u DEF HeldFor, ToClient
  <2>n. /\ ToClient(c) \in Nat /\ ToClient(c)' \in Nat /\ ToClient(c) > 0 /\ undelivered[c] > 0
        /\ ~Awaiting(c)
    BY <1>0, <1>t, <1>u DEF HeldFor, ToClient, Connection, Counted, Unanswered
  <2>1. Waiting(c)'
    BY <1>0, <2>0 DEF Waiting, Connection
  <2>2. Sides(c)'
    BY <1>0, <1>u, <2>0 DEF Sides, Connection
  <2>3. Counted(c)'
    BY <1>0, <1>t, <2>0, <2>m, <2>n DEF Counted, Connection
  <2>4. Unanswered(c)'
    BY <1>0, <2>0, <2>n DEF Unanswered, Connection, Awaiting
  <2>5. Kept(c)'
    BY <2>0, <2>n DEF Kept
  <2>6. RequestKept(c)'
    BY <1>0, <1>u, <2>0 DEF RequestKept, Connection
  <2>7. ReplyKept(c)'
    BY <1>0, <1>t, <1>u, <2>0, <2>m, <2>n DEF ReplyKept, Connection
  <2> QED
    BY <1>0, <2>1, <2>2, <2>3, <2>4, <2>5, <2>6, <2>7 DEF Connection
<1> QED
  BY <1>0, <1>1, <1>2, <1>3, <1>4 DEF ProxyInv

LEMMA PollStep == ProxyInv /\ Poll => ProxyInv'
<1> SUFFICES ASSUME ProxyInv, Poll PROVE ProxyInv'
  OBVIOUS
<1> USE ProxyAssumption DEF ProxyAssumption
<1>0. cur \in Clients /\ TypeOK /\ Connection(cur) /\ cur' = cur
  BY DEF ProxyInv, Places, RelayPlace, TypeOK, Poll
<1>t. back[cur].n \in 0..Cap /\ down[cur].n \in 0..Cap /\ up[cur].n \in 0..Cap
  BY <1>0, Amounts
<1>u. \/ (stop \/ readable = {}) /\ pc' = "close" /\ UNCHANGED events
      \/ /\ ~stop /\ pc' = "client" /\ events' \subseteq {"client", "target", "error"}
         /\ "client" \in events' => up[cur].n > 0 \/ up[cur].fin \/ "relayClient" \in reset[cur]
         /\ "target" \in events' =>
              back[cur].n > 0 \/ back[cur].fin \/ "relayTarget" \in reset[cur]
         /\ "error" \in events' => reset[cur] \cap {"relayClient", "relayTarget"} # {}
  BY DEF Poll, Reported
<1>1. TypeOK'
  BY <1>0, <1>u DEF TypeOK, Poll, flags, streams, daemon, sockets, history
<1>2. Places'
  BY <1>0, <1>u DEF ProxyInv, Places, RelayPlace, DaemonPlace, Queues, NoDup, Queued, Poll, daemon
<1>3. ASSUME NEW d \in Clients, d # cur PROVE Connection(d)'
  BY <1>0, <1>3, <1>u, UntouchedKept
     DEF ProxyInv, Untouched, Waits, Queued, Poll, flags, streams, daemon, sockets, history
<1>4. Connection(cur)'
  <2> DEFINE c == cur
  <2> USE DEF Poll, flags, streams, daemon, sockets, history
  <2>0. /\ Waits(c)' = Waits(c) /\ Queued(c)' = Queued(c) /\ Reading(c)' = Reading(c)
        /\ Awaiting(c)' = Awaiting(c) /\ HeldFor(c, "writeTarget") = 0 /\ HeldFor(c, "writeTarget")' = 0
        /\ HeldFor(c, "writeClient") = 0 /\ HeldFor(c, "writeClient")' = 0
        /\ ToDaemon(c)' = ToDaemon(c) /\ ToClient(c)' = ToClient(c)
    BY <1>0, <1>t, <1>u DEF Waits, Queued, Reading, Awaiting, HeldFor, ToDaemon, ToClient
  <2>1. Waiting(c)'
    BY <1>0, <2>0 DEF Waiting, Connection
  <2>2. Sides(c)'
    BY <1>0, <1>u, <2>0 DEF Sides, Connection
  <2>3. Counted(c)'
    BY <1>0, <2>0 DEF Counted, Connection
  <2>4. Unanswered(c)'
    BY <1>0, <2>0 DEF Unanswered, Connection
  <2>5. Kept(c)'
    BY <1>0, <1>u, <2>0 DEF Kept, Connection, Unanswered, Sides, Empty
  <2>6. RequestKept(c)'
    BY <1>0, <2>0 DEF RequestKept, Connection
  <2>7. ReplyKept(c)'
    BY <1>0, <1>u, <2>0 DEF ReplyKept, Connection, Sides
  <2> QED
    BY <1>0, <2>1, <2>2, <2>3, <2>4, <2>5, <2>6, <2>7 DEF Connection
<1> QED
  BY <1>0, <1>1, <1>2, <1>3, <1>4 DEF ProxyInv

LEMMA CheckStep == ProxyInv /\ Check => ProxyInv'
<1> SUFFICES ASSUME ProxyInv, Check PROVE ProxyInv'
  OBVIOUS
<1> USE ProxyAssumption DEF ProxyAssumption
<1>0. cur \in Clients /\ TypeOK /\ Connection(cur) /\ cur' = cur
  BY DEF ProxyInv, Places, RelayPlace, TypeOK, Check
<1>1. TypeOK'
  BY <1>0 DEF TypeOK, Check, flags, streams, daemon, sockets, history
<1>2. Places'
  BY <1>0 DEF ProxyInv, Places, RelayPlace, DaemonPlace, Queues, NoDup, Queued, Check, daemon
<1>3. ASSUME NEW d \in Clients, d # cur PROVE Connection(d)'
  BY <1>0, <1>3, UntouchedKept
     DEF ProxyInv, Untouched, Waits, Queued, Check, flags, streams, daemon, sockets, history
<1>4. Connection(cur)'
  <2> DEFINE c == cur
  <2> USE DEF Check, flags, streams, daemon, sockets, history
  <2>0. /\ Waits(c)' = Waits(c) /\ Queued(c)' = Queued(c) /\ Reading(c)' = Reading(c)
        /\ Awaiting(c)' = Awaiting(c) /\ HeldFor(c, "writeTarget") = 0 /\ HeldFor(c, "writeTarget")' = 0
        /\ HeldFor(c, "writeClient") = 0 /\ HeldFor(c, "writeClient")' = 0
        /\ ToDaemon(c)' = ToDaemon(c) /\ ToClient(c)' = ToClient(c)
    BY <1>0 DEF Waits, Queued, Reading, Awaiting, HeldFor, ToDaemon, ToClient
  <2>1. Waiting(c)'
    BY <1>0, <2>0 DEF Waiting, Connection
  <2>2. Sides(c)'
    BY <1>0, <2>0 DEF Sides, Connection
  <2>3. Counted(c)'
    BY <1>0, <2>0 DEF Counted, Connection
  <2>4. Unanswered(c)'
    BY <1>0, <2>0 DEF Unanswered, Connection
  <2>5. Kept(c)'
    BY <1>0, <2>0 DEF Kept, Connection
  <2>6. RequestKept(c)'
    BY <1>0, <2>0 DEF RequestKept, Connection
  <2>7. ReplyKept(c)'
    BY <1>0, <2>0 DEF ReplyKept, Connection
  <2> QED
    BY <1>0, <2>1, <2>2, <2>3, <2>4, <2>5, <2>6, <2>7 DEF Connection
<1> QED
  BY <1>0, <1>1, <1>2, <1>3, <1>4 DEF ProxyInv

LEMMA CloseBothStep == ProxyInv /\ CloseBoth => ProxyInv'
<1> SUFFICES ASSUME ProxyInv, CloseBoth, NEW c \in Clients, c = cur PROVE ProxyInv'
  BY ProxyAssumption DEF ProxyAssumption, ProxyInv, Places, RelayPlace, TypeOK, CloseBoth
<1> USE ProxyAssumption DEF ProxyAssumption
<1>0. c \in Clients /\ TypeOK /\ Connection(c) /\ pc = "close"
  BY DEF ProxyInv, Places, RelayPlace, TypeOK, CloseBoth
<1>t. /\ fwd[c].n \in 0..Cap /\ back[c].n \in 0..Cap /\ down[c].n \in 0..Cap /\ up[c].n \in 0..Cap
      /\ unread[c] \in Nat /\ undelivered[c] \in 0..1 /\ up[c].fin \in BOOLEAN
  BY <1>0, Amounts
<1>a. /\ up \in [Clients -> Stream] /\ fwd \in [Clients -> Stream]
      /\ back \in [Clients -> Stream] /\ down \in [Clients -> Stream]
  BY <1>0 DEF TypeOK
<1>b. up' = Take(up, c) /\ fwd' = Finish(fwd, c) /\ back' = Take(back, c) /\ down' = Finish(down, c)
  BY DEF CloseBoth
<1>c. /\ up' \in [Clients -> Stream] /\ up'[c].n = 0 /\ up'[c].fin = up[c].fin
      /\ \A d \in Clients : d # c => up'[d] = up[d]
  BY <1>0, <1>a, <1>b, TakeFacts
<1>d. /\ back' \in [Clients -> Stream] /\ back'[c].n = 0
      /\ \A d \in Clients : d # c => back'[d] = back[d]
  BY <1>0, <1>a, <1>b, TakeFacts
<1>e. /\ fwd' \in [Clients -> Stream] /\ fwd'[c].n = fwd[c].n
      /\ \A d \in Clients : d # c => fwd'[d] = fwd[d]
  <2>1. fwd \in [Clients -> Stream] /\ fwd' = Finish(fwd, c)
    BY <1>a, <1>b
  <2> QED
    BY <2>1, FinishFacts
<1>f. /\ down' \in [Clients -> Stream] /\ down'[c].n = down[c].n /\ down'[c].fin = TRUE
      /\ \A d \in Clients : d # c => down'[d] = down[d]
  <2>1. down \in [Clients -> Stream] /\ down' = Finish(down, c)
    BY <1>a, <1>b
  <2> QED
    BY <2>1, FinishFacts
<1>g. /\ open' \in [Clients -> SUBSET Ends] /\ open'[c] = open[c] \ {"relayClient", "relayTarget"}
      /\ \A d \in Clients : d # c => open'[d] = open[d]
  BY <1>0 DEF CloseBoth, TypeOK
<1>h. /\ reset' \in [Clients -> SUBSET Ends] /\ reset'[c] \subseteq reset[c] \cup {"client"}
      /\ \A d \in Clients : d # c => reset'[d] = reset[d]
  BY <1>0 DEF CloseBoth, ResetIf, TypeOK, Ends
<1>i. /\ cur' = NoClient /\ readable' = {} /\ events' = {} /\ held' = 0
      /\ pc' = IF stop THEN "done" ELSE "accept"
  BY DEF CloseBoth
<1> USE DEF flags, daemon, history
<1>1. TypeOK'
  BY <1>0, <1>c, <1>d, <1>e, <1>f, <1>g, <1>h, <1>i DEF TypeOK, CloseBoth
<1>2. Places'
  BY <1>0, <1>i DEF ProxyInv, Places, RelayPlace, DaemonPlace, Queues, NoDup, Queued, CloseBoth
<1>3. ASSUME NEW d \in Clients, d # c PROVE Connection(d)'
  BY <1>0, <1>3, <1>c, <1>d, <1>e, <1>f, <1>g, <1>h, <1>i, UntouchedKept
     DEF ProxyInv, Untouched, Waits, Queued, CloseBoth
<1>4. Connection(c)'
  <2>0. /\ Waits(c)' = Waits(c) /\ Queued(c)' = Queued(c) /\ Reading(c)' = Reading(c)
        /\ Awaiting(c)' = Awaiting(c) /\ HeldFor(c, "writeTarget") = 0 /\ HeldFor(c, "writeTarget")' = 0
        /\ HeldFor(c, "writeClient") = 0 /\ HeldFor(c, "writeClient")' = 0 /\ ~Waits(c)
        /\ stop' = stop /\ served' = served /\ unread' = unread /\ undelivered' = undelivered
        /\ sawEnd' = sawEnd
    BY <1>0, <1>i DEF Waits, Queued, Reading, Awaiting, HeldFor, CloseBoth, Connection, Waiting
  <2>d. /\ ToDaemon(c)' = fwd[c].n /\ ToDaemon(c) = up[c].n + fwd[c].n
        /\ ToClient(c)' = down[c].n /\ ToClient(c) = back[c].n + down[c].n
    BY <1>t, <1>c, <1>d, <1>e, <1>f, <2>0 DEF ToDaemon, ToClient
  <2>k. stop \/ ~Awaiting(c)
    BY <1>0 DEF Connection, Kept
  <2>1. Waiting(c)'
    BY <2>0 DEF Waiting
  <2>2. Sides(c)'
    BY <1>0, <1>c, <1>f, <1>g, <1>h, <1>i, <2>0 DEF Sides, Connection
  <2>3. Counted(c)'
    BY <1>0, <1>t, <2>0, <2>d DEF Counted, Connection
  <2>4. Unanswered(c)'
    <3>1. CASE Awaiting(c)
      <4>1. back[c] = Empty /\ back' = Take(back, c)
        BY <1>0, <1>b, <3>1 DEF Unanswered, Connection
      <4>2. back'[c] = Empty
        BY <1>a, <4>1 DEF Take, Empty, Stream
      <4> QED
        BY <1>0, <1>h, <2>0, <4>2 DEF Unanswered, Connection
    <3>2. CASE ~Awaiting(c)
      BY <2>0, <3>2 DEF Unanswered, Awaiting
    <3> QED
      BY <3>1, <3>2
  <2>5. Kept(c)'
    BY <2>0, <2>k DEF Kept
  <2>6. RequestKept(c)'
    BY <1>0, <1>c, <2>0, <2>k DEF RequestKept, Connection, Awaiting
  <2>7. ReplyKept(c)'
    BY <1>0, <1>t, <1>d, <1>g, <1>h, <1>i, <2>0, <2>d, <2>k DEF ReplyKept, Connection
  <2> QED
    BY <2>1, <2>2, <2>3, <2>4, <2>5, <2>6, <2>7 DEF Connection
<1> QED
  BY <1>0, <1>1, <1>2, <1>3, <1>4 DEF ProxyInv

(* Steps that only stop the proxy, and stuttering *)
LEMMA StoppingStep ==
  ASSUME ProxyInv, stop' \in BOOLEAN, stop => stop',
         pc' = pc \/ (pc = "accept" /\ pc' = "done"),
         UNCHANGED <<control, cur, readable, events, held, backlog, streams, sockets, daemon,
                     history>>
  PROVE  ProxyInv'
<1> USE DEF streams, daemon, sockets, history
<1>1. TypeOK'
  BY DEF ProxyInv, TypeOK
<1>2. Places'
  BY DEF ProxyInv, Places, RelayPlace, DaemonPlace, Queues, NoDup, Queued
<1>3. ASSUME NEW d \in Clients PROVE Connection(d)'
  <2>1. cur = d => pc' = pc
    BY ProxyAssumption DEF ProxyAssumption, ProxyInv, Places, RelayPlace
  <2> QED
    BY <2>1, UntouchedKept DEF ProxyInv, Untouched, Waits, Queued
<1> QED
  BY <1>1, <1>2, <1>3 DEF ProxyInv

LEMMA SignalStep == ProxyInv /\ Signal => ProxyInv'
<1> SUFFICES ASSUME ProxyInv, Signal PROVE ProxyInv'
  OBVIOUS
<1>1. stop' \in BOOLEAN /\ (stop => stop')
  BY DEF Signal
<1>2. /\ UNCHANGED <<control, cur, readable, events, held, backlog, streams, sockets, daemon, history>>
      /\ pc' = pc
  BY DEF Signal, relay
<1> QED
  BY <1>1, <1>2, StoppingStep

LEMMA StutteringStep == ProxyInv /\ (AcceptFails \/ UNCHANGED vars) => ProxyInv'
<1> SUFFICES ASSUME ProxyInv, AcceptFails \/ UNCHANGED vars PROVE ProxyInv'
  OBVIOUS
<1>1. stop' = stop \/ stop' = (stop \/ control)
  BY DEF AcceptFails, vars, flags
<1>2. stop' \in BOOLEAN /\ (stop => stop')
  BY <1>1 DEF ProxyInv, TypeOK
<1>3. /\ UNCHANGED <<control, cur, readable, events, held, backlog, streams, sockets, daemon, history>>
      /\ pc' = pc \/ (pc = "accept" /\ pc' = "done")
  BY DEF AcceptFails, vars, relay, flags
<1> QED
  BY <1>2, <1>3, StoppingStep

LEMMA AcceptStep == ProxyInv /\ Accept => ProxyInv'
<1> SUFFICES ASSUME ProxyInv, Accept PROVE ProxyInv'
  OBVIOUS
<1> USE ProxyAssumption DEF ProxyAssumption
<1>0. /\ TypeOK /\ cur = NoClient /\ pc = "accept" /\ backlog # <<>> /\ backlog \in Seq(Clients)
      /\ NoDup(backlog) /\ NoDup(pending) /\ pending \in Seq(Clients)
  BY DEF ProxyInv, Places, RelayPlace, Queues, TypeOK, Accept
<1> DEFINE c == Head(backlog)
<1>a. /\ c \in Clients /\ Member(backlog, c) /\ backlog' = Tail(backlog)
      /\ Tail(backlog) \in Seq(Clients) /\ NoDup(Tail(backlog)) /\ ~Member(Tail(backlog), c)
      /\ \A d \in Clients : d # c => Member(Tail(backlog), d) = Member(backlog, d)
  BY <1>0, TailFacts DEF Accept
<1> SUFFICES ASSUME NEW k \in Clients, k = c PROVE ProxyInv'
  BY <1>a
<1>b. /\ Connection(k) /\ Waits(k) /\ Waiting(k) /\ Sides(k) /\ ~Queued(k) /\ served # k
      /\ ~Waits(k)' /\ \A d \in Clients : d # k => Waits(d)' = Waits(d)
  BY <1>a, QueuesAreMembers DEF ProxyInv, Connection, Waiting, Sides
<1>t. up[k].n \in 0..Cap /\ up[k].fin \in BOOLEAN /\ unread[k] \in Nat /\ undelivered[k] \in 0..1
      /\ down[k].n = 0 /\ back[k].n = 0 /\ fwd[k].n = 0 /\ fwd[k].fin = FALSE /\ down[k].fin = FALSE
  BY <1>0, <1>b, Amounts DEF Waiting, Empty
<1> USE DEF flags, history
<1>c. UNCHANGED <<events, held, control, stop, fwd, back, dpc, served, unread, undelivered, sawEnd>>
  BY DEF Accept
<1>1. CASE /\ cur' = k /\ readable' = {"client", "target"}
           /\ open' = [open EXCEPT ![k] = @ \cup {"relayTarget", "daemon"}]
           /\ pending' = Append(pending, k) /\ pc' = "poll" /\ UNCHANGED <<up, down, reset>>
  <2>a. /\ pending' \in Seq(Clients) /\ NoDup(pending') /\ Queued(k)'
        /\ \A d \in Clients : d # k => Queued(d)' = Queued(d)
    <3>1. ~Member(pending, k)
      BY <1>b, QueuesAreMembers
    <3>2. /\ pending' \in Seq(Clients) /\ NoDup(pending')
          /\ Member(pending', k) /\ \A d \in Clients : d # k => Member(pending', d) = Member(pending, d)
      BY <1>0, <1>1, <3>1, AppendFacts
    <3> QED
      BY <3>2, QueuesAreMembers
  <2>b. /\ open' \in [Clients -> SUBSET Ends] /\ open'[k] = open[k] \cup {"relayTarget", "daemon"}
        /\ \A d \in Clients : d # k => open'[d] = open[d]
    BY <1>0, <1>1 DEF TypeOK, Ends
  <2>1. TypeOK'
    BY <1>0, <1>a, <1>c, <1>1, <2>a, <2>b DEF TypeOK
  <2>2. Places'
    BY <1>0, <1>a, <1>b, <1>c, <1>1, <2>a DEF ProxyInv, Places, RelayPlace, DaemonPlace, Queues
  <2>3. ASSUME NEW d \in Clients, d # k PROVE Connection(d)'
    BY <1>0, <1>b, <1>c, <1>1, <2>3, <2>a, <2>b, UntouchedKept DEF ProxyInv, Untouched
  <2>4. Connection(k)'
    <3>0. /\ Reading(k)' /\ Awaiting(k)' /\ HeldFor(k, "writeTarget")' = 0
          /\ HeldFor(k, "writeClient")' = 0 /\ ToDaemon(k)' = up[k].n /\ ToClient(k)' = 0
          /\ unread'[k] = up[k].n /\ undelivered'[k] = 0 /\ sawEnd'[k] = {} /\ events' = {}
          /\ reset'[k] = {} /\ back'[k] = Empty /\ down'[k].fin = FALSE /\ fwd'[k].fin = FALSE
      BY <1>0, <1>b, <1>t, <1>c, <1>1, <2>a
         DEF Reading, Awaiting, HeldFor, ToDaemon, ToClient, Waiting, ProxyInv, Places, RelayPlace
    <3>1. Waiting(k)'
      BY <1>b DEF Waiting
    <3>2. Sides(k)'
      BY <1>b, <1>1, <2>a, <2>b, <3>0 DEF Sides, Waiting
    <3>3. Counted(k)' /\ Unanswered(k)' /\ Kept(k)' /\ RequestKept(k)' /\ ReplyKept(k)'
      BY <1>t, <1>1, <3>0 DEF Counted, Unanswered, Kept, RequestKept, ReplyKept
    <3> QED
      BY <3>1, <3>2, <3>3 DEF Connection
  <2> QED
    BY <2>1, <2>2, <2>3, <2>4 DEF ProxyInv
<1>2. CASE /\ open' = [open EXCEPT ![k] = @ \ {"relayClient"}]
           /\ reset' = ResetIf(up[k].n > 0, k, {"client"})
           /\ down' = Finish(down, k) /\ up' = Take(up, k)
           /\ pc' = IF stop THEN "done" ELSE "accept"
           /\ UNCHANGED <<cur, readable, pending>>
  <2>0. up \in [Clients -> Stream] /\ down \in [Clients -> Stream]
    BY <1>0 DEF TypeOK
  <2>a. /\ up' \in [Clients -> Stream] /\ up'[k].n = 0 /\ up'[k].fin = up[k].fin
        /\ \A d \in Clients : d # k => up'[d] = up[d]
    BY <1>2, <2>0, TakeFacts
  <2>b. /\ down' \in [Clients -> Stream] /\ down'[k].n = down[k].n /\ down'[k].fin = TRUE
        /\ \A d \in Clients : d # k => down'[d] = down[d]
    <3>1. down \in [Clients -> Stream] /\ down' = Finish(down, k)
      BY <1>2, <2>0
    <3> QED
      BY <3>1, FinishFacts
  <2>c. /\ open' \in [Clients -> SUBSET Ends] /\ open'[k] = open[k] \ {"relayClient"}
        /\ \A d \in Clients : d # k => open'[d] = open[d]
    BY <1>0, <1>2 DEF TypeOK
  <2>d. /\ reset' \in [Clients -> SUBSET Ends] /\ reset'[k] \subseteq {"client"}
        /\ \A d \in Clients : d # k => reset'[d] = reset[d]
    BY <1>0, <1>b, <1>2 DEF TypeOK, Ends, ResetIf, Waiting
  <2>e. \A d \in Clients : Queued(d)' = Queued(d)
    BY <1>2 DEF Queued
  <2>1. TypeOK'
    BY <1>0, <1>a, <1>c, <1>2, <2>a, <2>b, <2>c, <2>d DEF TypeOK
  <2>2. Places'
    BY <1>0, <1>a, <1>c, <1>2, <2>e DEF ProxyInv, Places, RelayPlace, DaemonPlace, Queues
  <2>3. ASSUME NEW d \in Clients, d # k PROVE Connection(d)'
    BY <1>0, <1>b, <1>c, <1>2, <2>3, <2>a, <2>b, <2>c, <2>d, <2>e, UntouchedKept
       DEF ProxyInv, Untouched
  <2>4. Connection(k)'
    <3>0. /\ ~Reading(k)' /\ ~Awaiting(k)' /\ HeldFor(k, "writeTarget")' = 0
          /\ HeldFor(k, "writeClient")' = 0 /\ ToDaemon(k)' = 0 /\ ToClient(k)' = 0
          /\ unread'[k] \in Nat /\ undelivered'[k] = 0 /\ sawEnd'[k] = {} /\ cur' # k
      BY <1>0, <1>b, <1>t, <1>c, <1>2, <2>a, <2>b, <2>e
         DEF Reading, Awaiting, HeldFor, ToDaemon, ToClient, Waiting
    <3>1. Waiting(k)'
      BY <1>b DEF Waiting
    <3>2. Sides(k)'
      BY <1>b, <1>c, <1>2, <2>c, <2>d, <2>e, <3>0 DEF Sides, Waiting
    <3>3. Counted(k)' /\ Unanswered(k)' /\ Kept(k)' /\ RequestKept(k)' /\ ReplyKept(k)'
      BY <3>0 DEF Counted, Unanswered, Kept, RequestKept, ReplyKept
    <3> QED
      BY <3>1, <3>2, <3>3 DEF Connection
  <2> QED
    BY <2>1, <2>2, <2>3, <2>4 DEF ProxyInv
<1> QED
  BY <1>1, <1>2 DEF Accept

-------------------------------------------------------------------------------
(* The daemon *)

LEMMA DaemonAcceptsStep == ProxyInv /\ DaemonAccepts => ProxyInv'
<1> SUFFICES ASSUME ProxyInv, DaemonAccepts PROVE ProxyInv'
  OBVIOUS
<1> USE ProxyAssumption DEF ProxyAssumption
<1>0. /\ TypeOK /\ dpc = "accept" /\ served = NoClient /\ pending # <<>> /\ pending \in Seq(Clients)
      /\ NoDup(backlog) /\ NoDup(pending)
  BY DEF ProxyInv, Places, DaemonPlace, Queues, TypeOK, DaemonAccepts
<1>a. /\ Head(pending) \in Clients /\ Member(pending, Head(pending)) /\ Tail(pending) \in Seq(Clients)
      /\ NoDup(Tail(pending)) /\ ~Member(Tail(pending), Head(pending))
      /\ \A d \in Clients : d # Head(pending) => Member(Tail(pending), d) = Member(pending, d)
  BY <1>0, TailFacts
<1> SUFFICES ASSUME NEW k \in Clients, k = Head(pending) PROVE ProxyInv'
  BY <1>a
<1>b. /\ served' = k /\ pending' = Tail(pending) /\ dpc' = "read"
      /\ UNCHANGED <<relay, flags, backlog, streams, sockets, history>>
  BY DEF DaemonAccepts
<1>c. /\ Queued(k) /\ ~Queued(k)' /\ \A d \in Clients : d # k => Queued(d)' = Queued(d)
      /\ \A d \in Clients : Waits(d)' = Waits(d)
  BY <1>a, <1>b, QueuesAreMembers
<1> USE DEF relay, flags, streams, sockets, history
<1>1. TypeOK'
  BY <1>0, <1>a, <1>b DEF TypeOK
<1>2. Places'
  BY <1>0, <1>a, <1>b, <1>c DEF ProxyInv, Places, RelayPlace, DaemonPlace, Queues
<1>3. ASSUME NEW d \in Clients, d # k PROVE Connection(d)'
  BY <1>0, <1>b, <1>c, <1>3, UntouchedKept DEF ProxyInv, Untouched
<1>4. Connection(k)'
  <2>0. /\ Connection(k) /\ Reading(k) /\ Reading(k)' /\ Awaiting(k) /\ Awaiting(k)'
        /\ HeldFor(k, "writeTarget")' = HeldFor(k, "writeTarget")
        /\ HeldFor(k, "writeClient")' = HeldFor(k, "writeClient")
        /\ ToDaemon(k)' = ToDaemon(k) /\ ToClient(k)' = ToClient(k)
    BY <1>0, <1>b, <1>c DEF ProxyInv, Reading, Awaiting, HeldFor, ToDaemon, ToClient
  <2>1. Waiting(k)' /\ Sides(k)'
    BY <1>b, <1>c, <2>0 DEF Connection, Waiting, Sides
  <2>2. Counted(k)' /\ Unanswered(k)' /\ Kept(k)'
    BY <1>b, <2>0 DEF Connection, Counted, Unanswered, Kept
  <2>3. RequestKept(k)' /\ ReplyKept(k)'
    BY <1>b, <2>0 DEF Connection, RequestKept, ReplyKept
  <2> QED
    BY <2>1, <2>2, <2>3 DEF Connection
<1> QED
  BY <1>1, <1>2, <1>3, <1>4 DEF ProxyInv

LEMMA DaemonReadsStep == ProxyInv /\ DaemonReads => ProxyInv'
<1> SUFFICES ASSUME ProxyInv, DaemonReads, NEW k \in Clients, k = served PROVE ProxyInv'
  BY ProxyAssumption DEF ProxyAssumption, ProxyInv, Places, DaemonPlace, TypeOK, DaemonReads
<1> USE ProxyAssumption DEF ProxyAssumption
<1>0. TypeOK /\ Connection(k) /\ dpc = "read" /\ fwd[k].n > 0 /\ Reading(k) /\ Awaiting(k)
  BY DEF ProxyInv, DaemonReads, Reading, Awaiting
<1>t. /\ fwd[k].n \in 0..Cap /\ up[k].n \in 0..Cap /\ held \in 0..Cap /\ unread[k] \in Nat
  BY <1>0, Amounts
<1>n. unread[k] >= fwd[k].n
  BY <1>0, <1>t DEF Connection, Counted, ToDaemon, HeldFor
<1>a. /\ fwd' \in [Clients -> Stream] /\ fwd'[k].n = 0 /\ fwd'[k].fin = fwd[k].fin
      /\ \A d \in Clients : d # k => fwd'[d] = fwd[d]
  <2>1. fwd \in [Clients -> Stream] /\ fwd' = Take(fwd, k)
    BY <1>0 DEF TypeOK, DaemonReads
  <2> QED
    BY <2>1, TakeFacts
<1>b. /\ unread' \in [Clients -> Nat] /\ unread'[k] = unread[k] - fwd[k].n
      /\ \A d \in Clients : d # k => unread'[d] = unread[d]
  BY <1>0, <1>t, <1>n DEF TypeOK, DaemonReads, Less
<1>c. /\ dpc' \in {"read", "reply", "close"}
      /\ UNCHANGED <<relay, flags, backlog, up, back, down, sockets, served, pending, undelivered, sawEnd>>
  BY DEF DaemonReads
<1>d. \A d \in Clients : Waits(d)' = Waits(d) /\ Queued(d)' = Queued(d)
  BY <1>c DEF Waits, Queued
<1> USE DEF relay, flags, sockets
<1>1. TypeOK'
  BY <1>0, <1>a, <1>b, <1>c DEF TypeOK
<1>2. Places'
  BY <1>0, <1>c, <1>d DEF ProxyInv, Places, RelayPlace, DaemonPlace, Queues
<1>3. ASSUME NEW d \in Clients, d # k PROVE Connection(d)'
  BY <1>a, <1>b, <1>c, <1>d, <1>3, UntouchedKept DEF ProxyInv, Untouched
<1>4. Connection(k)'
  <2>0. /\ Reading(k)' => dpc' = "read" \/ Queued(k)
        /\ ~Queued(k)
        /\ HeldFor(k, "writeTarget")' = HeldFor(k, "writeTarget")
        /\ HeldFor(k, "writeClient")' = HeldFor(k, "writeClient")
        /\ ToDaemon(k)' = ToDaemon(k) - fwd[k].n /\ ToClient(k)' = ToClient(k) /\ ToDaemon(k) \in Nat
    BY <1>0, <1>t, <1>a, <1>c, <1>d
       DEF ProxyInv, Places, Queues, Reading, HeldFor, ToDaemon, ToClient
  <2>1. Waiting(k)'
    BY <1>0, <1>c, <1>d DEF Connection, Waiting, Sides
  <2>2. Sides(k)'
    BY <1>0, <1>c, <1>d DEF Connection, Sides
  <2>3. Counted(k)'
    BY <1>0, <1>t, <1>b, <1>c, <2>0 DEF Connection, Counted
  <2>4. Unanswered(k)' /\ Kept(k)'
    BY <1>0, <1>c DEF Connection, Unanswered, Kept
  <2>5. RequestKept(k)'
    BY <1>0, <1>t, <1>a, <1>b, <1>c, <2>0 DEF Connection, RequestKept, Unanswered
  <2>6. ReplyKept(k)'
    BY <1>0, <1>c DEF Connection, ReplyKept, Unanswered
  <2> QED
    BY <2>1, <2>2, <2>3, <2>4, <2>5, <2>6 DEF Connection
<1> QED
  BY <1>1, <1>2, <1>3, <1>4 DEF ProxyInv

LEMMA DaemonReadEndsStep == ProxyInv /\ DaemonReadEnds => ProxyInv'
<1> SUFFICES ASSUME ProxyInv, DaemonReadEnds, NEW k \in Clients, k = served PROVE ProxyInv'
  BY ProxyAssumption DEF ProxyAssumption, ProxyInv, Places, DaemonPlace, TypeOK, DaemonReadEnds
<1> USE ProxyAssumption DEF ProxyAssumption
<1>0. TypeOK /\ Connection(k) /\ dpc = "read" /\ fwd[k].n = 0 /\ Reading(k) /\ Awaiting(k) /\ ~Queued(k)
  BY DEF ProxyInv, Places, Queues, DaemonReadEnds, Reading, Awaiting
<1>t. /\ up[k].n \in 0..Cap /\ held \in 0..Cap /\ back[k].n \in 0..Cap /\ down[k].n \in 0..Cap
      /\ undelivered[k] \in 0..1
  BY <1>0, Amounts
<1>a. /\ sawEnd' \in [Clients -> SUBSET {"client", "daemon"}]
      /\ sawEnd'[k] = IF fwd[k].fin THEN sawEnd[k] \cup {"daemon"} ELSE sawEnd[k]
      /\ \A d \in Clients : d # k => sawEnd'[d] = sawEnd[d]
  BY <1>0 DEF TypeOK, DaemonReadEnds
<1>c. /\ dpc' \in {"reply", "close"}
      /\ UNCHANGED <<relay, flags, backlog, streams, sockets, served, pending, unread, undelivered>>
  BY DEF DaemonReadEnds
<1>d. \A d \in Clients : Waits(d)' = Waits(d) /\ Queued(d)' = Queued(d)
  BY <1>c DEF Waits, Queued
<1> USE DEF relay, flags, sockets, streams
<1>1. TypeOK'
  BY <1>0, <1>a, <1>c DEF TypeOK
<1>2. Places'
  BY <1>0, <1>c, <1>d DEF ProxyInv, Places, RelayPlace, DaemonPlace, Queues
<1>3. ASSUME NEW d \in Clients, d # k PROVE Connection(d)'
  BY <1>a, <1>c, <1>d, <1>3, UntouchedKept DEF ProxyInv, Untouched
<1>4. Connection(k)'
  <2>0. /\ ~Reading(k)'
        /\ HeldFor(k, "writeTarget")' = HeldFor(k, "writeTarget")
        /\ HeldFor(k, "writeClient")' = HeldFor(k, "writeClient")
        /\ HeldFor(k, "writeClient") \in Nat
        /\ ToDaemon(k)' = ToDaemon(k) /\ ToClient(k)' = ToClient(k)
        /\ ToDaemon(k) = up[k].n + HeldFor(k, "writeTarget")
        /\ ToClient(k) = back[k].n + HeldFor(k, "writeClient") + down[k].n
    BY <1>0, <1>t, <1>c, <1>d DEF Reading, HeldFor, ToDaemon, ToClient
  <2>1. Waiting(k)'
    BY <1>0, <1>c, <1>d DEF Connection, Waiting, Sides
  <2>2. Sides(k)'
    BY <1>0, <1>a, <1>c, <1>d DEF Connection, Sides
  <2>3. Counted(k)'
    BY <1>0, <1>c, <2>0 DEF Connection, Counted
  <2>4. Unanswered(k)' /\ Kept(k)'
    BY <1>0, <1>c, <2>0 DEF Connection, Unanswered, Kept
  <2>5. RequestKept(k)'
    BY <1>0, <1>t, <1>a, <1>c, <2>0 DEF Connection, RequestKept, Unanswered
  <2>6. ReplyKept(k)'
    <3> SUFFICES ASSUME ~stop PROVE ReplyKept(k)'
      BY <1>c DEF ReplyKept
    <3>1. /\ undelivered[k] = 0 /\ ToClient(k) = 0 /\ back[k].n = 0 /\ HeldFor(k, "writeClient") = 0
          /\ "relayTarget" \notin reset[k] /\ (cur = k => pc # "close" /\ "error" \notin events)
      BY <1>0, <1>t, <2>0 DEF Connection, Unanswered, Kept, Counted
    <3> QED
      BY <1>c, <2>0, <3>1 DEF ReplyKept
  <2> QED
    BY <2>1, <2>2, <2>3, <2>4, <2>5, <2>6 DEF Connection
<1> QED
  BY <1>1, <1>2, <1>3, <1>4 DEF ProxyInv

LEMMA DaemonRepliesStep == ProxyInv /\ DaemonReplies => ProxyInv'
<1> SUFFICES ASSUME ProxyInv, DaemonReplies, NEW k \in Clients, k = served PROVE ProxyInv'
  BY ProxyAssumption DEF ProxyAssumption, ProxyInv, Places, DaemonPlace, TypeOK, DaemonReplies
<1> USE ProxyAssumption DEF ProxyAssumption
<1>0. TypeOK /\ Connection(k) /\ dpc = "reply" /\ Awaiting(k) /\ ~Queued(k) /\ undelivered[k] = 0
  BY DEF ProxyInv, Places, Queues, DaemonReplies, Awaiting, Connection, Unanswered
<1>t. /\ back[k].n \in 0..Cap /\ down[k].n \in 0..Cap /\ held \in 0..Cap
  BY <1>0, Amounts
<1>a. /\ back' \in [Clients -> Stream] /\ \A d \in Clients : d # k => back'[d] = back[d]
      /\ \/ "relayTarget" \notin open[k] /\ UNCHANGED back
         \/ "relayTarget" \in open[k] /\ back'[k].n = back[k].n + 1 /\ back'[k].fin = back[k].fin
  <2>1. CASE "relayTarget" \notin open[k]
    BY <1>0, <2>1 DEF TypeOK, DaemonReplies
  <2>2. CASE "relayTarget" \in open[k]
    <3>1. back \in [Clients -> Stream] /\ back[k].n < Cap /\ back' = Add(back, k)
      BY <1>0, <2>2 DEF TypeOK, DaemonReplies
    <3>2. /\ back' \in [Clients -> Stream] /\ \A d \in Clients : d # k => back'[d] = back[d]
          /\ back'[k].n = back[k].n + 1 /\ back'[k].fin = back[k].fin
      BY <3>1, AddFacts
    <3> QED
      BY <2>2, <3>2
  <2> QED
    BY <2>1, <2>2
<1>b. /\ undelivered' \in [Clients -> 0..1] /\ undelivered'[k] = 1
      /\ \A d \in Clients : d # k => undelivered'[d] = undelivered[d]
  BY <1>0 DEF TypeOK, DaemonReplies, More
<1>c. /\ dpc' = "close"
      /\ UNCHANGED <<relay, flags, backlog, up, fwd, down, sockets, served, pending, unread, sawEnd>>
  BY DEF DaemonReplies
<1>d. \A d \in Clients : Waits(d)' = Waits(d) /\ Queued(d)' = Queued(d)
  BY <1>c DEF Waits, Queued
<1> USE DEF relay, flags, sockets
<1>1. TypeOK'
  BY <1>0, <1>a, <1>b, <1>c DEF TypeOK
<1>2. Places'
  BY <1>0, <1>c, <1>d DEF ProxyInv, Places, RelayPlace, DaemonPlace, Queues
<1>3. ASSUME NEW d \in Clients, d # k PROVE Connection(d)'
  BY <1>a, <1>b, <1>c, <1>d, <1>3, UntouchedKept DEF ProxyInv, Untouched
<1>4. Connection(k)'
  <2>a. /\ ToClient(k) = 0 /\ back[k].n = 0 /\ down[k].n = 0 /\ HeldFor(k, "writeClient") = 0
    BY <1>0, <1>t DEF HeldFor, ToClient, Connection, Counted
  <2>b. back'[k].n \in Nat
    BY <1>a, StreamFacts
  <2>0. /\ ~Reading(k) /\ ~Reading(k)' /\ ~Awaiting(k)'
        /\ HeldFor(k, "writeClient")' = 0
        /\ ToDaemon(k)' = ToDaemon(k) /\ ToClient(k)' = back'[k].n
    BY <1>0, <1>t, <1>c, <1>d, <2>a, <2>b DEF Reading, Awaiting, HeldFor, ToDaemon, ToClient
  <2>1. Waiting(k)'
    BY <1>0, <1>c, <1>d DEF Connection, Waiting, Sides
  <2>2. Sides(k)'
    BY <1>0, <1>c, <1>d DEF Connection, Sides
  <2>3. Counted(k)'
    BY <1>0, <1>t, <1>a, <1>b, <1>c, <2>a, <2>0 DEF Connection, Counted
  <2>4. Unanswered(k)' /\ Kept(k)' /\ RequestKept(k)'
    BY <1>0, <1>c, <2>0 DEF Connection, Unanswered, Kept, RequestKept
  <2>6. ReplyKept(k)'
    <3> SUFFICES ASSUME ~stop PROVE ReplyKept(k)'
      BY <1>c DEF ReplyKept
    <3>1. /\ cur = k /\ pc # "close" /\ ~down[k].fin /\ "error" \notin events
          /\ "relayTarget" \in open[k] /\ "relayTarget" \notin reset[k] /\ "client" \notin sawEnd[k]
      BY <1>0 DEF Connection, Unanswered, Kept, Sides
    <3> QED
      BY <1>t, <1>a, <1>b, <1>c, <2>a, <2>0, <3>1 DEF ReplyKept
  <2> QED
    BY <2>1, <2>2, <2>3, <2>4, <2>6 DEF Connection
<1> QED
  BY <1>1, <1>2, <1>3, <1>4 DEF ProxyInv

LEMMA DaemonClosesStep == ProxyInv /\ DaemonCloses => ProxyInv'
<1> SUFFICES ASSUME ProxyInv, DaemonCloses, NEW k \in Clients, k = served PROVE ProxyInv'
  BY ProxyAssumption DEF ProxyAssumption, ProxyInv, Places, DaemonPlace, TypeOK, DaemonCloses
<1> USE ProxyAssumption DEF ProxyAssumption
<1>0. TypeOK /\ Connection(k) /\ dpc = "close" /\ ~Awaiting(k) /\ ~Reading(k) /\ ~Queued(k)
  BY DEF ProxyInv, Places, Queues, DaemonCloses, Awaiting, Reading
<1>t. /\ back[k].n \in 0..Cap /\ down[k].n \in 0..Cap /\ held \in 0..Cap /\ up[k].n \in 0..Cap
      /\ fwd[k].n \in 0..Cap /\ unread[k] \in Nat
  BY <1>0, Amounts
<1>a. /\ back' \in [Clients -> Stream] /\ back'[k].n = back[k].n
      /\ \A d \in Clients : d # k => back'[d] = back[d]
  <2>1. back \in [Clients -> Stream] /\ back' = Finish(back, k)
    BY <1>0 DEF TypeOK, DaemonCloses
  <2> QED
    BY <2>1, FinishFacts
<1>b. /\ fwd' \in [Clients -> Stream] /\ fwd'[k].n = 0
      /\ \A d \in Clients : d # k => fwd'[d] = fwd[d]
  <2>1. fwd \in [Clients -> Stream] /\ fwd' = Take(fwd, k)
    BY <1>0 DEF TypeOK, DaemonCloses
  <2> QED
    BY <2>1, TakeFacts
<1>c. /\ dpc' = "accept" /\ served' = NoClient
      /\ UNCHANGED <<relay, flags, backlog, up, down, pending, history>>
  BY DEF DaemonCloses
<1>d. \A d \in Clients : Waits(d)' = Waits(d) /\ Queued(d)' = Queued(d)
  BY <1>c DEF Waits, Queued
<1>e. /\ open' \in [Clients -> SUBSET Ends] /\ open'[k] = open[k] \ {"daemon"}
      /\ \A d \in Clients : d # k => open'[d] = open[d]
  BY <1>0 DEF TypeOK, DaemonCloses
<1>f. /\ reset' \in [Clients -> SUBSET Ends] /\ reset'[k] \subseteq reset[k] \cup {"relayTarget"}
      /\ fwd[k].n = 0 => reset'[k] = reset[k]
      /\ \A d \in Clients : d # k => reset'[d] = reset[d]
  BY <1>0, <1>t DEF TypeOK, Ends, DaemonCloses, ResetIf
<1> USE DEF relay, flags, history
<1>1. TypeOK'
  BY <1>0, <1>a, <1>b, <1>c, <1>e, <1>f DEF TypeOK
<1>2. Places'
  BY <1>0, <1>c, <1>d DEF ProxyInv, Places, RelayPlace, DaemonPlace, Queues
<1>3. ASSUME NEW d \in Clients, d # k PROVE Connection(d)'
  BY <1>a, <1>b, <1>c, <1>d, <1>e, <1>f, <1>3, UntouchedKept DEF ProxyInv, Untouched
<1>4. Connection(k)'
  <2>0. /\ ~Reading(k)' /\ ~Awaiting(k)' /\ ~Queued(k)' /\ ~Waits(k)
        /\ HeldFor(k, "writeTarget")' = HeldFor(k, "writeTarget")
        /\ HeldFor(k, "writeTarget") \in Nat
        /\ HeldFor(k, "writeClient")' = HeldFor(k, "writeClient")
        /\ ToDaemon(k)' = ToDaemon(k) - fwd[k].n /\ ToDaemon(k) \in Nat /\ ToDaemon(k) >= fwd[k].n
        /\ ToClient(k)' = ToClient(k)
    BY <1>0, <1>t, <1>a, <1>b, <1>c, <1>d
       DEF Reading, Awaiting, HeldFor, ToDaemon, ToClient, Connection, Waiting, Sides
  <2>1. Waiting(k)'
    BY <1>d, <2>0 DEF Waiting
  <2>2. Sides(k)'
    BY <1>0, <1>c, <1>d, <1>e, <1>f DEF Connection, Sides
  <2>3. Counted(k)'
    BY <1>0, <1>t, <1>c, <2>0 DEF Connection, Counted
  <2>4. Unanswered(k)' /\ Kept(k)'
    BY <2>0 DEF Unanswered, Kept
  <2>5. RequestKept(k)'
    BY <1>0, <1>c, <2>0 DEF Connection, RequestKept
  <2>6. ReplyKept(k)'
    <3> SUFFICES ASSUME ~stop, "daemon" \in sawEnd[k] PROVE ReplyKept(k)'
      BY <1>c DEF ReplyKept
    <3>1. fwd[k].n = 0
      BY <1>0, <1>t, <2>0 DEF Connection, RequestKept, Counted
    <3> QED
      BY <1>0, <1>a, <1>c, <1>e, <1>f, <2>0, <3>1 DEF Connection, ReplyKept
  <2> QED
    BY <2>1, <2>2, <2>3, <2>4, <2>5, <2>6 DEF Connection
<1> QED
  BY <1>1, <1>2, <1>3, <1>4 DEF ProxyInv

-------------------------------------------------------------------------------
(* Clients *)

LEMMA ConnectStep == \A k \in Clients : ProxyInv /\ Connect(k) => ProxyInv'
<1> SUFFICES ASSUME NEW k \in Clients, ProxyInv, Connect(k) PROVE ProxyInv'
  OBVIOUS
<1> USE ProxyAssumption DEF ProxyAssumption
<1>0. /\ TypeOK /\ Connection(k) /\ NoDup(backlog) /\ ~Waits(k) /\ open[k] = {}
      /\ cur # k /\ ~Queued(k) /\ served # k
  BY DEF ProxyInv, Places, Queues, Connect, Connection, Sides
<1>a. /\ backlog' \in Seq(Clients) /\ NoDup(backlog') /\ Waits(k)'
      /\ \A d \in Clients : d # k => Waits(d)' = Waits(d)
  <2>1. backlog \in Seq(Clients) /\ backlog' = Append(backlog, k) /\ ~Member(backlog, k)
    BY <1>0, QueuesAreMembers DEF TypeOK, Connect
  <2>2. /\ backlog' \in Seq(Clients) /\ NoDup(backlog') /\ Member(backlog', k)
        /\ \A d \in Clients : d # k => Member(backlog', d) = Member(backlog, d)
    BY <1>0, <2>1, AppendFacts
  <2> QED
    BY <2>2, QueuesAreMembers
<1>b. /\ up' \in [Clients -> Stream] /\ fwd' \in [Clients -> Stream]
      /\ back' \in [Clients -> Stream] /\ down' \in [Clients -> Stream]
      /\ up'[k] = Empty /\ fwd'[k] = Empty /\ back'[k] = Empty /\ down'[k] = Empty
      /\ \A d \in Clients : d # k =>
           up'[d] = up[d] /\ fwd'[d] = fwd[d] /\ back'[d] = back[d] /\ down'[d] = down[d]
  <2>1. Empty \in Stream
    BY DEF Empty, Stream
  <2> QED
    BY <1>0, <2>1 DEF TypeOK, Connect
<1>c. /\ open' \in [Clients -> SUBSET Ends] /\ open'[k] = {"client", "relayClient"}
      /\ reset' \in [Clients -> SUBSET Ends] /\ reset'[k] = {}
      /\ sawEnd' \in [Clients -> SUBSET {"client", "daemon"}] /\ sawEnd'[k] = {}
      /\ \A d \in Clients : d # k =>
           open'[d] = open[d] /\ reset'[d] = reset[d] /\ sawEnd'[d] = sawEnd[d]
  BY <1>0 DEF TypeOK, Connect, Ends
<1>d. /\ unread' \in [Clients -> Nat] /\ unread'[k] = 0
      /\ undelivered' \in [Clients -> 0..1] /\ undelivered'[k] = 0
      /\ \A d \in Clients : d # k => unread'[d] = unread[d] /\ undelivered'[d] = undelivered[d]
  BY <1>0 DEF TypeOK, Connect
<1>e. UNCHANGED <<relay, flags, daemon>>
  BY DEF Connect
<1>f. \A d \in Clients : Queued(d)' = Queued(d)
  BY <1>e DEF Queued, daemon
<1> USE DEF relay, flags, daemon
<1>1. TypeOK'
  BY <1>0, <1>a, <1>b, <1>c, <1>d, <1>e DEF TypeOK
<1>2. Places'
  BY <1>0, <1>a, <1>e, <1>f DEF ProxyInv, Places, RelayPlace, DaemonPlace, Queues
<1>3. ASSUME NEW d \in Clients, d # k PROVE Connection(d)'
  BY <1>a, <1>b, <1>c, <1>d, <1>e, <1>f, <1>3, UntouchedKept DEF ProxyInv, Untouched
<1>4. Connection(k)'
  <2>1. /\ cur' # k /\ served' # k /\ ~Queued(k)' /\ ~Reading(k)' /\ ~Awaiting(k)'
        /\ up'[k].n = 0 /\ fwd'[k].n = 0 /\ back'[k].n = 0 /\ down'[k].n = 0
        /\ ToDaemon(k)' = 0 /\ ToClient(k)' = 0
    BY <1>0, <1>b, <1>e, <1>f DEF Empty, Reading, Awaiting, ToDaemon, ToClient, HeldFor
  <2>2. Waiting(k)' /\ Sides(k)'
    BY <1>a, <1>b, <1>c, <1>d, <2>1 DEF Waiting, Sides
  <2>3. Counted(k)' /\ Unanswered(k)' /\ Kept(k)' /\ RequestKept(k)' /\ ReplyKept(k)'
    BY <1>c, <1>d, <2>1 DEF Counted, Unanswered, Kept, RequestKept, ReplyKept
  <2> QED
    BY <2>2, <2>3 DEF Connection
<1> QED
  BY <1>1, <1>2, <1>3, <1>4 DEF ProxyInv

LEMMA ClientSendsStep == \A k \in Clients : ProxyInv /\ ClientSends(k) => ProxyInv'
<1> SUFFICES ASSUME NEW k \in Clients, ProxyInv, ClientSends(k) PROVE ProxyInv'
  OBVIOUS
<1> USE ProxyAssumption DEF ProxyAssumption
<1>0. TypeOK /\ Connection(k) /\ ~up[k].fin /\ up[k].n < Cap /\ "client" \in open[k]
  BY DEF ProxyInv, ClientSends
<1>t. /\ up[k].n \in 0..Cap /\ fwd[k].n \in 0..Cap /\ held \in 0..Cap /\ unread[k] \in Nat
  BY <1>0, Amounts
<1>a. /\ up' \in [Clients -> Stream] /\ up'[k].n = up[k].n + 1 /\ up'[k].fin = up[k].fin
      /\ \A d \in Clients : d # k => up'[d] = up[d]
  <2>1. up \in [Clients -> Stream] /\ up[k].n < Cap /\ up' = Add(up, k)
    BY <1>0 DEF TypeOK, ClientSends
  <2> QED
    BY <2>1, AddFacts
<1>b. /\ unread' \in [Clients -> Nat] /\ unread'[k] = unread[k] + 1
      /\ \A d \in Clients : d # k => unread'[d] = unread[d]
  BY <1>0, <1>t DEF TypeOK, ClientSends, More
<1>c. UNCHANGED <<relay, flags, backlog, fwd, back, down, sockets, daemon, undelivered, sawEnd>>
  BY DEF ClientSends
<1>d. \A d \in Clients : Waits(d)' = Waits(d) /\ Queued(d)' = Queued(d)
  BY <1>c DEF Waits, Queued, daemon
<1> USE DEF relay, flags, sockets, daemon
<1>1. TypeOK'
  BY <1>0, <1>a, <1>b, <1>c DEF TypeOK
<1>2. Places'
  BY <1>0, <1>c, <1>d DEF ProxyInv, Places, RelayPlace, DaemonPlace, Queues
<1>3. ASSUME NEW d \in Clients, d # k PROVE Connection(d)'
  BY <1>a, <1>b, <1>c, <1>d, <1>3, UntouchedKept DEF ProxyInv, Untouched
<1>4. Connection(k)'
  <2>0. /\ Reading(k)' = Reading(k) /\ Awaiting(k)' = Awaiting(k)
        /\ HeldFor(k, "writeTarget")' = HeldFor(k, "writeTarget")
        /\ HeldFor(k, "writeClient")' = HeldFor(k, "writeClient")
        /\ ToDaemon(k)' = ToDaemon(k) + 1 /\ ToClient(k)' = ToClient(k) /\ ToDaemon(k) \in Nat
    BY <1>t, <1>a, <1>c, <1>d DEF Reading, Awaiting, HeldFor, ToDaemon, ToClient
  <2>1. Waiting(k)'
    BY <1>0, <1>t, <1>a, <1>b, <1>c, <1>d DEF Connection, Waiting
  <2>2. Sides(k)'
    BY <1>0, <1>t, <1>a, <1>c, <1>d DEF Connection, Sides
  <2>3. Counted(k)'
    BY <1>0, <1>t, <1>b, <1>c, <2>0 DEF Connection, Counted
  <2>4. Unanswered(k)' /\ Kept(k)'
    BY <1>0, <1>c, <2>0 DEF Connection, Unanswered, Kept
  <2>5. RequestKept(k)'
    BY <1>0, <1>t, <1>a, <1>b, <1>c, <2>0 DEF Connection, RequestKept
  <2>6. ReplyKept(k)'
    BY <1>0, <1>c, <2>0 DEF Connection, ReplyKept
  <2> QED
    BY <2>1, <2>2, <2>3, <2>4, <2>5, <2>6 DEF Connection
<1> QED
  BY <1>1, <1>2, <1>3, <1>4 DEF ProxyInv

LEMMA ShutdownOutputStep == \A k \in Clients : ProxyInv /\ ShutdownOutput(k) => ProxyInv'
<1> SUFFICES ASSUME NEW k \in Clients, ProxyInv, ShutdownOutput(k) PROVE ProxyInv'
  OBVIOUS
<1> USE ProxyAssumption DEF ProxyAssumption
<1>0. TypeOK /\ Connection(k)
  BY DEF ProxyInv
<1>a. /\ up' \in [Clients -> Stream] /\ up'[k].n = up[k].n /\ up'[k].fin = TRUE
      /\ \A d \in Clients : d # k => up'[d] = up[d]
  <2>1. up \in [Clients -> Stream] /\ up' = Finish(up, k)
    BY <1>0 DEF TypeOK, ShutdownOutput
  <2> QED
    BY <2>1, FinishFacts
<1>c. UNCHANGED <<relay, flags, backlog, fwd, back, down, sockets, daemon, history>>
  BY DEF ShutdownOutput
<1>d. \A d \in Clients : Waits(d)' = Waits(d) /\ Queued(d)' = Queued(d)
  BY <1>c DEF Waits, Queued, daemon
<1> USE DEF relay, flags, sockets, daemon, history
<1>1. TypeOK'
  BY <1>0, <1>a, <1>c DEF TypeOK
<1>2. Places'
  BY <1>0, <1>c, <1>d DEF ProxyInv, Places, RelayPlace, DaemonPlace, Queues
<1>3. ASSUME NEW d \in Clients, d # k PROVE Connection(d)'
  BY <1>a, <1>c, <1>d, <1>3, UntouchedKept DEF ProxyInv, Untouched
<1>4. Connection(k)'
  <2>0. /\ Reading(k)' = Reading(k) /\ Awaiting(k)' = Awaiting(k)
        /\ HeldFor(k, "writeTarget")' = HeldFor(k, "writeTarget")
        /\ HeldFor(k, "writeClient")' = HeldFor(k, "writeClient")
        /\ ToDaemon(k)' = ToDaemon(k) /\ ToClient(k)' = ToClient(k)
    BY <1>a, <1>c, <1>d DEF Reading, Awaiting, HeldFor, ToDaemon, ToClient
  <2>1. Waiting(k)' /\ Sides(k)'
    BY <1>0, <1>a, <1>c, <1>d DEF Connection, Waiting, Sides
  <2>2. Counted(k)' /\ Unanswered(k)' /\ Kept(k)' /\ ReplyKept(k)'
    BY <1>0, <1>c, <2>0 DEF Connection, Counted, Unanswered, Kept, ReplyKept
  <2>3. RequestKept(k)'
    BY <1>0, <1>a, <1>c, <2>0 DEF Connection, RequestKept
  <2> QED
    BY <2>1, <2>2, <2>3 DEF Connection
<1> QED
  BY <1>1, <1>2, <1>3, <1>4 DEF ProxyInv

LEMMA ClientReadsStep == \A k \in Clients : ProxyInv /\ ClientReads(k) => ProxyInv'
<1> SUFFICES ASSUME NEW k \in Clients, ProxyInv, ClientReads(k) PROVE ProxyInv'
  OBVIOUS
<1> USE ProxyAssumption DEF ProxyAssumption
<1>0. TypeOK /\ Connection(k) /\ "client" \in open[k]
  BY DEF ProxyInv, ClientReads
<1>t. /\ down[k].n \in 0..Cap /\ back[k].n \in 0..Cap /\ held \in 0..Cap
      /\ undelivered[k] \in 0..1
  BY <1>0, Amounts
<1>c. UNCHANGED <<relay, flags, backlog, up, fwd, back, sockets, daemon, unread>>
  BY DEF ClientReads
<1>d. \A d \in Clients : Waits(d)' = Waits(d) /\ Queued(d)' = Queued(d)
  BY <1>c DEF Waits, Queued, daemon
<1>n. /\ ToClient(k) \in Nat /\ ToClient(k) >= down[k].n /\ undelivered[k] >= ToClient(k)
      /\ Reading(k)' = Reading(k) /\ Awaiting(k)' = Awaiting(k) /\ ToDaemon(k)' = ToDaemon(k)
      /\ HeldFor(k, "writeTarget")' = HeldFor(k, "writeTarget")
      /\ HeldFor(k, "writeClient")' = HeldFor(k, "writeClient")
      /\ HeldFor(k, "writeClient") \in Nat
      /\ ToClient(k) = back[k].n + HeldFor(k, "writeClient") + down[k].n
  BY <1>0, <1>t, <1>c, <1>d
     DEF Connection, Counted, ToDaemon, ToClient, HeldFor, Reading, Awaiting, relay, daemon
<1> USE DEF relay, flags, sockets, daemon
<1>1. CASE /\ down[k].n > 0 /\ undelivered' = Less(undelivered, k, down[k].n)
           /\ down' = Take(down, k) /\ UNCHANGED sawEnd
  <2>a. /\ down' \in [Clients -> Stream] /\ down'[k].n = 0 /\ down'[k].fin = down[k].fin
        /\ \A d \in Clients : d # k => down'[d] = down[d]
    <3>1. down \in [Clients -> Stream] /\ down' = Take(down, k)
      BY <1>0, <1>1 DEF TypeOK
    <3> QED
      BY <3>1, TakeFacts
  <2>b. /\ undelivered' \in [Clients -> 0..1] /\ undelivered'[k] = undelivered[k] - down[k].n
        /\ \A d \in Clients : d # k => undelivered'[d] = undelivered[d]
    BY <1>0, <1>1, <1>t, <1>n DEF TypeOK, Less
  <2>1. TypeOK'
    BY <1>0, <1>1, <1>c, <2>a, <2>b DEF TypeOK
  <2>2. Places'
    BY <1>c, <1>d DEF ProxyInv, Places, RelayPlace, DaemonPlace, Queues
  <2>3. ASSUME NEW d \in Clients, d # k PROVE Connection(d)'
    BY <1>1, <1>c, <1>d, <2>a, <2>b, <2>3, UntouchedKept DEF ProxyInv, Untouched
  <2>4. Connection(k)'
    <3>0. /\ ~Awaiting(k) /\ ~Reading(k) /\ ~Waits(k) /\ ToClient(k)' = ToClient(k) - down[k].n
      BY <1>0, <1>1, <1>t, <1>n, <1>c, <2>a
         DEF Connection, Unanswered, Waiting, Awaiting, Empty, ToClient
    <3>1. Waiting(k)' /\ Sides(k)'
      BY <1>0, <1>1, <1>c, <1>d, <2>a, <3>0 DEF Connection, Waiting, Sides
    <3>2. Counted(k)'
      BY <1>0, <1>t, <1>c, <1>n, <2>b, <3>0 DEF Connection, Counted
    <3>3. Unanswered(k)' /\ Kept(k)' /\ RequestKept(k)'
      BY <1>0, <1>1, <1>c, <1>n, <3>0 DEF Connection, Unanswered, Kept, RequestKept
    <3>4. ReplyKept(k)'
      BY <1>0, <1>1, <1>t, <1>c, <1>n, <2>a, <2>b, <3>0 DEF Connection, ReplyKept
    <3> QED
      BY <3>1, <3>2, <3>3, <3>4 DEF Connection
  <2> QED
    BY <2>1, <2>2, <2>3, <2>4 DEF ProxyInv
<1>2. CASE /\ Ended(down, k) /\ "client" \notin reset[k]
           /\ sawEnd' = [sawEnd EXCEPT ![k] = @ \cup {"client"}]
           /\ UNCHANGED <<undelivered, down>>
  <2>a. /\ sawEnd' \in [Clients -> SUBSET {"client", "daemon"}]
        /\ sawEnd'[k] = sawEnd[k] \cup {"client"}
        /\ \A d \in Clients : d # k => sawEnd'[d] = sawEnd[d]
    BY <1>0, <1>2 DEF TypeOK
  <2>1. TypeOK'
    BY <1>0, <1>2, <1>c, <2>a DEF TypeOK
  <2>2. Places'
    BY <1>c, <1>d DEF ProxyInv, Places, RelayPlace, DaemonPlace, Queues
  <2>3. ASSUME NEW d \in Clients, d # k PROVE Connection(d)'
    BY <1>2, <1>c, <1>d, <2>a, <2>3, UntouchedKept DEF ProxyInv, Untouched
  <2>4. Connection(k)'
    <3>0. /\ down[k].n = 0 /\ down[k].fin /\ ~Waits(k) /\ ToClient(k)' = ToClient(k)
      BY <1>0, <1>2, <1>c, <1>n DEF Ended, Connection, Waiting, Empty, ToClient
    <3>1. Waiting(k)' /\ Sides(k)'
      BY <1>0, <1>2, <1>c, <1>d, <2>a, <3>0 DEF Connection, Waiting, Sides
    <3>2. Counted(k)' /\ Unanswered(k)' /\ Kept(k)' /\ RequestKept(k)'
      BY <1>0, <1>2, <1>c, <1>n, <2>a, <3>0 DEF Connection, Counted, Unanswered, Kept, RequestKept
    <3>3. ReplyKept(k)'
      <4> SUFFICES ASSUME ~stop, "daemon" \in sawEnd[k] PROVE ReplyKept(k)'
        BY <1>c, <2>a DEF ReplyKept
      <4>1. ~Awaiting(k)
        BY <1>0, <3>0 DEF Connection, Kept
      <4>2. undelivered[k] = 0
        BY <1>0, <1>t, <1>n, <3>0, <4>1 DEF Connection, ReplyKept
      <4> QED
        BY <1>0, <1>2, <1>c, <1>n, <2>a, <3>0, <4>2 DEF Connection, ReplyKept
    <3> QED
      BY <3>1, <3>2, <3>3 DEF Connection
  <2> QED
    BY <2>1, <2>2, <2>3, <2>4 DEF ProxyInv
<1> QED
  BY <1>1, <1>2 DEF ClientReads

LEMMA ClientClosesStep == \A k \in Clients : ProxyInv /\ ClientCloses(k) => ProxyInv'
<1> SUFFICES ASSUME NEW k \in Clients, ProxyInv, ClientCloses(k) PROVE ProxyInv'
  OBVIOUS
<1> USE ProxyAssumption DEF ProxyAssumption
<1>0. TypeOK /\ Connection(k)
  BY DEF ProxyInv
<1>t. /\ down[k].n \in 0..Cap /\ back[k].n \in 0..Cap /\ held \in 0..Cap /\ down[k].fin \in BOOLEAN
      /\ undelivered[k] \in 0..1 /\ up[k].n \in 0..Cap
  BY <1>0, Amounts
<1>a. /\ up' \in [Clients -> Stream] /\ up'[k].n = up[k].n /\ up'[k].fin = TRUE
      /\ \A d \in Clients : d # k => up'[d] = up[d]
  <2>1. up \in [Clients -> Stream] /\ up' = Finish(up, k)
    BY <1>0 DEF TypeOK, ClientCloses
  <2> QED
    BY <2>1, FinishFacts
<1>b. /\ down' \in [Clients -> Stream] /\ down'[k].n = 0 /\ down'[k].fin = down[k].fin
      /\ \A d \in Clients : d # k => down'[d] = down[d]
  <2>1. down \in [Clients -> Stream] /\ down' = Take(down, k)
    BY <1>0 DEF TypeOK, ClientCloses
  <2> QED
    BY <2>1, TakeFacts
<1>c. UNCHANGED <<relay, flags, backlog, fwd, back, daemon, history>>
  BY DEF ClientCloses
<1>d. \A d \in Clients : Waits(d)' = Waits(d) /\ Queued(d)' = Queued(d)
  BY <1>c DEF Waits, Queued, daemon
<1>e. /\ open' \in [Clients -> SUBSET Ends] /\ open'[k] = open[k] \ {"client"}
      /\ \A d \in Clients : d # k => open'[d] = open[d]
  BY <1>0 DEF TypeOK, ClientCloses
<1>f. /\ reset' \in [Clients -> SUBSET Ends] /\ reset'[k] \subseteq reset[k] \cup {"relayClient"}
      /\ down[k].n = 0 => reset'[k] = reset[k]
      /\ \A d \in Clients : d # k => reset'[d] = reset[d]
  BY <1>0, <1>t DEF TypeOK, Ends, ClientCloses, ResetIf
<1> USE DEF relay, flags, daemon, history
<1>1. TypeOK'
  BY <1>0, <1>a, <1>b, <1>c, <1>e, <1>f DEF TypeOK
<1>2. Places'
  BY <1>c, <1>d DEF ProxyInv, Places, RelayPlace, DaemonPlace, Queues
<1>3. ASSUME NEW d \in Clients, d # k PROVE Connection(d)'
  BY <1>a, <1>b, <1>c, <1>d, <1>e, <1>f, <1>3, UntouchedKept DEF ProxyInv, Untouched
<1>4. Connection(k)'
  <2>0. /\ Reading(k)' = Reading(k) /\ Awaiting(k)' = Awaiting(k) /\ ToDaemon(k)' = ToDaemon(k)
        /\ HeldFor(k, "writeTarget")' = HeldFor(k, "writeTarget")
        /\ HeldFor(k, "writeClient")' = HeldFor(k, "writeClient")
        /\ ToClient(k)' = ToClient(k) - down[k].n /\ ToClient(k) \in Nat /\ ToClient(k) >= down[k].n
    BY <1>t, <1>a, <1>b, <1>c, <1>d DEF Reading, Awaiting, ToDaemon, ToClient, HeldFor
  <2>1. Waiting(k)'
    <3> SUFFICES ASSUME Waits(k) PROVE Waiting(k)'
      BY <1>d DEF Waiting
    <3>1. down[k] = Empty /\ down[k].n = 0
      BY <1>0 DEF Connection, Waiting, Empty
    <3>2. down'[k] = Empty
      <4>1. down' = Take(down, k) /\ down \in [Clients -> Stream]
        BY <1>0 DEF ClientCloses, TypeOK
      <4> QED
        BY <3>1, <4>1 DEF Take, Empty, Stream
    <3> QED
      BY <1>0, <1>a, <1>c, <1>d, <1>e, <1>f, <3>1, <3>2 DEF Connection, Waiting
  <2>2. Sides(k)'
    BY <1>0, <1>a, <1>b, <1>c, <1>d, <1>e, <1>f DEF Connection, Sides
  <2>3. Counted(k)'
    BY <1>0, <1>t, <1>c, <2>0 DEF Connection, Counted
  <2>4. Unanswered(k)'
    <3>1. Awaiting(k) => down[k].n = 0
      BY <1>0, <1>t, <2>0 DEF Connection, Unanswered, Counted
    <3> QED
      BY <1>0, <1>c, <1>f, <2>0, <3>1 DEF Connection, Unanswered
  <2>5. Kept(k)'
    BY <1>0, <1>b, <1>c, <2>0 DEF Connection, Kept
  <2>6. RequestKept(k)'
    BY <1>0, <1>a, <1>c, <2>0 DEF Connection, RequestKept
  <2>7. ReplyKept(k)'
    BY <1>0, <1>c, <1>e, <1>f, <2>0 DEF Connection, ReplyKept
  <2> QED
    BY <2>1, <2>2, <2>3, <2>4, <2>5, <2>6, <2>7 DEF Connection
<1> QED
  BY <1>1, <1>2, <1>3, <1>4 DEF ProxyInv

-------------------------------------------------------------------------------
(* The theorems *)

LEMMA ProxyInvInit == Init => ProxyInv
<1> SUFFICES ASSUME Init PROVE ProxyInv
  OBVIOUS
<1> USE ProxyAssumption DEF ProxyAssumption, Init
<1>0. Empty \in Stream
  BY DEF Empty, Stream
<1>1. TypeOK
  <2>1. up \in [Clients -> Stream] /\ fwd = up /\ back = up /\ down = up
    BY <1>0
  <2>2. backlog \in Seq(Clients) /\ pending \in Seq(Clients)
    OBVIOUS
  <2>3. open \in [Clients -> SUBSET Ends] /\ reset = open
    OBVIOUS
  <2>4. unread \in [Clients -> Nat] /\ undelivered \in [Clients -> 0..1]
    OBVIOUS
  <2>5. sawEnd \in [Clients -> SUBSET {"client", "daemon"}]
    OBVIOUS
  <2>6. up \in [Clients -> Stream] /\ fwd \in [Clients -> Stream]
        /\ back \in [Clients -> Stream] /\ down \in [Clients -> Stream]
        /\ reset \in [Clients -> SUBSET Ends]
    BY <2>1, <2>3
  <2>8. control \in BOOLEAN /\ stop \in BOOLEAN
    OBVIOUS
  <2>7. /\ pc = "accept" /\ dpc = "accept"
        /\ cur = NoClient /\ served = NoClient /\ readable = {} /\ events = {} /\ held \in 0..Cap
    OBVIOUS
  <2> HIDE DEF Init
  <2> QED
    BY <2>2, <2>3, <2>4, <2>5, <2>6, <2>7, <2>8 DEF TypeOK
<1>2. Places
  BY DEF Places, RelayPlace, DaemonPlace, Queues, NoDup, Queued
<1>3. ASSUME NEW c \in Clients PROVE Connection(c)
  <2>1. /\ ~Waits(c) /\ ~Queued(c) /\ cur # c /\ served # c
    BY DEF Waits, Queued
  <2>2. ~Reading(c) /\ ~Awaiting(c) /\ ToDaemon(c) = 0 /\ ToClient(c) = 0
    BY <2>1 DEF Reading, Awaiting, ToDaemon, ToClient, HeldFor, Empty
  <2>3. unread[c] = 0 /\ undelivered[c] = 0 /\ sawEnd[c] = {} /\ open[c] = {} /\ reset[c] = {}
    OBVIOUS
  <2> QED
    BY <2>1, <2>2, <2>3
       DEF Connection, Waiting, Sides, Counted, Unanswered, Kept, RequestKept, ReplyKept
<1> QED
  BY <1>1, <1>2, <1>3 DEF ProxyInv

LEMMA ProxyInvNext == ProxyInv /\ [Next]_vars => ProxyInv'
<1> SUFFICES ASSUME ProxyInv, [Next]_vars PROVE ProxyInv'
  OBVIOUS
<1>1. CASE \E c \in Clients : ClientStep(c)
  BY <1>1, ConnectStep, ClientSendsStep, ShutdownOutputStep, ClientReadsStep, ClientClosesStep
     DEF ClientStep
<1>2. CASE RelayStep
  BY <1>2, AcceptStep, PollStep, ReadClientStep, WriteTargetStep,
     ReadTargetStep, WriteClientStep, CheckStep, CloseBothStep DEF RelayStep
<1>3. CASE DaemonStep
  BY <1>3, DaemonAcceptsStep, DaemonReadsStep, DaemonReadEndsStep, DaemonRepliesStep,
     DaemonClosesStep DEF DaemonStep
<1>4. CASE Signal
  BY <1>4, SignalStep
<1>5. CASE AcceptFails \/ Stopped \/ UNCHANGED vars
  BY <1>5, StutteringStep DEF Stopped
<1> QED
  BY <1>1, <1>2, <1>3, <1>4, <1>5 DEF Next

(* Every variable of the relay, its clients and the daemon keeps its type; *)
(* in particular no socket buffer overflows and a connection gets at most  *)
(* one reply (socket_proxy.cpp:145-222, main.cpp:262-347).                 *)
THEOREM TypeCorrect == Spec => []TypeOK
<1>1. ProxyInv => TypeOK
  BY DEF ProxyInv
<1> QED
  BY <1>1, ProxyInvInit, ProxyInvNext, PTL DEF Spec

(* For any number of clients and buffers of any size, neither direction of *)
(* a connection is cut off by the end of the other, unless the proxy is    *)
(* stopped (socket_proxy.cpp:177-202).                                     *)
THEOREM TransfersHold == Spec => []TransfersAreWhole
<1>1. ProxyInv => TransfersAreWhole
  <2> SUFFICES ASSUME ProxyInv, NEW c \in Clients, ~stop, "daemon" \in sawEnd[c]
               PROVE  unread[c] = 0 /\ ("client" \in sawEnd[c] => undelivered[c] = 0)
    BY DEF TransfersAreWhole, RequestIsWhole, ReplyIsWhole
  <2> QED
    BY DEF ProxyInv, Connection, RequestKept, ReplyKept
<1> QED
  BY <1>1, ProxyInvInit, ProxyInvNext, PTL DEF Spec
=============================================================================
