------------------------------ MODULE SocketProxy ------------------------------
(***************************************************************************)
(* One endpoint of vcames-socket-proxy (daemon/src/socket_proxy.cpp), with *)
(* the clients before it and the vcamesd server thread behind it.          *)
(*                                                                         *)
(* Serve accepts one client at a time, connects to the daemon and relays   *)
(* both directions until both have ended.  The daemon, too, serves one     *)
(* connection at a time.  On the control endpoint it reads a request to    *)
(* its end and answers; on the frame endpoint it reads frames until the    *)
(* producer ends or falls silent for two seconds.                          *)
(*                                                                         *)
(* A connection of client c is four byte streams, up and fwd toward the    *)
(* daemon, back and down toward the client, each counted in units.  A      *)
(* reply is one unit: the daemon writes it in one piece, far smaller than  *)
(* a socket buffer.                                                        *)
(***************************************************************************)
EXTENDS Naturals, Sequences, FiniteSets

CONSTANTS
  Clients,      \* connections that exist at the same time
  Cap,          \* units a socket buffer holds before send blocks
  NoClient      \* no member of Clients

ASSUME ProxyAssumption ==
  NoClient \notin Clients /\ Cap \in Nat \ {0}

VARIABLES
  control,                          \* is this the control endpoint, or that for frames?
  pc, cur, readable, events, held,  \* the relay: its place, client, flags, poll result, buffer
  stop,                             \* g_stop
  backlog,                          \* clients waiting for Serve's accept
  up, fwd, back, down,              \* [Clients -> Stream]
  open,                             \* [Clients -> SUBSET Ends]: socket ends not closed
  reset,                            \* [Clients -> SUBSET Ends]: ends with a pending ECONNRESET
  dpc, served, pending,             \* the daemon: its place, connection, its own backlog
  unread, undelivered,              \* ghosts, [Clients -> Nat]: units sent by the client and
                                    \* not read by the daemon; by the daemon, not by the client
  sawEnd                            \* ghost, [Clients -> SUBSET {"client", "daemon"}]: who has
                                    \* read an end of file

relay == <<pc, cur, readable, events, held>>
streams == <<up, fwd, back, down>>
sockets == <<open, reset>>
daemon == <<dpc, served, pending>>
history == <<unread, undelivered, sawEnd>>
flags == <<control, stop>>
vars == <<relay, flags, backlog, streams, sockets, daemon, history>>

Ends == {"client", "relayClient", "relayTarget", "daemon"}
Stream == [n : 0..Cap, fin : BOOLEAN]
Empty == [n |-> 0, fin |-> FALSE]

Init ==
  /\ control \in BOOLEAN
  /\ pc = "accept" /\ cur = NoClient /\ readable = {} /\ events = {} /\ held = 0
  /\ stop = FALSE /\ backlog = <<>>
  /\ up = [c \in Clients |-> Empty] /\ fwd = up /\ back = up /\ down = up
  /\ open = [c \in Clients |-> {}] /\ reset = open
  /\ dpc = "accept" /\ served = NoClient /\ pending = <<>>
  /\ unread = [c \in Clients |-> 0] /\ undelivered = unread
  /\ sawEnd = open

(* What becomes of a stream. *)
Add(s, c) == [s EXCEPT ![c].n = @ + 1]
Take(s, c) == [s EXCEPT ![c].n = 0]
Finish(s, c) == [s EXCEPT ![c].fin = TRUE]
More(h, c) == [h EXCEPT ![c] = @ + 1]
Less(h, c, k) == [h EXCEPT ![c] = @ - k]
Ended(s, c) == s[c].n = 0 /\ s[c].fin

(* A socket closed with bytes unread resets its peer. *)
ResetIf(lost, c, peers) ==
  IF lost THEN [reset EXCEPT ![c] = @ \cup peers] ELSE reset

-------------------------------------------------------------------------------
(* Clients: DaemonClient and FramePushClient *)

Waits(c) == c \in {backlog[i] : i \in 1..Len(backlog)}

Connect(c) ==
  /\ open[c] = {} /\ (pc = "done" => ~stop)
  /\ ~Waits(c)
  /\ backlog' = Append(backlog, c)
  /\ open' = [open EXCEPT ![c] = {"client", "relayClient"}]
  /\ reset' = [reset EXCEPT ![c] = {}]
  /\ up' = [up EXCEPT ![c] = Empty] /\ fwd' = [fwd EXCEPT ![c] = Empty]
  /\ back' = [back EXCEPT ![c] = Empty] /\ down' = [down EXCEPT ![c] = Empty]
  /\ unread' = [unread EXCEPT ![c] = 0] /\ undelivered' = [undelivered EXCEPT ![c] = 0]
  /\ sawEnd' = [sawEnd EXCEPT ![c] = {}]
  /\ UNCHANGED <<relay, flags, daemon>>

ClientSends(c) ==
  /\ {"client", "relayClient"} \subseteq open[c] /\ ~up[c].fin
  /\ up[c].n < Cap
  /\ up' = Add(up, c) /\ unread' = More(unread, c)
  /\ UNCHANGED <<relay, flags, backlog, fwd, back, down, sockets, daemon, undelivered,
                 sawEnd>>

(* A request ends with shutdownOutput; a producer only ever closes. *)
ShutdownOutput(c) ==
  /\ control /\ "client" \in open[c] /\ ~up[c].fin
  /\ up' = Finish(up, c)
  /\ UNCHANGED <<relay, flags, backlog, fwd, back, down, sockets, daemon, history>>

(* A requester reads the reply to its end; a producer reads nothing. *)
ClientReads(c) ==
  /\ control /\ "client" \in open[c] /\ up[c].fin
  /\ \/ /\ down[c].n > 0
        /\ undelivered' = Less(undelivered, c, down[c].n) /\ down' = Take(down, c)
        /\ UNCHANGED sawEnd
     \/ /\ Ended(down, c) /\ "client" \notin reset[c]
        /\ sawEnd' = [sawEnd EXCEPT ![c] = @ \cup {"client"}]
        /\ UNCHANGED <<undelivered, down>>
  /\ UNCHANGED <<relay, flags, backlog, up, fwd, back, sockets, daemon, unread>>

(* Done, the eight seconds are over, or any exception. *)
ClientCloses(c) ==
  /\ "client" \in open[c]
  /\ open' = [open EXCEPT ![c] = @ \ {"client"}]
  /\ reset' = ResetIf(down[c].n > 0, c, {"relayClient"})
  /\ up' = Finish(up, c) /\ down' = Take(down, c)
  /\ UNCHANGED <<relay, flags, backlog, fwd, back, daemon, history>>

-------------------------------------------------------------------------------
(* Serve and Relay *)

(* The peer's uid is checked and the daemon's socket connected; a failure  *)
(* closes the client.                                                      *)
Accept ==
  /\ pc = "accept" /\ backlog # <<>>
  /\ LET c == Head(backlog) IN
     /\ backlog' = Tail(backlog)
     /\ \/ /\ cur' = c /\ readable' = {"client", "target"}
           /\ open' = [open EXCEPT ![c] = @ \cup {"relayTarget", "daemon"}]
           /\ pending' = Append(pending, c)
           /\ pc' = "poll"
           /\ UNCHANGED <<up, down, reset>>
        \/ /\ open' = [open EXCEPT ![c] = @ \ {"relayClient"}]
           /\ reset' = ResetIf(up[c].n > 0, c, {"client"})
           /\ down' = Finish(down, c) /\ up' = Take(up, c)
           /\ pc' = IF stop THEN "done" ELSE "accept"
           /\ UNCHANGED <<cur, readable, pending>>
  /\ UNCHANGED <<events, held, flags, fwd, back, dpc, served, history>>

(* accept4 fails, its listener closed by the signal handler or the system  *)
(* short of something.  Without the control endpoint main stops the other; *)
(* without that for frames it goes on.                                     *)
AcceptFails ==
  /\ pc = "accept"
  /\ pc' = "done" /\ stop' = (stop \/ control)
  /\ UNCHANGED <<control, cur, readable, events, held, backlog, streams, sockets, daemon,
                 history>>

(* What poll reports of the two sockets; a hang-up of a side already ended *)
(* is reported again and again, and passed over.                           *)
Reported ==
  (IF "client" \in readable /\ (up[cur].n > 0 \/ up[cur].fin \/ "relayClient" \in reset[cur])
   THEN {"client"} ELSE {})
  \cup
  (IF "target" \in readable /\ (back[cur].n > 0 \/ back[cur].fin \/ "relayTarget" \in reset[cur])
   THEN {"target"} ELSE {})
  \cup
  (IF reset[cur] \cap {"relayClient", "relayTarget"} # {} THEN {"error"} ELSE {})

Poll ==
  /\ pc = "poll"
  /\ \/ (stop \/ readable = {}) /\ pc' = "close" /\ UNCHANGED events
     \/ /\ ~stop /\ readable # {} /\ Reported # {}
        /\ events' = Reported /\ pc' = "client"
  /\ UNCHANGED <<cur, readable, held, flags, backlog, streams, sockets, daemon, history>>

(* Seeded fault: the relay goes on waiting for a side that has ended. *)
EndedForgotten(side) == UNCHANGED readable

EndSeen(side) == readable' = readable \ {side}

(* Seeded fault: the end of the client ends the relay. *)
AfterClientEndCloses == "close"

AfterClientEnd == "target"

ReadClient ==
  /\ pc = "client"
  /\ \/ /\ "client" \notin events
        /\ pc' = "target" /\ UNCHANGED <<held, up, fwd, readable>>
     \/ /\ "client" \in events /\ up[cur].n > 0
        /\ held' = up[cur].n /\ up' = Take(up, cur)
        /\ pc' = "writeTarget" /\ UNCHANGED <<fwd, readable>>
     \/ /\ "client" \in events /\ up[cur].n = 0
        /\ EndSeen("client") /\ fwd' = Finish(fwd, cur)
        /\ pc' = AfterClientEnd /\ UNCHANGED <<held, up>>
  /\ UNCHANGED <<cur, events, flags, backlog, back, down, sockets, daemon, history>>

(* Seeded fault: the buffer has no end. *)
SendTargetUnbounded == fwd' = Add(fwd, cur) /\ held' = held - 1

SendTarget == fwd[cur].n < Cap /\ fwd' = Add(fwd, cur) /\ held' = held - 1

(* WriteAll blocks while the buffer is full, and fails once the peer is gone. *)
WriteTarget ==
  /\ pc = "writeTarget"
  /\ \/ /\ "daemon" \notin open[cur]
        /\ pc' = "close" /\ UNCHANGED <<held, fwd>>
     \/ /\ "daemon" \in open[cur]
        /\ SendTarget
        /\ pc' = IF held = 1 THEN "target" ELSE "writeTarget"
  /\ UNCHANGED <<cur, readable, events, flags, backlog, up, back, down, sockets, daemon,
                 history>>

ReadTarget ==
  /\ pc = "target"
  /\ \/ /\ "target" \notin events
        /\ pc' = "check" /\ UNCHANGED <<held, back, down, readable>>
     \/ /\ "target" \in events /\ back[cur].n > 0
        /\ held' = back[cur].n /\ back' = Take(back, cur)
        /\ pc' = "writeClient" /\ UNCHANGED <<down, readable>>
     \/ /\ "target" \in events /\ back[cur].n = 0
        /\ EndSeen("target") /\ down' = Finish(down, cur)
        /\ pc' = "check" /\ UNCHANGED <<held, back>>
  /\ UNCHANGED <<cur, events, flags, backlog, up, fwd, sockets, daemon, history>>

WriteClient ==
  /\ pc = "writeClient"
  /\ \/ /\ "client" \notin open[cur]
        /\ pc' = "close" /\ UNCHANGED <<held, down>>
     \/ /\ "client" \in open[cur] /\ down[cur].n < Cap
        /\ down' = Add(down, cur) /\ held' = held - 1
        /\ pc' = IF held = 1 THEN "check" ELSE "writeClient"
  /\ UNCHANGED <<cur, readable, events, flags, backlog, up, fwd, back, sockets, daemon,
                 history>>

Check ==
  /\ pc = "check"
  /\ pc' = IF "error" \in events THEN "close" ELSE "poll"
  /\ UNCHANGED <<cur, readable, events, held, flags, backlog, streams, sockets, daemon,
                 history>>

CloseBoth ==
  /\ pc = "close"
  /\ open' = [open EXCEPT ![cur] = @ \ {"relayClient", "relayTarget"}]
  /\ reset' = ResetIf(up[cur].n > 0, cur, {"client"})
  /\ fwd' = Finish(fwd, cur) /\ back' = Take(back, cur)
  /\ down' = Finish(down, cur) /\ up' = Take(up, cur)
  /\ cur' = NoClient /\ readable' = {} /\ events' = {} /\ held' = 0
  /\ pc' = IF stop THEN "done" ELSE "accept"
  /\ UNCHANGED <<flags, backlog, daemon, history>>

RelayStep ==
  \/ Accept \/ Poll \/ ReadClient \/ WriteTarget \/ ReadTarget
  \/ WriteClient \/ Check \/ CloseBoth

-------------------------------------------------------------------------------
(* ControlServer and FrameServer of vcamesd *)

DaemonAccepts ==
  /\ dpc = "accept" /\ pending # <<>>
  /\ served' = Head(pending) /\ pending' = Tail(pending)
  /\ dpc' = "read"
  /\ UNCHANGED <<relay, flags, backlog, streams, sockets, history>>

(* A request grown too large is answered at once, a frame the engine does  *)
(* not take ends the connection.                                           *)
DaemonReads ==
  /\ dpc = "read" /\ fwd[served].n > 0
  /\ fwd' = Take(fwd, served) /\ unread' = Less(unread, served, fwd[served].n)
  /\ dpc' \in {"read", IF control THEN "reply" ELSE "close"}
  /\ UNCHANGED <<relay, flags, backlog, up, back, down, sockets, served, pending,
                 undelivered, sawEnd>>

(* End of file, or SO_RCVTIMEO: two seconds without a byte. *)
DaemonReadEnds ==
  /\ dpc = "read" /\ fwd[served].n = 0
  /\ sawEnd' = IF fwd[served].fin THEN [sawEnd EXCEPT ![served] = @ \cup {"daemon"}]
                                  ELSE sawEnd
  /\ dpc' = IF control THEN "reply" ELSE "close"
  /\ UNCHANGED <<relay, flags, backlog, streams, sockets, served, pending, unread,
                 undelivered>>

DaemonReplies ==
  /\ dpc = "reply"
  /\ undelivered' = More(undelivered, served)
  /\ \/ "relayTarget" \notin open[served] /\ UNCHANGED back
     \/ /\ "relayTarget" \in open[served] /\ back[served].n < Cap
        /\ back' = Add(back, served)
  /\ dpc' = "close"
  /\ UNCHANGED <<relay, flags, backlog, up, fwd, down, sockets, served, pending, unread,
                 sawEnd>>

DaemonCloses ==
  /\ dpc = "close"
  /\ open' = [open EXCEPT ![served] = @ \ {"daemon"}]
  /\ reset' = ResetIf(fwd[served].n > 0, served, {"relayTarget"})
  /\ back' = Finish(back, served) /\ fwd' = Take(fwd, served)
  /\ served' = NoClient /\ dpc' = "accept"
  /\ UNCHANGED <<relay, flags, backlog, up, down, pending, history>>

DaemonStep ==
  DaemonAccepts \/ DaemonReads \/ DaemonReadEnds \/ DaemonReplies \/ DaemonCloses

-------------------------------------------------------------------------------

(* SIGTERM to the proxy. *)
Signal ==
  /\ ~stop /\ stop' = TRUE
  /\ UNCHANGED <<control, relay, backlog, streams, sockets, daemon, history>>

Stopped == stop /\ pc \in {"accept", "done"} /\ UNCHANGED vars

ClientStep(c) ==
  \/ Connect(c) \/ ClientSends(c) \/ ShutdownOutput(c) \/ ClientReads(c) \/ ClientCloses(c)

Next ==
  \/ \E c \in Clients : ClientStep(c)
  \/ RelayStep \/ AcceptFails \/ DaemonStep \/ Signal \/ Stopped

Spec == Init /\ [][Next]_vars

(* Both processes run, and the receive timeout of the daemon fires.  A     *)
(* requester gives up after eight seconds; a producer owes nothing.        *)
FairSpec ==
  /\ Spec /\ WF_vars(RelayStep) /\ WF_vars(DaemonStep)
  /\ \A c \in Clients : WF_vars(control /\ ClientCloses(c))

-------------------------------------------------------------------------------
(* Correctness *)

(* Every variable has its type. *)
TypeOK ==
  /\ control \in BOOLEAN
  /\ pc \in {"accept", "poll", "client", "writeTarget", "target", "writeClient", "check",
             "close", "done"}
  /\ cur \in Clients \cup {NoClient} /\ readable \subseteq {"client", "target"}
  /\ events \subseteq {"client", "target", "error"} /\ held \in 0..Cap
  /\ stop \in BOOLEAN
  /\ backlog \in Seq(Clients) /\ pending \in Seq(Clients)
  /\ up \in [Clients -> Stream] /\ fwd \in [Clients -> Stream]
  /\ back \in [Clients -> Stream] /\ down \in [Clients -> Stream]
  /\ open \in [Clients -> SUBSET Ends] /\ reset \in [Clients -> SUBSET Ends]
  /\ dpc \in {"accept", "read", "reply", "close"} /\ served \in Clients \cup {NoClient}
  /\ unread \in [Clients -> Nat] /\ undelivered \in [Clients -> 0..1]
  /\ sawEnd \in [Clients -> SUBSET {"client", "daemon"}]

(* The daemon never takes a part of a request for all of it: it reads the  *)
(* end after every byte the client sent, unless the proxy is stopped       *)
(* (socket_proxy.cpp:177-185).                                             *)
RequestIsWhole ==
  \A c \in Clients :
    "daemon" \in sawEnd[c] /\ ~stop => unread[c] = 0

(* A client that asked properly and reads its reply to the end has all of  *)
(* the reply: half-closing the request side does not cut the answer off    *)
(* (socket_proxy.cpp:182-194), unless the proxy is stopped.                *)
ReplyIsWhole ==
  \A c \in Clients :
    sawEnd[c] = {"client", "daemon"} /\ ~stop => undelivered[c] = 0

(* Neither direction of a connection is cut off by the end of the other    *)
(* (socket_proxy.cpp:177-202).                                             *)
TransfersAreWhole == RequestIsWhole /\ ReplyIsWhole

(* A client that is gone does not keep the endpoint (one Relay serves all  *)
(* clients of an endpoint, socket_proxy.cpp:204-222).                      *)
GoneClientReleased ==
  \A c \in Clients : cur = c /\ "client" \notin open[c] ~> cur # c

(* Every requester gets its turn in the end, whatever the ones before it   *)
(* do: Serve takes its connection out of the backlog (socket_proxy.cpp:    *)
(* 204-222).                                                               *)
RequesterServed ==
  \A c \in Clients : control /\ Waits(c) ~> ~Waits(c) \/ stop

(* The one relay of an endpoint is given up by a client that is gone, and  *)
(* comes to every requester.                                               *)
EndpointMovesOn == GoneClientReleased /\ RequesterServed

(* main.cpp:222-223 says of a receive timeout: "Abandon an incomplete      *)
(* frame so a stalled producer cannot monopolize the single frame endpoint *)
(* forever."                                                               *)
StalledProducerAbandoned ==
  \A c \in Clients :
    ~control /\ cur = c /\ "daemon" \notin open[c] /\ backlog # <<>> ~> cur # c
=============================================================================
