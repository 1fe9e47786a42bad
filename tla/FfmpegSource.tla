------------------------------ MODULE FfmpegSource ------------------------------
(***************************************************************************)
(* FfmpegSource::Stream (daemon/src/ffmpeg_source.cpp): one call starts an *)
(* FFmpeg child in a process group of its own, reads frames from its       *)
(* stdout pipe and diagnostics from its stderr pipe, and ends when it is   *)
(* told to stop, the child ends, the stream stalls or a frame is refused.  *)
(* Engine's SourceLoop makes one call after another.                       *)
(*                                                                         *)
(* The caller, the child and the clock run concurrently.  A pipe holds a   *)
(* few units of bytes; time is counted in ticks since the last frame, or   *)
(* since the start.                                                        *)
(***************************************************************************)
EXTENDS Naturals

CONSTANTS
  InitialTimeout,    \* kInitialFrameTimeout, in ticks
  ConnectedTimeout,  \* kConnectedFrameTimeout, in ticks
  TermAttempts,      \* how often TerminateChild looks before it kills
  PipeSize           \* units a pipe holds before its writer blocks

ASSUME SourceAssumption ==
  /\ InitialTimeout \in Nat /\ ConnectedTimeout \in Nat
  /\ TermAttempts \in Nat \ {0} /\ PipeSize \in Nat \ {0}

VARIABLES
  pc,         \* what the calling thread does next
  fds,        \* pipe ends the caller holds open
  connected, parserFailed, childExited,   \* locals of Stream
  events,     \* what poll reported: subset of {"out", "err"}
  attempts,   \* looks of TerminateChild so far
  stop,       \* stop_requested
  silence,    \* ticks since last_frame, the start before the first frame
  child,      \* "none", "running", "zombie", "reaped"
  stubborn,   \* does the child ignore SIGTERM?
  termed, killed,                         \* signals the child has got
  out, err,   \* units in the pipes
  oversize    \* will the parser refuse what stdout holds?

locals == <<connected, parserFailed, childExited, events, attempts>>
process == <<child, stubborn, termed, killed>>
pipes == <<out, err, oversize>>
vars == <<pc, fds, locals, stop, silence, process, pipes>>

ReadEnds == {"outRead", "errRead"}
PipeEnds == ReadEnds \cup {"outWrite", "errWrite"}

Init ==
  /\ pc = "idle" /\ fds = {}
  /\ connected = FALSE /\ parserFailed = FALSE /\ childExited = FALSE
  /\ events = {} /\ attempts = 0
  /\ stop = FALSE /\ silence = 0
  /\ child = "none" /\ stubborn = FALSE /\ termed = FALSE /\ killed = FALSE
  /\ out = 0 /\ err = 0 /\ oversize = FALSE

-------------------------------------------------------------------------------
(* The call *)

(* The executable is there and the stdout pipe can be made; else Stream    *)
(* returns at once, with nothing to close.                                 *)
Begin ==
  /\ pc = "idle" /\ ~stop
  /\ \/ fds' = {"outRead", "outWrite"} /\ pc' = "pipe"
     \/ UNCHANGED <<fds, pc>>
  /\ UNCHANGED <<locals, stop, silence, process, pipes>>

(* The stderr pipe is made too, or the clean-up comes next. *)
MakeErrPipe ==
  /\ pc = "pipe"
  /\ \/ fds' = fds \cup {"errRead", "errWrite"} /\ pc' = "spawn"
     \/ pc' = "undo" /\ UNCHANGED fds
  /\ UNCHANGED <<locals, stop, silence, process, pipes>>

(* Seeded fault: the clean-up looks at the pipe that could not be made.    *)
UndoneLeaking == fds \ {"errRead", "errWrite"}

(* The clean-up closes each end that is there: those of the stdout pipe.   *)
Undone == fds \ PipeEnds

UndoPipes ==
  /\ pc = "undo"
  /\ fds' = Undone
  /\ pc' = "idle"
  /\ UNCHANGED <<locals, stop, silence, process, pipes>>

(* posix_spawn; on success the caller closes the write ends, and the       *)
(* locals of the read loop begin their life.                               *)
SpawnChild ==
  /\ pc = "spawn"
  /\ \/ /\ fds' = ReadEnds
        /\ child' = "running" /\ stubborn' \in BOOLEAN
        /\ termed' = FALSE /\ killed' = FALSE
        /\ pc' = "nonblocking"
     \/ /\ fds' = {} /\ pc' = "idle"
        /\ UNCHANGED process
  /\ out' = 0 /\ err' = 0 /\ oversize' = FALSE
  /\ connected' = FALSE /\ parserFailed' = FALSE /\ childExited' = FALSE
  /\ events' = {} /\ attempts' = 0
  /\ silence' = 0
  /\ UNCHANGED stop

(* SetNonBlocking of both read ends; a failure ends the child. *)
SetNonBlocking ==
  /\ pc = "nonblocking"
  /\ pc' \in {"poll", "term"}
  /\ UNCHANGED <<fds, locals, stop, silence, process, pipes>>

(* An end of file counts as readable. *)
Readable == {e \in {"out", "err"} :
               \/ child # "running"
               \/ e = "out" /\ out > 0
               \/ e = "err" /\ err > 0}

(* Seeded fault: diagnostics are only read after the loop. *)
AfterPollUndrained(ready) == IF "out" \in ready THEN "read" ELSE "look"

(* Diagnostics are read first. *)
AfterPoll(ready) ==
  IF "err" \in ready THEN "drain" ELSE IF "out" \in ready THEN "read" ELSE "look"

(* The loop condition, then poll, which returns after 250 ms at the latest;*)
(* it may fail.                                                            *)
Poll ==
  /\ pc = "poll"
  /\ \/ (stop \/ parserFailed) /\ pc' = "leave" /\ UNCHANGED <<events, parserFailed>>
     \/ /\ ~stop /\ ~parserFailed
        /\ \/ events' = Readable /\ pc' = AfterPoll(Readable) /\ UNCHANGED parserFailed
           \/ parserFailed' = TRUE /\ pc' = "leave" /\ UNCHANGED events
  /\ UNCHANGED <<fds, connected, childExited, attempts, stop, silence, process, pipes>>

(* One read of DrainDiagnostic, in the loop and after it: a unit of the    *)
(* pipe is what its buffer holds.  It reads on until there is nothing left.*)
DrainSome ==
  /\ pc \in {"drain", "leave"} /\ err > 0
  /\ err' = err - 1
  /\ UNCHANGED <<pc, fds, locals, stop, silence, process, out, oversize>>

DrainNone ==
  /\ pc = "drain" /\ err = 0
  /\ pc' = IF "out" \in events THEN "read" ELSE "look"
  /\ UNCHANGED <<fds, locals, stop, silence, process, pipes>>

(* One read takes all there is, for the buffer is as large as a pipe: the  *)
(* parser refuses it, or it completes a frame, which goes to the           *)
(* callbacks, or it does not.  The stop flag is not looked at.             *)
ReadSome ==
  /\ pc = "read" /\ out > 0
  /\ out' = 0
  /\ IF oversize
     THEN /\ parserFailed' = TRUE /\ pc' = "look"
          /\ UNCHANGED <<connected, silence>>
     ELSE /\ \/ connected' = TRUE /\ silence' = 0
             \/ UNCHANGED <<connected, silence>>
          /\ UNCHANGED <<parserFailed, pc>>
  /\ UNCHANGED <<fds, childExited, events, attempts, stop, process, err, oversize>>

(* EAGAIN or end of file ends the inner loop. *)
ReadNone ==
  /\ pc = "read" /\ out = 0
  /\ pc' = "look"
  /\ UNCHANGED <<fds, locals, stop, silence, process, pipes>>

(* Seeded fault: only a stream that never connected can time out. *)
StalledUnconnectedOnly == ~connected /\ silence > InitialTimeout

Stalled ==
  \/ ~connected /\ silence > InitialTimeout
  \/ connected /\ silence > ConnectedTimeout

(* Seeded fault: the exit is not noted, so the child is terminated again. *)
NoteExitForgotten == UNCHANGED childExited

NoteExit == childExited' = TRUE

(* waitpid(WNOHANG) reaps a child that ended; else the clock is looked at. *)
Look ==
  /\ pc = "look"
  /\ IF child = "zombie"
     THEN /\ child' = "reaped" /\ NoteExit /\ pc' = "leave"
          /\ UNCHANGED parserFailed
     ELSE /\ parserFailed' = (parserFailed \/ Stalled)
          /\ pc' = "poll"
          /\ UNCHANGED <<child, childExited>>
  /\ UNCHANGED <<fds, connected, events, attempts, stop, silence, stubborn, termed,
                 killed, pipes>>

(* After the loop, once the diagnostics are drained, a child not yet       *)
(* reaped is terminated.                                                   *)
Leave ==
  /\ pc = "leave" /\ err = 0
  /\ pc' = IF childExited THEN "return" ELSE "term"
  /\ UNCHANGED <<fds, locals, stop, silence, process, pipes>>

-------------------------------------------------------------------------------
(* TerminateChild *)

Term ==
  /\ pc = "term"
  /\ termed' = TRUE
  /\ attempts' = 0
  /\ pc' = "termWait"
  /\ UNCHANGED <<fds, connected, parserFailed, childExited, events, stop, silence,
                 child, stubborn, killed, pipes>>

(* Seeded fault: an off-by-one in the loop of TerminateChild. *)
LooksAgainOnce == attempts + 1 <= TermAttempts

LooksAgain == attempts + 1 < TermAttempts

TermWait ==
  /\ pc = "termWait"
  /\ IF child = "zombie"
     THEN child' = "reaped" /\ pc' = "return" /\ UNCHANGED attempts
     ELSE /\ attempts' = attempts + 1
          /\ pc' = IF LooksAgain THEN "termWait" ELSE "kill"
          /\ UNCHANGED child
  /\ UNCHANGED <<fds, connected, parserFailed, childExited, events, stop, silence,
                 stubborn, termed, killed, pipes>>

(* Seeded fault: a child that outlives SIGTERM is asked once more. *)
SignalAgain == termed' = TRUE /\ UNCHANGED killed

SignalKill == killed' = TRUE /\ UNCHANGED termed

Kill ==
  /\ pc = "kill"
  /\ SignalKill
  /\ pc' = "killWait"
  /\ UNCHANGED <<fds, locals, stop, silence, child, stubborn, pipes>>

KillWait ==
  /\ pc = "killWait" /\ child = "zombie"
  /\ child' = "reaped"
  /\ pc' = "return"
  /\ UNCHANGED <<fds, locals, stop, silence, stubborn, termed, killed, pipes>>

(* The FileDescriptor destructors. *)
Closed == {}

Return ==
  /\ pc = "return"
  /\ fds' = Closed
  /\ pc' = "idle"
  /\ UNCHANGED <<locals, stop, silence, process, pipes>>

CallStep ==
  \/ MakeErrPipe \/ UndoPipes \/ SpawnChild \/ SetNonBlocking
  \/ Poll \/ DrainSome \/ DrainNone \/ ReadSome \/ ReadNone \/ Look
  \/ Leave \/ Term \/ TermWait \/ Kill \/ KillWait \/ Return

-------------------------------------------------------------------------------
(* The child, the clock and the engine *)

(* A child blocks on a full pipe. *)
ChildWrites ==
  /\ child = "running" /\ out < PipeSize
  /\ out' = out + 1
  /\ oversize' \in {oversize, TRUE}
  /\ UNCHANGED <<pc, fds, locals, stop, silence, process, err>>

ChildLogs ==
  /\ child = "running" /\ err < PipeSize
  /\ err' = err + 1
  /\ UNCHANGED <<pc, fds, locals, stop, silence, process, out, oversize>>

ChildExits ==
  /\ child = "running"
  /\ child' = "zombie"
  /\ UNCHANGED <<pc, fds, locals, stop, silence, stubborn, termed, killed, pipes>>

(* Bound: the clock stops counting once either timeout has passed. *)
Tick ==
  /\ silence <= InitialTimeout \/ silence <= ConnectedTimeout
  /\ silence' = silence + 1
  /\ UNCHANGED <<pc, fds, locals, stop, process, pipes>>

(* Engine::Stop raises the flag; Engine::Start lowers it again once the    *)
(* source thread is joined.                                                *)
StopRequested ==
  /\ ~stop
  /\ stop' = TRUE
  /\ UNCHANGED <<pc, fds, locals, silence, process, pipes>>

Restarted ==
  /\ stop /\ pc = "idle"
  /\ stop' = FALSE
  /\ UNCHANGED <<pc, fds, locals, silence, process, pipes>>

Next ==
  \/ Begin \/ CallStep
  \/ ChildWrites \/ ChildLogs \/ ChildExits \/ Tick \/ StopRequested \/ Restarted

Spec == Init /\ [][Next]_vars

(* The calling thread runs, time passes, and a child dies of SIGKILL, and  *)
(* of SIGTERM unless it ignores it.  Nothing is assumed of how fast the    *)
(* child writes.                                                           *)
FairSpec ==
  /\ Spec
  /\ WF_vars(CallStep) /\ WF_vars(Tick)
  /\ WF_vars((killed \/ (termed /\ ~stubborn)) /\ ChildExits)

-------------------------------------------------------------------------------
(* Correctness *)

(* Every variable has its type: no pipe overflows and TerminateChild never *)
(* looks more often than it should.                                        *)
TypeOK ==
  /\ pc \in {"idle", "pipe", "undo", "spawn", "nonblocking", "poll", "drain", "read",
             "look", "leave", "term", "termWait", "kill", "killWait", "return"}
  /\ fds \subseteq PipeEnds
  /\ connected \in BOOLEAN /\ parserFailed \in BOOLEAN /\ childExited \in BOOLEAN
  /\ events \subseteq {"out", "err"}
  /\ attempts \in 0..TermAttempts
  /\ stop \in BOOLEAN /\ silence \in Nat
  /\ child \in {"none", "running", "zombie", "reaped"}
  /\ stubborn \in BOOLEAN /\ termed \in BOOLEAN /\ killed \in BOOLEAN
  /\ out \in 0..PipeSize /\ err \in 0..PipeSize /\ oversize \in BOOLEAN

(* However a call ends, by any failure on the way or by any order of stop, *)
(* exit and signal, it leaves no child, no zombie and no descriptor to the *)
(* next call of the daemon's life (ffmpeg_source.cpp:152-229, 293-315).    *)
NothingLeftBehind ==
  pc = "idle" => child \in {"none", "reaped"} /\ fds = {}

(* SIGTERM and SIGKILL go to -child only while the pid is still ours: once *)
(* it is reaped it may name another group (ffmpeg_source.cpp:61-79,        *)
(* 278-296).                                                               *)
SignalsOwnGroup ==
  pc \in {"term", "termWait", "kill", "killWait"} => child \in {"running", "zombie"}

(* The child is ours to signal exactly until it is ours no more.           *)
ChildIsOurs == NothingLeftBehind /\ SignalsOwnGroup

(* A loop that reads until its pipe is empty looks at nothing else, so a   *)
(* child that fills the pipe as fast as it is read keeps the caller there: *)
(* with frames, or bytes that never become one, or with diagnostics.       *)
OutrunByOutput == <>[](pc = "read")
OutrunByLog == <>[](pc = "drain") \/ <>[](pc = "leave")

(* Engine::Stop joins the source thread, so a stop has to end a call, also *)
(* when the child ignores SIGTERM.                                         *)
StopEndsCall == stop ~> pc = "idle" \/ ~stop

(* A stream that stalls, before or after its first frame, is given up,     *)
(* unless a frame comes after all (ffmpeg_source.cpp:283-290).             *)
StallEndsCall ==
  silence > InitialTimeout /\ silence > ConnectedTimeout ~> silence = 0 \/ pc = "idle"

(* A child that logs more than its stderr pipe holds is not blocked for    *)
(* ever, however silent its stdout is (ffmpeg_source.cpp:250-263); only a  *)
(* flood of output keeps the caller from its diagnostics.                  *)
LogNeverBlocks ==
  ~OutrunByOutput => (err = PipeSize ~> err < PipeSize \/ pc = "idle")

(* A call of Stream comes to an end whenever it has to, asked to stop or   *)
(* with a stalled stream.  The one exception is a child that outruns its   *)
(* reader for good: the inner loops ask neither for the stop flag nor for  *)
(* the time (ffmpeg_source.cpp:92-107, 264-277).                           *)
CallEnds ==
  ~OutrunByOutput /\ ~OutrunByLog => StopEndsCall /\ StallEndsCall
=============================================================================
