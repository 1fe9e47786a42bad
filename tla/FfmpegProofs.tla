----------------------------- MODULE FfmpegProofs -----------------------------
(***************************************************************************)
(* Theorems about FfmpegSource, for all timeouts, attempts and pipe sizes: *)
(* its variables have their types, a call leaves nothing behind, and no    *)
(* signal goes to a process group that is not the child's any more.        *)
(*                                                                         *)
(* The inductive invariant says, for every place of the calling thread,    *)
(* what has become of the child and which descriptors are open.            *)
(***************************************************************************)
EXTENDS FfmpegSource, TLAPS

Reading == {"nonblocking", "poll", "drain", "read", "look"}
Ending == {"term", "termWait", "kill", "killWait"}

(* A child not yet reaped is a child the caller still has to reap. *)
ChildOwned ==
  /\ pc \in {"idle", "pipe", "undo", "spawn"} => child \in {"none", "reaped"}
  /\ pc \in Reading => ~childExited
  /\ pc \in Reading \cup Ending => child \in {"running", "zombie"}
  /\ pc = "leave" => child \in IF childExited THEN {"reaped"} ELSE {"running", "zombie"}
  /\ pc = "return" => child = "reaped"

(* Both pipes are open from their making to the end of the call, or the    *)
(* first alone until it is undone.                                         *)
PipesOwned ==
  /\ pc = "idle" => fds = {}
  /\ pc \in {"pipe", "undo"} => fds = {"outRead", "outWrite"}
  /\ pc = "spawn" => fds = PipeEnds
  /\ pc \notin {"idle", "pipe", "undo", "spawn"} => fds = ReadEnds

(* TerminateChild looks again only while attempts are left. *)
LooksLeft == pc = "termWait" => attempts < TermAttempts

SourceInv == TypeOK /\ ChildOwned /\ PipesOwned /\ LooksLeft

(* The type invariant in three parts, one for each kind of variable. *)
Numbers ==
  /\ attempts \in 0..TermAttempts /\ silence \in Nat
  /\ out \in 0..PipeSize /\ err \in 0..PipeSize

Flags ==
  /\ connected \in BOOLEAN /\ parserFailed \in BOOLEAN /\ childExited \in BOOLEAN
  /\ stop \in BOOLEAN /\ stubborn \in BOOLEAN /\ termed \in BOOLEAN
  /\ killed \in BOOLEAN /\ oversize \in BOOLEAN

Places ==
  /\ pc \in {"idle", "pipe", "undo", "spawn", "nonblocking", "poll", "drain", "read",
             "look", "leave", "term", "termWait", "kill", "killWait", "return"}
  /\ fds \subseteq PipeEnds /\ events \subseteq {"out", "err"}
  /\ child \in {"none", "running", "zombie", "reaped"}

LEMMA TypeParts == TypeOK <=> Numbers /\ Flags /\ Places
  BY DEF TypeOK, Numbers, Flags, Places

LEMMA InitInv == Init => SourceInv
<1> SUFFICES ASSUME Init PROVE SourceInv
  OBVIOUS
<1>1. Numbers /\ LooksLeft
  BY SourceAssumption DEF SourceAssumption, Init, Numbers, LooksLeft
<1>2. Flags /\ Places
  BY DEF Init, Flags, Places, PipeEnds, ReadEnds
<1>3. ChildOwned /\ PipesOwned
  BY DEF Init, ChildOwned, PipesOwned, Reading, Ending
<1> QED
  BY <1>1, <1>2, <1>3, TypeParts DEF SourceInv

(* Every step keeps the variables in their types.  Only the pipes and the  *)
(* attempts need an argument: each writer checks its pipe for room.        *)
LEMMA TypeStep == TypeOK /\ LooksLeft /\ [Next]_vars => TypeOK'
<1> SUFFICES ASSUME TypeOK, LooksLeft, [Next]_vars PROVE TypeOK'
  OBVIOUS
<1> USE SourceAssumption DEF SourceAssumption, TypeOK
<1>1. CASE Begin \/ MakeErrPipe \/ UndoPipes
  <2>1. CASE Begin
    BY <2>1 DEF Begin, locals, process, pipes, PipeEnds, ReadEnds
  <2>2. CASE MakeErrPipe
    BY <2>2 DEF MakeErrPipe, locals, process, pipes, PipeEnds, ReadEnds
  <2>3. CASE UndoPipes
    BY <2>3 DEF UndoPipes, Undone, locals, process, pipes
  <2> QED
    BY <1>1, <2>1, <2>2, <2>3
<1>2. CASE SpawnChild
  <2>1. Numbers'
    BY <1>2 DEF Numbers, SpawnChild
  <2>2. Flags'
    BY <1>2 DEF Flags, SpawnChild, process
  <2>3. Places'
    BY <1>2 DEF Places, SpawnChild, process, PipeEnds, ReadEnds
  <2> QED
    BY <2>1, <2>2, <2>3, TypeParts DEF Numbers, Flags, Places
<1>3. CASE SetNonBlocking
  BY <1>3 DEF SetNonBlocking, locals, process, pipes
<1>4. CASE Poll
  <2>1. Numbers'
    BY <1>4 DEF Numbers, Poll, pipes
  <2>2. Flags'
    BY <1>4 DEF Flags, Poll, process, pipes
  <2>3. Places'
    BY <1>4 DEF Places, Poll, AfterPoll, Readable, process
  <2> QED
    BY <2>1, <2>2, <2>3, TypeParts DEF Numbers, Flags, Places
<1>5. CASE DrainSome \/ DrainNone
  <2>1. Numbers'
    <3>1. CASE DrainSome
      BY <3>1 DEF Numbers, DrainSome, locals
    <3>2. CASE DrainNone
      BY <3>2 DEF Numbers, DrainNone, locals, pipes
    <3> QED
      BY <1>5, <3>1, <3>2
  <2>2. Flags'
    BY <1>5 DEF Flags, DrainSome, DrainNone, locals, process, pipes
  <2>3. Places'
    BY <1>5 DEF Places, DrainSome, DrainNone, locals, process, pipes
  <2> QED
    BY <2>1, <2>2, <2>3, TypeParts DEF Numbers, Flags, Places
<1>6. CASE ReadSome
  <2>1. Numbers'
    BY <1>6 DEF Numbers, ReadSome
  <2>2. Flags'
    BY <1>6 DEF Flags, ReadSome, process
  <2>3. Places'
    BY <1>6 DEF Places, ReadSome, process
  <2> QED
    BY <2>1, <2>2, <2>3, TypeParts DEF Numbers, Flags, Places
<1>7. CASE ReadNone
  BY <1>7 DEF ReadNone, locals, process, pipes
<1>8. CASE Look
  BY <1>8 DEF Look, NoteExit, Stalled, pipes
<1>9. CASE Leave
  BY <1>9 DEF Leave, locals, process, pipes
<1>10. CASE Term
  BY <1>10 DEF Term, pipes
<1>11. CASE TermWait
  BY <1>11 DEF TermWait, LooksAgain, LooksLeft, pipes
<1>12. CASE Kill \/ KillWait
  BY <1>12 DEF Kill, KillWait, SignalKill, locals, pipes
<1>13. CASE Return
  BY <1>13 DEF Return, Closed, locals, process, pipes
<1>14. CASE ChildWrites \/ ChildLogs \/ ChildExits
  <2>1. Numbers'
    <3>1. CASE ChildWrites
      BY <3>1 DEF Numbers, ChildWrites, locals
    <3>2. CASE ChildLogs
      BY <3>2 DEF Numbers, ChildLogs, locals
    <3>3. CASE ChildExits
      BY <3>3 DEF Numbers, ChildExits, locals, pipes
    <3> QED
      BY <1>14, <3>1, <3>2, <3>3
  <2>2. Flags'
    BY <1>14 DEF Flags, ChildWrites, ChildLogs, ChildExits, locals, process, pipes
  <2>3. Places'
    BY <1>14 DEF Places, ChildWrites, ChildLogs, ChildExits, locals, process, pipes
  <2> QED
    BY <2>1, <2>2, <2>3, TypeParts DEF Numbers, Flags, Places
<1>15. CASE Tick \/ StopRequested \/ Restarted
  <2>1. Numbers'
    BY <1>15 DEF Numbers, Tick, StopRequested, Restarted, locals, pipes
  <2>2. Flags'
    BY <1>15 DEF Flags, Tick, StopRequested, Restarted, locals, process, pipes
  <2>3. Places'
    BY <1>15 DEF Places, Tick, StopRequested, Restarted, locals, process, pipes
  <2> QED
    BY <2>1, <2>2, <2>3, TypeParts DEF Numbers, Flags, Places
<1>16. CASE UNCHANGED vars
  BY <1>16 DEF vars, locals, process, pipes
<1> QED
  BY <1>1, <1>2, <1>3, <1>4, <1>5, <1>6, <1>7, <1>8, <1>9, <1>10, <1>11, <1>12, <1>13,
     <1>14, <1>15, <1>16 DEF Next, CallStep

(* Whatever the child, the clock and the engine do, the caller keeps its   *)
(* child and its descriptors until it has reaped the one and closed the    *)
(* others.                                                                 *)
LEMMA OwnershipStep ==
  SourceInv /\ [Next]_vars => ChildOwned' /\ PipesOwned' /\ LooksLeft'
<1> SUFFICES ASSUME SourceInv, [Next]_vars
             PROVE  ChildOwned' /\ PipesOwned' /\ LooksLeft'
  OBVIOUS
<1> USE SourceAssumption
    DEF SourceAssumption, SourceInv, TypeOK, ChildOwned, PipesOwned, LooksLeft, Reading, Ending
<1>1. CASE Begin \/ MakeErrPipe \/ UndoPipes
  BY <1>1 DEF Begin, MakeErrPipe, UndoPipes, Undone, PipeEnds, ReadEnds, locals, process
<1>2. CASE SpawnChild
  BY <1>2 DEF SpawnChild, process
<1>3. CASE SetNonBlocking
  BY <1>3 DEF SetNonBlocking, locals, process
<1>4. CASE Poll
  BY <1>4 DEF Poll, AfterPoll, process
<1>5. CASE DrainSome \/ DrainNone
  BY <1>5 DEF DrainSome, DrainNone, locals, process
<1>6. CASE ReadSome
  BY <1>6 DEF ReadSome, process
<1>7. CASE ReadNone
  BY <1>7 DEF ReadNone, locals, process
<1>8. CASE Look
  BY <1>8 DEF Look, NoteExit
<1>9. CASE Leave
  BY <1>9 DEF Leave, locals, process
<1>10. CASE Term
  BY <1>10 DEF Term
<1>11. CASE TermWait
  BY <1>11 DEF TermWait, LooksAgain
<1>12. CASE Kill \/ KillWait
  BY <1>12 DEF Kill, KillWait, SignalKill, locals
<1>13. CASE Return
  BY <1>13 DEF Return, Closed, locals, process
<1>14. CASE ChildWrites \/ ChildLogs \/ ChildExits
  <2>1. CASE ChildWrites
    BY <2>1 DEF ChildWrites, locals, process
  <2>2. CASE ChildLogs
    BY <2>2 DEF ChildLogs, locals, process
  <2>3. CASE ChildExits
    BY <2>3 DEF ChildExits, locals
  <2> QED
    BY <1>14, <2>1, <2>2, <2>3
<1>15. CASE Tick \/ StopRequested \/ Restarted
  BY <1>15 DEF Tick, StopRequested, Restarted, locals, process
<1>16. CASE UNCHANGED vars
  BY <1>16 DEF vars, locals, process
<1> QED
  BY <1>1, <1>2, <1>3, <1>4, <1>5, <1>6, <1>7, <1>8, <1>9, <1>10, <1>11, <1>12, <1>13,
     <1>14, <1>15, <1>16 DEF Next, CallStep

(* The invariant holds of every behaviour of the source. *)
THEOREM SourceInvariant == Spec => []SourceInv
<1>1. SourceInv /\ [Next]_vars => SourceInv'
  BY TypeStep, OwnershipStep DEF SourceInv
<1> QED
  BY InitInv, <1>1, PTL DEF Spec

(* Every variable keeps its type: no pipe takes more than it holds, and    *)
(* TerminateChild's loop keeps to its attempts (ffmpeg_source.cpp:61-79).  *)
THEOREM TypeCorrect == Spec => []TypeOK
<1>1. SourceInv => TypeOK
  BY DEF SourceInv
<1> QED
  BY SourceInvariant, <1>1, PTL

(* A call that has ended, on whatever path, has reaped its child and       *)
(* closed its descriptors (ffmpeg_source.cpp:152-229, 293-315).            *)
THEOREM CallsCleanUp == Spec => []NothingLeftBehind
<1>1. SourceInv => NothingLeftBehind
  BY DEF SourceInv, ChildOwned, PipesOwned, NothingLeftBehind
<1> QED
  BY SourceInvariant, <1>1, PTL

(* TerminateChild never signals a reaped pid (ffmpeg_source.cpp:61-79).    *)
THEOREM SignalsReachChild == Spec => []SignalsOwnGroup
<1>1. SourceInv => SignalsOwnGroup
  BY DEF SourceInv, ChildOwned, SignalsOwnGroup, Ending
<1> QED
  BY SourceInvariant, <1>1, PTL

(* Both halves of what a call owes its child and the rest of the system.   *)
THEOREM ChildOwnedToTheEnd == Spec => []ChildIsOurs
<1>1. NothingLeftBehind /\ SignalsOwnGroup => ChildIsOurs
  BY DEF ChildIsOurs
<1> QED
  BY CallsCleanUp, SignalsReachChild, <1>1, PTL
=============================================================================
