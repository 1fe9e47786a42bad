------------------------------ MODULE FramePipe ------------------------------
(***************************************************************************)
(* What the engine promises the HAL behind /dev/video100, without threads, *)
(* locks or control commands: a latest-value pipe.  A session opens with   *)
(* one placeholder frame already published, producers publish newer        *)
(* frames, and the device shows some published frame, never an older one   *)
(* than it has shown before in the session.  Frames are known by their     *)
(* generation number; skipping is allowed, going back is not.              *)
(***************************************************************************)
EXTENDS Naturals

VARIABLES
  open,       \* is there a session whose frames may reach the device?
  published,  \* generation of the newest frame published
  shown       \* generation the device shows in this session, 0 before the first

pipeVars == <<open, published, shown>>

Init ==
  /\ open = FALSE
  /\ published = 0
  /\ shown = 0

(* A session starts with its placeholder published and nothing shown. *)
Open ==
  /\ ~open
  /\ open' = TRUE
  /\ published' = 1
  /\ shown' = 0

(* A newer frame replaces the previous one, in or out of a session. *)
Publish ==
  /\ published' = published + 1
  /\ UNCHANGED <<open, shown>>

(* The device shows a published frame that is newer than the one it shows. *)
Show ==
  /\ open
  /\ shown' \in (shown + 1)..published
  /\ UNCHANGED <<open, published>>

Close ==
  /\ open
  /\ open' = FALSE
  /\ UNCHANGED <<published, shown>>

Next == Open \/ Publish \/ Show \/ Close

Spec == Init /\ [][Next]_pipeVars
=============================================================================
