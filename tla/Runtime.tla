-------------------------------- MODULE Runtime --------------------------------
(***************************************************************************)
(* The app before the taken over camera: it asks whether everything is     *)
(* ready (DeploymentManager.checkStartReadiness) and then has vcamesd      *)
(* start a stream through the proxy (DaemonClient), while service.sh and   *)
(* its processes go on as in Takeover.  What the app has read may be false *)
(* when it acts on it, and status.txt may be of an earlier boot.           *)
(***************************************************************************)
EXTENDS Takeover

VARIABLES
  app,     \* how far the app's start has come
  pending  \* a START that has reached vcamesd and is not carried out yet

runtimeVars == <<vars, app, pending>>

RuntimeInit == Init /\ app = "idle" /\ pending = FALSE

-------------------------------------------------------------------------------
(* The readiness check: three reads of one shell command, one after        *)
(* another.  Root is granted and the device is the right one.              *)

AppReads(at, holds, next) ==
  /\ app = at
  /\ app' = IF holds THEN next ELSE "idle"
  /\ UNCHANGED <<vars, pending>>

ReadStatus == AppReads("idle", status = "READY", "readDevice")
ReadDevice == AppReads("readDevice", device, "readProvider")
ReadProvider == AppReads("readProvider", "provider" \in alive, "ready")

-------------------------------------------------------------------------------
(* The request *)

(* Seeded fault: the app asks vcamesd directly, by its private socket.     *)
ReachableDirectly == "daemon" \in alive

(* The public socket is the proxy's, which connects to vcamesd's. *)
Reachable == {"proxy", "daemon"} \subseteq alive

(* vcamesd listens before it is primed.  The proxy serves one at a time.   *)
AppAsks ==
  /\ app = "ready"
  /\ \/ Reachable /\ ~pending /\ app' = "asked" /\ pending' = TRUE
     \/ ~Reachable /\ app' = "idle" /\ UNCHANGED pending
  /\ UNCHANGED vars

(* After eight seconds, or when the connection breaks; the request stays.  *)
AppGivesUp ==
  /\ app = "asked" /\ app' = "idle"
  /\ UNCHANGED <<vars, pending>>

(* vcamesd serves nobody before its placeholder is written. *)
CarryOut ==
  /\ pending /\ "daemon" \in alive /\ primed
  /\ pending' = FALSE
  /\ app' = IF app = "asked" THEN "idle" ELSE app
  /\ UNCHANGED vars

(* A request dies with vcamesd, and may die with the proxy. *)
RequestKept ==
  /\ UNCHANGED app
  /\ pending' \in
       IF "daemon" \notin alive' THEN {FALSE}
       ELSE IF "proxy" \in alive \ alive' THEN {pending, FALSE} ELSE {pending}

RuntimeNext ==
  \/ Next /\ RequestKept
  \/ ReadStatus \/ ReadDevice \/ ReadProvider \/ AppAsks \/ AppGivesUp \/ CarryOut

RuntimeSpec == RuntimeInit /\ [][RuntimeNext]_runtimeVars

(* As in Takeover; the app owes nothing. *)
RuntimeFairSpec ==
  /\ RuntimeSpec
  /\ WF_runtimeVars(ScriptStep /\ RequestKept) /\ WF_runtimeVars(DaemonPrimes /\ RequestKept)

-------------------------------------------------------------------------------
(* However old the READY is that the app believed, and whatever died and   *)
(* was started again meanwhile, vcamesd starts a stream only in a camera   *)
(* that was taken over: the script has seen the replacement provider       *)
(* serve legacy/0 and, unless a signal came, still keeps the OEM provider  *)
(* down (DeploymentManager.java:34-51, service.sh:356-359).                *)
StartFindsTakeover ==
  [][CarryOut =>
       /\ "provider" \in recorded
       /\ signals = 0 => oemStopped /\ oemSvc = "stopped" /\ ~startIssued]_runtimeVars
=============================================================================
