------------------------------- MODULE Takeover -------------------------------
(***************************************************************************)
(* The camera takeover supervisor, root-module/template/service.sh: it     *)
(* checks the device, stops the OEM camera provider through init, starts   *)
(* vcamesd, the replacement provider and the socket proxy, watches them,   *)
(* and gives the camera back to the OEM provider from its EXIT trap.       *)
(*                                                                         *)
(* The script is one process whose commands interleave with init, with     *)
(* hwservicemanager's registration of legacy/0, with the processes it      *)
(* started, and with HUP/INT/TERM, which the shell delivers between two    *)
(* commands.  Waiting loops may time out at any moment.                    *)
(***************************************************************************)
EXTENDS Naturals

CONSTANTS
  MaxSignals  \* bound: HUP, INT or TERM signals the script receives

ASSUME TakeoverAssumption == MaxSignals \in Nat

(* The processes service.sh starts, and those start_with_retry starts. *)
Kinds == {"daemon", "provider", "proxy"}
Retried == {"daemon", "proxy"}

MaxAttempts == 3   \* start_with_retry
MaxFailures == 3   \* the monitor loop

VARIABLES
  pc,            \* the command the script runs next
  phase,         \* "startup" or "monitor": whom start_with_retry returns to
  starting,      \* the command start_with_retry is running
  attempt,       \* its count
  failures,      \* consecutive failed rounds of the monitor loop
  failed,        \* did this round fail?
  status,        \* status.txt, its values grouped by what they tell
  oemStopped,    \* oem_provider_stopped
  loadedModule,  \* loaded_module
  recorded,      \* kinds whose *_pid variable holds the instance last started
  alive,         \* kinds of which an instance runs
  primed,        \* has that daemon instance written its placeholder?
  willRegister,  \* has the provider instance yet to register legacy/0?
  registry,      \* who serves legacy/0
  oemSvc,        \* init.svc of the OEM provider
  device,        \* does /dev/video100 exist?
  signals,       \* signals delivered so far
  interrupted,   \* ghost: one was delivered while cleanup ran
  stopIssued, startIssued  \* ghosts: ctl.stop and a later ctl.start were issued

script == <<pc, phase, starting, attempt, failures, failed, status, oemStopped,
            loadedModule, recorded>>
world == <<alive, primed, willRegister, registry, oemSvc, device>>
history == <<signals, interrupted, stopIssued, startIssued>>
vars == <<script, world, history>>

CleanupPoints ==
  {"reapProxy", "reapDaemon", "reapProvider", "restore", "ctlStart", "verify",
   "rmmod"}
ScriptPoints ==
  {"preflight", "insmod", "awaitDevice", "label", "ctlStop", "awaitStopped",
   "setFlag", "awaitUnregistered", "spawn", "check", "spawnProvider",
   "awaitRegistered", "reapCandidate", "ready", "watchProvider", "watchRest",
   "tally", "exited"} \cup CleanupPoints

(* A script that starts finds what the last boot left in status.txt. *)
Init ==
  /\ pc = "preflight"
  /\ phase = "startup" /\ starting = "daemon" /\ attempt = 0
  /\ failures = 0 /\ failed = FALSE
  /\ status \in {"NONE", "READY"}
  /\ oemStopped = FALSE /\ loadedModule = FALSE
  /\ recorded = {} /\ alive = {}
  /\ primed = FALSE /\ willRegister = FALSE
  /\ registry \in {"none", "oem"}
  /\ oemSvc \in {"running", "stopped"}
  /\ device \in BOOLEAN
  /\ signals = 0 /\ interrupted = FALSE /\ stopIssued = FALSE /\ startIssued = FALSE

-------------------------------------------------------------------------------
(* Startup *)

(* write_status followed by exit: the EXIT trap runs cleanup. *)
ExitWith(value) ==
  /\ status' = value
  /\ pc' = "reapProxy"

(* Files, profile, controller, FFmpeg, OEM identity and camera IDs: any    *)
(* check may fail; passing needs a running, registered OEM provider.       *)
Preflight ==
  /\ pc = "preflight"
  /\ \/ ExitWith("BLOCKED")
     \/ /\ oemSvc = "running" /\ registry = "oem"
        /\ pc' = "insmod"
        /\ UNCHANGED status
  /\ UNCHANGED <<phase, starting, attempt, failures, failed, oemStopped,
                 loadedModule, recorded, world, history>>

(* insmod, unless the module is there already. *)
LoadModule ==
  /\ pc = "insmod"
  /\ \/ /\ pc' = "awaitDevice"
        /\ loadedModule' \in BOOLEAN
        /\ UNCHANGED status
     \/ ExitWith("BLOCKED") /\ UNCHANGED loadedModule
  /\ UNCHANGED <<phase, starting, attempt, failures, failed, oemStopped, recorded,
                 world, history>>

AwaitDevice ==
  /\ pc = "awaitDevice"
  /\ \/ /\ device
        /\ pc' = "label"
        /\ UNCHANGED status
     \/ ExitWith("BLOCKED")
  /\ UNCHANGED <<phase, starting, attempt, failures, failed, oemStopped,
                 loadedModule, recorded, world, history>>

(* chcon of the two executables. *)
Label ==
  /\ pc = "label"
  /\ \/ pc' = "ctlStop" /\ UNCHANGED status
     \/ ExitWith("BLOCKED")
  /\ UNCHANGED <<phase, starting, attempt, failures, failed, oemStopped,
                 loadedModule, recorded, world, history>>

StopOem ==
  /\ pc = "ctlStop"
  /\ oemSvc' = IF oemSvc = "running" THEN "stopping" ELSE oemSvc
  /\ stopIssued' = TRUE
  /\ pc' = "awaitStopped"
  /\ UNCHANGED <<phase, starting, attempt, failures, failed, status, oemStopped,
                 loadedModule, recorded, alive, primed, willRegister, registry,
                 device, signals, interrupted, startIssued>>

(* Seeded fault: a service that is stopping is taken for stopped. *)
OemIsDownTooEarly == oemSvc # "running"

OemIsDown == oemSvc = "stopped"

(* Twenty seconds for init.svc to say stopped. *)
AwaitStopped ==
  /\ pc = "awaitStopped"
  /\ IF OemIsDown
     THEN pc' = "setFlag" /\ UNCHANGED status
     ELSE ExitWith("START_FAILED")
  /\ UNCHANGED <<phase, starting, attempt, failures, failed, oemStopped,
                 loadedModule, recorded, world, history>>

SetFlag ==
  /\ pc = "setFlag"
  /\ oemStopped' = TRUE
  /\ pc' = "awaitUnregistered"
  /\ UNCHANGED <<phase, starting, attempt, failures, failed, status, loadedModule,
                 recorded, world, history>>

(* start_with_retry of one of the retried commands. *)
StartWithRetry(kind) ==
  /\ starting' = kind
  /\ attempt' = 0
  /\ pc' = "spawn"

Unregistered == registry = "none"

AwaitUnregistered ==
  /\ pc = "awaitUnregistered"
  /\ IF Unregistered
     THEN StartWithRetry("daemon") /\ UNCHANGED status
     ELSE ExitWith("START_FAILED") /\ UNCHANGED <<starting, attempt>>
  /\ UNCHANGED <<phase, failures, failed, oemStopped, loadedModule, recorded, world,
                 history>>

-------------------------------------------------------------------------------
(* Starting processes *)

(* start_daemon and start_proxy fork; the instance is not yet recorded. *)
Spawn ==
  /\ pc = "spawn"
  /\ attempt' = attempt + 1
  /\ alive' = alive \cup {starting}
  /\ recorded' = recorded \ {starting}
  /\ primed' = IF starting = "daemon" THEN FALSE ELSE primed
  /\ pc' = "check"
  /\ UNCHANGED <<phase, starting, failures, failed, status, oemStopped,
                 loadedModule, willRegister, registry, oemSvc, device, history>>

(* Where start_with_retry's caller goes on. *)
Started ==
  IF phase = "monitor" THEN "tally"
  ELSE IF starting = "daemon" THEN "spawnProvider" ELSE "ready"

(* Seeded fault: the check does not wait past the gate. *)
GateDecidedUnawaited == TRUE

(* Assumed of time, which is not counted here: the script's sleep 6 ends   *)
(* after the daemon's five second gate, which begins within a second of    *)
(* the launch.  So at the check the daemon has written its placeholder or  *)
(* is gone (service.sh:290-292).                                           *)
GateDecided == starting = "daemon" /\ "daemon" \in alive => primed

Succeeded == starting \in alive

(* Seeded fault: one attempt too many. *)
OutOfAttemptsOffByOne == attempt > MaxAttempts

OutOfAttempts == attempt >= MaxAttempts

CheckStarted ==
  /\ pc = "check"
  /\ GateDecided
  /\ \/ /\ Succeeded
        /\ recorded' = recorded \cup {starting}
        /\ pc' = Started
        /\ UNCHANGED status
     \/ /\ ~Succeeded
        /\ UNCHANGED recorded
        /\ \/ ~OutOfAttempts /\ pc' = "spawn" /\ UNCHANGED status
           \/ OutOfAttempts /\ phase = "monitor" /\ pc' = "tally" /\ UNCHANGED status
           \/ OutOfAttempts /\ phase = "startup" /\ ExitWith("START_FAILED")
  /\ UNCHANGED <<phase, starting, attempt, failures, failed, oemStopped,
                 loadedModule, world, history>>

(* start_provider, once, only at startup. *)
SpawnProvider ==
  /\ pc = "spawnProvider"
  /\ alive' = alive \cup {"provider"}
  /\ willRegister' = TRUE
  /\ pc' = "awaitRegistered"
  /\ UNCHANGED <<phase, starting, attempt, failures, failed, status, oemStopped,
                 loadedModule, recorded, primed, registry, oemSvc, device, history>>

(* The candidate died in its first two seconds, serves legacy/0, or ten    *)
(* seconds passed without that.                                            *)
AwaitRegistered ==
  /\ pc = "awaitRegistered"
  /\ \/ /\ "provider" \notin alive
        /\ ExitWith("START_FAILED")
        /\ UNCHANGED <<starting, attempt, recorded>>
     \/ /\ registry = "vcam"
        /\ recorded' = recorded \cup {"provider"}
        /\ StartWithRetry("proxy")
        /\ UNCHANGED status
     \/ /\ registry # "vcam"
        /\ pc' = "reapCandidate"
        /\ UNCHANGED <<starting, attempt, recorded, status>>
  /\ UNCHANGED <<phase, failures, failed, oemStopped, loadedModule, world, history>>

(* Seeded fault: TERM only, without waiting or KILL. *)
ReapTermOnly(kind) == alive' \in {alive, alive \ {kind}}

(* stop_and_reap: TERM, five seconds, KILL, wait. *)
Reap(kind) == alive' = alive \ {kind}

ReapCandidate ==
  /\ pc = "reapCandidate"
  /\ Reap("provider")
  /\ ExitWith("START_FAILED")
  /\ UNCHANGED <<phase, starting, attempt, failures, failed, oemStopped,
                 loadedModule, recorded, primed, willRegister, registry, oemSvc,
                 device, history>>

Ready ==
  /\ pc = "ready"
  /\ status' = "READY"
  /\ failures' = 0
  /\ phase' = "monitor"
  /\ pc' = "watchProvider"
  /\ UNCHANGED <<starting, attempt, failed, oemStopped, loadedModule, recorded,
                 world, history>>

-------------------------------------------------------------------------------
(* The monitor loop *)

(* Seeded fault: the loop watches the process, not its registration. *)
ProviderHealthyAliveOnly == "provider" \in alive

ProviderHealthy == "provider" \in alive /\ registry = "vcam"

WatchProvider ==
  /\ pc = "watchProvider"
  /\ IF ProviderHealthy
     THEN pc' = "watchRest" /\ UNCHANGED status
     ELSE ExitWith("SAFE_MODE")
  /\ UNCHANGED <<phase, starting, attempt, failures, failed, oemStopped,
                 loadedModule, recorded, world, history>>

(* The device, the daemon and the proxy are looked at in this order, and   *)
(* only the first that failed is acted on.                                 *)
WatchRest ==
  /\ pc = "watchRest"
  /\ \/ /\ ~device
        /\ failed' = TRUE /\ pc' = "tally"
        /\ UNCHANGED <<starting, attempt, recorded>>
     \/ /\ device /\ "daemon" \notin alive
        /\ failed' = TRUE /\ recorded' = recorded \ {"daemon"}
        /\ StartWithRetry("daemon")
     \/ /\ device /\ "daemon" \in alive /\ "proxy" \notin alive
        /\ failed' = TRUE /\ recorded' = recorded \ {"proxy"}
        /\ StartWithRetry("proxy")
     \/ /\ device /\ "daemon" \in alive /\ "proxy" \in alive
        /\ failed' = FALSE /\ pc' = "tally"
        /\ UNCHANGED <<starting, attempt, recorded>>
  /\ UNCHANGED <<phase, failures, status, oemStopped, loadedModule, world, history>>

GiveUp == failures + 1 >= MaxFailures

Tally ==
  /\ pc = "tally"
  /\ failures' = IF failed THEN failures + 1 ELSE 0
  /\ IF failed /\ GiveUp
     THEN ExitWith("SAFE_MODE")
     ELSE /\ status' = IF failed THEN "RESTARTING" ELSE "READY"
          /\ pc' = "watchProvider"
  /\ UNCHANGED <<phase, starting, attempt, failed, oemStopped, loadedModule,
                 recorded, world, history>>

-------------------------------------------------------------------------------
(* The EXIT trap *)

(* stop_and_reap "$x_pid" for each of the three, in this order. *)
CleanupReap(point, kind, next) ==
  /\ pc = point
  /\ IF kind \in recorded THEN Reap(kind) ELSE UNCHANGED alive
  /\ pc' = next
  /\ UNCHANGED <<phase, starting, attempt, failures, failed, status, oemStopped,
                 loadedModule, recorded, primed, willRegister, registry, oemSvc,
                 device, history>>

ReapProxy == CleanupReap("reapProxy", "proxy", "reapDaemon")
ReapDaemon == CleanupReap("reapDaemon", "daemon", "reapProvider")
ReapProvider == CleanupReap("reapProvider", "provider", "restore")

(* restore_oem_provider: nothing to do without the flag; otherwise wait    *)
(* for legacy/0 to be free, at most ten seconds, and go on either way.     *)
Restore ==
  /\ pc = "restore"
  /\ pc' = IF oemStopped THEN "ctlStart" ELSE "rmmod"
  /\ UNCHANGED <<phase, starting, attempt, failures, failed, status, oemStopped,
                 loadedModule, recorded, world, history>>

(* init may fail to start the service. *)
CtlStart ==
  /\ pc = "ctlStart"
  /\ oemSvc' \in {"running", oemSvc}
  /\ startIssued' = TRUE
  /\ pc' = "verify"
  /\ UNCHANGED <<phase, starting, attempt, failures, failed, status, oemStopped,
                 loadedModule, recorded, alive, primed, willRegister, registry,
                 device, signals, interrupted, stopIssued>>

(* verify_oem_provider_identity looks up the process serving legacy/0. *)
Verify ==
  /\ pc = "verify"
  /\ oemStopped' = ~(oemSvc = "running" /\ registry = "oem")
  /\ pc' = "rmmod"
  /\ UNCHANGED <<phase, starting, attempt, failures, failed, status, loadedModule,
                 recorded, world, history>>

Rmmod ==
  /\ pc = "rmmod"
  /\ device' \in IF loadedModule THEN {device, FALSE} ELSE {device}
  /\ pc' = "exited"
  /\ UNCHANGED <<phase, starting, attempt, failures, failed, status, oemStopped,
                 loadedModule, recorded, alive, primed, willRegister, registry,
                 oemSvc, history>>

ScriptStep ==
  \/ Preflight \/ LoadModule \/ AwaitDevice \/ Label
  \/ StopOem \/ AwaitStopped \/ SetFlag \/ AwaitUnregistered
  \/ Spawn \/ CheckStarted \/ SpawnProvider \/ AwaitRegistered \/ ReapCandidate
  \/ Ready \/ WatchProvider \/ WatchRest \/ Tally
  \/ ReapProxy \/ ReapDaemon \/ ReapProvider
  \/ Restore \/ CtlStart \/ Verify \/ Rmmod

(* Seeded faults: the shell ends without its EXIT trap; the handler does   *)
(* not exit.                                                               *)
AfterSignalNoTrap == "exited"
AfterSignalResumes == pc

(* handle_shutdown_signal: exit runs the EXIT trap, except that an exit    *)
(* from within that trap ends the shell at once.                           *)
AfterSignal == IF pc \in CleanupPoints THEN "exited" ELSE "reapProxy"

Signal ==
  /\ pc # "exited"
  /\ signals < MaxSignals
  /\ signals' = signals + 1
  /\ interrupted' = (interrupted \/ pc \in CleanupPoints)
  /\ status' = "SAFE_MODE"
  /\ pc' = AfterSignal
  /\ UNCHANGED <<phase, starting, attempt, failures, failed, oemStopped,
                 loadedModule, recorded, world, stopIssued, startIssued>>

-------------------------------------------------------------------------------
(* init, hwservicemanager, the kernel and the processes started *)

OemStops ==
  /\ oemSvc = "stopping"
  /\ oemSvc' = "stopped"
  /\ UNCHANGED <<script, alive, primed, willRegister, registry, device, history>>

(* hwservicemanager learns that the serving process is gone. *)
RegistryDrops ==
  /\ \/ registry = "oem" /\ oemSvc = "stopped"
     \/ registry = "vcam" /\ "provider" \notin alive
  /\ registry' = "none"
  /\ UNCHANGED <<script, alive, primed, willRegister, oemSvc, device, history>>

(* A process registers legacy/0; the last one to do so serves it. *)
OemRegisters ==
  /\ oemSvc = "running" /\ registry # "oem"
  /\ registry' = "oem"
  /\ UNCHANGED <<script, alive, primed, willRegister, oemSvc, device, history>>

ProviderRegisters ==
  /\ willRegister /\ "provider" \in alive
  /\ registry' = "vcam"
  /\ willRegister' = FALSE
  /\ UNCHANGED <<script, alive, primed, oemSvc, device, history>>

(* The registration is lost although the provider lives. *)
RegistrationLost ==
  /\ registry = "vcam"
  /\ registry' = "none"
  /\ UNCHANGED <<script, alive, primed, willRegister, oemSvc, device, history>>

ProcessDies(kind) ==
  /\ kind \in alive
  /\ alive' = alive \ {kind}
  /\ UNCHANGED <<script, primed, willRegister, registry, oemSvc, device, history>>

(* The daemon's first frame gate opens (Engine's GateOpens at boot). *)
DaemonPrimes ==
  /\ "daemon" \in alive /\ ~primed
  /\ primed' = TRUE
  /\ UNCHANGED <<script, alive, willRegister, registry, oemSvc, device, history>>

DeviceChanges ==
  /\ device' = ~device
  /\ UNCHANGED <<script, alive, primed, willRegister, registry, oemSvc, history>>

WorldStep ==
  \/ OemStops \/ RegistryDrops \/ OemRegisters \/ ProviderRegisters
  \/ RegistrationLost \/ DaemonPrimes \/ DeviceChanges
  \/ \E kind \in Kinds : ProcessDies(kind)

Next == ScriptStep \/ Signal \/ WorldStep

Spec == Init /\ [][Next]_vars

(* The shell goes on, and a daemon decides its gate; nobody has to die,    *)
(* register or signal.                                                     *)
FairSpec == Spec /\ WF_vars(ScriptStep) /\ WF_vars(DaemonPrimes)

-------------------------------------------------------------------------------
(* Correctness *)

ScriptTypes ==
  /\ pc \in ScriptPoints /\ phase \in {"startup", "monitor"}
  /\ starting \in Retried
  /\ attempt \in 0..MaxAttempts /\ failures \in 0..MaxFailures
  /\ failed \in BOOLEAN
  /\ status \in {"NONE", "READY", "RESTARTING", "BLOCKED", "START_FAILED", "SAFE_MODE"}
  /\ oemStopped \in BOOLEAN /\ loadedModule \in BOOLEAN
  /\ recorded \subseteq Kinds

WorldTypes ==
  /\ alive \subseteq Kinds
  /\ primed \in BOOLEAN /\ willRegister \in BOOLEAN
  /\ registry \in {"none", "oem", "vcam"}
  /\ oemSvc \in {"running", "stopping", "stopped"}
  /\ device \in BOOLEAN
  /\ signals \in 0..MaxSignals /\ interrupted \in BOOLEAN
  /\ stopIssued \in BOOLEAN /\ startIssued \in BOOLEAN

(* Every variable has its type; in particular no command is tried a fourth *)
(* time and the third failed round is the last (service.sh:307-318,        *)
(* 361-387).                                                               *)
TypeOK == ScriptTypes /\ WorldTypes

StartingPoints ==
  {"awaitUnregistered", "spawn", "check", "spawnProvider", "awaitRegistered",
   "reapCandidate", "ready", "watchProvider", "watchRest", "tally"}

(* From the moment the flag is set to the moment cleanup restores, the OEM *)
(* provider is down and the script knows it has to be started again,       *)
(* through every retry, restart and failed round (service.sh:345-392).     *)
TakeoverIsFlagged ==
  pc \in StartingPoints => oemStopped /\ oemSvc = "stopped" /\ ~startIssued

(* A cleanup that runs to its end restores what the flag says is stopped.  *)
(* A signal during cleanup abandons it (service.sh:108-122).               *)
UninterruptedCleanupRestores ==
  pc = "exited" /\ ~interrupted /\ oemStopped => startIssued

(* Cleanup leaves no process whose pid a *_pid variable holds, and had     *)
(* removed them all before it gives the camera back (service.sh:108-112).  *)
RecordedProcessesReaped ==
  pc \in {"restore", "ctlStart", "verify", "rmmod"} => recorded \cap alive = {}

(* What the script has written down of the takeover, flag and pids, is     *)
(* what it has to undo, at every point where it is used to undo it.        *)
BookkeepingIsTrue == TakeoverIsFlagged /\ RecordedProcessesReaped

(* Once the script has ended status.txt does not tell the app that the     *)
(* takeover is ready (service.sh:118-121, 364-391).                        *)
EndIsNeverReady == pc = "exited" => status # "READY"

(* A script that has ended leaves the phone as it should be: the OEM       *)
(* provider is restored, unless a signal cut cleanup short, and nobody is  *)
(* told READY (service.sh:84-122).                                         *)
EndIsSafe == UninterruptedCleanupRestores /\ EndIsNeverReady

(* Undisturbed by signals, the replacement provider takes a free legacy/0  *)
(* while the OEM provider is down and the daemon has already written its   *)
(* placeholder, so the HAL never opens an empty device (ARCHITECTURE.md:   *)
(* 14-16, service.sh:346-358).                                             *)
RegistersInOrder ==
  signals = 0 /\ registry # "vcam" /\ registry' = "vcam" =>
    registry = "none" /\ oemSvc = "stopped" /\ primed

(* Undisturbed by signals, no process the script started is left when it   *)
(* restores the OEM service, whatever failed or was retried before.        *)
QuietEndBeforeRestore ==
  signals = 0 /\ ~startIssued /\ startIssued' => alive = {}

(* Undisturbed by signals, the camera changes hands in order both ways.    *)
QuietHandover == [][RegistersInOrder /\ QuietEndBeforeRestore]_vars

(* ROOT_STOCK.md:13: the trap first ends the VCamES processes, then        *)
(* restores the OEM service.                                               *)
ProcessesEndBeforeRestore ==
  [][~startIssued /\ startIssued' => alive = {}]_vars

(* customize.sh:107: provider takeover fails closed and restores the OEM   *)
(* camera, so no script ends with its ctl.stop left standing.              *)
StopIsUndone == pc = "exited" /\ stopIssued => startIssued

-------------------------------------------------------------------------------
(* Progress, under FairSpec *)

(* A signal ends the script in whatever it is doing. *)
SignalEndsScript == signals > 0 ~> pc = "exited"

(* A provider that is gone, or lives but serves legacy/0 no longer, costs  *)
(* the takeover: the OEM provider is started again, also when the loop is  *)
(* busy restarting another process, unless a signal cuts the cleanup short *)
(* (service.sh:364-368, 375, 379).  A provider registers once in its life. *)
ProviderLossRestoresOem ==
  phase = "monitor" /\ ("provider" \notin alive \/ registry # "vcam")
    ~> startIssued \/ interrupted
=============================================================================
