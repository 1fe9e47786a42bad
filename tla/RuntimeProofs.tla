----------------------------- MODULE RuntimeProofs -----------------------------
(***************************************************************************)
(* Theorems about Takeover: what holds for any number of signals, and what *)
(* holds while none arrives; and about Runtime: it is a Takeover, so they  *)
(* hold of it, and no stream starts in a camera that was not taken over.   *)
(***************************************************************************)
EXTENDS Runtime, TLAPS

-------------------------------------------------------------------------------
(* Takeover, for any number of signals *)

(* An attempt is begun only when one is left, and rounds are counted only  *)
(* while the loop has not given up.                                        *)
Bounded ==
  /\ pc = "spawn" => attempt < MaxAttempts
  /\ pc \notin CleanupPoints \cup {"exited"} => failures < MaxFailures

(* Every step keeps every type.                                            *)
LEMMA TypesKept ==
  ASSUME TypeOK, Bounded, [Next]_vars
  PROVE  TypeOK'
<1> USE DEF ScriptTypes, WorldTypes, ScriptPoints, CleanupPoints, Kinds, Retried,
            MaxAttempts, MaxFailures, ExitWith, StartWithRetry, script, world, history
<1>1. CASE Preflight
  BY <1>1 DEF Preflight, TypeOK
<1>2. CASE LoadModule
  BY <1>2 DEF LoadModule, TypeOK
<1>3. CASE AwaitDevice
  BY <1>3 DEF AwaitDevice, TypeOK
<1>4. CASE Label
  BY <1>4 DEF Label, TypeOK
<1>5. CASE StopOem
  BY <1>5 DEF StopOem, TypeOK
<1>6. CASE AwaitStopped
  BY <1>6 DEF AwaitStopped, OemIsDown, TypeOK
<1>7. CASE SetFlag
  BY <1>7 DEF SetFlag, TypeOK
<1>8. CASE AwaitUnregistered
  BY <1>8 DEF AwaitUnregistered, Unregistered, TypeOK
<1>9. CASE Spawn
  <2>1. ScriptTypes'
    BY <1>9 DEF Spawn, TypeOK, Bounded
  <2>2. WorldTypes'
    BY <1>9 DEF Spawn, TypeOK
  <2>3. QED BY <2>1, <2>2 DEF TypeOK
<1>10. CASE CheckStarted
  <2>1. ScriptTypes'
    BY <1>10 DEF CheckStarted, Started, Succeeded, OutOfAttempts, GateDecided, TypeOK, Bounded
  <2>2. WorldTypes'
    BY <1>10 DEF CheckStarted, Started, Succeeded, OutOfAttempts, GateDecided, TypeOK
  <2>3. QED BY <2>1, <2>2 DEF TypeOK
<1>11. CASE SpawnProvider
  BY <1>11 DEF SpawnProvider, TypeOK
<1>12. CASE AwaitRegistered
  <2>1. recorded' \subseteq Kinds
    BY <1>12 DEF AwaitRegistered, TypeOK
  <2>2. ScriptTypes'
    BY <1>12, <2>1 DEF AwaitRegistered, TypeOK, Bounded
  <2>3. WorldTypes'
    BY <1>12 DEF AwaitRegistered, TypeOK
  <2>4. QED BY <2>2, <2>3 DEF TypeOK
<1>13. CASE ReapCandidate
  BY <1>13 DEF ReapCandidate, Reap, TypeOK
<1>14. CASE Ready
  BY <1>14 DEF Ready, TypeOK
<1>15. CASE WatchProvider
  BY <1>15 DEF WatchProvider, ProviderHealthy, TypeOK
<1>16. CASE WatchRest
  <2>1. recorded' \subseteq Kinds
    BY <1>16 DEF WatchRest, TypeOK
  <2>2. ScriptTypes'
    <3>1. pc' \in ScriptPoints /\ starting' \in Retried /\ failed' \in BOOLEAN
      BY <1>16 DEF WatchRest, TypeOK
    <3>2. attempt' \in 0..MaxAttempts BY <1>16 DEF WatchRest, TypeOK
    <3>3. QED BY <1>16, <2>1, <3>1, <3>2 DEF WatchRest, TypeOK
  <2>3. WorldTypes'
    BY <1>16 DEF WatchRest, TypeOK
  <2>4. QED BY <2>2, <2>3 DEF TypeOK
<1>17. CASE Tally
  <2>1. ScriptTypes'
    BY <1>17 DEF Tally, GiveUp, TypeOK, Bounded
  <2>2. WorldTypes'
    BY <1>17 DEF Tally, GiveUp, TypeOK
  <2>3. QED BY <2>1, <2>2 DEF TypeOK
<1>18. CASE ReapProxy
  <2>1. ScriptTypes'
    BY <1>18 DEF ReapProxy, CleanupReap, Reap, TypeOK, Bounded
  <2>2. WorldTypes'
    BY <1>18 DEF ReapProxy, CleanupReap, Reap, TypeOK
  <2>3. QED BY <2>1, <2>2 DEF TypeOK
<1>19. CASE ReapDaemon
  <2>1. ScriptTypes'
    BY <1>19 DEF ReapDaemon, CleanupReap, Reap, TypeOK, Bounded
  <2>2. WorldTypes'
    BY <1>19 DEF ReapDaemon, CleanupReap, Reap, TypeOK
  <2>3. QED BY <2>1, <2>2 DEF TypeOK
<1>20. CASE ReapProvider
  <2>1. ScriptTypes'
    BY <1>20 DEF ReapProvider, CleanupReap, Reap, TypeOK, Bounded
  <2>2. WorldTypes'
    BY <1>20 DEF ReapProvider, CleanupReap, Reap, TypeOK
  <2>3. QED BY <2>1, <2>2 DEF TypeOK
<1>21. CASE Restore
  BY <1>21 DEF Restore, TypeOK
<1>22. CASE CtlStart
  BY <1>22 DEF CtlStart, TypeOK
<1>23. CASE Verify
  BY <1>23 DEF Verify, TypeOK
<1>24. CASE Rmmod
  <2>1. ScriptTypes'
    BY <1>24 DEF Rmmod, TypeOK, Bounded
  <2>2. WorldTypes'
    BY <1>24 DEF Rmmod, TypeOK
  <2>3. QED BY <2>1, <2>2 DEF TypeOK
<1>25. CASE Signal
  <2>1. ScriptTypes'
    BY <1>25 DEF Signal, AfterSignal, TypeOK, Bounded
  <2>2. WorldTypes'
    BY <1>25, TakeoverAssumption DEF Signal, AfterSignal, TypeOK
  <2>3. QED BY <2>1, <2>2 DEF TypeOK
<1>26. CASE OemStops
  BY <1>26 DEF OemStops, TypeOK
<1>27. CASE RegistryDrops
  BY <1>27 DEF RegistryDrops, TypeOK
<1>28. CASE OemRegisters
  BY <1>28 DEF OemRegisters, TypeOK
<1>29. CASE ProviderRegisters
  <2>1. ScriptTypes'
    BY <1>29 DEF ProviderRegisters, TypeOK, Bounded
  <2>2. WorldTypes'
    BY <1>29 DEF ProviderRegisters, TypeOK
  <2>3. QED BY <2>1, <2>2 DEF TypeOK
<1>30. CASE RegistrationLost
  BY <1>30 DEF RegistrationLost, TypeOK
<1>31. CASE DaemonPrimes
  BY <1>31 DEF DaemonPrimes, TypeOK
<1>32. CASE DeviceChanges
  BY <1>32 DEF DeviceChanges, TypeOK
<1>33. ASSUME NEW kind \in Kinds, ProcessDies(kind) PROVE TypeOK'
  BY <1>33 DEF ProcessDies, TypeOK
<1>34. CASE UNCHANGED vars BY <1>34 DEF vars, TypeOK
<1>35. QED
  BY <1>1, <1>2, <1>3, <1>4, <1>5, <1>6, <1>7, <1>8, <1>9, <1>10, <1>11,
     <1>12, <1>13, <1>14, <1>15, <1>16, <1>17, <1>18, <1>19, <1>20, <1>21,
     <1>22, <1>23, <1>24, <1>25, <1>26, <1>27, <1>28, <1>29, <1>30, <1>31,
     <1>32, <1>33, <1>34
  DEF Next, ScriptStep, WorldStep

(* Every step keeps the attempts and the failed rounds bounded.            *)
LEMMA BoundsKept ==
  ASSUME TypeOK, Bounded, [Next]_vars
  PROVE  Bounded'
<1> USE DEF Bounded, TypeOK, ScriptTypes, MaxAttempts, MaxFailures,
            ScriptPoints, CleanupPoints, Kinds, Retried, ExitWith,
            StartWithRetry, script, world, history
<1>1. CASE Preflight
  BY <1>1 DEF Preflight
<1>2. CASE LoadModule
  BY <1>2 DEF LoadModule
<1>3. CASE AwaitDevice
  BY <1>3 DEF AwaitDevice
<1>4. CASE Label
  BY <1>4 DEF Label
<1>5. CASE StopOem
  BY <1>5 DEF StopOem
<1>6. CASE AwaitStopped
  BY <1>6 DEF AwaitStopped, OemIsDown
<1>7. CASE SetFlag
  BY <1>7 DEF SetFlag
<1>8. CASE AwaitUnregistered
  BY <1>8 DEF AwaitUnregistered, Unregistered
<1>9. CASE Spawn
  BY <1>9 DEF Spawn
<1>10. CASE CheckStarted
  BY <1>10 DEF CheckStarted, Started, Succeeded, OutOfAttempts, GateDecided
<1>11. CASE SpawnProvider
  BY <1>11 DEF SpawnProvider
<1>12. CASE AwaitRegistered
  BY <1>12 DEF AwaitRegistered
<1>13. CASE ReapCandidate
  BY <1>13 DEF ReapCandidate, Reap
<1>14. CASE Ready
  BY <1>14 DEF Ready
<1>15. CASE WatchProvider
  BY <1>15 DEF WatchProvider, ProviderHealthy
<1>16. CASE WatchRest
  BY <1>16 DEF WatchRest
<1>17. CASE Tally
  BY <1>17 DEF Tally, GiveUp
<1>18. CASE ReapProxy
  BY <1>18 DEF ReapProxy, CleanupReap, Reap
<1>19. CASE ReapDaemon
  BY <1>19 DEF ReapDaemon, CleanupReap, Reap
<1>20. CASE ReapProvider
  BY <1>20 DEF ReapProvider, CleanupReap, Reap
<1>21. CASE Restore
  BY <1>21 DEF Restore
<1>22. CASE CtlStart
  BY <1>22 DEF CtlStart
<1>23. CASE Verify
  BY <1>23 DEF Verify
<1>24. CASE Rmmod
  BY <1>24 DEF Rmmod
<1>25. CASE Signal
  BY <1>25 DEF Signal, AfterSignal
<1>26. CASE OemStops
  BY <1>26 DEF OemStops
<1>27. CASE RegistryDrops
  BY <1>27 DEF RegistryDrops
<1>28. CASE OemRegisters
  BY <1>28 DEF OemRegisters
<1>29. CASE ProviderRegisters
  BY <1>29 DEF ProviderRegisters
<1>30. CASE RegistrationLost
  BY <1>30 DEF RegistrationLost
<1>31. CASE DaemonPrimes
  BY <1>31 DEF DaemonPrimes
<1>32. CASE DeviceChanges
  BY <1>32 DEF DeviceChanges
<1>33. ASSUME NEW kind \in Kinds, ProcessDies(kind) PROVE Bounded'
  BY <1>33 DEF ProcessDies
<1>34. CASE UNCHANGED vars BY <1>34 DEF vars
<1>35. QED
  BY <1>1, <1>2, <1>3, <1>4, <1>5, <1>6, <1>7, <1>8, <1>9, <1>10, <1>11,
     <1>12, <1>13, <1>14, <1>15, <1>16, <1>17, <1>18, <1>19, <1>20, <1>21,
     <1>22, <1>23, <1>24, <1>25, <1>26, <1>27, <1>28, <1>29, <1>30, <1>31,
     <1>32, <1>33, <1>34
  DEF Next, ScriptStep, WorldStep

(* The inductive form of TakeoverIsFlagged: the OEM provider is started    *)
(* again by nobody but cleanup, and nothing but cleanup and ctl.stop come  *)
(* between its being stopped and the flag.                                 *)
Flagged ==
  /\ pc = "setFlag" => oemSvc = "stopped"
  /\ pc \in StartingPoints => oemStopped /\ oemSvc = "stopped"
  /\ pc \notin {"verify", "rmmod", "exited"} => ~startIssued

(* Every step keeps the flag truthful.                                     *)
LEMMA FlaggedKept ==
  ASSUME TypeOK, Flagged, [Next]_vars
  PROVE  Flagged'
<1> USE DEF Flagged, TypeOK, ScriptPoints, CleanupPoints, StartingPoints,
            Kinds, Retried, ExitWith, StartWithRetry, script, world, history
<1>1. CASE Preflight
  BY <1>1 DEF Preflight
<1>2. CASE LoadModule
  BY <1>2 DEF LoadModule
<1>3. CASE AwaitDevice
  BY <1>3 DEF AwaitDevice
<1>4. CASE Label
  BY <1>4 DEF Label
<1>5. CASE StopOem
  BY <1>5 DEF StopOem
<1>6. CASE AwaitStopped
  BY <1>6 DEF AwaitStopped, OemIsDown
<1>7. CASE SetFlag
  BY <1>7 DEF SetFlag
<1>8. CASE AwaitUnregistered
  BY <1>8 DEF AwaitUnregistered, Unregistered
<1>9. CASE Spawn
  BY <1>9 DEF Spawn
<1>10. CASE CheckStarted
  BY <1>10 DEF CheckStarted, Started, Succeeded, OutOfAttempts, GateDecided
<1>11. CASE SpawnProvider
  BY <1>11 DEF SpawnProvider
<1>12. CASE AwaitRegistered
  BY <1>12 DEF AwaitRegistered
<1>13. CASE ReapCandidate
  BY <1>13 DEF ReapCandidate, Reap
<1>14. CASE Ready
  BY <1>14 DEF Ready
<1>15. CASE WatchProvider
  BY <1>15 DEF WatchProvider, ProviderHealthy
<1>16. CASE WatchRest
  BY <1>16 DEF WatchRest
<1>17. CASE Tally
  BY <1>17 DEF Tally, GiveUp
<1>18. CASE ReapProxy
  BY <1>18 DEF ReapProxy, CleanupReap, Reap
<1>19. CASE ReapDaemon
  BY <1>19 DEF ReapDaemon, CleanupReap, Reap
<1>20. CASE ReapProvider
  BY <1>20 DEF ReapProvider, CleanupReap, Reap
<1>21. CASE Restore
  BY <1>21 DEF Restore
<1>22. CASE CtlStart
  BY <1>22 DEF CtlStart
<1>23. CASE Verify
  BY <1>23 DEF Verify
<1>24. CASE Rmmod
  BY <1>24 DEF Rmmod
<1>25. CASE Signal
  BY <1>25 DEF Signal, AfterSignal
<1>26. CASE OemStops
  BY <1>26 DEF OemStops
<1>27. CASE RegistryDrops
  BY <1>27 DEF RegistryDrops
<1>28. CASE OemRegisters
  BY <1>28 DEF OemRegisters
<1>29. CASE ProviderRegisters
  BY <1>29 DEF ProviderRegisters
<1>30. CASE RegistrationLost
  BY <1>30 DEF RegistrationLost
<1>31. CASE DaemonPrimes
  BY <1>31 DEF DaemonPrimes
<1>32. CASE DeviceChanges
  BY <1>32 DEF DeviceChanges
<1>33. ASSUME NEW kind \in Kinds, ProcessDies(kind) PROVE Flagged'
  BY <1>33 DEF ProcessDies
<1>34. CASE UNCHANGED vars BY <1>34 DEF vars
<1>35. QED
  BY <1>1, <1>2, <1>3, <1>4, <1>5, <1>6, <1>7, <1>8, <1>9, <1>10, <1>11,
     <1>12, <1>13, <1>14, <1>15, <1>16, <1>17, <1>18, <1>19, <1>20, <1>21,
     <1>22, <1>23, <1>24, <1>25, <1>26, <1>27, <1>28, <1>29, <1>30, <1>31,
     <1>32, <1>33, <1>34
  DEF Next, ScriptStep, WorldStep

(* The inductive form of UninterruptedCleanupRestores,                     *)
(* RecordedProcessesReaped and EndIsNeverReady: what cleanup has done by   *)
(* the point it has reached, and that a status was written on the way.     *)
Cleaning ==
  /\ pc = "reapDaemon" => "proxy" \notin recorded \cap alive
  /\ pc = "reapProvider" => {"proxy", "daemon"} \cap recorded \cap alive = {}
  /\ RecordedProcessesReaped
  /\ pc = "verify" => startIssued
  /\ pc = "rmmod" /\ oemStopped => startIssued
  /\ UninterruptedCleanupRestores
  /\ pc \in CleanupPoints \cup {"exited"} => status # "READY"

(* Every step keeps the order of cleanup.                                  *)
LEMMA CleaningKept ==
  ASSUME TypeOK, Cleaning, [Next]_vars
  PROVE  Cleaning'
<1> USE DEF Cleaning, RecordedProcessesReaped, UninterruptedCleanupRestores,
            TypeOK, ScriptPoints, CleanupPoints, StartingPoints, Kinds,
            Retried, ExitWith, StartWithRetry, script, world, history
<1>1. CASE Preflight
  BY <1>1 DEF Preflight
<1>2. CASE LoadModule
  BY <1>2 DEF LoadModule
<1>3. CASE AwaitDevice
  BY <1>3 DEF AwaitDevice
<1>4. CASE Label
  BY <1>4 DEF Label
<1>5. CASE StopOem
  BY <1>5 DEF StopOem
<1>6. CASE AwaitStopped
  BY <1>6 DEF AwaitStopped, OemIsDown
<1>7. CASE SetFlag
  BY <1>7 DEF SetFlag
<1>8. CASE AwaitUnregistered
  BY <1>8 DEF AwaitUnregistered, Unregistered
<1>9. CASE Spawn
  BY <1>9 DEF Spawn
<1>10. CASE CheckStarted
  BY <1>10 DEF CheckStarted, Started, Succeeded, OutOfAttempts, GateDecided
<1>11. CASE SpawnProvider
  BY <1>11 DEF SpawnProvider
<1>12. CASE AwaitRegistered
  BY <1>12 DEF AwaitRegistered
<1>13. CASE ReapCandidate
  BY <1>13 DEF ReapCandidate, Reap
<1>14. CASE Ready
  BY <1>14 DEF Ready
<1>15. CASE WatchProvider
  BY <1>15 DEF WatchProvider, ProviderHealthy
<1>16. CASE WatchRest
  BY <1>16 DEF WatchRest
<1>17. CASE Tally
  BY <1>17 DEF Tally, GiveUp
<1>18. CASE ReapProxy
  BY <1>18 DEF ReapProxy, CleanupReap, Reap
<1>19. CASE ReapDaemon
  BY <1>19 DEF ReapDaemon, CleanupReap, Reap
<1>20. CASE ReapProvider
  <2>1. "proxy" \notin recorded' \cap alive' /\ "daemon" \notin recorded' \cap alive'
    BY <1>20 DEF ReapProvider, CleanupReap, Reap
  <2>2. "provider" \notin recorded' \cap alive'
    BY <1>20 DEF ReapProvider, CleanupReap, Reap
  <2>3. recorded' \subseteq Kinds
    BY <1>20 DEF ReapProvider, CleanupReap, ScriptTypes
  <2>4. recorded' \cap alive' = {} BY <2>1, <2>2, <2>3
  <2>5. QED BY <1>20, <2>4 DEF ReapProvider, CleanupReap
<1>21. CASE Restore
  BY <1>21 DEF Restore
<1>22. CASE CtlStart
  BY <1>22 DEF CtlStart
<1>23. CASE Verify
  BY <1>23 DEF Verify
<1>24. CASE Rmmod
  BY <1>24 DEF Rmmod
<1>25. CASE Signal
  BY <1>25 DEF Signal, AfterSignal
<1>26. CASE OemStops
  BY <1>26 DEF OemStops
<1>27. CASE RegistryDrops
  BY <1>27 DEF RegistryDrops
<1>28. CASE OemRegisters
  BY <1>28 DEF OemRegisters
<1>29. CASE ProviderRegisters
  BY <1>29 DEF ProviderRegisters
<1>30. CASE RegistrationLost
  BY <1>30 DEF RegistrationLost
<1>31. CASE DaemonPrimes
  BY <1>31 DEF DaemonPrimes
<1>32. CASE DeviceChanges
  BY <1>32 DEF DeviceChanges
<1>33. ASSUME NEW kind \in Kinds, ProcessDies(kind) PROVE Cleaning'
  BY <1>33 DEF ProcessDies
<1>34. CASE UNCHANGED vars BY <1>34 DEF vars
<1>35. QED
  BY <1>1, <1>2, <1>3, <1>4, <1>5, <1>6, <1>7, <1>8, <1>9, <1>10, <1>11,
     <1>12, <1>13, <1>14, <1>15, <1>16, <1>17, <1>18, <1>19, <1>20, <1>21,
     <1>22, <1>23, <1>24, <1>25, <1>26, <1>27, <1>28, <1>29, <1>30, <1>31,
     <1>32, <1>33, <1>34
  DEF Next, ScriptStep, WorldStep

(* The four parts together are inductive.                                 *)
SupervisorInv == TypeOK /\ Bounded /\ Flagged /\ Cleaning

(* They hold for ever, whatever the signals.                               *)
LEMMA SupervisorInvariant == Spec => []SupervisorInv
<1>1. Init => SupervisorInv
  <2> SUFFICES ASSUME Init PROVE SupervisorInv OBVIOUS
  <2>1. ScriptTypes
    <3>1. status \in {"NONE", "READY"} /\ recorded = {} BY DEF Init
    <3>2. attempt \in 0..MaxAttempts /\ failures \in 0..MaxFailures
      BY DEF Init, MaxAttempts, MaxFailures
    <3>3. pc \in ScriptPoints /\ phase \in {"startup", "monitor"} /\ starting \in Retried
      BY DEF Init, ScriptPoints, Retried
    <3>4. failed \in BOOLEAN /\ oemStopped \in BOOLEAN /\ loadedModule \in BOOLEAN
      BY DEF Init
    <3>5. QED BY <3>1, <3>2, <3>3, <3>4 DEF ScriptTypes
  <2>2. WorldTypes
    <3>1. alive = {} /\ signals = 0 BY DEF Init
    <3>2. signals \in 0..MaxSignals BY <3>1, TakeoverAssumption
    <3>3. QED BY <3>1, <3>2 DEF Init, WorldTypes
  <2>3. Bounded BY DEF Init, Bounded, MaxFailures
  <2>4. Flagged BY DEF Init, Flagged, StartingPoints
  <2>5. Cleaning
    BY DEF Init, Cleaning, CleanupPoints, RecordedProcessesReaped,
       UninterruptedCleanupRestores
  <2>6. QED BY <2>1, <2>2, <2>3, <2>4, <2>5 DEF SupervisorInv, TypeOK
<1>2. SupervisorInv /\ [Next]_vars => SupervisorInv'
  BY TypesKept, BoundsKept, FlaggedKept, CleaningKept DEF SupervisorInv
<1>3. QED BY <1>1, <1>2, PTL DEF Spec

(* Every reachable state is type correct; three attempts and three failed  *)
(* rounds are never exceeded.                                              *)
THEOREM TypeCorrect == Spec => []TypeOK
<1>1. SupervisorInv => TypeOK BY DEF SupervisorInv
<1>2. QED BY <1>1, SupervisorInvariant, PTL

(* Through every retry and restart the script knows that the OEM provider  *)
(* it stopped is down and has to be restored.                              *)
THEOREM FlagHolds == Spec => []TakeoverIsFlagged
<1>1. SupervisorInv => TakeoverIsFlagged
  BY DEF SupervisorInv, Flagged, TakeoverIsFlagged, StartingPoints
<1>2. QED BY <1>1, SupervisorInvariant, PTL

(* A cleanup no signal interrupts starts the OEM provider if it is flagged *)
(* stopped.                                                                *)
THEOREM CleanupRestores == Spec => []UninterruptedCleanupRestores
<1>1. SupervisorInv => UninterruptedCleanupRestores
  BY DEF SupervisorInv, Cleaning
<1>2. QED BY <1>1, SupervisorInvariant, PTL

(* Every process whose pid is recorded is gone before the camera is given  *)
(* back.                                                                   *)
THEOREM RecordedReaped == Spec => []RecordedProcessesReaped
<1>1. SupervisorInv => RecordedProcessesReaped BY DEF SupervisorInv, Cleaning
<1>2. QED BY <1>1, SupervisorInvariant, PTL

(* Flag and pids are true wherever cleanup relies on them.                 *)
THEOREM BookkeepingHolds == Spec => []BookkeepingIsTrue
<1>1. TakeoverIsFlagged /\ RecordedProcessesReaped => BookkeepingIsTrue
  BY DEF BookkeepingIsTrue
<1>2. QED BY <1>1, FlagHolds, RecordedReaped, PTL

(* No script ends with status.txt saying READY.                            *)
THEOREM EndNotReady == Spec => []EndIsNeverReady
<1>1. SupervisorInv => EndIsNeverReady
  BY DEF SupervisorInv, Cleaning, EndIsNeverReady
<1>2. QED BY <1>1, SupervisorInvariant, PTL

(* Every uninterrupted end of the script restores the OEM provider, and no *)
(* end leaves READY behind, after any number of signals.                   *)
THEOREM EndSafe == Spec => []EndIsSafe
<1>1. UninterruptedCleanupRestores /\ EndIsNeverReady => EndIsSafe
  BY DEF EndIsSafe
<1>2. QED BY <1>1, CleanupRestores, EndNotReady, PTL

-------------------------------------------------------------------------------
(* While no signal arrives *)

EarlyPoints ==
  {"preflight", "insmod", "awaitDevice", "label", "ctlStop", "awaitStopped",
   "setFlag", "awaitUnregistered"}

(* start_daemon is retried, or start_provider is about to run. *)
Launching ==
  /\ phase = "startup"
  /\ \/ pc \in {"spawn", "check"} /\ starting = "daemon"
     \/ pc = "spawnProvider"

(* Which processes can run at each command, and that every one of them is  *)
(* recorded except the candidate of a start_* function that is running.    *)
Accounted ==
  /\ signals = 0
  /\ pc = "spawnProvider" => phase = "startup"
  /\ pc \in {"watchProvider", "watchRest", "tally"} => phase = "monitor"
  /\ pc \in EarlyPoints => alive = {}
  /\ Launching => alive \subseteq {"daemon"}
  /\ pc \notin {"check", "awaitRegistered", "reapCandidate"} =>
       alive \subseteq recorded
  /\ pc = "check" => alive \subseteq recorded \cup {starting}
  /\ pc \in {"awaitRegistered", "reapCandidate"} =>
       alive \subseteq recorded \cup {"provider"}
  /\ pc = "awaitRegistered" => alive \subseteq {"daemon", "provider"}
  /\ pc = "spawn" => starting \notin alive
  /\ pc = "reapDaemon" => "proxy" \notin alive
  /\ pc = "reapProvider" => alive \subseteq {"provider"}
  /\ pc \in {"restore", "ctlStart", "verify", "rmmod", "exited"} => alive = {}

(* A provider that has yet to register finds legacy/0 free, the OEM        *)
(* provider down and the placeholder written.                              *)
Primed ==
  /\ Launching => registry = "none"
  /\ pc = "spawnProvider" => primed
  /\ registry = "vcam" => ~willRegister
  /\ willRegister /\ "provider" \in alive =>
       /\ pc \in {"awaitRegistered", "reapCandidate", "reapProxy", "reapDaemon",
                  "reapProvider"}
       /\ primed /\ registry = "none" /\ oemSvc = "stopped"

(* Until a signal arrives every step keeps the processes accounted for.    *)
LEMMA AccountedKept ==
  ASSUME signals' = 0, TypeOK, Accounted, [Next]_vars
  PROVE  Accounted'
<1> USE DEF Accounted, EarlyPoints, Launching, TypeOK, ScriptTypes,
            WorldTypes, ScriptPoints, CleanupPoints, Kinds, Retried,
            ExitWith, StartWithRetry, script, world, history
<1>1. CASE Preflight
  BY <1>1 DEF Preflight
<1>2. CASE LoadModule
  BY <1>2 DEF LoadModule
<1>3. CASE AwaitDevice
  BY <1>3 DEF AwaitDevice
<1>4. CASE Label
  BY <1>4 DEF Label
<1>5. CASE StopOem
  BY <1>5 DEF StopOem
<1>6. CASE AwaitStopped
  BY <1>6 DEF AwaitStopped, OemIsDown
<1>7. CASE SetFlag
  BY <1>7 DEF SetFlag
<1>8. CASE AwaitUnregistered
  BY <1>8 DEF AwaitUnregistered, Unregistered
<1>9. CASE Spawn
  BY <1>9 DEF Spawn
<1>10. CASE CheckStarted
  BY <1>10 DEF CheckStarted, Started, Succeeded, OutOfAttempts, GateDecided
<1>11. CASE SpawnProvider
  BY <1>11 DEF SpawnProvider
<1>12. CASE AwaitRegistered
  BY <1>12 DEF AwaitRegistered
<1>13. CASE ReapCandidate
  BY <1>13 DEF ReapCandidate, Reap
<1>14. CASE Ready
  BY <1>14 DEF Ready
<1>15. CASE WatchProvider
  BY <1>15 DEF WatchProvider, ProviderHealthy
<1>16. CASE WatchRest
  BY <1>16 DEF WatchRest
<1>17. CASE Tally
  BY <1>17 DEF Tally, GiveUp
<1>18. CASE ReapProxy
  BY <1>18 DEF ReapProxy, CleanupReap, Reap
<1>19. CASE ReapDaemon
  <2>1. CASE "daemon" \in recorded
    BY <1>19, <2>1 DEF ReapDaemon, CleanupReap, Reap
  <2>2. CASE "daemon" \notin recorded
    <3>1. alive' = alive /\ recorded' = recorded /\ pc' = "reapProvider"
      BY <1>19, <2>2 DEF ReapDaemon, CleanupReap
    <3>2. alive \subseteq recorded /\ "proxy" \notin alive
      BY <1>19 DEF ReapDaemon, CleanupReap
    <3>3. alive \subseteq {"provider"} BY <2>2, <3>2
    <3>4. QED BY <1>19, <3>1, <3>2, <3>3 DEF ReapDaemon, CleanupReap
  <2>3. QED BY <2>1, <2>2
<1>20. CASE ReapProvider
  BY <1>20 DEF ReapProvider, CleanupReap, Reap
<1>21. CASE Restore
  BY <1>21 DEF Restore
<1>22. CASE CtlStart
  BY <1>22 DEF CtlStart
<1>23. CASE Verify
  BY <1>23 DEF Verify
<1>24. CASE Rmmod
  BY <1>24 DEF Rmmod
<1>25. CASE Signal
  BY <1>25 DEF Signal, AfterSignal
<1>26. CASE OemStops
  BY <1>26 DEF OemStops
<1>27. CASE RegistryDrops
  BY <1>27 DEF RegistryDrops
<1>28. CASE OemRegisters
  BY <1>28 DEF OemRegisters
<1>29. CASE ProviderRegisters
  BY <1>29 DEF ProviderRegisters
<1>30. CASE RegistrationLost
  BY <1>30 DEF RegistrationLost
<1>31. CASE DaemonPrimes
  BY <1>31 DEF DaemonPrimes
<1>32. CASE DeviceChanges
  BY <1>32 DEF DeviceChanges
<1>33. ASSUME NEW kind \in Kinds, ProcessDies(kind) PROVE Accounted'
  BY <1>33 DEF ProcessDies
<1>34. CASE UNCHANGED vars BY <1>34 DEF vars
<1>35. QED
  BY <1>1, <1>2, <1>3, <1>4, <1>5, <1>6, <1>7, <1>8, <1>9, <1>10, <1>11,
     <1>12, <1>13, <1>14, <1>15, <1>16, <1>17, <1>18, <1>19, <1>20, <1>21,
     <1>22, <1>23, <1>24, <1>25, <1>26, <1>27, <1>28, <1>29, <1>30, <1>31,
     <1>32, <1>33, <1>34
  DEF Next, ScriptStep, WorldStep

(* Until a signal arrives every step keeps the provider behind the daemon. *)
LEMMA PrimedKept ==
  ASSUME signals' = 0, TypeOK, Flagged, Accounted, Primed, [Next]_vars
  PROVE  Primed'
<1> USE DEF Primed, Accounted, Flagged, EarlyPoints, Launching, TypeOK,
            ScriptTypes, ScriptPoints, CleanupPoints, StartingPoints, Kinds,
            Retried, ExitWith, StartWithRetry, script, world, history
<1>1. CASE Preflight
  BY <1>1 DEF Preflight
<1>2. CASE LoadModule
  BY <1>2 DEF LoadModule
<1>3. CASE AwaitDevice
  BY <1>3 DEF AwaitDevice
<1>4. CASE Label
  BY <1>4 DEF Label
<1>5. CASE StopOem
  BY <1>5 DEF StopOem
<1>6. CASE AwaitStopped
  BY <1>6 DEF AwaitStopped, OemIsDown
<1>7. CASE SetFlag
  BY <1>7 DEF SetFlag
<1>8. CASE AwaitUnregistered
  BY <1>8 DEF AwaitUnregistered, Unregistered
<1>9. CASE Spawn
  BY <1>9 DEF Spawn
<1>10. CASE CheckStarted
  BY <1>10 DEF CheckStarted, Started, Succeeded, OutOfAttempts, GateDecided
<1>11. CASE SpawnProvider
  BY <1>11 DEF SpawnProvider
<1>12. CASE AwaitRegistered
  BY <1>12 DEF AwaitRegistered
<1>13. CASE ReapCandidate
  BY <1>13 DEF ReapCandidate, Reap
<1>14. CASE Ready
  BY <1>14 DEF Ready
<1>15. CASE WatchProvider
  BY <1>15 DEF WatchProvider, ProviderHealthy
<1>16. CASE WatchRest
  BY <1>16 DEF WatchRest
<1>17. CASE Tally
  BY <1>17 DEF Tally, GiveUp
<1>18. CASE ReapProxy
  BY <1>18 DEF ReapProxy, CleanupReap, Reap
<1>19. CASE ReapDaemon
  BY <1>19 DEF ReapDaemon, CleanupReap, Reap
<1>20. CASE ReapProvider
  BY <1>20 DEF ReapProvider, CleanupReap, Reap
<1>21. CASE Restore
  BY <1>21 DEF Restore
<1>22. CASE CtlStart
  BY <1>22 DEF CtlStart
<1>23. CASE Verify
  BY <1>23 DEF Verify
<1>24. CASE Rmmod
  BY <1>24 DEF Rmmod
<1>25. CASE Signal
  BY <1>25 DEF Signal, AfterSignal
<1>26. CASE OemStops
  BY <1>26 DEF OemStops
<1>27. CASE RegistryDrops
  BY <1>27 DEF RegistryDrops
<1>28. CASE OemRegisters
  BY <1>28 DEF OemRegisters
<1>29. CASE ProviderRegisters
  BY <1>29 DEF ProviderRegisters
<1>30. CASE RegistrationLost
  BY <1>30 DEF RegistrationLost
<1>31. CASE DaemonPrimes
  BY <1>31 DEF DaemonPrimes
<1>32. CASE DeviceChanges
  BY <1>32 DEF DeviceChanges
<1>33. ASSUME NEW kind \in Kinds, ProcessDies(kind) PROVE Primed'
  BY <1>33 DEF ProcessDies
<1>34. CASE UNCHANGED vars BY <1>34 DEF vars
<1>35. QED
  BY <1>1, <1>2, <1>3, <1>4, <1>5, <1>6, <1>7, <1>8, <1>9, <1>10, <1>11,
     <1>12, <1>13, <1>14, <1>15, <1>16, <1>17, <1>18, <1>19, <1>20, <1>21,
     <1>22, <1>23, <1>24, <1>25, <1>26, <1>27, <1>28, <1>29, <1>30, <1>31,
     <1>32, <1>33, <1>34
  DEF Next, ScriptStep, WorldStep

(* A takeover no signal has disturbed yet. *)
Quiet == signals = 0 => Accounted /\ Primed

(* Signals are only ever added. *)
LEMMA SignalsGrow ==
  ASSUME TypeOK, [Next]_vars, signals' = 0
  PROVE  signals = 0
<1>1. CASE Signal
  BY <1>1 DEF Signal, TypeOK, WorldTypes
<1>2. CASE ~Signal
  BY <1>2 DEF Next, ScriptStep, Preflight, LoadModule, AwaitDevice, Label, StopOem,
     AwaitStopped, SetFlag, AwaitUnregistered, Spawn, CheckStarted, SpawnProvider,
     AwaitRegistered, ReapCandidate, Ready, WatchProvider, WatchRest, Tally,
     ReapProxy, ReapDaemon, ReapProvider, CleanupReap, Restore, CtlStart, Verify, Rmmod,
     WorldStep, OemStops, RegistryDrops, OemRegisters, ProviderRegisters,
     RegistrationLost, DaemonPrimes, DeviceChanges, ProcessDies, history, vars
<1> QED
  BY <1>1, <1>2

(* The whole invariant holds for ever, its second half until a signal.     *)
LEMMA QuietInvariant == Spec => [](SupervisorInv /\ Quiet)
<1>1. Init => Quiet
  BY DEF Init, Quiet, Accounted, Primed, EarlyPoints, Launching
<1>2. SupervisorInv /\ Quiet /\ [Next]_vars => Quiet'
  BY AccountedKept, PrimedKept, SignalsGrow DEF SupervisorInv, Quiet
<1>3. QED BY <1>1, <1>2, SupervisorInvariant, PTL DEF Spec

(* Undisturbed, the replacement provider registers after the OEM provider  *)
(* left legacy/0 and the daemon wrote its placeholder.                     *)
LEMMA RegistrationOrdered == Quiet /\ [Next]_vars => [RegistersInOrder]_vars
<1> SUFFICES ASSUME Quiet, Next, signals = 0, registry # "vcam", registry' = "vcam"
             PROVE  registry = "none" /\ oemSvc = "stopped" /\ primed
  BY DEF RegistersInOrder
<1>1. ~ScriptStep /\ ~Signal
  BY DEF ScriptStep, Preflight, LoadModule, AwaitDevice, Label, StopOem,
     AwaitStopped, SetFlag, AwaitUnregistered, Spawn, CheckStarted, SpawnProvider,
     AwaitRegistered, ReapCandidate, Ready, WatchProvider, WatchRest, Tally,
     ReapProxy, ReapDaemon, ReapProvider, CleanupReap, Restore, CtlStart, Verify,
     Rmmod, Signal, world
<1>2. ProviderRegisters
  BY <1>1 DEF Next, WorldStep, OemStops, RegistryDrops, OemRegisters,
     RegistrationLost, DaemonPrimes, DeviceChanges, ProcessDies
<1>3. QED BY <1>2 DEF ProviderRegisters, Quiet, Primed

(* Undisturbed, the trap ends every VCamES process before it restores the  *)
(* OEM provider.                                                           *)
LEMMA ProcessesEndFirst == Quiet /\ [Next]_vars => [QuietEndBeforeRestore]_vars
<1> SUFFICES ASSUME Quiet, Next, signals = 0, ~startIssued, startIssued'
             PROVE  alive = {}
  BY DEF QuietEndBeforeRestore
<1>1. CtlStart
  BY DEF Next, ScriptStep, Preflight, LoadModule, AwaitDevice, Label, StopOem,
     AwaitStopped, SetFlag, AwaitUnregistered, Spawn, CheckStarted, SpawnProvider,
     AwaitRegistered, ReapCandidate, Ready, WatchProvider, WatchRest, Tally,
     ReapProxy, ReapDaemon, ReapProvider, CleanupReap, Restore, Verify, Rmmod,
     Signal, WorldStep, OemStops, RegistryDrops, OemRegisters, ProviderRegisters,
     RegistrationLost, DaemonPrimes, DeviceChanges, ProcessDies, history
<1>2. QED BY <1>1 DEF CtlStart, Quiet, Accounted

(* Until a signal arrives the camera changes hands in order.               *)
THEOREM HandoverInOrder == Spec => QuietHandover
<1>1. Quiet /\ [Next]_vars => [RegistersInOrder /\ QuietEndBeforeRestore]_vars
  BY RegistrationOrdered, ProcessesEndFirst
<1>2. QED BY <1>1, QuietInvariant, PTL DEF Spec, QuietHandover

-------------------------------------------------------------------------------
(* Runtime *)

(* A step of the app leaves the script and its world alone.                *)
LEMMA RuntimeStep == ASSUME [RuntimeNext]_runtimeVars PROVE [Next]_vars
BY DEF RuntimeNext, runtimeVars, ReadStatus, ReadDevice, ReadProvider, AppReads, AppAsks,
       AppGivesUp, CarryOut

(* The app disturbs nothing service.sh does: every behaviour of the two    *)
(* is one of the script, so what is proved of Takeover holds of Runtime.   *)
THEOREM RuntimeImplementsTakeover == RuntimeSpec => Spec
<1>1. RuntimeInit => Init BY DEF RuntimeInit
<1>2. QED BY <1>1, RuntimeStep, PTL DEF RuntimeSpec, Spec

-------------------------------------------------------------------------------
(* The proxy comes last *)

(* The commands that are run only once the provider is recorded. *)
AfterProvider ==
  \/ phase = "monitor"
  \/ pc \in {"spawn", "check"} /\ starting = "proxy"
  \/ pc \in {"ready", "watchProvider", "watchRest", "tally"}

ProxyLast ==
  /\ "proxy" \in alive => "provider" \in recorded
  /\ AfterProvider => "provider" \in recorded

(* From the moment the provider is recorded until it is restored, the OEM  *)
(* provider is down and flagged.                                           *)
Taken ==
  "provider" \in recorded /\ pc \notin {"verify", "rmmod", "exited"} =>
    oemStopped /\ oemSvc = "stopped" /\ ~startIssued

(* Every step of the script and its world keeps both. *)
LEMMA TakenKept ==
  ASSUME SupervisorInv, ProxyLast, Taken, [Next]_vars
  PROVE  ProxyLast' /\ Taken'
<1> USE DEF SupervisorInv, Flagged, ProxyLast, AfterProvider, Taken, TypeOK, ScriptTypes,
            WorldTypes, StartingPoints, CleanupPoints, Kinds, Retried, ExitWith,
            StartWithRetry, Reap, script, world, history
<1>1. CASE Preflight \/ LoadModule \/ AwaitDevice \/ Label
  BY <1>1 DEF Preflight, LoadModule, AwaitDevice, Label
<1>2. CASE StopOem \/ AwaitStopped \/ SetFlag \/ AwaitUnregistered
  BY <1>2 DEF StopOem, AwaitStopped, SetFlag, AwaitUnregistered
<1>3. CASE Spawn
  BY <1>3 DEF Spawn
<1>4. CASE CheckStarted
  BY <1>4 DEF CheckStarted, Started
<1>5. CASE SpawnProvider \/ ReapCandidate \/ Ready
  BY <1>5 DEF SpawnProvider, ReapCandidate, Ready
<1>6. CASE AwaitRegistered
  BY <1>6 DEF AwaitRegistered
<1>7. CASE WatchProvider \/ Tally
  BY <1>7 DEF WatchProvider, Tally
<1>8. CASE WatchRest
  BY <1>8 DEF WatchRest
<1>9. CASE ReapProxy \/ ReapDaemon \/ ReapProvider
  BY <1>9 DEF ReapProxy, ReapDaemon, ReapProvider, CleanupReap
<1>10. CASE Restore
  BY <1>10 DEF Restore
<1>14. CASE CtlStart
  BY <1>14 DEF CtlStart
<1>15. CASE Verify \/ Rmmod
  BY <1>15 DEF Verify, Rmmod
<1>11. CASE Signal
  BY <1>11 DEF Signal, AfterSignal
<1>12. CASE WorldStep
  BY <1>12 DEF WorldStep, OemStops, RegistryDrops, OemRegisters, ProviderRegisters,
     RegistrationLost, DaemonPrimes, DeviceChanges, ProcessDies
<1>13. CASE UNCHANGED vars
  BY <1>13 DEF vars
<1> QED
  BY <1>1, <1>2, <1>3, <1>4, <1>5, <1>6, <1>7, <1>8, <1>9, <1>10, <1>11, <1>12, <1>13,
     <1>14, <1>15 DEF Next, ScriptStep

(* A request is pending only with vcamesd, and only after the proxy ran. *)
Requested == pending => "daemon" \in alive /\ "provider" \in recorded

(* The provider's pid is never forgotten. *)
LEMMA ProviderStaysRecorded ==
  ASSUME SupervisorInv, [Next]_vars, "provider" \in recorded
  PROVE  "provider" \in recorded'
BY DEF SupervisorInv, TypeOK, ScriptTypes, Retried, Next, ScriptStep, Preflight, LoadModule,
   AwaitDevice, Label, StopOem, AwaitStopped, SetFlag, AwaitUnregistered, Spawn, CheckStarted,
   SpawnProvider, AwaitRegistered, ReapCandidate, Ready, WatchProvider, WatchRest, Tally,
   ReapProxy, ReapDaemon, ReapProvider, CleanupReap, Restore, CtlStart, Verify, Rmmod, Signal,
   WorldStep, OemStops, RegistryDrops, OemRegisters, ProviderRegisters, RegistrationLost,
   DaemonPrimes, DeviceChanges, ProcessDies, script, vars

LEMMA RequestedKept ==
  ASSUME SupervisorInv, ProxyLast, Requested, [RuntimeNext]_runtimeVars
  PROVE  Requested'
<1>1. CASE Next /\ RequestKept
  <2>1. pending' => pending /\ "daemon" \in alive'
    BY <1>1 DEF RequestKept, Requested
  <2> QED BY <1>1, <2>1, ProviderStaysRecorded DEF Requested
<1>2. CASE AppAsks
  BY <1>2 DEF AppAsks, Reachable, ProxyLast, Requested, vars, script, world
<1>3. CASE ReadStatus \/ ReadDevice \/ ReadProvider \/ AppGivesUp \/ CarryOut
           \/ UNCHANGED runtimeVars
  BY <1>3 DEF ReadStatus, ReadDevice, ReadProvider, AppReads, AppGivesUp, CarryOut, Requested,
     runtimeVars, vars, script, world
<1> QED BY <1>1, <1>2, <1>3 DEF RuntimeNext

RuntimeInv == SupervisorInv /\ Quiet /\ ProxyLast /\ Taken /\ Requested

LEMMA RuntimeInvariant == RuntimeSpec => []RuntimeInv
<1>1. RuntimeInit => ProxyLast /\ Taken /\ Requested
  BY DEF RuntimeInit, Init, ProxyLast, AfterProvider, Taken, Requested
<1>2. SupervisorInv /\ ProxyLast /\ Taken /\ [RuntimeNext]_runtimeVars => ProxyLast' /\ Taken'
  BY RuntimeStep, TakenKept
<1>3. SupervisorInv /\ ProxyLast /\ Requested /\ [RuntimeNext]_runtimeVars => Requested'
  BY RequestedKept
<1>4. RuntimeSpec => [](SupervisorInv /\ Quiet)
  BY RuntimeImplementsTakeover, QuietInvariant, PTL
<1>5. QED BY <1>1, <1>2, <1>3, <1>4, PTL DEF RuntimeSpec, RuntimeInv

(* A daemon that carries a request out undisturbed runs before the         *)
(* cleanup's restoration.                                                  *)
LEMMA CarryOutInTakeover ==
  ASSUME RuntimeInv, CarryOut
  PROVE  /\ "provider" \in recorded
         /\ signals = 0 => oemStopped /\ oemSvc = "stopped" /\ ~startIssued
<1>1. "provider" \in recorded /\ "daemon" \in alive
  BY DEF RuntimeInv, Requested, CarryOut
<1>2. ASSUME signals = 0 PROVE oemStopped /\ oemSvc = "stopped" /\ ~startIssued
  <2>1. pc \notin {"verify", "rmmod", "exited"}
    BY <1>1, <1>2 DEF RuntimeInv, Quiet, Accounted
  <2>2. QED BY <1>1, <2>1 DEF RuntimeInv, Taken
<1>3. QED BY <1>1, <1>2

(* vcamesd starts a stream only in a camera that was taken over, whatever  *)
(* the app had read before.                                                *)
THEOREM StartIsInTakeover == RuntimeSpec => StartFindsTakeover
<1>1. RuntimeInv /\ [RuntimeNext]_runtimeVars =>
        [CarryOut =>
           /\ "provider" \in recorded
           /\ signals = 0 => oemStopped /\ oemSvc = "stopped" /\ ~startIssued]_runtimeVars
  BY CarryOutInTakeover
<1>2. QED BY <1>1, RuntimeInvariant, PTL DEF RuntimeSpec, StartFindsTakeover
=============================================================================
