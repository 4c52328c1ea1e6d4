-------------------------- MODULE BootSequenceProofs --------------------------
(***************************************************************************)
(* Proofs about BootSequence: for every command line, every disk and any   *)
(* number of failing calls and restarts, the steps of the two passes find  *)
(* what they need, agree on the mode and enter the image of their root.    *)
(***************************************************************************)
EXTENDS BootSequence, TLAPS

\* Steps that run with the /etc that SetupEtc made.
WithEtc == (Bootstrap \ {"bootstrap.SetupEtc"}) \cup {"detect", "registry"} \cup Handlers
               \cup Finalize
AfterUsers == WithEtc \ {"bootstrap.SetupModules", "bootstrap.SetupUsers"}
AfterHostname == Finalize \ {"SetupMounts", "GrowLive", "SetupHostname"}
AfterHosts == AfterHostname \ {"SetupHosts"}
BeforeNode == WithEtc \ Finalize
BeforeServices == BeforeNode \cup {"SetupMounts", "GrowLive", "SetupHostname", "SetupHosts",
                                   "SetupRoot", "SetupTTYs", "SetupSudoers", "SetupServices"}

\* What is in /etc, step by step.
EtcInv ==
    /\ pc \in WithEtc =>
           /\ "passwd" \in etc /\ "ssh" \in etc
           /\ "hosts" \in etc \/ "noHosts" \in disk
    /\ pc \in AfterUsers => "rancher" \in etc
    /\ pc \in AfterHostname => "hostname" \in etc
    /\ pc \in AfterHosts => "hosts" \in etc
    /\ pc \in BeforeNode => "node" \notin etc
    /\ pc \in BeforeServices => "services" \notin etc

\* Where the mode is known, and to whom.
ModeInv ==
    /\ pc \in Bootstrap \cup {"detect"} => mode = ""
    /\ pc \in {"registry"} \cup Handlers \cup Finalize \cup {"exec", "running"} => mode \in Modes
    /\ pc \in Handlers \cup Finalize \cup {"exec", "running"} => finMode = mode
    /\ pc = "disk" => mode = "disk"
    /\ pc \in Finalize \cup {"exec", "running"} => handled = mode
    /\ pc \in {"exec", "running"} => modeFile = mode

\* Which image is on usr.
ImageInv ==
    /\ base = "yes" => image = root
    /\ pc = "run" => image = root
    /\ "ENTER" \in env => pc \in {"run", "panic"}
    /\ pc \in {"relocate", "enter"} => base # "yes"
    /\ pc \in Bootstrap \cup {"detect", "registry"} \cup Handlers \cup Finalize => base = "yes"

IInv == TypeOK /\ EtcInv /\ ModeInv /\ ImageInv /\ RescueExplained

-----------------------------------------------------------------------------
(* Preservation, one step per action.                                      *)

\* Every program counter is one of PCs.
LEMMA ProgramCounters ==
    /\ Bootstrap \subseteq PCs /\ Handlers \subseteq PCs /\ Finalize \subseteq PCs
    /\ "running" \in PCs /\ "shell" \in PCs /\ "rescue" \in PCs /\ "panic" \in PCs
    /\ "halted" \in PCs
    /\ "initrd" \in PCs /\ "relocate" \in PCs /\ "enter" \in PCs /\ "run" \in PCs
    /\ "detect" \in PCs /\ "registry" \in PCs /\ "exec" \in PCs /\ "verify" \in PCs
  BY DEF PCs, Ends

\* A failing call keeps the types.
LEMMA FaultType ==
    ASSUME TypeOK, Fault
    PROVE  faults' \in Nat /\ did' \in SUBSET Deeds
<1>1. "fault" \in Deeds
  BY DEF Deeds
<1>2. faults \in Nat /\ did \in SUBSET Deeds
  BY DEF TypeOK
<1>3. QED
  BY <1>1, <1>2 DEF Fault

\* So does running `k3os config --initrd`.
LEMMA InitrdConfigType ==
    ASSUME TypeOK, SetupInitrdConfig
    PROVE  faults' \in Nat /\ did' \in SUBSET Deeds
<1>1. /\ did \cup {"initrdConfig"} \in SUBSET Deeds
      /\ did \cup {"initrdConfig", "fault"} \in SUBSET Deeds
  BY DEF TypeOK, Deeds
<1>2. faults \in Nat
  BY DEF TypeOK
<1>3. QED
  BY <1>1, <1>2 DEF SetupInitrdConfig

\* So does a restart of the machine.
LEMMA PowerCycleType ==
    ASSUME TypeOK, PowerCycle
    PROVE  boots' \in Nat
<1>1. boots \in Nat
  BY DEF TypeOK
<1>2. QED
  BY <1>1 DEF PowerCycle

\* So do the calls of DiskHandler, if they fail or not.
LEMMA SlipsType ==
    ASSUME TypeOK, DiskExecute \/ PowerCycle
    PROVE  faults' \in Nat
<1>1. faults \in Nat
  BY DEF TypeOK
<1>2. \/ \E slip \in BOOLEAN : Slips(slip)
      \/ UNCHANGED faults
  BY DEF DiskExecute, PowerCycle
<1>3. faults' = faults \/ faults' = faults + 1
  BY <1>2 DEF Slips
<1>4. QED
  BY <1>1, <1>3

\* A power cut leaves facts about the disk, ...
LEMMA TearsType ==
    ASSUME NEW d \in SUBSET DiskFacts, NEW w, NEW e \in Tears(w, d)
    PROVE  e \in SUBSET DiskFacts
<1>1. "torn" \in DiskFacts /\ "broken" \in DiskFacts
  BY DEF DiskFacts, Facts
<1> QED
  BY <1>1 DEF Tears

\* ... wherever it comes.
LEMMA CutType ==
    ASSUME TypeOK, PowerCycle
    PROVE  disk' \in SUBSET DiskFacts
<1>1. disk \in SUBSET DiskFacts
  BY DEF TypeOK
<1>2. PICK d \in Tears(dirty, disk) :
          \/ disk' \in SUBSET DiskFacts
          \/ disk' \in {d, d \ ({"hostname"} \cap dirty)}
  BY DEF PowerCycle
<1>3. d \in SUBSET DiskFacts
  BY <1>1, TearsType
<1> QED
  BY <1>2, <1>3

\* What DiskHandler copies and the name that the finalizer keeps are writes.
LEMMA WritesType ==
    ASSUME TypeOK
    PROVE  /\ dirty \cup Unflushed(disk) \in SUBSET Writes
           /\ PersistName => disk' \in SUBSET DiskFacts /\ dirty' \in SUBSET Writes
<1>1. dirty \in SUBSET Writes /\ disk \in SUBSET DiskFacts
  BY DEF TypeOK
<1>2. dirty \cup Unflushed(disk) \in SUBSET Writes
  BY <1>1 DEF Unflushed, Writes
<1>3. PersistName => disk' \in SUBSET DiskFacts /\ dirty' \in SUBSET Writes
  BY <1>1 DEF PersistName, Writes, DiskFacts, Facts
<1> QED
  BY <1>2, <1>3

\* The attempts of mode detection stay within their bound.
LEMMA TriesType ==
    ASSUME NEW t \in 0..MaxTries
    PROVE  0 \in 0..MaxTries /\ (t < MaxTries => t + 1 \in 0..MaxTries)
  BY ConstantsAssumption

\* A step of the bootstrapper or of the finalizer keeps the types.
LEMMA StepType ==
    ASSUME TypeOK, NEW here, NEW next \in PCs, NEW needs, NEW clash,
           NEW makes \in SUBSET EtcFiles,
           Step(here, next, needs, clash, makes)
    PROVE  TypeOK'
<1>1. pc' \in PCs /\ etc' \in SUBSET EtcFiles
  BY ProgramCounters DEF Step, Then, FailStep, Failed, TypeOK
<1>2. faults' \in Nat /\ did' \in SUBSET Deeds
  BY FaultType DEF Step, Then, FailStep, TypeOK
<1>3. QED
  BY <1>1, <1>2 DEF Step, store, outer, inner, TypeOK

\* Every step keeps the types.
LEMMA TypeStep ==
    ASSUME TypeOK, [Next]_vars
    PROVE  TypeOK'
<1> USE DEF Then, FailStep, Failed, vars, store, outer, files, inner, TypeOK
<1>a. /\ "ssh" \in EtcFiles /\ "passwd" \in EtcFiles /\ "hosts" \in EtcFiles
      /\ "hostname" \in EtcFiles /\ "node" \in EtcFiles /\ "motd" \in EtcFiles
  BY DEF EtcFiles
<1>d. "RELOCATED" \in EnvVars /\ "ENTER" \in EnvVars /\ "MODE" \in EnvVars
  BY DEF EnvVars
<1>e. "dir" \in RunFiles /\ "kernel" \in RunFiles
  BY DEF RunFiles
<1>c. 0 \in 0..MaxTries /\ (tries < MaxTries => tries + 1 \in 0..MaxTries)
  BY TriesType
<1>1. CASE Initrd
  BY <1>1, <1>c, ProgramCounters DEF Initrd, FreshProcess, Bootstrap
<1>2. CASE Relocate
  <2>1. pc' \in PCs
    BY <1>2, ProgramCounters DEF Relocate, CopyFS
  <2>2. faults' \in Nat /\ did' \in SUBSET Deeds
    BY <1>2, FaultType DEF Relocate, CopyFS
  <2>3. QED
    BY <1>2, <2>1, <2>2, <1>d DEF Relocate, CopyFS
<1>3. CASE EnterMount
  BY <1>3, <1>d, FaultType, ProgramCounters DEF EnterMount, FindRoot
<1>4. CASE EnterRun
  BY <1>4, <1>d, FaultType, ProgramCounters DEF EnterRun
<1>5. CASE SetupEtc
  <2>1. pc' \in PCs
    BY <1>5, ProgramCounters DEF SetupEtc, Bootstrap
  <2>2. faults' \in Nat /\ did' \in SUBSET Deeds
    BY <1>5, FaultType DEF SetupEtc, Bootstrap
  <2>3. QED
    BY <1>5, <2>1, <2>2, <1>a DEF SetupEtc
<1>6. CASE SetupModules
  BY <1>6, StepType, ProgramCounters DEF SetupModules, Bootstrap, Handlers, Finalize, EtcFiles
<1>7. CASE SetupUsers
  BY <1>7, StepType, ProgramCounters DEF SetupUsers, Bootstrap, Handlers, Finalize, EtcFiles
<1>8. CASE SetupRC
  BY <1>8, ProgramCounters DEF SetupRC, DoMounts, Bootstrap
<1>9. CASE SetupDirs
  BY <1>9, <1>e, FaultType, ProgramCounters DEF SetupDirs, Bootstrap
<1>10. CASE SetupKernel
  <2>1. pc' \in PCs
    BY <1>10, ProgramCounters DEF SetupKernel, Bootstrap
  <2>2. faults' \in Nat /\ did' \in SUBSET Deeds
    BY <1>10, FaultType DEF SetupKernel, Bootstrap
  <2>3. QED
    BY <1>10, <2>1, <2>2, <1>e DEF SetupKernel
<1>11. CASE SetupInitrdConfig
  <2>1. pc' \in PCs
    BY <1>11, ProgramCounters DEF SetupInitrdConfig, Applies, HostnameKnown, SyncHostname, Bootstrap
  <2>2. faults' \in Nat /\ did' \in SUBSET Deeds
    BY <1>11, InitrdConfigType DEF SetupInitrdConfig
  <2>3. QED
    BY <1>11, <2>1, <2>2, <1>a DEF SetupInitrdConfig, Applies, HostnameKnown, SyncHostname
<1>12. CASE Detect
  BY <1>12, <1>e, FaultType, ProgramCounters DEF Detect
<1>13. CASE DetectAgain
  BY <1>13, <1>c, ProgramCounters DEF DetectAgain
<1>14. CASE Dispatch
  BY <1>14, ProgramCounters DEF Dispatch, FirstStep, Handlers
<1>15. CASE DiskExecute
  <2>1. pc' \in PCs
    BY <1>15, ProgramCounters DEF DiskExecute, FreshProcess, Restart
  <2>2. faults' \in Nat /\ did' \in SUBSET Deeds
    BY <1>15, SlipsType DEF DiskExecute, FreshProcess, Restart
  <2>3. QED
    BY <1>15, <2>1, <2>2, <1>c, <1>d, WritesType DEF DiskExecute, FreshProcess, Restart
<1>16. CASE DiskFails
  <2>1. pc' \in PCs
    BY <1>16, ProgramCounters DEF DiskFails
  <2>2. faults' \in Nat /\ did' \in SUBSET Deeds
    BY <1>16, FaultType DEF DiskFails
  <2>3. disk' \in SUBSET DiskFacts /\ dirty' \in SUBSET Writes
    BY <1>16, WritesType DEF DiskFails
  <2>4. QED
    BY <1>16, <2>1, <2>2, <2>3 DEF DiskFails
<1>17. CASE LiveSetupBase
  BY <1>17, StepType, ProgramCounters DEF LiveSetupBase, Bootstrap, Handlers, Finalize, EtcFiles
<1>18. CASE LiveSetupKernel
  BY <1>18, StepType, ProgramCounters DEF LiveSetupKernel, Bootstrap, Handlers, Finalize, EtcFiles
<1>19. CASE LiveSetupPasswd
  BY <1>19, StepType, ProgramCounters DEF LiveSetupPasswd, Bootstrap, Handlers, Finalize, EtcFiles
<1>20. CASE LiveSetupMotd
  BY <1>20, <1>a, FaultType, ProgramCounters DEF LiveSetupMotd, AfterLive, Finalize
<1>21. CASE LocalSetupSSH
  BY <1>21, StepType, ProgramCounters DEF LocalSetupSSH, Bootstrap, Handlers, Finalize, EtcFiles
<1>22. CASE LocalSetupRancherNode
  BY <1>22, <1>a, FaultType, ProgramCounters DEF LocalSetupRancherNode, Finalize
<1>23. CASE SetupMounts
  BY <1>23, StepType, ProgramCounters DEF SetupMounts, Bootstrap, Handlers, Finalize, EtcFiles
<1>24. CASE GrowLive
  BY <1>24, ProgramCounters DEF GrowLive, Finalize
<1>25. CASE SetupHostname
  <2>1. pc' \in PCs
    BY <1>25, ProgramCounters DEF SetupHostname, Finalize
  <2>2. faults' \in Nat /\ did' \in SUBSET Deeds
    BY <1>25, FaultType DEF SetupHostname
  <2>3. disk' \in SUBSET DiskFacts /\ dirty' \in SUBSET Writes
    BY <1>25, WritesType DEF SetupHostname
  <2>4. etc' \in SUBSET EtcFiles
    BY <1>25, <1>a DEF SetupHostname
  <2>5. QED
    BY <1>25, <2>1, <2>2, <2>3, <2>4 DEF SetupHostname
<1>26. CASE SetupHosts
  BY <1>26, StepType, ProgramCounters DEF SetupHosts, Bootstrap, Handlers, Finalize, EtcFiles
<1>27. CASE SetupRoot
  BY <1>27, StepType, ProgramCounters DEF SetupRoot, Bootstrap, Handlers, Finalize, EtcFiles
<1>28. CASE SetupTTYs
  BY <1>28, StepType, ProgramCounters DEF SetupTTYs, Bootstrap, Handlers, Finalize, EtcFiles
<1>29. CASE SetupSudoers
  BY <1>29, StepType, ProgramCounters DEF SetupSudoers, Bootstrap, Handlers, Finalize, EtcFiles
<1>30. CASE SetupServices
  BY <1>30, StepType, ProgramCounters DEF SetupServices, Bootstrap, Handlers, Finalize, EtcFiles
<1>31. CASE SetupBootConfig
  BY <1>31, StepType, ProgramCounters DEF SetupBootConfig, Bootstrap, Handlers, Finalize, EtcFiles
<1>32. CASE SetupManifests
  BY <1>32, StepType, ProgramCounters DEF SetupManifests, Bootstrap, Handlers, Finalize, EtcFiles
<1>33. CASE SetupStateDirs
  BY <1>33, StepType, ProgramCounters DEF SetupStateDirs, Bootstrap, Handlers, Finalize, EtcFiles
<1>34. CASE Cleanup
  <2>1. pc' \in PCs
    BY <1>34, ProgramCounters DEF Cleanup
  <2>2. faults' \in Nat /\ did' \in SUBSET Deeds
    BY <1>34, FaultType DEF Cleanup
  <2>3. QED
    BY <1>34, <2>1, <2>2, <1>e DEF Cleanup
<1>35. CASE ExecInit
  BY <1>35, FaultType, ProgramCounters DEF ExecInit
<1>36. CASE Verify
  BY <1>36, FaultType, ProgramCounters DEF Verify
<1>37. CASE RescueFails
  BY <1>37, FaultType, ProgramCounters DEF RescueFails
<1>38. CASE DeviceAppears
  BY <1>38 DEF DeviceAppears
<1>39. CASE PowerCycle
  <2>1. pc' \in PCs
    BY <1>39, ProgramCounters DEF PowerCycle, FreshProcess, Restart
  <2>2. faults' \in Nat /\ did' \in SUBSET Deeds
    BY <1>39, SlipsType DEF PowerCycle, FreshProcess, Restart
  <2>3. boots' \in Nat
    BY <1>39, PowerCycleType DEF PowerCycle
  <2>4. disk' \in SUBSET DiskFacts
    BY <1>39, CutType
  <2>5. QED
    BY <1>39, <2>1, <2>2, <2>3, <2>4, <1>c DEF PowerCycle, FreshProcess, Restart
<1>40. CASE UNCHANGED vars
  BY <1>40
<1>41. QED
  BY <1>1, <1>2, <1>3, <1>4, <1>5, <1>6, <1>7, <1>8, <1>9, <1>10, <1>11, <1>12,
     <1>13, <1>14, <1>15, <1>16, <1>17, <1>18, <1>19, <1>20, <1>21, <1>22, <1>23,
     <1>24, <1>25, <1>26, <1>27, <1>28, <1>29, <1>30, <1>31, <1>32, <1>33, <1>34,
     <1>35, <1>36, <1>37, <1>38, <1>39, <1>40 DEF Next, Boot

\* A step finds in /etc what the steps before it have left there.
LEMMA EtcStep ==
    ASSUME TypeOK, EtcInv, [Next]_vars
    PROVE  EtcInv'
<1> USE DEF Fault, Then, FailStep, Failed, vars, store, outer, files, inner, Bootstrap,
       Handlers, Finalize, WithEtc, AfterUsers, AfterHostname, AfterHosts, BeforeNode,
       BeforeServices, EtcInv
<1>1. CASE Initrd
  BY <1>1 DEF Initrd, FreshProcess
<1>2. CASE Relocate
  BY <1>2 DEF Relocate, CopyFS
<1>3. CASE EnterMount
  BY <1>3 DEF EnterMount, FindRoot
<1>4. CASE EnterRun
  BY <1>4 DEF EnterRun
<1>5. CASE SetupEtc
  BY <1>5 DEF SetupEtc
<1>6. CASE SetupModules
  BY <1>6 DEF SetupModules, Step
<1>7. CASE SetupUsers
  BY <1>7 DEF SetupUsers, Step
<1>8. CASE SetupRC
  BY <1>8 DEF SetupRC, DoMounts
<1>9. CASE SetupDirs
  BY <1>9 DEF SetupDirs
<1>10. CASE SetupKernel
  BY <1>10 DEF SetupKernel
<1>11. CASE SetupInitrdConfig
  BY <1>11 DEF SetupInitrdConfig, Applies, HostnameKnown, SyncHostname
<1>12. CASE Detect
  BY <1>12 DEF Detect
<1>13. CASE DetectAgain
  BY <1>13 DEF DetectAgain
<1>14. CASE Dispatch
  BY <1>14 DEF Dispatch, FirstStep
<1>15. CASE DiskExecute
  BY <1>15 DEF DiskExecute, FreshProcess, Restart
<1>16. CASE DiskFails
  BY <1>16 DEF DiskFails
<1>17. CASE LiveSetupBase
  BY <1>17 DEF LiveSetupBase, Step
<1>18. CASE LiveSetupKernel
  BY <1>18 DEF LiveSetupKernel, Step
<1>19. CASE LiveSetupPasswd
  BY <1>19 DEF LiveSetupPasswd, Step
<1>20. CASE LiveSetupMotd
  BY <1>20 DEF LiveSetupMotd, AfterLive
<1>21. CASE LocalSetupSSH
  BY <1>21 DEF LocalSetupSSH, Step
<1>22. CASE LocalSetupRancherNode
  BY <1>22 DEF LocalSetupRancherNode
<1>23. CASE SetupMounts
  BY <1>23 DEF SetupMounts, Step
<1>24. CASE GrowLive
  BY <1>24 DEF GrowLive
<1>25. CASE SetupHostname
  BY <1>25 DEF SetupHostname, PersistName
<1>26. CASE SetupHosts
  BY <1>26 DEF SetupHosts, Step
<1>27. CASE SetupRoot
  BY <1>27 DEF SetupRoot, Step
<1>28. CASE SetupTTYs
  BY <1>28 DEF SetupTTYs, Step
<1>29. CASE SetupSudoers
  BY <1>29 DEF SetupSudoers, Step
<1>30. CASE SetupServices
  BY <1>30 DEF SetupServices, Step
<1>31. CASE SetupBootConfig
  BY <1>31 DEF SetupBootConfig, Step
<1>32. CASE SetupManifests
  BY <1>32 DEF SetupManifests, Step
<1>33. CASE SetupStateDirs
  BY <1>33 DEF SetupStateDirs, Step
<1>34. CASE Cleanup
  BY <1>34 DEF Cleanup
<1>35. CASE ExecInit
  BY <1>35 DEF ExecInit
<1>36. CASE Verify
  BY <1>36 DEF Verify
<1>37. CASE RescueFails
  BY <1>37 DEF RescueFails
<1>38. CASE DeviceAppears
  BY <1>38 DEF DeviceAppears
<1>39. CASE PowerCycle
  BY <1>39 DEF PowerCycle, FreshProcess, Restart
<1>40. CASE UNCHANGED vars
  BY <1>40
<1>41. QED
  BY <1>1, <1>2, <1>3, <1>4, <1>5, <1>6, <1>7, <1>8, <1>9, <1>10, <1>11, <1>12,
     <1>13, <1>14, <1>15, <1>16, <1>17, <1>18, <1>19, <1>20, <1>21, <1>22, <1>23,
     <1>24, <1>25, <1>26, <1>27, <1>28, <1>29, <1>30, <1>31, <1>32, <1>33, <1>34,
     <1>35, <1>36, <1>37, <1>38, <1>39, <1>40 DEF Next, Boot

\* The detected mode stays the mode of the pass.
LEMMA ModeStep ==
    ASSUME TypeOK, ModeInv, [Next]_vars
    PROVE  ModeInv'
<1> USE DEF Fault, Then, FailStep, Failed, vars, store, outer, files, inner, Bootstrap,
       Handlers, Finalize, ModeInv
<1>1. CASE Initrd
  <2>1. pc' \in {"bootstrap.SetupEtc", "relocate"}
    BY <1>1 DEF Initrd
  <2>2. QED
    BY <1>1, <2>1 DEF Initrd, FreshProcess
<1>2. CASE Relocate
  BY <1>2 DEF Relocate, CopyFS
<1>3. CASE EnterMount
  BY <1>3 DEF EnterMount, FindRoot
<1>4. CASE EnterRun
  BY <1>4 DEF EnterRun
<1>5. CASE SetupEtc
  BY <1>5 DEF SetupEtc
<1>6. CASE SetupModules
  BY <1>6 DEF SetupModules, Step
<1>7. CASE SetupUsers
  BY <1>7 DEF SetupUsers, Step
<1>8. CASE SetupRC
  BY <1>8 DEF SetupRC, DoMounts
<1>9. CASE SetupDirs
  BY <1>9 DEF SetupDirs
<1>10. CASE SetupKernel
  BY <1>10 DEF SetupKernel
<1>11. CASE SetupInitrdConfig
  BY <1>11 DEF SetupInitrdConfig, Applies, HostnameKnown, SyncHostname
<1>12. CASE Detect
  BY <1>12 DEF Detect, TypeOK
<1>13. CASE DetectAgain
  BY <1>13 DEF DetectAgain
<1>14. CASE Dispatch
  BY <1>14 DEF Dispatch, FirstStep
<1>15. CASE DiskExecute
  BY <1>15 DEF DiskExecute, FreshProcess, Restart, TypeOK
<1>16. CASE DiskFails
  BY <1>16 DEF DiskFails
<1>17. CASE LiveSetupBase
  BY <1>17 DEF LiveSetupBase, Step
<1>18. CASE LiveSetupKernel
  BY <1>18 DEF LiveSetupKernel, Step
<1>19. CASE LiveSetupPasswd
  BY <1>19 DEF LiveSetupPasswd, Step
<1>20. CASE LiveSetupMotd
  BY <1>20 DEF LiveSetupMotd, AfterLive
<1>21. CASE LocalSetupSSH
  BY <1>21 DEF LocalSetupSSH, Step
<1>22. CASE LocalSetupRancherNode
  BY <1>22 DEF LocalSetupRancherNode
<1>23. CASE SetupMounts
  BY <1>23 DEF SetupMounts, Step
<1>24. CASE GrowLive
  BY <1>24 DEF GrowLive
<1>25. CASE SetupHostname
  BY <1>25 DEF SetupHostname, PersistName
<1>26. CASE SetupHosts
  BY <1>26 DEF SetupHosts, Step
<1>27. CASE SetupRoot
  BY <1>27 DEF SetupRoot, Step
<1>28. CASE SetupTTYs
  BY <1>28 DEF SetupTTYs, Step
<1>29. CASE SetupSudoers
  BY <1>29 DEF SetupSudoers, Step
<1>30. CASE SetupServices
  BY <1>30 DEF SetupServices, Step
<1>31. CASE SetupBootConfig
  BY <1>31 DEF SetupBootConfig, Step
<1>32. CASE SetupManifests
  BY <1>32 DEF SetupManifests, Step
<1>33. CASE SetupStateDirs
  BY <1>33 DEF SetupStateDirs, Step
<1>34. CASE Cleanup
  BY <1>34 DEF Cleanup
<1>35. CASE ExecInit
  BY <1>35 DEF ExecInit
<1>36. CASE Verify
  BY <1>36 DEF Verify
<1>37. CASE RescueFails
  BY <1>37 DEF RescueFails
<1>38. CASE DeviceAppears
  BY <1>38 DEF DeviceAppears
<1>39. CASE PowerCycle
  BY <1>39 DEF PowerCycle, FreshProcess, Restart
<1>40. CASE UNCHANGED vars
  BY <1>40
<1>41. QED
  BY <1>1, <1>2, <1>3, <1>4, <1>5, <1>6, <1>7, <1>8, <1>9, <1>10, <1>11, <1>12,
     <1>13, <1>14, <1>15, <1>16, <1>17, <1>18, <1>19, <1>20, <1>21, <1>22, <1>23,
     <1>24, <1>25, <1>26, <1>27, <1>28, <1>29, <1>30, <1>31, <1>32, <1>33, <1>34,
     <1>35, <1>36, <1>37, <1>38, <1>39, <1>40 DEF Next, Boot

\* The image on usr is the one of the root, and ENTER_ROOT is short-lived.
LEMMA ImageStep ==
    ASSUME TypeOK, ImageInv, [Next]_vars
    PROVE  ImageInv'
<1> USE DEF Fault, Then, FailStep, Failed, vars, store, outer, files, inner, Bootstrap,
       Handlers, Finalize, ImageInv
<1>1. CASE Initrd
  BY <1>1 DEF Initrd, FreshProcess
<1>2. CASE Relocate
  BY <1>2 DEF Relocate, CopyFS
<1>3. CASE EnterMount
  BY <1>3 DEF EnterMount, FindRoot
<1>4. CASE EnterRun
  BY <1>4 DEF EnterRun
<1>5. CASE SetupEtc
  BY <1>5 DEF SetupEtc
<1>6. CASE SetupModules
  BY <1>6 DEF SetupModules, Step
<1>7. CASE SetupUsers
  BY <1>7 DEF SetupUsers, Step
<1>8. CASE SetupRC
  BY <1>8 DEF SetupRC, DoMounts
<1>9. CASE SetupDirs
  BY <1>9 DEF SetupDirs
<1>10. CASE SetupKernel
  BY <1>10 DEF SetupKernel
<1>11. CASE SetupInitrdConfig
  BY <1>11 DEF SetupInitrdConfig, Applies, HostnameKnown, SyncHostname
<1>12. CASE Detect
  BY <1>12 DEF Detect
<1>13. CASE DetectAgain
  BY <1>13 DEF DetectAgain
<1>14. CASE Dispatch
  BY <1>14 DEF Dispatch, FirstStep
<1>15. CASE DiskExecute
  BY <1>15 DEF DiskExecute, FreshProcess, Restart
<1>16. CASE DiskFails
  BY <1>16 DEF DiskFails
<1>17. CASE LiveSetupBase
  BY <1>17 DEF LiveSetupBase, Step
<1>18. CASE LiveSetupKernel
  BY <1>18 DEF LiveSetupKernel, Step
<1>19. CASE LiveSetupPasswd
  BY <1>19 DEF LiveSetupPasswd, Step
<1>20. CASE LiveSetupMotd
  BY <1>20 DEF LiveSetupMotd, AfterLive
<1>21. CASE LocalSetupSSH
  BY <1>21 DEF LocalSetupSSH, Step
<1>22. CASE LocalSetupRancherNode
  BY <1>22 DEF LocalSetupRancherNode
<1>23. CASE SetupMounts
  BY <1>23 DEF SetupMounts, Step
<1>24. CASE GrowLive
  BY <1>24 DEF GrowLive
<1>25. CASE SetupHostname
  BY <1>25 DEF SetupHostname, PersistName
<1>26. CASE SetupHosts
  BY <1>26 DEF SetupHosts, Step
<1>27. CASE SetupRoot
  BY <1>27 DEF SetupRoot, Step
<1>28. CASE SetupTTYs
  BY <1>28 DEF SetupTTYs, Step
<1>29. CASE SetupSudoers
  BY <1>29 DEF SetupSudoers, Step
<1>30. CASE SetupServices
  BY <1>30 DEF SetupServices, Step
<1>31. CASE SetupBootConfig
  BY <1>31 DEF SetupBootConfig, Step
<1>32. CASE SetupManifests
  BY <1>32 DEF SetupManifests, Step
<1>33. CASE SetupStateDirs
  BY <1>33 DEF SetupStateDirs, Step
<1>34. CASE Cleanup
  BY <1>34 DEF Cleanup
<1>35. CASE ExecInit
  BY <1>35 DEF ExecInit
<1>36. CASE Verify
  BY <1>36 DEF Verify
<1>37. CASE RescueFails
  BY <1>37 DEF RescueFails
<1>38. CASE DeviceAppears
  BY <1>38 DEF DeviceAppears
<1>39. CASE PowerCycle
  BY <1>39 DEF PowerCycle, FreshProcess, Restart
<1>40. CASE UNCHANGED vars
  BY <1>40
<1>41. QED
  BY <1>1, <1>2, <1>3, <1>4, <1>5, <1>6, <1>7, <1>8, <1>9, <1>10, <1>11, <1>12,
     <1>13, <1>14, <1>15, <1>16, <1>17, <1>18, <1>19, <1>20, <1>21, <1>22, <1>23,
     <1>24, <1>25, <1>26, <1>27, <1>28, <1>29, <1>30, <1>31, <1>32, <1>33, <1>34,
     <1>35, <1>36, <1>37, <1>38, <1>39, <1>40 DEF Next, Boot

\* A step that has no failing call leads to the rescue shell for a known cause only.
LEMMA RescueStep ==
    ASSUME TypeOK, EtcInv, ModeInv, RescueExplained, [Next]_vars
    PROVE  RescueExplained'
<1> USE DEF Fault, Then, FailStep, Failed, vars, store, outer, files, inner, Bootstrap,
       Handlers, Finalize, WithEtc, AfterUsers, AfterHostname, AfterHosts, BeforeNode,
       BeforeServices, EtcInv, ModeInv, RescueExplained
<1>1. CASE Initrd
  BY <1>1 DEF Initrd, FreshProcess
<1>2. CASE Relocate
  BY <1>2 DEF Relocate, CopyFS
<1>3. CASE EnterMount
  BY <1>3 DEF EnterMount, FindRoot
<1>4. CASE EnterRun
  BY <1>4 DEF EnterRun
<1>5. CASE SetupEtc
  BY <1>5 DEF SetupEtc
<1>6. CASE SetupModules
  BY <1>6 DEF SetupModules, Step
<1>7. CASE SetupUsers
  BY <1>7 DEF SetupUsers, Step
<1>8. CASE SetupRC
  BY <1>8 DEF SetupRC, DoMounts
<1>9. CASE SetupDirs
  BY <1>9 DEF SetupDirs
<1>10. CASE SetupKernel
  BY <1>10 DEF SetupKernel, KnownCause, HostnameKnown, Explicit
<1>11. CASE SetupInitrdConfig
  BY <1>11 DEF SetupInitrdConfig, Applies, HostnameKnown, SyncHostname, KnownCause, Explicit
<1>12. CASE Detect
  BY <1>12 DEF Detect, KnownCause, HostnameKnown, Explicit, DetectOnce, TypeOK, CmdlineRecords,
       Modes
<1>13. CASE DetectAgain
  BY <1>13 DEF DetectAgain, KnownCause, HostnameKnown, Explicit
<1>14. CASE Dispatch
  BY <1>14 DEF Dispatch, FirstStep
<1>15. CASE DiskExecute
  BY <1>15 DEF DiskExecute, FreshProcess, Restart
<1>16. CASE DiskFails
  <2>1. mode' = mode /\ visible' = visible
    BY <1>16 DEF DiskFails, inner
  <2>2. mode = "disk"
    BY <1>16 DEF DiskFails
  <2>3. \/ "fault" \in did' \/ visible = "no"
        \/ Unfinished(disk, disk', FALSE)
    BY <1>16 DEF DiskFails, FailStep, Fault
  <2>4. Unfinished(disk, disk', FALSE) => "broken" \in disk'
    BY DEF Unfinished, Leaves
  <2>5. QED
    BY <2>1, <2>2, <2>3, <2>4 DEF KnownCause
<1>17. CASE LiveSetupBase
  BY <1>17 DEF LiveSetupBase, Step
<1>18. CASE LiveSetupKernel
  BY <1>18 DEF LiveSetupKernel, Step
<1>19. CASE LiveSetupPasswd
  BY <1>19 DEF LiveSetupPasswd, Step
<1>20. CASE LiveSetupMotd
  BY <1>20 DEF LiveSetupMotd, AfterLive
<1>21. CASE LocalSetupSSH
  BY <1>21 DEF LocalSetupSSH, Step
<1>22. CASE LocalSetupRancherNode
  BY <1>22 DEF LocalSetupRancherNode
<1>23. CASE SetupMounts
  BY <1>23 DEF SetupMounts, Step
<1>24. CASE GrowLive
  BY <1>24 DEF GrowLive, KnownCause, HostnameKnown, Explicit
<1>25. CASE SetupHostname
  BY <1>25 DEF SetupHostname, PersistName
<1>26. CASE SetupHosts
  BY <1>26 DEF SetupHosts, Step
<1>27. CASE SetupRoot
  BY <1>27 DEF SetupRoot, Step
<1>28. CASE SetupTTYs
  BY <1>28 DEF SetupTTYs, Step
<1>29. CASE SetupSudoers
  BY <1>29 DEF SetupSudoers, Step
<1>30. CASE SetupServices
  BY <1>30 DEF SetupServices, Step
<1>31. CASE SetupBootConfig
  BY <1>31 DEF SetupBootConfig, Step, KnownCause, HostnameKnown, Explicit
<1>32. CASE SetupManifests
  BY <1>32 DEF SetupManifests, Step
<1>33. CASE SetupStateDirs
  BY <1>33 DEF SetupStateDirs, Step
<1>34. CASE Cleanup
  BY <1>34 DEF Cleanup
<1>35. CASE ExecInit
  BY <1>35 DEF ExecInit
<1>36. CASE Verify
  BY <1>36 DEF Verify
<1>37. CASE RescueFails
  BY <1>37 DEF RescueFails
<1>38. CASE DeviceAppears
  BY <1>38 DEF DeviceAppears, Ends
<1>39. CASE PowerCycle
  BY <1>39 DEF PowerCycle, FreshProcess, Restart
<1>40. CASE UNCHANGED vars
  BY <1>40 DEF KnownCause, HostnameKnown, Explicit
<1>41. QED
  BY <1>1, <1>2, <1>3, <1>4, <1>5, <1>6, <1>7, <1>8, <1>9, <1>10, <1>11, <1>12,
     <1>13, <1>14, <1>15, <1>16, <1>17, <1>18, <1>19, <1>20, <1>21, <1>22, <1>23,
     <1>24, <1>25, <1>26, <1>27, <1>28, <1>29, <1>30, <1>31, <1>32, <1>33, <1>34,
     <1>35, <1>36, <1>37, <1>38, <1>39, <1>40 DEF Next, Boot

-----------------------------------------------------------------------------
(* The theorems.                                                           *)

\* The invariant holds when the machine is first started.
LEMMA InitInv == Init => IInv
<1> SUFFICES ASSUME Init PROVE IInv
  OBVIOUS
<1>1. TypeOK
  <2>1. cmdline \in CmdlineRecords /\ disk \in SUBSET DiskFacts
    BY ConstantsAssumption DEF Init
  <2>2. 0 \in 0..MaxTries
    BY ConstantsAssumption
  <2>3. QED
    BY <2>1, <2>2, ProgramCounters DEF TypeOK, Init
<1>2. EtcInv
  BY DEF Init, EtcInv, WithEtc, AfterUsers, AfterHostname, AfterHosts, BeforeNode, BeforeServices,
         Bootstrap, Handlers, Finalize
<1>3. ModeInv /\ ImageInv
  BY DEF Init, ModeInv, ImageInv, Bootstrap, Handlers, Finalize
<1>4. RescueExplained
  BY DEF Init, RescueExplained
<1>5. QED
  BY <1>1, <1>2, <1>3, <1>4 DEF IInv

\* IInv is an inductive invariant of the boot: init.go's phases, with every step
\* of bootstrap.go, detect.go, the mode handlers and finalize.go.
THEOREM InductiveInvariant == Spec => []IInv
<1>1. IInv /\ [Next]_vars => IInv'
  BY TypeStep, EtcStep, ModeStep, ImageStep, RescueStep DEF IInv
<1>2. QED
  BY InitInv, <1>1, PTL DEF Spec

\* The state of the boot keeps its types: no unknown mode is ever accepted by
\* Detector.finalize, whatever the command line says.
THEOREM TypeCorrect == Spec => []TypeOK
<1>1. IInv => TypeOK
  BY DEF IInv
<1>2. QED
  BY InductiveInvariant, <1>1, PTL

\* Init.Run reaches the rescue shell only through a failing call or a known
\* cause: the order of the steps is right in both passes.
THEOREM RescueAlwaysExplained == Spec => []RescueExplained
<1>1. IInv => RescueExplained
  BY DEF IInv
<1>2. QED
  BY InductiveInvariant, <1>1, PTL

\* What Cleanup writes to /run/k3os/mode is the mode that was detected and
\* handled.
THEOREM ModeAlwaysAgreed == Spec => []ModeAgreed
<1>1. IInv => ModeAgreed
  BY DEF IInv, ModeInv, ModeAgreed
<1>2. QED
  BY InductiveInvariant, <1>1, PTL

\* enterchroot never mounts the image of an earlier pass.
THEOREM ImageAlwaysOwn == Spec => []OwnImage
<1>1. IInv => OwnImage
  BY DEF IInv, ImageInv, OwnImage
<1>2. QED
  BY InductiveInvariant, <1>1, PTL
=============================================================================
