---------------------------- MODULE DiskBootProofs ----------------------------
(***************************************************************************)
(* Proofs about DiskBoot: its type invariant, and that a takeover, a reset *)
(* and the set-up of the target survive any number of power cuts and of    *)
(* failing calls, and that Execute, call by call, keeps its DiskContract.  *)
(***************************************************************************)
EXTENDS DiskBoot, TLAPS

\* The steps of Takeover after the factory-reset marker is written.
TakingOver == {"sbin", "sweep", "sweepsbin", "sweepboot", "untakeover", "erase", "halt",
               "poweroff", "reboot"}

\* The steps that come after SetupK3OS in a boot that goes on to the pivot.
AfterK3os == {"kernel", "kernelcopy", "init", "k3s", "takeover", "ephemeral", "unreset",
              "pivot", "exec"}

\* The steps of SetupK3OS that copy and link the binary.
Copying == {"k3oscopy", "k3osrename", "k3oslink", "k3osrelink"}

EraseDone == "eraseFailed" \notin notes

\* How far the sweep has come, and that its marker outlives it.
SweepInv ==
    EraseDone =>
        /\ foreign # {} => "takeover" \in markers
        /\ pc \in {"sweepsbin", "sweepboot", "untakeover"} => "root" \notin foreign
        /\ pc \in {"sweepboot", "untakeover"} => "sbin" \notin foreign
        /\ pc = "untakeover" => "boot" \notin foreign

\* While data is owed some marker says so; the takeover marker is only removed
\* after the factory-reset marker has been written.
ResetInv ==
    /\ pc \in TakingOver => "factory-reset" \in markers
    /\ pc \in {"ephemeral"} => "takeover" \notin markers
    /\ EraseDone /\ "owed" \in notes =>
           /\ markers \cap Resets # {}
           /\ pc \notin {"unreset", "pivot", "exec", "local"}

\* The copy protocol: only a complete file ever gets the final name, and no other than
\* a power cut makes it less.
K3osInv ==
    /\ k3osFile = "part" => "torn" \in notes
    /\ pc \in {"k3oscopy", "k3osrename"} => k3osFile = "none"
    /\ pc = "k3osrename" => k3osTmp = "full"
    /\ pc \in {"k3oslink", "k3osrelink"} => k3osFile # "none"
    /\ pc \in Copying => k3osLink # "other"
    /\ pc \in AfterK3os /\ "k3os" \in base =>
           k3osLink = "other" \/ (k3osLink = "mine" /\ k3osFile # "none")

\* Where the target is mounted and sbin/init in place, if not where it should be.
TargetInv ==
    /\ pc \in Calls \ {"resolve", "grow", "resize", "remount"} => target = "mounted"
    /\ pc \in {"k3s", "takeover", "sbin", "ephemeral", "unreset", "pivot", "exec"} =>
           init # "none"
    /\ init = "link" => sbin = "dir"
    /\ init = "astray" => sbin = "link"

\* Where SetupMounts stands with the growth of the partition.
GrowInv ==
    /\ pc = "resize" => part = "big"
    /\ pc \in {"remount", "ungrow"} => fs = "big" \/ "growFailed" \in notes

\* A call has failed in this boot.
Slipped == faults > since

\* Before the kernel image is looked for, and after it is there.
UpToKernel == {"resolve", "growpart", "grow", "resize", "remount", "ungrow", "k3os", "k3oscopy",
               "k3osrename", "k3oslink", "k3osrelink", "kernel"}

\* A link sbin that leads nowhere does not lead to an init, and the link stays only
\* if it could not be removed.  Without a binary to copy, nothing is copied.
BrokenInv ==
    /\ SbinDangles => init = "none"
    /\ pc \in {"sweep", "sweepsbin", "sweepboot", "untakeover"} /\ sbin = "link" => Slipped
    /\ pc \in Copying => "k3os" \in base
    /\ pc = "k3osrelink" /\ k3osLink # "none" => Slipped

\* What Execute has made of the disk it found.  Markers and data only go; ...
FoundInv ==
    pc \in Calls =>
        /\ "takeover" \in markers => "takeover" \in found
        /\ "growpart" \in markers => "growpart" \in found
        /\ data = "some" => "hostname" \in found

\* ... a disk that is broken stays so, and breaks only by a takeover in which a call
\* fails; ...
BreakInv ==
    pc \in Calls =>
        /\ "broken" \in found => Broken
        /\ Broken => "broken" \in found \/ (Slipped /\ "takeover" \in found)

\* ... the kernel image only comes, and is complete after the copy; ...
KernelInv ==
    pc \in Calls =>
        /\ "kernel" \in found => kernel = "full"
        /\ "torn" \in found => kernel = "part"
        /\ pc \in UpToKernel => (kernel = "full" => "kernel" \in found)
        /\ pc # "kernelcopy" => (kernel = "part" => "torn" \in found)
        /\ pc = "kernelcopy" => kernel = "part" /\ "torn" \notin found

\* ... what is not flushed was copied by this boot, and no boot begins or is made to
\* begin with such a copy; ...
DirtyInv ==
    /\ "kernel" \in dirty => kernel = "full" /\ "kernel" \notin found
    /\ pc = "off" => dirty = {}

\* ... and Takeover is run for its marker, and takes it away with the data.
MarkerInv ==
    /\ pc \in Calls \ {"erase", "halt", "poweroff", "reboot"} /\ "takeover" \in found =>
          "takeover" \in markers
    /\ pc \in TakingOver => "takeover" \in found
    /\ pc \in {"ephemeral", "unreset", "pivot", "exec"} => "takeover" \notin found
    /\ pc \in {"erase", "halt", "poweroff", "reboot"} => Slipped \/ "takeover" \notin markers
    /\ pc \in {"halt", "poweroff", "reboot"} => Slipped \/ data = "none"

-----------------------------------------------------------------------------
(* What the contract sees of the disk.                                     *)

\* What Condition says, fact by fact.
LEMMA ConditionFacts ==
    /\ Condition \subseteq Facts
    /\ "takeover" \in Condition <=> "takeover" \in markers
    /\ "growpart" \in Condition <=> "growpart" \in markers
    /\ "hostname" \in Condition <=> data = "some"
    /\ "kernel" \in Condition <=> kernel = "full"
    /\ "torn" \in Condition <=> kernel = "part"
    /\ "broken" \in Condition <=> Broken
<1>1. Condition \subseteq Facts
  BY DEF Condition
<1>2. /\ "takeover" \in Condition <=> "takeover" \in markers
      /\ "growpart" \in Condition <=> "growpart" \in markers
  BY DEF Condition, Facts
<1>3. /\ "hostname" \in Condition <=> data = "some"
      /\ "kernel" \in Condition <=> kernel = "full"
      /\ "torn" \in Condition <=> kernel = "part"
  BY DEF Condition, Facts
<1>4. "broken" \in Condition <=> Broken
  BY DEF Condition, Facts, Broken, SbinDangles, K3osUsable
<1> QED
  BY <1>1, <1>2, <1>3, <1>4

\* The same after a step.
LEMMA NextConditionFacts ==
    /\ Condition' \subseteq Facts
    /\ "takeover" \in Condition' <=> "takeover" \in markers'
    /\ "growpart" \in Condition' <=> "growpart" \in markers'
    /\ "hostname" \in Condition' <=> data' = "some"
    /\ "kernel" \in Condition' <=> kernel' = "full"
    /\ "torn" \in Condition' <=> kernel' = "part"
    /\ "broken" \in Condition' <=> Broken'
<1>1. Condition' \subseteq Facts
  BY DEF Condition
<1>2. /\ "takeover" \in Condition' <=> "takeover" \in markers'
      /\ "growpart" \in Condition' <=> "growpart" \in markers'
  BY DEF Condition, Facts
<1>3. /\ "hostname" \in Condition' <=> data' = "some"
      /\ "kernel" \in Condition' <=> kernel' = "full"
      /\ "torn" \in Condition' <=> kernel' = "part"
  BY DEF Condition, Facts
<1>4. "broken" \in Condition' <=> Broken'
  BY DEF Condition, Facts, Broken, SbinDangles, K3osUsable
<1> QED
  BY <1>1, <1>2, <1>3, <1>4

\* The count of failing calls, and when it began.
LEMMA Counts == ASSUME TypeOK PROVE faults \in Nat /\ since \in Nat /\ since <= faults
BY DEF TypeOK

-----------------------------------------------------------------------------
(* Preservation, one step per action.                                      *)

\* Every step of DiskBoot keeps the types.
LEMMA TypeStep ==
    ASSUME TypeOK, [Next]_vars
    PROVE  TypeOK'
<1> USE DEF Fault, Rescue, Then, vars, content, links, k3os, k3s, grow, history, ledger, Calls,
       Ends, TypeOK
<1>a. "factory-reset" \in Markers /\ "ephemeral" \in Markers
  BY DEF Markers
<1>b. /\ "owed" \in Notes /\ "eraseFailed" \in Notes
      /\ "growFailed" \in Notes /\ "torn" \in Notes
  BY DEF Notes
<1>c. /\ dirty \cup {"k3os"} \in SUBSET {"k3os", "kernel"}
      /\ dirty \cup {"kernel"} \in SUBSET {"k3os", "kernel"}
  OBVIOUS
<1>1. CASE MountState
  BY <1>1 DEF MountState
<1>2. CASE CheckGrowpart
  BY <1>2 DEF CheckGrowpart
<1>3. CASE GrowPartition
  BY <1>3, <1>b DEF GrowPartition, FailedGrow
<1>4. CASE ResizeFS
  BY <1>4, <1>b DEF ResizeFS
<1>5. CASE RemountState
  BY <1>5 DEF RemountState
<1>6. CASE RemoveGrowpart
  BY <1>6 DEF RemoveGrowpart
<1>7. CASE StartK3osCopy
  BY <1>7 DEF StartK3osCopy, K3osFound
<1>8. CASE FinishK3osCopy
  BY <1>8 DEF FinishK3osCopy
<1>9. CASE RenameK3os
  <2>1. dirty' \in SUBSET {"k3os", "kernel"}
    BY <1>9, <1>c DEF RenameK3os
  <2> QED
    BY <1>9, <2>1 DEF RenameK3os
<1>10. CASE LinkK3os
  BY <1>10 DEF LinkK3os
<1>11. CASE RelinkK3os
  BY <1>11 DEF RelinkK3os
<1>12. CASE StartKernelCopy
  BY <1>12 DEF StartKernelCopy
<1>13. CASE FinishKernelCopy
  <2>1. dirty' \in SUBSET {"k3os", "kernel"}
    BY <1>13, <1>c DEF FinishKernelCopy
  <2> QED
    BY <1>13, <2>1 DEF FinishKernelCopy
<1>14. CASE SetupInit
  BY <1>14 DEF SetupInit, SbinDangles
<1>15. CASE SetupK3s
  BY <1>15 DEF SetupK3s
<1>16. CASE MarkReset
  BY <1>16, <1>a DEF MarkReset
<1>17. CASE UnlinkSbin
  BY <1>17 DEF UnlinkSbin
<1>18. CASE SweepRoot
  BY <1>18, <1>b DEF SweepRoot, Sweep
<1>19. CASE SweepSbin
  BY <1>19, <1>b DEF SweepSbin, Sweep
<1>20. CASE SweepBoot
  BY <1>20, <1>b DEF SweepBoot, Sweep
<1>21. CASE RemoveTakeover
  BY <1>21 DEF RemoveTakeover
<1>22. CASE EraseTakenOver
  <2>1. dirty' \in SUBSET {"k3os", "kernel"}
    BY <1>22, Zenon DEF EraseTakenOver
  <2> QED
    BY <1>22, <1>b, <2>1 DEF EraseTakenOver, EraseThen
<1>23. CASE ChooseHalt
  BY <1>23 DEF ChooseHalt
<1>24. CASE PowerOffOrReboot
  <2>1. dirty' \in SUBSET {"k3os", "kernel"}
    BY <1>24 DEF PowerOffOrReboot
  <2> QED
    BY <1>24, <2>1 DEF PowerOffOrReboot
<1>25. CASE CleanupData
  <2>1. CASE Skip("pivot")
    BY <2>1 DEF Skip
  <2>2. CASE EraseThen("unreset") /\ UNCHANGED dirty
    BY <2>2, <1>b DEF EraseThen
  <2> QED
    BY <1>25, <2>1, <2>2 DEF CleanupData
<1>26. CASE RemoveReset
  BY <1>26 DEF RemoveReset
<1>27. CASE PivotRoot
  BY <1>27 DEF PivotRoot
<1>28. CASE ExecInit
  BY <1>28 DEF ExecInit, AfterFailedExec
<1>29. CASE PowerOn
  BY <1>29, <1>b, ConditionFacts DEF PowerOn, Resets
<1>30. CASE UserWrites
  BY <1>30 DEF UserWrites
<1>31. CASE UserRequestsReset
  BY <1>31, <1>a DEF UserRequestsReset
<1>32. CASE PowerCycle
  BY <1>32, <1>b DEF PowerCycle
<1>33. CASE UNCHANGED vars
  BY <1>33
<1> QED
  BY <1>1, <1>2, <1>3, <1>4, <1>5, <1>6, <1>7, <1>8, <1>9, <1>10, <1>11, <1>12, <1>13,
     <1>14, <1>15, <1>16, <1>17, <1>18, <1>19, <1>20, <1>21, <1>22, <1>23, <1>24, <1>25,
     <1>26, <1>27, <1>28, <1>29, <1>30, <1>31, <1>32, <1>33 DEF Next, Execute

\* SweepRoot, SweepSbin and SweepBoot each clear their place; only then does the
\* marker go.
LEMMA SweepStep ==
    ASSUME TypeOK, SweepInv, [Next]_vars
    PROVE  SweepInv'
<1> USE DEF Fault, Rescue, Then, vars, content, links, k3os, k3s, grow, history, ledger,
       SweepInv, EraseDone
<1>1. CASE MountState
  BY <1>1 DEF MountState
<1>2. CASE CheckGrowpart
  BY <1>2 DEF CheckGrowpart
<1>3. CASE GrowPartition
  BY <1>3 DEF GrowPartition, FailedGrow
<1>4. CASE ResizeFS
  BY <1>4 DEF ResizeFS
<1>5. CASE RemountState
  BY <1>5 DEF RemountState
<1>6. CASE RemoveGrowpart
  BY <1>6 DEF RemoveGrowpart
<1>7. CASE StartK3osCopy
  BY <1>7 DEF StartK3osCopy, K3osFound
<1>8. CASE FinishK3osCopy
  BY <1>8 DEF FinishK3osCopy
<1>9. CASE RenameK3os
  BY <1>9 DEF RenameK3os
<1>10. CASE LinkK3os
  BY <1>10 DEF LinkK3os
<1>11. CASE RelinkK3os
  BY <1>11 DEF RelinkK3os
<1>12. CASE StartKernelCopy
  BY <1>12 DEF StartKernelCopy
<1>13. CASE FinishKernelCopy
  BY <1>13 DEF FinishKernelCopy
<1>14. CASE SetupInit
  BY <1>14 DEF SetupInit, SbinDangles
<1>15. CASE SetupK3s
  BY <1>15 DEF SetupK3s
<1>16. CASE MarkReset
  BY <1>16 DEF MarkReset
<1>17. CASE UnlinkSbin
  BY <1>17 DEF UnlinkSbin
<1>18. CASE SweepRoot
  BY <1>18 DEF SweepRoot, Sweep
<1>19. CASE SweepSbin
  BY <1>19 DEF SweepSbin, Sweep
<1>20. CASE SweepBoot
  BY <1>20 DEF SweepBoot, Sweep
<1>21. CASE RemoveTakeover
  BY <1>21 DEF RemoveTakeover, TypeOK, Places
<1>22. CASE EraseTakenOver
  BY <1>22 DEF EraseTakenOver, EraseThen
<1>23. CASE ChooseHalt
  BY <1>23 DEF ChooseHalt
<1>24. CASE PowerOffOrReboot
  BY <1>24 DEF PowerOffOrReboot
<1>25. CASE CleanupData
  BY <1>25 DEF CleanupData, EraseThen, Skip
<1>26. CASE RemoveReset
  BY <1>26 DEF RemoveReset
<1>27. CASE PivotRoot
  BY <1>27 DEF PivotRoot
<1>28. CASE ExecInit
  BY <1>28 DEF ExecInit, AfterFailedExec
<1>29. CASE PowerOn
  BY <1>29 DEF PowerOn, Resets
<1>30. CASE UserWrites
  BY <1>30 DEF UserWrites
<1>31. CASE UserRequestsReset
  BY <1>31 DEF UserRequestsReset
<1>32. CASE PowerCycle
  BY <1>32 DEF PowerCycle
<1>33. CASE UNCHANGED vars
  BY <1>33
<1> QED
  BY <1>1, <1>2, <1>3, <1>4, <1>5, <1>6, <1>7, <1>8, <1>9, <1>10, <1>11, <1>12, <1>13,
     <1>14, <1>15, <1>16, <1>17, <1>18, <1>19, <1>20, <1>21, <1>22, <1>23, <1>24, <1>25,
     <1>26, <1>27, <1>28, <1>29, <1>30, <1>31, <1>32, <1>33 DEF Next, Execute

\* Until owed data is erased some marker remembers it.
LEMMA ResetStep ==
    ASSUME TypeOK, ResetInv, [Next]_vars
    PROVE  ResetInv'
<1> USE DEF Fault, Rescue, Then, vars, content, links, k3os, k3s, grow, history, ledger, ResetInv,
        EraseDone, TakingOver, Resets
<1>1. CASE MountState
  BY <1>1 DEF MountState
<1>2. CASE CheckGrowpart
  BY <1>2 DEF CheckGrowpart
<1>3. CASE GrowPartition
  BY <1>3 DEF GrowPartition, FailedGrow
<1>4. CASE ResizeFS
  BY <1>4 DEF ResizeFS
<1>5. CASE RemountState
  BY <1>5 DEF RemountState
<1>6. CASE RemoveGrowpart
  BY <1>6 DEF RemoveGrowpart
<1>7. CASE StartK3osCopy
  BY <1>7 DEF StartK3osCopy, K3osFound
<1>8. CASE FinishK3osCopy
  BY <1>8 DEF FinishK3osCopy
<1>9. CASE RenameK3os
  BY <1>9 DEF RenameK3os
<1>10. CASE LinkK3os
  BY <1>10 DEF LinkK3os
<1>11. CASE RelinkK3os
  BY <1>11 DEF RelinkK3os
<1>12. CASE StartKernelCopy
  BY <1>12 DEF StartKernelCopy
<1>13. CASE FinishKernelCopy
  BY <1>13 DEF FinishKernelCopy
<1>14. CASE SetupInit
  BY <1>14 DEF SetupInit, SbinDangles
<1>15. CASE SetupK3s
  BY <1>15 DEF SetupK3s
<1>16. CASE MarkReset
  BY <1>16 DEF MarkReset
<1>17. CASE UnlinkSbin
  BY <1>17 DEF UnlinkSbin
<1>18. CASE SweepRoot
  BY <1>18 DEF SweepRoot, Sweep
<1>19. CASE SweepSbin
  BY <1>19 DEF SweepSbin, Sweep
<1>20. CASE SweepBoot
  BY <1>20 DEF SweepBoot, Sweep
<1>21. CASE RemoveTakeover
  BY <1>21 DEF RemoveTakeover
<1>22. CASE EraseTakenOver
  BY <1>22 DEF EraseTakenOver, EraseThen
<1>23. CASE ChooseHalt
  BY <1>23 DEF ChooseHalt
<1>24. CASE PowerOffOrReboot
  BY <1>24 DEF PowerOffOrReboot
<1>25. CASE CleanupData
  BY <1>25 DEF CleanupData, EraseThen, Skip
<1>26. CASE RemoveReset
  BY <1>26 DEF RemoveReset
<1>27. CASE PivotRoot
  BY <1>27 DEF PivotRoot
<1>28. CASE ExecInit
  BY <1>28 DEF ExecInit, AfterFailedExec
<1>29. CASE PowerOn
  BY <1>29 DEF PowerOn, Resets
<1>30. CASE UserWrites
  BY <1>30 DEF UserWrites
<1>31. CASE UserRequestsReset
  BY <1>31 DEF UserRequestsReset
<1>32. CASE PowerCycle
  BY <1>32 DEF PowerCycle
<1>33. CASE UNCHANGED vars
  BY <1>33
<1> QED
  BY <1>1, <1>2, <1>3, <1>4, <1>5, <1>6, <1>7, <1>8, <1>9, <1>10, <1>11, <1>12, <1>13,
     <1>14, <1>15, <1>16, <1>17, <1>18, <1>19, <1>20, <1>21, <1>22, <1>23, <1>24, <1>25,
     <1>26, <1>27, <1>28, <1>29, <1>30, <1>31, <1>32, <1>33 DEF Next, Execute

\* The binary is renamed to its final name only when it is complete.
LEMMA K3osStep ==
    ASSUME TypeOK, K3osInv, [Next]_vars
    PROVE  K3osInv'
<1> USE DEF Fault, Rescue, Then, vars, content, links, k3os, k3s, grow, history, ledger,
       K3osInv, AfterK3os, Copying
<1>1. CASE MountState
  BY <1>1 DEF MountState
<1>2. CASE CheckGrowpart
  BY <1>2 DEF CheckGrowpart
<1>3. CASE GrowPartition
  BY <1>3 DEF GrowPartition, FailedGrow
<1>4. CASE ResizeFS
  BY <1>4 DEF ResizeFS
<1>5. CASE RemountState
  BY <1>5 DEF RemountState
<1>6. CASE RemoveGrowpart
  BY <1>6 DEF RemoveGrowpart
<1>7. CASE StartK3osCopy
  BY <1>7 DEF StartK3osCopy, K3osFound
<1>8. CASE FinishK3osCopy
  BY <1>8 DEF FinishK3osCopy
<1>9. CASE RenameK3os
  BY <1>9 DEF RenameK3os
<1>10. CASE LinkK3os
  BY <1>10 DEF LinkK3os
<1>11. CASE RelinkK3os
  BY <1>11 DEF RelinkK3os
<1>12. CASE StartKernelCopy
  BY <1>12 DEF StartKernelCopy
<1>13. CASE FinishKernelCopy
  BY <1>13 DEF FinishKernelCopy
<1>14. CASE SetupInit
  BY <1>14 DEF SetupInit, SbinDangles
<1>15. CASE SetupK3s
  BY <1>15 DEF SetupK3s
<1>16. CASE MarkReset
  BY <1>16 DEF MarkReset
<1>17. CASE UnlinkSbin
  BY <1>17 DEF UnlinkSbin
<1>18. CASE SweepRoot
  BY <1>18 DEF SweepRoot, Sweep
<1>19. CASE SweepSbin
  BY <1>19 DEF SweepSbin, Sweep
<1>20. CASE SweepBoot
  BY <1>20 DEF SweepBoot, Sweep
<1>21. CASE RemoveTakeover
  BY <1>21 DEF RemoveTakeover
<1>22. CASE EraseTakenOver
  BY <1>22 DEF EraseTakenOver, EraseThen
<1>23. CASE ChooseHalt
  BY <1>23 DEF ChooseHalt
<1>24. CASE PowerOffOrReboot
  BY <1>24 DEF PowerOffOrReboot
<1>25. CASE CleanupData
  BY <1>25 DEF CleanupData, EraseThen, Skip
<1>26. CASE RemoveReset
  BY <1>26 DEF RemoveReset
<1>27. CASE PivotRoot
  BY <1>27 DEF PivotRoot
<1>28. CASE ExecInit
  BY <1>28 DEF ExecInit, AfterFailedExec
<1>29. CASE PowerOn
  BY <1>29 DEF PowerOn, Resets
<1>30. CASE UserWrites
  BY <1>30 DEF UserWrites
<1>31. CASE UserRequestsReset
  BY <1>31 DEF UserRequestsReset
<1>32. CASE PowerCycle
  BY <1>32 DEF PowerCycle
<1>33. CASE UNCHANGED vars
  BY <1>33
<1> QED
  BY <1>1, <1>2, <1>3, <1>4, <1>5, <1>6, <1>7, <1>8, <1>9, <1>10, <1>11, <1>12, <1>13,
     <1>14, <1>15, <1>16, <1>17, <1>18, <1>19, <1>20, <1>21, <1>22, <1>23, <1>24, <1>25,
     <1>26, <1>27, <1>28, <1>29, <1>30, <1>31, <1>32, <1>33 DEF Next, Execute

\* The target is mounted and has its init when the boot needs them.
LEMMA TargetStep ==
    ASSUME TypeOK, TargetInv, [Next]_vars
    PROVE  TargetInv'
<1> USE DEF Fault, Rescue, Then, vars, content, links, k3os, k3s, grow, history, ledger,
       TargetInv, Calls
<1>1. CASE MountState
  BY <1>1 DEF MountState
<1>2. CASE CheckGrowpart
  BY <1>2 DEF CheckGrowpart
<1>3. CASE GrowPartition
  BY <1>3 DEF GrowPartition, FailedGrow
<1>4. CASE ResizeFS
  BY <1>4 DEF ResizeFS
<1>5. CASE RemountState
  BY <1>5 DEF RemountState
<1>6. CASE RemoveGrowpart
  BY <1>6 DEF RemoveGrowpart
<1>7. CASE StartK3osCopy
  BY <1>7 DEF StartK3osCopy, K3osFound
<1>8. CASE FinishK3osCopy
  BY <1>8 DEF FinishK3osCopy
<1>9. CASE RenameK3os
  BY <1>9 DEF RenameK3os
<1>10. CASE LinkK3os
  BY <1>10 DEF LinkK3os
<1>11. CASE RelinkK3os
  BY <1>11 DEF RelinkK3os
<1>12. CASE StartKernelCopy
  BY <1>12 DEF StartKernelCopy
<1>13. CASE FinishKernelCopy
  BY <1>13 DEF FinishKernelCopy
<1>14. CASE SetupInit
  BY <1>14 DEF SetupInit, SbinDangles, TypeOK
<1>15. CASE SetupK3s
  BY <1>15 DEF SetupK3s
<1>16. CASE MarkReset
  BY <1>16 DEF MarkReset
<1>17. CASE UnlinkSbin
  BY <1>17 DEF UnlinkSbin
<1>18. CASE SweepRoot
  BY <1>18 DEF SweepRoot, Sweep
<1>19. CASE SweepSbin
  BY <1>19 DEF SweepSbin, Sweep
<1>20. CASE SweepBoot
  BY <1>20 DEF SweepBoot, Sweep
<1>21. CASE RemoveTakeover
  BY <1>21 DEF RemoveTakeover
<1>22. CASE EraseTakenOver
  BY <1>22 DEF EraseTakenOver, EraseThen
<1>23. CASE ChooseHalt
  BY <1>23 DEF ChooseHalt
<1>24. CASE PowerOffOrReboot
  BY <1>24 DEF PowerOffOrReboot
<1>25. CASE CleanupData
  BY <1>25 DEF CleanupData, EraseThen, Skip
<1>26. CASE RemoveReset
  BY <1>26 DEF RemoveReset
<1>27. CASE PivotRoot
  BY <1>27 DEF PivotRoot
<1>28. CASE ExecInit
  BY <1>28 DEF ExecInit, AfterFailedExec
<1>29. CASE PowerOn
  BY <1>29 DEF PowerOn, Resets
<1>30. CASE UserWrites
  BY <1>30 DEF UserWrites
<1>31. CASE UserRequestsReset
  BY <1>31 DEF UserRequestsReset
<1>32. CASE PowerCycle
  BY <1>32 DEF PowerCycle
<1>33. CASE UNCHANGED vars
  BY <1>33
<1> QED
  BY <1>1, <1>2, <1>3, <1>4, <1>5, <1>6, <1>7, <1>8, <1>9, <1>10, <1>11, <1>12, <1>13,
     <1>14, <1>15, <1>16, <1>17, <1>18, <1>19, <1>20, <1>21, <1>22, <1>23, <1>24, <1>25,
     <1>26, <1>27, <1>28, <1>29, <1>30, <1>31, <1>32, <1>33 DEF Next, Execute
\* After GrowPartition and resize2fs the filesystem is big, or a failure is noted.
LEMMA GrowStep ==
    ASSUME TypeOK, GrowInv, [Next]_vars
    PROVE  GrowInv'
<1> USE DEF Fault, Rescue, Then, vars, content, links, k3os, k3s, grow, history, ledger, GrowInv
<1>1. CASE MountState
  BY <1>1 DEF MountState
<1>2. CASE CheckGrowpart
  BY <1>2 DEF CheckGrowpart
<1>3. CASE GrowPartition
  BY <1>3 DEF GrowPartition, FailedGrow
<1>4. CASE ResizeFS
  BY <1>4 DEF ResizeFS
<1>5. CASE RemountState
  BY <1>5 DEF RemountState
<1>6. CASE RemoveGrowpart
  BY <1>6 DEF RemoveGrowpart
<1>7. CASE StartK3osCopy
  BY <1>7 DEF StartK3osCopy, K3osFound
<1>8. CASE FinishK3osCopy
  BY <1>8 DEF FinishK3osCopy
<1>9. CASE RenameK3os
  BY <1>9 DEF RenameK3os
<1>10. CASE LinkK3os
  BY <1>10 DEF LinkK3os
<1>11. CASE RelinkK3os
  BY <1>11 DEF RelinkK3os
<1>12. CASE StartKernelCopy
  BY <1>12 DEF StartKernelCopy
<1>13. CASE FinishKernelCopy
  BY <1>13 DEF FinishKernelCopy
<1>14. CASE SetupInit
  BY <1>14 DEF SetupInit, SbinDangles
<1>15. CASE SetupK3s
  BY <1>15 DEF SetupK3s
<1>16. CASE MarkReset
  BY <1>16 DEF MarkReset
<1>17. CASE UnlinkSbin
  BY <1>17 DEF UnlinkSbin
<1>18. CASE SweepRoot
  BY <1>18 DEF SweepRoot, Sweep
<1>19. CASE SweepSbin
  BY <1>19 DEF SweepSbin, Sweep
<1>20. CASE SweepBoot
  BY <1>20 DEF SweepBoot, Sweep
<1>21. CASE RemoveTakeover
  BY <1>21 DEF RemoveTakeover
<1>22. CASE EraseTakenOver
  BY <1>22 DEF EraseTakenOver, EraseThen
<1>23. CASE ChooseHalt
  BY <1>23 DEF ChooseHalt
<1>24. CASE PowerOffOrReboot
  BY <1>24 DEF PowerOffOrReboot
<1>25. CASE CleanupData
  BY <1>25 DEF CleanupData, EraseThen, Skip
<1>26. CASE RemoveReset
  BY <1>26 DEF RemoveReset
<1>27. CASE PivotRoot
  BY <1>27 DEF PivotRoot
<1>28. CASE ExecInit
  BY <1>28 DEF ExecInit, AfterFailedExec
<1>29. CASE PowerOn
  BY <1>29 DEF PowerOn, Resets
<1>30. CASE UserWrites
  BY <1>30 DEF UserWrites
<1>31. CASE UserRequestsReset
  BY <1>31 DEF UserRequestsReset
<1>32. CASE PowerCycle
  BY <1>32 DEF PowerCycle
<1>33. CASE UNCHANGED vars
  BY <1>33
<1> QED
  BY <1>1, <1>2, <1>3, <1>4, <1>5, <1>6, <1>7, <1>8, <1>9, <1>10, <1>11, <1>12, <1>13,
     <1>14, <1>15, <1>16, <1>17, <1>18, <1>19, <1>20, <1>21, <1>22, <1>23, <1>24, <1>25,
     <1>26, <1>27, <1>28, <1>29, <1>30, <1>31, <1>32, <1>33 DEF Next, Execute

\* An init behind the link sbin goes with what the link leads to.
LEMMA BrokenStep ==
    ASSUME TypeOK, BrokenInv, [Next]_vars
    PROVE  BrokenInv'
<1> USE DEF Fault, Rescue, Then, vars, content, links, k3os, k3s, grow, history, ledger,
        BrokenInv, Copying, SbinDangles, Slipped
<1>1. CASE MountState
  BY <1>1 DEF MountState
<1>2. CASE CheckGrowpart
  BY <1>2 DEF CheckGrowpart
<1>3. CASE GrowPartition
  BY <1>3 DEF GrowPartition, FailedGrow
<1>4. CASE ResizeFS
  BY <1>4 DEF ResizeFS
<1>5. CASE RemountState
  BY <1>5 DEF RemountState
<1>6. CASE RemoveGrowpart
  BY <1>6 DEF RemoveGrowpart
<1>7. CASE StartK3osCopy
  BY <1>7 DEF StartK3osCopy, K3osFound
<1>8. CASE FinishK3osCopy
  BY <1>8 DEF FinishK3osCopy
<1>9. CASE RenameK3os
  BY <1>9 DEF RenameK3os
<1>10. CASE LinkK3os
  BY <1>10, Counts DEF LinkK3os
<1>11. CASE RelinkK3os
  BY <1>11 DEF RelinkK3os
<1>12. CASE StartKernelCopy
  BY <1>12 DEF StartKernelCopy
<1>13. CASE FinishKernelCopy
  BY <1>13 DEF FinishKernelCopy
<1>14. CASE SetupInit
  BY <1>14 DEF SetupInit, SbinDangles
<1>15. CASE SetupK3s
  BY <1>15 DEF SetupK3s
<1>16. CASE MarkReset
  BY <1>16 DEF MarkReset
<1>17. CASE UnlinkSbin
  BY <1>17, Counts DEF UnlinkSbin
<1>18. CASE SweepRoot
  BY <1>18, Counts DEF SweepRoot, Sweep
<1>19. CASE SweepSbin
  BY <1>19, Counts DEF SweepSbin, Sweep
<1>20. CASE SweepBoot
  BY <1>20, Counts DEF SweepBoot, Sweep
<1>21. CASE RemoveTakeover
  BY <1>21 DEF RemoveTakeover
<1>22. CASE EraseTakenOver
  BY <1>22 DEF EraseTakenOver, EraseThen
<1>23. CASE ChooseHalt
  BY <1>23 DEF ChooseHalt
<1>24. CASE PowerOffOrReboot
  BY <1>24 DEF PowerOffOrReboot
<1>25. CASE CleanupData
  BY <1>25 DEF CleanupData, EraseThen, Skip
<1>26. CASE RemoveReset
  BY <1>26 DEF RemoveReset
<1>27. CASE PivotRoot
  BY <1>27 DEF PivotRoot
<1>28. CASE ExecInit
  BY <1>28 DEF ExecInit, AfterFailedExec
<1>29. CASE PowerOn
  BY <1>29 DEF PowerOn
<1>30. CASE UserWrites
  BY <1>30 DEF UserWrites
<1>31. CASE UserRequestsReset
  BY <1>31 DEF UserRequestsReset
<1>32. CASE PowerCycle
  BY <1>32 DEF PowerCycle
<1>33. CASE UNCHANGED vars
  BY <1>33
<1> QED
  BY <1>1, <1>2, <1>3, <1>4, <1>5, <1>6, <1>7, <1>8, <1>9, <1>10, <1>11, <1>12, <1>13,
     <1>14, <1>15, <1>16, <1>17, <1>18, <1>19, <1>20, <1>21, <1>22, <1>23, <1>24, <1>25,
     <1>26, <1>27, <1>28, <1>29, <1>30, <1>31, <1>32, <1>33 DEF Next, Execute

\* Markers and data only go.
LEMMA FoundStep ==
    ASSUME TypeOK, FoundInv, [Next]_vars
    PROVE  FoundInv'
<1> USE DEF Fault, Rescue, Then, vars, content, links, k3os, k3s, grow, history, ledger,
        FoundInv, Calls
<1>1. CASE MountState
  BY <1>1 DEF MountState
<1>2. CASE CheckGrowpart
  BY <1>2 DEF CheckGrowpart
<1>3. CASE GrowPartition
  BY <1>3 DEF GrowPartition, FailedGrow
<1>4. CASE ResizeFS
  BY <1>4 DEF ResizeFS
<1>5. CASE RemountState
  BY <1>5 DEF RemountState
<1>6. CASE RemoveGrowpart
  BY <1>6 DEF RemoveGrowpart
<1>7. CASE StartK3osCopy
  BY <1>7 DEF StartK3osCopy, K3osFound
<1>8. CASE FinishK3osCopy
  BY <1>8 DEF FinishK3osCopy
<1>9. CASE RenameK3os
  BY <1>9 DEF RenameK3os
<1>10. CASE LinkK3os
  BY <1>10 DEF LinkK3os
<1>11. CASE RelinkK3os
  BY <1>11 DEF RelinkK3os
<1>12. CASE StartKernelCopy
  BY <1>12 DEF StartKernelCopy
<1>13. CASE FinishKernelCopy
  BY <1>13 DEF FinishKernelCopy
<1>14. CASE SetupInit
  BY <1>14 DEF SetupInit, SbinDangles
<1>15. CASE SetupK3s
  BY <1>15 DEF SetupK3s
<1>16. CASE MarkReset
  BY <1>16 DEF MarkReset
<1>17. CASE UnlinkSbin
  BY <1>17 DEF UnlinkSbin
<1>18. CASE SweepRoot
  BY <1>18 DEF SweepRoot, Sweep
<1>19. CASE SweepSbin
  BY <1>19 DEF SweepSbin, Sweep
<1>20. CASE SweepBoot
  BY <1>20 DEF SweepBoot, Sweep
<1>21. CASE RemoveTakeover
  BY <1>21 DEF RemoveTakeover
<1>22. CASE EraseTakenOver
  BY <1>22 DEF EraseTakenOver, EraseThen
<1>23. CASE ChooseHalt
  BY <1>23 DEF ChooseHalt
<1>24. CASE PowerOffOrReboot
  BY <1>24 DEF PowerOffOrReboot
<1>25. CASE CleanupData
  BY <1>25 DEF CleanupData, EraseThen, Skip
<1>26. CASE RemoveReset
  BY <1>26 DEF RemoveReset
<1>27. CASE PivotRoot
  BY <1>27 DEF PivotRoot
<1>28. CASE ExecInit
  BY <1>28 DEF ExecInit, AfterFailedExec
<1>29. CASE PowerOn
  BY <1>29, ConditionFacts DEF PowerOn, Resets
<1>30. CASE UserWrites
  BY <1>30 DEF UserWrites
<1>31. CASE UserRequestsReset
  BY <1>31 DEF UserRequestsReset
<1>32. CASE PowerCycle
  BY <1>32 DEF PowerCycle
<1>33. CASE UNCHANGED vars
  BY <1>33
<1> QED
  BY <1>1, <1>2, <1>3, <1>4, <1>5, <1>6, <1>7, <1>8, <1>9, <1>10, <1>11, <1>12, <1>13,
     <1>14, <1>15, <1>16, <1>17, <1>18, <1>19, <1>20, <1>21, <1>22, <1>23, <1>24, <1>25,
     <1>26, <1>27, <1>28, <1>29, <1>30, <1>31, <1>32, <1>33 DEF Next, Execute

\* The kernel image is copied if it was not there.
LEMMA KernelStep ==
    ASSUME TypeOK, KernelInv, [Next]_vars
    PROVE  KernelInv'
<1> USE DEF Fault, Rescue, Then, vars, content, links, k3os, k3s, grow, history, ledger,
        KernelInv, UpToKernel, Calls
<1>1. CASE MountState
  BY <1>1 DEF MountState
<1>2. CASE CheckGrowpart
  BY <1>2 DEF CheckGrowpart
<1>3. CASE GrowPartition
  BY <1>3 DEF GrowPartition, FailedGrow
<1>4. CASE ResizeFS
  BY <1>4 DEF ResizeFS
<1>5. CASE RemountState
  BY <1>5 DEF RemountState
<1>6. CASE RemoveGrowpart
  BY <1>6 DEF RemoveGrowpart
<1>7. CASE StartK3osCopy
  BY <1>7 DEF StartK3osCopy, K3osFound
<1>8. CASE FinishK3osCopy
  BY <1>8 DEF FinishK3osCopy
<1>9. CASE RenameK3os
  BY <1>9 DEF RenameK3os
<1>10. CASE LinkK3os
  BY <1>10 DEF LinkK3os
<1>11. CASE RelinkK3os
  BY <1>11 DEF RelinkK3os
<1>12. CASE StartKernelCopy
  BY <1>12 DEF StartKernelCopy
<1>13. CASE FinishKernelCopy
  BY <1>13 DEF FinishKernelCopy
<1>14. CASE SetupInit
  BY <1>14 DEF SetupInit, SbinDangles
<1>15. CASE SetupK3s
  BY <1>15 DEF SetupK3s
<1>16. CASE MarkReset
  BY <1>16 DEF MarkReset
<1>17. CASE UnlinkSbin
  BY <1>17 DEF UnlinkSbin
<1>18. CASE SweepRoot
  BY <1>18 DEF SweepRoot, Sweep
<1>19. CASE SweepSbin
  BY <1>19 DEF SweepSbin, Sweep
<1>20. CASE SweepBoot
  BY <1>20 DEF SweepBoot, Sweep
<1>21. CASE RemoveTakeover
  BY <1>21 DEF RemoveTakeover
<1>22. CASE EraseTakenOver
  BY <1>22 DEF EraseTakenOver, EraseThen
<1>23. CASE ChooseHalt
  BY <1>23 DEF ChooseHalt
<1>24. CASE PowerOffOrReboot
  BY <1>24 DEF PowerOffOrReboot
<1>25. CASE CleanupData
  BY <1>25 DEF CleanupData, EraseThen, Skip
<1>26. CASE RemoveReset
  BY <1>26 DEF RemoveReset
<1>27. CASE PivotRoot
  BY <1>27 DEF PivotRoot
<1>28. CASE ExecInit
  BY <1>28 DEF ExecInit, AfterFailedExec
<1>29. CASE PowerOn
  BY <1>29, ConditionFacts DEF PowerOn, Resets
<1>30. CASE UserWrites
  BY <1>30 DEF UserWrites
<1>31. CASE UserRequestsReset
  BY <1>31 DEF UserRequestsReset
<1>32. CASE PowerCycle
  BY <1>32 DEF PowerCycle
<1>33. CASE UNCHANGED vars
  BY <1>33
<1> QED
  BY <1>1, <1>2, <1>3, <1>4, <1>5, <1>6, <1>7, <1>8, <1>9, <1>10, <1>11, <1>12, <1>13,
     <1>14, <1>15, <1>16, <1>17, <1>18, <1>19, <1>20, <1>21, <1>22, <1>23, <1>24, <1>25,
     <1>26, <1>27, <1>28, <1>29, <1>30, <1>31, <1>32, <1>33 DEF Next, Execute

\* The copy of the kernel image is dirty until a sync.
LEMMA DirtyStep ==
    ASSUME TypeOK, KernelInv, DirtyInv, [Next]_vars
    PROVE  DirtyInv'
<1> USE DEF Fault, Rescue, Then, vars, content, links, k3os, k3s, grow, history, ledger,
        DirtyInv
<1>1. CASE MountState
  BY <1>1 DEF MountState
<1>2. CASE CheckGrowpart
  BY <1>2 DEF CheckGrowpart
<1>3. CASE GrowPartition
  BY <1>3 DEF GrowPartition, FailedGrow
<1>4. CASE ResizeFS
  BY <1>4 DEF ResizeFS
<1>5. CASE RemountState
  BY <1>5 DEF RemountState
<1>6. CASE RemoveGrowpart
  BY <1>6 DEF RemoveGrowpart
<1>7. CASE StartK3osCopy
  BY <1>7 DEF StartK3osCopy, K3osFound
<1>8. CASE FinishK3osCopy
  BY <1>8 DEF FinishK3osCopy
<1>9. CASE RenameK3os
  BY <1>9 DEF RenameK3os
<1>10. CASE LinkK3os
  BY <1>10 DEF LinkK3os
<1>11. CASE RelinkK3os
  BY <1>11 DEF RelinkK3os
<1>12. CASE StartKernelCopy
  BY <1>12 DEF StartKernelCopy
<1>13. CASE FinishKernelCopy
  BY <1>13 DEF FinishKernelCopy, KernelInv, Calls
<1>14. CASE SetupInit
  BY <1>14 DEF SetupInit, SbinDangles
<1>15. CASE SetupK3s
  BY <1>15 DEF SetupK3s
<1>16. CASE MarkReset
  BY <1>16 DEF MarkReset
<1>17. CASE UnlinkSbin
  BY <1>17 DEF UnlinkSbin
<1>18. CASE SweepRoot
  BY <1>18 DEF SweepRoot, Sweep
<1>19. CASE SweepSbin
  BY <1>19 DEF SweepSbin, Sweep
<1>20. CASE SweepBoot
  BY <1>20 DEF SweepBoot, Sweep
<1>21. CASE RemoveTakeover
  BY <1>21 DEF RemoveTakeover
<1>22. CASE EraseTakenOver
  BY <1>22 DEF EraseTakenOver, EraseThen
<1>23. CASE ChooseHalt
  BY <1>23 DEF ChooseHalt
<1>24. CASE PowerOffOrReboot
  BY <1>24 DEF PowerOffOrReboot
<1>25. CASE CleanupData
  BY <1>25 DEF CleanupData, EraseThen, Skip
<1>26. CASE RemoveReset
  BY <1>26 DEF RemoveReset
<1>27. CASE PivotRoot
  BY <1>27 DEF PivotRoot
<1>28. CASE ExecInit
  BY <1>28 DEF ExecInit, AfterFailedExec
<1>29. CASE PowerOn
  BY <1>29, ConditionFacts DEF PowerOn, Resets
<1>30. CASE UserWrites
  BY <1>30 DEF UserWrites
<1>31. CASE UserRequestsReset
  BY <1>31 DEF UserRequestsReset
<1>32. CASE PowerCycle
  BY <1>32 DEF PowerCycle
<1>33. CASE UNCHANGED vars
  BY <1>33
<1> QED
  BY <1>1, <1>2, <1>3, <1>4, <1>5, <1>6, <1>7, <1>8, <1>9, <1>10, <1>11, <1>12, <1>13,
     <1>14, <1>15, <1>16, <1>17, <1>18, <1>19, <1>20, <1>21, <1>22, <1>23, <1>24, <1>25,
     <1>26, <1>27, <1>28, <1>29, <1>30, <1>31, <1>32, <1>33 DEF Next, Execute

\* Takeover takes its marker away, then the data.
LEMMA MarkerStep ==
    ASSUME TypeOK, FoundInv, MarkerInv, [Next]_vars
    PROVE  MarkerInv'
<1> USE DEF Fault, Rescue, Then, vars, content, links, k3os, k3s, grow, history, ledger,
        MarkerInv, TakingOver, Calls, Slipped
<1>1. CASE MountState
  BY <1>1 DEF MountState
<1>2. CASE CheckGrowpart
  BY <1>2 DEF CheckGrowpart
<1>3. CASE GrowPartition
  BY <1>3 DEF GrowPartition, FailedGrow
<1>4. CASE ResizeFS
  BY <1>4 DEF ResizeFS
<1>5. CASE RemountState
  BY <1>5 DEF RemountState
<1>6. CASE RemoveGrowpart
  BY <1>6 DEF RemoveGrowpart
<1>7. CASE StartK3osCopy
  BY <1>7 DEF StartK3osCopy, K3osFound
<1>8. CASE FinishK3osCopy
  BY <1>8 DEF FinishK3osCopy
<1>9. CASE RenameK3os
  BY <1>9 DEF RenameK3os
<1>10. CASE LinkK3os
  BY <1>10 DEF LinkK3os
<1>11. CASE RelinkK3os
  BY <1>11 DEF RelinkK3os
<1>12. CASE StartKernelCopy
  BY <1>12 DEF StartKernelCopy
<1>13. CASE FinishKernelCopy
  BY <1>13 DEF FinishKernelCopy
<1>14. CASE SetupInit
  BY <1>14 DEF SetupInit, SbinDangles
<1>15. CASE SetupK3s
  BY <1>15 DEF SetupK3s
<1>16. CASE MarkReset
  BY <1>16, Counts DEF MarkReset, FoundInv
<1>17. CASE UnlinkSbin
  BY <1>17 DEF UnlinkSbin
<1>18. CASE SweepRoot
  BY <1>18 DEF SweepRoot, Sweep
<1>19. CASE SweepSbin
  BY <1>19 DEF SweepSbin, Sweep
<1>20. CASE SweepBoot
  BY <1>20 DEF SweepBoot, Sweep
<1>21. CASE RemoveTakeover
  BY <1>21, Counts DEF RemoveTakeover, FoundInv
<1>22. CASE EraseTakenOver
  BY <1>22, Counts DEF EraseTakenOver, FoundInv, EraseThen
<1>23. CASE ChooseHalt
  BY <1>23, Counts DEF ChooseHalt, FoundInv
<1>24. CASE PowerOffOrReboot
  BY <1>24 DEF PowerOffOrReboot
<1>25. CASE CleanupData
  BY <1>25 DEF CleanupData, EraseThen, Skip
<1>26. CASE RemoveReset
  BY <1>26 DEF RemoveReset
<1>27. CASE PivotRoot
  BY <1>27 DEF PivotRoot
<1>28. CASE ExecInit
  BY <1>28 DEF ExecInit, AfterFailedExec
<1>29. CASE PowerOn
  BY <1>29, ConditionFacts DEF PowerOn, Resets
<1>30. CASE UserWrites
  BY <1>30 DEF UserWrites
<1>31. CASE UserRequestsReset
  BY <1>31 DEF UserRequestsReset
<1>32. CASE PowerCycle
  BY <1>32 DEF PowerCycle
<1>33. CASE UNCHANGED vars
  BY <1>33
<1> QED
  BY <1>1, <1>2, <1>3, <1>4, <1>5, <1>6, <1>7, <1>8, <1>9, <1>10, <1>11, <1>12, <1>13,
     <1>14, <1>15, <1>16, <1>17, <1>18, <1>19, <1>20, <1>21, <1>22, <1>23, <1>24, <1>25,
     <1>26, <1>27, <1>28, <1>29, <1>30, <1>31, <1>32, <1>33 DEF Next, Execute

\* Only the sweep of a takeover breaks a disk, if the link sbin is still there.
LEMMA BreakStep ==
    ASSUME TypeOK, TargetInv, K3osInv,
           BrokenInv, MarkerInv, BreakInv, [Next]_vars
    PROVE  BreakInv'
<1> USE DEF Fault, Rescue, Then, vars, content, links, k3os, k3s, grow, history, ledger,
        BreakInv, Calls, Slipped, Broken, SbinDangles, K3osUsable
<1>1. CASE MountState
  BY <1>1, Counts DEF MountState
<1>2. CASE CheckGrowpart
  BY <1>2, Counts DEF CheckGrowpart
<1>3. CASE GrowPartition
  BY <1>3, Counts DEF GrowPartition, FailedGrow
<1>4. CASE ResizeFS
  BY <1>4, Counts DEF ResizeFS
<1>5. CASE RemountState
  BY <1>5, Counts DEF RemountState
<1>6. CASE RemoveGrowpart
  BY <1>6, Counts DEF RemoveGrowpart
<1>7. CASE StartK3osCopy
  BY <1>7, Counts DEF StartK3osCopy, K3osFound
<1>8. CASE FinishK3osCopy
  BY <1>8, Counts DEF FinishK3osCopy
<1>9. CASE RenameK3os
  BY <1>9, Counts DEF RenameK3os, BrokenInv, K3osInv, Copying
<1>10. CASE LinkK3os
  BY <1>10, Counts DEF LinkK3os, BrokenInv, K3osInv, Copying
<1>11. CASE RelinkK3os
  BY <1>11, Counts DEF RelinkK3os, BrokenInv, K3osInv, Copying
<1>12. CASE StartKernelCopy
  BY <1>12, Counts DEF StartKernelCopy
<1>13. CASE FinishKernelCopy
  BY <1>13, Counts DEF FinishKernelCopy
<1>14. CASE SetupInit
  BY <1>14, Counts DEF SetupInit
<1>15. CASE SetupK3s
  BY <1>15, Counts DEF SetupK3s
<1>16. CASE MarkReset
  BY <1>16, Counts DEF MarkReset
<1>17. CASE UnlinkSbin
  BY <1>17, Counts DEF UnlinkSbin, TargetInv, BrokenInv, MarkerInv, TakingOver
<1>18. CASE SweepRoot
  BY <1>18, Counts DEF SweepRoot, Sweep, BrokenInv, MarkerInv, TakingOver
<1>19. CASE SweepSbin
  BY <1>19, Counts DEF SweepSbin, Sweep
<1>20. CASE SweepBoot
  BY <1>20, Counts DEF SweepBoot, Sweep
<1>21. CASE RemoveTakeover
  BY <1>21, Counts DEF RemoveTakeover, BrokenInv, MarkerInv, TakingOver
<1>22. CASE EraseTakenOver
  BY <1>22, Counts DEF EraseTakenOver, EraseThen
<1>23. CASE ChooseHalt
  BY <1>23, Counts DEF ChooseHalt
<1>24. CASE PowerOffOrReboot
  BY <1>24, Counts DEF PowerOffOrReboot
<1>25. CASE CleanupData
  BY <1>25, Counts DEF CleanupData, EraseThen, Skip
<1>26. CASE RemoveReset
  BY <1>26, Counts DEF RemoveReset
<1>27. CASE PivotRoot
  BY <1>27, Counts DEF PivotRoot
<1>28. CASE ExecInit
  BY <1>28, Counts DEF ExecInit, AfterFailedExec
<1>29. CASE PowerOn
  BY <1>29, ConditionFacts, Counts DEF PowerOn
<1>30. CASE UserWrites
  BY <1>30, Counts DEF UserWrites
<1>31. CASE UserRequestsReset
  BY <1>31, Counts DEF UserRequestsReset
<1>32. CASE PowerCycle
  BY <1>32, Counts DEF PowerCycle
<1>33. CASE UNCHANGED vars
  BY <1>33
<1> QED
  BY <1>1, <1>2, <1>3, <1>4, <1>5, <1>6, <1>7, <1>8, <1>9, <1>10, <1>11, <1>12, <1>13,
     <1>14, <1>15, <1>16, <1>17, <1>18, <1>19, <1>20, <1>21, <1>22, <1>23, <1>24, <1>25,
     <1>26, <1>27, <1>28, <1>29, <1>30, <1>31, <1>32, <1>33 DEF Next, Execute

-----------------------------------------------------------------------------
(* The theorems.                                                           *)

IInv ==
    /\ TypeOK /\ SweepInv /\ ResetInv /\ K3osInv /\ TargetInv /\ GrowInv
    /\ BrokenInv /\ FoundInv /\ BreakInv /\ KernelInv /\ DirtyInv /\ MarkerInv

\* Whatever disk of Disks the first boot finds, the invariant holds there.
LEMMA InitIInv == Init => IInv
<1> SUFFICES ASSUME Init PROVE IInv
  OBVIOUS
<1>1. PICK d \in Disks :
        /\ base = d.base /\ markers = d.markers /\ data = d.data
        /\ foreign = d.foreign /\ sbin = d.sbin /\ init = d.init
        /\ k3osLink = d.k3osLink /\ kernel = d.kernel
        /\ k3sDirs = d.k3sDirs /\ k3sLink = d.k3sLink
  BY DEF Init
<1>2. d \in DiskRecords
  BY ConstantsAssumption
<1>3. TypeOK
  BY <1>1, <1>2, ConditionFacts DEF Init, TypeOK, DiskRecords
<1>4. /\ (foreign # {} => "takeover" \in markers) /\ ~SbinDangles
      /\ (init = "link" => sbin = "dir") /\ (init = "astray" => sbin = "link")
  BY <1>1, <1>2 DEF DiskRecords, SbinDangles
<1> QED
  BY <1>3, <1>4 DEF Init, IInv, SweepInv, ResetInv, K3osInv, TargetInv, GrowInv, BrokenInv,
       FoundInv, BreakInv, KernelInv, DirtyInv, MarkerInv, TakingOver, AfterK3os, Copying, Calls

\* Every step keeps the invariant.
LEMMA NextIInv == ASSUME IInv, [Next]_vars PROVE IInv'
BY TypeStep, SweepStep, ResetStep, K3osStep, TargetStep, GrowStep, BrokenStep, FoundStep,
   BreakStep, KernelStep, DirtyStep, MarkerStep DEF IInv

\* The invariant holds in every state of every boot.
THEOREM InductiveInvariant == Spec => []IInv
<1>1. Init => IInv
  BY InitIInv
<1>2. IInv /\ [Next]_vars => IInv'
  BY NextIInv
<1> QED
  BY <1>1, <1>2, PTL DEF Spec

\* Types: in particular k3s/current never names a directory that is not there.
THEOREM TypeCorrect == Spec => []TypeOK
<1>1. IInv => TypeOK
  BY DEF IInv
<1> QED
  BY <1>1, InductiveInvariant, PTL

\* Takeover: the marker stays until root, sbin and boot are swept, for every
\* interleaving of power cuts and failing calls.
THEOREM TakeoverNeverHalf == Spec => []TakeoverComplete
<1>1. IInv => TakeoverComplete
  BY DEF IInv, SweepInv, EraseDone, TakeoverComplete
<1> QED
  BY <1>1, InductiveInvariant, PTL

\* CleanupEphemeral and Takeover: data that a reset covers does not reach the
\* local pass.
THEOREM ResetNeverLost == Spec => []ResetBeforeLocal
<1>1. IInv => ResetBeforeLocal
  BY DEF IInv, ResetInv, EraseDone, ResetBeforeLocal
<1> QED
  BY <1>1, InductiveInvariant, PTL

\* SetupK3OS and SetupInit: what is executed after the pivot is complete and where it
\* should be, unless a power cut took its contents or a sweep failed unnoticed.
THEOREM PivotAlwaysReady == Spec => []PivotReady
<1>1. ASSUME IInv, pc = "exec", "k3os" \in base
      PROVE  /\ target = "mounted" /\ (K3osUsable \/ "torn" \in notes)
             /\ init = "link" \/ "eraseFailed" \in notes
  <2>1. target = "mounted" /\ (K3osUsable \/ "torn" \in notes)
    BY <1>1 DEF IInv, TypeOK, K3osInv, TargetInv, AfterK3os, Calls, K3osUsable
  <2>2. init = "astray" => "root" \in foreign /\ "takeover" \notin markers
    BY <1>1 DEF IInv, TargetInv, BrokenInv, SbinDangles, MarkerInv, FoundInv, Calls
  <2>3. init = "link" \/ "eraseFailed" \in notes
    BY <1>1, <2>2 DEF IInv, TypeOK, TargetInv, SweepInv, EraseDone
  <2> QED
    BY <2>1, <2>3
<1>2. IInv => PivotReady
  BY <1>1 DEF PivotReady
<1> QED
  BY <1>2, InductiveInvariant, PTL

\* Only RemoveGrowpart touches the marker, and GrowInv holds where it runs.
LEMMA OnlyGrownIsUnmarked == ASSUME IInv, [Next]_vars PROVE UnmarksGrown
<1> USE DEF vars, content, links, k3os, k3s, grow, history, ledger, UnmarksGrown
<1>1. CASE RemoveGrowpart
  BY <1>1 DEF RemoveGrowpart, IInv, GrowInv
<1>2. CASE MarkReset \/ RemoveTakeover \/ ChooseHalt \/ RemoveReset \/ UserRequestsReset
  BY <1>2 DEF MarkReset, RemoveTakeover, ChooseHalt, RemoveReset, UserRequestsReset
<1>3. CASE UNCHANGED markers
  BY <1>3
<1>4. CASE MountState \/ CheckGrowpart \/ GrowPartition \/ ResizeFS \/ RemountState
           \/ StartK3osCopy \/ FinishK3osCopy \/ RenameK3os \/ LinkK3os \/ RelinkK3os
  BY <1>3, <1>4 DEF MountState, CheckGrowpart, GrowPartition, FailedGrow, ResizeFS, RemountState,
       StartK3osCopy, FinishK3osCopy, RenameK3os, LinkK3os, RelinkK3os
<1>5. CASE StartKernelCopy \/ FinishKernelCopy \/ SetupInit \/ SetupK3s \/ UnlinkSbin
           \/ SweepRoot \/ SweepSbin \/ SweepBoot \/ PivotRoot \/ ExecInit
  BY <1>3, <1>5 DEF StartKernelCopy, FinishKernelCopy, SetupInit, SetupK3s, UnlinkSbin,
       SweepRoot, SweepSbin, SweepBoot, PivotRoot, ExecInit
<1>6. CASE EraseTakenOver \/ CleanupData \/ PowerOffOrReboot \/ PowerOn \/ UserWrites
           \/ PowerCycle \/ UNCHANGED vars
  BY <1>3, <1>6 DEF EraseTakenOver, EraseThen, CleanupData, Skip, PowerOffOrReboot, PowerOn,
       UserWrites, PowerCycle
<1> QED
  BY <1>1, <1>2, <1>4, <1>5, <1>6 DEF Next, Execute

\* SetupMounts: no power cut loses the request to grow the partition.
THEOREM GrowthNeverForgotten == Spec => GrowHonoured
<1>1. IInv /\ [Next]_vars => UnmarksGrown
  BY OnlyGrownIsUnmarked
<1> QED
  BY <1>1, InductiveInvariant, PTL DEF Spec, GrowHonoured

-----------------------------------------------------------------------------
(* Execute keeps its contract.                                             *)

\* A step that leaves these files alone changes nothing that the boot can tell.
LEMMA SameCondition ==
    ASSUME UNCHANGED <<markers, data, kernel, foreign, sbin, init, base, k3osLink, k3osFile>>
    PROVE  Condition' = Condition
BY DEF Condition, Broken, SbinDangles, K3osUsable

\* A step of Execute is one of many, or the last: then it leaves the disk alone, and
\* it is an error only if a call has failed or the disk is broken.
Last ==
    /\ UNCHANGED <<markers, data, kernel, foreign, sbin, init, base, k3osLink, k3osFile>>
    /\ \/ pc' \in {"rescue", "panic"} /\ (Slipped' \/ Broken)
       \/ pc = "exec" /\ pc' = "local" /\ Bootable
       \/ pc \in {"poweroff", "reboot"} /\ pc' \in {"halted", "off"}

\* The form of every step of Execute.
LEMMA ExecuteShape ==
    ASSUME IInv, Execute
    PROVE  /\ pc \in Calls
           /\ UNCHANGED <<found, since>> /\ faults' \in {faults, faults + 1}
           /\ pc' \in Calls \/ Last
<1> USE DEF Fault, Rescue, Then, content, links, k3os, k3s, grow, history, ledger, Calls, Last,
       Slipped
<1>0. TypeOK /\ faults \in Nat /\ since \in Nat /\ since <= faults
  BY Counts DEF IInv
<1>1. CASE MountState
  BY <1>0, <1>1 DEF MountState
<1>2. CASE CheckGrowpart
  BY <1>0, <1>2 DEF CheckGrowpart
<1>3. CASE GrowPartition
  BY <1>0, <1>3 DEF GrowPartition, FailedGrow
<1>4. CASE ResizeFS
  BY <1>0, <1>4 DEF ResizeFS
<1>5. CASE RemountState
  BY <1>0, <1>5 DEF RemountState
<1>6. CASE RemoveGrowpart
  BY <1>0, <1>6 DEF RemoveGrowpart
<1>7. CASE StartK3osCopy
  BY <1>0, <1>7 DEF StartK3osCopy, K3osFound
<1>8. CASE FinishK3osCopy
  BY <1>0, <1>8 DEF FinishK3osCopy
<1>9. CASE RenameK3os
  BY <1>0, <1>9 DEF RenameK3os
<1>10. CASE LinkK3os
  BY <1>0, <1>10 DEF LinkK3os
<1>11. CASE RelinkK3os
  BY <1>0, <1>11 DEF RelinkK3os, IInv, BrokenInv
<1>12. CASE StartKernelCopy
  BY <1>0, <1>12 DEF StartKernelCopy
<1>13. CASE FinishKernelCopy
  BY <1>0, <1>13 DEF FinishKernelCopy
<1>14. CASE SetupInit
  BY <1>0, <1>14 DEF SetupInit, SbinDangles, Broken
<1>15. CASE SetupK3s
  BY <1>0, <1>15 DEF SetupK3s
<1>16. CASE MarkReset
  BY <1>0, <1>16 DEF MarkReset
<1>17. CASE UnlinkSbin
  BY <1>0, <1>17 DEF UnlinkSbin
<1>18. CASE SweepRoot
  BY <1>0, <1>18 DEF SweepRoot, Sweep, IInv, BrokenInv, SbinDangles
<1>19. CASE SweepSbin
  BY <1>0, <1>19 DEF SweepSbin, Sweep
<1>20. CASE SweepBoot
  BY <1>0, <1>20 DEF SweepBoot, Sweep
<1>21. CASE RemoveTakeover
  BY <1>0, <1>21 DEF RemoveTakeover
<1>22. CASE EraseTakenOver
  BY <1>0, <1>22 DEF EraseTakenOver, EraseThen
<1>23. CASE ChooseHalt
  BY <1>0, <1>23 DEF ChooseHalt
<1>24. CASE PowerOffOrReboot
  BY <1>0, <1>24 DEF PowerOffOrReboot
<1>25. CASE CleanupData
  BY <1>0, <1>25 DEF CleanupData, EraseThen, Skip
<1>26. CASE RemoveReset
  BY <1>0, <1>26 DEF RemoveReset
<1>27. CASE PivotRoot
  BY <1>0, <1>27 DEF PivotRoot
<1>28. CASE ExecInit
  <2>1. pc = "exec" => (Bootable \/ Broken)
    <3>1. pc = "exec" => target = "mounted" /\ init # "none" /\ "takeover" \notin markers
      BY DEF IInv, TargetInv, FoundInv, MarkerInv
    <3>2. pc = "exec" => K3osUsable \/ "k3os" \notin base \/ k3osFile = "part"
      BY <1>0 DEF IInv, K3osInv, AfterK3os, K3osUsable, TypeOK
    <3>3. init = "link" \/ init = "none" \/ sbin = "link"
      BY <1>0 DEF IInv, TargetInv, TypeOK
    <3> QED
      BY <3>1, <3>2, <3>3 DEF Bootable, Broken
  <2> QED
    BY <1>0, <1>28, <2>1 DEF ExecInit, AfterFailedExec
<1> QED
  BY <1>1, <1>2, <1>3, <1>4, <1>5, <1>6, <1>7, <1>8, <1>9, <1>10, <1>11, <1>12, <1>13, <1>14,
     <1>15, <1>16, <1>17, <1>18, <1>19, <1>20, <1>21, <1>22, <1>23, <1>24, <1>25, <1>26,
     <1>27, <1>28 DEF Execute

\* What Execute has done to the disk is what the contract allows, ...
LEMMA ContractState ==
    ASSUME IInv, pc \in Calls
    PROVE  /\ found \ Condition \subseteq {"growpart", "takeover", "hostname"}
           /\ Condition \ found \subseteq {"kernel", "torn", "broken"}
           /\ Condition \cap {"kernel", "torn"} # found \cap {"kernel", "torn"} =>
                  found \cap {"kernel", "torn"} = {} /\ ~({"kernel", "torn"} \subseteq Condition)
           /\ "broken" \in Condition \ found => Slipped /\ "takeover" \in found
<1>1. found \subseteq Facts
  BY DEF IInv, TypeOK
<1>2. found \ Condition \subseteq {"growpart", "takeover", "hostname"}
  BY <1>1, ConditionFacts DEF IInv, KernelInv, BreakInv, Facts
<1>3. Condition \ found \subseteq {"kernel", "torn", "broken"}
  BY ConditionFacts DEF IInv, FoundInv, Facts
<1>4. Condition \cap {"kernel", "torn"} # found \cap {"kernel", "torn"} =>
          found \cap {"kernel", "torn"} = {} /\ ~({"kernel", "torn"} \subseteq Condition)
  BY ConditionFacts DEF IInv, KernelInv
<1>5. "broken" \in Condition \ found => Slipped /\ "takeover" \in found
  BY ConditionFacts DEF IInv, BreakInv
<1> QED
  BY <1>2, <1>3, <1>4, <1>5

\* ... after every step.
LEMMA NextContractState ==
    ASSUME IInv', pc' \in Calls
    PROVE  /\ found' \ Condition' \subseteq {"growpart", "takeover", "hostname"}
           /\ Condition' \ found' \subseteq {"kernel", "torn", "broken"}
           /\ Condition' \cap {"kernel", "torn"} # found' \cap {"kernel", "torn"} =>
                  found' \cap {"kernel", "torn"} = {} /\ ~({"kernel", "torn"} \subseteq Condition')
           /\ "broken" \in Condition' \ found' => Slipped' /\ "takeover" \in found'
<1>1. found' \subseteq Facts
  BY DEF IInv, TypeOK
<1>2. found' \ Condition' \subseteq {"growpart", "takeover", "hostname"}
  BY <1>1, NextConditionFacts DEF IInv, KernelInv, BreakInv, Facts
<1>3. Condition' \ found' \subseteq {"kernel", "torn", "broken"}
  BY NextConditionFacts DEF IInv, FoundInv, Facts
<1>4. Condition' \cap {"kernel", "torn"} # found' \cap {"kernel", "torn"} =>
          found' \cap {"kernel", "torn"} = {} /\ ~({"kernel", "torn"} \subseteq Condition')
  BY NextConditionFacts DEF IInv, KernelInv
<1>5. "broken" \in Condition' \ found' => Slipped' /\ "takeover" \in found'
  BY NextConditionFacts DEF IInv, BreakInv
<1> QED
  BY <1>2, <1>3, <1>4, <1>5

\* Where the contract sees the machine.
LEMMA ContractPlaces ==
    /\ {"off", "local", "rescue", "panic", "halted"} \cap Calls = {}
    /\ "exec" \in Calls /\ "poweroff" \in Calls /\ "reboot" \in Calls
BY DEF Calls

\* A step of Execute is Work or End of the contract.
LEMMA ExecuteStep ==
    ASSUME IInv, IInv', Execute
    PROVE  Contract!Next
<1>1. /\ pc \in Calls
      /\ UNCHANGED <<found, since>> /\ faults' \in {faults, faults + 1}
      /\ pc' \in Calls \/ Last
  BY ExecuteShape
<1>2. faults \in Nat /\ since \in Nat /\ since <= faults
  BY Counts DEF IInv
<1>3. (faults' > since') \in {faults > since, TRUE} /\ (Slipped => Slipped')
  <2>1. CASE faults' = faults
    BY <1>1, <2>1 DEF Slipped
  <2>2. CASE faults' = faults + 1
    <3>1. (faults' > since') = TRUE
      BY <1>1, <1>2, <2>2
    <3> QED
      BY <3>1 DEF Slipped
  <2> QED
    BY <1>1, <2>1, <2>2
<1>4. Contract!Call
  BY <1>1, <1>3 DEF Contract!Call
<1>5. CASE pc' \in Calls
  <2>1. /\ found \ Condition' \subseteq {"growpart", "takeover", "hostname"}
        /\ Condition' \ found \subseteq {"kernel", "torn", "broken"}
        /\ Condition' \cap {"kernel", "torn"} # found \cap {"kernel", "torn"} =>
               found \cap {"kernel", "torn"} = {} /\ ~({"kernel", "torn"} \subseteq Condition')
        /\ "broken" \in Condition' \ found => faults' > since' /\ "takeover" \in found
    BY <1>1, <1>5, NextContractState DEF Slipped
  <2>2. Contract!Leaves(found, Condition', faults' > since')
    BY <2>1 DEF Contract!Leaves, Contract!Kernels
  <2>3. Condition' \in SUBSET Contract!Facts
    BY NextConditionFacts DEF Contract!Facts, Facts
  <2>4. Contract!Work
    BY <1>1, <1>4, <1>5, <2>2, <2>3 DEF Contract!Work
  <2> QED
    BY <2>4 DEF Contract!Next
<1>6. CASE Last
  <2>1. Condition' = Condition
    BY <1>6, SameCondition DEF Last
  <2>2. /\ found \ Condition \subseteq {"growpart", "takeover", "hostname"}
        /\ Condition \ found \subseteq {"kernel", "torn", "broken"}
        /\ Condition \cap {"kernel", "torn"} # found \cap {"kernel", "torn"} =>
               found \cap {"kernel", "torn"} = {} /\ ~({"kernel", "torn"} \subseteq Condition)
        /\ "broken" \in Condition \ found => faults' > since' /\ "takeover" \in found
    BY <1>1, <1>3, ContractState DEF Slipped
  <2>3. Contract!Leaves(found, Condition, faults' > since')
    BY <2>2 DEF Contract!Leaves, Contract!Kernels
  <2>4. CASE pc' \in {"rescue", "panic"} /\ (Slipped' \/ Broken)
    <3>1. faults' > since' \/ "broken" \in found
      BY <1>1, <1>3, <2>4 DEF IInv, BreakInv, Slipped
    <3>2. Contract!Unfinished(found, Condition, faults' > since')
      BY <2>3, <3>1 DEF Contract!Unfinished
    <3>3. Contract!End
      BY <1>4, <2>1, <2>4, <3>2, ContractPlaces DEF Contract!End
    <3> QED
      BY <3>3 DEF Contract!Next
  <2>5. CASE pc = "exec" /\ pc' = "local" /\ Bootable
    <3>1. "torn" \in Condition => "torn" \in found
      BY <1>1, <2>5, ConditionFacts DEF IInv, KernelInv
    <3>2. "takeover" \notin found
      BY <2>5 DEF IInv, MarkerInv
    <3>3. "broken" \notin Condition
      BY <2>5, ConditionFacts DEF Broken, Bootable, IInv, TargetInv
    <3>4. Contract!Pivoted(found, Condition, faults' > since')
      BY <2>3, <3>1, <3>2, <3>3 DEF Contract!Pivoted, Contract!Copied
    <3>5. Contract!End
      BY <1>4, <2>1, <2>5, <3>4, ContractPlaces DEF Contract!End
    <3> QED
      BY <3>5 DEF Contract!Next
  <2>6. CASE pc \in {"poweroff", "reboot"} /\ pc' \in {"halted", "off"}
    <3>1. "torn" \in Condition => "torn" \in found
      BY <1>1, <2>6, ConditionFacts DEF IInv, KernelInv
    <3>2. "takeover" \in found
      BY <2>6 DEF IInv, MarkerInv, TakingOver
    <3>3. faults' > since' \/ {"takeover", "hostname"} \cap Condition = {}
      <4>1. Slipped \/ ("takeover" \notin markers /\ data = "none")
        BY <2>6 DEF IInv, MarkerInv
      <4> QED
        BY <1>3, <4>1, ConditionFacts DEF Slipped
    <3>4. Contract!TakenOver(found, Condition, faults' > since')
      BY <2>3, <3>1, <3>2, <3>3 DEF Contract!TakenOver, Contract!Copied
    <3>5. Contract!End
      BY <1>4, <2>1, <2>6, <3>4, ContractPlaces DEF Contract!End
    <3> QED
      BY <3>5 DEF Contract!Next
  <2> QED
    BY <1>6, <2>4, <2>5, <2>6 DEF Last
<1> QED
  BY <1>1, <1>5, <1>6

\* The contract's view of the first state.
LEMMA ContractInit == ASSUME Init PROVE Contract!Init
<1>1. ~(Contract!Kernels \subseteq Condition) /\ Condition \in SUBSET Contract!Facts
  BY ConditionFacts DEF Contract!Kernels, Contract!Facts, Facts
<1> QED
  BY <1>1, ContractPlaces DEF Init, Contract!Init

\* A power cut tears what this boot has copied, and nothing else.
LEMMA CutTears ==
    ASSUME IInv, PowerCycle
    PROVE  Condition' \in Tears(Unflushed(found), Condition)
<1> DEFINE Cut == (Condition \ {"kernel"}) \cup {"torn"}
           torn == {Condition} \cup
                       IF "kernel" \in Unflushed(found) \cap Condition THEN {Cut} ELSE {}
<1>1. UNCHANGED <<markers, data, foreign, sbin, base, k3osLink>>
  BY DEF PowerCycle, content
<1>2. /\ kernel' = kernel \/ (kernel = "full" /\ kernel' = "part" /\ "kernel" \notin found)
      /\ k3osFile' = k3osFile \/ k3osFile' = "part"
  BY DEF PowerCycle, IInv, DirtyInv
<1>3. Broken => Broken'
  BY <1>1, <1>2 DEF Broken, K3osUsable
<1>4. "k3os" \in Unflushed(found) /\ ("kernel" \notin found => "kernel" \in Unflushed(found))
  BY DEF Unflushed
<1>5. PICK e \in torn :
          \A f \in Facts : f # "broken" => (f \in Condition' <=> f \in e)
  <2>1. CASE kernel' = kernel
    <3>1. \A f \in Facts : f # "broken" => (f \in Condition' <=> f \in Condition)
      BY <1>1, <2>1, ConditionFacts, NextConditionFacts DEF Facts
    <3> QED
      BY <3>1
  <2>2. CASE kernel = "full" /\ kernel' = "part" /\ "kernel" \notin found
    <3>1. Cut \in torn
      BY <1>4, <2>2, ConditionFacts
    <3>2. \A f \in Facts : f # "broken" => (f \in Condition' <=> f \in Cut)
      BY <1>1, <2>2, ConditionFacts, NextConditionFacts DEF Facts
    <3> QED
      BY <3>1, <3>2
  <2> QED
    BY <1>2, <2>1, <2>2
<1>6. e \subseteq Facts /\ ("broken" \in e <=> Broken)
  BY ConditionFacts DEF Facts
<1>7. Condition' = e \/ Condition' = e \cup {"broken"}
  <2>1. CASE Broken' /\ ~Broken
    <3>1. ASSUME NEW f \in Facts PROVE f \in Condition' <=> f \in e \cup {"broken"}
      BY <1>5, <2>1, NextConditionFacts
    <3> QED
      BY <1>6, <3>1, NextConditionFacts DEF Facts
  <2>2. CASE Broken' <=> Broken
    <3>1. ASSUME NEW f \in Facts PROVE f \in Condition' <=> f \in e
      BY <1>5, <1>6, <2>2, NextConditionFacts
    <3> QED
      BY <1>6, <3>1, NextConditionFacts
  <2> QED
    BY <1>3, <2>1, <2>2
<1>8. Tears(Unflushed(found), Condition) = torn \cup {x \cup {"broken"} : x \in torn}
  BY <1>4 DEF Tears
<1> QED
  BY <1>7, <1>8

\* What happens around Execute is the contract's Begin, Use and Cut, or nothing.
LEMMA AroundStep ==
    ASSUME IInv, IInv', PowerOn \/ UserWrites \/ UserRequestsReset \/ PowerCycle
    PROVE  [Contract!Next]_(Contract!vars)
<1> USE DEF Then, content, links, k3os, history, ledger
<1>0. faults \in Nat /\ since \in Nat /\ since <= faults
  BY Counts DEF IInv
<1>1. CASE PowerOn
  <2>1. Condition' = Condition
    BY <1>1, SameCondition DEF PowerOn
  <2>2. pc = "off" /\ pc' \in Calls /\ found' = Condition /\ (faults' > since') = FALSE
    BY <1>0, <1>1 DEF PowerOn, Calls
  <2>3. Contract!Begin
    BY <2>1, <2>2, ContractPlaces DEF Contract!Begin
  <2> QED
    BY <2>3 DEF Contract!Next
<1>2. CASE UserWrites
  <2>1. pc = "local" /\ UNCHANGED <<pc, found, faults, since>>
    BY <1>2 DEF UserWrites
  <2>2. data' = "some" /\ UNCHANGED <<markers, kernel>> /\ Broken' = Broken
    BY <1>2 DEF UserWrites, Broken, SbinDangles, K3osUsable
  <2>3. Condition' = Condition \cup {"hostname"}
    BY <2>2, ConditionFacts, NextConditionFacts DEF Facts
  <2>4. Contract!Use
    BY <2>1, <2>3, ContractPlaces DEF Contract!Use
  <2> QED
    BY <2>4 DEF Contract!Next
<1>3. CASE UserRequestsReset
  <2>1. UNCHANGED <<pc, found, faults, since, data, kernel>> /\ Broken' = Broken
    BY <1>3 DEF UserRequestsReset, Broken, SbinDangles, K3osUsable
  <2>2. /\ "takeover" \in markers' <=> "takeover" \in markers
        /\ "growpart" \in markers' <=> "growpart" \in markers
    BY <1>3 DEF UserRequestsReset
  <2>3. ASSUME NEW f \in Facts PROVE f \in Condition' <=> f \in Condition
    BY <2>1, <2>2, ConditionFacts, NextConditionFacts DEF Facts
  <2>4. Condition' = Condition
    BY <2>3, ConditionFacts, NextConditionFacts
  <2> QED
    BY <2>1, <2>4 DEF Contract!vars
<1>4. CASE PowerCycle
  <2>1. pc # "off" /\ pc' = "off" /\ UNCHANGED <<found, faults, since>>
    BY <1>4 DEF PowerCycle
  <2>2. Condition' \in Tears(Unflushed(found), Condition)
    BY <1>4, CutTears
  <2>3. Contract!Cut
    BY <2>1, <2>2, ContractPlaces DEF Contract!Cut, Contract!Tears, Contract!Unflushed, Tears,
         Unflushed
  <2> QED
    BY <2>3 DEF Contract!Next
<1> QED
  BY <1>1, <1>2, <1>3, <1>4

\* DiskHandler.Execute, call by call, keeps the contract that the boot relies on, for
\* every disk, and every number of power cuts and of failing calls.
THEOREM ExecuteKeepsContract == Spec => KeepsContract
<1>1. Init => Contract!Init
  BY ContractInit
<1>2. IInv /\ IInv' /\ [Next]_vars => [Contract!Next]_(Contract!vars)
  <2>1. ASSUME IInv, IInv', UNCHANGED vars PROVE UNCHANGED Contract!vars
    <3>1. Condition' = Condition
      BY <2>1, SameCondition DEF vars, content, links, k3os
    <3> QED
      BY <2>1, <3>1 DEF vars, history, ledger, Contract!vars
  <2> QED
    BY <2>1, ExecuteStep, AroundStep DEF Next
<1> QED
  BY <1>1, <1>2, InductiveInvariant, PTL DEF Spec, KeepsContract, Contract!Spec
=============================================================================
