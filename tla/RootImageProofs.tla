---------------------------- MODULE RootImageProofs ----------------------------
(***************************************************************************)
(* Proofs about RootImage: the image that a mounted loop device serves, the *)
(* release of the devices and the reach of the goroutine, for any number   *)
(* of devices and of faults.                                               *)
(*                                                                         *)
(* The argument: a descriptor that is open keeps its device bound, whoever *)
(* asks for it to be cleared (HeldInv, KernelInv); the openers of a device *)
(* are known (OpenerInv), so that the last Detach does clear it (OwnInv).  *)
(***************************************************************************)
EXTENDS RootImage, ImageScanProofs

\* Before the root image's file is opened.
Early == {"ensure", "find", "scan", "stat"}

\* The program runs from the root image.
Entered == Inside /\ pc # "enter"

\* The device of the root image is attached and not yet detached.
Attached == pc = "exec" \/ Inside

\* Between the attachment of the kernel's image and its mount.
Kernel3 == {"kget", "kset", "kmount"}

\* The modules are there.
Late4 == {"up", "path", "pathclose", "done"}

\* Devices that the next call needs are there.
DevInv ==
    /\ pc \in Early => who = "root"
    /\ who = "root" /\ pc \in Early \cup {"open", "finddev"} => dev["root"] = NoDev
    /\ pc \in AttachPCs \ {"open", "finddev"} => dev[who] \in Devs
    /\ pc \in Kernel3 => who = "kernel" /\ dev["kernel"] \in Devs
    /\ pc \in {"cas", "clr", "close"} => dev["root"] \in Devs

\* What LOOP_SET_FD has bound, it has bound to its own file.
SetInv ==
    /\ pc \in {"setfd", "setstatus", "undo"} => <<dev[who], who>> \in open
    /\ pc \in {"setstatus", "undo"} => bound[dev[who]] = who

\* The descriptor of the root image's device keeps it bound.
HeldInv ==
    /\ Attached /\ dev["root"] # NoDev =>
          /\ <<dev["root"], "root">> \in open
          /\ bound[dev["root"]] = "root"
          /\ dev["root"] \in ready
          /\ gpc = "set" => seen = "root"
    /\ pc \in {"cas", "clr"} =>
          <<dev["root"], "root">> \in open /\ bound[dev["root"]] = "root"

\* The same of the kernel's image.
KernelInv ==
    pc \in Kernel3 \/ "kernel" \in mounted =>
        /\ dev["kernel"] \in Devs
        /\ <<dev["kernel"], "kernel">> \in open
        /\ bound[dev["kernel"]] = "kernel"
        /\ dev["kernel"] \in ready

\* Where something is mounted.
MountInv ==
    /\ mounted # {} => Entered
    /\ "root" \in mounted => dev["root"] # NoDev
    /\ "kernel" \in mounted => pc \in Late4

\* Who has a device open, and when.
OpenerInv ==
    /\ \A d \in Devs : <<d, "root">> \in open => d = dev["root"]
    /\ \A d \in Devs : <<d, "rootMount">> \in open => d = dev["root"] /\ Entered
    /\ \A d \in Devs : <<d, "kernel">> \in open =>
          d = dev["kernel"] /\ Entered /\ pc \notin {"boot", "open", "finddev", "opendev"}
    /\ \A d \in Devs : <<d, "kernelMount">> \in open => pc \in Late4
    /\ \A d \in Devs : <<d, "path">> \in open => d = Loop0 /\ pc \in {"path", "pathclose"}

\* Whose devices are bound, and when.
OwnInv ==
    /\ \A d \in Devs : bound[d] = "root" =>
          /\ d = dev["root"]
          /\ \/ leaked \/ Attached
             \/ pc \in {"cas", "clr", "dead"}
             \/ who = "root" /\ pc \in {"setstatus", "undo"}
    /\ \A d \in Devs : bound[d] = "kernel" =>
          \/ leaked
          \/ /\ Entered /\ d = dev["kernel"] /\ <<d, "kernel">> \in open
             /\ pc \notin {"setfd", "undoclose"}
    /\ closed => pc \in {"clr", "close", "returned", "exited"}

\* The goroutine lives after the attachment of the root image; until its
\* descriptor is closed the device is not somebody else's.
LateInv ==
    /\ gpc # "none" => pc \notin Early /\ ~(who = "root" /\ pc \in AttachPCs)
    /\ /\ <<dev["root"], "root">> \in open
       /\ pc # "close"
       /\ ~(who = "root" /\ pc \in {"setfd", "undoclose"})
       => bound[dev["root"]] = "root"

IInv ==
    /\ TypeOK /\ ScanInv
    /\ DevInv /\ SetInv /\ HeldInv /\ KernelInv /\ MountInv /\ OpenerInv /\ OwnInv /\ LateInv

\* The parts of the type invariant.
KernelTypes ==
    bound \in [Devs -> Owners] /\ auto \in SUBSET Devs /\ ready \in SUBSET Devs

OpenTypes == open \in SUBSET (Devs \X Openers)

ProgTypes ==
    /\ who \in Attachers
    /\ dev \in [Attachers -> Devs \cup {NoDev}]
    /\ mounted \in SUBSET Attachers

FlagTypes == isPid1 \in BOOLEAN /\ closed \in BOOLEAN /\ leaked \in BOOLEAN

PcTypes == pc \in PCs /\ gpc \in GPCs /\ seen \in Owners /\ faults \in Nat

-----------------------------------------------------------------------------
(* The kernel's calls.                                                     *)

\* What closing descriptors and mounts does: a device that somebody still has
\* open is left alone, one with autoclear that nobody has open is unbound.
LEMMA CloseFacts ==
    ASSUME TypeOK, NEW S, CloseAll(S)
    PROVE  /\ open' = open \ S
           /\ bound' \in [Devs -> Owners] /\ auto' \in SUBSET Devs /\ ready' \in SUBSET Devs
           /\ \A d \in Devs : bound'[d] = bound[d] \/ bound'[d] = "nobody"
           /\ \A d \in Devs : \A o \in Openers :
                 <<d, o>> \in open /\ <<d, o>> \notin S =>
                     bound'[d] = bound[d] /\ (d \in ready => d \in ready')
           /\ \A d \in auto : \A o \in Openers :
                 /\ <<d, o>> \in open /\ <<d, o>> \in S
                 /\ \A q \in Openers : <<d, q>> \in open => <<d, q>> \in S
                 => bound'[d] = "nobody"
  <1> DEFINE rest == open \ S
             gone == {d \in auto : HasOpener(d, S \cap open) /\ ~HasOpener(d, rest)}
  <1>1. /\ open' = rest
        /\ bound' = [d \in Devs |-> IF d \in gone THEN "nobody" ELSE bound[d]]
        /\ auto' = auto \ gone /\ ready' = ready \ gone
    BY DEF CloseAll
  <1>2. bound \in [Devs -> Owners] /\ auto \in SUBSET Devs /\ ready \in SUBSET Devs
    BY DEF TypeOK
  <1>3. \A d \in Devs : \A o \in Openers :
           <<d, o>> \in open /\ <<d, o>> \notin S => d \notin gone
    BY DEF HasOpener
  <1>4. ASSUME NEW d \in auto, NEW o \in Openers, <<d, o>> \in open, <<d, o>> \in S,
               \A q \in Openers : <<d, q>> \in open => <<d, q>> \in S
        PROVE  d \in gone
    <2>1. HasOpener(d, S \cap open)
      BY <1>4 DEF HasOpener
    <2>2. ~HasOpener(d, rest)
      BY <1>4 DEF HasOpener
    <2> QED BY <2>1, <2>2
  <1>5. "nobody" \in Owners
    BY DEF Owners
  <1> HIDE DEF gone
  <1>6. bound' \in [Devs -> Owners]
    BY <1>1, <1>2, <1>5
  <1>7. \A d \in Devs : bound'[d] = IF d \in gone THEN "nobody" ELSE bound[d]
    BY <1>1
  <1>8. \A d \in auto : d \in Devs
    BY <1>2
  <1>9. \A d \in Devs : d \in ready /\ d \notin gone => d \in ready'
    BY <1>1
  <1> QED BY <1>1, <1>2, <1>3, <1>4, <1>6, <1>7, <1>8, <1>9

\* One opener goes: the others keep what they have.
Drops(e, q) ==
    /\ open' \subseteq open
    /\ \A d \in Devs : bound'[d] = bound[d] \/ bound'[d] = "nobody"
    /\ \A d \in Devs : \A o \in Openers :
          <<d, o>> \in open /\ (d # e \/ o # q) =>
              <<d, o>> \in open' /\ bound'[d] = bound[d] /\ (d \in ready => d \in ready')
    /\ \A d \in Devs : \A o \in Openers :
          <<d, o>> \in open' => <<d, o>> \in open /\ (d # e \/ o # q)

\* Closing one descriptor or mount drops that opener and no other.
LEMMA CloseOne ==
    ASSUME TypeOK, NEW e, NEW q, CloseAll({<<e, q>>})
    PROVE  Drops(e, q)
  <1>1. \A d, o : <<d, o>> \in {<<e, q>>} <=> d = e /\ o = q
    OBVIOUS
  <1> QED BY <1>1, CloseFacts DEF Drops

\* A child goes, with all that it has open.
ChildDrops ==
    /\ open' \subseteq open
    /\ \A d \in Devs : bound'[d] = bound[d] \/ bound'[d] = "nobody"
    /\ \A d \in Devs : <<d, "root">> \in open =>
          <<d, "root">> \in open' /\ bound'[d] = bound[d] /\ (d \in ready => d \in ready')
    /\ \A d \in Devs : \A o \in Openers :
          <<d, o>> \in open' => <<d, o>> \in open /\ o = "root"
    /\ \A d \in auto : <<d, "kernel">> \in open /\ <<d, "root">> \notin open =>
          bound'[d] = "nobody"

\* The end of the child, which has the kernel's image, drops all openers but the
\* parent's descriptor of the root device.
LEMMA ChildCloses ==
    ASSUME TypeOK, CloseAll(ChildOpeners)
    PROVE  ChildDrops
  <1>1. \A d \in Devs : \A o \in Openers : <<d, o>> \in ChildOpeners <=> o # "root"
    BY DEF ChildOpeners, Openers
  <1>2. "root" \in Openers /\ "kernel" \in Openers
    BY DEF Openers
  <1>3. auto \in SUBSET Devs
    BY DEF TypeOK
  <1>4. open' \subseteq open /\ \A d \in Devs : bound'[d] = bound[d] \/ bound'[d] = "nobody"
    BY CloseFacts
  <1>5. \A d \in Devs : <<d, "root">> \in open =>
                 <<d, "root">> \in open' /\ bound'[d] = bound[d] /\ (d \in ready => d \in ready')
    BY <1>1, <1>2, CloseFacts
  <1>6. \A d \in Devs : \A o \in Openers :
                 <<d, o>> \in open' => <<d, o>> \in open /\ o = "root"
    BY <1>1, CloseFacts
  <1>7. ASSUME NEW d \in auto, <<d, "kernel">> \in open, <<d, "root">> \notin open
        PROVE  bound'[d] = "nobody"
    <2>1. \A q \in Openers : <<d, q>> \in open => <<d, q>> \in ChildOpeners
      BY <1>1, <1>3, <1>7
    <2> QED BY <2>1, <1>1, <1>2, <1>3, <1>7, CloseFacts
  <1> QED BY <1>4, <1>5, <1>6, <1>7 DEF ChildDrops

\* LOOP_CLR_FD on d through o: a device that somebody else has open stays bound.
Clears(d, o) ==
    /\ \A e \in Devs : e # d => bound'[e] = bound[e] /\ (e \in ready => e \in ready')
    /\ bound'[d] = bound[d] \/ bound'[d] = "nobody"
    /\ \A q \in Openers : <<d, q>> \in open /\ q # o =>
          bound'[d] = bound[d] /\ (d \in ready => d \in ready')
    /\ (\A q \in Openers : <<d, q>> \in open => q = o) => bound'[d] = "nobody"

\* LOOP_CLR_FD keeps the types of the kernel's tables and touches its device only.
LEMMA ClearFacts ==
    ASSUME TypeOK, NEW d \in Devs, NEW o \in Openers, ClearFd(d, o)
    PROVE  /\ bound' \in [Devs -> Owners] /\ auto' \in SUBSET Devs /\ ready' \in SUBSET Devs
           /\ Clears(d, o)
  <1>1. bound \in [Devs -> Owners] /\ auto \in SUBSET Devs /\ ready \in SUBSET Devs
    BY DEF TypeOK
  <1>2. CASE HasOpener(d, open \ {<<d, o>>})
    <2>1. auto' = auto \cup {d} /\ bound' = bound /\ ready' = ready
      BY <1>2 DEF ClearFd
    <2>2. \E q \in Openers : q # o /\ <<d, q>> \in open
      BY <1>2 DEF HasOpener
    <2> QED BY <1>1, <2>1, <2>2 DEF Clears
  <1>3. CASE ~HasOpener(d, open \ {<<d, o>>})
    <2>1. /\ bound' = [bound EXCEPT ![d] = "nobody"]
          /\ auto' = auto \ {d} /\ ready' = ready \ {d}
      BY <1>3 DEF ClearFd
    <2>2. \A q \in Openers : <<d, q>> \in open => q = o
      BY <1>3 DEF HasOpener
    <2>3. "nobody" \in Owners
      BY DEF Owners
    <2> QED BY <1>1, <2>1, <2>2, <2>3 DEF Clears
  <1> QED BY <1>2, <1>3

\* As far as inFile is concerned, every step is one of its own or none.
LEMMA StepScans ==
    ASSUME [Next]_vars
    PROVE  ScanStep
  <1>1. CASE FindRoot \/ InFile
    BY <1>1 DEF FindRoot, InFile, ScanStep
  <1>2. CASE UNCHANGED vars
    BY <1>2 DEF vars, ScanStep
  <1>3. CASE UNCHANGED scanVars
    BY <1>3 DEF ScanStep
  <1>4. Main => FindRoot \/ InFile \/ UNCHANGED scanVars
    BY DEF Main, EnsureLoop, StatRoot, OpenBacking, FindDevice, OpenDevice, SetFd, SetStatus,
           Undo, UndoClose, ExecEnterRoot, EnterRoot, SetupKernel, KernelGetStatus,
           KernelSetStatus, KernelMount, DetachPathOpen, DetachPathClear, DetachPathClose,
           ChildExit, DetachSwap, DetachClear, DetachClose, Exit
  <1>5. Goroutine \/ Others => UNCHANGED scanVars
    BY DEF Goroutine, Wake, GetStatus, SetStatusAuto, Others, OtherAttach, OtherDetach
  <1> QED BY <1>1, <1>2, <1>3, <1>4, <1>5 DEF Next

-----------------------------------------------------------------------------
(* Preservation, one step per action.                                      *)

\* The kernel's tables keep their types: every call is made on a device.
LEMMA KernelTypesStep ==
    ASSUME IInv, Next
    PROVE  KernelTypes'
  <1> USE DeviceAssumption DEF Goto, Fault, kernelVars, prog, goroutine, IInv, TypeOK,
        DevInv, KernelTypes, Attachers, Owners, Openers, AttachPCs, Kernel3
  <1>1. CASE EnsureLoop
    BY <1>1 DEF EnsureLoop
  <1>2. CASE FindRoot
    BY <1>2 DEF FindRoot
  <1>3. CASE InFile
    BY <1>3 DEF InFile
  <1>4. CASE StatRoot
    BY <1>4 DEF StatRoot
  <1>5. CASE OpenBacking
    BY <1>5 DEF OpenBacking, AttachFails
  <1>6. CASE FindDevice
    BY <1>6 DEF FindDevice, AttachFails
  <1>7. CASE OpenDevice
    BY <1>7 DEF OpenDevice, AttachFails
  <1>8. CASE SetFd
    BY <1>8, CloseFacts DEF SetFd, SetFdWorks, AttachFails
  <1>9. CASE SetStatus
    BY <1>9 DEF SetStatus
  <1>10. CASE Undo
    <2>1. dev[who] \in Devs /\ who \in Openers
      BY <1>10 DEF Undo
    <2>2. CASE ClearFd(dev[who], who)
      BY <2>1, <2>2, ClearFacts
    <2>3. CASE UNCHANGED <<bound, auto, ready>>
      BY <2>3
    <2> QED BY <1>10, <2>2, <2>3 DEF Undo
  <1>11. CASE UndoClose
    BY <1>11, CloseFacts DEF UndoClose, AttachFails
  <1>12. CASE ExecEnterRoot
    BY <1>12 DEF ExecEnterRoot, Unwind
  <1>13. CASE EnterRoot
    BY <1>13, CloseFacts DEF EnterRoot, MountDevice, ChildGone, Unwind
  <1>14. CASE SetupKernel
    BY <1>14 DEF SetupKernel
  <1>15. CASE KernelGetStatus
    BY <1>15 DEF KernelGetStatus
  <1>16. CASE KernelSetStatus
    BY <1>16 DEF KernelSetStatus
  <1>17. CASE KernelMount
    BY <1>17 DEF KernelMount, MountDevice
  <1>18. CASE DetachPathOpen
    BY <1>18 DEF DetachPathOpen
  <1>19. CASE DetachPathClear
    BY <1>19, ClearFacts DEF DetachPathClear
  <1>20. CASE DetachPathClose
    BY <1>20, CloseFacts DEF DetachPathClose
  <1>21. CASE ChildExit
    BY <1>21, CloseFacts DEF ChildExit, ChildGone, Unwind
  <1>22. CASE DetachSwap
    BY <1>22 DEF DetachSwap
  <1>23. CASE DetachClear
    BY <1>23, ClearFacts DEF DetachClear
  <1>24. CASE DetachClose
    BY <1>24, CloseFacts DEF DetachClose
  <1>25. CASE Exit
    BY <1>25, CloseFacts DEF Exit
  <1>26. CASE Wake
    BY <1>26 DEF Wake
  <1>27. CASE GetStatus
    BY <1>27 DEF GetStatus, Answers
  <1>28. CASE SetStatusAuto
    BY <1>28 DEF SetStatusAuto, Answers
  <1>29. ASSUME NEW d \in Devs, OtherAttach(d) PROVE KernelTypes'
    BY <1>29 DEF OtherAttach
  <1>30. ASSUME NEW d \in Devs, OtherDetach(d) PROVE KernelTypes'
    BY <1>30, ClearFacts DEF OtherDetach
  <1> QED BY <1>1, <1>2, <1>3, <1>4, <1>5, <1>6, <1>7, <1>8, <1>9, <1>10, <1>11, <1>12,
        <1>13, <1>14, <1>15, <1>16, <1>17, <1>18, <1>19, <1>20, <1>21, <1>22, <1>23,
        <1>24, <1>25, <1>26, <1>27, <1>28, <1>29, <1>30 DEF Next, Main, Goroutine,
        Others

\* Only devices are opened.
LEMMA OpenTypesStep ==
    ASSUME IInv, Next
    PROVE  OpenTypes'
  <1> USE DeviceAssumption DEF Goto, Fault, kernelVars, prog, goroutine, IInv, TypeOK,
        DevInv, OpenTypes, Attachers, Openers, AttachPCs, Kernel3, ChildOpeners
  <1>1. CASE EnsureLoop
    BY <1>1 DEF EnsureLoop
  <1>2. CASE FindRoot
    BY <1>2 DEF FindRoot
  <1>3. CASE InFile
    BY <1>3 DEF InFile
  <1>4. CASE StatRoot
    BY <1>4 DEF StatRoot
  <1>5. CASE OpenBacking
    BY <1>5 DEF OpenBacking, AttachFails
  <1>6. CASE FindDevice
    BY <1>6 DEF FindDevice, AttachFails
  <1>7. CASE OpenDevice
    BY <1>7 DEF OpenDevice, AttachFails
  <1>8. CASE SetFd
    BY <1>8, CloseFacts DEF SetFd, SetFdWorks, AttachFails
  <1>9. CASE SetStatus
    BY <1>9 DEF SetStatus
  <1>10. CASE Undo
    BY <1>10, ClearFacts DEF Undo
  <1>11. CASE UndoClose
    BY <1>11, CloseFacts DEF UndoClose, AttachFails
  <1>12. CASE ExecEnterRoot
    BY <1>12 DEF ExecEnterRoot, Unwind
  <1>13. CASE EnterRoot
    BY <1>13, CloseFacts DEF EnterRoot, MountDevice, ChildGone, Unwind
  <1>14. CASE SetupKernel
    BY <1>14 DEF SetupKernel
  <1>15. CASE KernelGetStatus
    BY <1>15 DEF KernelGetStatus
  <1>16. CASE KernelSetStatus
    BY <1>16 DEF KernelSetStatus
  <1>17. CASE KernelMount
    BY <1>17 DEF KernelMount, MountDevice
  <1>18. CASE DetachPathOpen
    BY <1>18 DEF DetachPathOpen
  <1>19. CASE DetachPathClear
    BY <1>19, ClearFacts DEF DetachPathClear
  <1>20. CASE DetachPathClose
    BY <1>20, CloseFacts DEF DetachPathClose
  <1>21. CASE ChildExit
    BY <1>21, CloseFacts DEF ChildExit, ChildGone, Unwind
  <1>22. CASE DetachSwap
    BY <1>22 DEF DetachSwap
  <1>23. CASE DetachClear
    BY <1>23, ClearFacts DEF DetachClear
  <1>24. CASE DetachClose
    BY <1>24, CloseFacts DEF DetachClose
  <1>25. CASE Exit
    BY <1>25, CloseFacts DEF Exit
  <1>26. CASE Wake
    BY <1>26 DEF Wake
  <1>27. CASE GetStatus
    BY <1>27 DEF GetStatus, Answers
  <1>28. CASE SetStatusAuto
    BY <1>28 DEF SetStatusAuto, Answers
  <1>29. ASSUME NEW d \in Devs, OtherAttach(d) PROVE OpenTypes'
    BY <1>29 DEF OtherAttach
  <1>30. ASSUME NEW d \in Devs, OtherDetach(d) PROVE OpenTypes'
    BY <1>30, ClearFacts DEF OtherDetach
  <1> QED BY <1>1, <1>2, <1>3, <1>4, <1>5, <1>6, <1>7, <1>8, <1>9, <1>10, <1>11, <1>12,
        <1>13, <1>14, <1>15, <1>16, <1>17, <1>18, <1>19, <1>20, <1>21, <1>22, <1>23,
        <1>24, <1>25, <1>26, <1>27, <1>28, <1>29, <1>30 DEF Next, Main, Goroutine,
        Others

\* The program's variables keep their types.
LEMMA ProgTypesStep ==
    ASSUME IInv, Next
    PROVE  ProgTypes'
  <1> USE DeviceAssumption DEF Goto, Fault, kernelVars, prog, goroutine, IInv, TypeOK,
        DevInv, ProgTypes, Attachers
  <1>1. CASE EnsureLoop
    BY <1>1 DEF EnsureLoop
  <1>2. CASE FindRoot
    BY <1>2 DEF FindRoot
  <1>3. CASE InFile
    BY <1>3 DEF InFile
  <1>4. CASE StatRoot
    BY <1>4 DEF StatRoot
  <1>5. CASE OpenBacking
    BY <1>5 DEF OpenBacking, AttachFails
  <1>6. CASE FindDevice
    BY <1>6 DEF FindDevice, AttachFails
  <1>7. CASE OpenDevice
    BY <1>7 DEF OpenDevice, AttachFails
  <1>8. CASE SetFd
    BY <1>8, CloseFacts DEF SetFd, SetFdWorks, AttachFails
  <1>9. CASE SetStatus
    BY <1>9 DEF SetStatus
  <1>10. CASE Undo
    BY <1>10, ClearFacts DEF Undo
  <1>11. CASE UndoClose
    BY <1>11, CloseFacts DEF UndoClose, AttachFails
  <1>12. CASE ExecEnterRoot
    BY <1>12 DEF ExecEnterRoot, Unwind
  <1>13. CASE EnterRoot
    <2>1. UNCHANGED <<who, dev>>
      BY <1>13 DEF EnterRoot
    <2>2. mounted' = mounted \/ mounted' = mounted \cup {"root"} \/ mounted' = {}
      BY <1>13 DEF EnterRoot, MountDevice, ChildGone
    <2> QED BY <2>1, <2>2
  <1>14. CASE SetupKernel
    BY <1>14 DEF SetupKernel
  <1>15. CASE KernelGetStatus
    BY <1>15 DEF KernelGetStatus
  <1>16. CASE KernelSetStatus
    BY <1>16 DEF KernelSetStatus
  <1>17. CASE KernelMount
    BY <1>17 DEF KernelMount, MountDevice
  <1>18. CASE DetachPathOpen
    BY <1>18 DEF DetachPathOpen
  <1>19. CASE DetachPathClear
    BY <1>19, ClearFacts DEF DetachPathClear
  <1>20. CASE DetachPathClose
    BY <1>20, CloseFacts DEF DetachPathClose
  <1>21. CASE ChildExit
    BY <1>21, CloseFacts DEF ChildExit, ChildGone, Unwind
  <1>22. CASE DetachSwap
    BY <1>22 DEF DetachSwap
  <1>23. CASE DetachClear
    BY <1>23, ClearFacts DEF DetachClear
  <1>24. CASE DetachClose
    BY <1>24, CloseFacts DEF DetachClose
  <1>25. CASE Exit
    BY <1>25, CloseFacts DEF Exit
  <1>26. CASE Wake
    BY <1>26 DEF Wake
  <1>27. CASE GetStatus
    BY <1>27 DEF GetStatus, Answers
  <1>28. CASE SetStatusAuto
    BY <1>28 DEF SetStatusAuto, Answers
  <1>29. ASSUME NEW d \in Devs, OtherAttach(d) PROVE ProgTypes'
    BY <1>29 DEF OtherAttach
  <1>30. ASSUME NEW d \in Devs, OtherDetach(d) PROVE ProgTypes'
    BY <1>30, ClearFacts DEF OtherDetach
  <1> QED BY <1>1, <1>2, <1>3, <1>4, <1>5, <1>6, <1>7, <1>8, <1>9, <1>10, <1>11, <1>12,
        <1>13, <1>14, <1>15, <1>16, <1>17, <1>18, <1>19, <1>20, <1>21, <1>22, <1>23,
        <1>24, <1>25, <1>26, <1>27, <1>28, <1>29, <1>30 DEF Next, Main, Goroutine,
        Others

\* So do its flags.
LEMMA FlagTypesStep ==
    ASSUME IInv, Next
    PROVE  FlagTypes'
  <1> USE DeviceAssumption DEF Goto, Fault, kernelVars, prog, goroutine, IInv, TypeOK,
        DevInv, FlagTypes
  <1>1. CASE EnsureLoop
    BY <1>1 DEF EnsureLoop
  <1>2. CASE FindRoot
    BY <1>2 DEF FindRoot
  <1>3. CASE InFile
    BY <1>3 DEF InFile
  <1>4. CASE StatRoot
    BY <1>4 DEF StatRoot
  <1>5. CASE OpenBacking
    BY <1>5 DEF OpenBacking, AttachFails
  <1>6. CASE FindDevice
    BY <1>6 DEF FindDevice, AttachFails
  <1>7. CASE OpenDevice
    BY <1>7 DEF OpenDevice, AttachFails
  <1>8. CASE SetFd
    BY <1>8, CloseFacts DEF SetFd, SetFdWorks, AttachFails
  <1>9. CASE SetStatus
    BY <1>9 DEF SetStatus
  <1>10. CASE Undo
    BY <1>10, ClearFacts DEF Undo
  <1>11. CASE UndoClose
    BY <1>11, CloseFacts DEF UndoClose, AttachFails
  <1>12. CASE ExecEnterRoot
    BY <1>12 DEF ExecEnterRoot, Unwind
  <1>13. CASE EnterRoot
    BY <1>13, CloseFacts DEF EnterRoot, MountDevice, ChildGone, Unwind
  <1>14. CASE SetupKernel
    BY <1>14 DEF SetupKernel
  <1>15. CASE KernelGetStatus
    BY <1>15 DEF KernelGetStatus
  <1>16. CASE KernelSetStatus
    BY <1>16 DEF KernelSetStatus
  <1>17. CASE KernelMount
    BY <1>17 DEF KernelMount, MountDevice
  <1>18. CASE DetachPathOpen
    BY <1>18 DEF DetachPathOpen
  <1>19. CASE DetachPathClear
    BY <1>19, ClearFacts DEF DetachPathClear
  <1>20. CASE DetachPathClose
    BY <1>20, CloseFacts DEF DetachPathClose
  <1>21. CASE ChildExit
    BY <1>21, CloseFacts DEF ChildExit, ChildGone, Unwind
  <1>22. CASE DetachSwap
    BY <1>22 DEF DetachSwap
  <1>23. CASE DetachClear
    BY <1>23, ClearFacts DEF DetachClear
  <1>24. CASE DetachClose
    BY <1>24, CloseFacts DEF DetachClose
  <1>25. CASE Exit
    BY <1>25, CloseFacts DEF Exit
  <1>26. CASE Wake
    BY <1>26 DEF Wake
  <1>27. CASE GetStatus
    BY <1>27 DEF GetStatus, Answers
  <1>28. CASE SetStatusAuto
    BY <1>28 DEF SetStatusAuto, Answers
  <1>29. ASSUME NEW d \in Devs, OtherAttach(d) PROVE FlagTypes'
    BY <1>29 DEF OtherAttach
  <1>30. ASSUME NEW d \in Devs, OtherDetach(d) PROVE FlagTypes'
    BY <1>30, ClearFacts DEF OtherDetach
  <1> QED BY <1>1, <1>2, <1>3, <1>4, <1>5, <1>6, <1>7, <1>8, <1>9, <1>10, <1>11, <1>12,
        <1>13, <1>14, <1>15, <1>16, <1>17, <1>18, <1>19, <1>20, <1>21, <1>22, <1>23,
        <1>24, <1>25, <1>26, <1>27, <1>28, <1>29, <1>30 DEF Next, Main, Goroutine,
        Others

\* So do the two threads' positions.
LEMMA PcTypesStep ==
    ASSUME IInv, Next
    PROVE  PcTypes'
  <1> USE DeviceAssumption DEF Goto, Fault, kernelVars, prog, goroutine, IInv, TypeOK,
        DevInv, PcTypes, PCs, GPCs, Owners, AttachPCs
  <1>1. CASE EnsureLoop
    BY <1>1 DEF EnsureLoop
  <1>2. CASE FindRoot
    BY <1>2 DEF FindRoot
  <1>3. CASE InFile
    BY <1>3 DEF InFile
  <1>4. CASE StatRoot
    BY <1>4 DEF StatRoot
  <1>5. CASE OpenBacking
    BY <1>5 DEF OpenBacking, AttachFails
  <1>6. CASE FindDevice
    BY <1>6 DEF FindDevice, AttachFails
  <1>7. CASE OpenDevice
    BY <1>7 DEF OpenDevice, AttachFails
  <1>8. CASE SetFd
    BY <1>8, CloseFacts DEF SetFd, SetFdWorks, AttachFails
  <1>9. CASE SetStatus
    BY <1>9 DEF SetStatus
  <1>10. CASE Undo
    BY <1>10, ClearFacts DEF Undo
  <1>11. CASE UndoClose
    BY <1>11, CloseFacts DEF UndoClose, AttachFails
  <1>12. CASE ExecEnterRoot
    BY <1>12 DEF ExecEnterRoot, Unwind
  <1>13. CASE EnterRoot
    BY <1>13, CloseFacts DEF EnterRoot, MountDevice, ChildGone, Unwind
  <1>14. CASE SetupKernel
    BY <1>14 DEF SetupKernel
  <1>15. CASE KernelGetStatus
    BY <1>15 DEF KernelGetStatus
  <1>16. CASE KernelSetStatus
    BY <1>16 DEF KernelSetStatus
  <1>17. CASE KernelMount
    BY <1>17 DEF KernelMount, MountDevice
  <1>18. CASE DetachPathOpen
    BY <1>18 DEF DetachPathOpen
  <1>19. CASE DetachPathClear
    BY <1>19, ClearFacts DEF DetachPathClear
  <1>20. CASE DetachPathClose
    BY <1>20, CloseFacts DEF DetachPathClose
  <1>21. CASE ChildExit
    BY <1>21, CloseFacts DEF ChildExit, ChildGone, Unwind
  <1>22. CASE DetachSwap
    BY <1>22 DEF DetachSwap
  <1>23. CASE DetachClear
    BY <1>23, ClearFacts DEF DetachClear
  <1>24. CASE DetachClose
    BY <1>24, CloseFacts DEF DetachClose
  <1>25. CASE Exit
    BY <1>25, CloseFacts DEF Exit
  <1>26. CASE Wake
    BY <1>26 DEF Wake
  <1>27. CASE GetStatus
    BY <1>27 DEF GetStatus, Answers
  <1>28. CASE SetStatusAuto
    BY <1>28 DEF SetStatusAuto, Answers
  <1>29. ASSUME NEW d \in Devs, OtherAttach(d) PROVE PcTypes'
    BY <1>29 DEF OtherAttach
  <1>30. ASSUME NEW d \in Devs, OtherDetach(d) PROVE PcTypes'
    BY <1>30, ClearFacts DEF OtherDetach
  <1> QED BY <1>1, <1>2, <1>3, <1>4, <1>5, <1>6, <1>7, <1>8, <1>9, <1>10, <1>11, <1>12,
        <1>13, <1>14, <1>15, <1>16, <1>17, <1>18, <1>19, <1>20, <1>21, <1>22, <1>23,
        <1>24, <1>25, <1>26, <1>27, <1>28, <1>29, <1>30 DEF Next, Main, Goroutine,
        Others

\* The devices that the next call needs are there.
LEMMA DevStep ==
    ASSUME IInv, Next
    PROVE  DevInv'
  <1> USE DeviceAssumption DEF Goto, Fault, kernelVars, prog, goroutine, IInv, TypeOK,
        DevInv, AttachPCs, Kernel3, Early, Inside, InsidePCs, Attachers
  <1>1. CASE EnsureLoop
    BY <1>1 DEF EnsureLoop
  <1>2. CASE FindRoot
    BY <1>2 DEF FindRoot
  <1>3. CASE InFile
    BY <1>3 DEF InFile
  <1>4. CASE StatRoot
    BY <1>4 DEF StatRoot
  <1>5. CASE OpenBacking
    BY <1>5 DEF OpenBacking, AttachFails
  <1>6. CASE FindDevice
    BY <1>6 DEF FindDevice, AttachFails
  <1>7. CASE OpenDevice
    BY <1>7 DEF OpenDevice, AttachFails
  <1>8. CASE SetFd
    BY <1>8, CloseOne DEF SetFd, SetFdWorks, AttachFails
  <1>9. CASE SetStatus
    BY <1>9 DEF SetStatus
  <1>10. CASE Undo
    BY <1>10, ClearFacts DEF Undo
  <1>11. CASE UndoClose
    BY <1>11, CloseOne DEF UndoClose, AttachFails
  <1>12. CASE ExecEnterRoot
    BY <1>12 DEF ExecEnterRoot, Unwind
  <1>13. CASE EnterRoot
    BY <1>13, ChildCloses DEF EnterRoot, MountDevice, ChildGone, Unwind
  <1>14. CASE SetupKernel
    BY <1>14 DEF SetupKernel
  <1>15. CASE KernelGetStatus
    BY <1>15 DEF KernelGetStatus
  <1>16. CASE KernelSetStatus
    BY <1>16 DEF KernelSetStatus
  <1>17. CASE KernelMount
    BY <1>17 DEF KernelMount, MountDevice
  <1>18. CASE DetachPathOpen
    BY <1>18 DEF DetachPathOpen
  <1>19. CASE DetachPathClear
    BY <1>19, ClearFacts DEF DetachPathClear
  <1>20. CASE DetachPathClose
    BY <1>20, CloseOne DEF DetachPathClose
  <1>21. CASE ChildExit
    BY <1>21, ChildCloses DEF ChildExit, ChildGone, Unwind
  <1>22. CASE DetachSwap
    BY <1>22 DEF DetachSwap
  <1>23. CASE DetachClear
    BY <1>23, ClearFacts DEF DetachClear
  <1>24. CASE DetachClose
    BY <1>24, CloseOne DEF DetachClose
  <1>25. CASE Exit
    BY <1>25, CloseFacts DEF Exit
  <1>26. CASE Wake
    BY <1>26 DEF Wake
  <1>27. CASE GetStatus
    BY <1>27 DEF GetStatus, Answers
  <1>28. CASE SetStatusAuto
    BY <1>28 DEF SetStatusAuto, Answers
  <1>29. ASSUME NEW d \in Devs, OtherAttach(d) PROVE DevInv'
    BY <1>29 DEF OtherAttach
  <1>30. ASSUME NEW d \in Devs, OtherDetach(d) PROVE DevInv'
    BY <1>30, ClearFacts DEF OtherDetach
  <1> QED BY <1>1, <1>2, <1>3, <1>4, <1>5, <1>6, <1>7, <1>8, <1>9, <1>10, <1>11, <1>12,
        <1>13, <1>14, <1>15, <1>16, <1>17, <1>18, <1>19, <1>20, <1>21, <1>22, <1>23,
        <1>24, <1>25, <1>26, <1>27, <1>28, <1>29, <1>30 DEF Next, Main, Goroutine,
        Others

\* Where something is mounted.
LEMMA MountStep ==
    ASSUME IInv, Next
    PROVE  MountInv'
  <1> USE DeviceAssumption DEF Goto, Fault, kernelVars, prog, goroutine, IInv, TypeOK,
        MountInv, AttachPCs, Kernel3, Early, Inside, Entered, InsidePCs, Attachers,
        Late4
  <1>1. CASE EnsureLoop
    BY <1>1 DEF EnsureLoop
  <1>2. CASE FindRoot
    BY <1>2 DEF FindRoot
  <1>3. CASE InFile
    BY <1>3 DEF InFile
  <1>4. CASE StatRoot
    BY <1>4 DEF StatRoot
  <1>5. CASE OpenBacking
    BY <1>5 DEF OpenBacking, AttachFails
  <1>6. CASE FindDevice
    BY <1>6 DEF FindDevice, AttachFails
  <1>7. CASE OpenDevice
    BY <1>7 DEF OpenDevice, AttachFails
  <1>8. CASE SetFd
    BY <1>8, CloseOne DEF SetFd, SetFdWorks, AttachFails
  <1>9. CASE SetStatus
    BY <1>9 DEF SetStatus
  <1>10. CASE Undo
    BY <1>10, ClearFacts DEF Undo
  <1>11. CASE UndoClose
    BY <1>11, CloseOne DEF UndoClose, AttachFails
  <1>12. CASE ExecEnterRoot
    BY <1>12 DEF ExecEnterRoot, Unwind
  <1>13. CASE EnterRoot
    BY <1>13, ChildCloses DEF EnterRoot, MountDevice, ChildGone, Unwind
  <1>14. CASE SetupKernel
    BY <1>14 DEF SetupKernel
  <1>15. CASE KernelGetStatus
    BY <1>15 DEF KernelGetStatus
  <1>16. CASE KernelSetStatus
    BY <1>16 DEF KernelSetStatus
  <1>17. CASE KernelMount
    BY <1>17 DEF KernelMount, MountDevice
  <1>18. CASE DetachPathOpen
    BY <1>18 DEF DetachPathOpen
  <1>19. CASE DetachPathClear
    BY <1>19, ClearFacts DEF DetachPathClear
  <1>20. CASE DetachPathClose
    BY <1>20, CloseOne DEF DetachPathClose
  <1>21. CASE ChildExit
    BY <1>21, ChildCloses DEF ChildExit, ChildGone, Unwind
  <1>22. CASE DetachSwap
    BY <1>22 DEF DetachSwap
  <1>23. CASE DetachClear
    BY <1>23, ClearFacts DEF DetachClear
  <1>24. CASE DetachClose
    BY <1>24, CloseOne DEF DetachClose
  <1>25. CASE Exit
    BY <1>25, CloseFacts DEF Exit
  <1>26. CASE Wake
    BY <1>26 DEF Wake
  <1>27. CASE GetStatus
    BY <1>27 DEF GetStatus, Answers
  <1>28. CASE SetStatusAuto
    BY <1>28 DEF SetStatusAuto, Answers
  <1>29. ASSUME NEW d \in Devs, OtherAttach(d) PROVE MountInv'
    BY <1>29 DEF OtherAttach
  <1>30. ASSUME NEW d \in Devs, OtherDetach(d) PROVE MountInv'
    BY <1>30, ClearFacts DEF OtherDetach
  <1> QED BY <1>1, <1>2, <1>3, <1>4, <1>5, <1>6, <1>7, <1>8, <1>9, <1>10, <1>11, <1>12,
        <1>13, <1>14, <1>15, <1>16, <1>17, <1>18, <1>19, <1>20, <1>21, <1>22, <1>23,
        <1>24, <1>25, <1>26, <1>27, <1>28, <1>29, <1>30 DEF Next, Main, Goroutine,
        Others

\* What LOOP_SET_FD has bound stays bound until its status is set.
LEMMA SetStep ==
    ASSUME IInv, Next
    PROVE  SetInv'
  <1> USE DeviceAssumption DEF Goto, Fault, kernelVars, prog, goroutine, IInv, TypeOK,
        DevInv, SetInv, HeldInv, OpenerInv, AttachPCs, Kernel3, Early, Inside,
        Entered, InsidePCs, Attachers, Openers, Late4, Attached
  <1>1. CASE EnsureLoop
    BY <1>1 DEF EnsureLoop
  <1>2. CASE FindRoot
    BY <1>2 DEF FindRoot
  <1>3. CASE InFile
    BY <1>3 DEF InFile
  <1>4. CASE StatRoot
    BY <1>4 DEF StatRoot
  <1>5. CASE OpenBacking
    BY <1>5 DEF OpenBacking, AttachFails
  <1>6. CASE FindDevice
    BY <1>6 DEF FindDevice, AttachFails
  <1>7. CASE OpenDevice
    BY <1>7 DEF OpenDevice, AttachFails
  <1>8. CASE SetFd
    <2>1. CASE SetFdWorks
      BY <1>8, <2>1 DEF SetFd, SetFdWorks
    <2>2. CASE CloseAll({<<dev[who], who>>}) /\ AttachFails
      <3>1. Drops(dev[who], who)
        BY <2>2, CloseOne
      <3>2. /\ pc = "setfd" /\ pc' = (IF who = "root" THEN "returned" ELSE "rescue")
            /\ UNCHANGED <<isPid1, who, dev, mounted, closed, gpc, seen, leaked>>
        BY <1>8, <2>2 DEF SetFd, AttachFails
      <3> QED BY <3>1, <3>2 DEF Drops
    <2> QED BY <1>8, <2>1, <2>2 DEF SetFd
  <1>9. CASE SetStatus
    BY <1>9 DEF SetStatus
  <1>10. CASE Undo
    <2>1. /\ dev[who] \in Devs /\ who \in Openers /\ pc = "undo" /\ pc' = "undoclose"
          /\ UNCHANGED <<open, isPid1, who, dev, mounted, closed, gpc, seen>>
      BY <1>10 DEF Undo
    <2>2. CASE ClearFd(dev[who], who) /\ UNCHANGED leaked
      <3>1. Clears(dev[who], who)
        BY <2>1, <2>2, ClearFacts
      <3> QED BY <2>1, <2>2, <3>1 DEF Clears
    <2>3. CASE leaked' = TRUE /\ UNCHANGED <<bound, auto, ready>>
      BY <2>1, <2>3
    <2> QED BY <1>10, <2>2, <2>3 DEF Undo
  <1>11. CASE UndoClose
    <2>1. Drops(dev[who], who)
      BY <1>11, CloseOne DEF UndoClose
    <2>2. /\ pc = "undoclose" /\ pc' = (IF who = "root" THEN "returned" ELSE "rescue")
          /\ UNCHANGED <<isPid1, who, dev, mounted, closed, gpc, seen, leaked>>
      BY <1>11 DEF UndoClose, AttachFails
    <2> QED BY <2>1, <2>2 DEF Drops
  <1>12. CASE ExecEnterRoot
    BY <1>12 DEF ExecEnterRoot, Unwind
  <1>13. CASE EnterRoot
    <2>1. CASE ChildGone
      <3>1. ChildDrops
        BY <1>13, <2>1, ChildCloses DEF EnterRoot, ChildGone
      <3>2. /\ UNCHANGED <<isPid1, who, dev, closed, gpc, seen>>
           /\ mounted' = {} /\ Inside
           /\ leaked' = (leaked \/ \E d \in Devs \ auto : bound[d] = "kernel")
           /\ pc' = IF dev["root"] # NoDev THEN "cas" ELSE "returned"
        BY <1>13, <2>1 DEF EnterRoot, ChildGone, Unwind
      <3> QED BY <3>1, <3>2 DEF ChildDrops
    <2>2. CASE pc' = "dead" /\ UNCHANGED <<kernelVars, mounted, leaked>>
      BY <1>13, <2>2 DEF EnterRoot
    <2>3. CASE /\ MountDevice("root", "rootMount") /\ pc' = "boot"
               /\ UNCHANGED <<bound, auto, ready, leaked>>
      BY <1>13, <2>3 DEF EnterRoot, MountDevice
    <2> QED BY <1>13, <2>1, <2>2, <2>3 DEF EnterRoot
  <1>14. CASE SetupKernel
    BY <1>14 DEF SetupKernel
  <1>15. CASE KernelGetStatus
    BY <1>15 DEF KernelGetStatus
  <1>16. CASE KernelSetStatus
    BY <1>16 DEF KernelSetStatus
  <1>17. CASE KernelMount
    BY <1>17 DEF KernelMount, MountDevice
  <1>18. CASE DetachPathOpen
    BY <1>18 DEF DetachPathOpen
  <1>19. CASE DetachPathClear
    <2>1. /\ Loop0 \in Devs /\ "path" \in Openers /\ pc = "path" /\ pc' = "pathclose"
          /\ UNCHANGED <<open, isPid1, who, dev, mounted, closed, gpc, seen, leaked>>
      BY <1>19 DEF DetachPathClear
    <2>2. CASE ClearFd(Loop0, "path")
      <3>1. Clears(Loop0, "path")
        BY <2>1, <2>2, ClearFacts
      <3> QED BY <2>1, <2>2, <3>1 DEF Clears
    <2>3. CASE UNCHANGED <<bound, auto, ready>>
      BY <2>1, <2>3
    <2> QED BY <1>19, <2>2, <2>3 DEF DetachPathClear
  <1>20. CASE DetachPathClose
    <2>1. Drops(Loop0, "path")
      BY <1>20, CloseOne DEF DetachPathClose
    <2>2. /\ pc = "pathclose" /\ pc' = "done"
          /\ UNCHANGED <<isPid1, who, dev, mounted, closed, gpc, seen, leaked>>
      BY <1>20 DEF DetachPathClose, AttachFails
    <2> QED BY <2>1, <2>2 DEF Drops
  <1>21. CASE ChildExit
    <2>1. ChildDrops
      BY <1>21, ChildCloses DEF ChildExit, ChildGone
    <2>2. /\ UNCHANGED <<isPid1, who, dev, closed, gpc, seen>>
         /\ mounted' = {} /\ Inside
         /\ leaked' = (leaked \/ \E d \in Devs \ auto : bound[d] = "kernel")
         /\ pc' = IF dev["root"] # NoDev THEN "cas" ELSE "returned"
      BY <1>21 DEF ChildExit, ChildGone, Unwind
    <2> QED BY <2>1, <2>2 DEF ChildDrops
  <1>22. CASE DetachSwap
    BY <1>22 DEF DetachSwap
  <1>23. CASE DetachClear
    <2>1. /\ dev["root"] \in Devs /\ "root" \in Openers /\ pc = "clr"
          /\ UNCHANGED <<open, isPid1, who, dev, mounted, gpc, seen>>
          /\ bound[dev["root"]] = "root"
      BY <1>23 DEF DetachClear
    <2>2. CASE ClearFd(dev["root"], "root") /\ pc' = "close" /\ UNCHANGED <<closed, leaked>>
      <3>1. Clears(dev["root"], "root")
        BY <2>1, <2>2, ClearFacts
      <3> QED BY <2>1, <2>2, <3>1 DEF Clears
    <2>3. CASE pc' = "returned" /\ leaked' = TRUE /\ UNCHANGED <<bound, auto, ready>>
      BY <2>1, <2>3
    <2> QED BY <1>23, <2>1, <2>2, <2>3 DEF DetachClear
  <1>24. CASE DetachClose
    <2>1. Drops(dev["root"], "root")
      BY <1>24, CloseOne DEF DetachClose
    <2>2. /\ pc = "close" /\ pc' = "returned"
          /\ UNCHANGED <<isPid1, who, dev, mounted, closed, gpc, seen, leaked>>
      BY <1>24 DEF DetachClose, AttachFails
    <2> QED BY <2>1, <2>2 DEF Drops
  <1>25. CASE Exit
    BY <1>25, CloseFacts DEF Exit
  <1>26. CASE Wake
    BY <1>26 DEF Wake
  <1>27. CASE GetStatus
    BY <1>27 DEF GetStatus, Answers
  <1>28. CASE SetStatusAuto
    BY <1>28 DEF SetStatusAuto, Answers
  <1>29. ASSUME NEW d \in Devs, OtherAttach(d) PROVE SetInv'
    BY <1>29 DEF OtherAttach
  <1>30. ASSUME NEW d \in Devs, OtherDetach(d) PROVE SetInv'
    <2>1. /\ bound[d] = "other" /\ "path" \in Openers /\ d \in Devs
          /\ UNCHANGED <<open, isPid1, who, dev, mounted, closed, gpc, seen, pc, leaked>>
      BY <1>30 DEF OtherDetach
    <2>2. Clears(d, "path")
      BY <1>30, <2>1, ClearFacts DEF OtherDetach
    <2> QED BY <2>1, <2>2 DEF Clears
  <1> QED BY <1>1, <1>2, <1>3, <1>4, <1>5, <1>6, <1>7, <1>8, <1>9, <1>10, <1>11, <1>12,
        <1>13, <1>14, <1>15, <1>16, <1>17, <1>18, <1>19, <1>20, <1>21, <1>22, <1>23,
        <1>24, <1>25, <1>26, <1>27, <1>28, <1>29, <1>30 DEF Next, Main, Goroutine,
        Others

\* The descriptor of the root image's device keeps it bound and at its offset.
LEMMA HeldStep ==
    ASSUME IInv, Next
    PROVE  HeldInv'
  <1> USE DeviceAssumption DEF Goto, Fault, kernelVars, prog, goroutine, IInv, TypeOK,
        DevInv, SetInv, HeldInv, AttachPCs, Kernel3, Early, Inside, Entered,
        InsidePCs, Attachers, Openers, Late4, Attached
  <1>1. CASE EnsureLoop
    BY <1>1 DEF EnsureLoop
  <1>2. CASE FindRoot
    BY <1>2 DEF FindRoot
  <1>3. CASE InFile
    BY <1>3 DEF InFile
  <1>4. CASE StatRoot
    BY <1>4 DEF StatRoot
  <1>5. CASE OpenBacking
    BY <1>5 DEF OpenBacking, AttachFails
  <1>6. CASE FindDevice
    BY <1>6 DEF FindDevice, AttachFails
  <1>7. CASE OpenDevice
    BY <1>7 DEF OpenDevice, AttachFails
  <1>8. CASE SetFd
    <2>1. CASE SetFdWorks
      BY <1>8, <2>1 DEF SetFd, SetFdWorks
    <2>2. CASE CloseAll({<<dev[who], who>>}) /\ AttachFails
      <3>1. Drops(dev[who], who)
        BY <2>2, CloseOne
      <3>2. /\ pc = "setfd" /\ pc' = (IF who = "root" THEN "returned" ELSE "rescue")
            /\ UNCHANGED <<isPid1, who, dev, mounted, closed, gpc, seen, leaked>>
        BY <1>8, <2>2 DEF SetFd, AttachFails
      <3> QED BY <3>1, <3>2 DEF Drops
    <2> QED BY <1>8, <2>1, <2>2 DEF SetFd
  <1>9. CASE SetStatus
    BY <1>9 DEF SetStatus
  <1>10. CASE Undo
    <2>1. /\ dev[who] \in Devs /\ who \in Openers /\ pc = "undo" /\ pc' = "undoclose"
          /\ UNCHANGED <<open, isPid1, who, dev, mounted, closed, gpc, seen>>
      BY <1>10 DEF Undo
    <2>2. CASE ClearFd(dev[who], who) /\ UNCHANGED leaked
      <3>1. Clears(dev[who], who)
        BY <2>1, <2>2, ClearFacts
      <3> QED BY <2>1, <2>2, <3>1 DEF Clears
    <2>3. CASE leaked' = TRUE /\ UNCHANGED <<bound, auto, ready>>
      BY <2>1, <2>3
    <2> QED BY <1>10, <2>2, <2>3 DEF Undo
  <1>11. CASE UndoClose
    <2>1. Drops(dev[who], who)
      BY <1>11, CloseOne DEF UndoClose
    <2>2. /\ pc = "undoclose" /\ pc' = (IF who = "root" THEN "returned" ELSE "rescue")
          /\ UNCHANGED <<isPid1, who, dev, mounted, closed, gpc, seen, leaked>>
      BY <1>11 DEF UndoClose, AttachFails
    <2> QED BY <2>1, <2>2 DEF Drops
  <1>12. CASE ExecEnterRoot
    BY <1>12 DEF ExecEnterRoot, Unwind
  <1>13. CASE EnterRoot
    <2>1. CASE ChildGone
      <3>1. ChildDrops
        BY <1>13, <2>1, ChildCloses DEF EnterRoot, ChildGone
      <3>2. /\ UNCHANGED <<isPid1, who, dev, closed, gpc, seen>>
           /\ mounted' = {} /\ Inside
           /\ leaked' = (leaked \/ \E d \in Devs \ auto : bound[d] = "kernel")
           /\ pc' = IF dev["root"] # NoDev THEN "cas" ELSE "returned"
        BY <1>13, <2>1 DEF EnterRoot, ChildGone, Unwind
      <3> QED BY <3>1, <3>2 DEF ChildDrops
    <2>2. CASE pc' = "dead" /\ UNCHANGED <<kernelVars, mounted, leaked>>
      BY <1>13, <2>2 DEF EnterRoot
    <2>3. CASE /\ MountDevice("root", "rootMount") /\ pc' = "boot"
               /\ UNCHANGED <<bound, auto, ready, leaked>>
      BY <1>13, <2>3 DEF EnterRoot, MountDevice
    <2> QED BY <1>13, <2>1, <2>2, <2>3 DEF EnterRoot
  <1>14. CASE SetupKernel
    BY <1>14 DEF SetupKernel
  <1>15. CASE KernelGetStatus
    BY <1>15 DEF KernelGetStatus
  <1>16. CASE KernelSetStatus
    BY <1>16 DEF KernelSetStatus
  <1>17. CASE KernelMount
    BY <1>17 DEF KernelMount, MountDevice
  <1>18. CASE DetachPathOpen
    BY <1>18 DEF DetachPathOpen
  <1>19. CASE DetachPathClear
    <2>1. /\ Loop0 \in Devs /\ "path" \in Openers /\ pc = "path" /\ pc' = "pathclose"
          /\ UNCHANGED <<open, isPid1, who, dev, mounted, closed, gpc, seen, leaked>>
      BY <1>19 DEF DetachPathClear
    <2>2. CASE ClearFd(Loop0, "path")
      <3>1. Clears(Loop0, "path")
        BY <2>1, <2>2, ClearFacts
      <3> QED BY <2>1, <2>2, <3>1 DEF Clears
    <2>3. CASE UNCHANGED <<bound, auto, ready>>
      BY <2>1, <2>3
    <2> QED BY <1>19, <2>2, <2>3 DEF DetachPathClear
  <1>20. CASE DetachPathClose
    <2>1. Drops(Loop0, "path")
      BY <1>20, CloseOne DEF DetachPathClose
    <2>2. /\ pc = "pathclose" /\ pc' = "done"
          /\ UNCHANGED <<isPid1, who, dev, mounted, closed, gpc, seen, leaked>>
      BY <1>20 DEF DetachPathClose, AttachFails
    <2> QED BY <2>1, <2>2 DEF Drops
  <1>21. CASE ChildExit
    <2>1. ChildDrops
      BY <1>21, ChildCloses DEF ChildExit, ChildGone
    <2>2. /\ UNCHANGED <<isPid1, who, dev, closed, gpc, seen>>
         /\ mounted' = {} /\ Inside
         /\ leaked' = (leaked \/ \E d \in Devs \ auto : bound[d] = "kernel")
         /\ pc' = IF dev["root"] # NoDev THEN "cas" ELSE "returned"
      BY <1>21 DEF ChildExit, ChildGone, Unwind
    <2> QED BY <2>1, <2>2 DEF ChildDrops
  <1>22. CASE DetachSwap
    BY <1>22 DEF DetachSwap
  <1>23. CASE DetachClear
    <2>1. /\ dev["root"] \in Devs /\ "root" \in Openers /\ pc = "clr"
          /\ UNCHANGED <<open, isPid1, who, dev, mounted, gpc, seen>>
          /\ bound[dev["root"]] = "root"
      BY <1>23 DEF DetachClear
    <2>2. CASE ClearFd(dev["root"], "root") /\ pc' = "close" /\ UNCHANGED <<closed, leaked>>
      <3>1. Clears(dev["root"], "root")
        BY <2>1, <2>2, ClearFacts
      <3> QED BY <2>1, <2>2, <3>1 DEF Clears
    <2>3. CASE pc' = "returned" /\ leaked' = TRUE /\ UNCHANGED <<bound, auto, ready>>
      BY <2>1, <2>3
    <2> QED BY <1>23, <2>1, <2>2, <2>3 DEF DetachClear
  <1>24. CASE DetachClose
    <2>1. Drops(dev["root"], "root")
      BY <1>24, CloseOne DEF DetachClose
    <2>2. /\ pc = "close" /\ pc' = "returned"
          /\ UNCHANGED <<isPid1, who, dev, mounted, closed, gpc, seen, leaked>>
      BY <1>24 DEF DetachClose, AttachFails
    <2> QED BY <2>1, <2>2 DEF Drops
  <1>25. CASE Exit
    BY <1>25, CloseFacts DEF Exit
  <1>26. CASE Wake
    BY <1>26 DEF Wake
  <1>27. CASE GetStatus
    BY <1>27 DEF GetStatus, Answers
  <1>28. CASE SetStatusAuto
    BY <1>28 DEF SetStatusAuto, Answers
  <1>29. ASSUME NEW d \in Devs, OtherAttach(d) PROVE HeldInv'
    BY <1>29 DEF OtherAttach
  <1>30. ASSUME NEW d \in Devs, OtherDetach(d) PROVE HeldInv'
    <2>1. /\ bound[d] = "other" /\ "path" \in Openers /\ d \in Devs
          /\ UNCHANGED <<open, isPid1, who, dev, mounted, closed, gpc, seen, pc, leaked>>
      BY <1>30 DEF OtherDetach
    <2>2. Clears(d, "path")
      BY <1>30, <2>1, ClearFacts DEF OtherDetach
    <2> QED BY <2>1, <2>2 DEF Clears
  <1> QED BY <1>1, <1>2, <1>3, <1>4, <1>5, <1>6, <1>7, <1>8, <1>9, <1>10, <1>11, <1>12,
        <1>13, <1>14, <1>15, <1>16, <1>17, <1>18, <1>19, <1>20, <1>21, <1>22, <1>23,
        <1>24, <1>25, <1>26, <1>27, <1>28, <1>29, <1>30 DEF Next, Main, Goroutine,
        Others

\* The descriptor of the kernel image's device does the same.
LEMMA KernelStep ==
    ASSUME IInv, Next
    PROVE  KernelInv'
  <1> USE DeviceAssumption DEF Goto, Fault, kernelVars, prog, goroutine, IInv, TypeOK,
        DevInv, SetInv, HeldInv, KernelInv, MountInv, AttachPCs, Kernel3, Early,
        Inside, Entered, InsidePCs, Attachers, Openers, Late4, Attached
  <1>1. CASE EnsureLoop
    BY <1>1 DEF EnsureLoop
  <1>2. CASE FindRoot
    BY <1>2 DEF FindRoot
  <1>3. CASE InFile
    BY <1>3 DEF InFile
  <1>4. CASE StatRoot
    BY <1>4 DEF StatRoot
  <1>5. CASE OpenBacking
    BY <1>5 DEF OpenBacking, AttachFails
  <1>6. CASE FindDevice
    BY <1>6 DEF FindDevice, AttachFails
  <1>7. CASE OpenDevice
    BY <1>7 DEF OpenDevice, AttachFails
  <1>8. CASE SetFd
    <2>1. CASE SetFdWorks
      BY <1>8, <2>1 DEF SetFd, SetFdWorks
    <2>2. CASE CloseAll({<<dev[who], who>>}) /\ AttachFails
      <3>1. Drops(dev[who], who)
        BY <2>2, CloseOne
      <3>2. /\ pc = "setfd" /\ pc' = (IF who = "root" THEN "returned" ELSE "rescue")
            /\ UNCHANGED <<isPid1, who, dev, mounted, closed, gpc, seen, leaked>>
        BY <1>8, <2>2 DEF SetFd, AttachFails
      <3> QED BY <3>1, <3>2 DEF Drops
    <2> QED BY <1>8, <2>1, <2>2 DEF SetFd
  <1>9. CASE SetStatus
    BY <1>9 DEF SetStatus
  <1>10. CASE Undo
    <2>1. /\ dev[who] \in Devs /\ who \in Openers /\ pc = "undo" /\ pc' = "undoclose"
          /\ UNCHANGED <<open, isPid1, who, dev, mounted, closed, gpc, seen>>
      BY <1>10 DEF Undo
    <2>2. CASE ClearFd(dev[who], who) /\ UNCHANGED leaked
      <3>1. Clears(dev[who], who)
        BY <2>1, <2>2, ClearFacts
      <3> QED BY <2>1, <2>2, <3>1 DEF Clears
    <2>3. CASE leaked' = TRUE /\ UNCHANGED <<bound, auto, ready>>
      BY <2>1, <2>3
    <2> QED BY <1>10, <2>2, <2>3 DEF Undo
  <1>11. CASE UndoClose
    <2>1. Drops(dev[who], who)
      BY <1>11, CloseOne DEF UndoClose
    <2>2. /\ pc = "undoclose" /\ pc' = (IF who = "root" THEN "returned" ELSE "rescue")
          /\ UNCHANGED <<isPid1, who, dev, mounted, closed, gpc, seen, leaked>>
      BY <1>11 DEF UndoClose, AttachFails
    <2> QED BY <2>1, <2>2 DEF Drops
  <1>12. CASE ExecEnterRoot
    BY <1>12 DEF ExecEnterRoot, Unwind
  <1>13. CASE EnterRoot
    <2>1. CASE ChildGone
      <3>1. ChildDrops
        BY <1>13, <2>1, ChildCloses DEF EnterRoot, ChildGone
      <3>2. /\ UNCHANGED <<isPid1, who, dev, closed, gpc, seen>>
           /\ mounted' = {} /\ Inside
           /\ leaked' = (leaked \/ \E d \in Devs \ auto : bound[d] = "kernel")
           /\ pc' = IF dev["root"] # NoDev THEN "cas" ELSE "returned"
        BY <1>13, <2>1 DEF EnterRoot, ChildGone, Unwind
      <3> QED BY <3>1, <3>2 DEF ChildDrops
    <2>2. CASE pc' = "dead" /\ UNCHANGED <<kernelVars, mounted, leaked>>
      BY <1>13, <2>2 DEF EnterRoot
    <2>3. CASE /\ MountDevice("root", "rootMount") /\ pc' = "boot"
               /\ UNCHANGED <<bound, auto, ready, leaked>>
      BY <1>13, <2>3 DEF EnterRoot, MountDevice
    <2> QED BY <1>13, <2>1, <2>2, <2>3 DEF EnterRoot
  <1>14. CASE SetupKernel
    BY <1>14 DEF SetupKernel
  <1>15. CASE KernelGetStatus
    BY <1>15 DEF KernelGetStatus
  <1>16. CASE KernelSetStatus
    BY <1>16 DEF KernelSetStatus
  <1>17. CASE KernelMount
    BY <1>17 DEF KernelMount, MountDevice
  <1>18. CASE DetachPathOpen
    BY <1>18 DEF DetachPathOpen
  <1>19. CASE DetachPathClear
    <2>1. /\ Loop0 \in Devs /\ "path" \in Openers /\ pc = "path" /\ pc' = "pathclose"
          /\ UNCHANGED <<open, isPid1, who, dev, mounted, closed, gpc, seen, leaked>>
      BY <1>19 DEF DetachPathClear
    <2>2. CASE ClearFd(Loop0, "path")
      <3>1. Clears(Loop0, "path")
        BY <2>1, <2>2, ClearFacts
      <3> QED BY <2>1, <2>2, <3>1 DEF Clears
    <2>3. CASE UNCHANGED <<bound, auto, ready>>
      BY <2>1, <2>3
    <2> QED BY <1>19, <2>2, <2>3 DEF DetachPathClear
  <1>20. CASE DetachPathClose
    <2>1. Drops(Loop0, "path")
      BY <1>20, CloseOne DEF DetachPathClose
    <2>2. /\ pc = "pathclose" /\ pc' = "done"
          /\ UNCHANGED <<isPid1, who, dev, mounted, closed, gpc, seen, leaked>>
      BY <1>20 DEF DetachPathClose, AttachFails
    <2> QED BY <2>1, <2>2 DEF Drops
  <1>21. CASE ChildExit
    <2>1. ChildDrops
      BY <1>21, ChildCloses DEF ChildExit, ChildGone
    <2>2. /\ UNCHANGED <<isPid1, who, dev, closed, gpc, seen>>
         /\ mounted' = {} /\ Inside
         /\ leaked' = (leaked \/ \E d \in Devs \ auto : bound[d] = "kernel")
         /\ pc' = IF dev["root"] # NoDev THEN "cas" ELSE "returned"
      BY <1>21 DEF ChildExit, ChildGone, Unwind
    <2> QED BY <2>1, <2>2 DEF ChildDrops
  <1>22. CASE DetachSwap
    BY <1>22 DEF DetachSwap
  <1>23. CASE DetachClear
    <2>1. /\ dev["root"] \in Devs /\ "root" \in Openers /\ pc = "clr"
          /\ UNCHANGED <<open, isPid1, who, dev, mounted, gpc, seen>>
          /\ bound[dev["root"]] = "root"
      BY <1>23 DEF DetachClear
    <2>2. CASE ClearFd(dev["root"], "root") /\ pc' = "close" /\ UNCHANGED <<closed, leaked>>
      <3>1. Clears(dev["root"], "root")
        BY <2>1, <2>2, ClearFacts
      <3> QED BY <2>1, <2>2, <3>1 DEF Clears
    <2>3. CASE pc' = "returned" /\ leaked' = TRUE /\ UNCHANGED <<bound, auto, ready>>
      BY <2>1, <2>3
    <2> QED BY <1>23, <2>1, <2>2, <2>3 DEF DetachClear
  <1>24. CASE DetachClose
    <2>1. Drops(dev["root"], "root")
      BY <1>24, CloseOne DEF DetachClose
    <2>2. /\ pc = "close" /\ pc' = "returned"
          /\ UNCHANGED <<isPid1, who, dev, mounted, closed, gpc, seen, leaked>>
      BY <1>24 DEF DetachClose, AttachFails
    <2> QED BY <2>1, <2>2 DEF Drops
  <1>25. CASE Exit
    BY <1>25, CloseFacts DEF Exit
  <1>26. CASE Wake
    BY <1>26 DEF Wake
  <1>27. CASE GetStatus
    BY <1>27 DEF GetStatus, Answers
  <1>28. CASE SetStatusAuto
    BY <1>28 DEF SetStatusAuto, Answers
  <1>29. ASSUME NEW d \in Devs, OtherAttach(d) PROVE KernelInv'
    BY <1>29 DEF OtherAttach
  <1>30. ASSUME NEW d \in Devs, OtherDetach(d) PROVE KernelInv'
    <2>1. /\ bound[d] = "other" /\ "path" \in Openers /\ d \in Devs
          /\ UNCHANGED <<open, isPid1, who, dev, mounted, closed, gpc, seen, pc, leaked>>
      BY <1>30 DEF OtherDetach
    <2>2. Clears(d, "path")
      BY <1>30, <2>1, ClearFacts DEF OtherDetach
    <2> QED BY <2>1, <2>2 DEF Clears
  <1> QED BY <1>1, <1>2, <1>3, <1>4, <1>5, <1>6, <1>7, <1>8, <1>9, <1>10, <1>11, <1>12,
        <1>13, <1>14, <1>15, <1>16, <1>17, <1>18, <1>19, <1>20, <1>21, <1>22, <1>23,
        <1>24, <1>25, <1>26, <1>27, <1>28, <1>29, <1>30 DEF Next, Main, Goroutine,
        Others

\* Who has a device open, and when.
LEMMA OpenerStep ==
    ASSUME IInv, Next
    PROVE  OpenerInv'
  <1> USE DeviceAssumption DEF Goto, Fault, kernelVars, prog, goroutine, IInv, TypeOK,
        DevInv, OpenerInv, MountInv, AttachPCs, Kernel3, Early, Inside, Entered,
        InsidePCs, Attachers, Openers, Late4, Attached
  <1>1. CASE EnsureLoop
    BY <1>1 DEF EnsureLoop
  <1>2. CASE FindRoot
    BY <1>2 DEF FindRoot
  <1>3. CASE InFile
    BY <1>3 DEF InFile
  <1>4. CASE StatRoot
    BY <1>4 DEF StatRoot
  <1>5. CASE OpenBacking
    BY <1>5 DEF OpenBacking, AttachFails
  <1>6. CASE FindDevice
    BY <1>6 DEF FindDevice, AttachFails
  <1>7. CASE OpenDevice
    BY <1>7 DEF OpenDevice, AttachFails
  <1>8. CASE SetFd
    <2>1. CASE SetFdWorks
      BY <1>8, <2>1 DEF SetFd, SetFdWorks
    <2>2. CASE CloseAll({<<dev[who], who>>}) /\ AttachFails
      <3>1. Drops(dev[who], who)
        BY <2>2, CloseOne
      <3>2. /\ pc = "setfd" /\ pc' = (IF who = "root" THEN "returned" ELSE "rescue")
            /\ UNCHANGED <<isPid1, who, dev, mounted, closed, gpc, seen, leaked>>
        BY <1>8, <2>2 DEF SetFd, AttachFails
      <3> QED BY <3>1, <3>2 DEF Drops
    <2> QED BY <1>8, <2>1, <2>2 DEF SetFd
  <1>9. CASE SetStatus
    BY <1>9 DEF SetStatus
  <1>10. CASE Undo
    <2>1. /\ dev[who] \in Devs /\ who \in Openers /\ pc = "undo" /\ pc' = "undoclose"
          /\ UNCHANGED <<open, isPid1, who, dev, mounted, closed, gpc, seen>>
      BY <1>10 DEF Undo
    <2>2. CASE ClearFd(dev[who], who) /\ UNCHANGED leaked
      <3>1. Clears(dev[who], who)
        BY <2>1, <2>2, ClearFacts
      <3> QED BY <2>1, <2>2, <3>1 DEF Clears
    <2>3. CASE leaked' = TRUE /\ UNCHANGED <<bound, auto, ready>>
      BY <2>1, <2>3
    <2> QED BY <1>10, <2>2, <2>3 DEF Undo
  <1>11. CASE UndoClose
    <2>1. Drops(dev[who], who)
      BY <1>11, CloseOne DEF UndoClose
    <2>2. /\ pc = "undoclose" /\ pc' = (IF who = "root" THEN "returned" ELSE "rescue")
          /\ UNCHANGED <<isPid1, who, dev, mounted, closed, gpc, seen, leaked>>
      BY <1>11 DEF UndoClose, AttachFails
    <2> QED BY <2>1, <2>2 DEF Drops
  <1>12. CASE ExecEnterRoot
    BY <1>12 DEF ExecEnterRoot, Unwind
  <1>13. CASE EnterRoot
    <2>1. CASE ChildGone
      <3>1. ChildDrops
        BY <1>13, <2>1, ChildCloses DEF EnterRoot, ChildGone
      <3>2. /\ UNCHANGED <<isPid1, who, dev, closed, gpc, seen>>
           /\ mounted' = {} /\ Inside
           /\ leaked' = (leaked \/ \E d \in Devs \ auto : bound[d] = "kernel")
           /\ pc' = IF dev["root"] # NoDev THEN "cas" ELSE "returned"
        BY <1>13, <2>1 DEF EnterRoot, ChildGone, Unwind
      <3> QED BY <3>1, <3>2 DEF ChildDrops
    <2>2. CASE pc' = "dead" /\ UNCHANGED <<kernelVars, mounted, leaked>>
      BY <1>13, <2>2 DEF EnterRoot
    <2>3. CASE /\ MountDevice("root", "rootMount") /\ pc' = "boot"
               /\ UNCHANGED <<bound, auto, ready, leaked>>
      BY <1>13, <2>3 DEF EnterRoot, MountDevice
    <2> QED BY <1>13, <2>1, <2>2, <2>3 DEF EnterRoot
  <1>14. CASE SetupKernel
    BY <1>14 DEF SetupKernel
  <1>15. CASE KernelGetStatus
    BY <1>15 DEF KernelGetStatus
  <1>16. CASE KernelSetStatus
    BY <1>16 DEF KernelSetStatus
  <1>17. CASE KernelMount
    BY <1>17 DEF KernelMount, MountDevice
  <1>18. CASE DetachPathOpen
    BY <1>18 DEF DetachPathOpen
  <1>19. CASE DetachPathClear
    <2>1. /\ Loop0 \in Devs /\ "path" \in Openers /\ pc = "path" /\ pc' = "pathclose"
          /\ UNCHANGED <<open, isPid1, who, dev, mounted, closed, gpc, seen, leaked>>
      BY <1>19 DEF DetachPathClear
    <2>2. CASE ClearFd(Loop0, "path")
      <3>1. Clears(Loop0, "path")
        BY <2>1, <2>2, ClearFacts
      <3> QED BY <2>1, <2>2, <3>1 DEF Clears
    <2>3. CASE UNCHANGED <<bound, auto, ready>>
      BY <2>1, <2>3
    <2> QED BY <1>19, <2>2, <2>3 DEF DetachPathClear
  <1>20. CASE DetachPathClose
    <2>1. Drops(Loop0, "path")
      BY <1>20, CloseOne DEF DetachPathClose
    <2>2. /\ pc = "pathclose" /\ pc' = "done"
          /\ UNCHANGED <<isPid1, who, dev, mounted, closed, gpc, seen, leaked>>
      BY <1>20 DEF DetachPathClose, AttachFails
    <2> QED BY <2>1, <2>2 DEF Drops
  <1>21. CASE ChildExit
    <2>1. ChildDrops
      BY <1>21, ChildCloses DEF ChildExit, ChildGone
    <2>2. /\ UNCHANGED <<isPid1, who, dev, closed, gpc, seen>>
         /\ mounted' = {} /\ Inside
         /\ leaked' = (leaked \/ \E d \in Devs \ auto : bound[d] = "kernel")
         /\ pc' = IF dev["root"] # NoDev THEN "cas" ELSE "returned"
      BY <1>21 DEF ChildExit, ChildGone, Unwind
    <2> QED BY <2>1, <2>2 DEF ChildDrops
  <1>22. CASE DetachSwap
    BY <1>22 DEF DetachSwap
  <1>23. CASE DetachClear
    <2>1. /\ dev["root"] \in Devs /\ "root" \in Openers /\ pc = "clr"
          /\ UNCHANGED <<open, isPid1, who, dev, mounted, gpc, seen>>
          /\ bound[dev["root"]] = "root"
      BY <1>23 DEF DetachClear, HeldInv
    <2>2. CASE ClearFd(dev["root"], "root") /\ pc' = "close" /\ UNCHANGED <<closed, leaked>>
      <3>1. Clears(dev["root"], "root")
        BY <2>1, <2>2, ClearFacts
      <3> QED BY <2>1, <2>2, <3>1 DEF Clears
    <2>3. CASE pc' = "returned" /\ leaked' = TRUE /\ UNCHANGED <<bound, auto, ready>>
      BY <2>1, <2>3
    <2> QED BY <1>23, <2>1, <2>2, <2>3 DEF DetachClear
  <1>24. CASE DetachClose
    <2>1. Drops(dev["root"], "root")
      BY <1>24, CloseOne DEF DetachClose
    <2>2. /\ pc = "close" /\ pc' = "returned"
          /\ UNCHANGED <<isPid1, who, dev, mounted, closed, gpc, seen, leaked>>
      BY <1>24 DEF DetachClose, AttachFails
    <2> QED BY <2>1, <2>2 DEF Drops
  <1>25. CASE Exit
    BY <1>25, CloseFacts DEF Exit
  <1>26. CASE Wake
    BY <1>26 DEF Wake
  <1>27. CASE GetStatus
    BY <1>27 DEF GetStatus, Answers
  <1>28. CASE SetStatusAuto
    BY <1>28 DEF SetStatusAuto, Answers
  <1>29. ASSUME NEW d \in Devs, OtherAttach(d) PROVE OpenerInv'
    BY <1>29 DEF OtherAttach
  <1>30. ASSUME NEW d \in Devs, OtherDetach(d) PROVE OpenerInv'
    <2>1. /\ bound[d] = "other" /\ "path" \in Openers /\ d \in Devs
          /\ UNCHANGED <<open, isPid1, who, dev, mounted, closed, gpc, seen, pc, leaked>>
      BY <1>30 DEF OtherDetach
    <2>2. Clears(d, "path")
      BY <1>30, <2>1, ClearFacts DEF OtherDetach
    <2> QED BY <2>1, <2>2 DEF Clears
  <1> QED BY <1>1, <1>2, <1>3, <1>4, <1>5, <1>6, <1>7, <1>8, <1>9, <1>10, <1>11, <1>12,
        <1>13, <1>14, <1>15, <1>16, <1>17, <1>18, <1>19, <1>20, <1>21, <1>22, <1>23,
        <1>24, <1>25, <1>26, <1>27, <1>28, <1>29, <1>30 DEF Next, Main, Goroutine,
        Others

\* Whose devices are bound, and when.
LEMMA OwnStep ==
    ASSUME IInv, Next
    PROVE  OwnInv'
  <1> USE DeviceAssumption DEF Goto, Fault, kernelVars, prog, goroutine, IInv, TypeOK,
        DevInv, SetInv, HeldInv, OpenerInv, OwnInv, AttachPCs, Kernel3, Early, Inside,
        Entered, InsidePCs, Attachers, Openers, Late4, Attached
  <1>1. CASE EnsureLoop
    BY <1>1 DEF EnsureLoop
  <1>2. CASE FindRoot
    BY <1>2 DEF FindRoot
  <1>3. CASE InFile
    BY <1>3 DEF InFile
  <1>4. CASE StatRoot
    BY <1>4 DEF StatRoot
  <1>5. CASE OpenBacking
    BY <1>5 DEF OpenBacking, AttachFails
  <1>6. CASE FindDevice
    BY <1>6 DEF FindDevice, AttachFails
  <1>7. CASE OpenDevice
    BY <1>7 DEF OpenDevice, AttachFails
  <1>8. CASE SetFd
    <2>1. CASE SetFdWorks
      BY <1>8, <2>1 DEF SetFd, SetFdWorks
    <2>2. CASE CloseAll({<<dev[who], who>>}) /\ AttachFails
      <3>1. Drops(dev[who], who)
        BY <2>2, CloseOne
      <3>2. /\ pc = "setfd" /\ pc' = (IF who = "root" THEN "returned" ELSE "rescue")
            /\ UNCHANGED <<isPid1, who, dev, mounted, closed, gpc, seen, leaked>>
        BY <1>8, <2>2 DEF SetFd, AttachFails
      <3> QED BY <3>1, <3>2 DEF Drops
    <2> QED BY <1>8, <2>1, <2>2 DEF SetFd
  <1>9. CASE SetStatus
    BY <1>9 DEF SetStatus
  <1>10. CASE Undo
    <2>1. /\ dev[who] \in Devs /\ who \in Openers /\ pc = "undo" /\ pc' = "undoclose"
          /\ UNCHANGED <<open, isPid1, who, dev, mounted, closed, gpc, seen>>
      BY <1>10 DEF Undo
    <2>2. CASE ClearFd(dev[who], who) /\ UNCHANGED leaked
      <3>1. Clears(dev[who], who)
        BY <2>1, <2>2, ClearFacts
      <3> QED BY <2>1, <2>2, <3>1 DEF Clears
    <2>3. CASE leaked' = TRUE /\ UNCHANGED <<bound, auto, ready>>
      BY <2>1, <2>3
    <2> QED BY <1>10, <2>2, <2>3 DEF Undo
  <1>11. CASE UndoClose
    <2>1. Drops(dev[who], who)
      BY <1>11, CloseOne DEF UndoClose
    <2>2. /\ pc = "undoclose" /\ pc' = (IF who = "root" THEN "returned" ELSE "rescue")
          /\ UNCHANGED <<isPid1, who, dev, mounted, closed, gpc, seen, leaked>>
      BY <1>11 DEF UndoClose, AttachFails
    <2> QED BY <2>1, <2>2 DEF Drops
  <1>12. CASE ExecEnterRoot
    BY <1>12 DEF ExecEnterRoot, Unwind
  <1>13. CASE EnterRoot
    <2>1. CASE ChildGone
      <3>1. ChildDrops
        BY <1>13, <2>1, ChildCloses DEF EnterRoot, ChildGone
      <3>2. /\ UNCHANGED <<isPid1, who, dev, closed, gpc, seen>>
           /\ mounted' = {} /\ Inside
           /\ leaked' = (leaked \/ \E d \in Devs \ auto : bound[d] = "kernel")
           /\ pc' = IF dev["root"] # NoDev THEN "cas" ELSE "returned"
        BY <1>13, <2>1 DEF EnterRoot, ChildGone, Unwind
      <3>3. closed' => pc' \in {"clr", "close", "returned", "exited"}
        BY <3>2
      <3>4. ASSUME NEW d \in Devs, bound'[d] = "root"
           PROVE  d = dev'["root"] /\ pc' = "cas"
        BY <3>1, <3>2, <3>4 DEF ChildDrops
      <3>5. ASSUME NEW d \in Devs, bound'[d] = "kernel"
           PROVE  leaked'
        <4>1. bound[d] = "kernel"
          BY <3>1, <3>5 DEF ChildDrops
        <4>2. CASE leaked \/ d \notin auto
          BY <4>1, <4>2, <3>2
        <4>3. CASE ~leaked /\ d \in auto
          <5>1. <<d, "kernel">> \in open
            BY <4>1, <4>3
          <5>2. <<d, "root">> \notin open
            BY <4>1, <3>2
          <5> QED BY <5>1, <5>2, <4>3, <3>1, <3>5 DEF ChildDrops
        <4> QED BY <4>2, <4>3
      <3> QED BY <3>2, <3>3, <3>4, <3>5
    <2>2. CASE pc' = "dead" /\ UNCHANGED <<kernelVars, mounted, leaked>>
      BY <1>13, <2>2 DEF EnterRoot
    <2>3. CASE /\ MountDevice("root", "rootMount") /\ pc' = "boot"
               /\ UNCHANGED <<bound, auto, ready, leaked>>
      BY <1>13, <2>3 DEF EnterRoot, MountDevice
    <2> QED BY <1>13, <2>1, <2>2, <2>3 DEF EnterRoot
  <1>14. CASE SetupKernel
    BY <1>14 DEF SetupKernel
  <1>15. CASE KernelGetStatus
    BY <1>15 DEF KernelGetStatus
  <1>16. CASE KernelSetStatus
    BY <1>16 DEF KernelSetStatus
  <1>17. CASE KernelMount
    BY <1>17 DEF KernelMount, MountDevice
  <1>18. CASE DetachPathOpen
    BY <1>18 DEF DetachPathOpen
  <1>19. CASE DetachPathClear
    <2>1. /\ Loop0 \in Devs /\ "path" \in Openers /\ pc = "path" /\ pc' = "pathclose"
          /\ UNCHANGED <<open, isPid1, who, dev, mounted, closed, gpc, seen, leaked>>
      BY <1>19 DEF DetachPathClear
    <2>2. CASE ClearFd(Loop0, "path")
      <3>1. Clears(Loop0, "path")
        BY <2>1, <2>2, ClearFacts
      <3> QED BY <2>1, <2>2, <3>1 DEF Clears
    <2>3. CASE UNCHANGED <<bound, auto, ready>>
      BY <2>1, <2>3
    <2> QED BY <1>19, <2>2, <2>3 DEF DetachPathClear
  <1>20. CASE DetachPathClose
    <2>1. Drops(Loop0, "path")
      BY <1>20, CloseOne DEF DetachPathClose
    <2>2. /\ pc = "pathclose" /\ pc' = "done"
          /\ UNCHANGED <<isPid1, who, dev, mounted, closed, gpc, seen, leaked>>
      BY <1>20 DEF DetachPathClose, AttachFails
    <2> QED BY <2>1, <2>2 DEF Drops
  <1>21. CASE ChildExit
    <2>1. ChildDrops
      BY <1>21, ChildCloses DEF ChildExit, ChildGone
    <2>2. /\ UNCHANGED <<isPid1, who, dev, closed, gpc, seen>>
         /\ mounted' = {} /\ Inside
         /\ leaked' = (leaked \/ \E d \in Devs \ auto : bound[d] = "kernel")
         /\ pc' = IF dev["root"] # NoDev THEN "cas" ELSE "returned"
      BY <1>21 DEF ChildExit, ChildGone, Unwind
    <2>3. closed' => pc' \in {"clr", "close", "returned", "exited"}
      BY <2>2
    <2>4. ASSUME NEW d \in Devs, bound'[d] = "root"
         PROVE  d = dev'["root"] /\ pc' = "cas"
      BY <2>1, <2>2, <2>4 DEF ChildDrops
    <2>5. ASSUME NEW d \in Devs, bound'[d] = "kernel"
         PROVE  leaked'
      <3>1. bound[d] = "kernel"
        BY <2>1, <2>5 DEF ChildDrops
      <3>2. CASE leaked \/ d \notin auto
        BY <3>1, <3>2, <2>2
      <3>3. CASE ~leaked /\ d \in auto
        <4>1. <<d, "kernel">> \in open
          BY <3>1, <3>3
        <4>2. <<d, "root">> \notin open
          BY <3>1, <2>2
        <4> QED BY <4>1, <4>2, <3>3, <2>1, <2>5 DEF ChildDrops
      <3> QED BY <3>2, <3>3
    <2> QED BY <2>2, <2>3, <2>4, <2>5
  <1>22. CASE DetachSwap
    BY <1>22 DEF DetachSwap
  <1>23. CASE DetachClear
    <2>1. /\ dev["root"] \in Devs /\ "root" \in Openers /\ pc = "clr"
          /\ UNCHANGED <<open, isPid1, who, dev, mounted, gpc, seen>>
          /\ bound[dev["root"]] = "root"
      BY <1>23 DEF DetachClear
    <2>2. CASE ClearFd(dev["root"], "root") /\ pc' = "close" /\ UNCHANGED <<closed, leaked>>
      <3>1. Clears(dev["root"], "root")
        BY <2>1, <2>2, ClearFacts
      <3> QED BY <2>1, <2>2, <3>1 DEF Clears
    <2>3. CASE pc' = "returned" /\ leaked' = TRUE /\ UNCHANGED <<bound, auto, ready>>
      BY <2>1, <2>3
    <2> QED BY <1>23, <2>1, <2>2, <2>3 DEF DetachClear
  <1>24. CASE DetachClose
    <2>1. Drops(dev["root"], "root")
      BY <1>24, CloseOne DEF DetachClose
    <2>2. /\ pc = "close" /\ pc' = "returned"
          /\ UNCHANGED <<isPid1, who, dev, mounted, closed, gpc, seen, leaked>>
      BY <1>24 DEF DetachClose, AttachFails
    <2> QED BY <2>1, <2>2 DEF Drops
  <1>25. CASE Exit
    BY <1>25, CloseFacts DEF Exit
  <1>26. CASE Wake
    BY <1>26 DEF Wake
  <1>27. CASE GetStatus
    BY <1>27 DEF GetStatus, Answers
  <1>28. CASE SetStatusAuto
    BY <1>28 DEF SetStatusAuto, Answers
  <1>29. ASSUME NEW d \in Devs, OtherAttach(d) PROVE OwnInv'
    BY <1>29 DEF OtherAttach
  <1>30. ASSUME NEW d \in Devs, OtherDetach(d) PROVE OwnInv'
    <2>1. /\ bound[d] = "other" /\ "path" \in Openers /\ d \in Devs
          /\ UNCHANGED <<open, isPid1, who, dev, mounted, closed, gpc, seen, pc, leaked>>
      BY <1>30 DEF OtherDetach
    <2>2. Clears(d, "path")
      BY <1>30, <2>1, ClearFacts DEF OtherDetach
    <2> QED BY <2>1, <2>2 DEF Clears
  <1> QED BY <1>1, <1>2, <1>3, <1>4, <1>5, <1>6, <1>7, <1>8, <1>9, <1>10, <1>11, <1>12,
        <1>13, <1>14, <1>15, <1>16, <1>17, <1>18, <1>19, <1>20, <1>21, <1>22, <1>23,
        <1>24, <1>25, <1>26, <1>27, <1>28, <1>29, <1>30 DEF Next, Main, Goroutine,
        Others

\* The device stays the goroutine's own until its descriptor is closed.
LEMMA LateStep ==
    ASSUME IInv, Next
    PROVE  LateInv'
  <1> USE DeviceAssumption DEF Goto, Fault, kernelVars, prog, goroutine, IInv, TypeOK,
        DevInv, SetInv, HeldInv, OpenerInv, LateInv, AttachPCs, Kernel3, Early,
        Inside, Entered, InsidePCs, Attachers, Openers, Late4, Attached
  <1>1. CASE EnsureLoop
    BY <1>1 DEF EnsureLoop
  <1>2. CASE FindRoot
    BY <1>2 DEF FindRoot
  <1>3. CASE InFile
    BY <1>3 DEF InFile
  <1>4. CASE StatRoot
    BY <1>4 DEF StatRoot
  <1>5. CASE OpenBacking
    BY <1>5 DEF OpenBacking, AttachFails
  <1>6. CASE FindDevice
    BY <1>6 DEF FindDevice, AttachFails
  <1>7. CASE OpenDevice
    BY <1>7 DEF OpenDevice, AttachFails
  <1>8. CASE SetFd
    <2>1. CASE SetFdWorks
      BY <1>8, <2>1 DEF SetFd, SetFdWorks
    <2>2. CASE CloseAll({<<dev[who], who>>}) /\ AttachFails
      <3>1. Drops(dev[who], who)
        BY <2>2, CloseOne
      <3>2. /\ pc = "setfd" /\ pc' = (IF who = "root" THEN "returned" ELSE "rescue")
            /\ UNCHANGED <<isPid1, who, dev, mounted, closed, gpc, seen, leaked>>
        BY <1>8, <2>2 DEF SetFd, AttachFails
      <3>3. gpc' # "none" => pc' \notin Early /\ ~(who' = "root" /\ pc' \in AttachPCs)
        BY <3>2
      <3>4. ASSUME <<dev["root"], "root">> \in open'
           PROVE  bound'[dev["root"]] = "root"
        <4>1. <<dev["root"], "root">> \in open /\ dev["root"] \in Devs /\ "root" \in Openers
          BY <3>1, <3>4 DEF Drops
        <4>2. who # "root"
          BY <3>1, <3>4, <4>1 DEF Drops
        <4>3. bound[dev["root"]] = "root"
          BY <4>1, <4>2, <3>2
        <4> QED BY <3>1, <4>1, <4>2, <4>3 DEF Drops
      <3> QED BY <3>2, <3>3, <3>4
    <2> QED BY <1>8, <2>1, <2>2 DEF SetFd
  <1>9. CASE SetStatus
    BY <1>9 DEF SetStatus
  <1>10. CASE Undo
    <2>1. /\ dev[who] \in Devs /\ who \in Openers /\ pc = "undo" /\ pc' = "undoclose"
          /\ UNCHANGED <<open, isPid1, who, dev, mounted, closed, gpc, seen>>
      BY <1>10 DEF Undo
    <2>2. CASE ClearFd(dev[who], who) /\ UNCHANGED leaked
      <3>1. Clears(dev[who], who)
        BY <2>1, <2>2, ClearFacts
      <3> QED BY <2>1, <2>2, <3>1 DEF Clears
    <2>3. CASE leaked' = TRUE /\ UNCHANGED <<bound, auto, ready>>
      BY <2>1, <2>3
    <2> QED BY <1>10, <2>2, <2>3 DEF Undo
  <1>11. CASE UndoClose
    <2>1. Drops(dev[who], who)
      BY <1>11, CloseOne DEF UndoClose
    <2>2. /\ pc = "undoclose" /\ pc' = (IF who = "root" THEN "returned" ELSE "rescue")
          /\ UNCHANGED <<isPid1, who, dev, mounted, closed, gpc, seen, leaked>>
      BY <1>11 DEF UndoClose, AttachFails
    <2>3. gpc' # "none" => pc' \notin Early /\ ~(who' = "root" /\ pc' \in AttachPCs)
      BY <2>2
    <2>4. ASSUME <<dev["root"], "root">> \in open'
         PROVE  bound'[dev["root"]] = "root"
      <3>1. <<dev["root"], "root">> \in open /\ dev["root"] \in Devs /\ "root" \in Openers
        BY <2>1, <2>4 DEF Drops
      <3>2. who # "root"
        BY <2>1, <2>4, <3>1 DEF Drops
      <3>3. bound[dev["root"]] = "root"
        BY <3>1, <3>2, <2>2
      <3> QED BY <2>1, <3>1, <3>2, <3>3 DEF Drops
    <2> QED BY <2>2, <2>3, <2>4
  <1>12. CASE ExecEnterRoot
    BY <1>12 DEF ExecEnterRoot, Unwind
  <1>13. CASE EnterRoot
    <2>1. CASE ChildGone
      <3>1. ChildDrops
        BY <1>13, <2>1, ChildCloses DEF EnterRoot, ChildGone
      <3>2. /\ UNCHANGED <<isPid1, who, dev, closed, gpc, seen>>
           /\ mounted' = {} /\ Inside
           /\ leaked' = (leaked \/ \E d \in Devs \ auto : bound[d] = "kernel")
           /\ pc' = IF dev["root"] # NoDev THEN "cas" ELSE "returned"
        BY <1>13, <2>1 DEF EnterRoot, ChildGone, Unwind
      <3> QED BY <3>1, <3>2 DEF ChildDrops
    <2>2. CASE pc' = "dead" /\ UNCHANGED <<kernelVars, mounted, leaked>>
      BY <1>13, <2>2 DEF EnterRoot
    <2>3. CASE /\ MountDevice("root", "rootMount") /\ pc' = "boot"
               /\ UNCHANGED <<bound, auto, ready, leaked>>
      BY <1>13, <2>3 DEF EnterRoot, MountDevice
    <2> QED BY <1>13, <2>1, <2>2, <2>3 DEF EnterRoot
  <1>14. CASE SetupKernel
    BY <1>14 DEF SetupKernel
  <1>15. CASE KernelGetStatus
    BY <1>15 DEF KernelGetStatus
  <1>16. CASE KernelSetStatus
    BY <1>16 DEF KernelSetStatus
  <1>17. CASE KernelMount
    BY <1>17 DEF KernelMount, MountDevice
  <1>18. CASE DetachPathOpen
    BY <1>18 DEF DetachPathOpen
  <1>19. CASE DetachPathClear
    <2>1. /\ Loop0 \in Devs /\ "path" \in Openers /\ pc = "path" /\ pc' = "pathclose"
          /\ UNCHANGED <<open, isPid1, who, dev, mounted, closed, gpc, seen, leaked>>
      BY <1>19 DEF DetachPathClear
    <2>2. CASE ClearFd(Loop0, "path")
      <3>1. Clears(Loop0, "path")
        BY <2>1, <2>2, ClearFacts
      <3> QED BY <2>1, <2>2, <3>1 DEF Clears
    <2>3. CASE UNCHANGED <<bound, auto, ready>>
      BY <2>1, <2>3
    <2> QED BY <1>19, <2>2, <2>3 DEF DetachPathClear
  <1>20. CASE DetachPathClose
    <2>1. Drops(Loop0, "path")
      BY <1>20, CloseOne DEF DetachPathClose
    <2>2. /\ pc = "pathclose" /\ pc' = "done"
          /\ UNCHANGED <<isPid1, who, dev, mounted, closed, gpc, seen, leaked>>
      BY <1>20 DEF DetachPathClose, AttachFails
    <2> QED BY <2>1, <2>2 DEF Drops
  <1>21. CASE ChildExit
    <2>1. ChildDrops
      BY <1>21, ChildCloses DEF ChildExit, ChildGone
    <2>2. /\ UNCHANGED <<isPid1, who, dev, closed, gpc, seen>>
         /\ mounted' = {} /\ Inside
         /\ leaked' = (leaked \/ \E d \in Devs \ auto : bound[d] = "kernel")
         /\ pc' = IF dev["root"] # NoDev THEN "cas" ELSE "returned"
      BY <1>21 DEF ChildExit, ChildGone, Unwind
    <2> QED BY <2>1, <2>2 DEF ChildDrops
  <1>22. CASE DetachSwap
    BY <1>22 DEF DetachSwap
  <1>23. CASE DetachClear
    <2>1. /\ dev["root"] \in Devs /\ "root" \in Openers /\ pc = "clr"
          /\ UNCHANGED <<open, isPid1, who, dev, mounted, gpc, seen>>
          /\ bound[dev["root"]] = "root"
      BY <1>23 DEF DetachClear
    <2>2. CASE ClearFd(dev["root"], "root") /\ pc' = "close" /\ UNCHANGED <<closed, leaked>>
      <3>1. Clears(dev["root"], "root")
        BY <2>1, <2>2, ClearFacts
      <3> QED BY <2>1, <2>2, <3>1 DEF Clears
    <2>3. CASE pc' = "returned" /\ leaked' = TRUE /\ UNCHANGED <<bound, auto, ready>>
      BY <2>1, <2>3
    <2> QED BY <1>23, <2>1, <2>2, <2>3 DEF DetachClear
  <1>24. CASE DetachClose
    <2>1. Drops(dev["root"], "root")
      BY <1>24, CloseOne DEF DetachClose
    <2>2. /\ pc = "close" /\ pc' = "returned"
          /\ UNCHANGED <<isPid1, who, dev, mounted, closed, gpc, seen, leaked>>
      BY <1>24 DEF DetachClose, AttachFails
    <2> QED BY <2>1, <2>2 DEF Drops
  <1>25. CASE Exit
    BY <1>25, CloseFacts DEF Exit
  <1>26. CASE Wake
    BY <1>26 DEF Wake
  <1>27. CASE GetStatus
    BY <1>27 DEF GetStatus, Answers
  <1>28. CASE SetStatusAuto
    BY <1>28 DEF SetStatusAuto, Answers
  <1>29. ASSUME NEW d \in Devs, OtherAttach(d) PROVE LateInv'
    BY <1>29 DEF OtherAttach
  <1>30. ASSUME NEW d \in Devs, OtherDetach(d) PROVE LateInv'
    <2>1. /\ bound[d] = "other" /\ "path" \in Openers /\ d \in Devs
          /\ UNCHANGED <<open, isPid1, who, dev, mounted, closed, gpc, seen, pc, leaked>>
      BY <1>30 DEF OtherDetach
    <2>2. Clears(d, "path")
      BY <1>30, <2>1, ClearFacts DEF OtherDetach
    <2> QED BY <2>1, <2>2 DEF Clears
  <1> QED BY <1>1, <1>2, <1>3, <1>4, <1>5, <1>6, <1>7, <1>8, <1>9, <1>10, <1>11, <1>12,
        <1>13, <1>14, <1>15, <1>16, <1>17, <1>18, <1>19, <1>20, <1>21, <1>22, <1>23,
        <1>24, <1>25, <1>26, <1>27, <1>28, <1>29, <1>30 DEF Next, Main, Goroutine,
        Others

-----------------------------------------------------------------------------
(* The theorems.                                                           *)

\* The type invariant is the conjunction of its parts.
LEMMA TypeParts ==
    TypeOK <=> ScanTypeOK /\ KernelTypes /\ OpenTypes /\ ProgTypes /\ FlagTypes /\ PcTypes
    BY DEF TypeOK, KernelTypes, OpenTypes, ProgTypes, FlagTypes, PcTypes

\* The same after a step.
LEMMA TypePartsAgain ==
    ASSUME (ScanTypeOK /\ KernelTypes /\ OpenTypes /\ ProgTypes /\ FlagTypes /\ PcTypes)'
    PROVE  TypeOK'
    BY DEF TypeOK, KernelTypes, OpenTypes, ProgTypes, FlagTypes, PcTypes

\* At the start nothing is attached.
LEMMA InitIInv ==
    ASSUME Init
    PROVE  IInv
  <1>1. ScanInv
    BY EmptyText DEF Init, ScanInit
  <1>2. TypeOK
    <2>1. ScanTypeOK
      BY <1>1 DEF ScanInv
    <2>2. KernelTypes /\ OpenTypes
      BY DEF Init, KernelTypes, OpenTypes, Owners
    <2>3. ProgTypes /\ FlagTypes
      BY DEF Init, ProgTypes, FlagTypes, Attachers
    <2>4. PcTypes
      BY DEF Init, PcTypes, PCs, GPCs, Owners
    <2> QED BY <2>1, <2>2, <2>3, <2>4, TypeParts
  <1>3. DevInv /\ SetInv /\ KernelInv /\ MountInv
    BY DEF Init, DevInv, SetInv, KernelInv, MountInv, Early, Kernel3, Attachers, AttachPCs
  <1>4. HeldInv /\ OpenerInv /\ OwnInv /\ LateInv
    BY DEF Init, HeldInv, OpenerInv, OwnInv, LateInv, Attached, Inside, InsidePCs,
           AttachPCs, Attachers
  <1> QED BY <1>1, <1>2, <1>3, <1>4 DEF IInv

\* Every step keeps the invariant.
LEMMA NextIInv ==
    ASSUME IInv, [Next]_vars
    PROVE  IInv'
  <1>1. ScanInv'
    BY StepScans, ScanInvariant DEF IInv
  <1>2. CASE Next
    <2>1. TypeOK'
      BY <1>1, <1>2, KernelTypesStep, OpenTypesStep, ProgTypesStep, FlagTypesStep,
         PcTypesStep, TypePartsAgain DEF ScanInv
    <2>2. DevInv' /\ SetInv' /\ HeldInv' /\ KernelInv'
      BY <1>2, DevStep, SetStep, HeldStep, KernelStep
    <2>3. MountInv' /\ OpenerInv' /\ OwnInv' /\ LateInv'
      BY <1>2, MountStep, OpenerStep, OwnStep, LateStep
    <2> QED BY <1>1, <2>1, <2>2, <2>3 DEF IInv
  <1>3. CASE UNCHANGED vars
    <2> USE <1>3 DEF vars, kernelVars, IInv
    <2>1. TypeOK'
      BY <1>1 DEF TypeOK, ScanInv
    <2>2. DevInv' /\ SetInv' /\ KernelInv' /\ MountInv'
      BY DEF DevInv, SetInv, KernelInv, MountInv, Entered, Inside
    <2>3. HeldInv' /\ OpenerInv' /\ OwnInv' /\ LateInv'
      BY DEF HeldInv, OpenerInv, OwnInv, LateInv, Attached, Entered, Inside
    <2> QED BY <1>1, <2>1, <2>2, <2>3
  <1> QED BY <1>2, <1>3

\* The inductive invariant of the loop devices holds in every state.
THEOREM Invariance == Spec => []IInv
  <1>1. Init => IInv
    BY InitIInv
  <1>2. IInv /\ [Next]_vars => IInv'
    BY NextIInv
  <1> QED BY <1>1, <1>2, PTL DEF Spec

\* Every call is made on a device that was found, and every variable keeps its
\* type, whichever calls fail.
THEOREM TypeCorrect == Spec => []TypeOK
  <1>1. IInv => TypeOK
    BY DEF IInv
  <1> QED BY <1>1, Invariance, PTL

\* inFile returns only offsets that follow a complete magic number, for any file,
\* any magic number and any buffer size.
THEOREM SoundScan == Spec => []ScanSound
  <1>1. IInv => ScanSound
    BY ScanInvSound DEF IInv
  <1> QED BY <1>1, Invariance, PTL

\* And it passes over no clean occurrence of the magic number.
THEOREM CompleteScan == Spec => []ScanComplete
  <1>1. IInv => ScanComplete
    BY ScanInvComplete DEF IInv
  <1> QED BY <1>1, Invariance, PTL

\* A mounted loop device serves its own image at its offset, for any number of
\* devices, of other programs' attachments and of faults.
THEOREM Served == Spec => []ServesItsImage
  <1>1. ASSUME IInv PROVE ServesItsImage
    <2> SUFFICES ASSUME NEW a \in mounted PROVE bound[dev[a]] = a /\ dev[a] \in ready
      BY DEF ServesItsImage
    <2>1. a = "root" \/ a = "kernel"
      BY <1>1 DEF IInv, TypeOK, Attachers
    <2>2. CASE a = "root"
      BY <1>1, <2>2 DEF IInv, MountInv, HeldInv, Attached, Entered
    <2>3. CASE a = "kernel"
      BY <1>1, <2>3 DEF IInv, KernelInv
    <2> QED BY <2>1, <2>2, <2>3
  <1>2. IInv => ServesItsImage
    BY <1>1
  <1> QED BY <1>2, Invariance, PTL

\* When the process is gone no device is left bound to an image of its own, unless
\* a clean-up call failed.
THEOREM Released == Spec => []ReleasedAtExit
  <1>1. IInv => ReleasedAtExit
    BY DEF IInv, OwnInv, ReleasedAtExit, Attachers, Attached, Entered, Inside, InsidePCs,
           AttachPCs
  <1> QED BY <1>1, Invariance, PTL

\* The goroutine that sets autoclear touches no device of somebody else, but for
\* the moment between the two calls of Detach.
THEOREM Confined == Spec => AutoclearConfined
  <1>1. ASSUME IInv, [Next]_vars,
               gpc = "set", gpc' = "over", auto' # auto \/ ready' # ready
        PROVE  bound[dev["root"]] = "root" \/ pc = "close"
    <2>1. SetStatusAuto
      <3>1. ~(UNCHANGED vars)
        BY <1>1 DEF vars
      <3>2. Main => gpc' \in {gpc, "sleep", "none"}
        BY DEF Main, EnsureLoop, FindRoot, InFile, StatRoot, OpenBacking, FindDevice,
               OpenDevice, SetFd, SetStatus, Undo, UndoClose, ExecEnterRoot, EnterRoot,
               SetupKernel, KernelGetStatus, KernelSetStatus, KernelMount, DetachPathOpen,
               DetachPathClear, DetachPathClose, ChildExit, DetachSwap, DetachClear,
               DetachClose, Exit, goroutine
      <3>3. Others => gpc' = gpc
        BY DEF Others, OtherAttach, OtherDetach, goroutine
      <3>4. Wake \/ GetStatus => gpc # "set"
        BY DEF Wake, GetStatus
      <3> QED BY <1>1, <3>1, <3>2, <3>3, <3>4 DEF Next, Goroutine
    <2>2. Answers
      BY <1>1, <2>1 DEF SetStatusAuto
    <2> QED BY <1>1, <2>2 DEF Answers, IInv, LateInv, AttachPCs
  <1>2. IInv /\ [Next]_vars =>
            [gpc = "set" /\ gpc' = "over" /\ (auto' # auto \/ ready' # ready) =>
                bound[dev["root"]] = "root" \/ pc = "close"]_vars
    BY <1>1
  <1> QED BY <1>2, Invariance, PTL DEF Spec, AutoclearConfined
=============================================================================
