------------------------------- MODULE RootImage -------------------------------
(***************************************************************************)
(* The loop devices of a boot: enterchroot.Mount and run                   *)
(* (internal/enterchroot/enter.go, ensureloop.go), the Attacher and Device *)
(* of internal/loopdev, SetupKernel's use of them (bootstrap.go) and       *)
(* DetachPath (osimpl/loopdetach.go), which the disk handler calls.        *)
(*                                                                         *)
(* The program runs as process 1, which executes enter-root in its place,  *)
(* or as an ordinary process that starts it as a child and waits.  Next to *)
(* the main thread there is the goroutine that sets autoclear, and another *)
(* program on the machine that uses loop devices too.                      *)
(*                                                                         *)
(* A device is bound to a file named by who attached it.  A block device   *)
(* counts its openers: descriptors and mounts.  Autoclear unbinds it when  *)
(* the last one goes; LOOP_CLR_FD does so at once for the only opener and  *)
(* otherwise sets autoclear.  Descriptors are opened without O_CLOEXEC and *)
(* survive an exec.                                                        *)
(***************************************************************************)
EXTENDS ImageScan

CONSTANTS
    Devs,           \* the loop devices of the machine
    Loop0,          \* /dev/loop0
    NoDev,          \* no device
    MaxFaults       \* bound on failing calls

Attachers == {"root", "kernel"}

Owners == {"root", "kernel", "other", "nobody"}

\* Openers of a device: the descriptors of the two Device objects, the one of
\* DetachPath, and the two mounts.
Openers == {"root", "kernel", "path", "rootMount", "kernelMount"}

ASSUME DeviceAssumption ==
    Loop0 \in Devs /\ NoDev \notin Devs /\ MaxFaults \in Nat

VARIABLES
    \* the kernel
    bound,          \* bound[d]: whose file d is bound to
    auto,           \* devices with LO_FLAGS_AUTOCLEAR
    ready,          \* devices whose offset is the one their owner wants
    open,           \* <<d, o>>: o has d open
    \* the program
    isPid1,         \* os.Getpid() == 1
    pc,             \* the next call of the main thread
    who,            \* for whom Attach runs
    dev,            \* dev[a]: the path of a's device
    mounted,        \* the attachers whose image is mounted
    closed,         \* Device.closed of the root image's device
    gpc,            \* the next call of the goroutine
    seen,           \* whose status the goroutine's LOOP_GET_STATUS64 returned
    \* history
    leaked,         \* a clean-up call failed; the failure was logged
    faults

kernelVars == <<bound, auto, ready, open>>
vars == <<scanVars, kernelVars, isPid1, pc, who, dev, mounted, closed, gpc,
          seen, leaked, faults>>

PCs == {"ensure", "find", "scan", "stat", "open", "finddev", "opendev", "setfd",
        "setstatus", "undo", "undoclose", "exec", "enter", "boot", "kget",
        "kset", "kmount", "up", "path", "pathclose", "done", "rescue",
        "dead", "cas", "clr", "close", "returned", "exited"}

GPCs == {"none", "sleep", "get", "set", "over"}

\* The program that enter-root has become; a child when isPid1 is false.
InsidePCs == {"enter", "boot", "kget", "kset", "kmount", "up", "path",
              "pathclose", "done", "rescue"}

\* Attach at work.
AttachPCs == {"open", "finddev", "opendev", "setfd", "setstatus", "undo",
              "undoclose"}

TypeOK ==
    /\ ScanTypeOK
    /\ bound \in [Devs -> Owners]
    /\ auto \in SUBSET Devs
    /\ ready \in SUBSET Devs
    /\ open \in SUBSET (Devs \X Openers)
    /\ isPid1 \in BOOLEAN
    /\ pc \in PCs
    /\ who \in Attachers
    /\ dev \in [Attachers -> Devs \cup {NoDev}]
    /\ mounted \in SUBSET Attachers
    /\ closed \in BOOLEAN
    /\ gpc \in GPCs
    /\ seen \in Owners
    /\ leaked \in BOOLEAN
    /\ faults \in Nat

Init ==
    /\ ScanInit
    /\ bound = [d \in Devs |-> "nobody"]
    /\ auto = {} /\ ready = {} /\ open = {}
    /\ isPid1 \in BOOLEAN
    /\ pc = "ensure" /\ who = "root"
    /\ dev = [a \in Attachers |-> NoDev]
    /\ mounted = {} /\ closed = FALSE
    /\ gpc = "none" /\ seen = "nobody"
    /\ leaked = FALSE /\ faults = 0

-----------------------------------------------------------------------------
(* The kernel.                                                             *)

prog == <<isPid1, who, dev, mounted, closed>>
goroutine == <<gpc, seen>>

\* A call fails for a reason of its own.
Fault == faults < MaxFaults /\ faults' = faults + 1

Goto(l) == pc' = l

HasOpener(d, opened) == \E o \in Openers : <<d, o>> \in opened

\* The openers of S go; a device with autoclear loses its file with the last.
CloseAll(S) ==
    LET rest == open \ S
        gone == {d \in auto : HasOpener(d, S \cap open) /\ ~HasOpener(d, rest)}
    IN  /\ open' = rest
        /\ bound' = [d \in Devs |-> IF d \in gone THEN "nobody" ELSE bound[d]]
        /\ auto' = auto \ gone
        /\ ready' = ready \ gone

\* LOOP_CLR_FD on d, called through the opener o.
ClearFd(d, o) ==
    IF HasOpener(d, open \ {<<d, o>>})
    THEN auto' = auto \cup {d} /\ UNCHANGED <<bound, ready>>
    ELSE /\ bound' = [bound EXCEPT ![d] = "nobody"]
         /\ auto' = auto \ {d}
         /\ ready' = ready \ {d}

\* Another program binds a free device to a file of its own, with losetup.
OtherAttach(d) ==
    /\ bound[d] = "nobody"
    /\ bound' = [bound EXCEPT ![d] = "other"]
    /\ auto' = auto \ {d}
    /\ ready' = ready \cup {d}
    /\ UNCHANGED <<scanVars, open, prog, goroutine, pc, leaked, faults>>

\* And gives it up again.
OtherDetach(d) ==
    /\ bound[d] = "other"
    /\ ClearFd(d, "path")
    /\ UNCHANGED <<scanVars, open, prog, goroutine, pc, leaked, faults>>

-----------------------------------------------------------------------------
(* Mount, up to the attachment.                                            *)

\* The deferred Detach, once it is registered; then Mount has returned.
Unwind == IF dev["root"] # NoDev THEN "cas" ELSE "returned"

\* mountProc, mountDev and the nodes /dev/loop0 to 6.
EnsureLoop ==
    /\ pc = "ensure"
    /\ \/ Goto("find") /\ UNCHANGED faults
       \/ Fault /\ Goto("returned")
    /\ UNCHANGED <<scanVars, kernelVars, prog, goroutine, leaked>>

\* ENTER_ROOT or a file next to the binary names the root; otherwise inFile
\* looks for it in the binary.
FindRoot ==
    /\ pc = "find"
    /\ \/ Goto("stat") /\ UNCHANGED scanVars
       \/ Goto("scan") /\ StartScan
    /\ UNCHANGED <<kernelVars, prog, goroutine, leaked, faults>>

\* inFile at work, and its result.
InFile ==
    /\ pc = "scan"
    /\ \/ ScanNext /\ UNCHANGED pc
       \/ EndScan /\ Goto(IF scan = "hit" THEN "stat" ELSE "returned")
    /\ UNCHANGED <<kernelVars, prog, goroutine, leaked, faults>>

\* os.Stat(root): a file is attached to a loop device, a directory is not.
StatRoot ==
    /\ pc = "stat"
    /\ \/ pc' \in {"open", "exec"} /\ UNCHANGED faults
       \/ Fault /\ Goto("returned")
    /\ UNCHANGED <<scanVars, kernelVars, prog, goroutine, leaked>>

-----------------------------------------------------------------------------
(* Attacher.Attach, for the root image and for the kernel's.               *)

\* Attach returns an error to Mount, or to SetupKernel and so to the boot.
AttachFails == Goto(IF who = "root" THEN "returned" ELSE "rescue")

OpenBacking ==
    /\ pc = "open"
    /\ \/ Goto("finddev") /\ UNCHANGED faults
       \/ Fault /\ AttachFails
    /\ UNCHANGED <<scanVars, kernelVars, prog, goroutine, leaked>>

\* Mutant: the error of FindDevice is not looked at.
FindDeviceUnchecked ==
    /\ pc = "finddev"
    /\ \/ /\ \E d \in Devs : bound[d] = "nobody" /\ dev' = [dev EXCEPT ![who] = d]
          /\ UNCHANGED faults
       \/ Fault /\ UNCHANGED dev
    /\ Goto("opendev")
    /\ UNCHANGED <<scanVars, kernelVars, isPid1, who, mounted, closed, goroutine, leaked>>

\* LOOP_CTL_GET_FREE names a device that is free now.
FindDevice ==
    /\ pc = "finddev"
    /\ \/ /\ \E d \in Devs : bound[d] = "nobody" /\ dev' = [dev EXCEPT ![who] = d]
          /\ Goto("opendev") /\ UNCHANGED faults
       \/ Fault /\ AttachFails /\ UNCHANGED dev
       \/ /\ \A d \in Devs : bound[d] # "nobody"
          /\ AttachFails /\ UNCHANGED <<dev, faults>>
    /\ UNCHANGED <<scanVars, kernelVars, isPid1, who, mounted, closed, goroutine, leaked>>

OpenDevice ==
    /\ pc = "opendev"
    /\ \/ open' = open \cup {<<dev[who], who>>} /\ Goto("setfd") /\ UNCHANGED faults
       \/ Fault /\ AttachFails /\ UNCHANGED open
    /\ UNCHANGED <<scanVars, bound, auto, ready, prog, goroutine, leaked>>

\* LOOP_SET_FD: EBUSY if somebody was faster.
SetFdWorks ==
    /\ bound[dev[who]] = "nobody"
    /\ bound' = [bound EXCEPT ![dev[who]] = who]
    /\ auto' = auto \ {dev[who]}
    /\ ready' = ready \ {dev[who]}
    /\ Goto("setstatus")
    /\ UNCHANGED <<open, faults>>

\* Mutant: the error of LOOP_SET_FD is not looked at.
SetFdUnchecked ==
    /\ pc = "setfd"
    /\ \/ SetFdWorks
       \/ /\ bound[dev[who]] # "nobody"
          /\ Goto("setstatus")
          /\ UNCHANGED <<kernelVars, faults>>
    /\ UNCHANGED <<scanVars, prog, goroutine, leaked>>

\* On failure the descriptor is closed and Attach returns.
SetFd ==
    /\ pc = "setfd"
    /\ \/ SetFdWorks
       \/ /\ \/ bound[dev[who]] # "nobody" /\ UNCHANGED faults
             \/ Fault
          /\ CloseAll({<<dev[who], who>>})
          /\ AttachFails
    /\ UNCHANGED <<scanVars, prog, goroutine, leaked>>

\* LOOP_SET_STATUS64 with the offset and no autoclear.  Mount then starts the
\* goroutine that sleeps for three seconds.
SetStatus ==
    /\ pc = "setstatus"
    /\ \/ /\ ready' = ready \cup {dev[who]}
          /\ auto' = auto \ {dev[who]}
          /\ IF who = "root" THEN gpc' = "sleep" /\ Goto("exec")
                             ELSE UNCHANGED gpc /\ Goto("kget")
          /\ UNCHANGED faults
       \/ Fault /\ Goto("undo") /\ UNCHANGED <<ready, auto, gpc>>
    /\ UNCHANGED <<scanVars, bound, open, prog, seen, leaked>>

\* Mutant: the device is not cleared when its status could not be set.
UndoNothing ==
    /\ pc = "undo"
    /\ Goto("undoclose")
    /\ UNCHANGED <<scanVars, kernelVars, prog, goroutine, leaked, faults>>

\* LOOP_CLR_FD after the failure; that it fails too is only logged.
Undo ==
    /\ pc = "undo"
    /\ \/ ClearFd(dev[who], who) /\ UNCHANGED <<leaked, faults>>
       \/ Fault /\ leaked' = TRUE /\ UNCHANGED <<bound, auto, ready>>
    /\ Goto("undoclose")
    /\ UNCHANGED <<scanVars, open, prog, goroutine>>

UndoClose ==
    /\ pc = "undoclose"
    /\ CloseAll({<<dev[who], who>>})
    /\ AttachFails
    /\ UNCHANGED <<scanVars, prog, goroutine, leaked, faults>>

-----------------------------------------------------------------------------
(* Mount, after the attachment; enter-root; the boot it becomes.           *)

\* syscall.Exec ends the goroutine; cmd.Run starts a child and leaves it.
ExecEnterRoot ==
    /\ pc = "exec"
    /\ \/ /\ Goto("enter") /\ UNCHANGED faults
          /\ gpc' = IF isPid1 THEN "none" ELSE gpc
       \/ Fault /\ Goto(Unwind) /\ UNCHANGED gpc
    /\ UNCHANGED <<scanVars, kernelVars, prog, seen, leaked>>

\* a's device, if it has one, is mounted.
MountDevice(a, opener) ==
    IF dev[a] = NoDev THEN UNCHANGED <<open, mounted>>
    ELSE /\ bound[dev[a]] # "nobody"
         /\ open' = open \cup {<<dev[a], opener>>}
         /\ mounted' = mounted \cup {a}

\* What a child leaves when it is gone: no mount, no descriptor of its own.
\* A device that was being attached for the kernel's image stays bound.
ChildOpeners == Devs \X {"kernel", "path", "rootMount", "kernelMount"}

ChildGone ==
    /\ CloseAll(ChildOpeners)
    /\ mounted' = {}
    /\ leaked' = (leaked \/ \E d \in Devs \ auto : bound[d] = "kernel")
    /\ Goto(Unwind)

\* run: the mount on usr, the pivot and the exec of /init; or os.Exit(1), which
\* is the end of the machine in process 1.
EnterRoot ==
    /\ pc = "enter"
    /\ \/ /\ MountDevice("root", "rootMount")
          /\ Goto("boot")
          /\ UNCHANGED <<bound, auto, ready, leaked, faults>>
       \/ /\ Fault
          /\ IF isPid1 THEN Goto("dead") /\ UNCHANGED <<kernelVars, mounted, leaked>>
                       ELSE ChildGone
    /\ UNCHANGED <<scanVars, isPid1, who, dev, closed, goroutine>>

\* SetupKernel: no image for this kernel, or an image to attach.
SetupKernel ==
    /\ pc = "boot"
    /\ \/ Goto("up") /\ UNCHANGED <<who, faults>>
       \/ Goto("open") /\ who' = "kernel" /\ UNCHANGED faults
       \/ Fault /\ Goto("rescue") /\ UNCHANGED who
    /\ UNCHANGED <<scanVars, kernelVars, isPid1, dev, mounted, closed, goroutine, leaked>>

\* SetAutoclear, before the mount; its error is discarded.
KernelGetStatus ==
    /\ pc = "kget"
    /\ \/ Goto("kset") /\ UNCHANGED faults
       \/ Fault /\ Goto("kmount")
    /\ UNCHANGED <<scanVars, kernelVars, prog, goroutine, leaked>>

KernelSetStatus ==
    /\ pc = "kset"
    /\ \/ auto' = auto \cup {dev["kernel"]} /\ UNCHANGED faults
       \/ Fault /\ UNCHANGED auto
    /\ Goto("kmount")
    /\ UNCHANGED <<scanVars, bound, ready, open, prog, goroutine, leaked>>

KernelMount ==
    /\ pc = "kmount"
    /\ \/ /\ MountDevice("kernel", "kernelMount")
          /\ Goto("up") /\ UNCHANGED faults
       \/ Fault /\ Goto("rescue") /\ UNCHANGED <<open, mounted>>
    /\ UNCHANGED <<scanVars, bound, auto, ready, isPid1, who, dev, closed, goroutine, leaked>>

\* DetachPath("/dev/loop0") in the disk handler; other modes have none.  Its
\* error is discarded.
DetachPathOpen ==
    /\ pc = "up"
    /\ \/ open' = open \cup {<<Loop0, "path">>} /\ Goto("path")
       \/ Goto("done") /\ UNCHANGED open
    /\ UNCHANGED <<scanVars, bound, auto, ready, prog, goroutine, leaked, faults>>

DetachPathClear ==
    /\ pc = "path"
    /\ \/ bound[Loop0] # "nobody" /\ ClearFd(Loop0, "path") /\ UNCHANGED faults
       \/ bound[Loop0] = "nobody" /\ UNCHANGED <<bound, auto, ready, faults>>
       \/ Fault /\ UNCHANGED <<bound, auto, ready>>
    /\ Goto("pathclose")
    /\ UNCHANGED <<scanVars, open, prog, goroutine, leaked>>

DetachPathClose ==
    /\ pc = "pathclose"
    /\ CloseAll({<<Loop0, "path">>})
    /\ Goto("done")
    /\ UNCHANGED <<scanVars, prog, goroutine, leaked, faults>>

\* The child ends, of its own accord or killed, and cmd.Run returns.
Inside == pc \in InsidePCs \/ (who = "kernel" /\ pc \in AttachPCs)

ChildExit ==
    /\ ~isPid1
    /\ Inside
    /\ ChildGone
    /\ UNCHANGED <<scanVars, isPid1, who, dev, closed, goroutine, faults>>

-----------------------------------------------------------------------------
(* The deferred Detach, and the end of the process.                        *)

DetachSwap ==
    /\ pc = "cas"
    /\ closed' = TRUE
    /\ Goto(IF closed THEN "returned" ELSE "clr")
    /\ UNCHANGED <<scanVars, kernelVars, isPid1, who, dev, mounted, goroutine, leaked, faults>>

\* On failure closed is reverted and the descriptor stays open.
DetachClear ==
    /\ pc = "clr"
    /\ \/ /\ bound[dev["root"]] # "nobody"
          /\ ClearFd(dev["root"], "root")
          /\ Goto("close") /\ UNCHANGED <<closed, leaked, faults>>
       \/ /\ \/ bound[dev["root"]] = "nobody" /\ UNCHANGED <<leaked, faults>>
             \/ Fault /\ leaked' = TRUE
          /\ closed' = FALSE
          /\ Goto("returned")
          /\ UNCHANGED <<bound, auto, ready>>
    /\ UNCHANGED <<scanVars, open, isPid1, who, dev, mounted, goroutine>>

\* Mutant: the descriptor is not closed.
DetachForgetsClose ==
    /\ pc = "close"
    /\ Goto("returned")
    /\ UNCHANGED <<scanVars, kernelVars, prog, goroutine, leaked, faults>>

DetachClose ==
    /\ pc = "close"
    /\ CloseAll({<<dev["root"], "root">>})
    /\ Goto("returned")
    /\ UNCHANGED <<scanVars, prog, goroutine, leaked, faults>>

\* Mount has returned to initrd, which exits, with or without an error.
Exit ==
    /\ pc = "returned"
    /\ CloseAll(Devs \X {"root"})
    /\ gpc' = "none"
    /\ Goto("exited")
    /\ UNCHANGED <<scanVars, prog, seen, leaked, faults>>

-----------------------------------------------------------------------------
(* The goroutine of Mount: SetAutoclear after three seconds.               *)

Wake ==
    /\ gpc = "sleep"
    /\ gpc' = IF closed THEN "over" ELSE "get"
    /\ UNCHANGED <<scanVars, kernelVars, prog, pc, seen, leaked, faults>>

\* An ioctl through the device's descriptor finds a file.
Answers == <<dev["root"], "root">> \in open /\ bound[dev["root"]] # "nobody"

GetStatus ==
    /\ gpc = "get"
    /\ \/ Answers /\ gpc' = "set" /\ seen' = bound[dev["root"]] /\ UNCHANGED faults
       \/ ~Answers /\ gpc' = "over" /\ UNCHANGED <<seen, faults>>
       \/ Fault /\ gpc' = "over" /\ UNCHANGED seen
    /\ UNCHANGED <<scanVars, kernelVars, prog, pc, leaked>>

\* The status that was read goes back with autoclear, offset included.
SetStatusAuto ==
    /\ gpc = "set"
    /\ gpc' = "over"
    /\ \/ /\ Answers
          /\ auto' = auto \cup {dev["root"]}
          /\ ready' = IF bound[dev["root"]] = seen THEN ready ELSE ready \ {dev["root"]}
          /\ UNCHANGED faults
       \/ ~Answers /\ UNCHANGED <<auto, ready, faults>>
       \/ Fault /\ UNCHANGED <<auto, ready>>
    /\ UNCHANGED <<scanVars, bound, open, prog, pc, seen, leaked>>

-----------------------------------------------------------------------------
Main ==
    \/ EnsureLoop \/ FindRoot \/ InFile \/ StatRoot
    \/ OpenBacking \/ FindDevice \/ OpenDevice \/ SetFd \/ SetStatus
    \/ Undo \/ UndoClose
    \/ ExecEnterRoot \/ EnterRoot
    \/ SetupKernel \/ KernelGetStatus \/ KernelSetStatus \/ KernelMount
    \/ DetachPathOpen \/ DetachPathClear \/ DetachPathClose
    \/ ChildExit
    \/ DetachSwap \/ DetachClear \/ DetachClose \/ Exit

Goroutine == Wake \/ GetStatus \/ SetStatusAuto

Others == \E d \in Devs : OtherAttach(d) \/ OtherDetach(d)

Next == Main \/ Goroutine \/ Others

Spec == Init /\ [][Next]_vars

-----------------------------------------------------------------------------
\* A filesystem mounted from a loop device is the image it was attached for, at
\* the right offset, as long as it is mounted: whoever takes devices between
\* FindDevice and LOOP_SET_FD (loopdev.go:133-148), although SetupKernel sets
\* autoclear before it mounts (bootstrap.go:218), although the disk handler
\* detaches /dev/loop0 without knowing what it is (disk.go:427), and whenever
\* the goroutine of Mount wakes up (enter.go:131).
ServesItsImage ==
    \A a \in mounted : bound[dev[a]] = a /\ dev[a] \in ready

\* When Mount has returned and the process is gone, no loop device is left bound
\* to its image or to that of its child, unless a clean-up call failed (which is
\* logged) or the child died in the middle of Attach (enter.go:124, loopdev.go:160).
ReleasedAtExit ==
    pc = "exited" /\ ~leaked => \A d \in Devs : bound[d] \notin Attachers

\* The goroutine may come too late: SetAutoclear checks `closed` once, and its
\* two ioctls follow (loopdev.go:206-217).  It still never changes a device that
\* belongs to somebody else, except between the two calls of Detach, when the
\* device is free and the descriptor still open (loopdev.go:194-198).
AutoclearConfined ==
    [][gpc = "set" /\ gpc' = "over" /\ (auto' # auto \/ ready' # ready) =>
          bound[dev["root"]] = "root" \/ pc = "close"]_vars
=============================================================================
