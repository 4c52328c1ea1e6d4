-------------------------------- MODULE DiskBoot --------------------------------
(***************************************************************************)
(* The disk mode of a boot (internal/boot/modes/disk.go): DiskHandler runs *)
(* Execute on every power-on of an installed machine, on a K3OS_STATE      *)
(* partition that keeps what earlier boots left there.                     *)
(*                                                                         *)
(* One action per call that changes the disk, in the order of Execute; the *)
(* machine may lose power between any two of them and any call may fail.   *)
(* A failure that Execute returns ends in the rescue shell; one that the   *)
(* code ignores or only logs leaves the disk as it was and goes on.        *)
(*                                                                         *)
(* The filesystem keeps names in a journal, in order, and writes the       *)
(* contents of a file later: a power cut after a copy that nothing has     *)
(* flushed may leave it empty or torn under its final name.                *)
(*                                                                         *)
(* The second pass of the boot, in local mode, is the state "local": there *)
(* the user writes data and asks for resets.                               *)
(***************************************************************************)
EXTENDS Naturals, DiskOutcome

CONSTANTS
    K3sNames,       \* names of directories in k3os/system/k3s, as numbers in
                    \* the order ReadDir lists them
    Disks,          \* the states in which the first boot may find the disk
    MaxFaults,      \* bound on failing calls
    MaxCrashes      \* bound on power cuts and restarts

\* Marker files in k3os/system.
Markers == {"growpart", "takeover", "poweroff", "factory-reset", "ephemeral"}

\* Places where a takeover finds files of the system it replaces.
Places == {"root", "sbin", "boot"}

\* What the first boot may find: a freshly written image, an installed machine,
\* or (takeover) another system, whose sbin may be a link into usr.
DiskRecords ==
    {d \in [base : SUBSET {"k3os", "kernel"}, markers : SUBSET Markers,
            data : {"none", "some"}, foreign : SUBSET Places,
            sbin : {"dir", "link", "none"}, init : {"none", "link", "astray"},
            k3osLink : {"none", "other", "broken"}, kernel : {"none", "full"},
            k3sDirs : SUBSET K3sNames, k3sLink : K3sNames \cup {0}] :
        /\ d.foreign # {} => "takeover" \in d.markers
        /\ d.sbin = "link" => "root" \in d.foreign /\ "sbin" \notin d.foreign
        /\ d.init = "link" => d.sbin = "dir"
        /\ d.init = "astray" => d.sbin = "link"
        /\ d.k3sLink \in d.k3sDirs \cup {0}}

ASSUME ConstantsAssumption ==
    /\ K3sNames \subseteq Nat \ {0}
    /\ Disks \subseteq DiskRecords
    /\ MaxFaults \in Nat
    /\ MaxCrashes \in Nat

VARIABLES
    base,           \* the files of /.base: a subset of {"k3os", "kernel"}
    pc,             \* the next call of Execute, or where the machine is
    target,         \* K3OS_STATE on /run/k3os/target: "mounted" or "unmounted"
    markers,        \* the marker files present
    data,           \* k3os/data: "none" or "some"
    foreign,        \* the Places with files of another system
    sbin,           \* sbin is a directory or a symbolic link: "dir", "link", "none"
    init,           \* sbin/init: "none", "link" (to k3os), or "astray": a relative link
                    \* that a link sbin has led to another directory
    k3osFile, k3osTmp,  \* k3os/<VersionID>/k3os and k3os.tmp: "none", "part", "full"
    k3osLink,       \* k3os/current: "none", "mine", "other" (resolves), "broken"
    kernel,         \* kernel.squashfs: "none", "part", "full"
    k3sDirs,        \* the directories in k3os/system/k3s
    k3sLink,        \* k3s/current, or 0 if it resolves to no k3s binary
    part, fs,       \* size of the partition and of its filesystem: "small", "big"
    dirty,          \* of "k3os" and "kernel", the copies whose contents are not flushed
    \* history, read by properties and bounds only
    notes,          \* "owed": data that a reset must erase; "eraseFailed" and
                    \* "growFailed": a failure the code ignored or logged; "torn": a
                    \* power cut has taken the contents of the copied binary
    faults, crashes,
    found, since    \* the Condition of the disk, and faults, when Execute began

grow == <<part, fs>>
k3os == <<k3osFile, k3osTmp, k3osLink>>
k3s == <<k3sDirs, k3sLink>>
links == <<base, sbin, init, k3os, kernel, k3s>>
content == <<data, foreign>>
history == <<crashes, found, since>>
ledger == <<dirty, history>>
vars == <<pc, target, markers, content, links, grow, notes, faults, ledger>>

Notes == {"owed", "eraseFailed", "growFailed", "torn"}

\* Where the boot has ended: nobody continues but the user.
Ends == {"local", "rescue", "panic", "halted"}

Calls == {"resolve", "growpart", "grow", "resize", "remount", "ungrow",
          "k3os", "k3oscopy", "k3osrename", "k3oslink", "k3osrelink",
          "kernel", "kernelcopy", "init", "k3s",
          "takeover", "sbin", "sweep", "sweepsbin", "sweepboot", "untakeover", "erase",
          "halt", "poweroff", "reboot", "ephemeral", "unreset", "pivot", "exec"}

TypeOK ==
    /\ base \in SUBSET {"k3os", "kernel"}
    /\ pc \in {"off"} \cup Ends \cup Calls
    /\ target \in {"mounted", "unmounted"}
    /\ markers \in SUBSET Markers
    /\ data \in {"none", "some"}
    /\ foreign \in SUBSET Places
    /\ sbin \in {"dir", "link", "none"}
    /\ init \in {"none", "link", "astray"}
    /\ k3osFile \in {"none", "part", "full"}
    /\ k3osTmp \in {"none", "part", "full"}
    /\ k3osLink \in {"none", "mine", "other", "broken"}
    /\ kernel \in {"none", "part", "full"}
    /\ k3sDirs \in SUBSET K3sNames
    /\ k3sLink \in k3sDirs \cup {0}
    /\ part \in {"small", "big"} /\ fs \in {"small", "big"}
    /\ dirty \in SUBSET {"k3os", "kernel"}
    /\ notes \in SUBSET Notes
    /\ faults \in Nat /\ crashes \in Nat
    /\ found \in SUBSET Facts /\ since \in 0 .. faults

\* /sbin/init leads to a complete k3os binary, if it is there.
K3osUsable == k3osLink = "other" \/ (k3osLink = "mine" /\ k3osFile = "full")

\* A link sbin whose target a takeover has swept away.
SbinDangles == sbin = "link" /\ "root" \notin foreign

\* SetupInit or SetupK3OS cannot do what it is there for: no takeover will remove the
\* link sbin, there is no binary to copy, or a torn one that SetupK3OS takes for whole.
Broken ==
    \/ sbin = "link" /\ ("takeover" \notin markers \/ "root" \notin foreign)
    \/ ~K3osUsable /\ ("k3os" \notin base \/ k3osFile = "part")

\* What the rest of the boot can tell of the disk.
Condition ==
    {f \in Facts :
        \/ f \in {"takeover", "growpart"} /\ f \in markers
        \/ f = "hostname" /\ data = "some"
        \/ f = "kernel" /\ kernel = "full"
        \/ f = "torn" /\ kernel = "part"
        \/ f = "broken" /\ Broken}

Init ==
    /\ \E d \in Disks :
           /\ base = d.base /\ markers = d.markers /\ data = d.data
           /\ foreign = d.foreign /\ sbin = d.sbin /\ init = d.init
           /\ k3osLink = d.k3osLink /\ kernel = d.kernel
           /\ k3sDirs = d.k3sDirs /\ k3sLink = d.k3sLink
    /\ pc = "off" /\ target = "unmounted"
    /\ k3osFile = "none" /\ k3osTmp = "none"
    /\ part = "small" /\ fs = "small" /\ dirty = {}
    /\ notes = {} /\ faults = 0 /\ crashes = 0
    /\ found = Condition /\ since = 0

-----------------------------------------------------------------------------
Fault == faults < MaxFaults /\ faults' = faults + 1

\* Execute returns an error and Init.Run starts the rescue shell.
Rescue == Fault /\ pc' = "rescue"

\* The call succeeds and Execute goes on with the call named c.
Then(c) == pc' = c /\ UNCHANGED faults

\* This call has nothing to do.
Skip(c) ==
    /\ Then(c)
    /\ UNCHANGED <<target, markers, content, links, grow, notes, ledger>>

Resets == {"takeover", "factory-reset", "ephemeral"}

\* Power on: any reset that is asked for now covers the data there is now.
PowerOn ==
    /\ pc = "off"
    /\ Then("resolve")
    /\ target' = "unmounted"
    /\ notes' = (notes \ {"growFailed"}) \cup
                   IF markers \cap Resets # {} /\ data = "some" THEN {"owed"} ELSE {}
    /\ found' = Condition /\ since' = faults
    /\ UNCHANGED <<markers, content, links, grow, dirty, crashes>>

-----------------------------------------------------------------------------
(* SetupMounts.                                                            *)

\* mkdir, resolveStateDevice (retried), ProbeFS and the mount.
MountState ==
    /\ pc = "resolve"
    /\ \/ target' = "mounted" /\ Then("growpart")
       \/ Rescue /\ UNCHANGED target
    /\ UNCHANGED <<markers, content, links, grow, notes, ledger>>

\* Mutant: the marker is removed when it is read.
CheckGrowpartUnmarks ==
    /\ pc = "growpart"
    /\ \/ "growpart" \notin markers /\ Then("k3os") /\ UNCHANGED <<target, markers>>
       \/ /\ "growpart" \in markers
          /\ target' = "unmounted" /\ markers' = markers \ {"growpart"} /\ Then("grow")
    /\ UNCHANGED <<content, links, grow, notes, ledger>>

\* No marker, or a marker that names no device that can be found: done.
\* Otherwise the partition is unmounted to be grown.
CheckGrowpart ==
    /\ pc = "growpart"
    /\ \/ Then("k3os") /\ UNCHANGED target
       \/ "growpart" \in markers /\ target' = "unmounted" /\ Then("grow")
       \/ "growpart" \in markers /\ Rescue /\ UNCHANGED target
    /\ UNCHANGED <<markers, content, links, grow, notes, ledger>>

\* GrowPartition fails, before or after it has written the new table.
FailedGrow == Fault /\ part' \in {part, "big"}

\* A partition number that does not parse is an error; a failed grow is logged, and
\* the filesystem left alone.
GrowPartition ==
    /\ pc = "grow"
    /\ \/ part' = "big" /\ Then("resize") /\ UNCHANGED notes
       \/ /\ FailedGrow /\ pc' = "remount"
          /\ notes' = notes \cup {"growFailed"}
       \/ Rescue /\ UNCHANGED <<part, notes>>
    /\ UNCHANGED <<target, markers, content, links, fs, ledger>>

\* e2fsck and resize2fs; failures are logged.
ResizeFS ==
    /\ pc = "resize"
    /\ pc' = "remount"
    /\ \/ fs' = part /\ UNCHANGED <<faults, notes>>
       \/ Fault /\ notes' = notes \cup {"growFailed"} /\ UNCHANGED fs
    /\ UNCHANGED <<target, markers, content, links, part, ledger>>

RemountState ==
    /\ pc = "remount"
    /\ \/ target' = "mounted" /\ Then("ungrow")
       \/ Rescue /\ UNCHANGED target
    /\ UNCHANGED <<markers, content, links, grow, notes, ledger>>

RemoveGrowpart ==
    /\ pc = "ungrow"
    /\ pc' = "k3os"
    /\ \/ markers' = markers \ {"growpart"} /\ UNCHANGED faults
       \/ Fault /\ UNCHANGED markers
    /\ UNCHANGED <<target, content, links, grow, notes, ledger>>

-----------------------------------------------------------------------------
(* SetupK3OS, SetupKernelSquashfs, SetupInit and SetupK3s.                 *)

\* Stat(current/k3os): whatever is there, complete or not.
K3osFound == k3osLink = "other" \/ (k3osLink = "mine" /\ k3osFile # "none")

\* Mutant: cp writes the version's file itself, without the temporary name.
StartK3osCopyInPlace ==
    /\ pc = "k3os"
    /\ \/ (K3osFound \/ "k3os" \notin base) /\ Then("kernel") /\ UNCHANGED <<k3osTmp, k3osFile>>
       \/ /\ ~K3osFound /\ "k3os" \in base /\ k3osFile # "none"
          /\ Then("k3oslink") /\ UNCHANGED <<k3osTmp, k3osFile>>
       \/ /\ ~K3osFound /\ "k3os" \in base /\ k3osFile = "none"
          /\ k3osFile' = "part" /\ Then("k3oscopy") /\ UNCHANGED k3osTmp
    /\ UNCHANGED <<target, markers, content, base, sbin, init, k3osLink, kernel, k3s,
                   grow, notes, ledger>>

\* `current` works, or there is nothing to copy: done.  Otherwise the binary is
\* copied to a temporary name, unless an earlier boot got as far as the rename.
StartK3osCopy ==
    /\ pc = "k3os"
    /\ \/ (K3osFound \/ "k3os" \notin base) /\ Then("kernel") /\ UNCHANGED k3osTmp
       \/ /\ ~K3osFound /\ "k3os" \in base
          /\ \/ k3osFile # "none" /\ Then("k3oslink") /\ UNCHANGED k3osTmp
             \/ k3osFile = "none" /\ k3osTmp' = "part" /\ Then("k3oscopy")
             \/ k3osFile = "none" /\ Rescue /\ UNCHANGED k3osTmp
    /\ UNCHANGED <<target, markers, content, base, sbin, init, k3osFile, k3osLink, kernel, k3s,
                   grow, notes, ledger>>

FinishK3osCopy ==
    /\ pc = "k3oscopy"
    /\ \/ k3osTmp' = "full" /\ Then("k3osrename")
       \/ Rescue /\ UNCHANGED k3osTmp
    /\ UNCHANGED <<target, markers, content, base, sbin, init, k3osFile, k3osLink, kernel, k3s,
                   grow, notes, ledger>>

\* The file gets its name; nobody has flushed its contents.
RenameK3os ==
    /\ pc = "k3osrename"
    /\ \/ /\ k3osFile' = k3osTmp /\ k3osTmp' = "none" /\ Then("k3oslink")
          /\ dirty' = dirty \cup {"k3os"}
       \/ Rescue /\ UNCHANGED <<k3osFile, k3osTmp, dirty>>
    /\ UNCHANGED <<target, markers, content, base, sbin, init, k3osLink, kernel, k3s,
                   grow, notes, history>>

\* Symlink; if that fails, Remove (best effort) before a second attempt.
LinkK3os ==
    /\ pc = "k3oslink"
    /\ \/ k3osLink = "none" /\ k3osLink' = "mine" /\ Then("kernel")
       \/ k3osLink # "none" /\ k3osLink' = "none" /\ Then("k3osrelink")
       \/ Fault /\ pc' = "k3osrelink" /\ UNCHANGED k3osLink
    /\ UNCHANGED <<target, markers, content, base, sbin, init, k3osFile, k3osTmp, kernel, k3s,
                   grow, notes, ledger>>

RelinkK3os ==
    /\ pc = "k3osrelink"
    /\ \/ k3osLink = "none" /\ k3osLink' = "mine" /\ Then("kernel")
       \/ k3osLink # "none" /\ Then("rescue") /\ UNCHANGED k3osLink
       \/ Rescue /\ UNCHANGED k3osLink
    /\ UNCHANGED <<target, markers, content, base, sbin, init, k3osFile, k3osTmp, kernel, k3s,
                   grow, notes, ledger>>

\* The kernel image is copied under its final name.
StartKernelCopy ==
    /\ pc = "kernel"
    /\ \/ ("kernel" \notin base \/ kernel # "none") /\ Then("init") /\ UNCHANGED kernel
       \/ /\ "kernel" \in base /\ kernel = "none"
          /\ \/ kernel' = "part" /\ Then("kernelcopy")
             \/ Rescue /\ UNCHANGED kernel
    /\ UNCHANGED <<target, markers, content, base, sbin, init, k3os, k3s, grow, notes, ledger>>

\* Mutant: the error of cp is not looked at.
FinishKernelCopyUnchecked ==
    /\ pc = "kernelcopy" /\ pc' = "init"
    /\ \/ kernel' = "full" /\ UNCHANGED faults
       \/ Fault /\ UNCHANGED kernel
    /\ UNCHANGED <<target, markers, content, base, sbin, init, k3os, k3s, grow, notes, ledger>>

FinishKernelCopy ==
    /\ pc = "kernelcopy"
    /\ \/ kernel' = "full" /\ dirty' = dirty \cup {"kernel"} /\ Then("init")
       \/ Rescue /\ UNCHANGED <<kernel, dirty>>
    /\ UNCHANGED <<target, markers, content, base, sbin, init, k3os, k3s, grow, notes, history>>

\* Lstat(sbin/init), MkdirAll(sbin) and Symlink; MkdirAll fails on a dangling link,
\* and what is made through a link that leads somewhere goes astray.
SetupInit ==
    /\ pc = "init"
    /\ \/ init # "none" /\ Then("k3s") /\ UNCHANGED <<sbin, init>>
       \/ /\ init = "none" /\ ~SbinDangles
          /\ sbin' = IF sbin = "none" THEN "dir" ELSE sbin
          /\ init' = IF sbin = "link" THEN "astray" ELSE "link"
          /\ Then("k3s")
       \/ init = "none" /\ SbinDangles /\ Then("rescue") /\ UNCHANGED <<sbin, init>>
       \/ init = "none" /\ Rescue /\ UNCHANGED <<sbin, init>>
    /\ UNCHANGED <<target, markers, content, base, k3os, kernel, k3s, grow, notes, ledger>>

\* The loop over ReadDir stops at the first real directory; Remove(current) and
\* Symlink (a link that is gone and one that leads nowhere are both 0).
SetupK3s ==
    /\ pc = "k3s"
    /\ \/ (k3sLink # 0 \/ k3sDirs = {}) /\ Then("takeover") /\ UNCHANGED k3sLink
       \/ /\ k3sLink = 0 /\ k3sDirs # {}
          /\ \/ /\ k3sLink' \in {n \in k3sDirs : \A m \in k3sDirs : n <= m}
                /\ Then("takeover")
             \/ Rescue /\ UNCHANGED k3sLink
    /\ UNCHANGED <<target, markers, content, base, sbin, init, k3os, kernel, k3sDirs,
                   grow, notes, ledger>>

-----------------------------------------------------------------------------
(* Takeover and CleanupEphemeral.                                          *)

\* Mutant: no factory-reset marker is written.
MarkResetNever ==
    /\ pc = "takeover"
    /\ \/ "takeover" \notin markers /\ Then("ephemeral")
       \/ "takeover" \in markers /\ Then("sbin")
    /\ UNCHANGED <<target, markers, content, links, grow, notes, ledger>>

\* Mutant: the marker is written under a name CleanupEphemeral does not look for.
MarkResetMisnamed ==
    /\ pc = "takeover"
    /\ \/ "takeover" \notin markers /\ Then("ephemeral") /\ UNCHANGED markers
       \/ /\ "takeover" \in markers /\ Then("sbin")
          /\ markers' = markers \cup {"factoryreset"}
    /\ UNCHANGED <<target, content, links, grow, notes, ledger>>

\* Mutant: the takeover marker is taken away as soon as the reset is marked.
MarkResetUnmarks ==
    /\ pc = "takeover"
    /\ \/ "takeover" \notin markers /\ Then("ephemeral") /\ UNCHANGED markers
       \/ /\ "takeover" \in markers /\ Then("sbin")
          /\ markers' = (markers \ {"takeover"}) \cup {"factory-reset"}
    /\ UNCHANGED <<target, content, links, grow, notes, ledger>>

MarkReset ==
    /\ pc = "takeover"
    /\ \/ "takeover" \notin markers /\ Then("ephemeral") /\ UNCHANGED markers
       \/ /\ "takeover" \in markers
          /\ \/ markers' = markers \cup {"factory-reset"} /\ Then("sbin")
             \/ Rescue /\ UNCHANGED markers
    /\ UNCHANGED <<target, content, links, grow, notes, ledger>>

\* A symbolic link sbin is removed (best effort), and sbin/init with it.
UnlinkSbin ==
    /\ pc = "sbin"
    /\ pc' = "sweep"
    /\ \/ sbin = "link" /\ sbin' = "none" /\ init' = "none" /\ UNCHANGED faults
       \/ sbin # "link" /\ UNCHANGED <<sbin, init, faults>>
       \/ sbin = "link" /\ Fault /\ UNCHANGED <<sbin, init>>
    /\ UNCHANGED <<target, markers, content, base, k3os, kernel, k3s, grow, notes, ledger>>

\* RemoveAll of the other system's files in place x; a failure is ignored.
Sweep(x) ==
    \/ foreign' = foreign \ {x} /\ UNCHANGED <<notes, faults>>
    \/ x \in foreign /\ Fault /\ notes' = notes \cup {"eraseFailed"} /\ UNCHANGED foreign

\* Everything but boot, k3os and sbin; a failing ReadDir is an error.
SweepRoot ==
    /\ pc = "sweep"
    /\ \/ Sweep("root") /\ pc' = "sweepsbin"
       \/ Rescue /\ UNCHANGED <<foreign, notes>>
    /\ init' = IF sbin = "link" /\ "root" \notin foreign' THEN "none" ELSE init
    /\ UNCHANGED <<target, markers, data, base, sbin, k3os, kernel, k3s, grow, ledger>>

\* Everything in sbin but init, k3s and k3os.
SweepSbin ==
    /\ pc = "sweepsbin"
    /\ Sweep("sbin") /\ pc' = "sweepboot"
    /\ UNCHANGED <<target, markers, data, links, grow, ledger>>

\* Everything in boot but grub.
SweepBoot ==
    /\ pc = "sweepboot"
    /\ Sweep("boot") /\ pc' = "untakeover"
    /\ UNCHANGED <<target, markers, data, links, grow, ledger>>

\* Mutant: the takeover marker stays.
RemoveTakeoverNever == pc = "untakeover" /\ Skip("erase")

\* Remove(takeover), best effort.
RemoveTakeover ==
    /\ pc = "untakeover"
    /\ pc' = "erase"
    /\ \/ markers' = markers \ {"takeover"} /\ UNCHANGED faults
       \/ Fault /\ UNCHANGED markers
    /\ UNCHANGED <<target, content, links, grow, notes, ledger>>

\* RemoveAll(k3os/data), best effort; c is the call after it.
EraseThen(c) ==
    /\ pc' = c
    /\ \/ data' = "none" /\ notes' = notes \ {"owed"} /\ UNCHANGED faults
       \/ Fault /\ notes' = notes \cup {"eraseFailed"} /\ UNCHANGED data
    /\ UNCHANGED <<target, markers, foreign, links, grow, history>>

\* ... and sync, whose failure is ignored.
EraseTakenOver == pc = "erase" /\ EraseThen("halt") /\ dirty' \in {{}, dirty}

\* The poweroff marker chooses how the takeover ends; it is removed first.
ChooseHalt ==
    /\ pc = "halt"
    /\ \/ "poweroff" \notin markers /\ Then("reboot") /\ UNCHANGED markers
       \/ "poweroff" \in markers /\ markers' = markers \ {"poweroff"} /\ Then("poweroff")
       \/ "poweroff" \in markers /\ Fault /\ pc' = "poweroff" /\ UNCHANGED markers
    /\ UNCHANGED <<target, content, links, grow, notes, ledger>>

\* poweroff -f and reboot -f, which flush the disk; if they fail or return, Takeover
\* returns an error.
PowerOffOrReboot ==
    /\ pc \in {"poweroff", "reboot"}
    /\ \/ Then(IF pc = "poweroff" THEN "halted" ELSE "off") /\ dirty' = {}
       \/ Rescue /\ UNCHANGED dirty
    /\ UNCHANGED <<target, markers, content, links, grow, notes, history>>

\* A factory reset or an ephemeral machine: k3os/data is erased.
CleanupData ==
    /\ pc = "ephemeral"
    /\ \/ markers \cap {"factory-reset", "ephemeral"} = {} /\ Skip("pivot")
       \/ markers \cap {"factory-reset", "ephemeral"} # {} /\ EraseThen("unreset")
          /\ UNCHANGED dirty

\* Remove(factory-reset), best effort.
RemoveReset ==
    /\ pc = "unreset"
    /\ pc' = "pivot"
    /\ \/ markers' = markers \ {"factory-reset"} /\ UNCHANGED faults
       \/ Fault /\ UNCHANGED markers
    /\ UNCHANGED <<target, content, links, grow, notes, ledger>>

-----------------------------------------------------------------------------
(* PivotAndExec, and the machine around a boot.                            *)

\* DetachPath (best effort), the rprivate mount, mkdir and pivot_root.
PivotRoot ==
    /\ pc = "pivot"
    /\ Then("exec") \/ Rescue
    /\ UNCHANGED <<target, markers, content, links, grow, notes, ledger>>

\* /sbin/init can be executed in the new root.
Bootable ==
    /\ target = "mounted" /\ init = "link" /\ K3osUsable

\* The rescue shell is /bin/bash of the root the process now has; the root of
\* K3OS_STATE has one only while the files of another system are there.
AfterFailedExec == IF "root" \in foreign THEN "rescue" ELSE "panic"

ExecInit ==
    /\ pc = "exec"
    /\ \/ Bootable /\ Then("local")
       \/ ~Bootable /\ Then(AfterFailedExec)
       \/ Fault /\ pc' = AfterFailedExec
    /\ UNCHANGED <<target, markers, content, links, grow, notes, ledger>>

\* A running machine: its user writes to k3os/data and asks for resets.
UserWrites ==
    /\ pc = "local" /\ data' = "some"
    /\ UNCHANGED <<pc, target, markers, foreign, links, grow, notes, faults, ledger>>

UserRequestsReset ==
    /\ pc = "local"
    /\ \E m \in {"factory-reset", "ephemeral"} : markers' = markers \cup {m}
    /\ UNCHANGED <<pc, target, content, links, grow, notes, faults, ledger>>

\* A power cut, which may take what is not flushed, or the user restarts the machine.
PowerCycle ==
    /\ pc # "off" /\ crashes < MaxCrashes
    /\ pc' = "off" /\ crashes' = crashes + 1
    /\ \E lost \in SUBSET dirty :
           /\ k3osFile' = IF "k3os" \in lost THEN "part" ELSE k3osFile
           /\ kernel' = IF "kernel" \in lost THEN "part" ELSE kernel
           /\ notes' = IF "k3os" \in lost THEN notes \cup {"torn"} ELSE notes
    /\ dirty' = {}
    /\ UNCHANGED <<target, markers, content, base, sbin, init, k3osTmp, k3osLink, k3s, grow,
                   faults, found, since>>

Execute ==
    \/ MountState \/ CheckGrowpart \/ GrowPartition \/ ResizeFS \/ RemountState
    \/ RemoveGrowpart
    \/ StartK3osCopy \/ FinishK3osCopy \/ RenameK3os \/ LinkK3os \/ RelinkK3os
    \/ StartKernelCopy \/ FinishKernelCopy \/ SetupInit \/ SetupK3s
    \/ MarkReset \/ UnlinkSbin \/ SweepRoot \/ SweepSbin \/ SweepBoot
    \/ RemoveTakeover \/ EraseTakenOver \/ ChooseHalt \/ PowerOffOrReboot
    \/ CleanupData \/ RemoveReset \/ PivotRoot \/ ExecInit

Next == Execute \/ PowerOn \/ UserWrites \/ UserRequestsReset \/ PowerCycle

\* Execute is sequential code and every call in it returns; a machine that
\* reboots comes back.  Nothing obliges the user to do anything.
Spec == Init /\ [][Next]_vars /\ WF_vars(Execute) /\ WF_vars(PowerOn)

-----------------------------------------------------------------------------
(* Properties.                                                             *)

\* However often Takeover is interrupted, the marker that makes the next boot
\* repeat it stays until the other system's files are gone; only a RemoveAll
\* whose failure the code ignores can leave some behind.
TakeoverComplete ==
    foreign # {} => "takeover" \in markers \/ "eraseFailed" \in notes

\* The data that was there when a boot found a takeover, factory-reset or
\* ephemeral marker is erased before the local pass runs, even when the boot
\* that started the erasure never finished (same exception).
ResetBeforeLocal ==
    pc = "local" /\ "owed" \in notes => "eraseFailed" \in notes

\* If /.base holds a k3os binary, SetupK3OS and SetupInit leave a target that can be
\* booted, whatever call earlier boots died in.  Two things can spoil it: a power cut
\* that takes the contents of the copy, which SetupK3OS never flushes and never looks
\* into again, and a sweep whose ignored failure leaves a system with a link sbin.
PivotReady ==
    pc = "exec" /\ "k3os" \in base =>
        /\ target = "mounted"
        /\ K3osUsable \/ "torn" \in notes
        /\ init = "link" \/ "eraseFailed" \in notes

\* A step that removes the growpart marker takes it from a grown filesystem.
UnmarksGrown ==
    "growpart" \in markers \ markers' => fs = "big" \/ "growFailed" \in notes

\* The growpart marker goes only when the filesystem fills the partition, or a
\* failure was logged in this boot: a power cut never loses the request.
GrowHonoured == [][UnmarksGrown]_vars

Contract ==
    INSTANCE DiskContract WITH
        facts <- Condition, slip <- faults > since,
        at <- IF pc \in Calls THEN "handler" ELSE pc

\* Execute keeps the contract that the rest of the boot relies on, at whatever call
\* it is interrupted: what it, and a power cut, may change on the disk, that it pivots
\* only to a disk that can boot, without a takeover to be done and a kernel image torn
\* by its own copy, that a takeover ends rid of its marker and the data, and that it
\* fails only if a call failed or the disk was beyond its means.
KeepsContract == Contract!Spec

\* Every boot comes to an end: no combination of markers makes the machine
\* restart for ever.
BootCompletes == pc = "resolve" ~> pc \in Ends

\* "On any phase failure it drops to the rescue shell." (Init.Run)
FailureReachesRescue == pc # "panic"
=============================================================================
