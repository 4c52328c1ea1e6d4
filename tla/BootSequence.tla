------------------------------ MODULE BootSequence ------------------------------
(***************************************************************************)
(* One boot of the machine, from the kernel's exec of /init to OpenRC: the *)
(* passes through main.initrd, Relocate, enterchroot and Init.Run with its *)
(* four phases (bootstrap, mode detection, mode handler, finalization).    *)
(*                                                                         *)
(* A disk boot takes two passes: DiskHandler pivots to the K3OS_STATE      *)
(* partition and executes /sbin/init, the same program, again.  What       *)
(* survives an exec is the environment, the root filesystem and the disk.  *)
(*                                                                         *)
(* Every step of the bootstrapper and of the finalizer is an action that   *)
(* needs files earlier steps made, makes files later steps need, and may   *)
(* fail.  DiskHandler is one action here, of which no more is known than   *)
(* DiskContract says; DiskBoot is its model and keeps that contract.       *)
(***************************************************************************)
EXTENDS Naturals, DiskOutcome

CONSTANTS
    Cmdlines,       \* kernel command lines the machine may be booted with
    Machines,       \* what the disk may hold at the first boot
    MaxTries,       \* attempts of mode detection within its timeout
    MaxFaults,      \* bound on failing calls
    MaxBoots        \* bound on the number of times the machine is started

Modes == {"disk", "local", "live", "install", "shell"}

\* Facts about the disk: those that DiskHandler deals with; a K3OS_STATE partition
\* exists; the system image has no /usr/etc/hosts.
DiskFacts == Facts \cup {"state", "noHosts"}

\* mode and fallback: k3os.mode= and k3os.fallback_mode=, "" where absent.
CmdlineRecords ==
    [mode : Modes \cup {"", "bogus"}, fallback : Modes \cup {""},
     flags : SUBSET {"rescue", "test_mode", "hostname"}]

ASSUME ConstantsAssumption ==
    /\ Cmdlines \subseteq CmdlineRecords
    /\ Machines \subseteq SUBSET DiskFacts
    /\ MaxTries \in Nat /\ MaxFaults \in Nat /\ MaxBoots \in Nat

VARIABLES
    cmdline,
    disk,           \* the DiskFacts that hold
    dirty,          \* what this boot may have written to the disk and not flushed
    visible,        \* the K3OS_STATE label can be probed: "yes" or "no"
    \* what an exec preserves
    root,           \* filesystem under the process: "initramfs", "tmpfs", "disk"
    base,           \* /.base exists, the root is enterchroot's: "yes" or "no"
    image,          \* root filesystem whose image is mounted on usr, or "none"
    env,            \* environment: "RELOCATED", "ENTER" (ENTER_ROOT), "MODE" (=local)
    etc, run,       \* what is in /etc and in /run/k3os
    \* the process
    pc,             \* the next step
    tries,          \* attempts of mode detection made
    mode,           \* the detected mode, "" before detection
    finMode,        \* Finalizer.Mode
    modeFile,       \* contents of /run/k3os/mode, "" if it does not exist
    \* history, read by properties and bounds only
    handled,        \* the mode whose handler succeeded in this pass
    did,            \* of this pass: "initrdConfig" (k3os config --initrd was run),
                    \* "fault" (a call failed)
    faults, boots

files == <<etc, run, modeFile>>
store == <<disk, dirty>>
outer == <<cmdline, store, visible, root, base, image, env>>
inner == <<tries, mode, finMode, handled>>
vars == <<outer, files, inner, did, pc, faults, boots>>

Bootstrap == {"bootstrap.SetupEtc", "bootstrap.SetupModules", "bootstrap.SetupUsers",
              "bootstrap.SetupRC", "bootstrap.SetupDirs", "bootstrap.SetupKernel",
              "bootstrap.SetupConfig"}
Handlers == {"disk", "live.SetupBase", "live.SetupKernel", "live.SetupPasswd",
             "live.SetupMotd", "local.SetupSSH", "local.SetupRancherNode"}
Finalize == {"SetupMounts", "GrowLive", "SetupHostname", "SetupHosts", "SetupRoot",
             "SetupTTYs", "SetupSudoers", "SetupServices", "SetupConfig",
             "SetupManifests", "SetupStateDirs", "Cleanup"}
Ends == {"running", "shell", "rescue", "panic", "halted"}
PCs == {"initrd", "relocate", "enter", "run", "detect", "registry", "exec", "verify"}
           \cup Bootstrap \cup Handlers \cup Finalize \cup Ends

EtcFiles == {"passwd", "ssh", "hosts", "hostname", "rancher", "sshLink", "node",
             "inittab", "sudoers", "services", "motd"}
RunFiles == {"dir", "kernel"}
EnvVars == {"RELOCATED", "ENTER", "MODE"}
Deeds == {"initrdConfig", "fault"}
Writes == {"k3os", "kernel", "hostname"}

TypeOK ==
    /\ cmdline \in CmdlineRecords
    /\ disk \in SUBSET DiskFacts
    /\ dirty \in SUBSET Writes
    /\ visible \in {"yes", "no"} /\ base \in {"yes", "no"}
    /\ root \in {"initramfs", "tmpfs", "disk"}
    /\ image \in {"none", "initramfs", "tmpfs", "disk"}
    /\ env \in SUBSET EnvVars
    /\ etc \in SUBSET EtcFiles
    /\ run \in SUBSET RunFiles
    /\ pc \in PCs
    /\ tries \in 0..MaxTries
    /\ mode \in Modes \cup {""} /\ finMode \in Modes \cup {""}
    /\ modeFile \in Modes \cup {""} /\ handled \in Modes \cup {""}
    /\ did \in SUBSET Deeds
    /\ faults \in Nat /\ boots \in Nat

-----------------------------------------------------------------------------
Fault == faults < MaxFaults /\ faults' = faults + 1 /\ did' = did \cup {"fault"}

Then(step) == pc' = step /\ UNCHANGED <<faults, did>>

\* What RescueFunc does: a shell, or in a test boot the verifier.
Failed == IF "test_mode" \in cmdline.flags THEN "verify" ELSE "rescue"

FailStep == Fault /\ pc' = Failed

\* A new process: Detector, Init and Finalizer start from nothing.
FreshProcess ==
    /\ tries' = 0 /\ mode' = "" /\ finMode' = "" /\ handled' = ""

Init ==
    /\ cmdline \in Cmdlines /\ disk \in Machines /\ dirty = {} /\ visible = "no"
    /\ root = "initramfs" /\ base = "no" /\ image = "none" /\ env = {}
    /\ etc = {} /\ run = {} /\ modeFile = ""
    /\ pc = "initrd" /\ tries = 0 /\ mode = "" /\ finMode = "" /\ handled = ""
    /\ did = {} /\ faults = 0 /\ boots = 1

\* The machine starts: the kernel unpacks the initramfs and runs /init.
Restart ==
    /\ dirty' = {} /\ visible' = "no"
    /\ root' = "initramfs" /\ base' = "no" /\ image' = "none" /\ env' = {}
    /\ etc' = {} /\ run' = {} /\ modeFile' = ""
    /\ pc' = "initrd" /\ did' = {}
    /\ FreshProcess
    /\ UNCHANGED cmdline

\* Calls of DiskHandler fail, and it goes on.
Slips(slip) == IF slip THEN faults < MaxFaults /\ faults' = faults + 1 ELSE UNCHANGED faults

\* A power cut, or the user restarts the machine: in DiskHandler at any of its calls,
\* and later with what nobody has flushed.
PowerCycle ==
    /\ boots < MaxBoots /\ boots' = boots + 1
    /\ Restart
    /\ \E d \in Tears(dirty, disk) :
          \/ /\ pc = "disk" /\ visible = "yes" /\ disk' \in SUBSET DiskFacts
             /\ \E slip \in BOOLEAN : Slips(slip) /\ CutShort(d, disk', slip)
          \/ /\ ~(pc = "disk" /\ visible = "yes") /\ UNCHANGED faults
             /\ disk' \in {d, d \ ({"hostname"} \cap dirty)}

\* The kernel finds the disk some time after the boot has begun.
DeviceAppears ==
    /\ "state" \in disk /\ visible = "no" /\ pc \notin Ends
    /\ visible' = "yes"
    /\ UNCHANGED <<cmdline, store, root, base, image, env, files, inner, did, pc, faults, boots>>

-----------------------------------------------------------------------------
(* main.initrd, transferroot.Relocate and enterchroot.  An error here is   *)
(* os.Exit in process 1, and the kernel panics.                            *)

\* /.base tells whether the process already runs in enterchroot's root.
Initrd ==
    /\ pc = "initrd"
    /\ IF base = "yes" THEN pc' = "bootstrap.SetupEtc" ELSE pc' = "relocate"
    /\ did' = {} /\ FreshProcess
    /\ UNCHANGED <<outer, files, faults, boots>>

\* Mutant: the environment does not stop a second relocation.
RelocateAgain ==
    /\ pc = "relocate"
    /\ \/ root = "disk" /\ Then("enter") /\ UNCHANGED <<root, env>>
       \/ root # "disk" /\ root' = "tmpfs" /\ env' = env \cup {"RELOCATED"} /\ Then("initrd")
    /\ UNCHANGED <<cmdline, store, visible, base, image, files, inner, boots>>

\* copyFS: everything on the root is moved to a new tmpfs, which becomes the root.
CopyFS == root' = "tmpfs"

\* A root on ramfs or tmpfs is moved, once: the environment tells the process it
\* executes that this was done.
Relocate ==
    /\ pc = "relocate"
    /\ \/ /\ "RELOCATED" \in env
          /\ env' = env \ {"RELOCATED"} /\ Then("enter") /\ UNCHANGED root
       \/ /\ "RELOCATED" \notin env /\ root = "disk"
          /\ Then("enter") /\ UNCHANGED <<root, env>>
       \/ /\ "RELOCATED" \notin env /\ root # "disk"
          /\ CopyFS /\ env' = env \cup {"RELOCATED"} /\ Then("initrd")
       \/ /\ "RELOCATED" \notin env
          /\ Fault /\ pc' = "panic" /\ UNCHANGED <<root, env>>
    /\ UNCHANGED <<cmdline, store, visible, base, image, files, inner, boots>>

\* findRoot takes ENTER_ROOT from the environment if it is there, else the image
\* beside or inside the running binary.
FindRoot == IF "ENTER" \in env THEN image ELSE root

\* Mount: ensureloop, findRoot, the image on a loop device, exec of enter-root.
EnterMount ==
    /\ pc = "enter"
    /\ \/ /\ image' = FindRoot
          /\ env' = env \cup {"ENTER"} /\ Then("run")
       \/ Fault /\ pc' = "panic" /\ UNCHANGED <<image, env>>
    /\ UNCHANGED <<cmdline, store, visible, root, base, files, inner, boots>>

\* Mutant: ENTER_ROOT stays in the environment.
EnterRunKeepsEnv ==
    /\ pc = "run" /\ base' = "yes" /\ Then("initrd")
    /\ UNCHANGED <<cmdline, store, visible, root, image, env, files, inner, boots>>

\* run: mounts of data and usr, pivot_root to it with .base behind, ENTER_*
\* unset, and the binary executed as /init.
EnterRun ==
    /\ pc = "run"
    /\ \/ base' = "yes" /\ env' = env \ {"ENTER"} /\ Then("initrd")
       \/ Fault /\ pc' = "panic" /\ UNCHANGED <<base, env>>
    /\ UNCHANGED <<cmdline, store, visible, root, image, files, inner, boots>>

-----------------------------------------------------------------------------
(* Bootstrapper.Run.                                                       *)

\* A step that reads `needs`, creates links it must not find (clash) and leaves
\* `makes` in /etc; its error ends Init.Run.
Step(here, next, needs, clash, makes) ==
    /\ pc = here
    /\ LET ok == needs \subseteq etc /\ clash \cap etc = {} IN
       \/ ok /\ etc' = etc \cup makes /\ Then(next)
       \/ ~ok /\ Then(Failed) /\ UNCHANGED etc
       \/ FailStep /\ UNCHANGED etc
    /\ UNCHANGED <<outer, run, modeFile, inner, boots>>

\* A new tmpfs on /etc, with a copy of /usr/etc.
SetupEtc ==
    /\ pc = "bootstrap.SetupEtc"
    /\ \/ /\ etc' = {"passwd", "ssh"} \cup IF "noHosts" \in disk THEN {} ELSE {"hosts"}
          /\ Then("bootstrap.SetupModules")
       \/ FailStep /\ etc' \in {etc, {}}
    /\ UNCHANGED <<outer, run, modeFile, inner, boots>>

SetupModules == Step("bootstrap.SetupModules", "bootstrap.SetupUsers", {}, {}, {})

SetupUsers == Step("bootstrap.SetupUsers", "bootstrap.SetupRC", {"passwd"}, {}, {"rancher"})

\* doMounts: rcNamespace has a new tmpfs on /run.
DoMounts == run' = {} /\ modeFile' = ""

\* rc.Run: doMounts, doHotplug and the rest; errors are logged and Run returns nil.
SetupRC ==
    /\ pc = "bootstrap.SetupRC"
    /\ DoMounts
    /\ Then("bootstrap.SetupDirs")
    /\ UNCHANGED <<outer, etc, inner, boots>>

SetupDirs ==
    /\ pc = "bootstrap.SetupDirs"
    /\ \/ run' = run \cup {"dir"} /\ Then("bootstrap.SetupKernel")
       \/ FailStep /\ UNCHANGED run
    /\ UNCHANGED <<outer, etc, modeFile, inner, boots>>

\* No kernel image: nothing to do.  Otherwise it is attached to a loop device and
\* mounted on /run/k3os/kernel, which fails for a torn one.
SetupKernel ==
    /\ pc = "bootstrap.SetupKernel"
    /\ LET found == root = "disk" /\ {"kernel", "torn"} \cap disk # {}
           good  == "torn" \notin disk
       IN  \/ ~found /\ Then("bootstrap.SetupConfig") /\ UNCHANGED run
           \/ found /\ good /\ run' = run \cup {"kernel"} /\ Then("bootstrap.SetupConfig")
           \/ found /\ ~good /\ Then(Failed) /\ UNCHANGED run
           \/ found /\ FailStep /\ UNCHANGED run
    /\ UNCHANGED <<outer, etc, modeFile, inner, boots>>

\* hostname.SetHostname has a name to apply: a configured or a persisted one.
HostnameKnown ==
    "hostname" \in cmdline.flags \/ (root = "disk" /\ "hostname" \in disk)

\* syncHostname writes /etc/hostname and then cannot do without /etc/hosts.
SyncHostname == "hosts" \in etc

\* runApplies runs every applier and joins their errors.  ApplyHostname is the one
\* that depends on what the boot has made before.
Applies == HostnameKnown => SyncHostname

\* InitApply, in every pass (Bootstrapper.Mode is never set).
SetupInitrdConfig ==
    /\ pc = "bootstrap.SetupConfig"
    /\ etc' = etc \cup IF HostnameKnown THEN {"hostname"} ELSE {}
    /\ \/ /\ \/ ~Applies /\ pc' = Failed
             \/ Applies /\ pc' = "detect"
          /\ did' = did \cup {"initrdConfig"} /\ UNCHANGED faults
       \/ /\ faults < MaxFaults /\ faults' = faults + 1
          /\ did' = did \cup {"initrdConfig", "fault"} /\ pc' = Failed
    /\ UNCHANGED <<outer, run, modeFile, inner, boots>>

-----------------------------------------------------------------------------
(* Detector.Detect and the mode registry.                                  *)

\* k3os.mode= on the command line; `rescue` always wins.
Explicit == IF "rescue" \in cmdline.flags THEN "shell" ELSE cmdline.mode

\* One pass of the probe logic: the K3OS_STATE label, K3OS_MODE over it, then the
\* fallback mode, then a root that is not a tmpfs.
DetectOnce ==
    CASE "MODE" \in env         -> "local"
      [] visible = "yes" /\ "MODE" \notin env -> "disk"
      [] OTHER -> IF cmdline.fallback # "" THEN cmdline.fallback
                  ELSE IF root = "disk" THEN "local" ELSE ""

\* Mutant: an unknown mode is accepted.
DetectUnchecked ==
    LET m == IF Explicit # "" THEN Explicit ELSE DetectOnce IN
    /\ pc = "detect" /\ m # ""
    /\ mode' = m /\ modeFile' = m /\ run' = run \cup {"dir"}
    /\ Then("registry")
    /\ UNCHANGED <<outer, etc, tries, finMode, handled, boots>>

\* finalize checks the mode and writes it to /run/k3os/mode.
Detect ==
    LET m == IF Explicit # "" THEN Explicit ELSE DetectOnce IN
    /\ pc = "detect" /\ m # ""
    /\ \/ /\ m \in Modes
          /\ mode' = m /\ modeFile' = m /\ run' = run \cup {"dir"}
          /\ Then("registry")
       \/ m \notin Modes /\ Then(Failed) /\ UNCHANGED <<mode, modeFile, run>>
       \/ FailStep /\ UNCHANGED <<mode, modeFile, run>>
    /\ UNCHANGED <<outer, etc, tries, finMode, handled, boots>>

\* Nothing found: sleep and try again, or give up at the deadline.
DetectAgain ==
    /\ pc = "detect" /\ Explicit = "" /\ DetectOnce = ""
    /\ \/ tries < MaxTries /\ tries' = tries + 1 /\ Then("detect")
       \/ tries = MaxTries /\ Then(Failed) /\ UNCHANGED tries
    /\ UNCHANGED <<outer, files, mode, finMode, handled, boots>>

FirstStep(m) ==
    CASE m = "disk" -> "disk" [] m = "local" -> "local.SetupSSH" [] OTHER -> "live.SetupBase"

\* Mutant: the detected mode is not passed on to the finalizer.
DispatchWithoutMode ==
    /\ pc = "registry" /\ Then(FirstStep(mode))
    /\ UNCHANGED <<outer, files, tries, mode, finMode, handled, boots>>

\* ModeSetterFunc, then the registry's handler for the mode.
Dispatch ==
    /\ pc = "registry"
    /\ finMode' = mode
    /\ Then(FirstStep(mode))
    /\ UNCHANGED <<outer, files, tries, mode, handled, boots>>

-----------------------------------------------------------------------------
(* The mode handlers.                                                      *)

\* DiskHandler.Execute (see DiskContract): a takeover ends in a reboot or a
\* power-off; otherwise the process pivots to K3OS_STATE and executes /sbin/init
\* there.
DiskExecute ==
    /\ pc = "disk" /\ "state" \in disk /\ visible = "yes"
    /\ disk' \in SUBSET DiskFacts
    /\ \E slip \in BOOLEAN :
          /\ Slips(slip)
          /\ \/ /\ TakenOver(disk, disk', slip)
                /\ \/ Restart
                   \/ /\ pc' = "halted" /\ dirty' = {}
                      /\ UNCHANGED <<cmdline, visible, root, base, image, env, files, inner, did>>
             \/ /\ Pivoted(disk, disk', slip)
                /\ root' = "disk" /\ base' = "no" /\ env' = env \cup {"MODE"}
                /\ etc' = {} /\ run' = {} /\ modeFile' = ""
                /\ pc' = "initrd" /\ dirty' = dirty \cup Unflushed(disk)
                /\ FreshProcess
                /\ UNCHANGED <<cmdline, visible, image, did>>
    /\ UNCHANGED boots

\* The partition is not found in time; or Execute returns an error, or (after the
\* pivot, where there is no shell to fall back to) /sbin/init cannot be executed.
DiskFails ==
    /\ pc = "disk"
    /\ \/ visible = "no" /\ (Then(Failed) \/ FailStep) /\ UNCHANGED store
       \/ /\ visible = "yes" /\ pc' \in {Failed, "panic"}
          /\ disk' \in SUBSET DiskFacts /\ dirty' = dirty \cup Unflushed(disk)
          /\ \/ Fault /\ Unfinished(disk, disk', TRUE)
             \/ UNCHANGED <<faults, did>> /\ Unfinished(disk, disk', FALSE)
    /\ UNCHANGED <<cmdline, visible, root, base, image, env, files, inner, boots>>

\* The K3OS label, or else any disk, is mounted on /.base, with retries.
LiveSetupBase == Step("live.SetupBase", "live.SetupKernel", {}, {}, {})

LiveSetupKernel == Step("live.SetupKernel", "live.SetupPasswd", {}, {}, {})

\* passwd -d rancher.
LiveSetupPasswd == Step("live.SetupPasswd", "live.SetupMotd", {"rancher"}, {}, {})

\* After LiveSetup.Run, ShellHandler executes bash; the other handlers return.
AfterLive == IF mode = "shell" THEN "shell" ELSE "SetupMounts"

\* SetupMotd ends LiveSetup.Run.
LiveSetupMotd ==
    /\ pc = "live.SetupMotd"
    /\ \/ etc' = etc \cup {"motd"} /\ handled' = mode
          /\ Then(AfterLive)
       \/ FailStep /\ etc' \in {etc, etc \cup {"motd"}} /\ UNCHANGED handled
    /\ UNCHANGED <<outer, run, modeFile, tries, mode, finMode, boots>>

\* /etc/ssh is copied to the persistent directory if that does not exist, and
\* replaced by a link to it.
LocalSetupSSH == Step("local.SetupSSH", "local.SetupRancherNode", {"ssh"}, {}, {"sshLink"})

LocalSetupRancherNode ==
    /\ pc = "local.SetupRancherNode"
    /\ \/ /\ "node" \notin etc
          /\ etc' = etc \cup {"node"} /\ handled' = mode
          /\ Then("SetupMounts")
       \/ "node" \in etc /\ Then(Failed) /\ UNCHANGED <<etc, handled>>
       \/ FailStep /\ UNCHANGED <<etc, handled>>
    /\ UNCHANGED <<outer, run, modeFile, tries, mode, finMode, boots>>

-----------------------------------------------------------------------------
(* Finalizer.Run.                                                          *)

\* /k3os/system is bound read-only and /.base unmounted until it is gone.
SetupMounts == Step("SetupMounts", "GrowLive", {}, {}, {})

\* Mutant: the finalizer's steps are out of order.
GrowLiveBeforeHosts ==
    /\ pc = "GrowLive"
    /\ Then("SetupHosts")
    /\ UNCHANGED <<outer, files, inner, boots>>

\* In local mode with a growpart marker the partition is grown; the marker is on
\* the read-only mount, so removing it fails, if nothing before it does.
GrowLive ==
    /\ pc = "GrowLive"
    /\ LET wanted == finMode = "local" /\ root = "disk" /\ "growpart" \in disk IN
       \/ ~wanted /\ Then("SetupHostname")
       \/ wanted /\ Then(Failed)
    /\ UNCHANGED <<outer, files, inner, boots>>

\* The name is written, not flushed; one that was there is left alone.
PersistName ==
    /\ disk' = disk \cup {"hostname"}
    /\ dirty' = dirty \cup ({"hostname"} \ disk)

\* An existing /etc/hostname stays; a persisted name is used; else a random one is
\* generated and persisted (in /var, which is on the disk in a local pass only).
SetupHostname ==
    /\ pc = "SetupHostname"
    /\ \/ /\ etc' = etc \cup {"hostname"}
          /\ IF "hostname" \in etc \/ root # "disk" THEN UNCHANGED store ELSE PersistName
          /\ Then("SetupHosts")
       \/ /\ "hostname" \notin etc /\ FailStep /\ UNCHANGED etc
          /\ UNCHANGED store \/ (root = "disk" /\ PersistName)
    /\ UNCHANGED <<cmdline, visible, root, base, image, env, run, modeFile, inner, boots>>

SetupHosts ==
    Step("SetupHosts", "SetupRoot", IF "hosts" \in etc THEN {} ELSE {"hostname"}, {}, {"hosts"})

SetupRoot == Step("SetupRoot", "SetupTTYs", {}, {}, {})

SetupTTYs == Step("SetupTTYs", "SetupSudoers", {}, {}, {"inittab"})

SetupSudoers == Step("SetupSudoers", "SetupServices", {}, {}, {"sudoers"})

\* Symlinks into the runlevels: one that exists already is an error.
SetupServices == Step("SetupServices", "SetupConfig", {}, {"services"}, {"services"})

\* BootApply, with the hostname applied once more.
SetupBootConfig ==
    Step("SetupConfig", "SetupManifests", IF HostnameKnown THEN {"hosts"} ELSE {}, {}, {})

SetupManifests == Step("SetupManifests", "SetupStateDirs", {}, {}, {})

SetupStateDirs == Step("SetupStateDirs", "Cleanup", {}, {}, {})

\* /run/k3os is emptied but for the kernel mount, and the mode file written anew.
Cleanup ==
    /\ pc = "Cleanup"
    /\ \/ /\ run' = (run \cap {"kernel"}) \cup {"dir"}
          /\ modeFile' = finMode /\ Then("exec")
       \/ FailStep /\ modeFile' \in {modeFile, ""} /\ run' \in {run, run \cap {"kernel", "dir"}}
    /\ UNCHANGED <<outer, etc, inner, boots>>

\* ExecFunc: OpenRC's /sbin/init, or in a test boot the verifier, which ends in a
\* power-off.
ExecInit ==
    /\ pc = "exec"
    /\ \/ Then(IF "test_mode" \in cmdline.flags THEN "halted" ELSE "running")
       \/ FailStep
    /\ UNCHANGED <<outer, files, inner, boots>>

\* RescueFunc of a test boot: Verifier.Run writes its results and powers off.
Verify ==
    /\ pc = "verify"
    /\ Then("halted") \/ (Fault /\ pc' = "panic")
    /\ UNCHANGED <<outer, files, inner, boots>>

\* bash cannot be executed either: rescue logs that, and process 1 exits.
RescueFails ==
    /\ pc = "rescue" /\ Fault /\ pc' = "panic"
    /\ UNCHANGED <<outer, files, inner, boots>>

-----------------------------------------------------------------------------
Boot ==
    \/ Initrd \/ Relocate \/ EnterMount \/ EnterRun
    \/ SetupEtc \/ SetupModules \/ SetupUsers \/ SetupRC \/ SetupDirs \/ SetupKernel
    \/ SetupInitrdConfig
    \/ Detect \/ DetectAgain \/ Dispatch
    \/ DiskExecute \/ DiskFails
    \/ LiveSetupBase \/ LiveSetupKernel \/ LiveSetupPasswd \/ LiveSetupMotd
    \/ LocalSetupSSH \/ LocalSetupRancherNode
    \/ SetupMounts \/ GrowLive \/ SetupHostname \/ SetupHosts \/ SetupRoot \/ SetupTTYs
    \/ SetupSudoers \/ SetupServices \/ SetupBootConfig \/ SetupManifests
    \/ SetupStateDirs \/ Cleanup \/ ExecInit \/ Verify
    \/ RescueFails

Next == Boot \/ DeviceAppears \/ PowerCycle

\* Process 1 is sequential and each of its calls returns.  Nothing obliges the
\* disk to appear or anybody to restart the machine.
Spec == Init /\ [][Next]_vars /\ WF_vars(Boot)

-----------------------------------------------------------------------------
(* Properties.                                                             *)

\* What can go wrong in Init.Run without any call failing by itself.
KnownCause ==
    \/ Explicit = "bogus"
    \/ mode = "" /\ tries = MaxTries
    \/ mode = "disk" /\ (visible = "no" \/ "broken" \in disk)
    \/ mode = "local" /\ root = "disk" /\ "growpart" \in disk
    \/ root = "disk" /\ "torn" \in disk
    \/ HostnameKnown /\ "noHosts" \in disk

\* The steps of both passes find what they need and nothing that is in their
\* way: the rescue shell is reached only through a call that failed in this
\* pass, or for one of the known causes.
RescueExplained == pc = "rescue" => "fault" \in did \/ KnownCause

\* When OpenRC is started, /run/k3os/mode, the finalizer and the handler that
\* ran agree on the mode, although Cleanup has emptied /run/k3os.
ModeAgreed ==
    pc = "running" => modeFile = mode /\ finMode = mode /\ handled = mode

\* Each pass enters the image of its own root: no ENTER_ROOT of the first pass
\* reaches the second through the environment.
OwnImage == pc \in Bootstrap \cup Handlers \cup Finalize => image = root

\* A machine booted without k3os.mode=disk gets to OpenRC, a shell, or a stop:
\* it does not go round the passes for ever.
BootEnds == pc = "initrd" /\ Explicit # "disk" ~> pc \in Ends

\* "SetupConfig runs `k3os config --initrd` unless the mode is `local`."
NoInitrdConfigInLocal == handled = "local" => "initrdConfig" \notin did

\* "/sbin/init -> local boot initrd sequence": the pass that DiskHandler starts
\* with K3OS_MODE=local is a local one.
SecondPassLocal ==
    pc = "registry" /\ "MODE" \in env /\ "rescue" \notin cmdline.flags => mode = "local"
=============================================================================
