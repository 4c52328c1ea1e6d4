------------------------------- MODULE StateDisk -------------------------------
(***************************************************************************)
(* What a machine in local mode keeps on its state partition, over many    *)
(* boots: the partition itself, which the first boot grows                 *)
(* (finalize/grow.go, internal/diskutil), the files of /etc/ssh            *)
(* (modes/local.go) and the host name (finalize/hostname.go,               *)
(* internal/hostname, rc.doHostname).                                      *)
(*                                                                         *)
(* One process does one thing after the other; the power may fail between  *)
(* any two of them, and then what was written since the last orderly       *)
(* restart may be lost: nothing here is flushed.  /etc, /dev and the       *)
(* kernel's host name are in memory.  An error ends a boot in the rescue   *)
(* shell, from which somebody starts the machine again.                    *)
(***************************************************************************)
EXTENDS PartitionGrow, DevPopulate

CONSTANTS
    StateLabel,     \* the label K3OS_STATE
    Machines,       \* what the model starts from, see Init
    PNamed,         \* disks whose partitions have a p in their names (nvme0n1p2)
    SshFiles,       \* the files of /etc/ssh in the system image
    Names,          \* host names
    RandNames,      \* what RandFunc makes: k3os-%d
    MacName,        \* k3os- and the address of eth0
    Absent,         \* no such file
    Garbled         \* a growpart marker with less than two words

Disks == {d \in Devices : Parts[d] # <<>>}

\* An empty file, or no configured name.
Empty == "(empty)"

\* An /etc/hosts without a line for 127.0.1.1.
NoLine == "(no line)"

\* The content of a file with a name in it.
NameFiles == Names \cup {Empty, Absent}

\* The growpart marker: a device (perhaps one that does not exist) and a number.
Markers == [dev : Devices \cup {NoDev}, num : Nums] \cup {Garbled, Absent}

Lengths == 0 .. Wrap - 1

ASSUME StateAssumption ==
    /\ StateLabel \in Tags
    /\ RandNames \subseteq Names /\ MacName \in Names
    /\ {Empty, NoLine} \cap Names = {} /\ Absent \notin Names \cup {Empty, NoLine}
    /\ \A files \in SUBSET SshFiles : files # Absent
    /\ \A d \in Devices : DOMAIN Parts[d] \subseteq Nums
    /\ \A m \in Machines :
          /\ m.sectors \in [Disks -> Sectors]
          /\ m.total \in [Disks -> Lengths]
          /\ m.table \in [Disks -> Tables]
          /\ \A d \in Disks : \A i, j \in Nums : i # j => ~Overlap(m.table[d], i, j)
          /\ m.marker \in Markers
          /\ m.configName \in Names \cup {Empty}
          /\ m.imageName \in Names \cup {Absent}
          /\ m.imageHosts \in Names \cup {NoLine, Absent}

VARIABLES
    pc,             \* the next step
    sectors,        \* the first sectors of the disks
    total,          \* their sizes
    table,          \* their partition tables
    kernelLen,      \* the lengths of partitions that the kernel works with
    fsLen,          \* the lengths of their filesystems
    marker,         \* /k3os/system/growpart
    goal,           \* the device and the number that GrowLive has found
    sshDir,         \* the files of /var/lib/rancher/k3os/ssh, or Absent
    etcSsh,         \* /etc/ssh: "image", "gone" or "link"
    toCopy,         \* the files that CopyDir has still to copy
    persisted,      \* /var/lib/rancher/k3os/hostname
    etcName,        \* /etc/hostname
    hosts,          \* the name in /etc/hosts, or NoLine
    kernelName,     \* the kernel's host name
    newName,        \* the name that SetupHostname has made up
    configName,     \* the configured host name, or Empty
    imageName,      \* /etc/hostname in the system image
    imageHosts,     \* /etc/hosts in the system image
    dirty,          \* what a power cut may still undo: "ssh", "name"
    \* history
    copyBroken,     \* a copy of /etc/ssh was left incomplete
    nameLost,       \* the name's file was left empty, lost after its use, or not read
    warned,         \* the kernel was not told of a new length in this boot (GPT)
    smooth,         \* no call failed in this boot
    known           \* the name of the first smooth boot, or Absent

fixed == <<sectors, total, marker, configName, imageName, imageHosts>>
growVars == <<table, kernelLen, fsLen, goal, warned>>
sshVars == <<sshDir, etcSsh, toCopy, copyBroken>>
nameVars == <<persisted, etcName, hosts, kernelName, newName, nameLost, known>>
vars == <<rcVars, faults, pc, fixed, growVars, sshVars, nameVars, dirty, smooth>>

PCs == {"off", "populate", "rcName", "initName", "initSync", "ssh", "sshCopy",
        "sshRemove", "sshLink", "node", "grow", "growTable", "growKernel", "growFs",
        "growMark", "name", "nameTrunc", "nameWrite", "nameEtc", "hosts", "config",
        "sync", "links", "done", "rescue"}

TypeOK ==
    /\ rcTypeOK
    /\ pc \in PCs
    /\ table \in [Disks -> Tables]
    /\ kernelLen \in [Disks -> [Nums -> Lengths]]
    /\ fsLen \in [Disks -> [Nums -> Lengths]]
    /\ goal \in (Disks \X Nums) \cup {<<>>}
    /\ sshDir \in (SUBSET SshFiles) \cup {Absent}
    /\ etcSsh \in {"image", "gone", "link"}
    /\ toCopy \in SUBSET SshFiles
    /\ {persisted, etcName} \subseteq NameFiles /\ hosts \in NameFiles \cup {NoLine}
    /\ kernelName \in Names \cup {"(none)"}
    /\ newName \in Names \cup {Empty}
    /\ dirty \in SUBSET {"ssh", "name"}
    /\ {copyBroken, nameLost, warned, smooth} \subseteq BOOLEAN
    /\ known \in Names \cup {"(none)", Absent}

\* The kernel reads the partition table of d.
KernelView(d, t) == [n \in Nums |-> KernelLen(t[d][n], total[d])]

Init ==
    /\ rcInit /\ faults = 0 /\ pc = "off"
    /\ \E m \in Machines :
          /\ sectors = m.sectors /\ total = m.total /\ table = m.table
          /\ marker = m.marker
          /\ configName = m.configName /\ imageName = m.imageName
          /\ imageHosts = m.imageHosts
    /\ kernelLen = [d \in Disks |-> KernelView(d, table)]
    /\ fsLen = kernelLen
    /\ goal = <<>>
    /\ sshDir = Absent /\ etcSsh = "image" /\ toCopy = {}
    /\ persisted = Absent /\ etcName = Absent /\ hosts = Absent
    /\ kernelName = "(none)" /\ newName = Empty /\ dirty = {}
    /\ copyBroken = FALSE /\ nameLost = FALSE /\ warned = FALSE /\ smooth = TRUE
    /\ known = Absent

-----------------------------------------------------------------------------
(* The course of a boot.                                                   *)

Goto(l) == pc' = l

OK == UNCHANGED <<faults, smooth>>

Slip == Fault /\ smooth' = FALSE

\* A step that fails with an error, which ends the boot.
Fails == Slip /\ Goto("rescue")

\* The machine starts: the kernel, rc's mounts, the system image's /etc.
Boot ==
    /\ pc = "off"
    /\ \E missing \in SUBSET Targets : DoMounts(missing)
    /\ kernelLen' = [d \in Disks |-> KernelView(d, table)]
    /\ etcName' = imageName /\ hosts' = imageHosts
    /\ Goto("populate")
    /\ UNCHANGED <<fixed, table, fsLen, goal, warned, sshVars, persisted, kernelName,
                   newName, nameLost, known, dirty, smooth>>

\* Everything in memory is gone.
PowerOff ==
    /\ Goto("off")
    /\ rcForget
    /\ goal' = <<>> /\ warned' = FALSE
    /\ etcSsh' = "image" /\ toCopy' = {}
    /\ etcName' = Absent /\ hosts' = Absent
    /\ kernelName' = "(none)" /\ newName' = Empty
    /\ dirty' = {} /\ smooth' = TRUE
    /\ UNCHANGED <<fixed, table, kernelLen, fsLen, known>>

\* The power fails.  Neither the copy of /etc/ssh nor the name's file is ever
\* flushed: what is not on the disk yet is missing, or empty.
PowerCut ==
    /\ pc # "off"
    /\ Fault
    /\ PowerOff
    /\ IF "ssh" \in dirty THEN sshDir' \in (SUBSET sshDir) \cup {Absent} ELSE UNCHANGED sshDir
    /\ IF "name" \in dirty THEN persisted' \in {persisted, Empty, Absent}
                            ELSE UNCHANGED persisted
    /\ copyBroken' = (copyBroken \/ sshDir' \notin {Absent, SshFiles})
    /\ nameLost' = (nameLost \/ persisted' = Empty \/ (persisted' # persisted /\ known # Absent))

\* Somebody restarts the machine, after a boot that failed or one that did not.
Restart ==
    /\ pc = "rescue"
    /\ PowerOff
    /\ UNCHANGED <<faults, sshDir, copyBroken, persisted, nameLost>>

Shutdown ==
    /\ pc = "done"
    /\ PowerOff
    /\ UNCHANGED <<faults, sshDir, copyBroken, persisted, nameLost>>

\* doHotplug: PopulateDev, device by device; its failures are logged.
DoHotplug ==
    /\ pc = "populate"
    /\ \/ (PopulateOne \/ PartsUnread) /\ UNCHANGED pc
       \/ Populated /\ Goto("rcName") /\ UNCHANGED <<rcVars, faults>>
    /\ UNCHANGED <<fixed, growVars, sshVars, nameVars, dirty, smooth>>

-----------------------------------------------------------------------------
(* LocalHandler: SetupSSH and SetupRancherNode.                            *)

notSsh == <<rcVars, fixed, growVars, nameVars>>

\* Mutant: /etc/ssh is removed before it is copied.
StatPersistDirLate ==
    /\ pc = "ssh"
    /\ \/ sshDir # Absent /\ OK /\ Goto("sshRemove") /\ UNCHANGED <<sshDir, toCopy>>
       \/ /\ sshDir = Absent /\ OK
          /\ sshDir' = {} /\ toCopy' = {}
          /\ Goto("sshCopy")
    /\ UNCHANGED <<notSsh, etcSsh, copyBroken, dirty>>

\* The directory's existence stands for a complete copy.
StatPersistDir ==
    /\ pc = "ssh"
    /\ \/ sshDir # Absent /\ OK /\ Goto("sshRemove") /\ UNCHANGED <<sshDir, toCopy, dirty>>
       \/ /\ sshDir = Absent /\ OK
          /\ sshDir' = {} /\ toCopy' = SshFiles /\ dirty' = dirty \cup {"ssh"}
          /\ Goto("sshCopy")
       \/ sshDir = Absent /\ Fails /\ UNCHANGED <<sshDir, toCopy, dirty>>
    /\ UNCHANGED <<notSsh, etcSsh, copyBroken>>

\* CopyDir, file by file.
CopySsh ==
    /\ pc = "sshCopy"
    /\ \/ /\ toCopy # {} /\ OK
          /\ \E f \in toCopy : sshDir' = sshDir \cup {f} /\ toCopy' = toCopy \ {f}
          /\ UNCHANGED <<pc, copyBroken>>
       \/ toCopy = {} /\ OK /\ Goto("sshRemove") /\ UNCHANGED <<sshDir, toCopy, copyBroken>>
       \/ Fails /\ copyBroken' = TRUE /\ UNCHANGED <<sshDir, toCopy>>
    /\ UNCHANGED <<notSsh, etcSsh, dirty>>

RemoveEtcSsh ==
    /\ pc = "sshRemove"
    /\ \/ OK /\ etcSsh' = "gone" /\ Goto("sshLink")
       \/ Fails /\ UNCHANGED etcSsh
    /\ UNCHANGED <<notSsh, sshDir, toCopy, copyBroken, dirty>>

LinkEtcSsh ==
    /\ pc = "sshLink"
    /\ \/ OK /\ etcSsh' = "link" /\ Goto("node")
       \/ Fails /\ UNCHANGED etcSsh
    /\ UNCHANGED <<notSsh, sshDir, toCopy, copyBroken, dirty>>

\* Two directories and a link.
SetupRancherNode ==
    /\ pc = "node"
    /\ \/ OK /\ Goto("grow")
       \/ Fails
    /\ UNCHANGED <<notSsh, sshVars, dirty>>

-----------------------------------------------------------------------------
(* GrowLive.                                                               *)

notGrow == <<rcVars, fixed, sshVars, nameVars, dirty>>

\* The partition that the marker names, if it has a node.
Named ==
    {x \in Disks \X Nums :
        /\ marker \notin {Garbled, Absent}
        /\ x = <<marker.dev, marker.num>>
        /\ x[1] \notin PNamed
        /\ x[2] \in DOMAIN Parts[x[1]] /\ Parts[x[1]][x[2]] \in nodes}

FindByLabel(label) == links[label]

\* The disk and the number of partition d.
splitPartition(d) ==
    {x \in Disks \X Nums : x[2] \in DOMAIN Parts[x[1]] /\ Parts[x[1]][x[2]] = d}

\* The marker, or else the label, says what to grow.  A whole disk has no number.
FindPartition ==
    /\ pc = "grow"
    /\ \/ marker = Absent /\ OK /\ Goto("name") /\ UNCHANGED goal
       \/ /\ marker \notin {Garbled, Absent}
          /\ LET found == IF Named # {} THEN Named ELSE splitPartition(FindByLabel(StateLabel))
             IN  \/ OK /\ goal' \in found /\ Goto("growTable")
                 \/ found = {} /\ OK /\ Goto("rescue") /\ UNCHANGED goal
       \/ marker = Garbled /\ OK /\ Goto("rescue") /\ UNCHANGED goal
    /\ UNCHANGED <<notGrow, table, kernelLen, fsLen, warned>>

tableType == ProbePartitionTableType(sectors[goal[1]])

NewTable == Grown(tableType, table[goal[1]], goal[2], total[goal[1]])


\* GrowPartition returns an error, whatever the boot: no table, none that the
\* library reads, no such partition, a disk without a size.
Refused ==
    \/ tableType = "unknown" \/ ~sectors[goal[1]].readable
    \/ ~InUse(table[goal[1]], goal[2]) \/ total[goal[1]] = 0

\* GrowPartition: the table is written, or found to be good.  An error may come
\* before the table is written, or after (Sync).  The library may refuse a table
\* with partitions that overlap.
GrowTable ==
    /\ pc = "growTable"
    /\ \/ /\ ~Refused
          /\ table' = [table EXCEPT ![goal[1]] = NewTable]
          /\ \/ OK /\ Goto(IF NewTable = table[goal[1]] THEN "growFs" ELSE "growKernel")
             \/ Fails
       \/ /\ Refused \/ Overlapping(table[goal[1]])
          /\ OK /\ Goto("rescue") /\ UNCHANGED table
       \/ Fails /\ UNCHANGED table
    /\ UNCHANGED <<notGrow, kernelLen, fsLen, goal, warned>>

\* Mutant: the error of BLKRRPART is passed over.
TellKernelUnchecked ==
    /\ pc = "growKernel"
    /\ \/ /\ kernelLen' = [kernelLen EXCEPT ![goal[1]][goal[2]] =
                              KernelLen(table[goal[1]][goal[2]], total[goal[1]])]
          /\ UNCHANGED warned
       \/ /\ warned' = (warned \/ tableType = "gpt")
          /\ UNCHANGED kernelLen
    /\ OK /\ Goto("growFs")
    /\ UNCHANGED <<notGrow, table, fsLen, goal>>

\* BLKRRPART, which fails as long as a partition of the disk is in use; or
\* KernelPartitionResize, whose error is a warning.
TellKernel ==
    /\ pc = "growKernel"
    /\ \/ /\ kernelLen' = [kernelLen EXCEPT ![goal[1]][goal[2]] =
                              KernelLen(table[goal[1]][goal[2]], total[goal[1]])]
          /\ Goto("growFs") /\ UNCHANGED warned
       \/ /\ tableType = "mbr"
          /\ Goto("rescue") /\ UNCHANGED <<kernelLen, warned>>
       \/ /\ tableType = "gpt"
          /\ warned' = TRUE
          /\ Goto("growFs") /\ UNCHANGED kernelLen
    /\ OK
    /\ UNCHANGED <<notGrow, table, fsLen, goal>>

\* resize2fs fills the partition as the kernel knows it.
ResizeFs ==
    /\ pc = "growFs"
    /\ \/ /\ OK /\ Goto("growMark")
          /\ fsLen' = [fsLen EXCEPT ![goal[1]][goal[2]] = kernelLen[goal[1]][goal[2]]]
       \/ Fails /\ UNCHANGED fsLen
    /\ UNCHANGED <<notGrow, table, kernelLen, goal, warned>>

\* The marker is not removed: SetupMounts has bound /k3os/system read-only before
\* GrowLive, and the error ends the boot.
RemoveMarker ==
    /\ pc = "growMark" /\ OK
    /\ Goto("rescue")
    /\ UNCHANGED <<notGrow, growVars>>

-----------------------------------------------------------------------------
(* The host name.                                                          *)

notName == <<rcVars, fixed, growVars, sshVars>>

\* Mutant: what /etc/hostname says is not looked at.
DoHostnameUnchecked ==
    /\ pc = "rcName"
    /\ OK /\ kernelName' = etcName
    /\ Goto("initName")
    /\ UNCHANGED <<notName, persisted, etcName, hosts, newName, nameLost, known, dirty>>

\* doHostname: /etc/hostname or else, if the kernel has no name, the address of
\* eth0, if there is one.  Errors are logged.
DoHostname ==
    /\ pc = "rcName"
    /\ \/ etcName \in Names /\ OK /\ kernelName' = etcName
       \/ etcName \in Names /\ Slip /\ kernelName' \in {MacName, "(none)"}
       \/ etcName \notin Names /\ OK /\ kernelName' \in {MacName, "(none)"}
    /\ Goto("initName")
    /\ UNCHANGED <<notName, persisted, etcName, hosts, newName, nameLost, known, dirty>>

\* The name that SetHostname sets: configured or persisted.
Wanted == IF configName # Empty THEN configName ELSE persisted

\* SetHostname, up to syncHostname.  A persisted name that cannot be read counts as
\* none, and without a name nothing is done.
SetHostname(at, sync, skip) ==
    /\ pc = at
    /\ \/ Wanted \in Names /\ OK /\ kernelName' = Wanted /\ Goto(sync)
       \/ Wanted \in Names /\ Fails /\ UNCHANGED kernelName
       \/ Wanted \notin Names /\ OK /\ UNCHANGED kernelName /\ Goto(skip)
       \/ configName = Empty /\ Wanted \in Names /\ Slip /\ UNCHANGED kernelName /\ Goto(skip)
    /\ UNCHANGED <<notName, persisted, etcName, hosts, newName, nameLost, known, dirty>>

\* Mutant: only /etc/hosts is brought up to date.
SyncHostsOnly(at, next) ==
    /\ pc = at
    /\ hosts' = kernelName /\ UNCHANGED <<kernelName, etcName>> /\ OK /\ Goto(next)
    /\ UNCHANGED <<notName, persisted, newName, nameLost, known, dirty>>

\* syncHostname: /etc/hostname is written, and a line for 127.0.1.1 in /etc/hosts.
\* Without /etc/hosts this is an error.
SyncHostname(at, next) ==
    /\ pc = at
    /\ \/ /\ hosts # Absent /\ OK /\ Goto(next)
          /\ etcName' = kernelName
          /\ hosts' = IF hosts = NoLine THEN NoLine ELSE kernelName
       \/ hosts = Absent /\ OK /\ Goto("rescue") /\ etcName' = kernelName /\ UNCHANGED hosts
       \/ Fails /\ etcName' \in {etcName, kernelName} /\ UNCHANGED hosts
    /\ UNCHANGED <<notName, persisted, kernelName, newName, nameLost, known, dirty>>

\* `k3os config --initrd` in the bootstrap of the local pass.
InitSetHostname == SetHostname("initName", "initSync", "ssh")
InitSyncHostname == SyncHostname("initSync", "ssh")

\* Mutant: a persisted name that is empty is an error.
SetupHostnameStrict ==
    /\ pc = "name" /\ OK
    /\ \/ etcName # Absent /\ Goto("hosts") /\ UNCHANGED etcName
       \/ etcName = Absent /\ persisted \in Names /\ etcName' = persisted /\ Goto("hosts")
       \/ etcName = Absent /\ persisted = Empty /\ Goto("rescue") /\ UNCHANGED etcName
       \/ etcName = Absent /\ persisted = Absent /\ Goto("nameTrunc") /\ UNCHANGED etcName
    /\ UNCHANGED <<notName, persisted, hosts, kernelName, newName, nameLost, known, dirty>>

\* SetupHostname, up to the new name.  A file that cannot be read counts as none.
SetupHostname ==
    /\ pc = "name"
    /\ \/ etcName # Absent /\ OK /\ Goto("hosts") /\ UNCHANGED <<etcName, nameLost>>
       \/ /\ etcName = Absent /\ persisted # Absent
          /\ \/ OK /\ etcName' = persisted /\ Goto("hosts") /\ UNCHANGED nameLost
             \/ Fails /\ UNCHANGED <<etcName, nameLost>>
             \/ Slip /\ nameLost' = TRUE /\ Goto("nameTrunc") /\ UNCHANGED etcName
       \/ /\ etcName = Absent /\ persisted = Absent
          /\ OK /\ Goto("nameTrunc") /\ UNCHANGED <<etcName, nameLost>>
    /\ UNCHANGED <<notName, persisted, hosts, kernelName, newName, known, dirty>>

\* RandFunc and MkdirAll; WriteFile creates the file or truncates it.
MakeUpName ==
    /\ pc = "nameTrunc"
    /\ \/ /\ OK /\ newName' \in RandNames
          /\ persisted' = Empty /\ dirty' = dirty \cup {"name"} /\ Goto("nameWrite")
       \/ Fails /\ UNCHANGED <<newName, persisted, dirty>>
    /\ UNCHANGED <<notName, etcName, hosts, kernelName, nameLost, known>>

\* Mutant: the new name is not kept.
PersistNothing ==
    /\ pc = "nameWrite"
    /\ OK /\ persisted' = Absent /\ Goto("nameEtc")
    /\ UNCHANGED <<notName, etcName, hosts, kernelName, newName, nameLost, known, dirty>>

PersistName ==
    /\ pc = "nameWrite"
    /\ \/ OK /\ persisted' = newName /\ Goto("nameEtc") /\ UNCHANGED nameLost
       \/ Fails /\ nameLost' = TRUE /\ UNCHANGED persisted
    /\ UNCHANGED <<notName, etcName, hosts, kernelName, newName, known, dirty>>

WriteEtcHostname ==
    /\ pc = "nameEtc"
    /\ \/ OK /\ etcName' = newName /\ Goto("hosts")
       \/ Fails /\ UNCHANGED etcName
    /\ UNCHANGED <<notName, persisted, hosts, kernelName, newName, nameLost, known, dirty>>

\* An /etc/hosts of the image is left as it is.
SetupHosts ==
    /\ pc = "hosts"
    /\ \/ hosts # Absent /\ OK /\ Goto("config") /\ UNCHANGED hosts
       \/ hosts = Absent /\ OK /\ hosts' = etcName /\ Goto("config")
       \/ hosts = Absent /\ Fails /\ UNCHANGED hosts
    /\ UNCHANGED <<notName, persisted, etcName, kernelName, newName, nameLost, known, dirty>>

\* `k3os config --boot` in SetupConfig.
BootSetHostname == SetHostname("config", "sync", "links")
BootSyncHostname == SyncHostname("sync", "links")

\* What is left of SetupConfig; then the boot has come to its end.
BootDone ==
    /\ pc = "links"
    /\ \/ /\ OK /\ Goto("done")
          /\ known' = IF known = Absent /\ smooth THEN kernelName ELSE known
       \/ Fails /\ UNCHANGED known
    /\ UNCHANGED <<notName, persisted, etcName, hosts, kernelName, newName, nameLost, dirty>>

-----------------------------------------------------------------------------
Step ==
    \/ Boot \/ DoHotplug \/ DoHostname \/ InitSetHostname \/ InitSyncHostname
    \/ StatPersistDir \/ CopySsh \/ RemoveEtcSsh \/ LinkEtcSsh \/ SetupRancherNode
    \/ FindPartition \/ GrowTable \/ TellKernel \/ ResizeFs \/ RemoveMarker
    \/ SetupHostname \/ MakeUpName \/ PersistName \/ WriteEtcHostname \/ SetupHosts
    \/ BootSetHostname \/ BootSyncHostname \/ BootDone

Next == Step \/ Restart \/ Shutdown \/ PowerCut

\* The boot goes on, and a machine in the rescue shell is restarted.
Spec == Init /\ [][Next]_vars /\ WF_vars(Step) /\ WF_vars(Restart)

-----------------------------------------------------------------------------
\* A machine with a name, whose bootstrap fails without /etc/hosts (hostname.go:57).
NoHosts == imageHosts = Absent /\ Wanted \in Names

\* When /dev is populated, a link names a device that carries the tag itself: the
\* whole disk, which is probed first and answers with the tags of a partition
\* (devpopulate.go:57), is named only if no look at that partition has worked.
\* If nothing failed, every tag of a device in sysfs has its link.
LabelsNameTheirDevice ==
    pc \notin {"off", "populate"} =>
        \A t \in Tags :
            /\ links[t] # NoDev /\ t \notin Own[links[t]] =>
                  \A i \in DOMAIN Parts[links[t]] :
                      t \in Own[Parts[links[t]][i]] => Parts[links[t]][i] \notin linked
            /\ ~slips /\ (\E i \in DOMAIN SysBlock : t \in Own[SysBlock[i]]) =>
                  links[t] # NoDev /\ t \in Own[links[t]]

\* Growing changes the length of one partition, to a larger one that ends on the
\* disk; an MBR entry stays within 32 bits.  This rests on the subtraction of
\* growMBR (growmbr.go:61), which has no check that the partition starts on the
\* disk, and on the comparison that follows: nothing is ever made smaller.
GrowsOnDisk ==
    [][\A d \in Disks : \A n \in Nums :
          table'[d][n] # table[d][n] =>
              /\ table'[d][n].start = table[d][n].start
              /\ table'[d][n].len > table[d][n].len
              /\ ProbePartitionTableType(sectors[d]) = "mbr" => table'[d][n].len <= LbaMax
              /\ table[d][n].start <= total[d] => End(table'[d][n]) <= total[d]
              /\ \A e \in Disks : \A m \in Nums :
                    <<e, m>> # <<d, n>> => table'[e][m] = table[e][m]]_vars

\* Growing takes only space that no partition uses: "grows the specified partition
\* (1-indexed) to fill all available contiguous space" (partition.go:26-27).
\* growMBR does not look at the other entries (growmbr.go:59-74), and so it grows a
\* partition over the one that follows it.
GrowsOverFreeSpace ==
    \A d \in Disks : \A m \in Nums : \A n \in Nums \ {m} : ~Overlap(table[d], m, n)

\* The filesystem fills its partition when GrowLive has come to the marker
\* (grow.go:61-71), although BLKRRPART may fail after the table is written: its
\* error leaves resize2fs to the next boot, whose kernel reads the new table.  Only
\* growGPT goes on without the kernel (partition.go:95), and that boot is warned.
FilledAtMark ==
    pc = "growMark" =>
        LET d == goal[1]  n == goal[2]
        IN  warned \/ fsLen[d][n] = KernelLen(table[d][n], total[d])

\* GrowPartition can never work on this machine.
Ungrowable ==
    \/ marker \in {Garbled, Absent}
    \/ \E d \in Disks : \/ ProbePartitionTableType(sectors[d]) = "unknown"
                         \/ ~sectors[d].readable \/ Overlapping(table[d])


\* /etc/ssh leads to all the files of the image, in every boot, unless the first
\* copy was broken off: SetupSSH takes the directory for a complete copy
\* (local.go:39) and never repeats it.
SshComplete ==
    etcSsh = "link" => copyBroken \/ sshDir = SshFiles

\* The machine comes up under the same name in every boot without an error, unless
\* the name was lost: a cut or an error between the creation of the persisted
\* file and its content (hostname.go:40) leaves an empty file that is never
\* written again, and a file that cannot be read is replaced (hostname.go:22).
NameKept ==
    pc = "done" /\ smooth /\ ~nameLost => kernelName = known

\* And then /etc/hostname says the same as the kernel, whoever has set the name: the
\* image, rc, finalization or the configuration.  /etc/hosts does so where
\* SetupHosts has made it; one of the image does if a name was set and it has a line
\* for 127.0.1.1, which is all that syncHostname rewrites (hostname.go:67).
NamesAgree ==
    pc = "done" /\ smooth /\ ~nameLost =>
        /\ kernelName \in Names => etcName = kernelName
        /\ Wanted \in Names => hosts \in {Wanted, NoLine}
        /\ imageHosts = Absent => hosts = etcName

\* Whatever fails or is cut short, what a boot leaves on the disk lets a later one
\* come to its end, once the faults stop and somebody restarts the machine; but
\* for a machine with a growpart marker, which is never removed, and one whose image
\* has no /etc/hosts, as soon as it has a name.
ComesUpAgain == pc = "off" ~> (pc = "done" \/ marker # Absent \/ NoHosts)
=============================================================================
