------------------------------ MODULE DevPopulate ------------------------------
(***************************************************************************)
(* Early run control (internal/cli/rc): the mounts of rcNamespace, applied *)
(* with internal/namespace, and PopulateDev (internal/devpopulate), which  *)
(* makes the device nodes and the links under /dev/disk that FindByLabel   *)
(* and resolveDevice read.                                                 *)
(*                                                                         *)
(* A tag is a label or a UUID; both have links of their own, made in the   *)
(* same way.  All of this is in memory and gone with the next boot.        *)
(***************************************************************************)
EXTENDS Naturals, Sequences, FiniteSets

CONSTANTS
    SysBlock,       \* the entries of /sys/class/block, in order
    Parts,          \* Parts[d]: the partitions below d, in order
    Own,            \* Own[d]: the tags of d's own filesystem
    Devtmpfs,       \* devices for which devtmpfs has a node
    NoDev,          \* no device
    MaxFaults       \* bound on failing calls and power cuts

Devices == DOMAIN Parts

Tags == UNION {Own[d] : d \in Devices}

ASSUME PopulateAssumption ==
    /\ SysBlock \in Seq(Devices)
    /\ Parts \in [Devices -> Seq(Devices)]
    /\ DOMAIN Own = Devices
    /\ Devtmpfs \subseteq Devices
    /\ NoDev \notin Devices
    /\ MaxFaults \in Nat

\* The names in sysfs.  A directory is listed in the order of its names, so that a
\* disk comes before its partitions, whose names begin with its own; a partition
\* is below one disk, has no partitions, and has an entry in /sys/class/block, from
\* which ensureDeviceNode takes its numbers.
ASSUME SysfsAssumption ==
    /\ \A i, j \in DOMAIN SysBlock : SysBlock[i] = SysBlock[j] => i = j
    /\ \A i, j \in DOMAIN SysBlock : \A k \in DOMAIN Parts[SysBlock[i]] :
          SysBlock[j] = Parts[SysBlock[i]][k] => i < j
    /\ \A d, e \in Devices : \A i \in DOMAIN Parts[d] : \A j \in DOMAIN Parts[e] :
          Parts[d][i] = Parts[e][j] => d = e
    /\ \A d \in Devices : \A i \in DOMAIN Parts[d] :
          /\ Parts[Parts[d][i]] = <<>>
          /\ \E k \in DOMAIN SysBlock : SysBlock[k] = Parts[d][i]

VARIABLES
    nodes,          \* devices with a node in /dev
    entry,          \* the place of PopulateDev in devNames: the entry of SysBlock
    sub,            \* and, unless 0, which of its partitions
    links,          \* links[t]: the device that the link for tag t names
    linked,         \* history: devices whose own tags were linked
    slips,          \* history: a step of PopulateDev failed in this boot
    faults

rcVars == <<nodes, entry, sub, links, linked, slips>>

\* PopulateDev is through with devNames.
Populated == entry > Len(SysBlock)

rcTypeOK ==
    /\ nodes \in SUBSET Devices
    /\ entry \in 1 .. Len(SysBlock) + 1
    /\ sub \in IF Populated THEN {0} ELSE 0 .. Len(Parts[SysBlock[entry]])
    /\ links \in [Tags -> Devices \cup {NoDev}]
    /\ linked \in SUBSET Devices
    /\ slips \in BOOLEAN
    /\ faults \in 0 .. MaxFaults

NoLinks == [t \in Tags |-> NoDev]

rcInit ==
    /\ nodes = {} /\ entry = Len(SysBlock) + 1 /\ sub = 0
    /\ links = NoLinks /\ linked = {} /\ slips = FALSE

\* The memory of the machine is gone.
rcForget ==
    /\ nodes' = {} /\ entry' = Len(SysBlock) + 1 /\ sub' = 0
    /\ links' = NoLinks /\ linked' = {} /\ slips' = FALSE

\* A call fails for a reason of its own.
Fault == faults < MaxFaults /\ faults' = faults + 1

Works == UNCHANGED faults

-----------------------------------------------------------------------------
\* devNames, by its places: the entries of /sys/class/block, each followed by its
\* partitions, which have entries of their own as well.
DevName(i, j) == IF j = 0 THEN SysBlock[i] ELSE Parts[SysBlock[i]][j]

\* On to the next place.
Advance ==
    IF sub < Len(Parts[SysBlock[entry]])
    THEN sub' = sub + 1 /\ UNCHANGED entry
    ELSE sub' = 0 /\ entry' = entry + 1

\* The mounts of rcNamespace that something here depends on.
Targets == {"dev", "sys"}

\* ApplyTracked: a mount that fails is passed over, with a warning.  Then
\* PopulateDev reads /sys/class/block.
DoMounts(missing) ==
    /\ faults + Cardinality(missing) <= MaxFaults
    /\ faults' = faults + Cardinality(missing)
    /\ nodes' = IF "dev" \in missing THEN {} ELSE Devtmpfs
    /\ entry' = IF "sys" \in missing THEN Len(SysBlock) + 1 ELSE 1
    /\ sub' = 0
    /\ slips' = ("sys" \in missing)
    /\ UNCHANGED <<links, linked>>

\* What BlkidProber.Probe returns: the device's own tags or, if it has none, those
\* of its first partition that has any.
Probe(d) ==
    IF Own[d] # {} THEN Own[d]
    ELSE LET tagged == {i \in DOMAIN Parts[d] : Own[Parts[d][i]] # {}}
         IN  IF tagged = {} THEN {}
             ELSE Own[Parts[d][CHOOSE i \in tagged : \A j \in tagged : i <= j]]

\* Mutant: a link that exists already is kept.
createSymlinkOnce(d, failing, kept) ==
    [t \in Tags |->
        IF t \notin Probe(d) \/ links[t] # NoDev THEN links[t]
        ELSE IF t \in failing THEN NoDev ELSE d]

\* createSymlink for the tags of d.  The old link is removed first: a failure
\* before that keeps it, one after that leaves none.
createSymlink(d, failing, kept) ==
    [t \in Tags |->
        IF t \notin Probe(d) \/ t \in kept THEN links[t]
        ELSE IF t \in failing THEN NoDev ELSE d]

\* One device of PopulateDev.  ensureDeviceNode makes a node if there is none and
\* its major and minor numbers are known.
PopulateOne ==
    /\ ~Populated
    /\ Advance
    /\ LET d == DevName(entry, sub)
       IN  \/ \* linked, but for some tags
              /\ \E failing \in SUBSET Probe(d) : \E kept \in SUBSET failing :
                    /\ IF failing = {} THEN Works ELSE Fault
                    /\ slips' = (slips \/ failing # {})
                    /\ links' = createSymlink(d, failing, kept)
                    /\ linked' = IF failing = {} THEN linked \cup {d} ELSE linked
              /\ nodes' = nodes \cup {d}
           \/ \* no node, or the probe fails: passed over
              /\ Fault
              /\ slips' = TRUE
              /\ nodes' \in {nodes, nodes \cup {d}}
              /\ UNCHANGED <<links, linked>>

\* The directory of an entry cannot be read: its partitions are not listed here.
PartsUnread ==
    /\ ~Populated /\ sub = 1
    /\ Fault
    /\ slips' = TRUE
    /\ sub' = 0 /\ entry' = entry + 1
    /\ UNCHANGED <<nodes, links, linked>>
=============================================================================
