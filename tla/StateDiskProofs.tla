---------------------------- MODULE StateDiskProofs ----------------------------
(***************************************************************************)
(* Proofs about StateDisk: what growing does to a partition table, and     *)
(* what the boots of a machine keep of /etc/ssh and of its name, for any   *)
(* disks, files and names, any number of boots and of faults.              *)
(*                                                                         *)
(* The argument: the kernel's lengths follow the table until GrowTable and *)
(* again before resize2fs (GrowInv); the directory of /etc/ssh is complete *)
(* unless a copy is under way or was broken off (SshInv); the persisted    *)
(* name is made up once, and Final is what every boot comes to (EtcInv,    *)
(* PersistInv, KernelNameInv).  The links under /dev/disk follow the place *)
(* of PopulateDev, which comes to a disk before its partitions (LinksInv). *)
(***************************************************************************)
EXTENDS StateDisk, TLAPS, FiniteSetTheorems

\* What the machine is does not change.
FixedInv ==
    /\ sectors \in [Disks -> Sectors]
    /\ total \in [Disks -> Lengths]
    /\ marker \in Markers
    /\ configName \in Names \cup {Empty}
    /\ imageName \in Names \cup {Absent}
    /\ imageHosts \in Names \cup {NoLine, Absent}

\* The steps of a boot, in order, up to the table that is written.
BeforeGrowth ==
    {"populate", "rcName", "initName", "initSync", "ssh", "sshCopy", "sshRemove",
     "sshLink", "node", "grow", "growTable"}

GrowthPCs == {"growTable", "growKernel", "growFs", "growMark"}

\* growMBR does not look at the other entries (growmbr.go:59): partitions come to
\* overlap, but only on an MBR disk, where the first of the two was grown as far as
\* an MBR and the disk allow, over the second.
OverlapOnlyByMBR ==
    \A d \in Disks : \A m \in Nums : \A n \in Nums \ {m} :
        Overlap(table[d], m, n) /\ table[d][m].start <= table[d][n].start =>
            /\ ProbePartitionTableType(sectors[d]) = "mbr"
            /\ table[d][m].len = maxLen(total[d], table[d][m])

\* The length that the table gives to partition n of d, as the kernel cuts it off.
TableLen(d, n) == KernelLen(table[d][n], total[d])

\* The kernel follows the table from the boot up to GrowTable, and again before
\* resize2fs is run.
GrowInv ==
    /\ pc \in GrowthPCs => goal \in Disks \X Nums
    /\ pc \in BeforeGrowth => \A d \in Disks : \A n \in Nums : kernelLen[d][n] = TableLen(d, n)
    /\ pc = "growFs" => warned \/ kernelLen[goal[1]][goal[2]] = TableLen(goal[1], goal[2])
    /\ pc = "growMark" => warned \/ fsLen[goal[1]][goal[2]] = TableLen(goal[1], goal[2])

\* The directory of the state partition is complete unless a copy is under way or
\* was broken off.
SshInv ==
    /\ pc = "sshCopy" => sshDir # Absent /\ sshDir \cup toCopy = SshFiles /\ etcSsh = "image"
    /\ pc \in {"sshRemove", "sshLink"} => sshDir # Absent
    /\ pc \in {"off", "populate", "rcName", "initName", "initSync", "ssh"} => etcSsh = "image"
    /\ etcSsh = "link" => sshDir # Absent
    /\ "ssh" \in dirty => sshDir # Absent
    /\ sshDir # Absent /\ pc # "sshCopy" => copyBroken \/ sshDir = SshFiles

\* Up to the first syncHostname.
Early == {"populate", "rcName", "initName", "initSync"}

\* From there up to SetupHostname.
Middle ==
    {"ssh", "sshCopy", "sshRemove", "sshLink", "node", "grow", "growTable", "growKernel",
     "growFs", "growMark", "name"}

NameMaking == {"nameTrunc", "nameWrite", "nameEtc"}

\* No name but one that is made up.
Anonymous == imageName = Absent /\ configName = Empty

\* What a machine that has not lost its name is called.
Final ==
    IF configName # Empty THEN configName
    ELSE IF imageName # Absent THEN imageName ELSE persisted

\* /etc/hostname and /etc/hosts in the course of a boot.
EtcInv ==
    /\ pc \in Early => etcName = imageName /\ hosts = imageHosts
    /\ pc \in Middle /\ configName = Empty =>
          etcName = imageName \/ (etcName = persisted /\ persisted \in Names)
    /\ pc \in Middle \cup {"hosts", "config"} /\ configName # Empty => etcName = configName
    /\ pc \in NameMaking => Anonymous
    /\ imageHosts = Absent =>
          /\ pc \in Middle \cup NameMaking \cup {"hosts"} => hosts = Absent
          /\ pc \in {"config", "sync", "links", "done"} => hosts = etcName
    /\ pc \in {"hosts", "config"} /\ configName = Empty /\ imageName # Absent =>
          etcName = imageName
    /\ pc \in {"hosts", "config"} /\ Anonymous /\ ~nameLost =>
          persisted \in Names /\ etcName = persisted

\* The persisted name: made up once, and then kept.
PersistInv ==
    /\ ~Anonymous => persisted = Absent /\ "name" \notin dirty
    /\ pc = "nameTrunc" /\ ~nameLost => persisted = Absent
    /\ pc = "nameEtc" => persisted = newName /\ newName \in Names
    /\ pc = "nameWrite" => persisted = Empty /\ newName \in Names
    /\ pc \in {"sync", "links"} /\ Anonymous /\ ~nameLost => persisted \in Names
    /\ ~nameLost /\ persisted = Empty => pc = "nameWrite" /\ "name" \in dirty
    /\ known # Absent /\ ~nameLost =>
          known = Final /\ (Anonymous => persisted \in Names)

\* From doHostname up to SetHostname in finalization, but for a name that is made up.
RcNamed == Middle \cup {"initName", "hosts", "config"}

\* The kernel's name in a boot without an error.
KernelNameInv ==
    /\ smooth /\ imageName # Absent /\ configName = Empty /\ pc \in RcNamed =>
          kernelName = imageName
    /\ pc \in {"initSync", "sync"} => kernelName = Wanted /\ Wanted \in Names
    /\ pc \in {"links", "done"} /\ smooth /\ ~nameLost =>
          /\ kernelName = Final /\ etcName = kernelName
          /\ Wanted \in Names => hosts \in {Wanted, NoLine}
          /\ pc = "done" => known = Final

\* PopulateDev at entry e and partition s has been at this place of devNames.
Passed(i, j, e, s) == i < e \/ (i = e /\ j < s)

\* It has been at device d, as an entry of its own or as a partition of another.
Visited(d, e, s) ==
    \E i \in DOMAIN SysBlock : \E j \in 0 .. Len(Parts[SysBlock[i]]) :
        Passed(i, j, e, s) /\ d = DevName(i, j)

\* The links under /dev/disk while PopulateDev is at work.  A disk that answers with
\* the tags of a partition loses their links as soon as the partition is linked;
\* without a failure, no tag of a device that was visited is left without a link.
LinksInv ==
    /\ pc = "off" => links = NoLinks /\ linked = {}
    /\ pc \notin {"off", "populate"} => Populated
    /\ \A d \in linked : Visited(d, entry, sub)
    /\ \A t \in Tags : links[t] # NoDev =>
          /\ Visited(links[t], entry, sub)
          /\ t \in Probe(links[t])
          /\ t \notin Own[links[t]] =>
                \A i \in DOMAIN Parts[links[t]] :
                    t \in Own[Parts[links[t]][i]] => Parts[links[t]][i] \notin linked
    /\ pc # "off" /\ ~slips =>
          \A d \in Devices : Visited(d, entry, sub) =>
              d \in linked /\ \A t \in Probe(d) : links[t] # NoDev

IInv ==
    /\ TypeOK /\ FixedInv /\ OverlapOnlyByMBR /\ LinksInv
    /\ GrowInv /\ SshInv /\ EtcInv /\ PersistInv /\ KernelNameInv

\* The parts of the type invariant.
SshTypes ==
    /\ sshDir \in (SUBSET SshFiles) \cup {Absent}
    /\ etcSsh \in {"image", "gone", "link"}
    /\ toCopy \in SUBSET SshFiles

NameTypes ==
    /\ persisted \in NameFiles /\ etcName \in NameFiles /\ hosts \in NameFiles \cup {NoLine}
    /\ kernelName \in Names \cup {"(none)"}
    /\ newName \in Names \cup {Empty}
    /\ known \in Names \cup {"(none)", Absent}

GrowTypes ==
    /\ table \in [Disks -> Tables]
    /\ kernelLen \in [Disks -> [Nums -> Lengths]]
    /\ fsLen \in [Disks -> [Nums -> Lengths]]
    /\ goal \in (Disks \X Nums) \cup {<<>>}

FlagTypes ==
    /\ pc \in PCs
    /\ dirty \in SUBSET {"ssh", "name"}
    /\ copyBroken \in BOOLEAN /\ nameLost \in BOOLEAN
    /\ warned \in BOOLEAN /\ smooth \in BOOLEAN

-----------------------------------------------------------------------------
(* A call that fails.                                                     *)

\* A boot with an error is not smooth.
LEMMA SlipTold == Slip => ~smooth'
    BY Zenon DEF Slip

\* The flags keep their types when a call fails.
LEMMA SlipFlag == Slip => smooth' \in BOOLEAN
    BY DEF Slip

\* And when that ends the boot.
LEMMA FailsFlag == Fails => pc' = "rescue" /\ smooth' \in BOOLEAN
    BY SlipFlag DEF Fails, Goto

-----------------------------------------------------------------------------
(* The arithmetic of growing.                                              *)

\* An entry of the table and a size fit into the width of the kernel's numbers.
LEMMA EntryFacts ==
    ASSUME NEW t \in Tables, NEW n \in Nums
    PROVE  /\ t[n].start \in Nat /\ t[n].len \in Nat
           /\ t[n].start < Wrap /\ t[n].len < Wrap
           /\ t[n] \in Entry
  <1>1. t[n] \in Entry
    BY DEF Tables
  <1> QED BY <1>1, WidthAssumption DEF Entry

\* The kernel's length of a partition is within the width.
LEMMA KernelLenType ==
    ASSUME NEW t \in Tables, NEW n \in Nums, NEW size \in Lengths
    PROVE  KernelLen(t[n], size) \in Lengths
  <1>1. size \in Nat /\ size < Wrap
    BY WidthAssumption DEF Lengths
  <1>2. /\ t[n].start \in Nat /\ t[n].len \in Nat
        /\ t[n].start < Wrap /\ t[n].len < Wrap
    BY EntryFacts
  <1> QED BY <1>1, <1>2, WidthAssumption DEF KernelLen, End, Lengths

\* The table with another length for entry n.
WithLen(t, n, l) == [t EXCEPT ![n].len = l]

\* It is a table, and the other entries are as they were.
LEMMA NewEntry ==
    ASSUME NEW t \in Tables, NEW n \in Nums, NEW l \in Lengths
    PROVE  /\ WithLen(t, n, l) \in Tables
           /\ WithLen(t, n, l)[n].start = t[n].start /\ WithLen(t, n, l)[n].len = l
           /\ \A m \in Nums : m # n => WithLen(t, n, l)[m] = t[m]
  <1> DEFINE u == WithLen(t, n, l)
             e == [t[n] EXCEPT !.len = l]
  <1>1. t[n] \in Entry /\ t \in [Nums -> Entry]
    BY DEF Tables
  <1>2. e \in Entry /\ e.start = t[n].start /\ e.len = l
    BY <1>1 DEF Entry, Lengths
  <1>3. u = [t EXCEPT ![n] = e]
    BY DEF WithLen
  <1> HIDE DEF e, u
  <1>4. /\ u \in [Nums -> Entry] /\ u[n] = e
        /\ \A m \in Nums : m # n => u[m] = t[m]
    BY <1>1, <1>2, <1>3
  <1> QED BY <1>2, <1>4 DEF Tables, u

\* The lengths of partitions with another one for one of them.
WithLength(f, d, n, l) == [f EXCEPT ![d][n] = l]

\* They are lengths.
LEMMA NewLength ==
    ASSUME NEW f \in [Disks -> [Nums -> Lengths]], NEW d \in Disks, NEW n \in Nums,
           NEW l \in Lengths
    PROVE  WithLength(f, d, n, l) \in [Disks -> [Nums -> Lengths]]
  <1>1. [f[d] EXCEPT ![n] = l] \in [Nums -> Lengths]
    OBVIOUS
  <1> QED BY <1>1 DEF WithLength

\* What growMBR and growGPT promise of the entry that they grow: it is larger, it
\* ends on the disk if it begins there, an MBR entry is as long as can be, a GPT
\* entry ends before the partitions that follow it.
Grows(type, t, n, size, u) ==
    /\ u \in Tables
    /\ u[n].start = t[n].start /\ u[n].len > t[n].len
    /\ \A m \in Nums : m # n => u[m] = t[m]
    /\ t[n].start <= size => End(u[n]) <= size
    /\ type = "mbr" => u[n].len = maxLen(size, t[n]) /\ u[n].len <= LbaMax
    /\ type # "mbr" => \A m \in Nums : m # n /\ InUse(t, m) /\ t[m].start >= End(t[n]) =>
                           End(u[n]) <= t[m].start

\* growMBR keeps the table or grows one entry.
LEMMA MBRGrows ==
    ASSUME NEW t \in Tables, NEW n \in Nums, NEW size \in Lengths
    PROVE  growMBR(t, n, size) = t \/ Grows("mbr", t, n, size, growMBR(t, n, size))
  <1> DEFINE l == maxLen(size, t[n])
  <1>1. size \in Nat /\ size < Wrap
    BY WidthAssumption DEF Lengths
  <1>2. /\ t[n].start \in Nat /\ t[n].len \in Nat
        /\ t[n].start < Wrap /\ t[n].len < Wrap
    BY EntryFacts
  <1>3. /\ Minus(size, t[n].start) \in Nat
        /\ t[n].start <= size => Minus(size, t[n].start) = size - t[n].start
    BY <1>1, <1>2, WidthAssumption DEF Minus
  <1>4. l \in Nat /\ l <= LbaMax /\ l <= Minus(size, t[n].start)
    BY <1>3, WidthAssumption DEF maxLen
  <1>5. l \in Lengths
    BY <1>4, WidthAssumption DEF Lengths
  <1>6. CASE t[n].len >= l
    BY <1>6 DEF growMBR
  <1>7. CASE ~(t[n].len >= l)
    <2> DEFINE u == growMBR(t, n, size)
    <2>1. u = WithLen(t, n, l)
      BY <1>7 DEF growMBR, WithLen
    <2> HIDE DEF u, l
    <2>2. /\ u \in Tables
          /\ u[n].start = t[n].start /\ u[n].len = l
          /\ \A m \in Nums : m # n => u[m] = t[m]
      BY <1>5, <2>1, NewEntry
    <2>3. u[n].len > t[n].len
      BY <1>2, <1>4, <1>7, <2>2
    <2>4. t[n].start <= size => End(u[n]) <= size
      BY <1>1, <1>2, <1>3, <1>4, <2>2 DEF End
    <2>5. Grows("mbr", t, n, size, u)
      BY <1>4, <2>2, <2>3, <2>4 DEF Grows, l
    <2> QED BY <2>5 DEF u
  <1> QED BY <1>6, <1>7

\* A set of numbers with a least one still has one when a number is added.
LEMMA LeastOfMore ==
    ASSUME NEW S \in SUBSET Nat, \E l \in S : \A m \in S : l <= m, NEW x \in Nat
    PROVE  \E l \in S \cup {x} : \A m \in S \cup {x} : l <= m
  <1>1. PICK l \in S : \A m \in S : l <= m
    OBVIOUS
  <1>2. CASE l <= x
    BY <1>1, <1>2
  <1>3. CASE ~(l <= x)
    <2>1. \A m \in S \cup {x} : x <= m
      BY <1>1, <1>3
    <2> QED BY <2>1
  <1> QED BY <1>2, <1>3

\* There is a nearest limit to a partition: Limits is made of at most five numbers.
LEMMA NearestLimit ==
    ASSUME NEW t \in Tables, NEW n \in Nums, NEW size \in Lengths
    PROVE  /\ Limits(t, n, size) \in SUBSET Nat
           /\ \E l \in Limits(t, n, size) : \A m \in Limits(t, n, size) : l <= m
  <1> DEFINE Follows(k) == k # n /\ InUse(t, k) /\ t[k].start >= End(t[n])
             Start(k) == IF Follows(k) THEN {t[k].start} ELSE {}
             Least(S) == S \in SUBSET Nat /\ \E l \in S : \A m \in S : l <= m
  <1>1. size \in Nat
    BY WidthAssumption DEF Lengths
  <1>2. \A k \in Nums : t[k].start \in Nat
    BY EntryFacts
  <1>3. ASSUME NEW S, Least(S), NEW k \in Nums
        PROVE  Least(S \cup Start(k))
    <2>1. CASE Follows(k)
      <3>1. Start(k) = {t[k].start}
        BY <2>1
      <3> QED BY <1>2, <1>3, <3>1, LeastOfMore
    <2>2. CASE ~Follows(k)
      <3>1. S \cup Start(k) = S
        BY <2>2
      <3> QED BY <1>3, <3>1
    <2> QED BY <2>1, <2>2
  <1>4. Limits(t, n, size) = {size} \cup Start(1) \cup Start(2) \cup Start(3) \cup Start(4)
    <2>1. \A k : k \in Nums <=> k = 1 \/ k = 2 \/ k = 3 \/ k = 4
      BY DEF Nums
    <2>2. \A x : x \in Limits(t, n, size) <=>
              x = size \/ \E k \in Nums : Follows(k) /\ x = t[k].start
      BY DEF Limits
    <2>3. \A x, k : x \in Start(k) <=> Follows(k) /\ x = t[k].start
      OBVIOUS
    <2> HIDE DEF Start, Follows
    <2>4. \A x : x \in Limits(t, n, size) <=>
              x \in {size} \cup Start(1) \cup Start(2) \cup Start(3) \cup Start(4)
      BY <2>1, <2>2, <2>3
    <2> QED BY <2>4
  <1>5. 1 \in Nums /\ 2 \in Nums /\ 3 \in Nums /\ 4 \in Nums
    BY DEF Nums
  <1>6. Least({size})
    BY <1>1
  <1> HIDE DEF Start, Least
  <1>7. Least({size} \cup Start(1))
    BY <1>3, <1>5, <1>6
  <1>8. Least({size} \cup Start(1) \cup Start(2))
    BY <1>3, <1>5, <1>7
  <1>9. Least({size} \cup Start(1) \cup Start(2) \cup Start(3))
    BY <1>3, <1>5, <1>8
  <1>10. Least(Limits(t, n, size))
    BY <1>3, <1>4, <1>5, <1>9
  <1> QED BY <1>10 DEF Least

\* growGPT keeps the table or grows one entry.
LEMMA GPTGrows ==
    ASSUME NEW t \in Tables, NEW n \in Nums, NEW size \in Lengths
    PROVE  growGPT(t, n, size) = t \/ Grows("gpt", t, n, size, growGPT(t, n, size))
  <1> DEFINE least(l) == \A m \in Limits(t, n, size) : l <= m
             limit == CHOOSE l \in Limits(t, n, size) : least(l)
             u == growGPT(t, n, size)
  <1>1. limit \in Limits(t, n, size) /\ \A m \in Limits(t, n, size) : limit <= m
    BY NearestLimit
  <1>2. u = IF limit <= End(t[n]) THEN t ELSE [t EXCEPT ![n].len = limit - t[n].start]
    BY DEF growGPT
  <1> HIDE DEF limit, u
  <1>3. size \in Nat /\ size < Wrap /\ size \in Limits(t, n, size)
    BY WidthAssumption DEF Lengths, Limits
  <1>4. limit \in Nat /\ limit <= size
    BY <1>1, <1>3, NearestLimit
  <1>5. t[n].start \in Nat /\ t[n].len \in Nat /\ End(t[n]) = t[n].start + t[n].len
    BY EntryFacts DEF End
  <1>6. CASE limit <= End(t[n])
    BY <1>2, <1>6 DEF u
  <1>7. CASE ~(limit <= End(t[n]))
    <2> DEFINE l == limit - t[n].start
    <2>1. l \in Lengths /\ l > t[n].len /\ l + t[n].start = limit
      BY <1>3, <1>4, <1>5, <1>7, WidthAssumption DEF Lengths
    <2>2. u = WithLen(t, n, l)
      BY <1>2, <1>7 DEF WithLen
    <2> HIDE DEF l
    <2>3. /\ u \in Tables
          /\ u[n].start = t[n].start /\ u[n].len = l
          /\ \A m \in Nums : m # n => u[m] = t[m]
      BY <2>1, <2>2, NewEntry
    <2>4. End(u[n]) = limit
      BY <1>4, <1>5, <2>1, <2>3 DEF End, Lengths
    <2>5. \A m \in Nums : m # n /\ InUse(t, m) /\ t[m].start >= End(t[n]) =>
              limit <= t[m].start
      BY <1>1 DEF Limits
    <2>6. Grows("gpt", t, n, size, u)
      BY <1>4, <2>1, <2>3, <2>4, <2>5 DEF Grows
    <2> QED BY <2>6 DEF u
  <1> QED BY <1>6, <1>7

\* What GrowPartition writes.
LEMMA GrownFacts ==
    ASSUME NEW t \in Tables, NEW n \in Nums, NEW size \in Lengths, NEW type \in {"mbr", "gpt"}
    PROVE  Grown(type, t, n, size) = t \/ Grows(type, t, n, size, Grown(type, t, n, size))
  <1>1. CASE type = "mbr"
    BY <1>1, MBRGrows DEF Grown
  <1>2. CASE type = "gpt"
    BY <1>2, GPTGrows DEF Grown
  <1> QED BY <1>1, <1>2

\* GrowPartition's effect: one entry of one table has grown.
TableGrows(d, n) ==
    /\ d \in Disks /\ n \in Nums /\ goal = <<d, n>>
    /\ InUse(table[d], n)
    /\ table' \in [Disks -> Tables]
    /\ \A e \in Disks : e # d => table'[e] = table[e]
    /\ Grows(ProbePartitionTableType(sectors[d]), table[d], n, total[d], table'[d])

\* A step that writes a table grows one entry of it.
LEMMA TableStep ==
    ASSUME IInv, Next
    PROVE  table' = table \/ (pc = "growTable" /\ TableGrows(goal[1], goal[2]))
  <1>1. CASE GrowTable
    <2> DEFINE d == goal[1]
               n == goal[2]
    <2>1. pc = "growTable" /\ goal \in Disks \X Nums
      BY <1>1 DEF GrowTable, IInv, GrowInv, GrowthPCs
    <2>2. d \in Disks /\ n \in Nums /\ goal = <<d, n>>
      BY <2>1
    <2>3. table \in [Disks -> Tables] /\ table[d] \in Tables /\ total[d] \in Lengths
      BY <2>2 DEF IInv, TypeOK, FixedInv
    <2> HIDE DEF d, n
    <2>4. CASE /\ tableType # "unknown" /\ InUse(table[d], n)
               /\ table' = [table EXCEPT ![d] = NewTable]
      <3>1. tableType \in {"mbr", "gpt"} /\ tableType = ProbePartitionTableType(sectors[d])
        BY <2>4 DEF tableType, ProbePartitionTableType, d
      <3>2. NewTable = Grown(tableType, table[d], n, total[d])
        BY DEF NewTable, d, n
      <3> HIDE DEF tableType
      <3>3. NewTable = table[d] \/ Grows(tableType, table[d], n, total[d], NewTable)
        BY <2>2, <2>3, <3>1, <3>2, GrownFacts
      <3>4. CASE NewTable = table[d]
        BY <2>2, <2>3, <2>4, <3>4
      <3>5. CASE Grows(tableType, table[d], n, total[d], NewTable)
        <4>1. NewTable \in Tables
          BY <3>5 DEF Grows
        <4>2. /\ table' \in [Disks -> Tables] /\ table'[d] = NewTable
              /\ \A e \in Disks : e # d => table'[e] = table[e]
          BY <2>2, <2>3, <2>4, <4>1
        <4>3. TableGrows(d, n)
          BY <2>2, <2>4, <3>1, <3>5, <4>2 DEF TableGrows
        <4> QED BY <2>1, <4>3 DEF d, n
      <3> QED BY <3>3, <3>4, <3>5
    <2>5. CASE table' = table
      BY <2>5
    <2> QED BY <1>1, <2>4, <2>5 DEF GrowTable, Refused, d, n
  <1>2. CASE ~GrowTable
    BY <1>2 DEF Next, Step, Boot, DoHotplug, DoHostname, StatPersistDir, CopySsh,
       RemoveEtcSsh, LinkEtcSsh, SetupRancherNode, FindPartition, TellKernel, ResizeFs,
       RemoveMarker, SetupHostname, MakeUpName, PersistName, WriteEtcHostname, SetupHosts,
       InitSetHostname, InitSyncHostname, BootSetHostname, BootSyncHostname, SetHostname,
       SyncHostname, BootDone, Restart, Shutdown, PowerCut, PowerOff, notSsh, notGrow,
       notName, growVars
  <1> QED BY <1>1, <1>2

\* Only growMBR makes partitions overlap.
LEMMA OverlapStep ==
    ASSUME IInv, Next, sectors' = sectors, total' = total
    PROVE  OverlapOnlyByMBR'
  <1>1. CASE table' = table
    BY <1>1 DEF IInv, OverlapOnlyByMBR
  <1>2. ASSUME NEW d, NEW n, TableGrows(d, n)
        PROVE  OverlapOnlyByMBR'
    <2>1. d \in Disks /\ n \in Nums /\ InUse(table[d], n)
      BY <1>2 DEF TableGrows
    <2>2. \A e \in Disks : table[e] \in Tables /\ total[e] \in Lengths
      BY DEF IInv, TypeOK, FixedInv
    <2> SUFFICES ASSUME NEW e \in Disks, NEW a \in Nums, NEW b \in Nums \ {a},
                        Overlap(table'[e], a, b), table'[e][a].start <= table'[e][b].start
                 PROVE  /\ ProbePartitionTableType(sectors[e]) = "mbr"
                        /\ table'[e][a].len = maxLen(total[e], table'[e][a])
      BY DEF OverlapOnlyByMBR
    <2> DEFINE type == ProbePartitionTableType(sectors[e])
    <2>3. Overlap(table[e], a, b) /\ table[e][a].start <= table[e][b].start =>
              type = "mbr" /\ table[e][a].len = maxLen(total[e], table[e][a])
      BY DEF IInv, OverlapOnlyByMBR
    <2> DEFINE t == table[e]
               u == table'[e]
    <2>4. CASE e # d
      <3>1. u = t
        BY <1>2, <2>4 DEF TableGrows
      <3> QED BY <2>3, <3>1
    <2>5. CASE e = d
      <3>1. Grows(type, t, n, total[e], u)
        BY <1>2, <2>5 DEF TableGrows
      <3>2. /\ t[a].start \in Nat /\ t[a].len \in Nat /\ t[b].start \in Nat /\ t[b].len \in Nat
            /\ u[a].start \in Nat /\ u[a].len \in Nat /\ u[b].start \in Nat /\ u[b].len \in Nat
        BY <2>2, <3>1, EntryFacts DEF Grows
      <3> HIDE DEF t, u, type
      <3>3. CASE a = n
        <4>1. u[b] = t[b] /\ u[a].start = t[a].start
          BY <3>1, <3>3 DEF Grows
        <4>2. CASE type = "mbr"
          BY <3>1, <3>3, <4>1, <4>2 DEF Grows, maxLen, t, u, type
        <4>3. CASE type # "mbr"
          <5>1. InUse(t, b) /\ InUse(t, a) /\ t[b].start < End(u[a])
            BY <2>1, <2>5, <3>3, <4>1 DEF Overlap, InUse, t, u
          <5>2. ~(t[b].start >= End(t[a]))
            BY <3>1, <3>2, <3>3, <4>1, <4>3, <5>1 DEF Grows, End
          <5>3. Overlap(t, a, b)
            BY <3>2, <4>1, <5>1, <5>2 DEF Overlap, End, InUse, u
          <5> QED BY <2>3, <4>1, <4>3, <5>3 DEF t, u, type
        <4> QED BY <4>2, <4>3
      <3>4. CASE a # n
        <4>1. u[a] = t[a] /\ u[b].start = t[b].start
          BY <3>1, <3>4 DEF Grows
        <4>2. InUse(t, b)
          BY <2>1, <2>5, <3>1, <3>4 DEF Overlap, Grows, InUse, t, u
        <4>3. Overlap(t, a, b)
          BY <3>2, <4>1, <4>2 DEF Overlap, End, InUse, u
        <4> QED BY <2>3, <4>1, <4>3 DEF t, u, type
      <3> QED BY <3>3, <3>4
    <2> QED BY <2>4, <2>5
  <1> QED BY <1>1, <1>2, TableStep

-----------------------------------------------------------------------------
(* Preservation, one step per action.                                      *)

\* Where PopulateDev is at work, there is a device.
LEMMA PlaceType ==
    ASSUME rcTypeOK, ~Populated
    PROVE  /\ entry \in DOMAIN SysBlock /\ SysBlock[entry] \in Devices
           /\ Parts[SysBlock[entry]] \in Seq(Devices)
           /\ sub \in 0 .. Len(Parts[SysBlock[entry]])
           /\ DevName(entry, sub) \in Devices
  <1>1. SysBlock \in Seq(Devices) /\ Parts \in [Devices -> Seq(Devices)]
    BY PopulateAssumption
  <1>2. entry \in 1 .. Len(SysBlock)
    BY <1>1 DEF rcTypeOK, Populated
  <1>3. entry \in DOMAIN SysBlock /\ SysBlock[entry] \in Devices
    BY <1>1, <1>2
  <1>4. Parts[SysBlock[entry]] \in Seq(Devices)
    BY <1>1, <1>3
  <1>5. sub \in 0 .. Len(Parts[SysBlock[entry]])
    BY DEF rcTypeOK
  <1> DEFINE ps == Parts[SysBlock[entry]]
  <1>6. sub # 0 => ps[sub] \in Devices
    <2> HIDE DEF ps
    <2> QED BY <1>4, <1>5 DEF ps
  <1> QED BY <1>3, <1>4, <1>5, <1>6 DEF DevName

\* The place has its type.
PlaceOK ==
    /\ entry \in 1 .. Len(SysBlock) + 1
    /\ sub \in IF Populated THEN {0} ELSE 0 .. Len(Parts[SysBlock[entry]])

\* And it keeps it: on to the next partition, or to the next entry.
LEMMA PlaceStep ==
    ASSUME rcTypeOK, ~Populated, Advance \/ (sub' = 0 /\ entry' = entry + 1)
    PROVE  PlaceOK'
  <1>1. /\ SysBlock \in Seq(Devices) /\ Parts \in [Devices -> Seq(Devices)]
        /\ Len(SysBlock) \in Nat
    BY PopulateAssumption
  <1>2. /\ entry \in 1 .. Len(SysBlock) /\ sub \in 0 .. Len(Parts[SysBlock[entry]])
        /\ Len(Parts[SysBlock[entry]]) \in Nat
    BY <1>1, PlaceType
  <1>3. CASE sub' = sub + 1 /\ entry' = entry /\ sub < Len(Parts[SysBlock[entry]])
    BY <1>1, <1>2, <1>3 DEF PlaceOK, Populated
  <1>4. CASE sub' = 0 /\ entry' = entry + 1
    <2>1. entry' \in 1 .. Len(SysBlock) + 1
      BY <1>1, <1>2, <1>4
    <2>2. ~Populated' => entry' \in DOMAIN SysBlock
      BY <1>1, <2>1 DEF Populated
    <2>3. ~Populated' => Len(Parts[SysBlock[entry']]) \in Nat
      BY <1>1, <2>2
    <2> QED BY <1>4, <2>1, <2>3 DEF PlaceOK
  <1> QED BY <1>3, <1>4 DEF Advance

\* What one device of PopulateDev does to the links.
LEMMA PopulateShape ==
    ASSUME PopulateOne
    PROVE  \/ \E failing \in SUBSET Probe(DevName(entry, sub)) : \E kept \in SUBSET failing :
                 /\ failing # {} \/ slips => slips'
                 /\ links' = createSymlink(DevName(entry, sub), failing, kept)
                 /\ linked' = IF failing = {} THEN linked \cup {DevName(entry, sub)}
                                              ELSE linked
           \/ slips' /\ links' = links /\ linked' = linked
    BY DEF PopulateOne

\* Early run control keeps its types: PopulateDev goes through the places of
\* devNames.
LEMMA RcTypesStep ==
    ASSUME IInv, Next
    PROVE  rcTypeOK'
  <1>a. /\ nodes \in SUBSET Devices /\ linked \in SUBSET Devices
        /\ links \in [Tags -> Devices \cup {NoDev}]
        /\ slips \in BOOLEAN
    BY DEF IInv, TypeOK, rcTypeOK
  <1>b. rcTypeOK /\ PlaceOK
    BY DEF IInv, TypeOK, rcTypeOK, PlaceOK
  <1>c. faults \in 0 .. MaxFaults /\ MaxFaults \in Nat
    BY PopulateAssumption DEF IInv, TypeOK, rcTypeOK
  <1>d. Len(SysBlock) \in Nat /\ Parts \in [Devices -> Seq(Devices)] /\ SysBlock \in Seq(Devices)
    BY PopulateAssumption
  <1>e. ASSUME entry' = Len(SysBlock) + 1, sub' = 0
        PROVE  PlaceOK'
    BY <1>d, <1>e DEF PlaceOK, Populated
  <1>1. CASE Boot
    <2>1. PICK missing \in SUBSET Targets : DoMounts(missing)
      BY <1>1 DEF Boot
    <2>2. Cardinality(missing) \in Nat
      <3>1. IsFiniteSet(Targets)
        <4>1. Targets = {"dev"} \cup {"sys"}
          BY DEF Targets
        <4>2. IsFiniteSet({"dev"}) /\ IsFiniteSet({"sys"})
          BY FS_Singleton
        <4> QED BY <4>1, <4>2, FS_Union
      <3>2. IsFiniteSet(missing)
        BY <3>1, FS_Subset
      <3> QED BY <3>2, FS_CardinalityType
    <2>3. faults' \in 0 .. MaxFaults
      BY <1>c, <2>1, <2>2 DEF DoMounts
    <2>4. nodes' \in SUBSET Devices
      BY <2>1, PopulateAssumption DEF DoMounts
    <2>5. PlaceOK'
      <3>1. sub' = 0 /\ entry' \in {1, Len(SysBlock) + 1}
        BY <2>1 DEF DoMounts
      <3>2. CASE entry' = 1 /\ ~Populated'
        <4>1. 1 \in DOMAIN SysBlock
          BY <1>d, <3>2 DEF Populated
        <4>2. Len(Parts[SysBlock[1]]) \in Nat
          BY <1>d, <4>1
        <4> QED BY <1>d, <3>1, <3>2, <4>2 DEF PlaceOK
      <3>3. CASE Populated'
        BY <1>d, <3>1, <3>3 DEF PlaceOK
      <3>4. CASE entry' = Len(SysBlock) + 1
        BY <1>e, <3>1, <3>4
      <3> QED BY <3>1, <3>2, <3>3, <3>4
    <2>6. slips' \in BOOLEAN /\ links' = links /\ linked' = linked
      BY <2>1 DEF DoMounts
    <2> QED BY <1>a, <2>3, <2>4, <2>5, <2>6 DEF rcTypeOK, PlaceOK
  <1>2. CASE DoHotplug
    <2>1. CASE UNCHANGED <<rcVars, faults>>
      BY <2>1, <1>a, <1>b, <1>c DEF rcVars, rcTypeOK, PlaceOK, Populated
    <2>2. CASE PopulateOne
      <3> DEFINE d == DevName(entry, sub)
      <3>1. d \in Devices
        BY <1>b, <2>2, PlaceType DEF PopulateOne
      <3>2. PlaceOK'
        BY <1>b, <2>2, PlaceStep DEF PopulateOne
      <3>3. faults' = faults \/ Fault
        BY <2>2 DEF PopulateOne, Works
      <3>4. faults' \in 0 .. MaxFaults
        BY <1>c, <3>3 DEF Fault
      <3>5. nodes' = nodes \/ nodes' = nodes \cup {d}
        BY <2>2 DEF PopulateOne
      <3>6. linked' = linked \/ linked' = linked \cup {d}
        BY <2>2, PopulateShape
      <3>7. links' = links \/ \E failing, kept : links' = createSymlink(d, failing, kept)
        BY <2>2, PopulateShape
      <3>8. \A failing, kept : createSymlink(d, failing, kept) \in [Tags -> Devices \cup {NoDev}]
        BY <1>a, <3>1 DEF createSymlink
      <3>9. slips' \in BOOLEAN
        BY <1>a, <2>2 DEF PopulateOne
      <3> HIDE DEF d
      <3>10. nodes' \in SUBSET Devices /\ linked' \in SUBSET Devices
        BY <1>a, <3>1, <3>5, <3>6
      <3>11. links' \in [Tags -> Devices \cup {NoDev}]
        BY <1>a, <3>7, <3>8
      <3> QED BY <3>2, <3>4, <3>9, <3>10, <3>11 DEF rcTypeOK, PlaceOK
    <2>3. CASE PartsUnread
      <3>1. PlaceOK'
        BY <1>b, <2>3, PlaceStep DEF PartsUnread
      <3>2. faults' \in 0 .. MaxFaults
        BY <1>c, <2>3 DEF PartsUnread, Fault
      <3> QED BY <1>a, <2>3, <3>1, <3>2 DEF PartsUnread, rcTypeOK, PlaceOK
    <2> QED BY <1>2, <2>1, <2>2, <2>3 DEF DoHotplug
  <1>3. CASE Restart \/ Shutdown \/ PowerCut
    <2>1. rcForget /\ (faults' = faults \/ Fault)
      BY <1>3 DEF Restart, Shutdown, PowerCut, PowerOff
    <2>2. faults' \in 0 .. MaxFaults
      BY <1>c, <2>1 DEF Fault
    <2>3. NoLinks \in [Tags -> Devices \cup {NoDev}]
      BY DEF NoLinks
    <2>4. PlaceOK'
      BY <1>e, <2>1 DEF rcForget
    <2> QED BY <2>1, <2>2, <2>3, <2>4 DEF rcForget, rcTypeOK, PlaceOK
  <1>4. CASE ~(Boot \/ DoHotplug \/ Restart \/ Shutdown \/ PowerCut)
    <2>1. UNCHANGED rcVars
      BY <1>4 DEF Next, Step, DoHostname, StatPersistDir, CopySsh, RemoveEtcSsh, LinkEtcSsh,
         SetupRancherNode, FindPartition, GrowTable, TellKernel, ResizeFs, RemoveMarker,
         SetupHostname, MakeUpName, PersistName, WriteEtcHostname, SetupHosts, InitSetHostname,
         InitSyncHostname, BootSetHostname, BootSyncHostname, SetHostname, SyncHostname,
         BootDone, notSsh, notGrow, notName
    <2>2. faults' = faults \/ Fault
      BY <1>4 DEF Next, Step, DoHostname, StatPersistDir, CopySsh, RemoveEtcSsh, LinkEtcSsh,
         SetupRancherNode, FindPartition, GrowTable, TellKernel, ResizeFs, RemoveMarker,
         SetupHostname, MakeUpName, PersistName, WriteEtcHostname, SetupHosts, InitSetHostname,
         InitSyncHostname, BootSetHostname, BootSyncHostname, SetHostname, SyncHostname,
         BootDone, OK, Fails, Slip
    <2>3. faults' \in 0 .. MaxFaults
      BY <1>c, <2>2 DEF Fault
    <2> QED BY <1>a, <1>b, <2>1, <2>3 DEF rcVars, rcTypeOK, PlaceOK, Populated
  <1> QED BY <1>1, <1>2, <1>3, <1>4

\* A device with tags of its own answers with them; one without answers with those
\* of a partition.
LEMMA ProbeFacts ==
    ASSUME NEW d \in Devices, NEW t \in Probe(d)
    PROVE  \/ t \in Own[d]
           \/ Own[d] = {} /\ \E i \in DOMAIN Parts[d] : t \in Own[Parts[d][i]]
  <1>1. CASE Own[d] # {}
    BY <1>1 DEF Probe
  <1>2. CASE Own[d] = {}
    <2> DEFINE tagged == {i \in DOMAIN Parts[d] : Own[Parts[d][i]] # {}}
               first == CHOOSE i \in tagged : \A j \in tagged : i <= j
    <2>1. tagged # {} /\ t \in Own[Parts[d][first]]
      BY <1>2 DEF Probe
    <2>2. tagged \subseteq 1 .. 4
      BY StateAssumption DEF Nums
    <2>3. \E i \in tagged : \A j \in tagged : i <= j
      <3> HIDE DEF tagged
      <3>1. CASE 1 \in tagged
        BY <2>2, <3>1
      <3>2. CASE 1 \notin tagged /\ 2 \in tagged
        BY <2>2, <3>2
      <3>3. CASE 1 \notin tagged /\ 2 \notin tagged /\ 3 \in tagged
        BY <2>2, <3>3
      <3>4. CASE 1 \notin tagged /\ 2 \notin tagged /\ 3 \notin tagged
        <4>1. \A i \in tagged : i = 4
          BY <2>2, <3>4
        <4> QED BY <2>1, <4>1
      <3> QED BY <3>1, <3>2, <3>3, <3>4
    <2>4. first \in tagged
      BY <2>3
    <2> QED BY <1>2, <2>1, <2>4
  <1> QED BY <1>1, <1>2

\* A tag of the device's own is among its answer.
LEMMA ProbeOwn ==
    ASSUME NEW d \in Devices, NEW t \in Own[d]
    PROVE  t \in Probe(d)
    BY DEF Probe

\* What has been visited after a step to the next place: what was visited before,
\* and the device of the step.
LEMMA VisitedStep ==
    ASSUME rcTypeOK, ~Populated, Advance
    PROVE  \A d : Visited(d, entry', sub') <=> Visited(d, entry, sub) \/ d = DevName(entry, sub)
  <1>1. /\ entry \in DOMAIN SysBlock /\ entry \in Nat
        /\ sub \in 0 .. Len(Parts[SysBlock[entry]])
        /\ Len(Parts[SysBlock[entry]]) \in Nat
    BY PlaceType, PopulateAssumption
  <1>2. \A i \in DOMAIN SysBlock : i \in Nat
    BY PopulateAssumption
  <1>3. ASSUME NEW i \in DOMAIN SysBlock, NEW j \in 0 .. Len(Parts[SysBlock[i]])
        PROVE  Passed(i, j, entry', sub') <=> Passed(i, j, entry, sub) \/ (i = entry /\ j = sub)
    BY <1>1, <1>2, <1>3 DEF Passed, Advance
  <1> QED BY <1>1, <1>3 DEF Visited, DevName

\* A partition is visited after its disk: when PopulateDev comes to a disk, it has
\* not been at any of its partitions.
LEMMA DiskFirst ==
    ASSUME rcTypeOK, ~Populated,
           NEW i \in DOMAIN Parts[DevName(entry, sub)]
    PROVE  /\ ~Visited(Parts[DevName(entry, sub)][i], entry, sub)
           /\ Parts[DevName(entry, sub)][i] # DevName(entry, sub)
  <1>1. /\ entry \in DOMAIN SysBlock /\ SysBlock[entry] \in Devices
        /\ sub \in 0 .. Len(Parts[SysBlock[entry]])
        /\ Parts[SysBlock[entry]] \in Seq(Devices)
    BY PlaceType
  <1>2. sub = 0
    <2>1. sub # 0 => sub \in DOMAIN Parts[SysBlock[entry]]
      BY <1>1
    <2> QED BY <1>1, <2>1, SysfsAssumption DEF DevName
  <1> DEFINE d == SysBlock[entry]
  <1>3. DevName(entry, sub) = d /\ i \in DOMAIN Parts[d] /\ d \in Devices
    BY <1>1, <1>2 DEF DevName
  <1>4. \A n \in DOMAIN SysBlock : n \in Nat
    BY PopulateAssumption
  <1>5. Parts[d][i] # d
    BY <1>1, <1>3, <1>4, SysfsAssumption
  <1>6. ASSUME NEW n \in DOMAIN SysBlock, NEW j \in 0 .. Len(Parts[SysBlock[n]]),
               Passed(n, j, entry, sub), Parts[d][i] = DevName(n, j)
        PROVE  FALSE
    <2>1. n < entry
      BY <1>2, <1>6 DEF Passed
    <2>2. CASE j = 0
      BY <1>1, <1>3, <1>4, <1>6, <2>1, <2>2, SysfsAssumption DEF DevName
    <2>3. CASE j # 0
      <3>1. SysBlock[n] \in Devices /\ j \in DOMAIN Parts[SysBlock[n]]
        BY <2>3, PopulateAssumption
      <3>2. SysBlock[n] = d
        BY <1>3, <1>6, <2>3, <3>1, SysfsAssumption DEF DevName
      <3> QED BY <1>1, <1>4, <2>1, <3>2, SysfsAssumption
    <2> QED BY <2>2, <2>3
  <1> QED BY <1>3, <1>5, <1>6 DEF Visited

\* The links while PopulateDev goes from device to device.
LEMMA PopulateLinks ==
    ASSUME rcTypeOK, LinksInv, pc = "populate", PopulateOne, pc' = pc
    PROVE  LinksInv'
  <1> DEFINE d == DevName(entry, sub)
  <1>a. ~Populated /\ Advance
    BY DEF PopulateOne
  <1>b. d \in Devices /\ NoDev \notin Devices /\ d # NoDev
    BY <1>a, PlaceType, PopulateAssumption
  <1>c. \A x : Visited(x, entry', sub') <=> Visited(x, entry, sub) \/ x = d
    BY <1>a, VisitedStep
  <1>d. \A i \in DOMAIN Parts[d] : ~Visited(Parts[d][i], entry, sub) /\ Parts[d][i] # d
    BY <1>a, DiskFirst
  <1>e. links \in [Tags -> Devices \cup {NoDev}]
    BY DEF rcTypeOK
  <1>f. \A x \in linked : Visited(x, entry, sub)
    BY DEF LinksInv
  <1>g. ~slips => \A x \in Devices : Visited(x, entry, sub) =>
              x \in linked /\ \A t \in Probe(x) : links[t] # NoDev
    BY DEF LinksInv
  <1>h. \A t \in Tags : links[t] # NoDev =>
          /\ Visited(links[t], entry, sub)
          /\ t \in Probe(links[t])
          /\ t \notin Own[links[t]] =>
                \A i \in DOMAIN Parts[links[t]] :
                    t \in Own[Parts[links[t]][i]] => Parts[links[t]][i] \notin linked
    BY DEF LinksInv
  <1>i. slips \in BOOLEAN /\ slips' \in BOOLEAN
    BY DEF rcTypeOK, PopulateOne
  <1>j. \A x \in Devices : \A t \in Probe(x) : t \in Tags
    <2> TAKE x \in Devices
    <2> TAKE t \in Probe(x)
    <2>1. \A i \in DOMAIN Parts[x] : Parts[x][i] \in Devices
      BY PopulateAssumption
    <2> QED BY <2>1, ProbeFacts DEF Tags
  <1> HIDE DEF d
  <1>1. CASE slips' /\ links' = links /\ linked' = linked
    <2>1. \A x \in linked' : Visited(x, entry', sub')
      BY <1>1, <1>c, <1>f
    <2>2. \A t \in Tags : links'[t] # NoDev => Visited(links'[t], entry', sub')
      BY <1>1, <1>c, <1>h
    <2>3. \A t \in Tags : links'[t] # NoDev =>
             /\ t \in Probe(links'[t])
             /\ t \notin Own[links'[t]] =>
                   \A i \in DOMAIN Parts[links'[t]] :
                       t \in Own[Parts[links'[t]][i]] => Parts[links'[t]][i] \notin linked'
      BY <1>1, <1>h
    <2> QED BY <1>1, <2>1, <2>2, <2>3 DEF LinksInv
  <1>2. ASSUME NEW failing \in SUBSET Probe(d), NEW kept \in SUBSET failing,
               failing # {} \/ slips => slips',
               links' = createSymlink(d, failing, kept),
               linked' = IF failing = {} THEN linked \cup {d} ELSE linked
        PROVE  LinksInv'
    <2>1. \A x \in linked' : Visited(x, entry', sub')
      BY <1>2, <1>c, <1>f
    <2>2. \A t \in Tags :
              links'[t] = IF t \notin Probe(d) \/ t \in kept THEN links[t]
                          ELSE IF t \in failing THEN NoDev ELSE d
      BY <1>2 DEF createSymlink
    <2>3. ASSUME NEW t \in Tags, links'[t] # NoDev
          PROVE  /\ Visited(links'[t], entry', sub')
                 /\ t \in Probe(links'[t])
                 /\ t \notin Own[links'[t]] =>
                      \A i \in DOMAIN Parts[links'[t]] :
                          t \in Own[Parts[links'[t]][i]] => Parts[links'[t]][i] \notin linked'
      <3>1. CASE t \in Probe(d) /\ t \notin kept
        <4>1. links'[t] = d
          BY <2>2, <2>3, <3>1
        <4> QED BY <1>2, <1>c, <1>d, <1>f, <3>1, <4>1
      <3>2. CASE t \notin Probe(d)
        <4>1. links'[t] = links[t]
          BY <2>2, <3>2
        <4>2. t \notin Own[d]
          BY <1>b, <3>2, ProbeOwn
        <4> QED BY <1>2, <1>c, <1>h, <2>3, <4>1, <4>2
      <3>3. CASE t \in kept
        <4>1. links'[t] = links[t] /\ linked' = linked
          BY <1>2, <2>2, <3>3
        <4> QED BY <1>c, <1>h, <2>3, <4>1
      <3> QED BY <3>1, <3>2, <3>3
    <2>4. ~slips' => \A x \in Devices : Visited(x, entry', sub') =>
              x \in linked' /\ \A t \in Probe(x) : links'[t] # NoDev
      <3> SUFFICES ASSUME ~slips', NEW x \in Devices, Visited(x, entry', sub')
                   PROVE  x \in linked' /\ \A t \in Probe(x) : links'[t] # NoDev
        OBVIOUS
      <3>1. failing = {} /\ ~slips /\ linked' = linked \cup {d}
        BY <1>2, <1>i
      <3>2. \A t \in Tags : links'[t] = IF t \notin Probe(d) THEN links[t] ELSE d
        BY <2>2, <3>1
      <3> QED BY <1>b, <1>c, <1>g, <1>j, <3>1, <3>2
    <2> QED BY <2>1, <2>3, <2>4 DEF LinksInv
  <1> QED BY <1>1, <1>2, PopulateShape DEF d

\* Nothing else makes or removes links.
LEMMA LinksStep ==
    ASSUME IInv, Next
    PROVE  LinksInv'
  <1>a. rcTypeOK /\ LinksInv /\ slips \in BOOLEAN /\ pc \in PCs
    BY DEF IInv, TypeOK, rcTypeOK
  <1>1. CASE Boot
    <2>1. links = NoLinks /\ linked = {} /\ pc' = "populate"
      BY <1>1, <1>a DEF Boot, LinksInv, Goto
    <2>2. PICK missing \in SUBSET Targets : DoMounts(missing)
      BY <1>1 DEF Boot
    <2>3. links' = NoLinks /\ linked' = {}
      BY <2>1, <2>2 DEF DoMounts
    <2>4. \A t \in Tags : links'[t] = NoDev
      BY <2>3 DEF NoLinks
    <2>5. ~slips' => entry' = 1 /\ sub' = 0
      BY <2>2 DEF DoMounts
    <2>6. ~slips' => \A x : ~Visited(x, entry', sub')
      BY <2>5, PopulateAssumption DEF Visited, Passed
    <2> QED BY <2>1, <2>3, <2>4, <2>6 DEF LinksInv
  <1>2. CASE DoHotplug
    <2>1. CASE UNCHANGED <<rcVars, faults>> /\ Populated /\ pc' = "rcName"
      <3>1. UNCHANGED <<links, linked, slips, entry, sub>>
        BY <2>1 DEF rcVars
      <3>2. Populated' /\ \A x : Visited(x, entry', sub') <=> Visited(x, entry, sub)
        BY <2>1, <3>1 DEF Populated, Visited, Passed
      <3>3. pc = "populate"
        BY <1>2 DEF DoHotplug
      <3> QED BY <1>a, <2>1, <3>1, <3>2, <3>3 DEF LinksInv
    <2>2. CASE PopulateOne /\ pc' = pc
      BY <1>2, <1>a, <2>2, PopulateLinks DEF DoHotplug
    <2>3. CASE PartsUnread /\ pc' = pc
      <3>1. slips' /\ links' = links /\ linked' = linked /\ pc = "populate"
        BY <1>2, <2>3 DEF PartsUnread, DoHotplug
      <3>2. entry \in Nat /\ entry' = entry + 1 /\ sub' = 0
        BY <1>a, <2>3, PopulateAssumption DEF rcTypeOK, PartsUnread
      <3>3. \A i \in DOMAIN SysBlock : \A j : Passed(i, j, entry, sub) => Passed(i, j, entry', sub')
        BY <3>2, PopulateAssumption DEF Passed
      <3>4. \A x : Visited(x, entry, sub) => Visited(x, entry', sub')
        BY <3>3 DEF Visited
      <3> QED BY <1>a, <2>3, <3>1, <3>4 DEF LinksInv
    <2> QED BY <1>2, <2>1, <2>2, <2>3 DEF DoHotplug, Goto
  <1>3. CASE Restart \/ Shutdown \/ PowerCut
    <2>1. rcForget /\ pc' = "off"
      BY <1>3 DEF Restart, Shutdown, PowerCut, PowerOff, Goto
    <2>2. \A t \in Tags : links'[t] = NoDev
      BY <2>1 DEF rcForget, NoLinks
    <2> QED BY <2>1, <2>2 DEF rcForget, LinksInv
  <1>4. CASE ~(Boot \/ DoHotplug \/ Restart \/ Shutdown \/ PowerCut)
    <2>1. UNCHANGED rcVars
      BY <1>4 DEF Next, Step, DoHostname, StatPersistDir, CopySsh, RemoveEtcSsh, LinkEtcSsh,
         SetupRancherNode, FindPartition, GrowTable, TellKernel, ResizeFs, RemoveMarker,
         SetupHostname, MakeUpName, PersistName, WriteEtcHostname, SetupHosts, InitSetHostname,
         InitSyncHostname, BootSetHostname, BootSyncHostname, SetHostname, SyncHostname,
         BootDone, notSsh, notGrow, notName
    <2>2. pc \notin {"off", "populate"} /\ pc' # "off"
      BY <1>4 DEF Next, Step, DoHostname, StatPersistDir, CopySsh, RemoveEtcSsh, LinkEtcSsh,
         SetupRancherNode, FindPartition, GrowTable, TellKernel, ResizeFs, RemoveMarker,
         SetupHostname, MakeUpName, PersistName, WriteEtcHostname, SetupHosts, InitSetHostname,
         InitSyncHostname, BootSetHostname, BootSyncHostname, SetHostname, SyncHostname,
         BootDone, OK, Fails, Goto
    <2>3. UNCHANGED <<links, linked, slips, entry, sub>>
      BY <2>1 DEF rcVars
    <2>4. (Populated' <=> Populated) /\ \A x : Visited(x, entry', sub') <=> Visited(x, entry, sub)
      BY <2>3 DEF Populated, Visited, Passed
    <2> QED BY <1>a, <2>2, <2>3, <2>4 DEF LinksInv
  <1> QED BY <1>1, <1>2, <1>3, <1>4

\* When PopulateDev is through, the invariant is what is to be shown: a disk that
\* was left with a partition's tag has a partition that could not be linked.
LEMMA LinksGood ==
    ASSUME IInv
    PROVE  LabelsNameTheirDevice
  <1>a. /\ LinksInv /\ links \in [Tags -> Devices \cup {NoDev}]
        /\ entry \in 1 .. Len(SysBlock) + 1
    BY DEF IInv, TypeOK, rcTypeOK
  <1>b. /\ SysBlock \in Seq(Devices) /\ Parts \in [Devices -> Seq(Devices)]
        /\ Len(SysBlock) \in Nat /\ NoDev \notin Devices
    BY PopulateAssumption
  <1> SUFFICES ASSUME pc \notin {"off", "populate"}, NEW t \in Tags
               PROVE  /\ links[t] # NoDev /\ t \notin Own[links[t]] =>
                            \A i \in DOMAIN Parts[links[t]] :
                                t \in Own[Parts[links[t]][i]] =>
                                    Parts[links[t]][i] \notin linked
                      /\ ~slips /\ (\E i \in DOMAIN SysBlock : t \in Own[SysBlock[i]]) =>
                            links[t] # NoDev /\ t \in Own[links[t]]
    BY DEF LabelsNameTheirDevice
  <1>1. links[t] # NoDev /\ t \notin Own[links[t]] =>
            \A i \in DOMAIN Parts[links[t]] :
                t \in Own[Parts[links[t]][i]] => Parts[links[t]][i] \notin linked
    BY <1>a DEF LinksInv
  <1>2. ASSUME NEW n \in DOMAIN SysBlock, NEW j \in 0 .. Len(Parts[SysBlock[n]])
        PROVE  Visited(DevName(n, j), entry, sub)
    <2>1. n < entry
      BY <1>a, <1>b DEF LinksInv, Populated
    <2> QED BY <2>1 DEF Visited, Passed
  <1>3. ASSUME ~slips, NEW i \in DOMAIN SysBlock, t \in Own[SysBlock[i]]
        PROVE  links[t] # NoDev /\ t \in Own[links[t]]
    <2>1. \A x \in Devices : Visited(x, entry, sub) =>
              x \in linked /\ \A u \in Probe(x) : links[u] # NoDev
      BY <1>3, <1>a DEF LinksInv
    <2>2. SysBlock[i] \in Devices /\ Len(Parts[SysBlock[i]]) \in Nat
      BY <1>b
    <2>3. Visited(SysBlock[i], entry, sub)
      BY <1>2, <2>2 DEF DevName
    <2>4. links[t] # NoDev
      BY <1>3, <2>1, <2>2, <2>3, ProbeOwn
    <2> DEFINE d == links[t]
    <2>5. d \in Devices /\ Visited(d, entry, sub) /\ t \in Probe(d)
      BY <1>a, <2>4 DEF LinksInv
    <2>6. ASSUME t \notin Own[d]
          PROVE  FALSE
      <3>1. PICK k \in DOMAIN Parts[d] : t \in Own[Parts[d][k]]
        BY <2>5, <2>6, ProbeFacts
      <3>2. Parts[d][k] \notin linked /\ Parts[d][k] \in Devices
        BY <1>1, <1>b, <2>4, <2>5, <2>6, <3>1
      <3>3. PICK n \in DOMAIN SysBlock : \E j \in 0 .. Len(Parts[SysBlock[n]]) :
                d = DevName(n, j)
        BY <2>5 DEF Visited
      <3>4. PICK j \in 0 .. Len(Parts[SysBlock[n]]) : d = DevName(n, j)
        BY <3>3
      <3>5. SysBlock[n] \in Devices /\ Parts[SysBlock[n]] \in Seq(Devices)
        BY <1>b
      <3>6. j # 0 => j \in DOMAIN Parts[SysBlock[n]]
        BY <3>5
      <3>7. j = 0 /\ d = SysBlock[n]
        BY <3>1, <3>4, <3>5, <3>6, SysfsAssumption DEF DevName
      <3>8. k \in 1 .. Len(Parts[SysBlock[n]])
        BY <3>1, <3>5, <3>7
      <3>9. Visited(DevName(n, k), entry, sub) /\ DevName(n, k) = Parts[d][k]
        BY <1>2, <3>7, <3>8 DEF DevName
      <3> QED BY <2>1, <3>2, <3>9
    <2> QED BY <2>4, <2>6
  <1> QED BY <1>1, <1>3

\* So do the position and the history.
LEMMA FlagTypesStep ==
    ASSUME IInv, Next
    PROVE  FlagTypes'
  <1>a. FlagTypes
    BY DEF IInv, TypeOK, FlagTypes
  <1> USE FailsFlag, SlipFlag, <1>a DEF IInv, FlagTypes, PCs, Goto, OK, Fault, fixed,
     growVars, sshVars, nameVars, rcVars, notSsh, notGrow, notName
  <1>1. CASE Boot
    BY <1>1 DEF Boot
  <1>2. CASE DoHotplug
    BY <1>2 DEF DoHotplug
  <1>3. CASE DoHostname
    BY <1>3 DEF DoHostname
  <1>4. CASE StatPersistDir
    BY <1>4 DEF StatPersistDir
  <1>5. CASE CopySsh
    BY <1>5 DEF CopySsh
  <1>6. CASE RemoveEtcSsh
    BY <1>6 DEF RemoveEtcSsh
  <1>7. CASE LinkEtcSsh
    BY <1>7 DEF LinkEtcSsh
  <1>8. CASE SetupRancherNode
    BY <1>8 DEF SetupRancherNode
  <1>9. CASE FindPartition
    BY <1>9 DEF FindPartition
  <1>10. CASE GrowTable
    BY <1>10 DEF GrowTable
  <1>11. CASE TellKernel
    BY <1>11 DEF TellKernel
  <1>12. CASE ResizeFs
    BY <1>12 DEF ResizeFs
  <1>13. CASE RemoveMarker
    BY <1>13 DEF RemoveMarker
  <1>14. CASE SetupHostname
    BY <1>14 DEF SetupHostname
  <1>15. CASE MakeUpName
    BY <1>15 DEF MakeUpName
  <1>16. CASE PersistName
    BY <1>16 DEF PersistName
  <1>17. CASE WriteEtcHostname
    BY <1>17 DEF WriteEtcHostname
  <1>18. CASE SetupHosts
    BY <1>18 DEF SetupHosts
  <1>19. CASE InitSetHostname
    BY <1>19 DEF InitSetHostname, SetHostname, Wanted
  <1>20. CASE InitSyncHostname
    BY <1>20 DEF InitSyncHostname, SyncHostname
  <1>21. CASE BootSetHostname
    BY <1>21 DEF BootSetHostname, SetHostname, Wanted
  <1>22. CASE BootSyncHostname
    BY <1>22 DEF BootSyncHostname, SyncHostname
  <1>23. CASE BootDone
    BY <1>23 DEF BootDone
  <1>24. CASE Restart
    BY <1>24 DEF Restart, PowerOff
  <1>25. CASE Shutdown
    BY <1>25 DEF Shutdown, PowerOff
  <1>26. CASE PowerCut
    BY <1>26 DEF PowerCut, PowerOff
  <1> QED BY <1>1, <1>2, <1>3, <1>4, <1>5, <1>6, <1>7, <1>8, <1>9, <1>10, <1>11, <1>12,
     <1>13, <1>14, <1>15, <1>16, <1>17, <1>18, <1>19, <1>20, <1>21, <1>22, <1>23, <1>24,
     <1>25, <1>26 DEF Next, Step

\* So do the tables and the lengths.
LEMMA GrowTypesStep ==
    ASSUME IInv, Next
    PROVE  GrowTypes'
  <1>a. GrowTypes
    BY DEF IInv, TypeOK, GrowTypes
  <1> USE <1>a DEF IInv, GrowTypes, FixedInv, GrowInv, GrowthPCs, Goto, OK, Fails,
     Fault, fixed, growVars, sshVars, nameVars, rcVars, notSsh, notGrow, notName
  <1>1. CASE Boot
    <2>1. \A d \in Disks : KernelView(d, table) \in [Nums -> Lengths]
      BY KernelLenType DEF KernelView
    <2> QED BY <1>1, <2>1 DEF Boot
  <1>2. CASE DoHotplug
    BY <1>2 DEF DoHotplug
  <1>3. CASE DoHostname
    BY <1>3 DEF DoHostname
  <1>4. CASE StatPersistDir
    BY <1>4 DEF StatPersistDir
  <1>5. CASE CopySsh
    BY <1>5 DEF CopySsh
  <1>6. CASE RemoveEtcSsh
    BY <1>6 DEF RemoveEtcSsh
  <1>7. CASE LinkEtcSsh
    BY <1>7 DEF LinkEtcSsh
  <1>8. CASE SetupRancherNode
    BY <1>8 DEF SetupRancherNode
  <1>9. CASE FindPartition
    BY <1>9 DEF FindPartition, Named, splitPartition
  <1>10. CASE GrowTable
    <2>1. table' \in [Disks -> Tables]
      BY TableStep DEF TableGrows
    <2> QED BY <1>10, <2>1 DEF GrowTable
  <1>11. CASE TellKernel
    <2>1. goal \in Disks \X Nums /\ goal[1] \in Disks /\ goal[2] \in Nums
      BY <1>11 DEF TellKernel
    <2>2. TableLen(goal[1], goal[2]) \in Lengths
      BY <2>1, KernelLenType DEF TableLen
    <2>3. \/ kernelLen' = kernelLen
          \/ kernelLen' = WithLength(kernelLen, goal[1], goal[2], TableLen(goal[1], goal[2]))
      BY <1>11 DEF TellKernel, TableLen, WithLength
    <2>4. WithLength(kernelLen, goal[1], goal[2], TableLen(goal[1], goal[2]))
              \in [Disks -> [Nums -> Lengths]]
      <3> HIDE DEF TableLen
      <3> QED BY <2>1, <2>2, NewLength
    <2>5. kernelLen' \in [Disks -> [Nums -> Lengths]]
      BY <2>3, <2>4
    <2> QED BY <1>11, <2>5 DEF TellKernel
  <1>12. CASE ResizeFs
    <2>1. goal \in Disks \X Nums /\ goal[1] \in Disks /\ goal[2] \in Nums
      BY <1>12 DEF ResizeFs
    <2>2. kernelLen[goal[1]][goal[2]] \in Lengths
      BY <2>1
    <2>3. \/ fsLen' = fsLen
          \/ fsLen' = WithLength(fsLen, goal[1], goal[2], kernelLen[goal[1]][goal[2]])
      BY <1>12 DEF ResizeFs, WithLength
    <2>4. WithLength(fsLen, goal[1], goal[2], kernelLen[goal[1]][goal[2]])
              \in [Disks -> [Nums -> Lengths]]
      BY <2>1, <2>2, NewLength
    <2>5. fsLen' \in [Disks -> [Nums -> Lengths]]
      BY <2>3, <2>4
    <2> QED BY <1>12, <2>5 DEF ResizeFs
  <1>13. CASE RemoveMarker
    BY <1>13 DEF RemoveMarker
  <1>14. CASE SetupHostname
    BY <1>14 DEF SetupHostname
  <1>15. CASE MakeUpName
    BY <1>15 DEF MakeUpName
  <1>16. CASE PersistName
    BY <1>16 DEF PersistName
  <1>17. CASE WriteEtcHostname
    BY <1>17 DEF WriteEtcHostname
  <1>18. CASE SetupHosts
    BY <1>18 DEF SetupHosts
  <1>19. CASE InitSetHostname
    BY <1>19 DEF InitSetHostname, SetHostname, Wanted
  <1>20. CASE InitSyncHostname
    BY <1>20 DEF InitSyncHostname, SyncHostname
  <1>21. CASE BootSetHostname
    BY <1>21 DEF BootSetHostname, SetHostname, Wanted
  <1>22. CASE BootSyncHostname
    BY <1>22 DEF BootSyncHostname, SyncHostname
  <1>23. CASE BootDone
    BY <1>23 DEF BootDone
  <1>24. CASE Restart
    BY <1>24 DEF Restart, PowerOff
  <1>25. CASE Shutdown
    BY <1>25 DEF Shutdown, PowerOff
  <1>26. CASE PowerCut
    BY <1>26 DEF PowerCut, PowerOff
  <1> QED BY <1>1, <1>2, <1>3, <1>4, <1>5, <1>6, <1>7, <1>8, <1>9, <1>10, <1>11, <1>12,
     <1>13, <1>14, <1>15, <1>16, <1>17, <1>18, <1>19, <1>20, <1>21, <1>22, <1>23, <1>24,
     <1>25, <1>26 DEF Next, Step

\* The files of /etc/ssh keep their types.
LEMMA SshTypesStep ==
    ASSUME IInv, Next
    PROVE  SshTypes'
  <1>a. SshTypes
    BY DEF IInv, TypeOK, SshTypes
  <1> USE <1>a DEF IInv, SshTypes, SshInv, Goto, OK, Fails, Fault, fixed, growVars,
     sshVars, nameVars, rcVars, notSsh, notGrow, notName
  <1>1. CASE Boot
    BY <1>1 DEF Boot
  <1>2. CASE DoHotplug
    BY <1>2 DEF DoHotplug
  <1>3. CASE DoHostname
    BY <1>3 DEF DoHostname
  <1>4. CASE StatPersistDir
    BY <1>4 DEF StatPersistDir
  <1>5. CASE CopySsh
    BY <1>5 DEF CopySsh
  <1>6. CASE RemoveEtcSsh
    BY <1>6 DEF RemoveEtcSsh
  <1>7. CASE LinkEtcSsh
    BY <1>7 DEF LinkEtcSsh
  <1>8. CASE SetupRancherNode
    BY <1>8 DEF SetupRancherNode
  <1>9. CASE FindPartition
    BY <1>9 DEF FindPartition
  <1>10. CASE GrowTable
    BY <1>10 DEF GrowTable
  <1>11. CASE TellKernel
    BY <1>11 DEF TellKernel
  <1>12. CASE ResizeFs
    BY <1>12 DEF ResizeFs
  <1>13. CASE RemoveMarker
    BY <1>13 DEF RemoveMarker
  <1>14. CASE SetupHostname
    BY <1>14 DEF SetupHostname
  <1>15. CASE MakeUpName
    BY <1>15 DEF MakeUpName
  <1>16. CASE PersistName
    BY <1>16 DEF PersistName
  <1>17. CASE WriteEtcHostname
    BY <1>17 DEF WriteEtcHostname
  <1>18. CASE SetupHosts
    BY <1>18 DEF SetupHosts
  <1>19. CASE InitSetHostname
    BY <1>19 DEF InitSetHostname, SetHostname, Wanted
  <1>20. CASE InitSyncHostname
    BY <1>20 DEF InitSyncHostname, SyncHostname
  <1>21. CASE BootSetHostname
    BY <1>21 DEF BootSetHostname, SetHostname, Wanted
  <1>22. CASE BootSyncHostname
    BY <1>22 DEF BootSyncHostname, SyncHostname
  <1>23. CASE BootDone
    BY <1>23 DEF BootDone
  <1>24. CASE Restart
    BY <1>24 DEF Restart, PowerOff
  <1>25. CASE Shutdown
    BY <1>25 DEF Shutdown, PowerOff
  <1>26. CASE PowerCut
    BY <1>26 DEF PowerCut, PowerOff
  <1> QED BY <1>1, <1>2, <1>3, <1>4, <1>5, <1>6, <1>7, <1>8, <1>9, <1>10, <1>11, <1>12,
     <1>13, <1>14, <1>15, <1>16, <1>17, <1>18, <1>19, <1>20, <1>21, <1>22, <1>23, <1>24,
     <1>25, <1>26 DEF Next, Step

\* So do those with the name.
LEMMA NameTypesStep ==
    ASSUME IInv, Next
    PROVE  NameTypes'
  <1>a. NameTypes
    BY DEF IInv, TypeOK, NameTypes
  <1> USE StateAssumption, <1>a DEF IInv, NameTypes, NameFiles, FixedInv, PersistInv,
     Empty, NoLine, Goto, OK, Fails, Fault, fixed, growVars, sshVars, nameVars, rcVars, notSsh,
     notGrow, notName
  <1>1. CASE Boot
    BY <1>1 DEF Boot
  <1>2. CASE DoHotplug
    BY <1>2 DEF DoHotplug
  <1>3. CASE DoHostname
    BY <1>3 DEF DoHostname
  <1>4. CASE StatPersistDir
    BY <1>4 DEF StatPersistDir
  <1>5. CASE CopySsh
    BY <1>5 DEF CopySsh
  <1>6. CASE RemoveEtcSsh
    BY <1>6 DEF RemoveEtcSsh
  <1>7. CASE LinkEtcSsh
    BY <1>7 DEF LinkEtcSsh
  <1>8. CASE SetupRancherNode
    BY <1>8 DEF SetupRancherNode
  <1>9. CASE FindPartition
    BY <1>9 DEF FindPartition
  <1>10. CASE GrowTable
    BY <1>10 DEF GrowTable
  <1>11. CASE TellKernel
    BY <1>11 DEF TellKernel
  <1>12. CASE ResizeFs
    BY <1>12 DEF ResizeFs
  <1>13. CASE RemoveMarker
    BY <1>13 DEF RemoveMarker
  <1>14. CASE SetupHostname
    BY <1>14 DEF SetupHostname
  <1>15. CASE MakeUpName
    BY <1>15 DEF MakeUpName
  <1>16. CASE PersistName
    BY <1>16 DEF PersistName
  <1>17. CASE WriteEtcHostname
    BY <1>17 DEF WriteEtcHostname
  <1>18. CASE SetupHosts
    BY <1>18 DEF SetupHosts
  <1>19. CASE InitSetHostname
    BY <1>19 DEF InitSetHostname, SetHostname, Wanted
  <1>20. CASE InitSyncHostname
    BY <1>20 DEF InitSyncHostname, SyncHostname, KernelNameInv
  <1>21. CASE BootSetHostname
    BY <1>21 DEF BootSetHostname, SetHostname, Wanted
  <1>22. CASE BootSyncHostname
    BY <1>22 DEF BootSyncHostname, SyncHostname, KernelNameInv
  <1>23. CASE BootDone
    BY <1>23 DEF BootDone
  <1>24. CASE Restart
    BY <1>24 DEF Restart, PowerOff
  <1>25. CASE Shutdown
    BY <1>25 DEF Shutdown, PowerOff
  <1>26. CASE PowerCut
    BY <1>26 DEF PowerCut, PowerOff
  <1> QED BY <1>1, <1>2, <1>3, <1>4, <1>5, <1>6, <1>7, <1>8, <1>9, <1>10, <1>11, <1>12,
     <1>13, <1>14, <1>15, <1>16, <1>17, <1>18, <1>19, <1>20, <1>21, <1>22, <1>23, <1>24,
     <1>25, <1>26 DEF Next, Step

\* No step changes the disks' sizes or the configuration.
LEMMA FixedStep ==
    ASSUME IInv, Next
    PROVE  FixedInv' /\ sectors' = sectors /\ total' = total
  <1> USE DEF IInv, FixedInv, Goto, OK, Fails, Fault, fixed, growVars, sshVars,
     nameVars, rcVars, notSsh, notGrow, notName
  <1>1. CASE Boot
    BY <1>1 DEF Boot
  <1>2. CASE DoHotplug
    BY <1>2 DEF DoHotplug
  <1>3. CASE DoHostname
    BY <1>3 DEF DoHostname
  <1>4. CASE StatPersistDir
    BY <1>4 DEF StatPersistDir
  <1>5. CASE CopySsh
    BY <1>5 DEF CopySsh
  <1>6. CASE RemoveEtcSsh
    BY <1>6 DEF RemoveEtcSsh
  <1>7. CASE LinkEtcSsh
    BY <1>7 DEF LinkEtcSsh
  <1>8. CASE SetupRancherNode
    BY <1>8 DEF SetupRancherNode
  <1>9. CASE FindPartition
    BY <1>9 DEF FindPartition
  <1>10. CASE GrowTable
    BY <1>10 DEF GrowTable
  <1>11. CASE TellKernel
    BY <1>11 DEF TellKernel
  <1>12. CASE ResizeFs
    BY <1>12 DEF ResizeFs
  <1>13. CASE RemoveMarker
    BY <1>13 DEF RemoveMarker
  <1>14. CASE SetupHostname
    BY <1>14 DEF SetupHostname
  <1>15. CASE MakeUpName
    BY <1>15 DEF MakeUpName
  <1>16. CASE PersistName
    BY <1>16 DEF PersistName
  <1>17. CASE WriteEtcHostname
    BY <1>17 DEF WriteEtcHostname
  <1>18. CASE SetupHosts
    BY <1>18 DEF SetupHosts
  <1>19. CASE InitSetHostname
    BY <1>19 DEF InitSetHostname, SetHostname, Wanted
  <1>20. CASE InitSyncHostname
    BY <1>20 DEF InitSyncHostname, SyncHostname
  <1>21. CASE BootSetHostname
    BY <1>21 DEF BootSetHostname, SetHostname, Wanted
  <1>22. CASE BootSyncHostname
    BY <1>22 DEF BootSyncHostname, SyncHostname
  <1>23. CASE BootDone
    BY <1>23 DEF BootDone
  <1>24. CASE Restart
    BY <1>24 DEF Restart, PowerOff
  <1>25. CASE Shutdown
    BY <1>25 DEF Shutdown, PowerOff
  <1>26. CASE PowerCut
    BY <1>26 DEF PowerCut, PowerOff
  <1> QED BY <1>1, <1>2, <1>3, <1>4, <1>5, <1>6, <1>7, <1>8, <1>9, <1>10, <1>11, <1>12,
     <1>13, <1>14, <1>15, <1>16, <1>17, <1>18, <1>19, <1>20, <1>21, <1>22, <1>23, <1>24,
     <1>25, <1>26 DEF Next, Step

\* The kernel follows the table, or there was a warning.
LEMMA GrowStep ==
    ASSUME IInv, Next
    PROVE  GrowInv'
  <1>a. GrowTypes
    BY DEF IInv, TypeOK, GrowTypes
  <1> USE <1>a DEF IInv, GrowTypes, GrowInv, GrowthPCs, BeforeGrowth, FixedInv,
     TableLen, Goto, OK, Fails, Fault, fixed, growVars, sshVars, nameVars, rcVars,
     notSsh, notGrow, notName
  <1>1. CASE Boot
    <2>1. \A d \in Disks : \A n \in Nums : kernelLen'[d][n] = TableLen(d, n)
      BY <1>1 DEF Boot, KernelView
    <2> QED BY <1>1, <2>1 DEF Boot
  <1>2. CASE DoHotplug
    BY <1>2 DEF DoHotplug
  <1>3. CASE DoHostname
    BY <1>3 DEF DoHostname
  <1>4. CASE StatPersistDir
    BY <1>4 DEF StatPersistDir
  <1>5. CASE CopySsh
    BY <1>5 DEF CopySsh
  <1>6. CASE RemoveEtcSsh
    BY <1>6 DEF RemoveEtcSsh
  <1>7. CASE LinkEtcSsh
    BY <1>7 DEF LinkEtcSsh
  <1>8. CASE SetupRancherNode
    BY <1>8 DEF SetupRancherNode
  <1>9. CASE FindPartition
    BY <1>9 DEF FindPartition, Named, splitPartition
  <1>10. CASE GrowTable
    <2>1. goal \in Disks \X Nums /\ goal[1] \in Disks /\ goal[2] \in Nums
      BY <1>10 DEF GrowTable
    <2>2. pc' \in {"growFs", "growKernel", "rescue"} /\ UNCHANGED <<kernelLen, goal, total>>
      BY <1>10 DEF GrowTable
    <2>3. pc' = "growFs" => table'[goal[1]] = table[goal[1]]
      <3>1. ASSUME pc' = "growFs" PROVE table' = [table EXCEPT ![goal[1]] = table[goal[1]]]
        BY <1>10, <3>1 DEF GrowTable
      <3> QED BY <2>1, <3>1
    <2> QED BY <1>10, <2>1, <2>2, <2>3 DEF GrowTable
  <1>11. CASE TellKernel
    <2>1. goal \in Disks \X Nums /\ goal[1] \in Disks /\ goal[2] \in Nums
      BY <1>11 DEF TellKernel
    <2>2. pc' = "growFs" => warned' \/ kernelLen'[goal[1]][goal[2]] = TableLen(goal[1], goal[2])
      BY <1>11, <2>1 DEF TellKernel
    <2> QED BY <1>11, <2>1, <2>2 DEF TellKernel
  <1>12. CASE ResizeFs
    <2>1. goal \in Disks \X Nums /\ goal[1] \in Disks /\ goal[2] \in Nums
      BY <1>12 DEF ResizeFs
    <2>2. pc' = "growMark" => fsLen'[goal[1]][goal[2]] = kernelLen[goal[1]][goal[2]]
      BY <1>12, <2>1 DEF ResizeFs
    <2> QED BY <1>12, <2>1, <2>2 DEF ResizeFs
  <1>13. CASE RemoveMarker
    BY <1>13 DEF RemoveMarker
  <1>14. CASE SetupHostname
    BY <1>14 DEF SetupHostname
  <1>15. CASE MakeUpName
    BY <1>15 DEF MakeUpName
  <1>16. CASE PersistName
    BY <1>16 DEF PersistName
  <1>17. CASE WriteEtcHostname
    BY <1>17 DEF WriteEtcHostname
  <1>18. CASE SetupHosts
    BY <1>18 DEF SetupHosts
  <1>19. CASE InitSetHostname
    BY <1>19 DEF InitSetHostname, SetHostname, Wanted
  <1>20. CASE InitSyncHostname
    BY <1>20 DEF InitSyncHostname, SyncHostname
  <1>21. CASE BootSetHostname
    BY <1>21 DEF BootSetHostname, SetHostname, Wanted
  <1>22. CASE BootSyncHostname
    BY <1>22 DEF BootSyncHostname, SyncHostname
  <1>23. CASE BootDone
    BY <1>23 DEF BootDone
  <1>24. CASE Restart
    BY <1>24 DEF Restart, PowerOff
  <1>25. CASE Shutdown
    BY <1>25 DEF Shutdown, PowerOff
  <1>26. CASE PowerCut
    BY <1>26 DEF PowerCut, PowerOff
  <1> QED BY <1>1, <1>2, <1>3, <1>4, <1>5, <1>6, <1>7, <1>8, <1>9, <1>10, <1>11, <1>12,
     <1>13, <1>14, <1>15, <1>16, <1>17, <1>18, <1>19, <1>20, <1>21, <1>22, <1>23, <1>24,
     <1>25, <1>26 DEF Next, Step

\* The directory of the state partition is taken for complete only when it is.
LEMMA SshStep ==
    ASSUME IInv, Next
    PROVE  SshInv'
  <1>a. SshTypes
    BY DEF IInv, TypeOK, SshTypes
  <1> USE StateAssumption, SlipTold, <1>a DEF IInv, SshTypes, SshInv, Goto, OK, Fails,
     Fault, fixed, growVars, sshVars, nameVars, rcVars, notSsh, notGrow, notName
  <1>1. CASE Boot
    BY <1>1 DEF Boot
  <1>2. CASE DoHotplug
    BY <1>2 DEF DoHotplug
  <1>3. CASE DoHostname
    BY <1>3 DEF DoHostname
  <1>4. CASE StatPersistDir
    BY <1>4 DEF StatPersistDir
  <1>5. CASE CopySsh
    BY <1>5 DEF CopySsh
  <1>6. CASE RemoveEtcSsh
    BY <1>6 DEF RemoveEtcSsh
  <1>7. CASE LinkEtcSsh
    BY <1>7 DEF LinkEtcSsh
  <1>8. CASE SetupRancherNode
    BY <1>8 DEF SetupRancherNode
  <1>9. CASE FindPartition
    BY <1>9 DEF FindPartition
  <1>10. CASE GrowTable
    BY <1>10 DEF GrowTable
  <1>11. CASE TellKernel
    BY <1>11 DEF TellKernel
  <1>12. CASE ResizeFs
    BY <1>12 DEF ResizeFs
  <1>13. CASE RemoveMarker
    BY <1>13 DEF RemoveMarker
  <1>14. CASE SetupHostname
    BY <1>14 DEF SetupHostname
  <1>15. CASE MakeUpName
    BY <1>15 DEF MakeUpName
  <1>16. CASE PersistName
    BY <1>16 DEF PersistName
  <1>17. CASE WriteEtcHostname
    BY <1>17 DEF WriteEtcHostname
  <1>18. CASE SetupHosts
    BY <1>18 DEF SetupHosts
  <1>19. CASE InitSetHostname
    BY <1>19 DEF InitSetHostname, SetHostname, Wanted
  <1>20. CASE InitSyncHostname
    BY <1>20 DEF InitSyncHostname, SyncHostname
  <1>21. CASE BootSetHostname
    BY <1>21 DEF BootSetHostname, SetHostname, Wanted
  <1>22. CASE BootSyncHostname
    BY <1>22 DEF BootSyncHostname, SyncHostname
  <1>23. CASE BootDone
    BY <1>23 DEF BootDone
  <1>24. CASE Restart
    BY <1>24 DEF Restart, PowerOff
  <1>25. CASE Shutdown
    BY <1>25 DEF Shutdown, PowerOff
  <1>26. CASE PowerCut
    BY <1>26 DEF PowerCut, PowerOff
  <1> QED BY <1>1, <1>2, <1>3, <1>4, <1>5, <1>6, <1>7, <1>8, <1>9, <1>10, <1>11, <1>12,
     <1>13, <1>14, <1>15, <1>16, <1>17, <1>18, <1>19, <1>20, <1>21, <1>22, <1>23, <1>24,
     <1>25, <1>26 DEF Next, Step

\* The files with the name follow the course of a boot.
LEMMA EtcStep ==
    ASSUME IInv, Next
    PROVE  EtcInv'
  <1>a. NameTypes
    BY DEF IInv, TypeOK, NameTypes
  <1>b. FlagTypes
    BY DEF IInv, TypeOK, FlagTypes
  <1> USE StateAssumption, SlipTold, <1>a, <1>b DEF IInv, NameTypes, FlagTypes, EtcInv,
     PersistInv, FixedInv, NameFiles, Empty, NoLine, Early, Middle, NameMaking,
     Anonymous, Wanted, BeforeGrowth, Goto,
     OK, Fails, Fault, fixed, growVars, sshVars, nameVars, rcVars, notSsh, notGrow,
     notName
  <1>1. CASE Boot
    BY <1>1 DEF Boot
  <1>2. CASE DoHotplug
    BY <1>2 DEF DoHotplug
  <1>3. CASE DoHostname
    BY <1>3 DEF DoHostname
  <1>4. CASE StatPersistDir
    BY <1>4 DEF StatPersistDir
  <1>5. CASE CopySsh
    BY <1>5 DEF CopySsh
  <1>6. CASE RemoveEtcSsh
    BY <1>6 DEF RemoveEtcSsh
  <1>7. CASE LinkEtcSsh
    BY <1>7 DEF LinkEtcSsh
  <1>8. CASE SetupRancherNode
    BY <1>8 DEF SetupRancherNode
  <1>9. CASE FindPartition
    BY <1>9 DEF FindPartition
  <1>10. CASE GrowTable
    BY <1>10 DEF GrowTable
  <1>11. CASE TellKernel
    BY <1>11 DEF TellKernel
  <1>12. CASE ResizeFs
    BY <1>12 DEF ResizeFs
  <1>13. CASE RemoveMarker
    BY <1>13 DEF RemoveMarker
  <1>14. CASE SetupHostname
    BY <1>14 DEF SetupHostname
  <1>15. CASE MakeUpName
    BY <1>15 DEF MakeUpName
  <1>16. CASE PersistName
    BY <1>16 DEF PersistName
  <1>17. CASE WriteEtcHostname
    BY <1>17 DEF WriteEtcHostname
  <1>18. CASE SetupHosts
    BY <1>18 DEF SetupHosts
  <1>19. CASE InitSetHostname
    BY <1>19 DEF InitSetHostname, SetHostname, Wanted
  <1>20. CASE InitSyncHostname
    <2>1. pc' \in {"ssh", "rescue"} /\ UNCHANGED <<configName, imageName, imageHosts, persisted>>
      BY <1>20 DEF InitSyncHostname, SyncHostname
    <2>2. kernelName = Wanted /\ Wanted \in Names
      BY <1>20 DEF InitSyncHostname, SyncHostname, KernelNameInv
    <2>3. pc' = "ssh" => etcName' = Wanted /\ hosts # Absent /\ hosts = imageHosts
      BY <1>20, <2>2 DEF InitSyncHostname, SyncHostname
    <2>4. pc' = "ssh" /\ configName = Empty => etcName' = persisted' /\ persisted' \in Names
      BY <2>1, <2>2, <2>3 DEF Wanted
    <2>5. pc' = "ssh" /\ configName # Empty => etcName' = configName
      BY <2>2, <2>3 DEF Wanted
    <2> QED BY <2>1, <2>3, <2>4, <2>5
  <1>21. CASE BootSetHostname
    BY <1>21 DEF BootSetHostname, SetHostname, Wanted
  <1>22. CASE BootSyncHostname
    BY <1>22 DEF BootSyncHostname, SyncHostname
  <1>23. CASE BootDone
    BY <1>23 DEF BootDone
  <1>24. CASE Restart
    BY <1>24 DEF Restart, PowerOff
  <1>25. CASE Shutdown
    BY <1>25 DEF Shutdown, PowerOff
  <1>26. CASE PowerCut
    BY <1>26 DEF PowerCut, PowerOff
  <1> QED BY <1>1, <1>2, <1>3, <1>4, <1>5, <1>6, <1>7, <1>8, <1>9, <1>10, <1>11, <1>12,
     <1>13, <1>14, <1>15, <1>16, <1>17, <1>18, <1>19, <1>20, <1>21, <1>22, <1>23, <1>24,
     <1>25, <1>26 DEF Next, Step

\* A name is made up only where there is none, and then kept.
LEMMA PersistStep ==
    ASSUME IInv, Next
    PROVE  PersistInv'
  <1>a. NameTypes
    BY DEF IInv, TypeOK, NameTypes
  <1>b. FlagTypes
    BY DEF IInv, TypeOK, FlagTypes
  <1> USE StateAssumption, SlipTold, <1>a, <1>b DEF IInv, NameTypes, FlagTypes, EtcInv,
     RcNamed, PersistInv, KernelNameInv, FixedInv, NameFiles, Final, Empty, NoLine, Early, Middle,
     NameMaking, Anonymous, Wanted, BeforeGrowth, Goto, OK, Fails, Fault, fixed, growVars, sshVars,
     nameVars, rcVars, notSsh, notGrow, notName
  <1>1. CASE Boot
    BY <1>1 DEF Boot
  <1>2. CASE DoHotplug
    BY <1>2 DEF DoHotplug
  <1>3. CASE DoHostname
    BY <1>3 DEF DoHostname
  <1>4. CASE StatPersistDir
    BY <1>4 DEF StatPersistDir
  <1>5. CASE CopySsh
    BY <1>5 DEF CopySsh
  <1>6. CASE RemoveEtcSsh
    BY <1>6 DEF RemoveEtcSsh
  <1>7. CASE LinkEtcSsh
    BY <1>7 DEF LinkEtcSsh
  <1>8. CASE SetupRancherNode
    BY <1>8 DEF SetupRancherNode
  <1>9. CASE FindPartition
    BY <1>9 DEF FindPartition
  <1>10. CASE GrowTable
    BY <1>10 DEF GrowTable
  <1>11. CASE TellKernel
    BY <1>11 DEF TellKernel
  <1>12. CASE ResizeFs
    BY <1>12 DEF ResizeFs
  <1>13. CASE RemoveMarker
    BY <1>13 DEF RemoveMarker
  <1>14. CASE SetupHostname
    BY <1>14 DEF SetupHostname
  <1>15. CASE MakeUpName
    BY <1>15 DEF MakeUpName
  <1>16. CASE PersistName
    BY <1>16 DEF PersistName
  <1>17. CASE WriteEtcHostname
    BY <1>17 DEF WriteEtcHostname
  <1>18. CASE SetupHosts
    BY <1>18 DEF SetupHosts
  <1>19. CASE InitSetHostname
    BY <1>19 DEF InitSetHostname, SetHostname, Wanted
  <1>20. CASE InitSyncHostname
    BY <1>20 DEF InitSyncHostname, SyncHostname
  <1>21. CASE BootSetHostname
    BY <1>21 DEF BootSetHostname, SetHostname, Wanted
  <1>22. CASE BootSyncHostname
    BY <1>22 DEF BootSyncHostname, SyncHostname
  <1>23. CASE BootDone
    BY <1>23 DEF BootDone
  <1>24. CASE Restart
    BY <1>24 DEF Restart, PowerOff
  <1>25. CASE Shutdown
    BY <1>25 DEF Shutdown, PowerOff
  <1>26. CASE PowerCut
    BY <1>26 DEF PowerCut, PowerOff
  <1> QED BY <1>1, <1>2, <1>3, <1>4, <1>5, <1>6, <1>7, <1>8, <1>9, <1>10, <1>11, <1>12,
     <1>13, <1>14, <1>15, <1>16, <1>17, <1>18, <1>19, <1>20, <1>21, <1>22, <1>23, <1>24,
     <1>25, <1>26 DEF Next, Step

\* The kernel's name follows.
LEMMA KernelNameStep ==
    ASSUME IInv, Next
    PROVE  KernelNameInv'
  <1>a. NameTypes
    BY DEF IInv, TypeOK, NameTypes
  <1>b. FlagTypes
    BY DEF IInv, TypeOK, FlagTypes
  <1> USE StateAssumption, SlipTold, <1>a, <1>b DEF IInv, NameTypes, FlagTypes, RcNamed,
     EtcInv, PersistInv, KernelNameInv, FixedInv, NameFiles, Final, Empty, NoLine, Early, Middle,
     NameMaking, Anonymous, Wanted, BeforeGrowth, Goto, OK, Fails, Fault, fixed, growVars, sshVars,
     nameVars, rcVars, notSsh, notGrow, notName
  <1>m. ASSUME pc \in RcNamed, pc' \in RcNamed \cup NameMaking \cup {"rescue"}, smooth' => smooth,
               UNCHANGED <<imageName, configName, kernelName>>
        PROVE  KernelNameInv'
    BY <1>m
  <1>1. CASE Boot
    BY <1>1 DEF Boot
  <1>2. CASE DoHotplug
    BY <1>2 DEF DoHotplug
  <1>3. CASE DoHostname
    BY <1>3 DEF DoHostname
  <1>4. CASE StatPersistDir
    <2>1. pc \in RcNamed /\ pc' \in RcNamed \cup NameMaking \cup {"rescue"}
      BY <1>4 DEF StatPersistDir
    <2>2. smooth' => smooth
      BY <1>4 DEF StatPersistDir
    <2>3. UNCHANGED <<imageName, configName, kernelName>>
      BY <1>4 DEF StatPersistDir
    <2> QED BY <1>m, <2>1, <2>2, <2>3
  <1>5. CASE CopySsh
    <2>1. pc \in RcNamed /\ pc' \in RcNamed \cup NameMaking \cup {"rescue"}
      BY <1>5 DEF CopySsh
    <2>2. smooth' => smooth
      BY <1>5 DEF CopySsh
    <2>3. UNCHANGED <<imageName, configName, kernelName>>
      BY <1>5 DEF CopySsh
    <2> QED BY <1>m, <2>1, <2>2, <2>3
  <1>6. CASE RemoveEtcSsh
    <2>1. pc \in RcNamed /\ pc' \in RcNamed \cup NameMaking \cup {"rescue"}
      BY <1>6 DEF RemoveEtcSsh
    <2>2. smooth' => smooth
      BY <1>6 DEF RemoveEtcSsh
    <2>3. UNCHANGED <<imageName, configName, kernelName>>
      BY <1>6 DEF RemoveEtcSsh
    <2> QED BY <1>m, <2>1, <2>2, <2>3
  <1>7. CASE LinkEtcSsh
    <2>1. pc \in RcNamed /\ pc' \in RcNamed \cup NameMaking \cup {"rescue"}
      BY <1>7 DEF LinkEtcSsh
    <2>2. smooth' => smooth
      BY <1>7 DEF LinkEtcSsh
    <2>3. UNCHANGED <<imageName, configName, kernelName>>
      BY <1>7 DEF LinkEtcSsh
    <2> QED BY <1>m, <2>1, <2>2, <2>3
  <1>8. CASE SetupRancherNode
    <2>1. pc \in RcNamed /\ pc' \in RcNamed \cup NameMaking \cup {"rescue"}
      BY <1>8 DEF SetupRancherNode
    <2>2. smooth' => smooth
      BY <1>8 DEF SetupRancherNode
    <2>3. UNCHANGED <<imageName, configName, kernelName>>
      BY <1>8 DEF SetupRancherNode
    <2> QED BY <1>m, <2>1, <2>2, <2>3
  <1>9. CASE FindPartition
    <2>1. pc \in RcNamed /\ pc' \in RcNamed \cup NameMaking \cup {"rescue"}
      BY <1>9 DEF FindPartition
    <2>2. smooth' => smooth
      BY <1>9 DEF FindPartition
    <2>3. UNCHANGED <<imageName, configName, kernelName>>
      BY <1>9 DEF FindPartition
    <2> QED BY <1>m, <2>1, <2>2, <2>3
  <1>10. CASE GrowTable
    <2>1. pc \in RcNamed /\ pc' \in RcNamed \cup NameMaking \cup {"rescue"}
      BY <1>10 DEF GrowTable
    <2>2. smooth' => smooth
      BY <1>10 DEF GrowTable
    <2>3. UNCHANGED <<imageName, configName, kernelName>>
      BY <1>10 DEF GrowTable
    <2> QED BY <1>m, <2>1, <2>2, <2>3
  <1>11. CASE TellKernel
    <2>1. pc \in RcNamed /\ pc' \in RcNamed \cup NameMaking \cup {"rescue"}
      BY <1>11 DEF TellKernel
    <2>2. smooth' => smooth
      BY <1>11 DEF TellKernel
    <2>3. UNCHANGED <<imageName, configName, kernelName>>
      BY <1>11 DEF TellKernel
    <2> QED BY <1>m, <2>1, <2>2, <2>3
  <1>12. CASE ResizeFs
    <2>1. pc \in RcNamed /\ pc' \in RcNamed \cup NameMaking \cup {"rescue"}
      BY <1>12 DEF ResizeFs
    <2>2. smooth' => smooth
      BY <1>12 DEF ResizeFs
    <2>3. UNCHANGED <<imageName, configName, kernelName>>
      BY <1>12 DEF ResizeFs
    <2> QED BY <1>m, <2>1, <2>2, <2>3
  <1>13. CASE RemoveMarker
    <2>1. pc \in RcNamed /\ pc' \in RcNamed \cup NameMaking \cup {"rescue"}
      BY <1>13 DEF RemoveMarker
    <2>2. smooth' => smooth
      BY <1>13 DEF RemoveMarker
    <2>3. UNCHANGED <<imageName, configName, kernelName>>
      BY <1>13 DEF RemoveMarker
    <2> QED BY <1>m, <2>1, <2>2, <2>3
  <1>14. CASE SetupHostname
    <2>1. pc \in RcNamed /\ pc' \in RcNamed \cup NameMaking \cup {"rescue"}
      BY <1>14 DEF SetupHostname
    <2>2. smooth' => smooth
      BY <1>14 DEF SetupHostname
    <2>3. UNCHANGED <<imageName, configName, kernelName>>
      BY <1>14 DEF SetupHostname
    <2> QED BY <1>m, <2>1, <2>2, <2>3
  <1>15. CASE MakeUpName
    BY <1>15 DEF MakeUpName
  <1>16. CASE PersistName
    BY <1>16 DEF PersistName
  <1>17. CASE WriteEtcHostname
    BY <1>17 DEF WriteEtcHostname
  <1>18. CASE SetupHosts
    <2>1. pc \in RcNamed /\ pc' \in RcNamed \cup NameMaking \cup {"rescue"}
      BY <1>18 DEF SetupHosts
    <2>2. smooth' => smooth
      BY <1>18 DEF SetupHosts
    <2>3. UNCHANGED <<imageName, configName, kernelName>>
      BY <1>18 DEF SetupHosts
    <2> QED BY <1>m, <2>1, <2>2, <2>3
  <1>19. CASE InitSetHostname
    <2>1. pc = "initName" /\ UNCHANGED <<imageName, configName, persisted>>
      BY <1>19 DEF InitSetHostname, SetHostname
    <2>2. CASE pc' = "initSync" /\ kernelName' = Wanted /\ Wanted \in Names
      BY <2>1, <2>2
    <2>3. smooth' => smooth
      BY <1>19 DEF InitSetHostname, SetHostname
    <2>4. CASE pc' \in {"ssh", "rescue"} /\ kernelName' = kernelName
      BY <1>m, <2>1, <2>3, <2>4
    <2> HIDE DEF Wanted
    <2> QED BY <1>19, <2>2, <2>4 DEF InitSetHostname, SetHostname
  <1>20. CASE InitSyncHostname
    BY <1>20 DEF InitSyncHostname, SyncHostname
  <1>21. CASE BootSetHostname
    <2>1. pc = "config" /\ UNCHANGED <<imageName, configName, persisted, etcName, nameLost, hosts>>
      BY <1>21 DEF BootSetHostname, SetHostname
    <2>2. CASE pc' = "sync" /\ kernelName' = Wanted /\ Wanted \in Names
      BY <2>1, <2>2
    <2>3. CASE /\ pc' = "links" /\ kernelName' = kernelName
               /\ Wanted \notin Names /\ smooth' = smooth
      <3>1. configName = Empty
        BY <2>3
      <3>2. ~nameLost => imageName # Absent
        BY <2>1, <2>3, <3>1
      <3>3. smooth' /\ ~nameLost => kernelName = imageName /\ etcName = imageName
        BY <2>1, <2>3, <3>1, <3>2
      <3>4. smooth' /\ ~nameLost => kernelName = Final /\ etcName = kernelName
        BY <3>1, <3>2, <3>3
      <3> QED BY <2>1, <2>3, <3>4
    <2>4. CASE pc' = "rescue"
      BY <2>4
    <2>5. CASE pc' = "links" /\ ~smooth'
      BY <2>5
    <2> HIDE DEF Wanted
    <2> QED BY <1>21, <2>2, <2>3, <2>4, <2>5 DEF BootSetHostname, SetHostname
  <1>22. CASE BootSyncHostname
    BY <1>22 DEF BootSyncHostname, SyncHostname
  <1>23. CASE BootDone
    <2>1. pc = "links" /\ UNCHANGED <<imageName, configName, persisted, etcName, nameLost, hosts,
                                     kernelName>>
      BY <1>23 DEF BootDone
    <2>2. CASE /\ pc' = "done" /\ smooth' = smooth
               /\ known' = IF known = Absent /\ smooth THEN kernelName ELSE known
      <3>1. smooth /\ ~nameLost => known' = Final
        BY <2>1, <2>2
      <3> QED BY <2>1, <2>2, <3>1
    <2>3. CASE pc' = "rescue"
      BY <2>3
    <2> QED BY <1>23, <2>2, <2>3 DEF BootDone
  <1>24. CASE Restart
    BY <1>24 DEF Restart, PowerOff
  <1>25. CASE Shutdown
    BY <1>25 DEF Shutdown, PowerOff
  <1>26. CASE PowerCut
    BY <1>26 DEF PowerCut, PowerOff
  <1> QED BY <1>1, <1>2, <1>3, <1>4, <1>5, <1>6, <1>7, <1>8, <1>9, <1>10, <1>11, <1>12,
     <1>13, <1>14, <1>15, <1>16, <1>17, <1>18, <1>19, <1>20, <1>21, <1>22, <1>23, <1>24,
     <1>25, <1>26 DEF Next, Step

-----------------------------------------------------------------------------
(* The theorems.                                                           *)

\* The type invariant is made of its parts.
LEMMA TypeParts ==
    ASSUME (rcTypeOK /\ FlagTypes /\ GrowTypes /\ SshTypes /\ NameTypes)'
    PROVE  TypeOK'
    BY DEF TypeOK, FlagTypes, GrowTypes, SshTypes, NameTypes

\* A machine that was never started.
LEMMA InitIInv ==
    ASSUME Init
    PROVE  IInv
  <1>1. PICK m \in Machines :
            /\ sectors = m.sectors /\ total = m.total /\ table = m.table
            /\ marker = m.marker
            /\ configName = m.configName /\ imageName = m.imageName
            /\ imageHosts = m.imageHosts
    BY DEF Init
  <1>2. FixedInv /\ table \in [Disks -> Tables]
    BY <1>1, StateAssumption DEF FixedInv
  <1>3. \A d \in Disks : KernelView(d, table) \in [Nums -> Lengths]
    BY <1>2, KernelLenType DEF KernelView, FixedInv
  <1>4. GrowTypes
    BY <1>2, <1>3 DEF Init, GrowTypes
  <1>5. rcTypeOK
    <2>1. NoLinks \in [Tags -> Devices \cup {NoDev}]
      BY DEF NoLinks
    <2>2. entry \in 1 .. Len(SysBlock) + 1 /\ sub = 0 /\ Populated
      BY PopulateAssumption DEF Init, rcInit, Populated
    <2>3. faults \in 0 .. MaxFaults
      BY PopulateAssumption DEF Init
    <2> QED BY <2>1, <2>2, <2>3 DEF Init, rcInit, rcTypeOK
  <1>6. SshTypes /\ NameTypes /\ FlagTypes
    <2>1. SshTypes
      <3>1. sshDir = Absent /\ etcSsh = "image" /\ toCopy = {}
        BY DEF Init
      <3> QED BY <3>1 DEF SshTypes
    <2>2. NameTypes
      BY DEF Init, NameTypes, NameFiles
    <2>3. FlagTypes
      BY DEF Init, FlagTypes, PCs
    <2> QED BY <2>1, <2>2, <2>3
  <1>7. TypeOK
    BY <1>4, <1>5, <1>6 DEF TypeOK, FlagTypes, GrowTypes, SshTypes, NameTypes
  <1>8. \A d \in Disks : \A i, j \in Nums : i # j => ~Overlap(table[d], i, j)
    BY <1>1, StateAssumption
  <1>9. OverlapOnlyByMBR
    BY <1>8 DEF OverlapOnlyByMBR
  <1>10. GrowInv /\ SshInv
    BY DEF Init, GrowInv, SshInv, GrowthPCs, BeforeGrowth
  <1>11. EtcInv /\ PersistInv /\ KernelNameInv
    BY StateAssumption DEF Init, EtcInv, PersistInv, KernelNameInv, Early, Middle,
       NameMaking, RcNamed, Empty
  <1>12. LinksInv
    <2>1. \A t \in Tags : links[t] = NoDev
      BY DEF Init, rcInit, NoLinks
    <2> QED BY <2>1 DEF Init, rcInit, LinksInv
  <1> QED BY <1>2, <1>7, <1>9, <1>10, <1>11, <1>12 DEF IInv

\* Every step keeps the invariant.
LEMMA NextIInv ==
    ASSUME IInv, [Next]_vars
    PROVE  IInv'
  <1>1. CASE Next
    <2>1. TypeOK'
      BY <1>1, RcTypesStep, FlagTypesStep, GrowTypesStep, SshTypesStep, NameTypesStep,
         TypeParts
    <2>2. FixedInv' /\ sectors' = sectors /\ total' = total
      BY <1>1, FixedStep
    <2>3. OverlapOnlyByMBR'
      BY <1>1, <2>2, OverlapStep
    <2>4. GrowInv' /\ SshInv' /\ EtcInv' /\ PersistInv' /\ KernelNameInv'
      BY <1>1, GrowStep, SshStep, EtcStep, PersistStep, KernelNameStep
    <2>5. LinksInv'
      BY <1>1, LinksStep
    <2> QED BY <2>1, <2>2, <2>3, <2>4, <2>5 DEF IInv
  <1>2. CASE UNCHANGED vars
    <2> USE <1>2 DEF vars, rcVars, fixed, growVars, sshVars, nameVars, IInv
    <2>1. TypeOK'
      BY DEF TypeOK, rcTypeOK, Populated
    <2>2. FixedInv' /\ OverlapOnlyByMBR' /\ GrowInv' /\ SshInv'
      BY DEF FixedInv, OverlapOnlyByMBR, GrowInv, SshInv, TableLen
    <2>3. EtcInv' /\ PersistInv' /\ KernelNameInv'
      BY DEF EtcInv, PersistInv, KernelNameInv, Final, Anonymous, Wanted
    <2>4. LinksInv'
      BY DEF LinksInv, Populated
    <2> QED BY <2>1, <2>2, <2>3, <2>4
  <1> QED BY <1>1, <1>2

\* The inductive invariant of the state partition holds in every state.
THEOREM Invariance == Spec => []IInv
  <1>1. Init => IInv
    BY InitIInv
  <1>2. IInv /\ [Next]_vars => IInv'
    BY NextIInv
  <1> QED BY <1>1, <1>2, PTL DEF Spec

\* Every variable keeps its type: no length leaves its width, whatever GrowPartition
\* subtracts.
THEOREM TypeCorrect == Spec => []TypeOK
  <1>1. IInv => TypeOK
    BY DEF IInv
  <1> QED BY <1>1, Invariance, PTL

\* Once /dev is populated, no link under /dev/disk names a disk in place of its
\* partition unless no look at that partition has worked, and without a failure every
\* tag has its link; for any disks whose names sysfs lists in order.
THEOREM LabelsFound == Spec => []LabelsNameTheirDevice
  <1>1. IInv => LabelsNameTheirDevice
    BY LinksGood
  <1> QED BY <1>1, Invariance, PTL

\* Partitions come to overlap only on an MBR disk, where the first one was grown to
\* its limit; for any tables that do not overlap at first.
THEOREM OverlapByMBR == Spec => []OverlapOnlyByMBR
  <1>1. IInv => OverlapOnlyByMBR
    BY DEF IInv
  <1> QED BY <1>1, Invariance, PTL

\* /etc/ssh leads to all files of the image unless a copy was broken off, whatever
\* else fails and however often the power does.
THEOREM SshKept == Spec => []SshComplete
  <1>1. IInv => SshComplete
    BY DEF IInv, SshInv, SshComplete
  <1> QED BY <1>1, Invariance, PTL

\* The machine has the same name in every smooth boot, unless it was lost.
THEOREM NameStays == Spec => []NameKept
  <1>1. IInv => NameKept
    BY DEF IInv, KernelNameInv, NameKept
  <1> QED BY <1>1, Invariance, PTL

\* And the files with the name agree with the kernel.
THEOREM NamesMatch == Spec => []NamesAgree
  <1>1. IInv => NamesAgree
    BY DEF IInv, KernelNameInv, EtcInv, NamesAgree
  <1> QED BY <1>1, Invariance, PTL

\* GrowPartition changes the length of one partition, to a larger one on its disk,
\* for every size of disk and every table.
THEOREM Growth == Spec => GrowsOnDisk
  <1>1. ASSUME IInv, [Next]_vars, NEW d \in Disks, NEW n \in Nums, table'[d][n] # table[d][n]
        PROVE  /\ table'[d][n].start = table[d][n].start
               /\ table'[d][n].len > table[d][n].len
               /\ ProbePartitionTableType(sectors[d]) = "mbr" => table'[d][n].len <= LbaMax
               /\ table[d][n].start <= total[d] => End(table'[d][n]) <= total[d]
               /\ \A e \in Disks : \A m \in Nums :
                     <<e, m>> # <<d, n>> => table'[e][m] = table[e][m]
    <2>1. Next
      BY <1>1 DEF vars, growVars
    <2>2. TableGrows(goal[1], goal[2])
      BY <1>1, <2>1, TableStep
    <2>3. d = goal[1]
      BY <1>1, <2>2 DEF TableGrows
    <2>4. Grows(ProbePartitionTableType(sectors[d]), table[d], goal[2], total[d], table'[d])
      BY <2>2, <2>3 DEF TableGrows
    <2>5. n = goal[2]
      BY <1>1, <2>4 DEF Grows
    <2>6. \A e \in Disks : \A m \in Nums : <<e, m>> # <<d, n>> => table'[e][m] = table[e][m]
      BY <2>2, <2>3, <2>4, <2>5 DEF TableGrows, Grows
    <2> QED BY <2>4, <2>5, <2>6 DEF Grows
  <1>2. IInv /\ [Next]_vars =>
            [\A d \in Disks : \A n \in Nums :
                table'[d][n] # table[d][n] =>
                    /\ table'[d][n].start = table[d][n].start
                    /\ table'[d][n].len > table[d][n].len
                    /\ ProbePartitionTableType(sectors[d]) = "mbr" =>
                           table'[d][n].len <= LbaMax
                    /\ table[d][n].start <= total[d] => End(table'[d][n]) <= total[d]
                    /\ \A e \in Disks : \A m \in Nums :
                          <<e, m>> # <<d, n>> => table'[e][m] = table[e][m]]_vars
    BY <1>1
  <1> QED BY <1>2, Invariance, PTL DEF Spec, GrowsOnDisk

\* When GrowLive has come to the marker, the filesystem fills its partition, or the
\* kernel was not told of its new length in this boot.
THEOREM FilledBeforeMark == Spec => []FilledAtMark
  <1>1. IInv => FilledAtMark
    BY DEF IInv, GrowInv, TableLen, FilledAtMark
  <1> QED BY <1>1, Invariance, PTL
=============================================================================
