----------------------------- MODULE PartitionGrow -----------------------------
(***************************************************************************)
(* The arithmetic of internal/diskutil: which table a disk has, and how    *)
(* far a partition is grown.  Lengths are in sectors.                      *)
(*                                                                         *)
(* growMBR computes in uint64, of which Wrap is the modulus, and stores a  *)
(* uint32, of which LbaMax is the largest value.                           *)
(***************************************************************************)
EXTENDS Naturals

CONSTANTS
    LbaMax,         \* 0xFFFFFFFF
    Wrap            \* 2^64

ASSUME WidthAssumption == LbaMax \in Nat /\ Wrap \in Nat /\ LbaMax < Wrap

\* Partition numbers with an entry in an MBR.
Nums == 1 .. 4

\* An entry of a partition table; one with length 0 is not in use.
Entry == [start : 0 .. Wrap - 1, len : 0 .. Wrap - 1]

Tables == [Nums -> Entry]

InUse(table, n) == table[n].len > 0

End(e) == e.start + e.len

\* Two partitions have a sector in common.
Overlap(table, m, n) ==
    /\ InUse(table, m) /\ InUse(table, n)
    /\ table[m].start < End(table[n]) /\ table[n].start < End(table[m])

\* The first sectors: the boot signature, an entry of type 0xEE, "EFI PART"; and
\* whether mbr.Read or gpt.Read accepts the table.
Sectors ==
    [signature : BOOLEAN, protective : BOOLEAN, efi : BOOLEAN, readable : BOOLEAN]

\* Two partitions of the table overlap.
Overlapping(table) == \E m, n \in Nums : m # n /\ Overlap(table, m, n)

ProbePartitionTableType(s) ==
    IF ~s.signature THEN "unknown"
    ELSE IF s.protective /\ s.efi THEN "gpt" ELSE "mbr"

\* a - b in uint64.
Minus(a, b) == IF b <= a THEN a - b ELSE a + Wrap - b

\* Mutant: the length is counted from the beginning of the disk.
MaxLenOfDisk(total, e) == IF total > LbaMax THEN LbaMax ELSE total

\* From the start of the partition to the end of the disk.
maxLen(total, e) ==
    LET room == Minus(total, e.start) IN IF room > LbaMax THEN LbaMax ELSE room

\* The table that growMBR leaves.
growMBR(table, n, total) ==
    IF table[n].len >= maxLen(total, table[n]) THEN table
    ELSE [table EXCEPT ![n].len = maxLen(total, table[n])]

\* Where the partition that follows e begins, or the disk ends.
Limits(table, n, total) ==
    {total} \cup {table[m].start : m \in {k \in Nums \ {n} :
                     InUse(table, k) /\ table[k].start >= End(table[n])}}

\* go-blockdevice: AvailablePartitionGrowth and GrowPartition.
growGPT(table, n, total) ==
    LET limit == CHOOSE l \in Limits(table, n, total) :
                    \A m \in Limits(table, n, total) : l <= m
    IN  IF limit <= End(table[n]) THEN table
        ELSE [table EXCEPT ![n].len = limit - table[n].start]

\* The table after GrowPartition has written it.
Grown(type, table, n, total) ==
    IF type = "mbr" THEN growMBR(table, n, total) ELSE growGPT(table, n, total)

\* The kernel's view of a partition: cut off at the end of the disk.
KernelLen(e, total) ==
    IF End(e) <= total THEN e.len
    ELSE IF e.start < total THEN total - e.start ELSE 0
=============================================================================
