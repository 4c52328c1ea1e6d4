------------------------------ MODULE StateDiskMC ------------------------------
(***************************************************************************)
(* An instance of StateDisk for TLC: a machine with two disks; the state   *)
(* partition is sda2.                                                      *)
(***************************************************************************)
EXTENDS StateDisk

MCSysBlock == <<"nvme0n1", "nvme0n1p1", "sda", "sda1", "sda2">>
MCParts == [d \in {"nvme0n1", "nvme0n1p1", "sda", "sda1", "sda2"} |->
               CASE d = "nvme0n1" -> <<"nvme0n1p1">>
                 [] d = "sda" -> <<"sda1", "sda2">>
                 [] OTHER -> <<>>]
MCOwn == [nvme0n1 |-> {"guid"}, nvme0n1p1 |-> {"data"},
          sda |-> {}, sda1 |-> {}, sda2 |-> {"K3OS_STATE"}]

E(s, l) == [start |-> s, len |-> l]
None == E(0, 0)

\* nvme0n1 has a GPT and room to grow; sda is as the arguments say.
Machine(kind, size, t, mark, cfgName, imgName, imgHosts) ==
    [sectors |-> [nvme0n1 |-> [signature |-> TRUE, protective |-> TRUE, efi |-> TRUE,
                               readable |-> TRUE],
                  sda |-> [signature |-> kind # "none", protective |-> kind = "gpt",
                           efi |-> kind = "gpt", readable |-> kind # "refused"]],
     total |-> [nvme0n1 |-> 6, sda |-> size],
     table |-> [nvme0n1 |-> <<E(1, 3), None, None, None>>, sda |-> t],
     marker |-> mark,
     configName |-> cfgName, imageName |-> imgName, imageHosts |-> imgHosts]

Mark(d, n) == [dev |-> d, num |-> n]
Two == <<E(1, 2), E(3, 2), None, None>>

\* An MBR and a GPT disk to be grown; one larger than an MBR can say; a partition
\* that another one follows, of both kinds; a full disk; a marker that cannot be
\* read, one for a partition that does not exist, one for a disk with a p in its
\* partitions' names; a disk without a table, and one whose table is refused; a
\* partition that begins after the end of its disk.
Growing ==
    {Machine("mbr", 7, Two, Mark("sda", 2), Empty, Absent, Absent),
     Machine("gpt", 7, Two, Mark(NoDev, 1), Empty, Absent, NoLine),
     Machine("mbr", 12, Two, Mark(NoDev, 1), "conf", Absent, NoLine),
     Machine("mbr", 7, Two, Mark("sda", 1), Empty, "image", Absent),
     Machine("gpt", 7, <<E(1, 1), E(4, 1), None, None>>, Mark("sda", 1), Empty, "image", "image"),
     Machine("mbr", 4, Two, Mark("sda", 2), "conf", "image", Absent),
     Machine("mbr", 7, Two, Garbled, Empty, Absent, Absent),
     Machine("mbr", 7, Two, Mark("sda", 3), Empty, "image", NoLine),
     Machine("mbr", 7, Two, Mark("nvme0n1", 1), Empty, "image", Absent),
     Machine("none", 7, Two, Mark("sda", 2), Empty, "image", Absent),
     Machine("refused", 7, Two, Mark("sda", 2), Empty, "image", Absent),
     Machine("mbr", 2, Two, Mark("sda", 2), Empty, "image", Absent)}

\* Without a marker: a name from the configuration, the image or neither; an image
\* with /etc/hosts (with or without a line for 127.0.1.1) or without.
Settled ==
    {Machine("mbr", 4, Two, Absent, n[1], n[2], h) :
        n \in {<<Empty, Absent>>, <<"conf", Absent>>, <<Empty, "image">>, <<"conf", "image">>},
        h \in {Absent, NoLine, "image"}}

MCMachines == Growing \cup Settled
=============================================================================
