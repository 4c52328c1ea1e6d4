------------------------------ MODULE DiskBootMC ------------------------------
(***************************************************************************)
(* Instances of DiskBoot for TLC.                                          *)
(***************************************************************************)
EXTENDS DiskBoot

Disk(b, m, d, f, s, i, l, k, dirs, link) ==
    [base |-> b, markers |-> m, data |-> d, foreign |-> f, sbin |-> s, init |-> i,
     k3osLink |-> l, kernel |-> k, k3sDirs |-> dirs, k3sLink |-> link]

\* A freshly written image: nothing set up, the partition to be grown.
FreshDisks ==
    {Disk(b, {"growpart"}, "none", {}, "none", "none", l, "none", dirs, 0) :
        b \in {{"k3os", "kernel"}, {}}, l \in {"none", "broken"}, dirs \in {{}, K3sNames}}

\* An installed machine with data, and any of the markers.
InstalledDisks ==
    {Disk({"k3os", "kernel"}, m, "some", {}, "dir", "link", "other", "full", K3sNames, 1) :
        m \in SUBSET (Markers \ {"takeover"})}

\* Another system that is being taken over, with sbin a directory or a link.
TakeoverDisks ==
    {Disk({"k3os"}, {"takeover"} \cup m, d, f, IF "sbin" \in f THEN "dir" ELSE "link",
          IF "sbin" \in f THEN "link" ELSE "none", l, "full", {}, 0) :
        l \in {"none", "other"}, m \in SUBSET {"poweroff", "ephemeral"},
        d \in {"none", "some"}, f \in {Places, Places \ {"sbin"}}}

MCDisks == FreshDisks \cup InstalledDisks \cup TakeoverDisks
=============================================================================
