------------------------------- MODULE UpgradeMC -------------------------------
(***************************************************************************)
(* Instances of Upgrade for TLC.                                           *)
(***************************************************************************)
EXTENDS Upgrade

CONSTANTS v1, v2

\* Every component of the machine starts at v1.
MCInstalled == [k \in Keys |-> v1]

ImageOf(v) == [k \in Keys |-> v]

\* An image whose k3os is v2 and whose k3s is v1, and that has no kernel.
MixedImage == [k \in Keys |-> CASE k = "k3os" -> v2 [] k = "k3s" -> v1 [] OTHER -> None]

Opt(img, components, switches) ==
    [image |-> img, components |-> components, switches |-> switches]

\* Upgrades of k3os and k3s (--rootfs), of k3os with an image of mixed versions,
\* and of a kernel the image lacks.
MCOptions ==
    {Opt(ImageOf(v2), {"k3os", "k3s"}, {"remount", "sync", "reboot"}),
     Opt(ImageOf(v1), {"k3os"}, {"remount"}),
     Opt(MixedImage, {"k3os", "k3s"}, {}),
     Opt(MixedImage, {"kernel"}, {"remount", "sync"})}

\* One component going back and forth between two versions.
OneComponentOptions ==
    {Opt(ImageOf(v), {"k3os"}, {"remount"}) : v \in {v1, v2}}
=============================================================================
