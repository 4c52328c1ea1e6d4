------------------------------ MODULE DiskOutcome ------------------------------
(***************************************************************************)
(* What DiskHandler.Execute makes of a disk, as far as the rest of a boot  *)
(* can tell: relations between what it found, what it left and whether a   *)
(* call failed on the way.                                                 *)
(***************************************************************************)

\* What the rest of a boot can tell of the disk: a takeover or growpart marker is on
\* it; a hostname is persisted in k3os/data; the kernel image is there, or torn;
\* the handler cannot make it boot, whatever works.
Facts == {"takeover", "growpart", "hostname", "kernel", "torn", "broken"}

Kernels == {"kernel", "torn"}

\* A disk with the facts d may have the facts e when Execute has come to some point,
\* slip telling whether a call has failed: markers and k3os/data are removed, the
\* kernel image is copied or cut short, and a takeover that cannot remove the link
\* sbin leaves it dangling.
Leaves(d, e, slip) ==
    /\ d \ e \subseteq {"growpart", "takeover", "hostname"}
    /\ e \ d \subseteq Kernels \cup {"broken"}
    /\ e \cap Kernels # d \cap Kernels => d \cap Kernels = {} /\ ~(Kernels \subseteq e)
    /\ "broken" \in e \ d => slip /\ "takeover" \in d

\* What Execute may have copied to a disk that had the facts d, and nothing flushes.
Unflushed(d) == {"k3os"} \cup ({"kernel"} \ d)

\* What a power cut may make of a disk with the facts d by taking the contents of the
\* files dirty: the kernel image is torn, or the binary that /sbin/init leads to.
Tears(dirty, d) ==
    LET torn == {d} \cup IF "kernel" \in dirty \cap d THEN {(d \ {"kernel"}) \cup {"torn"}}
                         ELSE {}
    IN  torn \cup IF "k3os" \in dirty THEN {e \cup {"broken"} : e \in torn} ELSE {}

\* A power cut in Execute: what it has come to, with the binary torn as well or not.
CutShort(d, e, slip) == Leaves(d, e, slip) \/ Leaves(d, e \ ({"broken"} \ d), slip)

\* No copy of the kernel image was cut short this time.
Copied(d, e) == "torn" \in e => "torn" \in d

\* PivotAndExec: the next pass of the boot begins on this disk.
Pivoted(d, e, slip) ==
    /\ Leaves(d, e, slip) /\ Copied(d, e)
    /\ "takeover" \notin d /\ "broken" \notin e

\* Takeover: the machine is restarted or switched off, rid of the marker and of the
\* data unless their removal failed, which is ignored.
TakenOver(d, e, slip) ==
    /\ Leaves(d, e, slip) /\ Copied(d, e)
    /\ "takeover" \in d
    /\ slip \/ {"takeover", "hostname"} \cap e = {}

\* Execute returns an error: a call failed, or the disk was broken before.
Unfinished(d, e, slip) == Leaves(d, e, slip) /\ (slip \/ "broken" \in d)
=============================================================================
