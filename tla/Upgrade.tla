-------------------------------- MODULE Upgrade --------------------------------
(***************************************************************************)
(* `k3os upgrade` (internal/cli/upgrade/upgrade.go) and the function that  *)
(* does its work, CopyComponent (internal/system/component.go).            *)
(*                                                                         *)
(* Invocations of the command (Procs) compete for the flock on             *)
(* /run/k3os/upgrade.lock; the holder copies the selected components one   *)
(* after the other from its source root into /k3os/system/<component>.     *)
(* Every system call of CopyComponent that changes the store is one step,  *)
(* and may fail; the process may be killed between any two steps, and the  *)
(* machine may lose power.  The deferred clean-ups are steps of their own, *)
(* run in the order Go runs them, and do not run when the process dies.    *)
(*                                                                         *)
(* A version directory is abstracted to how much of it is there (Content). *)
(* Metadata operations reach the disk in order (a journal), so a power     *)
(* loss looks like one at an earlier step, but the data of a directory     *)
(* that was never flushed may be torn.                                     *)
(***************************************************************************)
EXTENDS Naturals

CONSTANTS
    Procs,          \* invocations of `k3os upgrade`
    Versions,       \* names of version directories
    None,           \* no version, no process
    Installed,      \* Installed[k]: version of component k at the start
    Options,        \* the option records an invocation may be started with
    MaxFaults,      \* bound on failing calls, kills and power losses
    MaxStarts       \* bound on the number of invocations started

Keys == {"k3os", "k3s", "kernel"}

Pairs == Keys \X Versions

Content == {"none", "part", "full"}

OptionRecords ==
    [image : [Keys -> Versions \cup {None}], components : (SUBSET Keys) \ {{}},
     switches : SUBSET {"remount", "sync", "reboot"}]

ASSUME ConstantsAssumption ==
    /\ None \notin Versions
    /\ None \notin Procs
    /\ Installed \in [Keys -> Versions \cup {None}]
    /\ Options \subseteq OptionRecords
    /\ MaxFaults \in Nat
    /\ MaxStarts \in Nat

VARIABLES
    \* the store, /k3os/system/<component>
    current,        \* current[k]: target of the symlink `current`, or None
    previous,       \* previous[k]: target of the symlink `previous`, or None
    currentTmp,     \* currentTmp[k]: target of `current.tmp`, or None
    present,        \* <<k, v>>: the version directory is there
    damaged,        \* <<k, v>>: and its contents are not complete
    old,            \* <<k, v>>: the directory `<version>.old` is there
    orphans,        \* components with an abandoned MkdirTemp directory
    dirty,          \* <<k, v>>: directories not flushed to the disk
    mount,          \* how the store is mounted, "ro" or "rw"
    \* the processes
    lock,           \* holder of the flock, or None
    pc,             \* pc[p]: the next call of p, "idle" when p is not running
    key,            \* key[p]: the component being copied
    todo,           \* todo[p]: the selected components still to do
    image,          \* image[p][k]: version of k in the source root, or None
    temp,           \* temp[p]: the MkdirTemp directory
    flags,          \* <<p, f>>: the Boolean variable f of p is true
    \* history, read by properties and bounds only
    lost,           \* <<k, v>>: directories torn by a power loss
    interrupted,    \* components whose copy died or whose clean-up failed
    faults, starts

store == <<current, previous, currentTmp, present, damaged, old, orphans,
           dirty, mount>>
local == <<pc, key, todo, image, temp, flags>>
vars == <<store, lock, local, lost, interrupted, faults, starts>>

PCs == {"idle", "flock", "next", "stat", "remount", "link", "mktemp", "copy",
        "aside", "place", "drop", "record", "commit",
        "restore", "untemp", "unlink", "sync", "reboot", "unlock"}

\* The options remount, sync and reboot; moved: the deferred rename of `.old`
\* is registered; done: `current` was switched; copied: the local variable
\* atLeastOneComponentCopied; logged: keeping `previous` failed and was logged.
Flags == {"remount", "sync", "reboot", "moved", "done", "copied", "logged"}

Images == [Keys -> Versions \cup {None}]

NoImage == [k \in Keys |-> None]

TypeOK ==
    /\ current \in [Keys -> Versions \cup {None}]
    /\ previous \in [Keys -> Versions \cup {None}]
    /\ currentTmp \in [Keys -> Versions \cup {None}]
    /\ present \in SUBSET Pairs
    /\ damaged \in SUBSET Pairs
    /\ old \in SUBSET Pairs
    /\ orphans \in SUBSET Keys
    /\ dirty \in SUBSET Pairs
    /\ mount \in {"ro", "rw"}
    /\ lock \in Procs \cup {None}
    /\ pc \in [Procs -> PCs]
    /\ key \in [Procs -> Keys]
    /\ todo \in [Procs -> SUBSET Keys]
    /\ image \in [Procs -> Images]
    /\ temp \in [Procs -> Content]
    /\ flags \in SUBSET (Procs \X Flags)
    /\ lost \in SUBSET Pairs
    /\ interrupted \in SUBSET Keys
    /\ faults \in Nat
    /\ starts \in Nat

-----------------------------------------------------------------------------
\* The version process p is installing.
Target(p) == image[p][key[p]]

\* p goes on to the call named c.
Goto(p, c) == pc' = [pc EXCEPT ![p] = c] /\ UNCHANGED <<key, todo, image, temp, flags>>

\* The processes of ps are gone, with their local state.
End(ps) ==
    /\ pc' = [q \in Procs |-> IF q \in ps THEN "idle" ELSE pc[q]]
    /\ key' = [q \in Procs |-> IF q \in ps THEN "k3os" ELSE key[q]]
    /\ todo' = [q \in Procs |-> IF q \in ps THEN {} ELSE todo[q]]
    /\ image' = [q \in Procs |-> IF q \in ps THEN NoImage ELSE image[q]]
    /\ temp' = [q \in Procs |-> IF q \in ps THEN "none" ELSE temp[q]]
    /\ flags' = {f \in flags : f[1] \notin ps}

\* A system call fails for a reason of its own (ENOSPC, EIO, ...).
Fault == faults < MaxFaults /\ faults' = faults + 1

\* The first deferred function that is registered, on every way out.
Unwind(p) == IF <<p, "moved">> \in flags THEN "restore" ELSE "untemp"

Init ==
    /\ current = Installed
    /\ previous = [k \in Keys |-> None]
    /\ currentTmp = [k \in Keys |-> None]
    /\ present = {kv \in Pairs : Installed[kv[1]] = kv[2]}
    /\ damaged = {} /\ old = {}
    /\ orphans = {} /\ dirty = {} /\ mount = "ro"
    /\ lock = None
    /\ pc = [p \in Procs |-> "idle"]
    /\ key = [p \in Procs |-> "k3os"]
    /\ todo = [p \in Procs |-> {}]
    /\ image = [p \in Procs |-> NoImage]
    /\ temp = [p \in Procs |-> "none"]
    /\ flags = {}
    /\ lost = {} /\ interrupted = {}
    /\ faults = 0 /\ starts = 0

-----------------------------------------------------------------------------
(* Run: the lock, and the loop over the selected components.               *)

\* The command is invoked; Before has turned --rootfs into k3s and k3os.
Start(p) ==
    /\ pc[p] = "idle" /\ starts < MaxStarts
    /\ \E o \in Options :
           /\ image' = [image EXCEPT ![p] = o.image]
           /\ todo' = [todo EXCEPT ![p] = o.components]
           /\ flags' = flags \cup {<<p, f>> : f \in o.switches}
    /\ pc' = [pc EXCEPT ![p] = "flock"]
    /\ starts' = starts + 1
    /\ UNCHANGED <<store, lock, key, temp, lost, interrupted, faults>>

\* Mutant: LOCK_SH instead of LOCK_EX.
FlockShared(p) ==
    /\ pc[p] = "flock"
    /\ lock' = p
    /\ Goto(p, "next")
    /\ UNCHANGED <<store, lost, interrupted, faults, starts>>

\* flock(LOCK_EX|LOCK_NB): a second invocation returns the error at once.
Flock(p) ==
    /\ pc[p] = "flock"
    /\ \/ /\ lock = None
          /\ lock' = p
          /\ Goto(p, "next")
       \/ /\ lock # None
          /\ End({p})
          /\ UNCHANGED lock
    /\ UNCHANGED <<store, lost, interrupted, faults, starts>>

\* k3os, then k3s, then kernel; errors of CopyComponent are only logged.
FirstOf(ks) ==
    IF "k3os" \in ks THEN "k3os" ELSE IF "k3s" \in ks THEN "k3s" ELSE "kernel"

NextComponent(p) ==
    /\ pc[p] = "next"
    /\ \/ /\ todo[p] # {}
          /\ pc' = [pc EXCEPT ![p] = "stat"]
          /\ key' = [key EXCEPT ![p] = FirstOf(todo[p])]
          /\ todo' = [todo EXCEPT ![p] = todo[p] \ {FirstOf(todo[p])}]
          /\ flags' = flags \ {<<p, "done">>, <<p, "logged">>}
          /\ UNCHANGED <<image, temp>>
       \/ todo[p] = {} /\ Goto(p, "sync")
    /\ UNCHANGED <<store, lock, lost, interrupted, faults, starts>>

Sync(p) ==
    /\ pc[p] = "sync"
    /\ dirty' = IF {<<p, "copied">>, <<p, "sync">>} \subseteq flags THEN {} ELSE dirty
    /\ Goto(p, IF {<<p, "copied">>, <<p, "reboot">>} \subseteq flags THEN "reboot" ELSE "unlock")
    /\ UNCHANGED <<current, previous, currentTmp, present, damaged, old, orphans, mount, lock,
                   lost, interrupted, faults, starts>>

\* nsenter ... reboot: an orderly restart flushes everything, ends every
\* process and mounts the store read-only again.  It may fail and return.
Reboot(p) ==
    /\ pc[p] = "reboot"
    /\ \/ /\ dirty' = {} /\ mount' = "ro"
          /\ End(Procs)
          /\ lock' = None
          /\ UNCHANGED faults
       \/ /\ Fault
          /\ Goto(p, "unlock")
          /\ UNCHANGED <<dirty, mount, lock>>
    /\ UNCHANGED <<current, previous, currentTmp, present, damaged, old, orphans, lost,
                   interrupted, starts>>

Unlock(p) ==
    /\ pc[p] = "unlock"
    /\ lock' = None
    /\ End({p})
    /\ UNCHANGED <<store, lost, interrupted, faults, starts>>

-----------------------------------------------------------------------------
(* CopyComponent(src, dst, remount, key): one action per system call that  *)
(* changes the store, in program order.                                    *)

\* StatComponentVersion resolves `current` to a version directory that exists.
Resolves(k) == <<k, current[k]>> \in present

\* Mutant: the current version is copied again instead of skipped.
StatVersionsNoSkip(p) ==
    /\ pc[p] = "stat"
    /\ Goto(p, IF Target(p) = None THEN "next"
               ELSE IF <<p, "remount">> \in flags THEN "remount" ELSE "link")
    /\ UNCHANGED <<store, lock, lost, interrupted, faults, starts>>

\* Mutant: a component the source lacks is not an error.
StatVersionsNoSource(p) ==
    /\ pc[p] = "stat"
    /\ Goto(p, IF Resolves(key[p]) /\ current[key[p]] = Target(p) THEN "next"
               ELSE IF <<p, "remount">> \in flags THEN "remount" ELSE "link")
    /\ UNCHANGED <<store, lock, lost, interrupted, faults, starts>>

\* The source has no such component: error.  `current` already resolves to
\* the source's version: nothing to do.
StatVersions(p) ==
    LET k == key[p]
        v == Target(p)
    IN
    /\ pc[p] = "stat"
    /\ Goto(p, IF v = None \/ (Resolves(k) /\ current[k] = v) THEN "next"
               ELSE IF <<p, "remount">> \in flags THEN "remount" ELSE "link")
    /\ UNCHANGED <<store, lock, lost, interrupted, faults, starts>>

Remount(p) ==
    /\ pc[p] = "remount"
    /\ \/ mount' = "rw" /\ Goto(p, "link") /\ UNCHANGED faults
       \/ Fault /\ Goto(p, "next") /\ UNCHANGED mount
    /\ UNCHANGED <<current, previous, currentTmp, present, damaged, old, orphans, dirty, lock,
                   lost, interrupted, starts>>

\* Symlink(version, current.tmp).  A failure returns before the deferred
\* Remove is registered; a leftover current.tmp (EEXIST) is such a failure.
LinkTemp(p) ==
    LET k == key[p] IN
    /\ pc[p] = "link"
    /\ \/ /\ mount = "rw" /\ currentTmp[k] = None
          /\ currentTmp' = [currentTmp EXCEPT ![k] = Target(p)]
          /\ Goto(p, "mktemp")
          /\ UNCHANGED faults
       \/ /\ mount = "ro" \/ currentTmp[k] # None
          /\ Goto(p, "next")
          /\ UNCHANGED <<currentTmp, faults>>
       \/ /\ Fault
          /\ Goto(p, "next")
          /\ UNCHANGED currentTmp
    /\ UNCHANGED <<current, previous, present, damaged, old, orphans, dirty, mount, lock, lost,
                   interrupted, starts>>

MkdirTemp(p) ==
    /\ pc[p] = "mktemp"
    /\ \/ /\ pc' = [pc EXCEPT ![p] = "copy"]
          /\ temp' = [temp EXCEPT ![p] = "part"]
          /\ UNCHANGED <<key, todo, image, flags, faults>>
       \/ Fault /\ Goto(p, "unlink")
    /\ UNCHANGED <<store, lock, lost, interrupted, starts>>

\* Mutant: the error of copy.Copy is dropped.
CopyToTempUnchecked(p) ==
    /\ pc[p] = "copy"
    /\ pc' = [pc EXCEPT ![p] = "aside"]
    /\ \/ temp' = [temp EXCEPT ![p] = "full"] /\ UNCHANGED faults
       \/ Fault /\ UNCHANGED temp
    /\ UNCHANGED <<store, lock, key, todo, image, flags, lost, interrupted, starts>>

\* copy.Copy(src, temp): all of it, or an error after a part of it.
CopyToTemp(p) ==
    /\ pc[p] = "copy"
    /\ \/ /\ pc' = [pc EXCEPT ![p] = "aside"]
          /\ temp' = [temp EXCEPT ![p] = "full"]
          /\ UNCHANGED <<key, todo, image, flags, faults>>
       \/ Fault /\ Goto(p, "untemp")
    /\ UNCHANGED <<store, lock, lost, interrupted, starts>>

\* An existing version directory is renamed to .old; os.Rename refuses to
\* replace a directory, so a leftover .old makes this fail.
MoveAside(p) ==
    LET kv == <<key[p], Target(p)>> IN
    /\ pc[p] = "aside"
    /\ \/ /\ kv \notin present
          /\ Goto(p, "place")
          /\ UNCHANGED <<present, old, faults>>
       \/ /\ kv \in present /\ kv \notin old
          /\ old' = old \cup {kv}
          /\ present' = present \ {kv}
          /\ pc' = [pc EXCEPT ![p] = "place"]
          /\ flags' = flags \cup {<<p, "moved">>}
          /\ UNCHANGED <<key, todo, image, temp, faults>>
       \/ /\ kv \in present /\ kv \in old
          /\ Goto(p, "untemp")
          /\ UNCHANGED <<present, old, faults>>
       \/ /\ kv \in present /\ Fault
          /\ Goto(p, "untemp")
          /\ UNCHANGED <<present, old>>
    /\ UNCHANGED <<current, previous, currentTmp, damaged, orphans, dirty, mount, lock,
                   lost, interrupted, starts>>

\* Rename(temp, dst); the Chmod after it can only be logged.
Place(p) ==
    LET kv == <<key[p], Target(p)>> IN
    /\ pc[p] = "place"
    /\ \/ /\ present' = present \cup {kv}
          /\ damaged' = IF temp[p] = "full" THEN damaged \ {kv} ELSE damaged \cup {kv}
          /\ dirty' = dirty \cup {kv}
          /\ lost' = lost \ {kv}
          /\ pc' = [pc EXCEPT ![p] = "drop"]
          /\ temp' = [temp EXCEPT ![p] = "none"]
          /\ UNCHANGED <<key, todo, image, flags, faults>>
       \/ /\ Fault
          /\ Goto(p, Unwind(p))
          /\ UNCHANGED <<present, damaged, dirty, lost>>
    /\ UNCHANGED <<current, previous, currentTmp, old, orphans, mount, lock,
                   interrupted, starts>>

\* Remove(previous): a failure is a warning.
DropPrevious(p) ==
    /\ pc[p] = "drop"
    /\ Goto(p, "record")
    /\ \/ previous' = [previous EXCEPT ![key[p]] = None] /\ UNCHANGED faults
       \/ Fault /\ UNCHANGED previous
    /\ UNCHANGED <<current, currentTmp, present, damaged, old, orphans, dirty, mount, lock, lost,
                   interrupted, starts>>

\* Mutant: `previous` is copied from `current` only after the switch.
RecordPreviousLate(p) ==
    /\ pc[p] = "record"
    /\ Goto(p, "commit")
    /\ previous' = [previous EXCEPT ![key[p]] = Target(p)]
    /\ UNCHANGED <<current, currentTmp, present, damaged, old, orphans, dirty, mount, lock, lost,
                   interrupted, faults, starts>>

\* copy.Copy(current, previous) copies the link itself.  It fails where there
\* is no `current`, and may where `previous` is still there; failures are logged.
RecordPrevious(p) ==
    LET k == key[p] IN
    /\ pc[p] = "record"
    /\ \/ /\ current[k] # None
          /\ previous' = [previous EXCEPT ![k] = current[k]]
          /\ Goto(p, "commit")
          /\ UNCHANGED faults
       \/ /\ \/ (current[k] = None \/ previous[k] # None) /\ UNCHANGED faults
             \/ Fault
          /\ pc' = [pc EXCEPT ![p] = "commit"]
          /\ flags' = flags \cup {<<p, "logged">>}
          /\ UNCHANGED <<previous, key, todo, image, temp>>
    /\ UNCHANGED <<current, currentTmp, present, damaged, old, orphans, dirty, mount, lock, lost,
                   interrupted, starts>>

\* Rename(current.tmp, current): the switch.
Commit(p) ==
    LET k == key[p] IN
    /\ pc[p] = "commit"
    /\ \/ /\ currentTmp[k] # None
          /\ current' = [current EXCEPT ![k] = currentTmp[k]]
          /\ currentTmp' = [currentTmp EXCEPT ![k] = None]
          /\ pc' = [pc EXCEPT ![p] = Unwind(p)]
          /\ flags' = flags \cup {<<p, "done">>}
          /\ UNCHANGED <<key, todo, image, temp, faults>>
       \/ /\ currentTmp[k] = None
          /\ Goto(p, Unwind(p))
          /\ UNCHANGED <<current, currentTmp, faults>>
       \/ /\ Fault
          /\ Goto(p, Unwind(p))
          /\ UNCHANGED <<current, currentTmp>>
    /\ UNCHANGED <<previous, present, damaged, old, orphans, dirty, mount, lock, lost,
                   interrupted, starts>>

-----------------------------------------------------------------------------
(* The deferred functions, last registered first.                          *)

\* Rename(.old, dst) puts the directory back, unless dst was replaced: then
\* it fails and .old stays.
RestoreOld(p) ==
    LET kv == <<key[p], Target(p)>> IN
    /\ pc[p] = "restore"
    /\ \/ /\ kv \notin present
          /\ present' = present \cup {kv}
          /\ old' = old \ {kv}
          /\ UNCHANGED <<faults, interrupted>>
       \/ kv \in present /\ UNCHANGED <<present, old, faults, interrupted>>
       \/ /\ Fault /\ interrupted' = interrupted \cup {key[p]}
          /\ UNCHANGED <<present, old>>
    /\ Goto(p, "untemp")
    /\ UNCHANGED <<current, previous, currentTmp, damaged, orphans, dirty, mount, lock,
                   lost, starts>>

RemoveTemp(p) ==
    /\ pc[p] = "untemp"
    /\ \/ UNCHANGED <<orphans, interrupted, faults>>
       \/ /\ temp[p] # "none" /\ Fault
          /\ orphans' = orphans \cup {key[p]}
          /\ interrupted' = interrupted \cup {key[p]}
    /\ pc' = [pc EXCEPT ![p] = "unlink"]
    /\ temp' = [temp EXCEPT ![p] = "none"]
    /\ UNCHANGED <<key, todo, image, flags>>
    /\ UNCHANGED <<current, previous, currentTmp, present, damaged, old, dirty, mount, lock, lost, starts>>

\* Back in Run with the result of CopyComponent.
Return(p) ==
    /\ pc' = [pc EXCEPT ![p] = "next"]
    /\ flags' = IF <<p, "done">> \in flags
                THEN (flags \cup {<<p, "copied">>}) \ {<<p, "moved">>, <<p, "remount">>}
                ELSE flags \ {<<p, "moved">>}
    /\ UNCHANGED <<key, todo, image, temp>>

\* Mutant: no deferred Remove of current.tmp.
RemoveLinkTempNever(p) ==
    /\ pc[p] = "unlink"
    /\ Return(p)
    /\ UNCHANGED <<store, lock, lost, interrupted, faults, starts>>

RemoveLinkTemp(p) ==
    LET k == key[p] IN
    /\ pc[p] = "unlink"
    /\ \/ /\ currentTmp' = [currentTmp EXCEPT ![k] = None]
          /\ UNCHANGED <<faults, interrupted>>
       \/ /\ currentTmp[k] # None /\ Fault
          /\ interrupted' = interrupted \cup {k}
          /\ UNCHANGED currentTmp
    /\ Return(p)
    /\ UNCHANGED <<current, previous, present, damaged, old, orphans, dirty, mount, lock, lost, starts>>

-----------------------------------------------------------------------------
(* The environment.                                                        *)

\* The pcs between the creation of current.tmp and its deferred removal.
Window == {"mktemp", "copy", "aside", "place", "drop", "record", "commit",
           "restore", "untemp", "unlink"}

\* The process dies: the kernel drops its flock, nothing it deferred runs.
Kill(p) ==
    /\ pc[p] # "idle" /\ Fault
    /\ orphans' = IF temp[p] = "none" THEN orphans ELSE orphans \cup {key[p]}
    /\ interrupted' = IF pc[p] \in Window THEN interrupted \cup {key[p]}
                                               ELSE interrupted
    /\ lock' = IF lock = p THEN None ELSE lock
    /\ End({p})
    /\ UNCHANGED <<current, previous, currentTmp, present, damaged, old, dirty, mount, lost, starts>>

\* The machine loses power: every process dies, the store comes back mounted
\* read-only, and any directory that was not flushed may be torn.
PowerLoss ==
    /\ Fault
    /\ orphans' = orphans \cup {key[p] : p \in {q \in Procs : temp[q] # "none"}}
    /\ interrupted' = interrupted \cup
           {key[p] : p \in {q \in Procs : pc[q] \in Window}}
    /\ \E torn \in SUBSET (dirty \cap present) :
           damaged' = damaged \cup torn /\ lost' = lost \cup torn
    /\ dirty' = {} /\ mount' = "ro"
    /\ lock' = None
    /\ End(Procs)
    /\ UNCHANGED <<current, previous, currentTmp, present, old, starts>>

RunStep(p) ==
    \/ Start(p) \/ Flock(p) \/ NextComponent(p) \/ Sync(p) \/ Reboot(p) \/ Unlock(p)

CopyComponent(p) ==
    \/ StatVersions(p) \/ Remount(p) \/ LinkTemp(p) \/ MkdirTemp(p) \/ CopyToTemp(p)
    \/ MoveAside(p) \/ Place(p) \/ DropPrevious(p) \/ RecordPrevious(p) \/ Commit(p)
    \/ RestoreOld(p) \/ RemoveTemp(p) \/ RemoveLinkTemp(p)

Next ==
    \/ \E p \in Procs : RunStep(p) \/ CopyComponent(p) \/ Kill(p)
    \/ PowerLoss

Spec == Init /\ [][Next]_vars

-----------------------------------------------------------------------------
(* Properties.                                                             *)

\* `current` always names a directory that is there and complete, at every
\* step of every upgrade, failed call and killed process; only a power loss
\* before the data was flushed can have damaged it (component.go:50-131).
CurrentComplete ==
    \A k \in Keys : current[k] # None =>
        /\ <<k, current[k]>> \in present
        /\ <<k, current[k]>> \in damaged => <<k, current[k]>> \in lost

\* CopyComponent cleans up after every error it returns: a current.tmp or a
\* temporary directory that no running copy of the component owns was left by
\* a process that died, or by a clean-up that itself failed (component.go:72-84).
LitterOnlyAfterInterruption ==
    \A k \in Keys :
        /\ currentTmp[k] # None \/ k \in orphans
        /\ \A p \in Procs : pc[p] \in Window => key[p] # k
        => k \in interrupted

\* A switch of `current` away from a version that `previous` does not name is
\* one whose failure to keep it was logged.
KeepsPrevious ==
    \A k \in Keys : current'[k] # current[k] =>
        \/ previous[k] = current[k]
        \/ \E p \in Procs : pc[p] = "commit" /\ key[p] = k /\ <<p, "logged">> \in flags

\* When `current` is switched, `previous` already names the version that is
\* being replaced, or the failure to keep it was logged (component.go:115-128).
PreviousIsReplaced == [][KeepsPrevious]_vars

\* The store that CopyComponent maintains, seen through its symlinks and its
\* complete directories, behaves as VersionStore: the switch is atomic and the
\* current directory is never taken away (docs/technical.md:340).
Store == INSTANCE VersionStore WITH
    cur <- current,
    prev <- previous,
    usable <- present \ damaged,
    flushed <- Pairs \ dirty

ImplementsVersionStore == Store!Spec

\* Claimed, and violated: whenever no upgrade is running, `previous` names a
\* version that is there to roll back to (docs/technical.md:340).
PreviousUsable ==
    \A k \in Keys :
        /\ previous[k] # None
        /\ \A p \in Procs : pc[p] \notin Window
        => <<k, previous[k]>> \in present

\* Claimed, and violated: a version directory that is in the way can be moved
\* out of it, when no call ever failed (component.go:90-98).
AsideNeverBlocked ==
    \A p \in Procs :
        /\ faults = 0 /\ pc[p] = "aside"
        /\ <<key[p], Target(p)>> \in present
        => <<key[p], Target(p)>> \notin old
=============================================================================
