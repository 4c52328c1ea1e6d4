----------------------------- MODULE UpgradeProofs -----------------------------
(***************************************************************************)
(* Proofs about Upgrade, for any number of invocations, versions, option   *)
(* records, failures and restarts.                                         *)
(***************************************************************************)
EXTENDS Upgrade, TLAPS

-----------------------------------------------------------------------------
(* Type correctness.  That <<k, v>> stays a pair of the store needs one    *)
(* fact about the control: past StatVersions the source has a version.     *)

Copying == {"remount", "link"} \cup Window

TargetKnown == \A p \in Procs : pc[p] \in Copying => Target(p) \in Versions

TypeInv == TypeOK /\ TargetKnown

LEMMA TargetPair ==
  ASSUME TypeInv, NEW p \in Procs, pc[p] \in Copying
  PROVE  key[p] \in Keys /\ Target(p) \in Versions /\ <<key[p], Target(p)>> \in Pairs
  BY DEF TypeInv, TypeOK, TargetKnown, Pairs

\* The types of the constants an invocation is started with.
LEMMA OptionType ==
  ASSUME NEW o \in Options
  PROVE  o.image \in Images /\ o.components \in SUBSET Keys /\ o.switches \in SUBSET Flags
  BY ConstantsAssumption DEF OptionRecords, Images, Flags

LEMMA EndType ==
  ASSUME TypeOK, NEW ps \in SUBSET Procs, End(ps)
  PROVE  /\ pc' \in [Procs -> PCs] /\ key' \in [Procs -> Keys]
         /\ todo' \in [Procs -> SUBSET Keys] /\ image' \in [Procs -> Images]
         /\ temp' \in [Procs -> Content] /\ flags' \in SUBSET (Procs \X Flags)
  BY DEF TypeOK, End, PCs, Keys, Content, Images, NoImage

LEMMA EndTarget ==
  ASSUME TypeInv, NEW ps \in SUBSET Procs, End(ps)
  PROVE  TargetKnown'
  BY DEF TypeInv, TypeOK, TargetKnown, Target, End, Copying, Window

LEMMA StartType ==
  ASSUME TypeInv, NEW p \in Procs, Start(p)
  PROVE  TypeInv'
<1>1. pc' \in [Procs -> PCs]
  BY DEF Start, PCs, TypeInv, TypeOK
<1>2. todo' \in [Procs -> SUBSET Keys]
  BY OptionType DEF Start, TypeInv, TypeOK
<1>3. image' \in [Procs -> Images]
  BY OptionType DEF Start, TypeInv, TypeOK
<1>4. flags' \in SUBSET (Procs \X Flags)
  BY OptionType DEF Start, Flags, TypeInv, TypeOK
<1>5. starts' \in Nat
  BY DEF Start, TypeInv, TypeOK
<1>6. UNCHANGED <<current, previous, currentTmp, present, damaged, old, orphans, dirty, mount,
                lock, key, temp, lost, interrupted, faults>>
  BY DEF Start, store
<1>7. TargetKnown'
  BY DEF Start, TargetKnown, Target, Copying, Window, TypeInv, TypeOK
<1> QED
  BY <1>1, <1>2, <1>3, <1>4, <1>5, <1>6, <1>7 DEF TypeInv, TypeOK

LEMMA NextComponentType ==
  ASSUME TypeInv, NEW p \in Procs, NextComponent(p)
  PROVE  TypeInv'
<1>1. pc' \in [Procs -> PCs]
  BY DEF NextComponent, Goto, PCs, TypeInv, TypeOK
<1>2. key' \in [Procs -> Keys]
  BY DEF NextComponent, Goto, FirstOf, Keys, TypeInv, TypeOK
<1>3. todo' \in [Procs -> SUBSET Keys]
  BY DEF NextComponent, Goto, TypeInv, TypeOK
<1>4. flags' \in SUBSET (Procs \X Flags)
  BY DEF NextComponent, Goto, Flags, TypeInv, TypeOK
<1>5. UNCHANGED <<current, previous, currentTmp, present, damaged, old, orphans, dirty, mount,
                lock, image, temp, lost, interrupted, faults, starts>>
  BY DEF NextComponent, Goto, store
<1>6. TargetKnown'
  BY DEF NextComponent, Goto, TargetKnown, Target, Copying, Window, TypeInv, TypeOK
<1> QED
  BY <1>1, <1>2, <1>3, <1>4, <1>5, <1>6 DEF TypeInv, TypeOK

LEMMA SyncType ==
  ASSUME TypeInv, NEW p \in Procs, Sync(p)
  PROVE  TypeInv'
<1>1. pc' \in [Procs -> PCs]
  BY DEF Sync, Goto, PCs, TypeInv, TypeOK
<1>2. dirty' \in SUBSET Pairs
  BY DEF Sync, Goto, TypeInv, TypeOK
<1>3. UNCHANGED <<current, previous, currentTmp, present, damaged, old, orphans, mount, lock,
                key, todo, image, temp, flags, lost, interrupted, faults, starts>>
  BY DEF Sync, Goto, store
<1>4. TargetKnown'
  BY DEF Sync, Goto, TargetKnown, Target, Copying, Window, TypeInv, TypeOK
<1> QED
  BY <1>1, <1>2, <1>3, <1>4 DEF TypeInv, TypeOK

LEMMA StatVersionsType ==
  ASSUME TypeInv, NEW p \in Procs, StatVersions(p)
  PROVE  TypeInv'
<1>1. pc' \in [Procs -> PCs]
  BY DEF StatVersions, Goto, PCs, TypeInv, TypeOK
<1>2. UNCHANGED <<current, previous, currentTmp, present, damaged, old, orphans, dirty, mount,
                lock, key, todo, image, temp, flags, lost, interrupted, faults, starts>>
  BY DEF StatVersions, Goto, store
<1>3. TargetKnown'
  <2> SUFFICES ASSUME NEW q \in Procs, pc'[q] \in Copying
               PROVE  Target(q)' \in Versions
    BY DEF TargetKnown
  <2>1. Target(q)' = Target(q) /\ Target(q) \in Versions \cup {None}
    BY <1>2 DEF Target, TypeInv, TypeOK, Images
  <2>2. CASE q = p
    BY <2>1, <2>2 DEF StatVersions, Goto, Copying, Window, TypeInv, TypeOK
  <2>3. CASE q # p
    BY <2>1, <2>3 DEF StatVersions, Goto, TargetKnown, TypeInv, TypeOK
  <2> QED BY <2>2, <2>3
<1> QED
  BY <1>1, <1>2, <1>3 DEF TypeInv, TypeOK

LEMMA RemountType ==
  ASSUME TypeInv, NEW p \in Procs, Remount(p)
  PROVE  TypeInv'
<1>1. pc' \in [Procs -> PCs]
  BY DEF Remount, Goto, PCs, TypeInv, TypeOK
<1>2. mount' \in {"ro", "rw"}
  BY DEF Remount, Goto, TypeInv, TypeOK
<1>3. faults' \in Nat
  BY DEF Remount, Goto, Fault, TypeInv, TypeOK
<1>4. UNCHANGED <<current, previous, currentTmp, present, damaged, old, orphans, dirty, lock,
                key, todo, image, temp, flags, lost, interrupted, starts>>
  BY DEF Remount, Goto, store
<1>5. TargetKnown'
  BY DEF Remount, Goto, TargetKnown, Target, Copying, Window, TypeInv, TypeOK
<1> QED
  BY <1>1, <1>2, <1>3, <1>4, <1>5 DEF TypeInv, TypeOK

LEMMA LinkTempType ==
  ASSUME TypeInv, NEW p \in Procs, LinkTemp(p)
  PROVE  TypeInv'
<1>0. Target(p) \in Versions /\ <<key[p], Target(p)>> \in Pairs
  BY TargetPair DEF LinkTemp, Copying, Window
<1>1. pc' \in [Procs -> PCs]
  BY DEF LinkTemp, Goto, PCs, TypeInv, TypeOK
<1>2. currentTmp' \in [Keys -> Versions \cup {None}]
  BY <1>0 DEF LinkTemp, Goto, TypeInv, TypeOK
<1>3. faults' \in Nat
  BY DEF LinkTemp, Goto, Fault, TypeInv, TypeOK
<1>4. UNCHANGED <<current, previous, present, damaged, old, orphans, dirty, mount, lock,
                key, todo, image, temp, flags, lost, interrupted, starts>>
  BY DEF LinkTemp, Goto, store
<1>5. TargetKnown'
  BY DEF LinkTemp, Goto, TargetKnown, Target, Copying, Window, TypeInv, TypeOK
<1> QED
  BY <1>1, <1>2, <1>3, <1>4, <1>5 DEF TypeInv, TypeOK

LEMMA MkdirTempType ==
  ASSUME TypeInv, NEW p \in Procs, MkdirTemp(p)
  PROVE  TypeInv'
<1>1. pc' \in [Procs -> PCs]
  BY DEF MkdirTemp, Goto, PCs, TypeInv, TypeOK
<1>2. temp' \in [Procs -> Content]
  BY DEF MkdirTemp, Goto, Content, TypeInv, TypeOK
<1>3. faults' \in Nat
  BY DEF MkdirTemp, Goto, Fault, TypeInv, TypeOK
<1>4. UNCHANGED <<current, previous, currentTmp, present, damaged, old, orphans, dirty, mount,
                lock, key, todo, image, flags, lost, interrupted, starts>>
  BY DEF MkdirTemp, Goto, store
<1>5. TargetKnown'
  BY DEF MkdirTemp, Goto, TargetKnown, Target, Copying, Window, TypeInv, TypeOK
<1> QED
  BY <1>1, <1>2, <1>3, <1>4, <1>5 DEF TypeInv, TypeOK

LEMMA CopyToTempType ==
  ASSUME TypeInv, NEW p \in Procs, CopyToTemp(p)
  PROVE  TypeInv'
<1>1. pc' \in [Procs -> PCs]
  BY DEF CopyToTemp, Goto, PCs, TypeInv, TypeOK
<1>2. temp' \in [Procs -> Content]
  BY DEF CopyToTemp, Goto, Content, TypeInv, TypeOK
<1>3. faults' \in Nat
  BY DEF CopyToTemp, Goto, Fault, TypeInv, TypeOK
<1>4. UNCHANGED <<current, previous, currentTmp, present, damaged, old, orphans, dirty, mount,
                lock, key, todo, image, flags, lost, interrupted, starts>>
  BY DEF CopyToTemp, Goto, store
<1>5. TargetKnown'
  BY DEF CopyToTemp, Goto, TargetKnown, Target, Copying, Window, TypeInv, TypeOK
<1> QED
  BY <1>1, <1>2, <1>3, <1>4, <1>5 DEF TypeInv, TypeOK

LEMMA MoveAsideType ==
  ASSUME TypeInv, NEW p \in Procs, MoveAside(p)
  PROVE  TypeInv'
<1>0. Target(p) \in Versions /\ <<key[p], Target(p)>> \in Pairs
  BY TargetPair DEF MoveAside, Copying, Window
<1>1. pc' \in [Procs -> PCs]
  BY DEF MoveAside, Goto, PCs, TypeInv, TypeOK
<1>2. flags' \in SUBSET (Procs \X Flags)
  BY DEF MoveAside, Goto, Flags, TypeInv, TypeOK
<1>3. present' \in SUBSET Pairs
  BY <1>0 DEF MoveAside, Goto, TypeInv, TypeOK
<1>4. old' \in SUBSET Pairs
  BY <1>0 DEF MoveAside, Goto, TypeInv, TypeOK
<1>5. faults' \in Nat
  BY DEF MoveAside, Goto, Fault, TypeInv, TypeOK
<1>6. UNCHANGED <<current, previous, currentTmp, damaged, orphans, dirty, mount, lock, key,
                todo, image, temp, lost, interrupted, starts>>
  BY DEF MoveAside, Goto, store
<1>7. TargetKnown'
  BY DEF MoveAside, Goto, TargetKnown, Target, Copying, Window, TypeInv, TypeOK
<1> QED
  BY <1>1, <1>2, <1>3, <1>4, <1>5, <1>6, <1>7 DEF TypeInv, TypeOK

LEMMA PlaceType ==
  ASSUME TypeInv, NEW p \in Procs, Place(p)
  PROVE  TypeInv'
<1>0. Target(p) \in Versions /\ <<key[p], Target(p)>> \in Pairs
  BY TargetPair DEF Place, Copying, Window
<1>1. pc' \in [Procs -> PCs]
  BY DEF Place, Goto, Unwind, PCs, TypeInv, TypeOK
<1>2. temp' \in [Procs -> Content]
  BY DEF Place, Goto, Content, TypeInv, TypeOK
<1>3. present' \in SUBSET Pairs
  BY <1>0 DEF Place, Goto, TypeInv, TypeOK
<1>4. damaged' \in SUBSET Pairs
  BY <1>0 DEF Place, Goto, TypeInv, TypeOK
<1>5. dirty' \in SUBSET Pairs
  BY <1>0 DEF Place, Goto, TypeInv, TypeOK
<1>6. lost' \in SUBSET Pairs
  BY <1>0 DEF Place, Goto, TypeInv, TypeOK
<1>7. faults' \in Nat
  BY DEF Place, Goto, Fault, TypeInv, TypeOK
<1>8. UNCHANGED <<current, previous, currentTmp, old, orphans, mount, lock, key, todo,
                image, flags, interrupted, starts>>
  BY DEF Place, Goto, store
<1>9. TargetKnown'
  BY DEF Place, Goto, Unwind, TargetKnown, Target, Copying, Window, TypeInv, TypeOK
<1> QED
  BY <1>1, <1>2, <1>3, <1>4, <1>5, <1>6, <1>7, <1>8, <1>9 DEF TypeInv, TypeOK

LEMMA DropPreviousType ==
  ASSUME TypeInv, NEW p \in Procs, DropPrevious(p)
  PROVE  TypeInv'
<1>1. pc' \in [Procs -> PCs]
  BY DEF DropPrevious, Goto, PCs, TypeInv, TypeOK
<1>2. previous' \in [Keys -> Versions \cup {None}]
  BY DEF DropPrevious, Goto, TypeInv, TypeOK
<1>3. faults' \in Nat
  BY DEF DropPrevious, Goto, Fault, TypeInv, TypeOK
<1>4. UNCHANGED <<current, currentTmp, present, damaged, old, orphans, dirty, mount, lock,
                key, todo, image, temp, flags, lost, interrupted, starts>>
  BY DEF DropPrevious, Goto, store
<1>5. TargetKnown'
  BY DEF DropPrevious, Goto, TargetKnown, Target, Copying, Window, TypeInv, TypeOK
<1> QED
  BY <1>1, <1>2, <1>3, <1>4, <1>5 DEF TypeInv, TypeOK

LEMMA RecordPreviousType ==
  ASSUME TypeInv, NEW p \in Procs, RecordPrevious(p)
  PROVE  TypeInv'
<1>1. pc' \in [Procs -> PCs]
  BY DEF RecordPrevious, Goto, PCs, TypeInv, TypeOK
<1>2. flags' \in SUBSET (Procs \X Flags)
  BY DEF RecordPrevious, Goto, Flags, TypeInv, TypeOK
<1>3. previous' \in [Keys -> Versions \cup {None}]
  BY DEF RecordPrevious, Goto, TypeInv, TypeOK
<1>4. faults' \in Nat
  BY DEF RecordPrevious, Goto, Fault, TypeInv, TypeOK
<1>5. UNCHANGED <<current, currentTmp, present, damaged, old, orphans, dirty, mount, lock,
                key, todo, image, temp, lost, interrupted, starts>>
  BY DEF RecordPrevious, Goto, store
<1>6. TargetKnown'
  BY DEF RecordPrevious, Goto, TargetKnown, Target, Copying, Window, TypeInv, TypeOK
<1> QED
  BY <1>1, <1>2, <1>3, <1>4, <1>5, <1>6 DEF TypeInv, TypeOK

LEMMA CommitType ==
  ASSUME TypeInv, NEW p \in Procs, Commit(p)
  PROVE  TypeInv'
<1>1. pc' \in [Procs -> PCs]
  BY DEF Commit, Goto, Unwind, PCs, TypeInv, TypeOK
<1>2. flags' \in SUBSET (Procs \X Flags)
  BY DEF Commit, Goto, Flags, TypeInv, TypeOK
<1>3. current' \in [Keys -> Versions \cup {None}]
  BY DEF Commit, Goto, TypeInv, TypeOK
<1>4. currentTmp' \in [Keys -> Versions \cup {None}]
  BY DEF Commit, Goto, TypeInv, TypeOK
<1>5. faults' \in Nat
  BY DEF Commit, Goto, Fault, TypeInv, TypeOK
<1>6. UNCHANGED <<previous, present, damaged, old, orphans, dirty, mount, lock, key,
                todo, image, temp, lost, interrupted, starts>>
  BY DEF Commit, Goto, store
<1>7. TargetKnown'
  BY DEF Commit, Goto, Unwind, TargetKnown, Target, Copying, Window, TypeInv, TypeOK
<1> QED
  BY <1>1, <1>2, <1>3, <1>4, <1>5, <1>6, <1>7 DEF TypeInv, TypeOK

LEMMA RestoreOldType ==
  ASSUME TypeInv, NEW p \in Procs, RestoreOld(p)
  PROVE  TypeInv'
<1>0. Target(p) \in Versions /\ <<key[p], Target(p)>> \in Pairs
  BY TargetPair DEF RestoreOld, Copying, Window
<1>1. pc' \in [Procs -> PCs]
  BY DEF RestoreOld, Goto, PCs, TypeInv, TypeOK
<1>2. present' \in SUBSET Pairs
  BY <1>0 DEF RestoreOld, Goto, TypeInv, TypeOK
<1>3. old' \in SUBSET Pairs
  BY <1>0 DEF RestoreOld, Goto, TypeInv, TypeOK
<1>4. interrupted' \in SUBSET Keys
  BY DEF RestoreOld, Goto, TypeInv, TypeOK
<1>5. faults' \in Nat
  BY DEF RestoreOld, Goto, Fault, TypeInv, TypeOK
<1>6. UNCHANGED <<current, previous, currentTmp, damaged, orphans, dirty, mount, lock, key,
                todo, image, temp, flags, lost, starts>>
  BY DEF RestoreOld, Goto, store
<1>7. TargetKnown'
  BY DEF RestoreOld, Goto, TargetKnown, Target, Copying, Window, TypeInv, TypeOK
<1> QED
  BY <1>1, <1>2, <1>3, <1>4, <1>5, <1>6, <1>7 DEF TypeInv, TypeOK

LEMMA RemoveTempType ==
  ASSUME TypeInv, NEW p \in Procs, RemoveTemp(p)
  PROVE  TypeInv'
<1>1. pc' \in [Procs -> PCs]
  BY DEF RemoveTemp, PCs, TypeInv, TypeOK
<1>2. temp' \in [Procs -> Content]
  BY DEF RemoveTemp, Content, TypeInv, TypeOK
<1>3. orphans' \in SUBSET Keys
  BY DEF RemoveTemp, TypeInv, TypeOK
<1>4. interrupted' \in SUBSET Keys
  BY DEF RemoveTemp, TypeInv, TypeOK
<1>5. faults' \in Nat
  BY DEF RemoveTemp, Fault, TypeInv, TypeOK
<1>6. UNCHANGED <<current, previous, currentTmp, present, damaged, old, dirty, mount, lock,
                key, todo, image, flags, lost, starts>>
  BY DEF RemoveTemp, store
<1>7. TargetKnown'
  BY DEF RemoveTemp, TargetKnown, Target, Copying, Window, TypeInv, TypeOK
<1> QED
  BY <1>1, <1>2, <1>3, <1>4, <1>5, <1>6, <1>7 DEF TypeInv, TypeOK

LEMMA RemoveLinkTempType ==
  ASSUME TypeInv, NEW p \in Procs, RemoveLinkTemp(p)
  PROVE  TypeInv'
<1>1. pc' \in [Procs -> PCs]
  BY DEF RemoveLinkTemp, Return, PCs, TypeInv, TypeOK
<1>2. flags' \in SUBSET (Procs \X Flags)
  BY DEF RemoveLinkTemp, Return, Flags, TypeInv, TypeOK
<1>3. currentTmp' \in [Keys -> Versions \cup {None}]
  BY DEF RemoveLinkTemp, Return, TypeInv, TypeOK
<1>4. interrupted' \in SUBSET Keys
  BY DEF RemoveLinkTemp, Return, TypeInv, TypeOK
<1>5. faults' \in Nat
  BY DEF RemoveLinkTemp, Return, Fault, TypeInv, TypeOK
<1>6. UNCHANGED <<current, previous, present, damaged, old, orphans, dirty, mount, lock,
                key, todo, image, temp, lost, starts>>
  BY DEF RemoveLinkTemp, Return, store
<1>7. TargetKnown'
  BY DEF RemoveLinkTemp, Return, TargetKnown, Target, Copying, Window, TypeInv, TypeOK
<1> QED
  BY <1>1, <1>2, <1>3, <1>4, <1>5, <1>6, <1>7 DEF TypeInv, TypeOK

LEMMA FlockType ==
  ASSUME TypeInv, NEW p \in Procs, Flock(p)
  PROVE  TypeInv'
<1>1. CASE lock = None
  BY <1>1 DEF Flock, Goto, store, PCs, TypeInv, TypeOK, TargetKnown, Target, Copying, Window
<1>2. CASE lock # None
  BY <1>2, EndType, EndTarget DEF Flock, store, TypeInv, TypeOK
<1> QED BY <1>1, <1>2

LEMMA RebootType ==
  ASSUME TypeInv, NEW p \in Procs, Reboot(p)
  PROVE  TypeInv'
<1>1. CASE End(Procs)
  BY <1>1, EndType, EndTarget DEF Reboot, Fault, Goto, TypeInv, TypeOK
<1>2. CASE Goto(p, "unlock")
  BY <1>2 DEF Reboot, Fault, Goto, PCs, TypeInv, TypeOK, TargetKnown, Target, Copying, Window
<1> QED BY <1>1, <1>2 DEF Reboot

LEMMA UnlockType ==
  ASSUME TypeInv, NEW p \in Procs, Unlock(p)
  PROVE  TypeInv'
  BY EndType, EndTarget DEF Unlock, store, TypeInv, TypeOK

LEMMA KillType ==
  ASSUME TypeInv, NEW p \in Procs, Kill(p)
  PROVE  TypeInv'
  BY EndType, EndTarget DEF Kill, Fault, TypeInv, TypeOK

LEMMA PowerLossType ==
  ASSUME TypeInv, PowerLoss
  PROVE  TypeInv'
  BY EndType, EndTarget DEF PowerLoss, Fault, TypeInv, TypeOK

LEMMA TypeInvStep == TypeInv /\ [Next]_vars => TypeInv'
<1> SUFFICES ASSUME TypeInv, [Next]_vars
             PROVE  TypeInv'
  OBVIOUS
<1>1. CASE UNCHANGED vars
  BY <1>1 DEF vars, store, local, TypeInv, TypeOK, TargetKnown, Target
<1>2. CASE PowerLoss
  BY <1>2, PowerLossType
<1>3. ASSUME NEW p \in Procs, RunStep(p) PROVE TypeInv'
  BY <1>3, StartType, FlockType, NextComponentType, SyncType, RebootType, UnlockType
     DEF RunStep
<1>4. ASSUME NEW p \in Procs, CopyComponent(p) PROVE TypeInv'
  BY <1>4, StatVersionsType, RemountType, LinkTempType, MkdirTempType, CopyToTempType,
     MoveAsideType, PlaceType, DropPreviousType, RecordPreviousType, CommitType,
     RestoreOldType, RemoveTempType, RemoveLinkTempType DEF CopyComponent
<1>5. ASSUME NEW p \in Procs, Kill(p) PROVE TypeInv'
  BY <1>5, KillType
<1> QED
  BY <1>1, <1>2, <1>3, <1>4, <1>5 DEF Next

\* Every variable keeps its type through upgrades, failures and restarts
\* (upgrade.go:127-205, component.go:50-131).
THEOREM TypeCorrect == Spec => []TypeOK
<1>1. Init => TypeInv
  BY ConstantsAssumption DEF Init, TypeInv, TypeOK, TargetKnown, Copying, Window, Content,
     PCs, Keys, Pairs, Images, NoImage
<1>2. TypeInv => TypeOK
  BY DEF TypeInv
<1> QED
  BY <1>1, <1>2, TypeInvStep, PTL DEF Spec

-----------------------------------------------------------------------------
(* The safety invariant.  CopyInv says what a copy relies on at each call: *)
(* it holds the lock; until the switch its target is not current; from     *)
(* MkdirTemp on current.tmp names the target; the directory it renames is  *)
(* complete, and so is the target once it is in place.                     *)

CopyInv(p) ==
    LET k == key[p]
        v == Target(p)
    IN
    /\ pc[p] \notin {"idle", "flock"} => lock = p
    /\ pc[p] \in {"remount", "link", "mktemp", "copy", "aside", "place", "drop",
                  "record", "commit"} => current[k] # v
    /\ pc[p] \in {"mktemp", "copy", "aside", "place", "drop", "record", "commit"} =>
           currentTmp[k] = v
    /\ pc[p] \in {"aside", "place"} => temp[p] = "full"
    /\ pc[p] \in {"drop", "record", "commit"} => <<k, v>> \in present \ damaged
    /\ pc[p] = "commit" => previous[k] = current[k] \/ <<p, "logged">> \in flags
    /\ temp[p] # "none" => pc[p] \in {"copy", "aside", "place", "restore", "untemp"}

StoreInv ==
    /\ CurrentComplete
    /\ LitterOnlyAfterInterruption
    /\ orphans \subseteq interrupted

IInv == TypeInv /\ StoreInv /\ \A p \in Procs : CopyInv(p)

\* A process that is not past the lock has nothing to rely on.
LEMMA CopyInvOutside ==
  ASSUME NEW q \in Procs, pc[q] \in {"idle", "flock"}, temp[q] = "none"
  PROVE  CopyInv(q)
  BY DEF CopyInv

\* While p is past the lock, a step of p leaves the others as they are.
LEMMA OthersKept ==
  ASSUME IInv, NEW p \in Procs, pc[p] \notin {"idle", "flock"},
         \A q \in Procs \ {p} : pc'[q] = pc[q] /\ temp'[q] = temp[q],
         CopyInv(p)'
  PROVE  \A q \in Procs : CopyInv(q)'
<1> SUFFICES ASSUME NEW q \in Procs, q # p
             PROVE  CopyInv(q)'
  OBVIOUS
<1>1. pc[q] \in {"idle", "flock"} /\ temp[q] = "none"
  BY ConstantsAssumption DEF IInv, TypeInv, TypeOK, CopyInv
<1>2. pc'[q] \in {"idle", "flock"} /\ temp'[q] = "none"
  BY <1>1
<1> QED
  BY <1>2 DEF CopyInv

LEMMA StatVersionsSafe ==
  ASSUME IInv, NEW p \in Procs, StatVersions(p)
  PROVE  IInv'
<1>1. TypeInv'
  BY StatVersionsType DEF IInv
<1>2. /\ key[p] \in Keys /\ pc[p] \in Copying \cup {"stat"}
      /\ pc[p] \in Copying => Target(p) \in Versions
  BY DEF StatVersions, Copying, Window, IInv, TypeInv, TypeOK, TargetKnown
<1>3. CopyInv(p)'
  <2>1. pc'[p] \in {"remount", "link"} => current[key[p]] # Target(p)
    BY <1>2 DEF StatVersions, Goto, Resolves, CurrentComplete, StoreInv, IInv, TypeInv,
       TypeOK
  <2> QED
    BY <1>2, <2>1 DEF StatVersions, Goto, store, Target, CopyInv, IInv, TypeInv, TypeOK
<1>4. CurrentComplete'
  BY <1>2, ConstantsAssumption
     DEF StatVersions, Goto, store, CurrentComplete, StoreInv, CopyInv, Copying, Window,
         IInv, TypeInv, TypeOK
<1>5. LitterOnlyAfterInterruption' /\ (orphans \subseteq interrupted)'
  BY <1>2
     DEF StatVersions, Goto, store, LitterOnlyAfterInterruption, StoreInv, Window,
         Copying, IInv, TypeInv, TypeOK
<1>6. \A q \in Procs : CopyInv(q)'
  BY <1>3, OthersKept DEF StatVersions, Goto, IInv, TypeInv, TypeOK
<1> QED
  BY <1>1, <1>4, <1>5, <1>6 DEF IInv, StoreInv

LEMMA RemountSafe ==
  ASSUME IInv, NEW p \in Procs, Remount(p)
  PROVE  IInv'
<1>1. TypeInv'
  BY RemountType DEF IInv
<1>2. /\ key[p] \in Keys /\ pc[p] \in Copying \cup {"stat"}
      /\ pc[p] \in Copying => Target(p) \in Versions
  BY DEF Remount, Copying, Window, IInv, TypeInv, TypeOK, TargetKnown
<1>3. CopyInv(p)'
  BY <1>2, ConstantsAssumption
     DEF Remount, Goto, Target, CopyInv, Copying, Window, IInv, TypeInv, TypeOK
<1>4. CurrentComplete'
  BY <1>2, ConstantsAssumption
     DEF Remount, Goto, CurrentComplete, StoreInv, CopyInv, Copying, Window, IInv,
         TypeInv, TypeOK
<1>5. LitterOnlyAfterInterruption' /\ (orphans \subseteq interrupted)'
  BY <1>2
     DEF Remount, Goto, LitterOnlyAfterInterruption, StoreInv, Window, Copying, IInv,
         TypeInv, TypeOK
<1>6. \A q \in Procs : CopyInv(q)'
  BY <1>3, OthersKept DEF Remount, Goto, IInv, TypeInv, TypeOK
<1> QED
  BY <1>1, <1>4, <1>5, <1>6 DEF IInv, StoreInv

LEMMA LinkTempSafe ==
  ASSUME IInv, NEW p \in Procs, LinkTemp(p)
  PROVE  IInv'
<1>1. TypeInv'
  BY LinkTempType DEF IInv
<1>2. /\ key[p] \in Keys /\ pc[p] \in Copying \cup {"stat"}
      /\ pc[p] \in Copying => Target(p) \in Versions
  BY DEF LinkTemp, Copying, Window, IInv, TypeInv, TypeOK, TargetKnown
<1>3. CopyInv(p)'
  BY <1>2, ConstantsAssumption
     DEF LinkTemp, Goto, Target, CopyInv, Copying, Window, IInv, TypeInv, TypeOK
<1>4. CurrentComplete'
  BY <1>2, ConstantsAssumption
     DEF LinkTemp, Goto, CurrentComplete, StoreInv, CopyInv, Copying, Window, IInv,
         TypeInv, TypeOK
<1>5. LitterOnlyAfterInterruption' /\ (orphans \subseteq interrupted)'
  BY <1>2
     DEF LinkTemp, Goto, LitterOnlyAfterInterruption, StoreInv, Window, Copying, IInv,
         TypeInv, TypeOK
<1>6. \A q \in Procs : CopyInv(q)'
  BY <1>3, OthersKept DEF LinkTemp, Goto, IInv, TypeInv, TypeOK
<1> QED
  BY <1>1, <1>4, <1>5, <1>6 DEF IInv, StoreInv

LEMMA MkdirTempSafe ==
  ASSUME IInv, NEW p \in Procs, MkdirTemp(p)
  PROVE  IInv'
<1>1. TypeInv'
  BY MkdirTempType DEF IInv
<1>2. /\ key[p] \in Keys /\ pc[p] \in Copying \cup {"stat"}
      /\ pc[p] \in Copying => Target(p) \in Versions
  BY DEF MkdirTemp, Copying, Window, IInv, TypeInv, TypeOK, TargetKnown
<1>3. CopyInv(p)'
  BY <1>2, ConstantsAssumption
     DEF MkdirTemp, Goto, store, Target, CopyInv, Copying, Window, IInv, TypeInv, TypeOK
<1>4. CurrentComplete'
  BY <1>2, ConstantsAssumption
     DEF MkdirTemp, Goto, store, CurrentComplete, StoreInv, CopyInv, Copying, Window,
         IInv, TypeInv, TypeOK
<1>5. LitterOnlyAfterInterruption' /\ (orphans \subseteq interrupted)'
  BY <1>2
     DEF MkdirTemp, Goto, store, LitterOnlyAfterInterruption, StoreInv, Window, Copying,
         IInv, TypeInv, TypeOK
<1>6. \A q \in Procs : CopyInv(q)'
  BY <1>3, OthersKept DEF MkdirTemp, Goto, IInv, TypeInv, TypeOK
<1> QED
  BY <1>1, <1>4, <1>5, <1>6 DEF IInv, StoreInv

LEMMA CopyToTempSafe ==
  ASSUME IInv, NEW p \in Procs, CopyToTemp(p)
  PROVE  IInv'
<1>1. TypeInv'
  BY CopyToTempType DEF IInv
<1>2. /\ key[p] \in Keys /\ pc[p] \in Copying \cup {"stat"}
      /\ pc[p] \in Copying => Target(p) \in Versions
  BY DEF CopyToTemp, Copying, Window, IInv, TypeInv, TypeOK, TargetKnown
<1>3. CopyInv(p)'
  BY <1>2, ConstantsAssumption
     DEF CopyToTemp, Goto, store, Target, CopyInv, Copying, Window, IInv, TypeInv, TypeOK
<1>4. CurrentComplete'
  BY <1>2, ConstantsAssumption
     DEF CopyToTemp, Goto, store, CurrentComplete, StoreInv, CopyInv, Copying, Window,
         IInv, TypeInv, TypeOK
<1>5. LitterOnlyAfterInterruption' /\ (orphans \subseteq interrupted)'
  BY <1>2
     DEF CopyToTemp, Goto, store, LitterOnlyAfterInterruption, StoreInv, Window, Copying,
         IInv, TypeInv, TypeOK
<1>6. \A q \in Procs : CopyInv(q)'
  BY <1>3, OthersKept DEF CopyToTemp, Goto, IInv, TypeInv, TypeOK
<1> QED
  BY <1>1, <1>4, <1>5, <1>6 DEF IInv, StoreInv

LEMMA MoveAsideSafe ==
  ASSUME IInv, NEW p \in Procs, MoveAside(p)
  PROVE  IInv'
<1>1. TypeInv'
  BY MoveAsideType DEF IInv
<1>2. /\ key[p] \in Keys /\ pc[p] \in Copying \cup {"stat"}
      /\ pc[p] \in Copying => Target(p) \in Versions
  BY DEF MoveAside, Copying, Window, IInv, TypeInv, TypeOK, TargetKnown
<1>3. CopyInv(p)'
  BY <1>2, ConstantsAssumption
     DEF MoveAside, Goto, Target, CopyInv, Copying, Window, IInv, TypeInv, TypeOK
<1>4. CurrentComplete'
  BY <1>2, ConstantsAssumption
     DEF MoveAside, Goto, CurrentComplete, StoreInv, CopyInv, Copying, Window, IInv,
         TypeInv, TypeOK
<1>5. LitterOnlyAfterInterruption' /\ (orphans \subseteq interrupted)'
  BY <1>2
     DEF MoveAside, Goto, LitterOnlyAfterInterruption, StoreInv, Window, Copying, IInv,
         TypeInv, TypeOK
<1>6. \A q \in Procs : CopyInv(q)'
  BY <1>3, OthersKept DEF MoveAside, Goto, IInv, TypeInv, TypeOK
<1> QED
  BY <1>1, <1>4, <1>5, <1>6 DEF IInv, StoreInv

LEMMA PlaceSafe ==
  ASSUME IInv, NEW p \in Procs, Place(p)
  PROVE  IInv'
<1>1. TypeInv'
  BY PlaceType DEF IInv
<1>2. /\ key[p] \in Keys /\ pc[p] \in Copying \cup {"stat"}
      /\ pc[p] \in Copying => Target(p) \in Versions
  BY DEF Place, Copying, Window, IInv, TypeInv, TypeOK, TargetKnown
<1>3. CopyInv(p)'
  BY <1>2, ConstantsAssumption
     DEF Place, Goto, Unwind, Target, CopyInv, Copying, Window, IInv, TypeInv, TypeOK
<1>4. CurrentComplete'
  BY <1>2, ConstantsAssumption
     DEF Place, Goto, CurrentComplete, StoreInv, CopyInv, Copying, Window, IInv, TypeInv,
         TypeOK
<1>5. LitterOnlyAfterInterruption' /\ (orphans \subseteq interrupted)'
  BY <1>2
     DEF Place, Goto, Unwind, LitterOnlyAfterInterruption, StoreInv, Window, Copying,
         IInv, TypeInv, TypeOK
<1>6. \A q \in Procs : CopyInv(q)'
  BY <1>3, OthersKept DEF Place, Goto, IInv, TypeInv, TypeOK
<1> QED
  BY <1>1, <1>4, <1>5, <1>6 DEF IInv, StoreInv

LEMMA DropPreviousSafe ==
  ASSUME IInv, NEW p \in Procs, DropPrevious(p)
  PROVE  IInv'
<1>1. TypeInv'
  BY DropPreviousType DEF IInv
<1>2. /\ key[p] \in Keys /\ pc[p] \in Copying \cup {"stat"}
      /\ pc[p] \in Copying => Target(p) \in Versions
  BY DEF DropPrevious, Copying, Window, IInv, TypeInv, TypeOK, TargetKnown
<1>3. CopyInv(p)'
  BY <1>2, ConstantsAssumption
     DEF DropPrevious, Goto, Target, CopyInv, Copying, Window, IInv, TypeInv, TypeOK
<1>4. CurrentComplete'
  BY <1>2, ConstantsAssumption
     DEF DropPrevious, Goto, CurrentComplete, StoreInv, CopyInv, Copying, Window, IInv,
         TypeInv, TypeOK
<1>5. LitterOnlyAfterInterruption' /\ (orphans \subseteq interrupted)'
  BY <1>2
     DEF DropPrevious, Goto, LitterOnlyAfterInterruption, StoreInv, Window, Copying, IInv,
         TypeInv, TypeOK
<1>6. \A q \in Procs : CopyInv(q)'
  BY <1>3, OthersKept DEF DropPrevious, Goto, IInv, TypeInv, TypeOK
<1> QED
  BY <1>1, <1>4, <1>5, <1>6 DEF IInv, StoreInv

LEMMA RecordPreviousSafe ==
  ASSUME IInv, NEW p \in Procs, RecordPrevious(p)
  PROVE  IInv'
<1>1. TypeInv'
  BY RecordPreviousType DEF IInv
<1>2. /\ key[p] \in Keys /\ pc[p] \in Copying \cup {"stat"}
      /\ pc[p] \in Copying => Target(p) \in Versions
  BY DEF RecordPrevious, Copying, Window, IInv, TypeInv, TypeOK, TargetKnown
<1>3. CopyInv(p)'
  BY <1>2, ConstantsAssumption
     DEF RecordPrevious, Goto, Target, CopyInv, Copying, Window, IInv, TypeInv, TypeOK
<1>4. CurrentComplete'
  BY <1>2, ConstantsAssumption
     DEF RecordPrevious, Goto, CurrentComplete, StoreInv, CopyInv, Copying, Window, IInv,
         TypeInv, TypeOK
<1>5. LitterOnlyAfterInterruption' /\ (orphans \subseteq interrupted)'
  BY <1>2
     DEF RecordPrevious, Goto, LitterOnlyAfterInterruption, StoreInv, Window, Copying,
         IInv, TypeInv, TypeOK
<1>6. \A q \in Procs : CopyInv(q)'
  BY <1>3, OthersKept DEF RecordPrevious, Goto, IInv, TypeInv, TypeOK
<1> QED
  BY <1>1, <1>4, <1>5, <1>6 DEF IInv, StoreInv

LEMMA CommitSafe ==
  ASSUME IInv, NEW p \in Procs, Commit(p)
  PROVE  IInv'
<1>1. TypeInv'
  BY CommitType DEF IInv
<1>2. /\ key[p] \in Keys /\ pc[p] \in Copying \cup {"stat"}
      /\ pc[p] \in Copying => Target(p) \in Versions
  BY DEF Commit, Copying, Window, IInv, TypeInv, TypeOK, TargetKnown
<1>3. CopyInv(p)'
  BY <1>2, ConstantsAssumption
     DEF Commit, Goto, Unwind, Target, CopyInv, Copying, Window, IInv, TypeInv, TypeOK
<1>4. CurrentComplete'
  <2>1. currentTmp[key[p]] = Target(p) /\ <<key[p], Target(p)>> \in present \ damaged
    BY DEF Commit, CopyInv, IInv
  <2>2. CASE current' = [current EXCEPT ![key[p]] = currentTmp[key[p]]]
    BY <1>2, <2>1, <2>2 DEF Commit, CurrentComplete, StoreInv, IInv, TypeInv, TypeOK
  <2>3. CASE UNCHANGED current
    BY <2>3 DEF Commit, CurrentComplete, StoreInv, IInv
  <2> QED BY <2>2, <2>3 DEF Commit
<1>5. LitterOnlyAfterInterruption' /\ (orphans \subseteq interrupted)'
  BY <1>2
     DEF Commit, Goto, Unwind, LitterOnlyAfterInterruption, StoreInv, Window, Copying,
         IInv, TypeInv, TypeOK
<1>6. \A q \in Procs : CopyInv(q)'
  BY <1>3, OthersKept DEF Commit, Goto, IInv, TypeInv, TypeOK
<1> QED
  BY <1>1, <1>4, <1>5, <1>6 DEF IInv, StoreInv

LEMMA RestoreOldSafe ==
  ASSUME IInv, NEW p \in Procs, RestoreOld(p)
  PROVE  IInv'
<1>1. TypeInv'
  BY RestoreOldType DEF IInv
<1>2. /\ key[p] \in Keys /\ pc[p] \in Copying \cup {"stat"}
      /\ pc[p] \in Copying => Target(p) \in Versions
  BY DEF RestoreOld, Copying, Window, IInv, TypeInv, TypeOK, TargetKnown
<1>3. CopyInv(p)'
  BY <1>2, ConstantsAssumption
     DEF RestoreOld, Goto, Target, CopyInv, Copying, Window, IInv, TypeInv, TypeOK
<1>4. CurrentComplete'
  BY <1>2, ConstantsAssumption
     DEF RestoreOld, Goto, CurrentComplete, StoreInv, CopyInv, Copying, Window, IInv,
         TypeInv, TypeOK
<1>5. LitterOnlyAfterInterruption' /\ (orphans \subseteq interrupted)'
  BY <1>2
     DEF RestoreOld, Goto, LitterOnlyAfterInterruption, StoreInv, Window, Copying, IInv,
         TypeInv, TypeOK
<1>6. \A q \in Procs : CopyInv(q)'
  BY <1>3, OthersKept DEF RestoreOld, Goto, IInv, TypeInv, TypeOK
<1> QED
  BY <1>1, <1>4, <1>5, <1>6 DEF IInv, StoreInv

LEMMA RemoveTempSafe ==
  ASSUME IInv, NEW p \in Procs, RemoveTemp(p)
  PROVE  IInv'
<1>1. TypeInv'
  BY RemoveTempType DEF IInv
<1>2. /\ key[p] \in Keys /\ pc[p] \in Copying \cup {"stat"}
      /\ pc[p] \in Copying => Target(p) \in Versions
  BY DEF RemoveTemp, Copying, Window, IInv, TypeInv, TypeOK, TargetKnown
<1>3. CopyInv(p)'
  BY <1>2, ConstantsAssumption
     DEF RemoveTemp, Target, CopyInv, Copying, Window, IInv, TypeInv, TypeOK
<1>4. CurrentComplete'
  BY <1>2, ConstantsAssumption
     DEF RemoveTemp, CurrentComplete, StoreInv, CopyInv, Copying, Window, IInv, TypeInv,
         TypeOK
<1>5. LitterOnlyAfterInterruption' /\ (orphans \subseteq interrupted)'
  BY <1>2
     DEF RemoveTemp, LitterOnlyAfterInterruption, StoreInv, Window, Copying, IInv,
         TypeInv, TypeOK
<1>6. \A q \in Procs : CopyInv(q)'
  BY <1>3, OthersKept DEF RemoveTemp, IInv, TypeInv, TypeOK
<1> QED
  BY <1>1, <1>4, <1>5, <1>6 DEF IInv, StoreInv

LEMMA RemoveLinkTempSafe ==
  ASSUME IInv, NEW p \in Procs, RemoveLinkTemp(p)
  PROVE  IInv'
<1>1. TypeInv'
  BY RemoveLinkTempType DEF IInv
<1>2. /\ key[p] \in Keys /\ pc[p] \in Copying \cup {"stat"}
      /\ pc[p] \in Copying => Target(p) \in Versions
  BY DEF RemoveLinkTemp, Copying, Window, IInv, TypeInv, TypeOK, TargetKnown
<1>3. CopyInv(p)'
  BY <1>2, ConstantsAssumption
     DEF RemoveLinkTemp, Return, Target, CopyInv, Copying, Window, IInv, TypeInv, TypeOK
<1>4. CurrentComplete'
  BY <1>2, ConstantsAssumption
     DEF RemoveLinkTemp, Return, CurrentComplete, StoreInv, CopyInv, Copying, Window,
         IInv, TypeInv, TypeOK
<1>5. LitterOnlyAfterInterruption' /\ (orphans \subseteq interrupted)'
  BY <1>2
     DEF RemoveLinkTemp, Return, LitterOnlyAfterInterruption, StoreInv, Window, Copying,
         IInv, TypeInv, TypeOK
<1>6. \A q \in Procs : CopyInv(q)'
  BY <1>3, OthersKept DEF RemoveLinkTemp, Return, IInv, TypeInv, TypeOK
<1> QED
  BY <1>1, <1>4, <1>5, <1>6 DEF IInv, StoreInv

LEMMA NextComponentSafe ==
  ASSUME IInv, NEW p \in Procs, NextComponent(p)
  PROVE  IInv'
<1>1. TypeInv'
  BY NextComponentType DEF IInv
<1>2. CopyInv(p)'
  BY DEF NextComponent, Goto, store, CopyInv, IInv, TypeInv, TypeOK
<1>3. StoreInv'
  BY DEF NextComponent, Goto, store, StoreInv, CurrentComplete, LitterOnlyAfterInterruption, Window,
     IInv, TypeInv, TypeOK
<1>4. \A q \in Procs : CopyInv(q)'
  BY <1>2, OthersKept DEF NextComponent, Goto, IInv, TypeInv, TypeOK
<1> QED
  BY <1>1, <1>3, <1>4 DEF IInv

LEMMA SyncSafe ==
  ASSUME IInv, NEW p \in Procs, Sync(p)
  PROVE  IInv'
<1>1. TypeInv'
  BY SyncType DEF IInv
<1>2. CopyInv(p)'
  BY DEF Sync, Goto, CopyInv, IInv, TypeInv, TypeOK
<1>3. StoreInv'
  BY DEF Sync, Goto, StoreInv, CurrentComplete, LitterOnlyAfterInterruption, Window,
     IInv, TypeInv, TypeOK
<1>4. \A q \in Procs : CopyInv(q)'
  BY <1>2, OthersKept DEF Sync, Goto, IInv, TypeInv, TypeOK
<1> QED
  BY <1>1, <1>3, <1>4 DEF IInv

LEMMA StartSafe ==
  ASSUME IInv, NEW p \in Procs, Start(p)
  PROVE  IInv'
<1>1. TypeInv'
  BY StartType DEF IInv
<1>2. StoreInv'
  BY DEF Start, store, StoreInv, CurrentComplete, LitterOnlyAfterInterruption, Window,
     IInv, TypeInv, TypeOK
<1>3. ASSUME NEW q \in Procs PROVE CopyInv(q)'
  <2>1. CASE q = p
    BY <2>1 DEF Start, CopyInv, IInv, TypeInv, TypeOK
  <2>2. CASE q # p
    <3>1. PICK o \in Options : flags' = flags \cup {<<p, f>> : f \in o.switches}
      BY DEF Start
    <3>2. /\ pc'[q] = pc[q] /\ Target(q)' = Target(q)
          /\ <<q, "logged">> \in flags => <<q, "logged">> \in flags'
      BY <2>2, <3>1 DEF Start, Target, IInv, TypeInv, TypeOK
    <3> QED
      BY <3>2 DEF Start, store, CopyInv, IInv
  <2> QED BY <2>1, <2>2
<1> QED
  BY <1>1, <1>2, <1>3 DEF IInv

LEMMA FlockSafe ==
  ASSUME IInv, NEW p \in Procs, Flock(p)
  PROVE  IInv'
<1>1. TypeInv'
  BY FlockType DEF IInv
<1>2. StoreInv'
  BY DEF Flock, Goto, End, store, StoreInv, CurrentComplete, LitterOnlyAfterInterruption,
     Window, IInv, TypeInv, TypeOK
<1>3. ASSUME NEW q \in Procs PROVE CopyInv(q)'
  <2>1. CASE lock = None
    <3>1. pc[q] \in {"idle", "flock"} /\ temp[q] = "none"
      BY <2>1, ConstantsAssumption DEF CopyInv, IInv, TypeInv, TypeOK
    <3> QED
      BY <2>1, <3>1 DEF Flock, Goto, CopyInv, IInv, TypeInv, TypeOK
  <2>2. CASE lock # None
    <3>1. CASE q = p
      BY <2>2, <3>1 DEF Flock, End, CopyInv, IInv, TypeInv, TypeOK
    <3>2. CASE q # p
      <4>1. /\ pc'[q] = pc[q] /\ Target(q)' = Target(q) /\ key'[q] = key[q]
            /\ temp'[q] = temp[q] /\ lock' = lock
            /\ <<q, "logged">> \in flags => <<q, "logged">> \in flags'
        BY <2>2, <3>2 DEF Flock, End, Target, IInv, TypeInv, TypeOK
      <4> QED
        BY <4>1 DEF Flock, store, CopyInv, IInv
    <3> QED BY <3>1, <3>2
  <2> QED BY <2>1, <2>2
<1> QED
  BY <1>1, <1>2, <1>3 DEF IInv

LEMMA RebootSafe ==
  ASSUME IInv, NEW p \in Procs, Reboot(p)
  PROVE  IInv'
<1>1. TypeInv'
  BY RebootType DEF IInv
<1>2. CASE End(Procs)
  <2>1. \A q \in Procs : pc[q] \notin Window
    BY DEF Reboot, Window, CopyInv, IInv, TypeInv, TypeOK
  <2>2. StoreInv'
    BY <1>2, <2>1 DEF Reboot, End, StoreInv, CurrentComplete, LitterOnlyAfterInterruption,
       IInv
  <2>3. \A q \in Procs : CopyInv(q)'
    BY <1>2 DEF End, CopyInv
  <2> QED
    BY <1>1, <2>2, <2>3 DEF IInv
<1>3. CASE Goto(p, "unlock") /\ UNCHANGED <<dirty, mount, lock>>
  <2>1. CopyInv(p)'
    BY <1>3 DEF Reboot, Goto, CopyInv, IInv, TypeInv, TypeOK
  <2>2. StoreInv'
    BY <1>3 DEF Reboot, Goto, StoreInv, CurrentComplete, LitterOnlyAfterInterruption,
       Window, IInv, TypeInv, TypeOK
  <2>3. \A q \in Procs : CopyInv(q)'
    BY <1>3, <2>1, OthersKept DEF Reboot, Goto, IInv, TypeInv, TypeOK
  <2> QED
    BY <1>1, <2>2, <2>3 DEF IInv
<1> QED
  BY <1>2, <1>3 DEF Reboot

LEMMA UnlockSafe ==
  ASSUME IInv, NEW p \in Procs, Unlock(p)
  PROVE  IInv'
<1>1. TypeInv'
  BY UnlockType DEF IInv
<1>2. StoreInv'
  BY DEF Unlock, End, store, StoreInv, CurrentComplete, LitterOnlyAfterInterruption,
     Window, IInv, TypeInv, TypeOK
<1>3. CopyInv(p)'
  BY DEF Unlock, End, CopyInv
<1>4. \A q \in Procs : CopyInv(q)'
  BY <1>3, OthersKept DEF Unlock, End, IInv, TypeInv, TypeOK
<1> QED
  BY <1>1, <1>2, <1>4 DEF IInv

LEMMA KillSafe ==
  ASSUME IInv, NEW p \in Procs, Kill(p)
  PROVE  IInv'
<1>1. TypeInv'
  BY KillType DEF IInv
<1>2. StoreInv'
  <2>1. CurrentComplete'
    BY DEF Kill, CurrentComplete, StoreInv, IInv
  <2>2. temp[p] # "none" => pc[p] \in Window
    BY DEF CopyInv, Window, IInv
  <2>3. orphans' \subseteq interrupted'
    BY <2>2 DEF Kill, StoreInv, IInv
  <2>4. LitterOnlyAfterInterruption'
    BY <2>2 DEF Kill, End, LitterOnlyAfterInterruption, Window, StoreInv, IInv, TypeInv, TypeOK
  <2> QED BY <2>1, <2>3, <2>4 DEF StoreInv
<1>3. ASSUME NEW q \in Procs PROVE CopyInv(q)'
  <2>1. CASE q = p
    BY <2>1 DEF Kill, End, CopyInv
  <2>2. CASE q # p
    <3>1. /\ pc'[q] = pc[q] /\ Target(q)' = Target(q) /\ key'[q] = key[q]
          /\ temp'[q] = temp[q] /\ (lock = q => lock' = q)
          /\ <<q, "logged">> \in flags => <<q, "logged">> \in flags'
      BY <2>2 DEF Kill, End, Target, IInv, TypeInv, TypeOK
    <3> QED
      BY <3>1 DEF Kill, CopyInv, IInv
  <2> QED BY <2>1, <2>2
<1> QED
  BY <1>1, <1>2, <1>3 DEF IInv

LEMMA PowerLossSafe ==
  ASSUME IInv, PowerLoss
  PROVE  IInv'
<1>1. TypeInv'
  BY PowerLossType DEF IInv
<1>2. \A q \in Procs : CopyInv(q)'
  BY DEF PowerLoss, End, CopyInv
<1>3. CurrentComplete'
  BY DEF PowerLoss, CurrentComplete, StoreInv, IInv
<1>4. orphans' \subseteq interrupted'
  <2>1. \A q \in Procs : temp[q] # "none" => pc[q] \in Window
    BY DEF CopyInv, Window, IInv
  <2> QED
    BY <2>1 DEF PowerLoss, StoreInv, IInv
<1>5. LitterOnlyAfterInterruption'
  BY <1>4 DEF PowerLoss, LitterOnlyAfterInterruption, StoreInv, IInv
<1> QED
  BY <1>1, <1>2, <1>3, <1>4, <1>5 DEF IInv, StoreInv

LEMMA IInvStep == IInv /\ [Next]_vars => IInv'
<1> SUFFICES ASSUME IInv, [Next]_vars
             PROVE  IInv'
  OBVIOUS
<1>1. CASE UNCHANGED vars
  <2>1. TypeInv'
    BY <1>1, TypeInvStep DEF IInv
  <2>2. StoreInv'
    BY <1>1 DEF vars, store, local, StoreInv, CurrentComplete, LitterOnlyAfterInterruption,
       IInv
  <2>3. \A q \in Procs : CopyInv(q)'
    BY <1>1 DEF vars, store, local, CopyInv, Target, IInv
  <2> QED BY <2>1, <2>2, <2>3 DEF IInv
<1>2. CASE PowerLoss
  BY <1>2, PowerLossSafe
<1>3. ASSUME NEW p \in Procs, RunStep(p) PROVE IInv'
  BY <1>3, StartSafe, FlockSafe, NextComponentSafe, SyncSafe, RebootSafe, UnlockSafe
     DEF RunStep
<1>4. ASSUME NEW p \in Procs, CopyComponent(p) PROVE IInv'
  BY <1>4, StatVersionsSafe, RemountSafe, LinkTempSafe, MkdirTempSafe, CopyToTempSafe,
     MoveAsideSafe, PlaceSafe, DropPreviousSafe, RecordPreviousSafe, CommitSafe,
     RestoreOldSafe, RemoveTempSafe, RemoveLinkTempSafe DEF CopyComponent
<1>5. ASSUME NEW p \in Procs, Kill(p) PROVE IInv'
  BY <1>5, KillSafe
<1> QED
  BY <1>1, <1>2, <1>3, <1>4, <1>5 DEF Next

LEMMA IInvInit == Init => IInv
<1> SUFFICES ASSUME Init
             PROVE  IInv
  OBVIOUS
<1>1. TypeInv
  BY ConstantsAssumption DEF Init, TypeInv, TypeOK, TargetKnown, Copying, Window, Content,
     PCs, Keys, Pairs, Images, NoImage
<1>2. StoreInv
  BY ConstantsAssumption DEF Init, StoreInv, CurrentComplete, LitterOnlyAfterInterruption,
     Pairs, Keys
<1>3. \A q \in Procs : CopyInv(q)
  BY DEF Init, CopyInv
<1> QED BY <1>1, <1>2, <1>3 DEF IInv

LEMMA Invariance == Spec => []IInv
  BY IInvInit, IInvStep, PTL DEF Spec

\* `current` names a complete directory at every moment, whatever fails or
\* dies and however many upgrades compete for the lock (component.go:50-131).
THEOREM CurrentAlwaysComplete == Spec => []CurrentComplete
<1>1. IInv => CurrentComplete
  BY DEF IInv, StoreInv
<1> QED
  BY <1>1, Invariance, PTL

\* What CopyComponent leaves behind was left by a death or a failed clean-up
\* (component.go:72-84).
THEOREM NoLitter == Spec => []LitterOnlyAfterInterruption
<1>1. IInv => LitterOnlyAfterInterruption
  BY DEF IInv, StoreInv
<1> QED
  BY <1>1, Invariance, PTL

\* `previous` is the version being replaced when `current` is switched, or the
\* failure to keep it was logged (component.go:115-128).
THEOREM PreviousKept == Spec => PreviousIsReplaced
<1>1. IInv /\ [Next]_vars => [KeepsPrevious]_vars
  <2> SUFFICES ASSUME IInv, Next
               PROVE  KeepsPrevious
    OBVIOUS
  <2>1. ASSUME NEW p \in Procs, Commit(p) PROVE KeepsPrevious
    <3>1. previous[key[p]] = current[key[p]] \/ <<p, "logged">> \in flags
      BY <2>1 DEF Commit, CopyInv, IInv
    <3>2. \A k \in Keys : current'[k] # current[k] => k = key[p]
      BY <2>1 DEF Commit, IInv, TypeInv, TypeOK
    <3> QED
      BY <2>1, <3>1, <3>2 DEF Commit, KeepsPrevious
  <2>2. (\E p \in Procs : Commit(p)) \/ UNCHANGED current
    BY DEF Next, RunStep, CopyComponent, Start, Flock, NextComponent, Sync, Reboot, Unlock,
       StatVersions, Remount, LinkTemp, MkdirTemp, CopyToTemp, MoveAside, Place,
       DropPrevious, RecordPrevious, RestoreOld, RemoveTemp, RemoveLinkTemp, Kill,
       PowerLoss, store
  <2> QED
    BY <2>1, <2>2 DEF KeepsPrevious
<1> QED
  BY <1>1, Invariance, PTL DEF Spec, PreviousIsReplaced

-----------------------------------------------------------------------------
(* Upgrade implements VersionStore.                                        *)

\* The variables the mapping reads.
mapped == <<current, previous, present, damaged, dirty>>

LEMMA MappedStutter == UNCHANGED mapped => UNCHANGED Store!vars
  BY DEF mapped, Store!vars

\* The calls that move, place or restore a version directory.
LEMMA DirectoryStep ==
  ASSUME IInv, NEW p \in Procs, MoveAside(p) \/ Place(p) \/ RestoreOld(p)
  PROVE  [Store!Next]_(Store!vars)
<1> DEFINE k == key[p]
           v == Target(p)
<1>1. k \in Keys /\ v \in Versions /\ <<k, v>> \in Pairs
  BY TargetPair DEF MoveAside, Place, RestoreOld, Copying, Window, IInv
<1>2. CASE UNCHANGED mapped
  BY <1>2, MappedStutter
<1>3. CASE MoveAside(p) /\ present' = present \ {<<k, v>>}
  <2>1. current[k] # v
    BY <1>3 DEF MoveAside, CopyInv, IInv
  <2>2. Store!Retire(k, v)
    BY <1>3, <2>1 DEF MoveAside, Store!Retire
  <2> QED
    BY <1>1, <2>2 DEF Store!Next
<1>4. CASE Place(p) /\ present' = present \cup {<<k, v>>}
  <2>1. current[k] # v /\ temp[p] = "full"
    BY <1>4 DEF Place, CopyInv, IInv
  <2>2. CASE UNCHANGED <<present, damaged, dirty, lost>>
    BY <1>4, <2>2, MappedStutter DEF Place, mapped
  <2>3. CASE /\ damaged' = damaged \ {<<k, v>>}
             /\ dirty' = dirty \cup {<<k, v>>}
    <3>1. Store!Publish(k, v)
      BY <1>1, <1>4, <2>1, <2>3 DEF Place, Store!Publish
    <3> QED
      BY <1>1, <3>1 DEF Store!Next
  <2> QED
    BY <1>4, <2>1, <2>2, <2>3 DEF Place
<1>5. CASE RestoreOld(p) /\ <<k, v>> \notin present /\ present' = present \cup {<<k, v>>}
  <2>1. current[k] # v
    BY <1>1, <1>5, ConstantsAssumption DEF CurrentComplete, StoreInv, IInv
  <2>2. CASE <<k, v>> \in damaged
    BY <1>5, <2>2 DEF RestoreOld, Store!vars
  <2>3. CASE <<k, v>> \notin damaged
    <3>1. Store!Restore(k, v)
      BY <1>5, <2>1, <2>3 DEF RestoreOld, Store!Restore
    <3> QED
      BY <1>1, <3>1 DEF Store!Next
  <2> QED BY <2>2, <2>3
<1> QED
  BY <1>2, <1>3, <1>4, <1>5 DEF MoveAside, Place, RestoreOld, mapped

\* The calls on the symlinks `previous` and `current`.
LEMMA LinkStep ==
  ASSUME IInv, NEW p \in Procs, DropPrevious(p) \/ RecordPrevious(p) \/ Commit(p)
  PROVE  [Store!Next]_(Store!vars)
<1> DEFINE k == key[p]
           v == Target(p)
<1>1. k \in Keys /\ v \in Versions
  BY TargetPair DEF DropPrevious, RecordPrevious, Commit, Copying, Window, IInv
<1>2. CASE UNCHANGED mapped
  BY <1>2, MappedStutter
<1>3. CASE DropPrevious(p) \/ RecordPrevious(p)
  <2>1. CASE UNCHANGED previous
    BY <1>3, <2>1, MappedStutter DEF DropPrevious, RecordPrevious, mapped
  <2>2. CASE previous' \in {[previous EXCEPT ![k] = None], [previous EXCEPT ![k] = current[k]]}
    <3>1. Store!Remember(k)
      BY <1>3, <2>2 DEF DropPrevious, RecordPrevious, Store!Remember
    <3> QED
      BY <1>1, <3>1 DEF Store!Next
  <2> QED
    BY <1>3, <2>1, <2>2 DEF DropPrevious, RecordPrevious
<1>4. CASE Commit(p)
  <2>1. currentTmp[k] = v /\ <<k, v>> \in present \ damaged
    BY <1>4 DEF Commit, CopyInv, IInv
  <2>2. CASE UNCHANGED current
    BY <1>4, <2>2, MappedStutter DEF Commit, mapped
  <2>3. CASE current' = [current EXCEPT ![k] = currentTmp[k]]
    <3>1. Store!Switch(k, v)
      BY <1>4, <2>1, <2>3 DEF Commit, Store!Switch
    <3> QED
      BY <1>1, <3>1 DEF Store!Next
  <2> QED
    BY <1>4, <2>2, <2>3 DEF Commit
<1> QED
  BY <1>3, <1>4

\* Flushing, on request or by an orderly reboot.
LEMMA FlushStep ==
  ASSUME IInv, NEW p \in Procs, Sync(p) \/ Reboot(p)
  PROVE  [Store!Next]_(Store!vars)
<1>1. CASE UNCHANGED dirty
  BY <1>1, MappedStutter DEF Sync, Reboot, mapped
<1>2. CASE dirty' = {}
  <2>1. Store!Flush
    BY <1>2 DEF Sync, Reboot, Store!Flush, Store!Pairs, Pairs
  <2> QED
    BY <2>1 DEF Store!Next
<1> QED
  BY <1>1, <1>2 DEF Sync, Reboot

LEMMA PowerLossStep ==
  ASSUME IInv, PowerLoss
  PROVE  Store!PowerLoss
<1>1. PICK torn \in SUBSET (dirty \cap present) : damaged' = damaged \cup torn
  BY DEF PowerLoss
<1>2. Pairs = Store!Pairs /\ dirty' = {} /\ UNCHANGED <<current, previous, present>>
  BY DEF PowerLoss, Pairs, Store!Pairs
<1> QED
  BY <1>1, <1>2 DEF Store!PowerLoss

\* Seen through its symlinks and complete directories, the store that
\* CopyComponent maintains is a VersionStore (docs/technical.md:340).
THEOREM UpgradeImplementsVersionStore == Spec => ImplementsVersionStore
<1>1. Init => Store!Init
  BY ConstantsAssumption DEF Init, Store!Init, Store!Pairs, Pairs
<1>2. IInv /\ [Next]_vars => [Store!Next]_(Store!vars)
  <2> SUFFICES ASSUME IInv, [Next]_vars
               PROVE  [Store!Next]_(Store!vars)
    OBVIOUS
  <2>1. CASE UNCHANGED vars
    BY <2>1, MappedStutter DEF vars, store, mapped
  <2>2. CASE PowerLoss
    BY <2>2, PowerLossStep DEF Store!Next
  <2>3. ASSUME NEW p \in Procs, RunStep(p) \/ CopyComponent(p) \/ Kill(p)
        PROVE  [Store!Next]_(Store!vars)
    <3>1. CASE Sync(p) \/ Reboot(p)
      BY <3>1, FlushStep
    <3>2. CASE MoveAside(p) \/ Place(p) \/ RestoreOld(p)
      BY <3>2, DirectoryStep
    <3>3. CASE DropPrevious(p) \/ RecordPrevious(p) \/ Commit(p)
      BY <3>3, LinkStep
    <3>4. CASE \/ Start(p) \/ Flock(p) \/ NextComponent(p) \/ Unlock(p) \/ StatVersions(p)
               \/ Remount(p) \/ LinkTemp(p) \/ MkdirTemp(p) \/ CopyToTemp(p)
               \/ RemoveTemp(p) \/ RemoveLinkTemp(p) \/ Kill(p)
      BY <3>4, MappedStutter DEF Start, Flock, NextComponent, Unlock, StatVersions,
         Remount, LinkTemp, MkdirTemp, CopyToTemp, RemoveTemp, RemoveLinkTemp, Kill,
         store, mapped
    <3> QED
      BY <2>3, <3>1, <3>2, <3>3, <3>4 DEF RunStep, CopyComponent
  <2> QED
    BY <2>1, <2>2, <2>3 DEF Next
<1> QED
  BY <1>1, <1>2, Invariance, PTL DEF Spec, ImplementsVersionStore, Store!Spec
=============================================================================
