------------------------------ MODULE VersionStore ------------------------------
(***************************************************************************)
(* What /k3os/system/<component> promises to the rest of k3OS, whatever    *)
(* `k3os upgrade` does to it step by step (docs/technical.md, "Component   *)
(* Version Management"): `current` names one version directory, it is      *)
(* switched in one step and only to a directory that is completely in      *)
(* place, the directory it names is never taken away, and `previous` only  *)
(* ever becomes the version that is current at that moment.                *)
(*                                                                         *)
(* A loss of power is part of the promise: it may damage directories that  *)
(* were never flushed to the disk, and nothing else.                       *)
(***************************************************************************)
CONSTANTS Keys, Versions, None

VARIABLES
    cur,        \* cur[k]: the version `current` names, or None
    prev,       \* prev[k]: the version `previous` names, or None
    usable,     \* the <<component, version>> pairs completely in place
    flushed     \* the pairs with no data waiting to be written

vars == <<cur, prev, usable, flushed>>

Pairs == Keys \X Versions

Init ==
    /\ cur \in [Keys -> Versions \cup {None}]
    /\ prev = [k \in Keys |-> None]
    /\ usable = {kv \in Pairs : cur[kv[1]] = kv[2]}
    /\ flushed = Pairs

\* A complete copy of version v of component k appears; it is not flushed.
Publish(k, v) ==
    /\ cur[k] # v
    /\ usable' = usable \cup {<<k, v>>}
    /\ flushed' = flushed \ {<<k, v>>}
    /\ UNCHANGED <<cur, prev>>

\* A version that is not current is moved out of the way.
Retire(k, v) ==
    /\ cur[k] # v
    /\ usable' = usable \ {<<k, v>>}
    /\ UNCHANGED <<cur, prev, flushed>>

\* A version that was moved out of the way comes back as it was.
Restore(k, v) ==
    /\ cur[k] # v
    /\ usable' = usable \cup {<<k, v>>}
    /\ UNCHANGED <<cur, prev, flushed>>

Switch(k, v) ==
    /\ <<k, v>> \in usable
    /\ cur' = [cur EXCEPT ![k] = v]
    /\ UNCHANGED <<prev, usable, flushed>>

Remember(k) ==
    /\ prev' \in {[prev EXCEPT ![k] = None], [prev EXCEPT ![k] = cur[k]]}
    /\ UNCHANGED <<cur, usable, flushed>>

Flush ==
    /\ flushed' = Pairs
    /\ UNCHANGED <<cur, prev, usable>>

PowerLoss ==
    /\ usable' \in SUBSET usable
    /\ usable \cap flushed \subseteq usable'
    /\ flushed' = Pairs
    /\ UNCHANGED <<cur, prev>>

Next ==
    \/ \E k \in Keys, v \in Versions :
           Publish(k, v) \/ Retire(k, v) \/ Restore(k, v) \/ Switch(k, v)
    \/ \E k \in Keys : Remember(k)
    \/ Flush
    \/ PowerLoss

Spec == Init /\ [][Next]_vars
=============================================================================
