------------------------------ MODULE DiskContract ------------------------------
(***************************************************************************)
(* What DiskHandler.Execute promises to the boot around it, as a machine   *)
(* with one variable for the disk.  DiskBoot, which has a step for each    *)
(* call of Execute, is shown to keep this contract; BootSequence, where    *)
(* Execute is one step, relies on nothing else.                            *)
(***************************************************************************)
EXTENDS DiskOutcome

VARIABLES
    facts,          \* the Facts that hold of the disk
    found,          \* those that held when Execute began
    slip,           \* a call of Execute has failed
    at              \* "off", "handler" (in Execute), or where the machine has come to

vars == <<facts, found, slip, at>>

Init ==
    /\ facts \in SUBSET Facts /\ ~(Kernels \subseteq facts)
    /\ found = facts /\ slip = FALSE /\ at = "off"

Begin ==
    /\ at = "off" /\ at' = "handler"
    /\ found' = facts /\ slip' = FALSE
    /\ UNCHANGED facts

\* A call that fails is one too many, even if the failure is ignored.
Call == at = "handler" /\ slip' \in {slip, TRUE} /\ UNCHANGED found

Work ==
    /\ Call /\ UNCHANGED at
    /\ facts' \in SUBSET Facts
    /\ Leaves(found, facts', slip')

End ==
    /\ Call /\ UNCHANGED facts
    /\ \/ at' = "local" /\ Pivoted(found, facts, slip')
       \/ at' \in {"off", "halted"} /\ TakenOver(found, facts, slip')
       \/ at' \in {"rescue", "panic"} /\ Unfinished(found, facts, slip')

\* The running machine writes to k3os/data.
Use ==
    /\ at = "local"
    /\ facts' = facts \cup {"hostname"}
    /\ UNCHANGED <<found, slip, at>>

\* A power cut, or a restart.
Cut ==
    /\ at # "off" /\ at' = "off"
    /\ facts' \in Tears(Unflushed(found), facts)
    /\ UNCHANGED <<found, slip>>

Next == Begin \/ Work \/ End \/ Use \/ Cut

Spec == Init /\ [][Next]_vars
=============================================================================
