---------------------------- MODULE BootSequenceMC ----------------------------
(***************************************************************************)
(* Instances of BootSequence for TLC.                                      *)
(***************************************************************************)
EXTENDS BootSequence

Cmdline(m, f, flags) == [mode |-> m, fallback |-> f, flags |-> flags]

\* No mode on the command line, as installed machines and live media have it,
\* with and without a fallback and a hostname.
AutomaticCmdlines ==
    {Cmdline("", f, flags) : f \in {"", "install"}, flags \in {{}, {"hostname"}}}

\* The mode given: live media, the rescue entry, a test boot, and a typing error.
ExplicitCmdlines ==
    {Cmdline("live", "", {"test_mode"}), Cmdline("", "", {"rescue"}),
     Cmdline("local", "", {}), Cmdline("bogus", "", {})}

DiskCmdlines == {Cmdline("disk", "", {})}

MCCmdlines == AutomaticCmdlines \cup ExplicitCmdlines

\* No disk; a disk as installed; one with each of the things that make a boot
\* go differently.
MCMachines ==
    {{}, {"state"}, {"state", "kernel"}, {"state", "takeover", "kernel"},
     {"state", "growpart"}, {"state", "torn"}, {"state", "noHosts"}}
=============================================================================
