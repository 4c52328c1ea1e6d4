------------------------------ MODULE RootImageMC ------------------------------
(***************************************************************************)
(* An instance of RootImage for TLC.                                       *)
(***************************************************************************)
EXTENDS RootImage

\* Like "_sqmagic_": the last byte is the first one again.
MCMagic == <<"_", "s", "_">>
=============================================================================
