------------------------------ MODULE MCImport ------------------------------
(***************************************************************************)
(* Small instances of Import.                                              *)
(***************************************************************************)
EXTENDS Import

MCBorn == <<"p1">>

\* What an app row says makes no difference to a run.
MCEntries == [visibility : {"public"}, text : Texts]
==============================================================================
