---------------------------- MODULE MCPublishing ----------------------------
(***************************************************************************)
(* Small instances of Publishing.                                          *)
(***************************************************************************)
EXTENDS Publishing, TLC

\* Tenants and handlers are interchangeable, and so are apps.
MCSymmetry == Permutations(Tenants) \cup Permutations(Writers) \cup Permutations(Apps)
==============================================================================
