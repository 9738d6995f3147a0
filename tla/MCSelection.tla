----------------------------- MODULE MCSelection -----------------------------
(***************************************************************************)
(* Small instances of Selection.                                           *)
(***************************************************************************)
EXTENDS Selection, TLC

\* Versions 1 and 2 run everywhere and are of equal precedence; version 3
\* needs the platform "2.0.0".
MCOffers == {o \in Apps \X Versions \X Keys : o[2] < 3 \/ o[3][2] = "2.0.0"}
MCRank == [v \in Versions |-> IF v < 3 THEN 1 ELSE 2]

MCSymmetry == Permutations(Apps) \cup Permutations(Texts)
==============================================================================
