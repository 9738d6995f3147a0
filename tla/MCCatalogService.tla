-------------------------- MODULE MCCatalogService --------------------------
(***************************************************************************)
(* Small instances of CatalogService.                                      *)
(***************************************************************************)
EXTENDS CatalogService, TLC

\* Version 1 runs on every platform and is on both channels; version 2 needs
\* the platform "2.0.0" and is on the stable channel only.
MCOffers ==
    {o \in Apps \X Versions \X Keys :
        o[2] = 1 \/ (o[3][1] = "stable" /\ o[3][2] = "2.0.0")}

\* Handlers of a kind, apps, texts, platforms and keys are interchangeable.
MCSymmetry ==
    Permutations(Reqs) \cup Permutations(Ops) \cup Permutations(Apps)
        \cup Permutations(Texts) \cup Permutations(Platforms)
        \cup Permutations(SigningKeys)
==============================================================================
