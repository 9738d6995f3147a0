---------------------------- MODULE CatalogSource ----------------------------
(***************************************************************************)
(* The rows a signed catalogue is built from, and the only three           *)
(* transactions that change them.                                          *)
(*                                                                         *)
(* This is the abstract specification of the registry's write side: the    *)
(* catalogue service (CatalogService) relies on nothing but what is said   *)
(* here, and the detailed write side (Publishing) is shown to implement    *)
(* it.  What it promises is that every transaction that changes what a     *)
(* catalogue would say moves the revision in the same commit.              *)
(***************************************************************************)
EXTENDS Naturals

CONSTANTS
    Apps,        \* app ids (store_apps.id)
    Versions,    \* version numbers, ordered as semver orders them
    Texts,       \* what an entry, or its translations, may say
    None,        \* SQL NULL, the absent row, the anonymous caller
    MaxRevision  \* bound: the transactions of a run

\* A run has finitely many version numbers, so one of them is the greatest.
ASSUME SourceAssumption ==
    /\ Versions \subseteq Nat \ {0}
    /\ \E n \in Versions : \A v \in Versions : v <= n
    /\ MaxRevision \in Nat

VARIABLES
    revision,    \* store_registry_state.revision
    app,         \* store_apps: what the catalogue query reads of each row
    trans,       \* store_app_texts: the translations held for each app
    published    \* store_app_versions: the numbers with status 'published'

sourceVars == <<revision, app, trans, published>>

Visibilities == {"public", "private"}

\* An id nobody has registered.
NoApp == [visibility |-> "unregistered", text |-> None]

AppRow == [visibility : Visibilities, text : Texts]

SourceTypeOK ==
    /\ revision \in 0..MaxRevision
    /\ app \in [Apps -> AppRow \cup {NoApp}]
    /\ trans \in [Apps -> Texts \cup {None}]
    /\ published \in [Apps -> SUBSET Versions]

\* The registry may start over tables that already hold apps and versions; an
\* unregistered id has neither translations nor versions (foreign keys).
SourceInit ==
    /\ revision = 0
    /\ app \in [Apps -> AppRow \cup {NoApp}]
    /\ trans \in [Apps -> Texts \cup {None}]
    /\ published \in [Apps -> SUBSET Versions]
    /\ \A a \in Apps : app[a] = NoApp => trans[a] = None /\ published[a] = {}

bumpRevision ==
    /\ revision < MaxRevision
    /\ revision' = revision + 1

\* UpsertApp writes the catalogue entry and whichever translations came with
\* it (t = None: none did), and bumps the revision before it commits.
UpsertApp(a, visibility, text, t) ==
    /\ app' = [app EXCEPT ![a] = [visibility |-> visibility, text |-> text]]
    /\ trans' = [trans EXCEPT ![a] = IF t = None THEN @ ELSE t]
    /\ bumpRevision
    /\ UNCHANGED published

\* DecideVersion publishes a version, or takes it out of the published set by
\* rejecting or yanking it, and bumps the revision before it commits.
DecideVersion(a, v, action) ==
    /\ app[a] # NoApp
    /\ published' = [published EXCEPT ![a] = IF action = "publish"
                                               THEN @ \cup {v}
                                               ELSE @ \ {v}]
    /\ bumpRevision
    /\ UNCHANGED <<app, trans>>

Actions == {"publish", "reject", "yank"}

\* The import tool's transaction: it inserts the apps, versions and
\* translations that are not there yet (ON CONFLICT DO NOTHING), and bumps the
\* revision before it commits.  An app that gains a locale says something else.
Import ==
    /\ app' \in [Apps -> AppRow \cup {NoApp}]
    /\ trans' \in [Apps -> Texts \cup {None}]
    /\ published' \in [Apps -> SUBSET Versions]
    /\ \A a \in Apps :
          /\ app[a] # NoApp => app'[a] = app[a]
          /\ trans[a] # None => trans'[a] # None
          /\ published[a] \subseteq published'[a]
          /\ app'[a] = NoApp => trans'[a] = None /\ published'[a] = {}
    /\ bumpRevision

SourceNext ==
    \/ \E a \in Apps, visibility \in Visibilities, text \in Texts,
          t \in Texts \cup {None} : UpsertApp(a, visibility, text, t)
    \/ \E a \in Apps, v \in Versions, action \in Actions :
          DecideVersion(a, v, action)
    \/ Import

SourceSpec == SourceInit /\ [][SourceNext]_sourceVars
==============================================================================
