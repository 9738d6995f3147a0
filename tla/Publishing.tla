----------------------------- MODULE Publishing -----------------------------
(***************************************************************************)
(* The write side of the registry: publishers register apps and submit     *)
(* versions, reviewers decide on them.                                     *)
(*                                                                         *)
(* Any number of handlers (Writers) are in flight at once.  Each reads,    *)
(* then writes in one transaction: the read is one action, the             *)
(* transaction's commit another, and other handlers commit in between.     *)
(* READ COMMITTED and the row locks the statements take make the writes    *)
(* of one transaction appear at once; nothing makes what it read before    *)
(* still true.  A slug is one more unique column whose violation rolls the *)
(* transaction back, so it is part of Rollback.                            *)
(***************************************************************************)
EXTENDS Naturals, Sequences

CONSTANTS
    Apps, Versions, Texts, None, MaxRevision,   \* as in CatalogSource
    Tenants,     \* organisations; one publishing profile each
    Writers,     \* handlers that may be in flight at once
    MaxClock     \* bound: transactions whose start time is recorded

ASSUME PublishingAssumption ==
    /\ Versions \subseteq Nat \ {0}
    /\ MaxRevision \in Nat
    /\ MaxClock \in Nat
    /\ None \notin Tenants \cup Texts

VARIABLES
    publishers,  \* store_publishers: "none", "unverified" or "verified"
    apps,        \* store_apps
    trans,       \* store_app_texts
    versions,    \* store_app_versions
    external,    \* store_external_registrations: the version it came from
    trail,       \* store_review_events of each version, in commit order
    revision,    \* store_registry_state.revision
    writer,      \* handlers in flight
    clock,       \* what NOW() was last
    editor       \* history: the tenant whose request last wrote the entry

tables == <<publishers, apps, trans, versions, external, trail, revision>>
vars == <<tables, writer, clock, editor>>

Types == {"module", "external"}
Statuses == {"in_review", "published", "rejected", "yanked"}
Actions == {"publish", "reject", "yank"}

\* The status DecideVersion writes for an action.
StatusOf(action) == CASE action = "publish" -> "published"
                      [] action = "reject"  -> "rejected"
                      [] action = "yank"    -> "yanked"

\* An id nobody has registered, and a number nobody has submitted.
NoEntry == [owner |-> None, visibility |-> "unregistered", text |-> None,
            type |-> "module", provenance |-> 0]
NoVersion == [status |-> "unused", type |-> "module", submitter |-> None]

\* provenance: the version whose manifest gave the app row its authors,
\* licence and repository, 0 before the first publication.
Entry == [owner : Tenants, visibility : {"public", "private"}, text : Texts,
          type : Types, provenance : Versions \cup {0}]
Version == [status : Statuses, type : Types, submitter : Tenants]
Event == [action : Actions \cup {"submitted"}, at : 0..MaxClock]

IdleWriter == [pc |-> "idle", tenant |-> None, app |-> None, version |-> 0,
               type |-> "module", at |-> 0]

TypeOK ==
    /\ publishers \in [Tenants -> {"none", "unverified", "verified"}]
    /\ apps \in [Apps -> Entry \cup {NoEntry}]
    /\ trans \in [Apps -> Texts \cup {None}]
    /\ versions \in [Apps -> [Versions -> Version \cup {NoVersion}]]
    /\ external \in [Apps -> Versions \cup {0}]
    /\ trail \in [Apps -> [Versions -> Seq(Event)]]
    /\ revision \in 0..MaxRevision
    /\ writer \in [Writers -> [pc : {"idle", "upsert", "submit", "decide"},
                               tenant : Tenants \cup {None},
                               app : Apps \cup {None},
                               version : Versions \cup {0},
                               type : Types, at : 0..MaxClock]]
    /\ clock \in 0..MaxClock
    /\ editor \in [Apps -> Tenants \cup {None}]

Init ==
    /\ publishers = [t \in Tenants |-> "none"]
    /\ apps = [a \in Apps |-> NoEntry]
    /\ trans = [a \in Apps |-> None]
    /\ versions = [a \in Apps |-> [v \in Versions |-> NoVersion]]
    /\ external = [a \in Apps |-> 0]
    /\ trail = [a \in Apps |-> [v \in Versions |-> << >>]]
    /\ revision = 0
    /\ writer = [w \in Writers |-> IdleWriter]
    /\ clock = 0
    /\ editor = [a \in Apps |-> None]

------------------------------------------------------------------------------
bumpRevision ==
    /\ revision < MaxRevision
    /\ revision' = revision + 1

\* handleSaveProfile: UpsertPublisher inserts or edits the tenant's row, and
\* does not touch its verification.
SaveProfile(t) ==
    /\ publishers' = [publishers EXCEPT ![t] = IF @ = "none" THEN "unverified" ELSE @]
    /\ UNCHANGED <<apps, trans, versions, external, trail, revision, writer,
                   clock, editor>>

\* handleVerifyPublisher: SetPublisherVerified; no such publisher is a 404.
SetPublisherVerified(t, verified) ==
    /\ publishers[t] # "none"
    /\ publishers' = [publishers EXCEPT ![t] = verified]
    /\ UNCHANGED <<apps, trans, versions, external, trail, revision, writer,
                   clock, editor>>

\* handleUpsertApp up to the ownership check: the caller's organisation has a
\* profile, and the id is free or its own.
CheckOwner(w, t, a) ==
    /\ writer[w].pc = "idle"
    /\ publishers[t] # "none"
    /\ apps[a].owner \in {None, t}
    /\ writer' = [writer EXCEPT ![w] = [pc |-> "upsert", tenant |-> t, app |-> a,
                                        version |-> 0, type |-> "module", at |-> 0]]
    /\ UNCHANGED <<tables, clock, editor>>

OwnerOverwritten(a, tenant) ==          \* mutant: publisher_id in DO UPDATE SET
    tenant

OwnerOmitted(a, tenant) ==              \* mutant: publisher_id not in INSERT
    apps[a].owner

\* INSERT gives the row its publisher, ON CONFLICT DO UPDATE leaves it.
OwnerAfter(a, tenant) == IF apps[a] = NoEntry THEN tenant ELSE apps[a].owner

\* The rest of UpsertApp: INSERT ... ON CONFLICT DO UPDATE, the translations
\* that came with it (t = None: none did), the revision, COMMIT.
UpsertApp(w, visibility, text, type, t) ==
    LET a == writer[w].app
    IN  /\ writer[w].pc = "upsert"
        /\ apps' = [apps EXCEPT ![a] =
                       [owner |-> OwnerAfter(a, writer[w].tenant),
                        visibility |-> visibility, text |-> text, type |-> type,
                        provenance |-> @.provenance]]
        /\ trans' = [trans EXCEPT ![a] = IF t = None THEN @ ELSE t]
        /\ bumpRevision
        /\ editor' = [editor EXCEPT ![a] = writer[w].tenant]
        /\ writer' = [writer EXCEPT ![w] = IdleWriter]
        /\ UNCHANGED <<publishers, versions, external, trail, clock>>

------------------------------------------------------------------------------
\* handleSubmitVersion up to SubmitVersion: ownApp finds the app among the
\* caller's own, and the manifest's type is the type it has there.  BEGIN fixes
\* what NOW() will be.
OwnApp(w, t, a, v) ==
    /\ writer[w].pc = "idle"
    /\ publishers[t] # "none"
    /\ apps[a].owner = t
    /\ clock < MaxClock
    /\ clock' = clock + 1
    /\ writer' = [writer EXCEPT ![w] = [pc |-> "submit", tenant |-> t, app |-> a,
                                        version |-> v, type |-> apps[a].type,
                                        at |-> clock + 1]]
    /\ UNCHANGED <<tables, editor>>

NumberIsReused(a, v) ==                 \* mutant: ON CONFLICT DO UPDATE
    TRUE

\* The unique index over an app's version numbers.
NumberIsFree(a, v) == versions[a][v] = NoVersion

StatusAtOnce ==                         \* mutant: no review
    "published"

\* The status SubmitManifest gives a version.
StatusAtSubmission == "in_review"

\* SubmitVersion: the version, the external registration of its manifest, the
\* first event of its trail, COMMIT.  The revision stays.
SubmitVersion(w) ==
    LET q == writer[w]
        a == q.app
        v == q.version
    IN  /\ q.pc = "submit"
        /\ NumberIsFree(a, v)
        /\ versions' = [versions EXCEPT ![a][v] =
                           [status |-> StatusAtSubmission, type |-> q.type, submitter |-> q.tenant]]
        /\ external' = [external EXCEPT ![a] = IF q.type = "external" THEN v ELSE @]
        /\ trail' = [trail EXCEPT ![a][v] = Append(@, [action |-> "submitted", at |-> q.at])]
        /\ writer' = [writer EXCEPT ![w] = IdleWriter]
        /\ UNCHANGED <<publishers, apps, trans, revision, clock, editor>>

\* handleDecision up to BEGIN, which fixes what NOW() will be.
BeginDecision(w, a, v) ==
    /\ writer[w].pc = "idle"
    /\ clock < MaxClock
    /\ clock' = clock + 1
    /\ writer' = [writer EXCEPT ![w] = [pc |-> "decide", tenant |-> None, app |-> a,
                                        version |-> v, type |-> "module",
                                        at |-> clock + 1]]
    /\ UNCHANGED <<tables, editor>>

ProvenanceOfAnyDecision(a, v, action) ==    \* mutant: not only when publishing
    v

\* Publishing, and nothing else, makes the manifest the app's description.
ProvenanceAfter(a, v, action) ==
    IF action = "publish" THEN v ELSE apps[a].provenance

\* DecideVersion: status, provenance, trail and revision in one transaction; a
\* version that does not exist is a 404.  The status it had is not looked at.
DecideVersion(w, action) ==
    LET q == writer[w]
        a == q.app
        v == q.version
    IN  /\ q.pc = "decide"
        /\ versions[a][v] # NoVersion
        /\ versions' = [versions EXCEPT ![a][v].status = StatusOf(action)]
        /\ apps' = [apps EXCEPT ![a].provenance = ProvenanceAfter(a, v, action)]
        /\ trail' = [trail EXCEPT ![a][v] = Append(@, [action |-> action, at |-> q.at])]
        /\ bumpRevision
        /\ writer' = [writer EXCEPT ![w] = IdleWriter]
        /\ UNCHANGED <<publishers, trans, external, clock, editor>>

\* A handler ends without a commit: a unique column refused the row, the
\* version does not exist, a statement failed, the client left, or the process
\* died.
Rollback(w) ==
    /\ writer[w].pc # "idle"
    /\ writer' = [writer EXCEPT ![w] = IdleWriter]
    /\ UNCHANGED <<tables, clock, editor>>

Next ==
    \/ \E t \in Tenants : SaveProfile(t)
    \/ \E t \in Tenants, verified \in {"verified", "unverified"} :
          SetPublisherVerified(t, verified)
    \/ \E w \in Writers :
          \/ \E t \in Tenants, a \in Apps : CheckOwner(w, t, a)
          \/ \E visibility \in {"public", "private"}, text \in Texts,
                type \in Types, t \in Texts \cup {None} :
                UpsertApp(w, visibility, text, type, t)
          \/ \E t \in Tenants, a \in Apps, v \in Versions : OwnApp(w, t, a, v)
          \/ SubmitVersion(w)
          \/ \E a \in Apps, v \in Versions : BeginDecision(w, a, v)
          \/ \E action \in Actions : DecideVersion(w, action)
          \/ Rollback(w)

Spec == Init /\ [][Next]_vars

------------------------------------------------------------------------------
(* Properties.                                                             *)

\* What the catalogue query reads of the tables.
Source == INSTANCE CatalogSource WITH
    app <- [a \in Apps |-> [visibility |-> apps[a].visibility, text |-> apps[a].text]],
    published <- [a \in Apps |-> {v \in Versions : versions[a][v].status = "published"}]

\* The write side implements CatalogSource: however handlers interleave, every
\* commit that changes what a catalogue would say moves the revision by one in
\* the same commit, and a submission changes nothing a catalogue would say.
ImplementsSource == Source!SourceSpec

\* The actions recorded for a version.
Recorded(a, v) == {trail[a][v][i].action : i \in DOMAIN trail[a][v]}

\* "Doing this at submission instead would let an unreviewed manifest rewrite
\* the licence and the author list of an app that is already published": an
\* app's provenance comes from a manifest some reviewer published, and it has
\* one as soon as any version of it is published.
ProvenanceReviewed ==
    \A a \in Apps :
        /\ apps[a].provenance # 0 => "publish" \in Recorded(a, apps[a].provenance)
        /\ (\E v \in Versions : versions[a][v].status = "published")
              => apps[a].provenance # 0

\* "Every outcome is recorded": the trail of a version starts with its
\* submission, which nothing else repeats, and the last decision to commit is
\* the status the version has.
OutcomesRecorded ==
    \A a \in Apps, v \in Versions :
        LET t == trail[a][v]
            n == Len(t)
        IN  /\ \A i \in 1..n : t[i].action = "submitted" <=> i = 1
            /\ versions[a][v].status =
                   (IF n = 0 THEN "unused"
                    ELSE IF n = 1 THEN "in_review" ELSE StatusOf(t[n].action))

\* "An app belongs to whoever registered it": every version in the registry
\* was submitted by the publisher the app belongs to, though ownApp was asked
\* an arbitrary time before the insert, and although two publishers may
\* register one id at the same time.
SubmittedByOwner ==
    \A a \in Apps, v \in Versions :
        versions[a][v] # NoVersion => versions[a][v].submitter = apps[a].owner

\* "The publisher may not be changed by an update."
OwnerIsForever ==
    [][\A a \in Apps : apps[a] # NoEntry => apps'[a].owner = apps[a].owner]_vars

------------------------------------------------------------------------------
(* What the repository says and the code does not do.                      *)

\* "An app belongs to whoever registered it": the entry was last written by
\* the publisher the app belongs to.
OnlyOwnerEdits ==
    \A a \in Apps : apps[a] # NoEntry => editor[a] = apps[a].owner

\* "ReviewHistory returns what has happened to a version", ordered by
\* created_at: the latest event is the one the status comes from.
HistoryEndsInStatus ==
    \A a \in Apps, v \in Versions :
        \A i \in DOMAIN trail[a][v] :
            (\A j \in DOMAIN trail[a][v] : trail[a][v][j].at <= trail[a][v][i].at)
                /\ trail[a][v][i].action # "submitted"
              => versions[a][v].status = StatusOf(trail[a][v][i].action)
==============================================================================
