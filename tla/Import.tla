------------------------------- MODULE Import -------------------------------
(***************************************************************************)
(* The import tool: an older registry is copied into this one.             *)
(*                                                                         *)
(* A run reads the old registry (source) table by table, each table in a   *)
(* query of its own, while the old registry goes on working, and writes    *)
(* what it read in one transaction of this one (target), which may have    *)
(* work of its own between two runs.  Runs are interrupted, refused and    *)
(* run again.                                                              *)
(*                                                                         *)
(* Rows of the two registries are told apart by their ids: those of        *)
(* publishers and versions are generated, those of apps are chosen by      *)
(* people and may coincide.  A row's `of` is the row it refers to.         *)
(***************************************************************************)
EXTENDS Naturals, Sequences

CONSTANTS
    Apps, Entries,       \* app ids, and what CatalogSource sees of an app row
    AppSlugs,            \* the names apps have in storefront URLs
    Versions, Texts,     \* version numbers, translations
    Born,                \* ids of the source's publishers, in created_at order
    Local,               \* ids of the target's own publishers
    SourceIds, LocalIds, \* ids of the source's and of the target's versions
    Slugs, Emails,       \* handles of publishers and tenants; owners
    Tenants, Users,      \* the platform's tenants and accounts at the start
    None, MaxRevision,
    MaxWork              \* bound: transactions of the registries, and runs
                         \* interrupted

ASSUME ImportAssumption ==
    /\ Versions \subseteq Nat \ {0}
    /\ MaxRevision \in Nat
    /\ None \notin Emails \cup Texts
    /\ Entries \subseteq [visibility : {"public", "private"}, text : Texts]
    /\ Len(Born) \in Nat /\ DOMAIN Born = 1..Len(Born)
    /\ \A n \in DOMAIN Born : Born[n] \notin Local
    /\ SourceIds \cap LocalIds = {}
    /\ Tenants \subseteq Slugs /\ Users \subseteq Emails

VARIABLES
    source, target,  \* the tables of the two registries: sets of rows
    tenants, users,  \* the platform's tenants and accounts
    roles,           \* the tenants that have an admin role
    members, admins, \* memberships <<tenant, e-mail>>; those with that role
    revision,        \* store_registry_state.revision of the target
    run,             \* the import in progress: tables read, and what they held
    worked           \* what counts towards MaxWork so far

accountVars == <<tenants, users, roles, members, admins>>
vars == <<source, target, accountVars, revision, run, worked>>

OrderTrailFirst ==                      \* mutant: the trail before the versions
    <<"publishers", "apps", "events", "versions", "texts", "externals">>

\* The order in which a run reads the tables.
Order == <<"publishers", "apps", "versions", "texts", "externals", "events">>

Tables == {Order[n] : n \in DOMAIN Order}

\* The table that a table's `of` refers to.
Parent == [apps |-> "publishers", versions |-> "apps", texts |-> "apps",
           externals |-> "apps", events |-> "versions"]

Empty == [table \in Tables |-> {}]

IdsOf(rows) == {r.id : r \in rows}

NoRun == [pc |-> "idle", dryRun |-> FALSE, read |-> 0, rows |-> Empty, roles |-> {}]

\* Ids and slugs are unique.
Keyed(rows) == \A r, s \in rows : r.id = s.id \/ r.slug = s.slug => r = s

\* The old registry has publishers, the first of Born, with apps, and this one
\* nothing yet; the platform has tenants, with roles or not, and people.
Init ==
    /\ \E publishers \in SUBSET [id : {Born[n] : n \in DOMAIN Born}, tenant : {None},
                                 slug : Slugs, email : Emails \cup {None}] :
          /\ Keyed(publishers)
          /\ \A n \in DOMAIN Born : Born[n] \in IdsOf(publishers) =>
                \A m \in 1..n : Born[m] \in IdsOf(publishers)
          /\ \E apps \in SUBSET [id : Apps, of : IdsOf(publishers), slug : AppSlugs,
                                 entry : Entries] :
                /\ Keyed(apps)
                /\ source = [Empty EXCEPT !["publishers"] = publishers, !["apps"] = apps]
    /\ target = Empty
    /\ tenants = Tenants
    /\ users = Users
    /\ roles \in SUBSET Tenants
    /\ members = {}
    /\ admins = {}
    /\ revision = 0
    /\ run = NoRun
    /\ worked = 0

------------------------------------------------------------------------------
(* The work of a registry, the old one or this one.                        *)

With(reg, table, row) == [reg EXCEPT ![table] = @ \cup {row}]

\* INSERT ... ON CONFLICT (id) DO UPDATE.
Put(reg, table, row) == [reg EXCEPT ![table] = {r \in @ : r.id # row.id} \cup {row}]

\* UpsertApp registers an app for one of the publishers, or edits one of theirs,
\* under a slug no other app has, and may write a translation with it.
Upserted(reg) ==
    LET rows == {row \in [id : Apps, of : IdsOf(reg["publishers"]), slug : AppSlugs,
                          entry : Entries] :
                    \A r \in reg["apps"] : IF r.id = row.id THEN r.of = row.of
                                           ELSE r.slug # row.slug}
        text(row, t) == [id |-> row.id, of |-> row.id, text |-> t]
    IN  {Put(reg, "apps", row) : row \in rows}
          \cup {Put(Put(reg, "apps", row), "texts", text(row, t)) : row \in rows, t \in Texts}

Statuses == {"in_review", "published", "rejected", "yanked"}

\* The event a status comes from.
ActionOf(status) == CASE status = "in_review" -> "submitted"
                      [] status = "published" -> "publish"
                      [] status = "rejected"  -> "reject"
                      [] status = "yanked"    -> "yank"

EventOf(i, status) == [id |-> <<i, ActionOf(status)>>, of |-> i]

\* SubmitVersion: a number the app does not have yet, the first event of its
\* trail, and the registration if the app is an external one.
Submitted(reg, ids) ==
    LET free == {v \in [id : ids \ IdsOf(reg["versions"]), of : IdsOf(reg["apps"]),
                        number : Versions, status : {"in_review"}] :
                    ~\E w \in reg["versions"] : w.of = v.of /\ w.number = v.number}
        submitted(v) == With(With(reg, "versions", v), "events", EventOf(v.id, v.status))
    IN  {submitted(v) : v \in free}
          \cup {With(submitted(v), "externals", [id |-> v.of, of |-> v.of]) : v \in free}

\* DecideVersion: status and event in one transaction.
Decided(reg) ==
    {With([reg EXCEPT !["versions"] = (@ \ {v}) \cup {[v EXCEPT !.status = status]}],
          "events", EventOf(v.id, status)) :
        v \in reg["versions"], status \in Statuses \ {"in_review"}}

\* Profiles are created, under a handle nobody else has, and renamed.
Profiled(reg, id, tenant, email) ==
    LET own == {p \in reg["publishers"] : p.id = id}
        free == Slugs \ {p.slug : p \in reg["publishers"] \ own}
        rows == IF own = {} THEN [id : {id}, tenant : {tenant}, slug : free, email : {email}]
                ELSE {[p EXCEPT !.slug = slug] : p \in own, slug \in free}
    IN  {[reg EXCEPT !["publishers"] = (@ \ own) \cup {row}] : row \in rows}

Work == worked < MaxWork /\ worked' = worked + 1

\* The old registry "keeps serving until the cutover".
SourceWorks ==
    /\ \/ \E n \in DOMAIN Born, email \in Emails \cup {None} :
             /\ \A m \in 1..(n - 1) : Born[m] \in IdsOf(source["publishers"])
             /\ source' \in Profiled(source, Born[n], None, email)
       \/ source' \in Upserted(source) \cup Submitted(source, SourceIds)
                        \cup Decided(source)
    /\ source' # source
    /\ Work
    /\ UNCHANGED <<target, accountVars, revision, run>>

\* Between two runs a tenant makes or edits its one profile, and versions are
\* submitted.
TargetWorks ==
    /\ run.pc = "idle"
    /\ \/ \E tenant \in tenants, q \in Local \cup IdsOf(target["publishers"]) :
             /\ \A p \in target["publishers"] : p.tenant = tenant <=> p.id = q
             /\ target' \in Profiled(target, q, tenant, None)
       \/ target' \in Submitted(target, LocalIds)
    /\ target' # target
    /\ Work
    /\ UNCHANGED <<source, accountVars, revision, run>>

\* Between two runs an app is registered or edited, a version decided on.
TargetPublishes ==
    /\ run.pc = "idle"
    /\ revision < MaxRevision
    /\ target' \in Upserted(target) \cup Decided(target)
    /\ revision' = revision + 1
    /\ Work
    /\ UNCHANGED <<source, accountVars, run>>

\* At some time the platform sets up the roles of a tenant, one that a run
\* created or any other.
SetUpRoles ==
    /\ \E tenant \in tenants \ roles : roles' = roles \cup {tenant}
    /\ UNCHANGED <<source, target, tenants, users, members, admins, revision, run, worked>>

------------------------------------------------------------------------------
(* The publishers of a run, one after the other.                           *)

\* What the loop over the publishers starts from: the platform's accounts, the
\* target's publishers, and no statement refused so far.
Loop == [ok |-> TRUE, tenants |-> tenants, users |-> users, members |-> members,
         admins |-> admins, publishers |-> target["publishers"]]

\* INSERT ... SELECT ... WHERE r.code = 'admin': nothing where there is no such
\* role, and no error.
Granted(pair) == {pair} \cap (run.roles \X Emails)

NewMembersGranted(s, pair) ==           \* mutant: the role with a new membership
    [s EXCEPT !.members = @ \cup {pair},
              !.admins = @ \cup (Granted(pair) \ s.members)]

JoinsOnce(s, pair) ==                   \* mutant: DO NOTHING RETURNING id
    [s EXCEPT !.ok = @ /\ pair \notin s.members,
              !.members = @ \cup {pair}, !.admins = @ \cup Granted(pair)]

\* ensureAdminMembership: a member, and an admin if the tenant has that role.
\* Whoever is one already stays one.
Joins(s, pair) == [s EXCEPT !.members = @ \cup {pair}, !.admins = @ \cup Granted(pair)]

\* ensureTenant: the tenant that has the publisher's slug, found or created.
EnsureTenant(s, p) == [s EXCEPT !.tenants = @ \cup {p.slug}]

\* ensureUser: the account that has the e-mail, found or created.
EnsureUser(s, email) == [s EXCEPT !.users = @ \cup {email}]

\* An owner without an e-mail gets no account.
Owned(s, p) ==
    IF p.email = None THEN s
    ELSE EnsureUser(Joins(s, <<p.slug, p.email>>), p.email)

\* INSERT ... ON CONFLICT (id) DO UPDATE.  A tenant has one profile and a handle
\* is one profile's: the row is refused if another publisher has either.
WritePublisher(s, p) ==
    LET others == {o \in s.publishers : o.id # p.id}
    IN  [Owned(EnsureTenant(s, p), p) EXCEPT
           !.ok = @ /\ \A o \in others : p.slug \notin {o.tenant, o.slug},
           !.publishers = others \cup {[p EXCEPT !.tenant = p.slug]}]

\* The loop over the publishers that were read.
Publishers(rows) ==
    LET after[n \in 0..Len(Born)] ==
            IF n = 0 THEN Loop
            ELSE IF Born[n] \notin IdsOf(rows["publishers"]) THEN after[n - 1]
            ELSE WritePublisher(after[n - 1],
                                CHOOSE p \in rows["publishers"] : p.id = Born[n])
    IN  after[Len(Born)]

------------------------------------------------------------------------------
(* A run.                                                                  *)

Overwritten(here, there) ==             \* mutant: ON CONFLICT DO UPDATE
    {r \in here : r.id \notin IdsOf(there)} \cup there

\* ON CONFLICT DO NOTHING: a row whose id is there already stays as it is.
Merged(here, there) == here \cup {r \in there : r.id \notin IdsOf(here)}

\* What the run makes of the target's tables.
Copied(rows) ==
    [table \in Tables |-> IF table = "publishers" THEN Publishers(rows).publishers
                          ELSE Merged(target[table], rows[table])]

\* No statement is refused: every row refers to one that is there, an app has a
\* slug of its own (only the id is in ON CONFLICT) and one version of a number.
Accepted(rows) ==
    LET copied == Copied(rows)
    IN  /\ Publishers(rows).ok
        /\ \A table \in DOMAIN Parent :
              \A r \in copied[table] : r.of \in IdsOf(copied[Parent[table]])
        /\ \A a, b \in copied["apps"] : a.slug = b.slug => a = b
        /\ \A v, w \in copied["versions"] : v.of = w.of /\ v.number = w.number => v = w

\* BEGIN.  -dry-run is the default.
Begin(dryRun) ==
    /\ run.pc = "idle"
    /\ dryRun \/ revision < MaxRevision
    /\ run' = [NoRun EXCEPT !.pc = "running", !.dryRun = dryRun]
    /\ UNCHANGED <<source, target, accountVars, revision, worked>>

\* The next table is read; each query sees what is committed by then.  The loop
\* over the publishers follows their query, and finds the roles there are then.
Read(table) ==
    /\ run.pc = "running"
    /\ run.read < Len(Order)
    /\ Order[run.read + 1] = table
    /\ run' = [run EXCEPT !.read = @ + 1, !.rows[table] = source[table],
                          !.roles = IF table = "publishers" THEN roles ELSE @]
    /\ UNCHANGED <<source, target, accountVars, revision, worked>>

LeftAlone ==                            \* mutant: a copy moves no revision
    revision

\* UPDATE ... SET revision = revision + 1, the last statement of a run.
Bumped == revision + 1

\* The revision is moved and the transaction committed.
Commit ==
    /\ run.pc = "running"
    /\ run.read = Len(Order)
    /\ ~run.dryRun
    /\ Accepted(run.rows)
    /\ target' = Copied(run.rows)
    /\ LET loop == Publishers(run.rows)
       IN  /\ tenants' = loop.tenants
           /\ users' = loop.users
           /\ members' = loop.members
           /\ admins' = loop.admins
    /\ revision' = Bumped
    /\ run' = NoRun
    /\ UNCHANGED <<source, roles, worked>>

\* A dry run, and one whose statement was refused, end without a commit.
Rollback ==
    /\ run.pc = "running"
    /\ run.read = Len(Order)
    /\ run.dryRun \/ ~Accepted(run.rows)
    /\ run' = NoRun
    /\ UNCHANGED <<source, target, accountVars, revision, worked>>

\* The timeout, a connection lost, a process killed.
Interrupt ==
    /\ run.pc = "running"
    /\ run' = NoRun
    /\ Work
    /\ UNCHANGED <<source, target, accountVars, revision>>

Next ==
    \/ SourceWorks
    \/ TargetWorks
    \/ TargetPublishes
    \/ SetUpRoles
    \/ \E dryRun \in BOOLEAN : Begin(dryRun)
    \/ \E table \in Tables : Read(table)
    \/ Commit
    \/ Rollback
    \/ Interrupt

\* A run goes on until it ends, and the import is run again and again.
Spec ==
    /\ Init /\ [][Next]_vars
    /\ WF_vars((\E table \in Tables : Read(table)) \/ Commit \/ Rollback)
    /\ SF_vars(Begin(FALSE))

------------------------------------------------------------------------------
(* Properties.                                                             *)

\* What CatalogSource sees of the target.
NoEntry == [visibility |-> "unregistered", text |-> None]

Row(table, id) == CHOOSE r \in target[table] : r.id = id

Source == INSTANCE CatalogSource WITH
    app <- [a \in Apps |-> IF a \in IdsOf(target["apps"])
                             THEN Row("apps", a).entry ELSE NoEntry],
    trans <- [a \in Apps |-> IF a \in IdsOf(target["texts"])
                               THEN Row("texts", a).text ELSE None],
    published <- [a \in Apps |-> {n \in Versions : \E v \in target["versions"] :
                     v.of = a /\ v.number = n /\ v.status = "published"}]

\* The third transaction CatalogSource knows of is this one: whatever the source
\* does meanwhile, and the target did between the runs, a run that changes what a
\* catalogue would say moves the revision in the same commit.
ImplementsSource == Source!SourceSpec

\* "Every write is conditional on what is already there": what was registered,
\* translated, submitted or decided in this registry since an earlier run is
\* kept by the next one.  Profiles are not: a run writes them again.
RunsOnlyAdd ==
    [][run.pc = "running" =>
          \A table \in Tables \ {"publishers"} : target[table] \subseteq target'[table]]_vars

\* "Every outcome is recorded", on this side of the import as well: every
\* version has the event its status comes from, although the two are read at
\* different times from a registry that goes on deciding, and although a later
\* run brings events and leaves the status.
StatusExplained ==
    \A v \in target["versions"] : EventOf(v.id, v.status) \in target["events"]

\* Only a run that commits moves the revision while it is in progress.
Finishes == run.pc = "running" /\ revision' # revision

\* "So somebody can act for the publisher the moment the import finishes": when a
\* run commits, the owner of every publisher that ever came with an e-mail has an
\* account, is a member of the tenant the publisher is by now, and is an admin if
\* that tenant had the role when the run came to the publishers, be it a tenant
\* that an earlier run created without.
OwnersCanAct ==
    [][Finishes => \A p \in target'["publishers"] :
          p.email # None =>
              /\ p.email \in users'
              /\ <<p.tenant, p.email>> \in members'
              /\ p.tenant \in run.roles => <<p.tenant, p.email>> \in admins']_vars

\* A row of the source that the target has no place for: another publisher is
\* the tenant or has the handle, another app has the slug (one of the target's
\* own, or one that came under the slug and was renamed in the source since),
\* another version has the number.
Clash ==
    \/ \E p \in source["publishers"], o \in target["publishers"] :
          o.id # p.id /\ p.slug \in {o.tenant, o.slug}
    \/ \E a \in source["apps"], b \in target["apps"] :
          a.id \notin IdsOf(target["apps"]) /\ a.slug = b.slug
    \/ \E v \in source["versions"], w \in target["versions"] :
          v.id # w.id /\ v.of = w.of /\ v.number = w.number

Arrived ==
    \A table \in Tables : IdsOf(source[table]) \subseteq IdsOf(target[table])

\* "It is safe to run twice ... an interrupted run is finished by running it
\* again": once the registries rest for long enough, every row of the source
\* arrives, unless the target has no place for one, however often a run was
\* interrupted before, or refused a row whose referent it had read too early.
\* (Two commits of the bound are left: one of what was read before the rest.)
EverythingArrives ==
    \A n \in 0..MaxWork :
        worked = n /\ revision + 2 <= MaxRevision ~> worked # n \/ Clash \/ Arrived
==============================================================================
