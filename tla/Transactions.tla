---------------------------- MODULE Transactions ----------------------------
(***************************************************************************)
(* The transactions of the write side, statement by statement.             *)
(*                                                                         *)
(* Publishing lets a transaction write everything at its commit.  Here     *)
(* each statement of UpsertApp, SubmitVersion and DecideVersion takes the  *)
(* row locks PostgreSQL takes for it, waits while another transaction      *)
(* holds them, computes what it writes from the rows as they are once it   *)
(* has them (READ COMMITTED), and keeps it to itself until the commit.     *)
(* The reads before the first write are the actions of Publishing.         *)
(*                                                                         *)
(* The tables, their unique columns and the lock a statement takes belong  *)
(* to the core's migrations and to PostgreSQL; store_apps.slug is unique,  *)
(* so an upsert, which sets it, excludes the foreign key checks of new     *)
(* versions as well.                                                       *)
(***************************************************************************)
EXTENDS Publishing, FiniteSets

CONSTANTS
    Slugs,  \* what an app may be called in the storefront's URLs
    Edits   \* what an upsert may say: [visibility, text, type, t], t being
            \* the translations that come with it, None for none

ASSUME TransactionsAssumption ==
    /\ None \notin Slugs \cup Entry \cup Version
    /\ Edits \subseteq [visibility : {"public", "private"}, text : Texts,
                        type : Types, t : Texts \cup {None}]

VARIABLES
    slug,    \* store_apps.slug of each app
    held,    \* row locks: <<transaction, row, mode>>
    tx       \* each transaction: statements left, inputs, uncommitted rows

txVars == <<vars, slug, held, tx>>

Statements == {"app", "slug", "texts", "version", "key", "external", "event",
               "state", "commit"}

\* entry, row, rev: the app row, version row and revision written, if any.
NoTx == [todo |-> << >>, edit |-> None, slug |-> None, action |-> None,
         entry |-> None, row |-> None, rev |-> 0]

TxInit ==
    /\ Init
    /\ slug = [a \in Apps |-> None]
    /\ held = {}
    /\ tx = [w \in Writers |-> NoTx]

------------------------------------------------------------------------------
(* The statements of a transaction, and the locks each of them takes.      *)

\* UpsertApp: the app row, its slug's place in the unique index, the
\* translations, the revision.
UpsertStatements == <<"app", "slug", "texts", "state", "commit">>

\* SubmitVersion: the version, its foreign key, the registration of an external
\* app, the event.
SubmitStatements(type) ==
    IF type = "external" THEN <<"version", "key", "external", "event", "commit">>
    ELSE <<"version", "key", "event", "commit">>

DecideBumpingFirst(action) ==           \* mutant: the revision is moved first
    IF action = "publish" THEN <<"version", "state", "app", "event", "commit">>
    ELSE <<"version", "state", "event", "commit">>

\* DecideVersion: the version, the app row if it publishes, the event, the
\* revision.
DecideStatements(action) ==
    IF action = "publish" THEN <<"version", "app", "event", "state", "commit">>
    ELSE <<"version", "event", "state", "commit">>

ReadThenWritten == {}                   \* mutant: revision + 1 computed in Go

\* UPDATE ... SET revision = revision + 1 locks the one row there is.
CounterLock == {<<<<"state", None>>, "update">>}

\* The statement w has to execute next.
Pending(w) == IF tx[w].todo = << >> THEN "none" ELSE Head(tx[w].todo)

\* The locks the next statement of w needs.  An upsert also holds, with the
\* row, the slug it replaces: whoever wants it waits for the outcome.
Locks(w) ==
    LET a == writer[w].app
        next == Pending(w)
        upserts == writer[w].pc = "upsert"
    IN  CASE next = "app" /\ upserts -> {<<<<"app", a>>, "update">>}
                 \cup {<<<<"slug", s>>, "update">> : s \in {slug[a]} \ {None}}
          [] next = "app" /\ ~upserts -> {<<<<"app", a>>, "no key update">>}
          [] next = "slug" -> {<<<<"slug", tx[w].slug>>, "update">>}
          [] next = "texts" -> {<<<<"text", a>>, "update">>}
          [] next = "version" -> {<<<<"version", <<a, writer[w].version>>>>, "update">>}
          [] next = "key" -> {<<<<"app", a>>, "key share">>}
          [] next = "external" -> {<<<<"external", a>>, "update">>}
          [] next = "state" -> CounterLock
          [] OTHER -> {}

\* A foreign key check tolerates other checks and updates that leave the keys.
Clash(m, n) == ~("key share" \in {m, n} /\ {m, n} \subseteq {"key share", "no key update"})

\* The transactions whose locks keep w from its next statement.
WaitsFor(w) ==
    {x \in Writers \ {w} :
        \E l \in Locks(w), h \in held : h[1] = x /\ h[2] = l[1] /\ Clash(h[3], l[2])}

\* Transaction w executes the statement: it has the locks, and keeps them.
Executes(w, statement) ==
    /\ Pending(w) = statement
    /\ WaitsFor(w) = {}
    /\ held' = held \cup {<<w, l[1], l[2]>> : l \in Locks(w)}
    /\ UNCHANGED <<vars, slug>>

\* What w goes on with, having written what it wrote.
Goes(w, t) == tx' = [tx EXCEPT ![w] = [t EXCEPT !.todo = Tail(@)]]

------------------------------------------------------------------------------
(* BEGIN, after the reads of the handler and of the store.                 *)

\* Bound: as many commits in flight as the revision leaves room for.
Room == revision + Cardinality({w \in Writers : writer[w].pc # "idle"}) < MaxRevision

Begins(w, todo, edit, s, action) ==
    /\ Room
    /\ tx' = [tx EXCEPT ![w] = [NoTx EXCEPT !.todo = todo, !.edit = edit,
                                            !.slug = s, !.action = action]]
    /\ UNCHANGED <<slug, held>>

BeginUpsert(w, t, a, edit, s) ==
    CheckOwner(w, t, a) /\ Begins(w, UpsertStatements, edit, s, None)

BeginSubmit(w, t, a, v) ==
    OwnApp(w, t, a, v) /\ Begins(w, SubmitStatements(apps[a].type), None, None, None)

BeginDecide(w, a, v, action) ==
    BeginDecision(w, a, v) /\ Begins(w, DecideStatements(action), None, None, action)

------------------------------------------------------------------------------
(* The statements.                                                         *)

\* INSERT INTO store_apps ... ON CONFLICT (id) DO UPDATE.
WriteApp(w) ==
    LET a == writer[w].app
        e == tx[w].edit
    IN  /\ writer[w].pc = "upsert"
        /\ Executes(w, "app")
        /\ Goes(w, [tx[w] EXCEPT !.entry =
               [owner |-> OwnerAfter(a, writer[w].tenant), visibility |-> e.visibility,
                text |-> e.text, type |-> e.type, provenance |-> apps[a].provenance]])

\* The app whose slug it is has the right to it.
SlugIsFree(w) == \A b \in Apps \ {writer[w].app} : slug[b] # tx[w].slug

TakeSlug(w) == SlugIsFree(w) /\ Executes(w, "slug") /\ Goes(w, tx[w])

WriteTexts(w) == Executes(w, "texts") /\ Goes(w, tx[w])

\* INSERT INTO store_app_versions; its unique index and its foreign key.
InsertVersion(w) ==
    LET q == writer[w]
    IN  /\ q.pc = "submit"
        /\ NumberIsFree(q.app, q.version)
        /\ Executes(w, "version")
        /\ Goes(w, [tx[w] EXCEPT !.row = [status |-> StatusAtSubmission, type |-> q.type,
                                          submitter |-> q.tenant]])

CheckKey(w) == Executes(w, "key") /\ Goes(w, tx[w])

\* INSERT INTO store_external_registrations ... ON CONFLICT (app_id) DO UPDATE.
Register(w) == Executes(w, "external") /\ Goes(w, tx[w])

\* UPDATE store_app_versions SET status.
UpdateStatus(w) ==
    LET row == versions[writer[w].app][writer[w].version]
    IN  /\ writer[w].pc = "decide"
        /\ row # NoVersion
        /\ Executes(w, "version")
        /\ Goes(w, [tx[w] EXCEPT !.row = [row EXCEPT !.status = StatusOf(tx[w].action)]])

\* UPDATE store_apps, with what the published manifest says.
UpdateProvenance(w) ==
    LET q == writer[w]
    IN  /\ q.pc = "decide"
        /\ Executes(w, "app")
        /\ Goes(w, [tx[w] EXCEPT !.entry = [apps[q.app] EXCEPT !.provenance =
                        ProvenanceAfter(q.app, q.version, tx[w].action)]])

InsertEvent(w) == Executes(w, "event") /\ Goes(w, tx[w])

BumpRevision(w) == Executes(w, "state") /\ Goes(w, [tx[w] EXCEPT !.rev = revision + 1])

\* A unique column or a missing row refuses the statement, once whoever may
\* change that is done: ErrConflict, ErrNotFound.
Refused(w) ==
    LET q == writer[w]
        row == versions[q.app][q.version]
        next == Pending(w)
    IN  /\ WaitsFor(w) = {}
        /\ \/ next = "slug" /\ ~SlugIsFree(w)
           \/ next = "version" /\ q.pc = "submit" /\ ~NumberIsFree(q.app, q.version)
           \/ next = "version" /\ q.pc = "decide" /\ row = NoVersion

LeakedOnError(w) ==                     \* mutant: no deferred Rollback
    IF Pending(w) = "commit" THEN {h \in held : h[1] # w} ELSE held

\* The locks left when a transaction ends; an early return ends it as well,
\* by the deferred Rollback.
Released(w) == {h \in held : h[1] # w}

Ends(w) ==
    /\ tx' = [tx EXCEPT ![w] = NoTx]
    /\ held' = Released(w)

Aborts(w) == Rollback(w) /\ Ends(w) /\ UNCHANGED slug

Refuse(w) == Refused(w) /\ Aborts(w)

\* COMMIT: what the transaction wrote replaces what the tables held.
Commit(w) ==
    LET q == writer[w]
        t == tx[w]
        a == q.app
        upserts == q.pc = "upsert"
    IN  /\ Pending(w) = "commit"
        /\ apps' = [apps EXCEPT ![a] = IF t.entry = None THEN @ ELSE t.entry]
        /\ slug' = [slug EXCEPT ![a] = IF upserts THEN t.slug ELSE @]
        /\ trans' = [trans EXCEPT ![a] = IF upserts /\ t.edit.t # None THEN t.edit.t ELSE @]
        /\ versions' = IF t.row = None THEN versions
                       ELSE [versions EXCEPT ![a][q.version] = t.row]
        /\ external' = [external EXCEPT ![a] =
               IF q.pc = "submit" /\ q.type = "external" THEN q.version ELSE @]
        /\ trail' = IF upserts THEN trail
                    ELSE [trail EXCEPT ![a][q.version] = Append(@,
                             [action |-> IF q.pc = "submit" THEN "submitted" ELSE t.action,
                              at |-> q.at])]
        /\ revision' = IF t.rev = 0 THEN revision ELSE t.rev
        /\ editor' = [editor EXCEPT ![a] = IF upserts THEN q.tenant ELSE @]
        /\ writer' = [writer EXCEPT ![w] = IdleWriter]
        /\ Ends(w)
        /\ UNCHANGED <<publishers, clock>>

------------------------------------------------------------------------------
\* Some transactions wait for each other, and w is one of them.
InCycle(w) ==
    \E W \in SUBSET Writers : w \in W /\ \A x \in W : WaitsFor(x) \cap W # {}

\* After deadlock_timeout PostgreSQL looks for such a cycle and fails one of
\* its statements; the handler answers 500.
DetectDeadlock(w) == InCycle(w) /\ Aborts(w)

Step(w) ==
    \/ WriteApp(w) \/ TakeSlug(w) \/ WriteTexts(w)
    \/ InsertVersion(w) \/ CheckKey(w) \/ Register(w)
    \/ UpdateStatus(w) \/ UpdateProvenance(w)
    \/ InsertEvent(w) \/ BumpRevision(w) \/ Refuse(w) \/ Commit(w)

TxNext ==
    \/ /\ \/ \E t \in Tenants : SaveProfile(t)
          \/ \E t \in Tenants, verified \in {"verified", "unverified"} :
                SetPublisherVerified(t, verified)
       /\ UNCHANGED <<slug, held, tx>>
    \/ \E w \in Writers :
          \/ \E t \in Tenants, a \in Apps, edit \in Edits, s \in Slugs :
                BeginUpsert(w, t, a, edit, s)
          \/ \E t \in Tenants, a \in Apps, v \in Versions : BeginSubmit(w, t, a, v)
          \/ \E a \in Apps, v \in Versions, action \in Actions : BeginDecide(w, a, v, action)
          \/ Step(w)
          \/ Aborts(w)
          \/ DetectDeadlock(w)

\* PostgreSQL queues those who wait for a row, so that a transaction that can
\* have its turn again and again gets it, and looks for cycles.
TxSpec ==
    /\ TxInit /\ [][TxNext]_txVars
    /\ \A w \in Writers : SF_txVars(Step(w))
    /\ WF_txVars(\E w \in Writers : DetectDeadlock(w))

------------------------------------------------------------------------------
(* Properties.                                                             *)

\* The rows there are to lock, and the ways to lock them.
RowNames ==
    ({"app", "text", "external"} \X Apps) \cup ({"slug"} \X Slugs)
       \cup ({"version"} \X (Apps \X Versions)) \cup {<<"state", None>>}

Modes == {"update", "no key update", "key share"}

\* Every lock is some transaction's on some row, and every transaction has
\* written what its tables may hold, or nothing.
TxTypeOK ==
    /\ TypeOK
    /\ slug \in [Apps -> Slugs \cup {None}]
    /\ held \subseteq Writers \X RowNames \X Modes
    /\ tx \in [Writers -> [todo : Seq(Statements), edit : Edits \cup {None},
                           slug : Slugs \cup {None}, action : Actions \cup {None},
                           entry : Entry \cup {None}, row : Version \cup {None},
                           rev : 0..MaxRevision]]

\* The transactions are what Publishing says they are: what a statement found
\* when it took its locks still holds at the commit, so that no commit undoes
\* another's work, and every bump counts.
ImplementsPublishing == Spec

\* The statements of all handlers lock rows in one order (version, app, its
\* other rows, revision), so the only deadlock there is to detect is that of
\* upserts that want each other's slugs.
OnlySlugsDeadlock ==
    \A w \in Writers :
        InCycle(w) => \E x \in Writers : InCycle(x) /\ Pending(x) = "slug"

\* No handler waits for ever: not for a row, not in a cycle, and not for a
\* transaction whose handler has returned.
EveryHandlerReturns == \A w \in Writers : writer[w].pc # "idle" ~> writer[w].pc = "idle"
==============================================================================
