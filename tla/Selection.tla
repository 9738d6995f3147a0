------------------------------ MODULE Selection ------------------------------
(***************************************************************************)
(* The loop of build(): which version of an app a catalogue offers, and    *)
(* what generated_at says, while versions are published, yanked and        *)
(* imported.                                                               *)
(*                                                                         *)
(* A build scans the rows of its query, one iteration of the loop a step.  *)
(* Here version numbers may tie in precedence (semver build metadata) and  *)
(* a publication has a time: published_at is NOW(), the start of the       *)
(* deciding transaction, which may be long before its commit.  No two      *)
(* publications of one app share a microsecond.                            *)
(***************************************************************************)
EXTENDS CatalogDocument

CONSTANTS
    Rank,     \* [Versions -> Nat]: semver precedence
    Second,   \* ticks of published_at in one second of generated_at
    Start     \* the time a run starts at; the first second is the epoch

ASSUME SelectionAssumption ==
    /\ Rank \in [Versions -> Nat]
    /\ \A v, w \in Versions : v <= w => Rank[v] <= Rank[w]
    /\ Second \in Nat \ {0}
    /\ Start \in Nat

VARIABLES
    stamp,    \* store_app_versions.published_at, 0 for a version not published
    clock,    \* the time now
    scan      \* a build(), and the document it signed

vars == <<sourceVars, stamp, clock, scan>>

Times == 0..Start + MaxRevision
Rows == SUBSET (Apps \X Versions \X Times)

Scan == [pc : {"idle", "scan", "signed"}, key : Keys \cup {None},
         granted : SUBSET Apps,
         rev : 0..MaxRevision,                     \* the tables the query saw
         entries : [Apps -> AppRow \cup {NoApp}],
         rows : Rows,                              \* what the query returned
         todo : Rows,                              \* what rows.Next() has left
         chosen : [Apps -> Versions \cup {0}],
         generatedAt : Times,
         at : Nat]                                 \* generated_at, once signed

Idle == [pc |-> "idle", key |-> None, granted |-> {}, rev |-> 0,
         entries |-> [a \in Apps |-> NoApp], rows |-> {}, todo |-> {},
         chosen |-> [a \in Apps |-> 0], generatedAt |-> 0, at |-> 0]

TypeOK ==
    /\ SourceTypeOK
    /\ stamp \in [Apps -> [Versions -> Times]]
    /\ clock \in Times
    /\ scan \in Scan

\* An app's published versions have one published_at each.
Stamped(numbers, times, now) ==
    /\ \A v \in numbers : times[v] \in Second..now
    /\ \A v, w \in numbers : v # w => times[v] # times[w]

Init ==
    /\ SourceInit
    /\ clock = Start
    /\ stamp \in [Apps -> [Versions -> 0..Start]]
    /\ \A a \in Apps :
          /\ Stamped(published[a], stamp[a], Start)
          /\ \A v \in Versions \ published[a] : stamp[a][v] = 0
    /\ scan = Idle

------------------------------------------------------------------------------
(* What moves the tables.                                                  *)

Edit(a, visibility, text) ==
    /\ UpsertApp(a, visibility, text, None)
    /\ UNCHANGED <<stamp, clock, scan>>

\* DecideVersion sets published_at when it publishes, to any time up to now.
\* (It keeps the column otherwise, where nothing reads it.)
Decide(a, v, action, at) ==
    /\ DecideVersion(a, v, action)
    /\ at \in Second..clock + 1
    /\ clock' = IF at > clock THEN at ELSE clock
    /\ stamp' = [stamp EXCEPT ![a][v] = IF action = "publish" THEN at ELSE 0]
    /\ Stamped(published'[a], stamp'[a], clock')
    /\ UNCHANGED scan

\* The import tool copies published_at with the versions it inserts.
ImportVersions ==
    /\ Import
    /\ LET new == {e \in Apps \X Versions : e[2] \in published'[e[1]] \ published[e[1]]}
       IN  \E times \in [new -> Second..clock] :
              stamp' = [a \in Apps |-> [v \in Versions |->
                           IF <<a, v>> \in new THEN times[<<a, v>>] ELSE stamp[a][v]]]
    /\ \A a \in Apps : Stamped(published'[a], stamp'[a], clock)
    /\ UNCHANGED <<clock, scan>>

------------------------------------------------------------------------------
(* build().                                                                *)

\* The catalogue query: the published versions on the key's channel.
QueryRows(k, G) ==
    {<<e[1], e[2], stamp[e[1]][e[2]]>> : e \in
        {e \in Apps \X Versions :
            /\ app[e[1]].visibility = "public" \/ e[1] \in G
            /\ e[2] \in published[e[1]]
            /\ \E p \in PlatformVersions : <<e[1], e[2], <<k[1], p>>>> \in Offers}}

Query(k, G) ==
    /\ scan.pc = "idle"
    /\ scan' = [Idle EXCEPT !.pc = "scan", !.key = k, !.granted = G,
                            !.rev = revision, !.entries = app,
                            !.rows = QueryRows(k, G), !.todo = QueryRows(k, G)]
    /\ UNCHANGED <<sourceVars, stamp, clock>>

AnyRow(row) ==                          \* mutant: ORDER BY a.id
    TRUE

\* ORDER BY a.id, v.published_at: a row comes after the app's earlier ones.
\* (The apps themselves are taken in any order: nothing depends on it.)
IsNext(row) == \A other \in scan.todo : other[1] = row[1] => row[3] <= other[3]

LastOfEqualsWins(v, held) ==            \* mutant: not older, for newer
    Rank[v] >= Rank[held]

\* catalog.IsNewerVersion
IsNewerVersion(v, held) == Rank[v] > Rank[held]

\* One iteration: a version the platform cannot run is skipped, and one that
\* is not newer than the version held for its app.
ScanRow(row) ==
    LET a == row[1]
        v == row[2]
        held == scan.chosen[a]
    IN  /\ scan.pc = "scan"
        /\ row \in scan.todo
        /\ IsNext(row)
        /\ scan' =
              IF <<a, v, scan.key>> \in Offers /\ (held = 0 \/ IsNewerVersion(v, held))
                THEN [scan EXCEPT !.todo = @ \ {row}, !.chosen[a] = v,
                                  !.generatedAt = IF row[3] > @ THEN row[3] ELSE @]
                ELSE [scan EXCEPT !.todo = @ \ {row}]
        /\ UNCHANGED <<sourceVars, stamp, clock>>

ZeroTime(t) ==                          \* mutant: the zero time is formatted
    IF t = 0 THEN 0 - 1 ELSE t \div Second

\* SignDocument's generated_at: to the second, the epoch for no publication.
SignedAt(t) == IF t = 0 THEN 0 ELSE t \div Second

\* The apps array is assembled and signed.
Sign ==
    /\ scan.pc = "scan"
    /\ scan.todo = {}
    /\ scan' = [scan EXCEPT !.pc = "signed", !.at = SignedAt(scan.generatedAt)]
    /\ UNCHANGED <<sourceVars, stamp, clock>>

\* build() returns the document, or an error: a row does not scan, a manifest
\* does not decode, validation refuses.
Return ==
    /\ scan.pc # "idle"
    /\ scan' = Idle
    /\ UNCHANGED <<sourceVars, stamp, clock>>

Next ==
    \/ \E a \in Apps, visibility \in Visibilities, text \in Texts :
          Edit(a, visibility, text)
    \/ \E a \in Apps, v \in Versions, action \in Actions, at \in Times :
          Decide(a, v, action, at)
    \/ ImportVersions
    \/ \E k \in Keys, G \in SUBSET Apps : Query(k, G)
    \/ \E row \in scan.todo : ScanRow(row)
    \/ Sign
    \/ Return

Spec == Init /\ [][Next]_vars

------------------------------------------------------------------------------
(* Properties.                                                             *)

\* The rows of an app that the key's platform can run.
Runnable(a) == {row \in scan.rows : row[1] = a /\ <<a, row[2], scan.key>> \in Offers}

\* "An instance that cannot run a release should be offered the newest one it
\* can": whatever order publications happened in, each app is listed at its
\* greatest runnable version, the one published first where several are equal.
\* So two builds from the same tables list the same.
NewestRunnable ==
    scan.pc = "signed" =>
        \A a \in Apps :
            IF Runnable(a) = {} THEN scan.chosen[a] = 0
            ELSE \E row \in Runnable(a) :
                    /\ scan.chosen[a] = row[2]
                    /\ \A other \in Runnable(a) \ {row} :
                          \/ Rank[other[2]] < Rank[row[2]]
                          \/ Rank[other[2]] = Rank[row[2]] /\ other[3] > row[3]

\* The rows whose version the document shows.
Shown == {row \in scan.rows : scan.chosen[row[1]] = row[2]}

\* "generated_at is the newest publication in the document", to the second,
\* though the loop looks only at the rows it takes and replaces some of those.
GeneratedAtNewest ==
    scan.pc = "signed" =>
        IF Shown = {} THEN scan.at = 0
        ELSE \E row \in Shown : /\ scan.at = row[3] \div Second
                               /\ \A other \in Shown : other[3] <= row[3]

\* What CatalogDocument says of the tables is what the loop computes from
\* them, up to the versions of equal precedence that it leaves out.
AgreesWithDocument ==
    scan.pc = "signed" /\ scan.rev = revision =>
        \A a \in Apps :
            LET row == CatalogRows(scan.key, scan.granted)[a]
            IN  /\ row = NoRow <=> scan.chosen[a] = 0
                /\ row # NoRow => /\ row.entry = scan.entries[a]
                                  /\ Rank[row.version] = Rank[scan.chosen[a]]

\* "It made an app disappear from the catalogue of every older instance the
\* moment a newer one was published": a publication takes no app out of any
\* platform's catalogue and lowers no version there.
PublishingHidesNothing ==
    [][(\A a \in Apps : published[a] \subseteq published'[a]) =>
          \A a \in Apps, k \in Keys : Chosen(a, k) <= Chosen(a, k)']_vars

------------------------------------------------------------------------------
(* What the repository says and the code does not do.                      *)

\* generated_at of a document built from the tables as they stand.
GeneratedNow(k, G) ==
    LET times == {stamp[a][Chosen(a, k)] : a \in {b \in Apps : Listed(b, k, G)}}
    IN  IF times = {} THEN 0
        ELSE SignedAt(CHOOSE t \in times : \A u \in times : u <= t)

\* "generated_at is inside it so a captured older catalogue cannot be replayed
\* at an instance as if it were current": a document that is not the catalogue
\* any more says an earlier time than the catalogue does.
OlderLooksOlder ==
    scan.pc = "signed" =>
        LET now == CatalogRows(scan.key, scan.granted)
        IN  (\E a \in Apps : now[a].version # scan.chosen[a])
              => scan.at < GeneratedNow(scan.key, scan.granted)
==============================================================================
