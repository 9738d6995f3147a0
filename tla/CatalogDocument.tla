--------------------------- MODULE CatalogDocument ---------------------------
(***************************************************************************)
(* The document build() assembles from the tables as they stand: what a    *)
(* catalogue lists for a channel, a platform version and an audience.      *)
(* CatalogService caches and serves it, Selection looks at how it is       *)
(* chosen.  A document is what was read to build it: `rows` comes from the *)
(* catalogue query, `texts` from the AppTexts queries that follow.         *)
(***************************************************************************)
EXTENDS CatalogSource

CONSTANTS
    Channels,         \* "stable", "beta"
    PlatformVersions, \* the ?platform= values that parse as semver
    Offers            \* <<app, version, key>>: that version of the app is on
                      \* the key's channel and platformAllows the key's platform

\* What a request asks for: ?channel= and ?platform=.
Keys == Channels \X PlatformVersions

ChosenInSQL(a, k) ==                    \* mutant: the newest, then the platform
    LET newest == {v \in published[a] : \A w \in published[a] : w <= v}
    IN  IF \E v \in newest : <<a, v, k>> \in Offers
          THEN CHOOSE v \in newest : TRUE ELSE 0

\* The newest published version the key's platform can run, 0 if none.
Chosen(a, k) ==
    LET runnable == {v \in published[a] : <<a, v, k>> \in Offers}
    IN  IF runnable = {} THEN 0
        ELSE CHOOSE v \in runnable : \A w \in runnable : w <= v

ListedWithoutVersions(a, k, G) ==       \* mutant: LEFT JOIN for JOIN
    app[a].visibility = "public" \/ a \in G

\* The catalogue query's WHERE clause, for an audience granted G.
Listed(a, k, G) ==
    /\ app[a].visibility = "public" \/ a \in G
    /\ Chosen(a, k) # 0

NoRow == [version |-> 0, entry |-> NoApp]

CatalogRows(k, G) ==
    [a \in Apps |-> IF Listed(a, k, G)
                      THEN [version |-> Chosen(a, k), entry |-> app[a]]
                      ELSE NoRow]

CatalogTexts(k, G) ==
    [a \in Apps |-> IF Listed(a, k, G) THEN trans[a] ELSE None]

Catalogue(k, G) == [rows |-> CatalogRows(k, G), texts |-> CatalogTexts(k, G)]

\* The apps a document lists.
Lists(doc) == {a \in Apps : doc.rows[a] # NoRow}

EmptyDoc == [rows |-> [a \in Apps |-> NoRow], texts |-> [a \in Apps |-> None]]

Row == [version : Versions, entry : AppRow] \cup {NoRow}
Document == [rows : [Apps -> Row], texts : [Apps -> Texts \cup {None}]]
==============================================================================
