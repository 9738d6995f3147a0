--------------------------- MODULE CatalogService ---------------------------
(***************************************************************************)
(* The catalogue endpoint and everything it races with.                    *)
(*                                                                         *)
(* Any number of handlers run at once (Reqs for GET /catalog, Ops for the  *)
(* gated operator endpoints), next to the publishing transactions of       *)
(* CatalogSource.  The handlers open no transaction: each SQL statement    *)
(* commits alone, so each statement is an action of its own and anything   *)
(* may happen between two of them.  A document is what was read to build   *)
(* it: `rows` comes from the catalogue query, `texts` from the AppTexts    *)
(* queries that follow.  Signing is the key the document was signed with;  *)
(* the ETag is a digest of the document and adds nothing to it.            *)
(***************************************************************************)
EXTENDS CatalogDocument, FiniteSets

CONSTANTS
    Platforms,        \* deployments that may be registered; each has its token
    MaxSnapshots,     \* maxSnapshotsPerChannel
    SigningKeys,      \* values APPSTORE_SIGNING_KEY may have
    Reqs, Ops,        \* handlers that may be in flight at once
    Faults            \* which failures a run includes, out of FaultKinds

\* "save", "prune", "discard", "touch": that statement fails, the handler logs
\* it and carries on.  "abort": a statement fails, or validation does, and the
\* handler answers 500.  "restart": the process dies with all its handlers.
FaultKinds == {"save", "prune", "discard", "touch", "abort", "restart"}

ASSUME ServiceAssumption ==
    /\ None \notin Platforms \cup SigningKeys \cup Texts
    /\ MaxSnapshots \in Nat \ {0}
    /\ Faults \subseteq FaultKinds

VARIABLES
    platforms,     \* store_platforms: unregistered, enabled or disabled
    lastSeen,      \* store_platforms: those whose last_seen_at is set
    grants,        \* store_app_grants: pairs <<app, platform>>
    publicCache,   \* store_catalog_snapshots
    newer,         \* its built_at order: <<j, k>> if j was saved after k
    privateCache,  \* store_private_snapshots
    signer,        \* the key the running process signs with, None without one
    req,           \* GET /catalog handlers
    op,            \* operator handlers
    everGranted,   \* history: every pair that was ever in grants
    rotated        \* history: the key changed and nobody has rebuilt since

audienceVars == <<platforms, lastSeen, grants, everGranted>>
cacheVars == <<publicCache, newer, privateCache>>
processVars == <<signer, rotated>>
vars == <<sourceVars, audienceVars, cacheVars, processVars, req, op>>

------------------------------------------------------------------------------
Snapshot == [rev : 0..MaxRevision, doc : Document,
             signed : SigningKeys \cup {None}]

\* An absent row is not a document.
ASSUME SnapshotAssumption == None \notin Snapshot

ReqStates == {"idle", "grants", "revision", "load", "build", "texts",
              "prune", "done"}

Request == [pc : ReqStates,
            platform : Platforms \cup {None},   \* Audience.PlatformID
            granted : SUBSET Apps,              \* Audience.AppIDs
            key : Keys \cup {None},             \* channel and platform asked for
            rev : 0..MaxRevision,               \* the revision Catalog() read
            doc : Document,                     \* the document so far
            todo : SUBSET Apps,                 \* listed, AppTexts not yet read
            signed : SigningKeys \cup {None}]

Operation == [pc : {"idle", "grant", "discard"},
              platform : Platforms \cup {None}, app : Apps \cup {None}]

IdleReq == [pc |-> "idle", platform |-> None, granted |-> {}, key |-> None,
            rev |-> 0, doc |-> EmptyDoc, todo |-> {}, signed |-> None]

IdleOp == [pc |-> "idle", platform |-> None, app |-> None]

TypeOK ==
    /\ SourceTypeOK
    /\ platforms \in [Platforms -> {"unregistered", "enabled", "disabled"}]
    /\ lastSeen \subseteq Platforms
    /\ grants \subseteq Apps \X Platforms
    /\ everGranted \subseteq Apps \X Platforms
    /\ publicCache \in [Keys -> Snapshot \cup {None}]
    /\ newer \subseteq Keys \X Keys
    /\ privateCache \in [Platforms -> [Keys -> Snapshot \cup {None}]]
    /\ signer \in SigningKeys \cup {None}
    /\ rotated \in BOOLEAN
    /\ req \in [Reqs -> Request]
    /\ op \in [Ops -> Operation]

Init ==
    /\ SourceInit
    /\ platforms = [p \in Platforms |-> "unregistered"]
    /\ lastSeen = {}
    /\ grants = {}
    /\ everGranted = {}
    /\ publicCache = [k \in Keys |-> None]
    /\ newer = {}
    /\ privateCache = [p \in Platforms |-> [k \in Keys |-> None]]
    /\ signer \in SigningKeys
    /\ rotated = FALSE
    /\ req = [r \in Reqs |-> IdleReq]
    /\ op = [o \in Ops |-> IdleOp]
------------------------------------------------------------------------------
(* GET /catalog.  One action per statement the handler executes.           *)

\* PlatformByToken: the token of a platform that is not enabled counts as none.
Recognised(p) == p # None /\ platforms[p] = "enabled"

\* handleCatalog up to PlatformByToken: with a signing key, a channel and a
\* platform that parse, and a token.  p = None stands for no token and for one
\* nobody holds.
Arrive(r, p, k) ==
    /\ req[r].pc = "idle"
    /\ signer # None
    /\ req' = [req EXCEPT ![r].pc = IF Recognised(p) THEN "grants" ELSE "revision",
                          ![r].platform = IF Recognised(p) THEN p ELSE None,
                          ![r].key = k]
    /\ UNCHANGED <<sourceVars, audienceVars, cacheVars, processVars, op>>

GrantedToAnyone(p) ==                   \* mutant: the query's WHERE is lost
    {a \in Apps : \E q \in Platforms : <<a, q>> \in grants}

GrantedAppIDs(p) == {a \in Apps : <<a, p>> \in grants}

\* AudienceFor's second query, then TouchPlatform.  A recognised platform with
\* no grants goes on as the anonymous audience, and is not touched.
ReadGrants(r) ==
    LET p == req[r].platform
        granted == GrantedAppIDs(p)
    IN  /\ req[r].pc = "grants"
        /\ req' = [req EXCEPT ![r].pc = "revision",
                              ![r].platform = IF granted = {} THEN None ELSE p,
                              ![r].granted = granted]
        /\ \/ lastSeen' = lastSeen \cup (IF granted = {} THEN {} ELSE {p})
           \/ "touch" \in Faults /\ lastSeen' = lastSeen
        /\ UNCHANGED <<sourceVars, platforms, grants, everGranted, cacheVars,
                       processVars, op>>

\* Catalog() reads the revision before anything it will be compared with.
ReadRevision(r) ==
    /\ req[r].pc = "revision"
    /\ req' = [req EXCEPT ![r].pc = "load", ![r].rev = revision]
    /\ UNCHANGED <<sourceVars, audienceVars, cacheVars, processVars, op>>

HeldByAnyone(p, k) ==                   \* mutant: one cache for every audience
    IF \E q \in Platforms : privateCache[q][k] # None
      THEN CHOOSE s \in {privateCache[q][k] : q \in Platforms} : s # None
      ELSE publicCache[k]

\* The cached document for an audience: the public cache for the anonymous
\* one, the platform's own for a platform.
Held(p, k) == IF p = None THEN publicCache[k] ELSE privateCache[p][k]

FreshAtAnyRevision(held, rev) ==        \* mutant: the comparison is lost
    held # None

\* Whether a row on file may be served to a request that read the revision rev.
Fresh(held, rev) == held # None /\ held.rev = rev

\* loadSnapshot, and the comparison that decides between serving and building.
LoadSnapshot(r) ==
    LET held == Held(req[r].platform, req[r].key)
    IN  /\ req[r].pc = "load"
        /\ req' = IF Fresh(held, req[r].rev)
                    THEN [req EXCEPT ![r].pc = "done",
                                     ![r].doc = held.doc,
                                     ![r].signed = held.signed]
                    ELSE [req EXCEPT ![r].pc = "build"]
        /\ UNCHANGED <<sourceVars, audienceVars, cacheVars, processVars, op>>

\* build(): the one query over apps and published versions.
BuildRows(r) ==
    LET rows == CatalogRows(req[r].key, req[r].granted)
    IN  /\ req[r].pc = "build"
        /\ req' = [req EXCEPT ![r].pc = "texts",
                              ![r].doc = [EmptyDoc EXCEPT !.rows = rows],
                              ![r].todo = {a \in Apps : rows[a] # NoRow}]
        /\ UNCHANGED <<sourceVars, audienceVars, cacheVars, processVars, op>>

\* build(): AppTexts for one of the apps listed.
ReadTexts(r, a) ==
    /\ req[r].pc = "texts"
    /\ a \in req[r].todo
    /\ req' = [req EXCEPT ![r].doc.texts[a] = trans[a], ![r].todo = @ \ {a}]
    /\ UNCHANGED <<sourceVars, audienceVars, cacheVars, processVars, op>>

\* The rows of a channel in the public cache.
CachedIn(channel) == {k \in Keys : k[1] = channel /\ publicCache[k] # None}

BuiltAtSave(q) ==                       \* mutant: the revision is read last
    [rev |-> revision, doc |-> q.doc, signed |-> signer]

\* The Snapshot build() returns: the document as it was read, signed with the
\* key of this process, under the revision that was read before it.
Built(q) == [rev |-> q.rev, doc |-> q.doc, signed |-> signer]

\* The document is validated and signed, and saveSnapshot stores it under the
\* revision read at the start, replacing whatever row has its key.  A failed
\* write is logged; the document is served either way.
SaveSnapshot(r) ==
    LET q == req[r]
        built == Built(q)
    IN  /\ q.pc = "texts"
        /\ q.todo = {}
        /\ req' = [req EXCEPT ![r].pc = IF q.platform = None THEN "prune" ELSE "done",
                              ![r].signed = signer]
        /\ \/ /\ q.platform = None
              /\ publicCache' = [publicCache EXCEPT ![q.key] = built]
              /\ newer' = {e \in newer : q.key \notin {e[1], e[2]}}
                            \cup {<<q.key, k>> : k \in CachedIn(q.key[1]) \ {q.key}}
              /\ UNCHANGED privateCache
           \/ /\ q.platform # None
              /\ privateCache' = [privateCache EXCEPT ![q.platform][q.key] = built]
              /\ UNCHANGED <<publicCache, newer>>
           \/ /\ "save" \in Faults
              /\ UNCHANGED cacheVars
        /\ UNCHANGED <<sourceVars, audienceVars, processVars, op>>

SurplusByOne(channel) ==                \* mutant: off by one
    {k \in CachedIn(channel) :
        Cardinality({j \in CachedIn(channel) : <<j, k>> \in newer}) > MaxSnapshots}

SurplusOldestKept(channel) ==           \* mutant: ORDER BY built_at ascending
    {k \in CachedIn(channel) :
        Cardinality({j \in CachedIn(channel) : <<k, j>> \in newer}) >= MaxSnapshots}

\* The rows pruneSnapshots deletes: those not among the MaxSnapshots of their
\* channel that were built last.
Surplus(channel) ==
    {k \in CachedIn(channel) :
        Cardinality({j \in CachedIn(channel) : <<j, k>> \in newer}) >= MaxSnapshots}

\* pruneSnapshots, deferred by saveSnapshot on the public path whether or not
\* the write succeeded; its failure is logged.
PruneSnapshots(r) ==
    /\ req[r].pc = "prune"
    /\ \/ LET surplus == Surplus(req[r].key[1])
          IN  /\ publicCache' = [k \in Keys |-> IF k \in surplus THEN None ELSE publicCache[k]]
              /\ newer' = {e \in newer : e[1] \notin surplus /\ e[2] \notin surplus}
       \/ "prune" \in Faults /\ UNCHANGED <<publicCache, newer>>
    /\ req' = [req EXCEPT ![r].pc = "done"]
    /\ UNCHANGED <<sourceVars, audienceVars, privateCache, processVars, op>>

\* The answer is written and the handler returns.
Answer(r) ==
    /\ req[r].pc = "done"
    /\ req' = [req EXCEPT ![r] = IdleReq]
    /\ UNCHANGED <<sourceVars, audienceVars, cacheVars, processVars, op>>

\* A query fails, or ValidateCatalog refuses the document: 500.
Abort(r) ==
    /\ "abort" \in Faults
    /\ req[r].pc \in {"grants", "revision", "load", "build", "texts"}
    /\ req' = [req EXCEPT ![r] = IdleReq]
    /\ UNCHANGED <<sourceVars, audienceVars, cacheVars, processVars, op>>

------------------------------------------------------------------------------
(* The gated operator endpoints.                                           *)

CreatePlatform(p) ==
    /\ platforms[p] = "unregistered"
    /\ platforms' = [platforms EXCEPT ![p] = "enabled"]
    /\ UNCHANGED <<sourceVars, lastSeen, grants, everGranted, cacheVars,
                   processVars, req, op>>

\* handleGrant up to its check: the app exists and is private.
GrantCheck(o, p, a) ==
    /\ op[o].pc = "idle"
    /\ app[a].visibility = "private"
    /\ op' = [op EXCEPT ![o] = [pc |-> "grant", platform |-> p, app |-> a]]
    /\ UNCHANGED <<sourceVars, audienceVars, cacheVars, processVars, req>>

\* handleGrant's insert.  It fails, and the handler answers 500, when no such
\* platform is registered (a foreign key) or the database refuses it.
Grant(o) ==
    LET p == op[o].platform
        pair == <<op[o].app, p>>
    IN  /\ op[o].pc = "grant"
        /\ \/ /\ platforms[p] # "unregistered"
              /\ op' = [op EXCEPT ![o].pc = "discard"]
              /\ grants' = grants \cup {pair}
              /\ everGranted' = everGranted \cup {pair}
           \/ /\ platforms[p] = "unregistered" \/ "abort" \in Faults
              /\ op' = [op EXCEPT ![o] = IdleOp]
              /\ UNCHANGED <<grants, everGranted>>
        /\ UNCHANGED <<sourceVars, platforms, lastSeen, cacheVars, processVars, req>>

\* handleRevoke's delete, whether or not there was a grant.
Revoke(o, p, a) ==
    /\ op[o].pc = "idle"
    /\ op' = [op EXCEPT ![o] = [pc |-> "discard", platform |-> p, app |-> a]]
    /\ grants' = grants \ {<<a, p>>}
    /\ UNCHANGED <<sourceVars, platforms, lastSeen, everGranted, cacheVars,
                   processVars, req>>

\* handleSetPlatformEnabled's update; an unregistered platform is a 404.
SetPlatformEnabled(o, p, access) ==
    /\ op[o].pc = "idle"
    /\ platforms[p] # "unregistered"
    /\ platforms' = [platforms EXCEPT ![p] = access]
    /\ op' = [op EXCEPT ![o] = [pc |-> "discard", platform |-> p, app |-> None]]
    /\ UNCHANGED <<sourceVars, lastSeen, grants, everGranted, cacheVars,
                   processVars, req>>

\* DiscardPrivateSnapshots, the last statement of all three; its failure is
\* logged and the operator is told the change was made.
DiscardPrivateSnapshots(o) ==
    /\ op[o].pc = "discard"
    /\ \/ privateCache' = [privateCache EXCEPT ![op[o].platform] = [k \in Keys |-> None]]
       \/ "discard" \in Faults /\ UNCHANGED privateCache
    /\ op' = [op EXCEPT ![o] = IdleOp]
    /\ UNCHANGED <<sourceVars, audienceVars, publicCache, newer, processVars, req>>

DiscardStaleSnapshots ==                \* mutant: spares what looks current
    /\ publicCache' = [k \in Keys |-> IF Fresh(publicCache[k], revision)
                                        THEN publicCache[k] ELSE None]
    /\ newer' = newer

\* DiscardSnapshots: every row of store_catalog_snapshots, and no other table.
DiscardSnapshots ==
    /\ publicCache' = [k \in Keys |-> None]
    /\ newer' = {}

\* handleRebuildSnapshots.
RebuildSnapshots ==
    /\ signer # None
    /\ DiscardSnapshots
    /\ rotated' = FALSE
    /\ UNCHANGED <<sourceVars, audienceVars, privateCache, signer, req, op>>

------------------------------------------------------------------------------
\* The process dies, or is replaced, and comes up with the key (or without
\* one) that the environment now holds.  Rows stay, handlers in flight do not.
Restart(s) ==
    /\ "restart" \in Faults
    /\ signer' = s
    /\ rotated' = (rotated \/ s # signer)
    /\ req' = [r \in Reqs |-> IdleReq]
    /\ op' = [o \in Ops |-> IdleOp]
    /\ UNCHANGED <<sourceVars, audienceVars, cacheVars>>

\* A publishing transaction commits.
Publish ==
    /\ SourceNext
    /\ UNCHANGED <<audienceVars, cacheVars, processVars, req, op>>

ReqStep(r) ==
    \/ \E p \in Platforms \cup {None}, k \in Keys : Arrive(r, p, k)
    \/ ReadGrants(r)
    \/ ReadRevision(r)
    \/ LoadSnapshot(r)
    \/ BuildRows(r)
    \/ \E a \in Apps : ReadTexts(r, a)
    \/ SaveSnapshot(r)
    \/ PruneSnapshots(r)
    \/ Answer(r)
    \/ Abort(r)

OpStep(o) ==
    \/ \E p \in Platforms, a \in Apps : GrantCheck(o, p, a)
    \/ Grant(o)
    \/ \E p \in Platforms, a \in Apps : Revoke(o, p, a)
    \/ \E p \in Platforms, access \in {"enabled", "disabled"} :
          SetPlatformEnabled(o, p, access)
    \/ DiscardPrivateSnapshots(o)

Next ==
    \/ \E r \in Reqs : ReqStep(r)
    \/ \E o \in Ops : OpStep(o)
    \/ \E p \in Platforms : CreatePlatform(p)
    \/ RebuildSnapshots
    \/ \E s \in SigningKeys \cup {None} : Restart(s)
    \/ Publish

Spec == Init /\ [][Next]_vars

------------------------------------------------------------------------------
(* Properties.                                                             *)

\* What may be private in a platform's catalogue: what it was granted once,
\* and nothing for the anonymous caller (p = None).
EverGranted(p) == {a \in Apps : <<a, p>> \in everGranted}

\* The document is what the tables would produce now for the key, and for an
\* audience the platform has or had.
CurrentFor(doc, p, k) == \E G \in SUBSET EverGranted(p) : doc = Catalogue(k, G)

\* store.go: "A snapshot built under an older one is stale."  Whatever
\* order builds, publications and saves of other handlers happened in, a row
\* of the public cache that carries the current revision is the catalogue the
\* tables would produce now.
PublicCacheCoherent ==
    \A k \in Keys :
        publicCache[k] # None /\ publicCache[k].rev = revision
          => publicCache[k].doc = Catalogue(k, {})

\* The same for a platform's private cache, whose audience may have changed
\* since: it is the current catalogue of some audience of that platform, so it
\* lists no private app the platform was never granted.
PrivateCacheCoherent ==
    \A p \in Platforms, k \in Keys :
        privateCache[p][k] # None /\ privateCache[p][k].rev = revision
          => CurrentFor(privateCache[p][k].doc, p, k)

\* Publishing bumps the revision so that "a snapshot built a microsecond
\* earlier must not be served afterwards": a handler that no publication has
\* overtaken since it read the revision answers with the current catalogue,
\* and an anonymous one with the public apps alone.
AnswerCurrent ==
    \A r \in Reqs :
        LET q == req[r]
        IN  q.pc \in {"prune", "done"} /\ q.rev = revision
              => CurrentFor(q.doc, q.platform, q.key)

\* "Beyond this many, the least recently built are dropped": however saves and
\* prunes of concurrent handlers interleave, a channel holds at most the bound
\* plus one row for every handler that has saved and not yet pruned.
CacheBounded ==
    \A c \in Channels :
        Cardinality(CachedIn(c)) <=
            MaxSnapshots + Cardinality({r \in Reqs : req[r].pc = "prune" /\ req[r].key[1] = c})

\* Whatever else fails, and however late a prune comes: a step that drops rows
\* of a channel leaves no more than the bound, and what it drops was built
\* before everything it leaves.
LeastRecentDropped ==
    [][\A c \in Channels :
          LET dropped == CachedIn(c) \ CachedIn(c)'
          IN  dropped # {} =>
                 /\ Cardinality(CachedIn(c)') <= MaxSnapshots
                 /\ \A k \in dropped, j \in CachedIn(c)' : <<j, k>> \in newer]_vars

\* After a key rotation the operator rebuilds "so the next request rebuilds
\* and re-signs": from then on no document in the public cache is signed by
\* any key but the one in use.
PublicResigned ==
    ~rotated => \A k \in Keys : publicCache[k] # None => publicCache[k].signed = signer

------------------------------------------------------------------------------
(* What the repository says and the code does not do.                      *)

\* "A revocation that leaves a signed document on disk is a revocation that
\* takes effect at the next publish": once every handler has returned, the
\* document a platform would be served next, without a publication, lists no
\* private app that it does not hold a grant for.
RevokedIsGone ==
    (\A r \in Reqs : req[r].pc = "idle") /\ (\A o \in Ops : op[o].pc = "idle") =>
        \A p \in Platforms, k \in Keys :
            LET s == privateCache[p][k]
                granted == GrantedAppIDs(p)
            IN  s # None /\ s.rev = revision /\ granted # {} =>
                    \A a \in Lists(s.doc) :
                        app[a].visibility = "private" => a \in granted
==============================================================================
