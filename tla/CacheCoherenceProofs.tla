------------------------ MODULE CacheCoherenceProofs ------------------------
(***************************************************************************)
(* The signed catalogue is coherent with the registry: what is cached, and *)
(* what is answered, under the current revision is what the tables would   *)
(* produce now.  The three properties are proved together, since an answer *)
(* may come out of a cache and a cache is filled with answers; what makes  *)
(* them inductive is what is known of a document while it is assembled.    *)
(***************************************************************************)
EXTENDS CatalogServiceProofs

------------------------------------------------------------------------------
(* The inductive invariant.                                                *)

\* A cached row carries a revision the registry has had, and the catalogue of
\* now if it carries the revision of now.
SnapshotCoherent(s, p, k) ==
    s # None => /\ s.rev <= revision
                /\ s.rev = revision => CurrentFor(s.doc, p, k)

\* A document being assembled that no publication has overtaken: its rows are
\* the current ones, the apps still to be looked up are listed in it, and the
\* texts of all others are the current ones.
AssemblyCurrent(q) ==
    q.pc = "texts" /\ q.rev = revision =>
        /\ q.doc.rows = CatalogRows(q.key, q.granted)
        /\ \A a \in q.todo : Listed(a, q.key, q.granted)
        /\ \A a \in Apps \ q.todo :
              q.doc.texts[a] = CatalogTexts(q.key, q.granted)[a]

\* A request carries a revision the registry has had and asks for what its
\* platform was granted, for nothing if it is anonymous; and its document is
\* the current one, as far as it has got.
RequestCoherent(q) ==
    /\ q.rev <= revision
    /\ q.granted \subseteq EverGranted(q.platform)
    /\ q.pc = "idle" => q.granted = {}
    /\ AssemblyCurrent(q)
    /\ q.pc \in {"prune", "done"} /\ q.rev = revision
          => CurrentFor(q.doc, q.platform, q.key)

Coherent ==
    /\ grants \subseteq everGranted
    /\ \A k \in Keys : SnapshotCoherent(publicCache[k], None, k)
    /\ \A p \in Platforms, k \in Keys : SnapshotCoherent(privateCache[p][k], p, k)
    /\ \A r \in Reqs : RequestCoherent(req[r])

------------------------------------------------------------------------------
(* Facts about the document operators.                                     *)

\* While no publishing transaction commits, the catalogue stays what it is.
LEMMA CatalogueStable ==
    ASSUME UNCHANGED sourceVars
    PROVE  /\ \A a, k, G : Listed(a, k, G)' <=> Listed(a, k, G)
           /\ \A k, G : CatalogRows(k, G)' = CatalogRows(k, G)
           /\ \A k, G : CatalogTexts(k, G)' = CatalogTexts(k, G)
           /\ \A k, G : Catalogue(k, G)' = Catalogue(k, G)
<1>1. \A a, k : Chosen(a, k)' = Chosen(a, k)
  BY DEF sourceVars, Chosen
<1>2. \A a, k, G : Listed(a, k, G)' <=> Listed(a, k, G)
  BY <1>1 DEF sourceVars, Listed
<1>3. \A k, G : CatalogRows(k, G)' = CatalogRows(k, G)
  BY <1>1, <1>2 DEF sourceVars, CatalogRows
<1>4. \A k, G : CatalogTexts(k, G)' = CatalogTexts(k, G)
  BY <1>2 DEF sourceVars, CatalogTexts
<1>5. \A k, G : Catalogue(k, G)' = Catalogue(k, G)
  BY <1>3, <1>4 DEF Catalogue
<1> QED BY <1>2, <1>3, <1>4, <1>5

\* Nor does a grant or a revocation make a document wrong for a platform that
\* was granted what it lists.
LEMMA CurrentStable ==
    ASSUME UNCHANGED sourceVars, everGranted \subseteq everGranted'
    PROVE  \A doc, p, k : CurrentFor(doc, p, k) => CurrentFor(doc, p, k)'
<1> SUFFICES ASSUME NEW doc, NEW p, NEW k, CurrentFor(doc, p, k)
             PROVE  CurrentFor(doc, p, k)'
  OBVIOUS
<1>1. PICK G \in SUBSET EverGranted(p) : doc = Catalogue(k, G)
  BY DEF CurrentFor
<1>2. G \subseteq EverGranted(p)'
  BY DEF EverGranted
<1>3. doc = Catalogue(k, G)'
  BY <1>1, CatalogueStable
<1> QED BY <1>2, <1>3 DEF CurrentFor

\* The anonymous caller was never granted anything.
LEMMA NothingForNobody ==
    ASSUME TypeInv
    PROVE  EverGranted(None) = {}
BY ServiceAssumption DEF EverGranted, TypeInv, TypeOK

\* An app that has a row in the catalogue is listed, and the others have
\* neither a row nor texts.
LEMMA RowsAreListed ==
    ASSUME NEW k, NEW G, NEW a \in Apps
    PROVE  /\ CatalogRows(k, G)[a] # NoRow => Listed(a, k, G)
           /\ CatalogRows(k, G)[a] = NoRow => CatalogTexts(k, G)[a] = None
<1>1. Listed(a, k, G) => Chosen(a, k) # 0
  BY DEF Listed
<1>2. Listed(a, k, G) => CatalogRows(k, G)[a] # NoRow
  BY <1>1 DEF CatalogRows, NoRow
<1> QED BY <1>2 DEF CatalogRows, CatalogTexts

\* A document is its rows and its texts.
LEMMA DocumentIsCatalogue ==
    ASSUME NEW doc \in Document, NEW k, NEW G,
           doc.rows = CatalogRows(k, G),
           \A a \in Apps : doc.texts[a] = CatalogTexts(k, G)[a]
    PROVE  doc = Catalogue(k, G)
<1>1. doc.texts = CatalogTexts(k, G)
  BY DEF Document, CatalogTexts
<1>2. doc = [rows |-> doc.rows, texts |-> doc.texts]
  BY DEF Document
<1> QED BY <1>1, <1>2 DEF Catalogue

------------------------------------------------------------------------------
(* What a step that is not a publication leaves coherent, and what a       *)
(* publication does.                                                       *)

\* While the tables stand still, what is coherent stays coherent, for audiences
\* that only grow.
LEMMA CoherentStable ==
    ASSUME UNCHANGED sourceVars, everGranted \subseteq everGranted'
    PROVE  /\ \A s, p, k : SnapshotCoherent(s, p, k) => SnapshotCoherent(s, p, k)'
           /\ \A q : RequestCoherent(q) => RequestCoherent(q)'
<1>0. revision' = revision
  BY DEF sourceVars
<1>1. ASSUME NEW s, NEW p, NEW k, SnapshotCoherent(s, p, k)
      PROVE  SnapshotCoherent(s, p, k)'
  BY <1>0, <1>1, CurrentStable DEF SnapshotCoherent
<1>2. ASSUME NEW q, RequestCoherent(q)
      PROVE  RequestCoherent(q)'
  <2>1. AssemblyCurrent(q)'
    BY <1>0, <1>2, CatalogueStable DEF RequestCoherent, AssemblyCurrent
  <2>2. EverGranted(q.platform) \subseteq EverGranted(q.platform)'
    BY DEF EverGranted
  <2> QED BY <1>0, <1>2, <2>1, <2>2, CurrentStable DEF RequestCoherent
<1> QED BY <1>1, <1>2

\* A publication makes every document stale at once: none carries the revision
\* it moves to.
LEMMA CoherentAcrossPublication ==
    ASSUME TypeInv, SourceNext, UNCHANGED everGranted
    PROVE  /\ \A s \in Snapshot \cup {None} : \A p, k :
                 SnapshotCoherent(s, p, k) => SnapshotCoherent(s, p, k)'
           /\ \A q \in Request : RequestCoherent(q) => RequestCoherent(q)'
<1>1. revision \in Nat /\ revision' = revision + 1
  BY SourceAssumption DEF TypeInv, TypeOK, SourceTypeOK, SourceNext, UpsertApp,
                          DecideVersion, Import, bumpRevision
<1>2. ASSUME NEW s \in Snapshot \cup {None}, NEW p, NEW k, SnapshotCoherent(s, p, k)
      PROVE  SnapshotCoherent(s, p, k)'
  <2> SUFFICES ASSUME s # None PROVE s.rev <= revision' /\ s.rev # revision'
    BY DEF SnapshotCoherent
  <2>1. s.rev \in Nat /\ s.rev <= revision
    BY <1>2, SourceAssumption DEF SnapshotCoherent, Snapshot
  <2> QED BY <1>1, <2>1
<1>3. ASSUME NEW q \in Request, RequestCoherent(q)
      PROVE  RequestCoherent(q)'
  <2>1. q.rev \in Nat /\ q.rev <= revision
    BY <1>3, SourceAssumption DEF RequestCoherent, Request
  <2>2. q.rev <= revision' /\ q.rev # revision'
    BY <1>1, <2>1
  <2>3. q.granted \subseteq EverGranted(q.platform)'
    BY <1>3 DEF RequestCoherent, EverGranted
  <2> QED BY <1>3, <2>2, <2>3 DEF RequestCoherent, AssemblyCurrent
<1> QED BY <1>2, <1>3

\* A handler that has read nothing is coherent.
LEMMA IdleCoherent ==
    ASSUME TypeInv
    PROVE  RequestCoherent(IdleReq)
<1>1. 0 <= revision
  BY SourceAssumption DEF TypeInv, TypeOK, SourceTypeOK
<1> QED BY <1>1 DEF RequestCoherent, AssemblyCurrent, IdleReq

\* Empty caches and idle handlers are coherent.
LEMMA CoherentInit == Init => Coherent
<1> SUFFICES ASSUME Init PROVE Coherent
  OBVIOUS
<1>1. RequestCoherent(IdleReq)
  BY TypeInit, IdleCoherent
<1> QED BY <1>1 DEF Init, Coherent, SnapshotCoherent

------------------------------------------------------------------------------
(* The steps.                                                              *)

\* A request that reads, and writes to no table: only its own record has to
\* be looked at.
LEMMA ReadStepCoherent ==
    ASSUME TypeInv, Coherent, NEW r \in Reqs,
           UNCHANGED <<sourceVars, grants, everGranted, cacheVars>>,
           NEW q, req' = [req EXCEPT ![r] = q], RequestCoherent(q)
    PROVE  Coherent'
<1>1. req \in [Reqs -> Request]
  BY DEF TypeInv, TypeOK
<1>2. \A i \in Reqs : RequestCoherent(req'[i])
  BY <1>1 DEF Coherent
<1>3. \A i \in Reqs : RequestCoherent(req[i])'
  BY <1>2, CoherentStable
<1>4. /\ \A k \in Keys : SnapshotCoherent(publicCache[k], None, k)'
      /\ \A p \in Platforms, k \in Keys : SnapshotCoherent(privateCache[p][k], p, k)'
  BY CoherentStable DEF Coherent, cacheVars
<1> QED BY <1>3, <1>4 DEF Coherent

\* The same for one that also writes to the caches.
LEMMA CacheStepCoherent ==
    ASSUME TypeInv, Coherent, NEW r \in Reqs,
           UNCHANGED <<sourceVars, grants, everGranted>>,
           NEW q, req' = [req EXCEPT ![r] = q], RequestCoherent(q),
           \A k \in Keys : SnapshotCoherent(publicCache'[k], None, k),
           \A p \in Platforms, k \in Keys : SnapshotCoherent(privateCache'[p][k], p, k)
    PROVE  Coherent'
<1>1. req \in [Reqs -> Request]
  BY DEF TypeInv, TypeOK
<1>2. \A i \in Reqs : RequestCoherent(req'[i])
  BY <1>1 DEF Coherent
<1>3. \A i \in Reqs : RequestCoherent(req[i])'
  BY <1>2, CoherentStable
<1>4. /\ \A k \in Keys : SnapshotCoherent(publicCache[k], None, k)'
      /\ \A p \in Platforms, k \in Keys : SnapshotCoherent(privateCache[p][k], p, k)'
  BY CoherentStable
<1> QED BY <1>3, <1>4 DEF Coherent

\* A step of a request handler.  The revision is read first, so whatever is
\* read under it later is current for as long as it is the revision; and only
\* what carries it is taken from the cache or put there.
LEMMA ReqStepCoherent ==
    ASSUME TypeInv, Coherent, NEW r \in Reqs, ReqStep(r)
    PROVE  Coherent'
<1> DEFINE q == req[r]
<1>0. q \in Request /\ req \in [Reqs -> Request] /\ RequestCoherent(q)
  BY DEF TypeInv, TypeOK, Coherent
<1>1. ASSUME NEW p \in Platforms \cup {None}, NEW k \in Keys, Arrive(r, p, k)
      PROVE  Coherent'
  <2> DEFINE new == [q EXCEPT !.pc = IF Recognised(p) THEN "grants" ELSE "revision",
                              !.platform = IF Recognised(p) THEN p ELSE None,
                              !.key = k]
  <2>1. req' = [req EXCEPT ![r] = new]
    BY <1>0, <1>1 DEF Arrive, Request
  <2>2. RequestCoherent(new)
    <3>1. q.pc = "idle" /\ q.granted = {} /\ q.rev <= revision
      BY <1>0, <1>1 DEF Arrive, RequestCoherent
    <3>2. /\ new.pc \in {"grants", "revision"}
          /\ new.granted = {}
          /\ new.rev = q.rev
      BY <1>0, <3>1 DEF Request
    <3> HIDE DEF new
    <3> QED BY <3>1, <3>2 DEF RequestCoherent, AssemblyCurrent
  <2> QED BY <1>1, <2>1, <2>2, ReadStepCoherent DEF Arrive, audienceVars
<1>2. CASE ReadGrants(r)
  <2> DEFINE granted == GrantedAppIDs(q.platform)
             new == [q EXCEPT !.pc = "revision",
                              !.platform = IF granted = {} THEN None ELSE q.platform,
                              !.granted = granted]
  <2>1. req' = [req EXCEPT ![r] = new]
    BY <1>0, <1>2 DEF ReadGrants, Request
  <2>2. RequestCoherent(new)
    <3>1. granted \subseteq EverGranted(q.platform)
      BY DEF GrantedAppIDs, EverGranted, Coherent
    <3>2. /\ new.pc = "revision"
          /\ new.granted = granted
          /\ new.platform = IF granted = {} THEN None ELSE q.platform
          /\ new.rev = q.rev
      BY <1>0 DEF Request
    <3>3. new.granted \subseteq EverGranted(new.platform)
      BY <3>1, <3>2
    <3> HIDE DEF new
    <3> QED BY <1>0, <3>2, <3>3 DEF RequestCoherent, AssemblyCurrent
  <2> QED BY <1>2, <2>1, <2>2, ReadStepCoherent DEF ReadGrants
<1>3. CASE ReadRevision(r)
  <2> DEFINE new == [q EXCEPT !.pc = "load", !.rev = revision]
  <2>1. req' = [req EXCEPT ![r] = new]
    BY <1>0, <1>3 DEF ReadRevision, Request
  <2>2. RequestCoherent(new)
    <3>1. /\ new.pc = "load"
          /\ new.granted = q.granted
          /\ new.platform = q.platform
          /\ new.rev = revision
      BY <1>0 DEF Request
    <3>2. revision <= revision
      BY SourceAssumption DEF TypeInv, TypeOK, SourceTypeOK
    <3> HIDE DEF new
    <3> QED BY <1>0, <3>1, <3>2 DEF RequestCoherent, AssemblyCurrent
  <2> QED BY <1>3, <2>1, <2>2, ReadStepCoherent DEF ReadRevision, audienceVars
<1>4. CASE LoadSnapshot(r)
  <2> DEFINE held == Held(q.platform, q.key)
             done == [q EXCEPT !.pc = "done", !.doc = held.doc, !.signed = held.signed]
             miss == [q EXCEPT !.pc = "build"]
  <2>1. q.key \in Keys /\ q.platform \in Platforms \cup {None}
    BY <1>0, <1>4 DEF LoadSnapshot, Request, TypeInv, Addressed
  <2>2. SnapshotCoherent(held, q.platform, q.key)
    BY <2>1 DEF Held, Coherent
  <2>3. CASE Fresh(held, q.rev)
    <3>1. req' = [req EXCEPT ![r] = done]
      BY <1>0, <1>4, <2>3 DEF LoadSnapshot, Request
    <3>2. q.rev = revision => CurrentFor(held.doc, q.platform, q.key)
      BY <2>2, <2>3 DEF Fresh, SnapshotCoherent
    <3>3. /\ done.pc = "done"
          /\ done.granted = q.granted
          /\ done.platform = q.platform
          /\ done.key = q.key
          /\ done.rev = q.rev
          /\ done.doc = held.doc
      BY <1>0 DEF Request
    <3>4. RequestCoherent(done)
      <4> HIDE DEF done, held
      <4> QED BY <1>0, <3>2, <3>3 DEF RequestCoherent, AssemblyCurrent
    <3> QED BY <1>4, <3>1, <3>4, ReadStepCoherent DEF LoadSnapshot, audienceVars
  <2>4. CASE ~ Fresh(held, q.rev)
    <3>1. req' = [req EXCEPT ![r] = miss]
      BY <1>0, <1>4, <2>4 DEF LoadSnapshot, Request
    <3>2. /\ miss.pc = "build"
          /\ miss.granted = q.granted
          /\ miss.platform = q.platform
          /\ miss.rev = q.rev
      BY <1>0 DEF Request
    <3>3. RequestCoherent(miss)
      <4> HIDE DEF miss
      <4> QED BY <1>0, <3>2 DEF RequestCoherent, AssemblyCurrent
    <3> QED BY <1>4, <3>1, <3>3, ReadStepCoherent DEF LoadSnapshot, audienceVars
  <2> QED BY <2>3, <2>4
<1>5. CASE BuildRows(r)
  <2> DEFINE rows == CatalogRows(q.key, q.granted)
             doc == [EmptyDoc EXCEPT !.rows = rows]
             todo == {a \in Apps : rows[a] # NoRow}
             new == [q EXCEPT !.pc = "texts", !.doc = doc, !.todo = todo]
  <2>1. req' = [req EXCEPT ![r] = new]
    BY <1>0, <1>5 DEF BuildRows, Request
  <2>2. /\ new.pc = "texts"
        /\ new.granted = q.granted
        /\ new.platform = q.platform
        /\ new.key = q.key
        /\ new.rev = q.rev
        /\ new.doc = doc
        /\ new.todo = todo
    BY <1>0 DEF Request
  <2>3. doc.rows = rows /\ \A a \in Apps : doc.texts[a] = None
    BY DEF EmptyDoc
  <2>4. \A a \in todo : Listed(a, q.key, q.granted)
    BY RowsAreListed
  <2>5. \A a \in Apps \ todo : CatalogTexts(q.key, q.granted)[a] = None
    BY RowsAreListed
  <2>6. RequestCoherent(new)
    <3> HIDE DEF new, doc, todo
    <3> QED BY <1>0, <2>2, <2>3, <2>4, <2>5 DEF RequestCoherent, AssemblyCurrent
  <2> QED BY <1>5, <2>1, <2>6, ReadStepCoherent DEF BuildRows, audienceVars
<1>6. ASSUME NEW a \in Apps, ReadTexts(r, a) PROVE Coherent'
  <2> DEFINE new == [q EXCEPT !.doc.texts[a] = trans[a], !.todo = @ \ {a}]
  <2>1. req' = [req EXCEPT ![r] = new]
    BY <1>0, <1>6 DEF ReadTexts, Request
  <2>2. /\ new.pc = q.pc
        /\ new.granted = q.granted
        /\ new.platform = q.platform
        /\ new.key = q.key
        /\ new.rev = q.rev
        /\ new.doc.rows = q.doc.rows
        /\ new.doc.texts = [q.doc.texts EXCEPT ![a] = trans[a]]
        /\ new.todo = q.todo \ {a}
    BY <1>0 DEF Request, Document
  <2>3. q.pc = "texts" /\ a \in q.todo
    BY <1>6 DEF ReadTexts
  <2>4. q.doc.texts \in [Apps -> Texts \cup {None}]
    BY <1>0 DEF Request, Document
  <2>5. Listed(a, q.key, q.granted) => CatalogTexts(q.key, q.granted)[a] = trans[a]
    BY DEF CatalogTexts
  <2>6. AssemblyCurrent(new)
    <3> HIDE DEF new
    <3> SUFFICES ASSUME q.rev = revision
                 PROVE  /\ new.doc.rows = CatalogRows(q.key, q.granted)
                        /\ \A b \in new.todo : Listed(b, q.key, q.granted)
                        /\ \A b \in Apps \ new.todo :
                              new.doc.texts[b] = CatalogTexts(q.key, q.granted)[b]
      BY <2>2 DEF AssemblyCurrent
    <3>1. /\ q.doc.rows = CatalogRows(q.key, q.granted)
          /\ \A b \in q.todo : Listed(b, q.key, q.granted)
          /\ \A b \in Apps \ q.todo :
                q.doc.texts[b] = CatalogTexts(q.key, q.granted)[b]
      BY <1>0, <2>3 DEF RequestCoherent, AssemblyCurrent
    <3>2. ASSUME NEW b \in Apps \ new.todo
          PROVE  new.doc.texts[b] = CatalogTexts(q.key, q.granted)[b]
      <4>1. CASE b = a
        BY <2>2, <2>3, <2>4, <2>5, <3>1, <4>1
      <4>2. CASE b # a
        BY <2>2, <2>4, <3>1, <4>2
      <4> QED BY <4>1, <4>2
    <3> QED BY <2>2, <3>1, <3>2
  <2>7. RequestCoherent(new)
    <3> HIDE DEF new
    <3> QED BY <1>0, <2>2, <2>3, <2>6 DEF RequestCoherent
  <2> QED BY <1>6, <2>1, <2>7, ReadStepCoherent DEF ReadTexts, audienceVars
<1>7. CASE SaveSnapshot(r)
  <2> DEFINE new == [q EXCEPT !.pc = IF q.platform = None THEN "prune" ELSE "done",
                              !.signed = signer]
  <2>1. req' = [req EXCEPT ![r] = new]
    BY <1>0, <1>7 DEF SaveSnapshot, Request
  <2>2. q.pc = "texts" /\ q.todo = {} /\ q.key \in Keys
    BY <1>7 DEF SaveSnapshot, TypeInv, Addressed
  <2>3. q.rev = revision => CurrentFor(q.doc, q.platform, q.key)
    <3> SUFFICES ASSUME q.rev = revision
                 PROVE  CurrentFor(q.doc, q.platform, q.key)
      OBVIOUS
    <3>1. /\ q.doc.rows = CatalogRows(q.key, q.granted)
          /\ \A a \in Apps : q.doc.texts[a] = CatalogTexts(q.key, q.granted)[a]
      BY <1>0, <2>2 DEF RequestCoherent, AssemblyCurrent
    <3>2. q.doc \in Document
      BY <1>0 DEF Request
    <3>3. q.doc = Catalogue(q.key, q.granted)
      BY <3>1, <3>2, DocumentIsCatalogue
    <3> QED BY <1>0, <3>3 DEF RequestCoherent, CurrentFor
  <2>4. RequestCoherent(new)
    <3>1. /\ new.pc \in {"prune", "done"}
          /\ new.granted = q.granted
          /\ new.platform = q.platform
          /\ new.key = q.key
          /\ new.rev = q.rev
          /\ new.doc = q.doc
      BY <1>0 DEF Request
    <3> HIDE DEF new
    <3> QED BY <1>0, <2>3, <3>1 DEF RequestCoherent, AssemblyCurrent
  <2>5. SnapshotCoherent(Built(q), q.platform, q.key)
    BY <1>0, <2>3 DEF SnapshotCoherent, Built, RequestCoherent
  <2>6. /\ \A k \in Keys : SnapshotCoherent(publicCache[k], None, k)
        /\ \A p \in Platforms, k \in Keys : SnapshotCoherent(privateCache[p][k], p, k)
    BY DEF Coherent
  <2>7. \A k \in Keys : SnapshotCoherent(publicCache'[k], None, k)
    <3>1. CASE publicCache' = publicCache
      BY <2>6, <3>1
    <3>2. CASE q.platform = None /\ publicCache' = [publicCache EXCEPT ![q.key] = Built(q)]
      BY <2>5, <2>6, <3>2 DEF TypeInv, TypeOK
    <3> QED BY <1>7, <3>1, <3>2 DEF SaveSnapshot, cacheVars
  <2>8. \A p \in Platforms, k \in Keys : SnapshotCoherent(privateCache'[p][k], p, k)
    <3>1. CASE privateCache' = privateCache
      BY <2>6, <3>1
    <3>2. CASE privateCache' = [privateCache EXCEPT ![q.platform][q.key] = Built(q)]
      BY <2>5, <2>6, <3>2 DEF TypeInv, TypeOK
    <3> QED BY <1>7, <3>1, <3>2 DEF SaveSnapshot, cacheVars
  <2> QED BY <1>7, <2>1, <2>4, <2>7, <2>8, CacheStepCoherent DEF SaveSnapshot, audienceVars
<1>8. CASE PruneSnapshots(r)
  <2> DEFINE new == [q EXCEPT !.pc = "done"]
  <2>1. req' = [req EXCEPT ![r] = new]
    BY <1>0, <1>8 DEF PruneSnapshots, Request
  <2>2. RequestCoherent(new)
    <3>1. /\ new.pc = "done"
          /\ new.granted = q.granted
          /\ new.platform = q.platform
          /\ new.key = q.key
          /\ new.rev = q.rev
          /\ new.doc = q.doc
      BY <1>0 DEF Request
    <3>2. q.pc = "prune"
      BY <1>8 DEF PruneSnapshots
    <3> HIDE DEF new
    <3> QED BY <1>0, <3>1, <3>2 DEF RequestCoherent, AssemblyCurrent
  <2>3. \A k \in Keys : publicCache'[k] \in {publicCache[k], None}
    BY <1>8 DEF PruneSnapshots
  <2>4. \A k \in Keys : SnapshotCoherent(publicCache'[k], None, k)
    BY <2>3 DEF Coherent, SnapshotCoherent
  <2>5. \A p \in Platforms, k \in Keys : SnapshotCoherent(privateCache'[p][k], p, k)
    BY <1>8 DEF PruneSnapshots, Coherent
  <2> QED BY <1>8, <2>1, <2>2, <2>4, <2>5, CacheStepCoherent DEF PruneSnapshots, audienceVars
<1>9. CASE Answer(r) \/ Abort(r)
  <2>1. req' = [req EXCEPT ![r] = IdleReq]
    BY <1>9 DEF Answer, Abort
  <2> QED BY <1>9, <2>1, IdleCoherent, ReadStepCoherent DEF Answer, Abort, audienceVars
<1> QED BY <1>1, <1>2, <1>3, <1>4, <1>5, <1>6, <1>7, <1>8, <1>9 DEF ReqStep

\* A step of an operator handler: it only adds to what was ever granted, and
\* only removes from the private caches.
LEMMA OpStepCoherent ==
    ASSUME TypeInv, Coherent, NEW o \in Ops, OpStep(o)
    PROVE  Coherent'
<1>1. UNCHANGED <<sourceVars, publicCache, req>>
  BY DEF OpStep, GrantCheck, Grant, Revoke, SetPlatformEnabled,
         DiscardPrivateSnapshots, cacheVars
<1>2. everGranted \subseteq everGranted' /\ grants' \subseteq everGranted'
  BY DEF OpStep, GrantCheck, Grant, Revoke, SetPlatformEnabled,
         DiscardPrivateSnapshots, audienceVars, Coherent
<1>3. \A p \in Platforms, k \in Keys :
          privateCache'[p][k] \in {privateCache[p][k], None}
  <2>1. CASE UNCHANGED privateCache
    BY <2>1
  <2>2. CASE DiscardPrivateSnapshots(o)
    BY <2>2 DEF DiscardPrivateSnapshots, TypeInv, TypeOK
  <2> QED BY <2>1, <2>2 DEF OpStep, GrantCheck, Grant, Revoke, SetPlatformEnabled, cacheVars
<1>4. \A p \in Platforms, k \in Keys : SnapshotCoherent(privateCache'[p][k], p, k)
  BY <1>3 DEF Coherent, SnapshotCoherent
<1>5. /\ \A k \in Keys : SnapshotCoherent(publicCache[k], None, k)'
      /\ \A p \in Platforms, k \in Keys : SnapshotCoherent(privateCache[p][k], p, k)'
      /\ \A r \in Reqs : RequestCoherent(req[r])'
  BY <1>1, <1>2, <1>4, CoherentStable DEF Coherent
<1> QED BY <1>2, <1>5 DEF Coherent

\* Every step keeps the caches and the handlers coherent.
LEMMA CoherentNext == TypeInv /\ Coherent /\ [Next]_vars => Coherent'
<1> SUFFICES ASSUME TypeInv, Coherent, [Next]_vars PROVE Coherent'
  OBVIOUS
<1>1. ASSUME NEW r \in Reqs, ReqStep(r) PROVE Coherent'
  BY <1>1, ReqStepCoherent
<1>2. ASSUME NEW o \in Ops, OpStep(o) PROVE Coherent'
  BY <1>2, OpStepCoherent
<1>3. CASE (\E p \in Platforms : CreatePlatform(p)) \/ UNCHANGED vars
  <2>1. UNCHANGED <<sourceVars, grants, everGranted, cacheVars, req>>
    BY <1>3 DEF CreatePlatform, vars, audienceVars
  <2> QED BY <2>1, CoherentStable DEF Coherent, cacheVars
<1>4. CASE RebuildSnapshots
  <2>1. UNCHANGED <<sourceVars, grants, everGranted, privateCache, req>>
    BY <1>4 DEF RebuildSnapshots, audienceVars
  <2>2. \A k \in Keys : SnapshotCoherent(publicCache[k], None, k)'
    BY <1>4 DEF RebuildSnapshots, DiscardSnapshots, SnapshotCoherent
  <2> QED BY <2>1, <2>2, CoherentStable DEF Coherent
<1>5. ASSUME NEW s \in SigningKeys \cup {None}, Restart(s) PROVE Coherent'
  <2>1. UNCHANGED <<sourceVars, grants, everGranted, cacheVars>>
    BY <1>5 DEF Restart, audienceVars
  <2>2. \A r \in Reqs : RequestCoherent(req'[r])
    BY <1>5, IdleCoherent DEF Restart
  <2> QED BY <2>1, <2>2, CoherentStable DEF Coherent, cacheVars
<1>6. CASE Publish
  <2>1. SourceNext /\ UNCHANGED <<grants, everGranted, cacheVars, req>>
    BY <1>6 DEF Publish, audienceVars
  <2>2. /\ \A k \in Keys : publicCache[k] \in Snapshot \cup {None}
        /\ \A p \in Platforms, k \in Keys : privateCache[p][k] \in Snapshot \cup {None}
        /\ \A r \in Reqs : req[r] \in Request
    BY DEF TypeInv, TypeOK
  <2> QED BY <2>1, <2>2, CoherentAcrossPublication DEF Coherent, cacheVars
<1> QED BY <1>1, <1>2, <1>3, <1>4, <1>5, <1>6 DEF Next

------------------------------------------------------------------------------
(* The theorems.                                                           *)

\* Types and coherence are invariants of the service.
LEMMA CoherentInvariant == Spec => [](TypeInv /\ Coherent)
<1>1. Init => TypeInv /\ Coherent
  BY TypeInit, CoherentInit
<1>2. TypeInv /\ Coherent /\ [Next]_vars => (TypeInv /\ Coherent)'
  BY TypeNext, CoherentNext
<1> QED BY <1>1, <1>2, PTL DEF Spec

\* Whatever order builds, saves, prunes, publications, grants, failures and
\* restarts happen in, a row of the public cache that carries the current
\* revision is the catalogue of the public apps as the tables stand.
THEOREM PublicCacheIsCoherent == Spec => []PublicCacheCoherent
<1>1. TypeInv /\ Coherent => PublicCacheCoherent
  BY NothingForNobody DEF Coherent, SnapshotCoherent, CurrentFor, PublicCacheCoherent
<1> QED BY <1>1, CoherentInvariant, PTL

\* A row of a platform's private cache that carries the current revision is
\* the catalogue as the tables stand, with no private app the platform was
\* never granted.
THEOREM PrivateCacheIsCoherent == Spec => []PrivateCacheCoherent
<1>1. TypeInv /\ Coherent => PrivateCacheCoherent
  BY DEF Coherent, SnapshotCoherent, PrivateCacheCoherent
<1> QED BY <1>1, CoherentInvariant, PTL

\* A request that no publication overtook is answered with the catalogue as
\* the tables stand, out of a cache or not, for an audience its platform has
\* or had; an anonymous one with the public apps alone.
THEOREM AnswersAreCurrent == Spec => []AnswerCurrent
<1>1. TypeInv /\ Coherent => AnswerCurrent
  BY DEF Coherent, RequestCoherent, AnswerCurrent
<1> QED BY <1>1, CoherentInvariant, PTL
==============================================================================
