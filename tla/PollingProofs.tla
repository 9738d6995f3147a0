---------------------------- MODULE PollingProofs ----------------------------
(***************************************************************************)
(* Proofs about Polling: it is CatalogService with clients, and every part *)
(* of every answer was true while its request was in progress.             *)
(***************************************************************************)
EXTENDS Polling, CacheCoherenceProofs

------------------------------------------------------------------------------
(* The composition.                                                        *)

\* A step of a handler on an instance's behalf is a step of the service.
LEMMA PollReqSteps ==
    ASSUME TypeInv, NEW r \in Reqs,
           \/ Poll(r) \/ Deliver(r) \/ CutShort(r) \/ Refuse(r)
           \/ Revision(r) \/ Load(r) \/ Build(r) \/ Save(r) \/ Prune(r)
           \/ TextsOf(r, req[r].todo)
    PROVE  ReqStep(r)
<1>1. CASE Poll(r)
  BY <1>1, PollingAssumption DEF Poll, ReqStep
<1>2. CASE TextsOf(r, req[r].todo)
  <2>1. PICK a \in req[r].todo : ReadTexts(r, a)
    BY <1>2 DEF TextsOf
  <2>2. a \in Apps
    BY DEF TypeInv, TypeOK, Request
  <2> QED BY <2>1, <2>2 DEF ReqStep
<1>3. CASE Deliver(r) \/ CutShort(r) \/ Refuse(r)
  BY <1>3 DEF Deliver, CutShort, Refuse, ReqStep
<1>4. CASE Revision(r) \/ Load(r) \/ Build(r) \/ Save(r) \/ Prune(r)
  BY <1>4 DEF Revision, Load, Build, Save, Prune, ReqStep
<1> QED BY <1>1, <1>2, <1>3, <1>4

\* A step of the composition is a step of the service, or none.
LEMMA PollSteps == TypeInv /\ [PollNext]_pollVars => [Next]_vars
<1> SUFFICES ASSUME TypeInv, PollNext PROVE Next
  BY DEF pollVars
<1>1. ASSUME NEW r \in Reqs, ReqStep(r) PROVE Next
  BY <1>1 DEF Next
<1>2. CASE Operate
  BY <1>2 DEF Operate, Next
<1>3. ASSUME NEW s \in SigningKeys \cup {None}, Crash(s) PROVE Next
  BY <1>3 DEF Crash, Next
<1>4. CASE Commit
  BY <1>4 DEF Commit, Next
<1> QED BY <1>1, <1>2, <1>3, <1>4, PollReqSteps DEF PollNext

\* Polling is the catalogue service with its clients: every behaviour of the
\* composition is one of the service, so what is proved of the service holds.
THEOREM PollingImplementsService == PollSafety => Spec
<1>1. PollInit => Init /\ TypeInv
  BY TypeInit DEF PollInit
<1>2. TypeInv /\ [PollNext]_pollVars => [Next]_vars /\ TypeInv'
  BY PollSteps, TypeNext
<1> QED BY <1>1, <1>2, PTL DEF PollSafety, Spec

------------------------------------------------------------------------------
(* The inductive invariant.                                                *)

\* What the tables said is remembered for every revision up to now.
PastKept ==
    /\ DOMAIN past = 0..MaxRevision
    /\ past[revision] = TablesNow

\* The rows are what the tables said at a revision from `lo` on, and the
\* translations of each app of A what they said then or later.
WasTrue(doc, k, A, lo) ==
    \E n \in lo..revision :
        /\ doc.rows = past[n].rows[k]
        /\ \A a \in A : \E m \in n..revision : doc.texts[a] = past[m].trans[a]

\* A row on file was true at or after the revision it carries.
SnapshotTrue(s, k) ==
    s # None => /\ s.rev \in 0..revision
                /\ WasTrue(s.doc, k, Lists(s.doc), s.rev)

\* Every request is anonymous.  Once it has read the revision it carries one
\* since its arrival; a document in progress was true since that revision as
\* far as its texts are read, a finished one since the arrival.
RequestTrue(q, from) ==
    /\ q.platform = None /\ q.granted = {}
    /\ q.pc # "grants"
    /\ from \in 0..revision
    /\ q.pc \in {"load", "build", "texts"} => q.rev \in from..revision
    /\ q.pc = "texts" => WasTrue(q.doc, q.key, Lists(q.doc) \ q.todo, q.rev)
    /\ q.pc \in {"prune", "done"} => WasTrue(q.doc, q.key, Lists(q.doc), from)

AllTrue ==
    /\ PastKept
    /\ since \in [Reqs -> 0..MaxRevision]
    /\ \A k \in Keys : SnapshotTrue(publicCache[k], k)
    /\ \A r \in Reqs : RequestTrue(req[r], since[r])

\* What was true stays so, from any earlier revision on and for fewer apps,
\* while the past is kept.
LEMMA StillTrue ==
    ASSUME revision \in Nat, revision' \in Nat, revision <= revision',
           \A n \in 0..revision : past'[n] = past[n],
           NEW doc, NEW k, NEW A, NEW lo \in Nat, NEW B \in SUBSET A, NEW low \in 0..lo,
           WasTrue(doc, k, A, lo)
    PROVE  WasTrue(doc, k, B, low)'
<1>1. PICK n \in lo..revision :
          /\ doc.rows = past[n].rows[k]
          /\ \A a \in A : \E m \in n..revision : doc.texts[a] = past[m].trans[a]
  BY DEF WasTrue
<1>2. n \in low..revision' /\ past'[n] = past[n]
  BY <1>1
<1>3. ASSUME NEW a \in B PROVE \E m \in n..revision' : doc.texts[a] = past'[m].trans[a]
  <2>1. PICK m \in n..revision : doc.texts[a] = past[m].trans[a]
    BY <1>1
  <2>2. m \in n..revision' /\ past'[m] = past[m]
    BY <1>1, <2>1
  <2> QED BY <2>1, <2>2
<1>4. doc.rows = past'[n].rows[k]
  BY <1>1, <1>2
<1> QED BY <1>2, <1>3, <1>4 DEF WasTrue

\* The same in one state.
LEMMA TrueFromEarlier ==
    ASSUME revision \in Nat, NEW doc, NEW k, NEW A, NEW lo \in Nat, NEW low \in Nat, low <= lo,
           WasTrue(doc, k, A, lo)
    PROVE  WasTrue(doc, k, A, low)
<1>1. \A n \in lo..revision : n \in low..revision
  OBVIOUS
<1> QED BY <1>1 DEF WasTrue

\* What is on file, and what a request holds, stays true while the past is
\* kept.
LEMMA TrueStable ==
    ASSUME TypeInv, revision' \in 0..MaxRevision, revision <= revision',
           \A n \in 0..revision : past'[n] = past[n]
    PROVE  /\ \A s \in Snapshot \cup {None}, k \in Keys :
                 SnapshotTrue(s, k) => SnapshotTrue(s, k)'
           /\ \A q \in Request, from \in 0..MaxRevision :
                 RequestTrue(q, from) => RequestTrue(q, from)'
<1>1. revision \in Nat /\ revision' \in Nat
  BY SourceAssumption DEF TypeInv, TypeOK, SourceTypeOK
<1>2. ASSUME NEW doc, NEW k, NEW A, NEW lo \in Nat, WasTrue(doc, k, A, lo)
      PROVE  WasTrue(doc, k, A, lo)'
  <2>1. A \in SUBSET A /\ lo \in 0..lo
    OBVIOUS
  <2> QED BY <1>1, <1>2, <2>1, StillTrue
<1>3. ASSUME NEW s \in Snapshot \cup {None}, NEW k \in Keys, SnapshotTrue(s, k), s # None
      PROVE  SnapshotTrue(s, k)'
  <2>1. s.rev \in 0..revision /\ WasTrue(s.doc, k, Lists(s.doc), s.rev)
    BY <1>3 DEF SnapshotTrue
  <2>2. s.rev \in Nat /\ s.rev \in 0..revision'
    BY <1>1, <2>1
  <2>3. WasTrue(s.doc, k, Lists(s.doc), s.rev)'
    BY <1>2, <2>1, <2>2
  <2>4. Lists(s.doc)' = Lists(s.doc)
    BY DEF Lists
  <2> QED BY <2>2, <2>3, <2>4 DEF SnapshotTrue
<1>4. ASSUME NEW q \in Request, NEW from \in 0..MaxRevision, RequestTrue(q, from)
      PROVE  RequestTrue(q, from)'
  <2>1. q.rev \in Nat /\ from \in Nat
    BY SourceAssumption DEF Request
  <2>2. from \in 0..revision' /\ (q.rev \in from..revision => q.rev \in from..revision')
    BY <1>1, <1>4, <2>1 DEF RequestTrue
  <2>3. \A A, lo : lo \in Nat /\ WasTrue(q.doc, q.key, A, lo) => WasTrue(q.doc, q.key, A, lo)'
    BY <1>2
  <2> QED BY <1>4, <2>1, <2>2, <2>3 DEF RequestTrue
<1> QED BY <1>3, <1>4 DEF SnapshotTrue

\* A request slot that is not in use holds nothing false.
LEMMA IdleTrue ==
    ASSUME TypeInv, NEW from \in 0..revision
    PROVE  RequestTrue(IdleReq, from)
BY DEF RequestTrue, IdleReq

\* What the tables say now.
LEMMA PastIsNow ==
    ASSUME PastKept, NEW k \in Keys
    PROVE  past[revision].rows[k] = CatalogRows(k, {}) /\ past[revision].trans = trans
BY DEF PastKept, TablesNow

------------------------------------------------------------------------------
(* The steps.                                                              *)

\* A handler's statement that leaves the tables and the past alone.
LEMMA ReqStepTrue ==
    ASSUME TypeInv, TypeInv', AllTrue, NEW r \in Reqs, UNCHANGED <<sourceVars, past>>,
           NEW q \in Request, req' = [req EXCEPT ![r] = q],
           NEW from \in 0..MaxRevision, since' = [since EXCEPT ![r] = from],
           RequestTrue(q, from),
           \A k \in Keys : SnapshotTrue(publicCache'[k], k)
    PROVE  AllTrue'
<1>1. revision \in Nat /\ revision' = revision /\ revision' \in 0..MaxRevision
  BY SourceAssumption DEF TypeInv, TypeOK, SourceTypeOK, sourceVars
<1>2. /\ \A s \in Snapshot \cup {None}, k \in Keys : SnapshotTrue(s, k) => SnapshotTrue(s, k)'
      /\ \A i \in Request, f \in 0..MaxRevision : RequestTrue(i, f) => RequestTrue(i, f)'
  BY <1>1, TrueStable
<1>3. TablesNow' = TablesNow
  BY CatalogueStable DEF TablesNow, sourceVars
<1>4. PastKept'
  BY <1>1, <1>3 DEF AllTrue, PastKept
<1>5. req \in [Reqs -> Request] /\ since \in [Reqs -> 0..MaxRevision]
  BY DEF TypeInv, TypeOK, AllTrue
<1>6. \A i \in Reqs : req'[i] \in Request /\ since'[i] \in 0..MaxRevision /\ RequestTrue(req'[i], since'[i])
  BY <1>5 DEF AllTrue
<1>7. \A i \in Reqs : RequestTrue(req[i], since[i])'
  <2>1. ASSUME NEW i \in Reqs, NEW x \in Request, x = req'[i], NEW f \in 0..MaxRevision, f = since'[i]
        PROVE  RequestTrue(req[i], since[i])'
    <3>1. RequestTrue(x, f)'
      BY <1>2, <1>6, <2>1
    <3> QED BY <2>1, <3>1 DEF RequestTrue
  <2> QED BY <1>6, <2>1
<1>8. \A k \in Keys : SnapshotTrue(publicCache[k], k)'
  <2>1. ASSUME NEW k \in Keys, NEW s \in Snapshot \cup {None}, s = publicCache'[k]
        PROVE  SnapshotTrue(publicCache[k], k)'
    <3>1. SnapshotTrue(s, k)'
      BY <1>2, <2>1
    <3> QED BY <2>1, <3>1 DEF SnapshotTrue
  <2>2. \A k \in Keys : publicCache'[k] \in Snapshot \cup {None}
    BY DEF TypeInv, TypeOK
  <2> QED BY <2>1, <2>2
<1>9. since' \in [Reqs -> 0..MaxRevision]
  BY <1>5
<1> QED BY <1>4, <1>7, <1>8, <1>9 DEF AllTrue

\* A handler that serves an instance keeps what it holds and writes true.  The
\* revision is read first and the tables after it, so what a document says was
\* true at that revision or later, and a row of the cache is only taken by a
\* request that was in progress at the revision it carries.
LEMMA PollReqStepTrue ==
    ASSUME TypeInv, TypeInv', AllTrue, NEW r \in Reqs,
           \/ Poll(r) \/ Deliver(r) \/ CutShort(r) \/ Refuse(r)
           \/ Revision(r) \/ Load(r) \/ Build(r) \/ Save(r) \/ Prune(r)
           \/ TextsOf(r, req[r].todo)
    PROVE  AllTrue'
<1> DEFINE q == req[r]
           from == since[r]
<1>0. /\ q \in Request /\ req \in [Reqs -> Request] /\ req' \in [Reqs -> Request]
      /\ since \in [Reqs -> 0..MaxRevision] /\ from \in 0..MaxRevision
      /\ RequestTrue(q, from)
      /\ q.pc # "idle" => q.key \in Keys
      /\ \A k \in Keys : SnapshotTrue(publicCache[k], k)
  BY DEF TypeInv, TypeOK, AllTrue, Addressed
<1>1. revision \in Nat /\ revision \in 0..MaxRevision /\ q.rev \in Nat /\ from \in Nat
  BY <1>0, SourceAssumption DEF TypeInv, TypeOK, SourceTypeOK, Request
<1>2. since' = since => since' = [since EXCEPT ![r] = from]
  BY <1>0
<1>3. ASSUME NEW new \in Request, req' = [req EXCEPT ![r] = new], RequestTrue(new, from),
             UNCHANGED <<sourceVars, past, since, publicCache>>
      PROVE  AllTrue'
  BY <1>0, <1>2, <1>3, ReqStepTrue
<1>4. CASE Poll(r)
  <2>1. PICK k \in KeysOf[r] : Arrive(r, None, k)
    BY <1>4 DEF Poll
  <2>2. k \in Keys
    BY PollingAssumption
  <2> DEFINE new == [q EXCEPT !.pc = "revision", !.platform = None, !.key = k]
  <2>3. req' = [req EXCEPT ![r] = new]
    BY <1>0, <2>1 DEF Arrive, Recognised, Request
  <2>4. /\ new.pc = "revision" /\ new.platform = None /\ new.granted = q.granted
        /\ new \in Request
    BY <1>0, <2>2 DEF Request, ReqStates
  <2>5. RequestTrue(new, revision)
    <3> HIDE DEF new
    <3> QED BY <1>0, <1>1, <2>4 DEF RequestTrue
  <2>6. UNCHANGED <<sourceVars, past, publicCache>> /\ since' = [since EXCEPT ![r] = revision]
    BY <1>4, <2>1 DEF Poll, Arrive, cacheVars
  <2> HIDE DEF new
  <2> QED BY <1>0, <1>1, <2>3, <2>4, <2>5, <2>6, ReqStepTrue
<1>5. CASE Deliver(r) \/ CutShort(r) \/ Refuse(r)
  <2>1. req' = [req EXCEPT ![r] = IdleReq] /\ UNCHANGED <<sourceVars, past, since, publicCache>>
    BY <1>5 DEF Deliver, CutShort, Refuse, Answer, Abort, instVars, cacheVars
  <2>2. RequestTrue(IdleReq, from)
    BY <1>0, IdleTrue DEF RequestTrue
  <2> QED BY <1>3, <2>1, <2>2, IdleReqType
<1>6. CASE Revision(r)
  <2> DEFINE new == [q EXCEPT !.pc = "load", !.rev = revision]
  <2>1. req' = [req EXCEPT ![r] = new] /\ UNCHANGED <<sourceVars, past, since, publicCache>>
    BY <1>0, <1>6 DEF Revision, ReadRevision, Request, instVars, cacheVars
  <2>2. /\ new.pc = "load" /\ new.rev = revision /\ new.platform = q.platform
        /\ new.granted = q.granted /\ new \in Request
    BY <1>0, <1>1, <1>6 DEF Request, ReqStates, Revision, ReadRevision
  <2>3. RequestTrue(new, from)
    <3> HIDE DEF new
    <3> QED BY <1>0, <1>1, <2>2 DEF RequestTrue
  <2> HIDE DEF new
  <2> QED BY <1>3, <2>1, <2>2, <2>3
<1>7. CASE Load(r)
  <2> DEFINE held == publicCache[q.key]
             hit == [q EXCEPT !.pc = "done", !.doc = held.doc, !.signed = held.signed]
             miss == [q EXCEPT !.pc = "build"]
  <2>1. /\ q.pc = "load" /\ q.key \in Keys /\ q.rev \in from..revision
        /\ UNCHANGED <<sourceVars, past, since, publicCache>>
    BY <1>0, <1>7 DEF Load, LoadSnapshot, instVars, cacheVars, RequestTrue
  <2>2. req' = IF Fresh(held, q.rev) THEN [req EXCEPT ![r] = hit] ELSE [req EXCEPT ![r] = miss]
    BY <1>0, <1>7 DEF Load, LoadSnapshot, Held, RequestTrue, Request
  <2>3. CASE Fresh(held, q.rev)
    <3>1. held \in Snapshot /\ held # None /\ held.rev = q.rev
      BY <2>1, <2>3 DEF Fresh, TypeInv, TypeOK
    <3>2. WasTrue(held.doc, q.key, Lists(held.doc), q.rev)
      BY <1>0, <2>1, <3>1 DEF SnapshotTrue
    <3>3. WasTrue(held.doc, q.key, Lists(held.doc), from)
      BY <1>1, <2>1, <3>2, TrueFromEarlier
    <3>4. /\ hit.pc = "done" /\ hit.doc = held.doc /\ hit.platform = q.platform
          /\ hit.granted = q.granted /\ hit.key = q.key /\ hit.rev = q.rev /\ hit \in Request
      <4>1. held.doc \in Document /\ held.signed \in SigningKeys \cup {None}
        BY <3>1 DEF Snapshot
      <4> HIDE DEF held
      <4> QED BY <1>0, <4>1 DEF Request, ReqStates
    <3>5. RequestTrue(hit, from)
      <4> HIDE DEF hit, held
      <4> QED BY <1>0, <3>3, <3>4 DEF RequestTrue
    <3> HIDE DEF hit
    <3> QED BY <1>3, <2>1, <2>2, <2>3, <3>4, <3>5
  <2>4. CASE ~Fresh(held, q.rev)
    <3>1. /\ miss.pc = "build" /\ miss.rev = q.rev /\ miss.platform = q.platform
          /\ miss.granted = q.granted /\ miss \in Request
      BY <1>0 DEF Request, ReqStates
    <3>2. RequestTrue(miss, from)
      <4> HIDE DEF miss
      <4> QED BY <1>0, <2>1, <3>1 DEF RequestTrue
    <3> HIDE DEF miss
    <3> QED BY <1>3, <2>1, <2>2, <2>4, <3>1, <3>2
  <2> QED BY <2>3, <2>4
<1>8. CASE Build(r)
  <2> DEFINE rows == CatalogRows(q.key, {})
             doc == [EmptyDoc EXCEPT !.rows = rows]
             todo == {a \in Apps : rows[a] # NoRow}
             new == [q EXCEPT !.pc = "texts", !.doc = doc, !.todo = todo]
  <2>1. /\ q.pc = "build" /\ q.granted = {} /\ q.key \in Keys /\ q.rev \in from..revision
        /\ UNCHANGED <<sourceVars, past, since, publicCache>>
    BY <1>0, <1>8 DEF Build, BuildRows, instVars, cacheVars, RequestTrue
  <2>2. req' = [req EXCEPT ![r] = new]
    <3> DEFINE found == CatalogRows(q.key, q.granted)
    <3>1. req' = [req EXCEPT ![r].pc = "texts",
                             ![r].doc = [EmptyDoc EXCEPT !.rows = found],
                             ![r].todo = {a \in Apps : found[a] # NoRow}]
      BY <1>8 DEF Build, BuildRows
    <3>2. rows = found
      BY <2>1
    <3>3. req' = [req EXCEPT ![r].pc = "texts", ![r].doc = doc, ![r].todo = todo]
      BY <3>1, <3>2
    <3> HIDE DEF rows, found, doc, todo
    <3> QED BY <1>0, <3>3 DEF Request
  <2>3. /\ new.pc = "texts" /\ new.rev = q.rev /\ new.platform = q.platform
        /\ new.granted = q.granted /\ new.key = q.key /\ new.doc = doc /\ new.todo = todo
    BY <1>0 DEF Request
  <2>4. new \in Request
    <3> HIDE DEF new
    <3> QED BY <1>0, <2>2
  <2>5. doc.rows = rows /\ Lists(doc) \ todo = {}
    BY DEF EmptyDoc, Lists
  <2>6. WasTrue(doc, q.key, {}, q.rev)
    <3>1. doc.rows = past[revision].rows[q.key]
      BY <2>1, <2>5, PastIsNow DEF AllTrue
    <3>2. revision \in q.rev..revision
      BY <1>1, <2>1
    <3> HIDE DEF doc
    <3> QED BY <3>1, <3>2 DEF WasTrue
  <2>7. RequestTrue(new, from)
    <3> HIDE DEF new, doc, todo
    <3> QED BY <1>0, <2>1, <2>3, <2>5, <2>6 DEF RequestTrue
  <2> HIDE DEF new
  <2> QED BY <1>3, <2>1, <2>2, <2>4, <2>7
<1>9. CASE TextsOf(r, q.todo)
  <2>1. PICK a \in q.todo : ReadTexts(r, a)
    BY <1>9 DEF TextsOf
  <2> DEFINE new == [q EXCEPT !.doc.texts[a] = trans[a], !.todo = @ \ {a}]
  <2>2. /\ q.pc = "texts" /\ q.key \in Keys /\ q.rev \in from..revision /\ a \in Apps
        /\ UNCHANGED <<sourceVars, past, since, publicCache>>
    BY <1>0, <1>9, <2>1 DEF TextsOf, ReadTexts, instVars, cacheVars, RequestTrue, Request
  <2>3. req' = [req EXCEPT ![r] = new]
    BY <1>0, <2>1 DEF ReadTexts, Request
  <2>4. /\ new.pc = "texts" /\ new.rev = q.rev /\ new.platform = q.platform
        /\ new.granted = q.granted /\ new.key = q.key
        /\ new.doc.rows = q.doc.rows /\ new.todo = q.todo \ {a}
        /\ new.doc.texts = [q.doc.texts EXCEPT ![a] = trans[a]]
    BY <1>0, <2>2 DEF Request, Document
  <2>5. new \in Request
    <3> HIDE DEF new
    <3> QED BY <1>0, <2>3
  <2>6. q.doc.texts \in [Apps -> Texts \cup {None}]
    BY <1>0 DEF Request, Document
  <2>7. Lists(new.doc) = Lists(q.doc)
    BY <2>4 DEF Lists
  <2>8. WasTrue(new.doc, q.key, Lists(q.doc) \ new.todo, q.rev)
    <3>1. PICK n \in q.rev..revision :
              /\ q.doc.rows = past[n].rows[q.key]
              /\ \A b \in Lists(q.doc) \ q.todo :
                    \E m \in n..revision : q.doc.texts[b] = past[m].trans[b]
      BY <1>0, <2>2 DEF RequestTrue, WasTrue
    <3>2. ASSUME NEW b \in Lists(q.doc) \ new.todo
          PROVE  \E m \in n..revision : new.doc.texts[b] = past[m].trans[b]
      <4>0. b \in Apps
        BY DEF Lists
      <4>1. CASE b = a
        <5>1. new.doc.texts[b] = past[revision].trans[b]
          <6>1. past[revision].trans = trans
            BY <2>2, PastIsNow DEF AllTrue
          <6> HIDE DEF new
          <6> QED BY <2>2, <2>4, <2>6, <4>1, <6>1
        <5>2. revision \in n..revision
          BY <1>1, <3>1
        <5> QED BY <5>1, <5>2
      <4>2. CASE b # a
        <5>1. b \in Lists(q.doc) \ q.todo /\ new.doc.texts[b] = q.doc.texts[b]
          <6> HIDE DEF new
          <6> QED BY <2>4, <2>6, <4>0, <4>2
        <5> QED BY <3>1, <5>1
      <4> QED BY <4>1, <4>2
    <3> HIDE DEF new
    <3> QED BY <2>4, <3>1, <3>2 DEF WasTrue
  <2>9. RequestTrue(new, from)
    <3> HIDE DEF new
    <3> QED BY <1>0, <2>2, <2>4, <2>7, <2>8 DEF RequestTrue
  <2> HIDE DEF new
  <2> QED BY <1>3, <2>2, <2>3, <2>5, <2>9
<1>10. CASE Save(r)
  <2> DEFINE new == [q EXCEPT !.pc = "prune", !.signed = signer]
  <2>1. /\ q.pc = "texts" /\ q.todo = {} /\ q.key \in Keys /\ q.rev \in from..revision
        /\ q.platform = None /\ UNCHANGED <<sourceVars, past, since>>
    BY <1>0, <1>10 DEF Save, SaveSnapshot, instVars, RequestTrue
  <2>2. req' = [req EXCEPT ![r] = new]
    BY <1>0, <1>10, <2>1 DEF Save, SaveSnapshot, Request
  <2>3. /\ new.pc = "prune" /\ new.rev = q.rev /\ new.platform = q.platform
        /\ new.granted = q.granted /\ new.key = q.key /\ new.doc = q.doc
    BY <1>0 DEF Request
  <2>4. new \in Request
    <3> HIDE DEF new
    <3> QED BY <1>0, <2>2
  <2>5. WasTrue(q.doc, q.key, Lists(q.doc), q.rev)
    <3>1. Lists(q.doc) \ q.todo = Lists(q.doc)
      BY <2>1
    <3> QED BY <1>0, <2>1, <3>1 DEF RequestTrue
  <2>6. WasTrue(q.doc, q.key, Lists(q.doc), from)
    BY <1>1, <2>1, <2>5, TrueFromEarlier
  <2>7. RequestTrue(new, from)
    <3> HIDE DEF new
    <3> QED BY <1>0, <2>3, <2>6 DEF RequestTrue
  <2>8. SnapshotTrue(Built(q), q.key)
    <3>1. Built(q).rev = q.rev /\ Built(q).doc = q.doc
      BY DEF Built
    <3>2. q.rev \in 0..revision
      BY <1>1, <2>1
    <3> QED BY <2>5, <3>1, <3>2 DEF SnapshotTrue
  <2>9. ASSUME NEW k \in Keys PROVE SnapshotTrue(publicCache'[k], k)
    <3>1. publicCache' = publicCache \/ publicCache' = [publicCache EXCEPT ![q.key] = Built(q)]
      BY <1>10 DEF Save, SaveSnapshot, cacheVars
    <3>2. publicCache'[k] = publicCache[k] \/ (k = q.key /\ publicCache'[k] = Built(q))
      BY <3>1 DEF TypeInv, TypeOK
    <3> QED BY <1>0, <2>8, <3>2
  <2> HIDE DEF new, from
  <2>10. since' = [since EXCEPT ![r] = from]
    BY <1>2, <2>1
  <2> QED BY <1>0, <2>1, <2>2, <2>4, <2>7, <2>9, <2>10, ReqStepTrue
<1>11. CASE Prune(r)
  <2> DEFINE new == [q EXCEPT !.pc = "done"]
  <2>1. q.pc = "prune" /\ UNCHANGED <<sourceVars, past, since>>
    BY <1>11 DEF Prune, PruneSnapshots, instVars
  <2>2. req' = [req EXCEPT ![r] = new]
    BY <1>0, <1>11 DEF Prune, PruneSnapshots, Request
  <2>3. /\ new.pc = "done" /\ new.rev = q.rev /\ new.platform = q.platform
        /\ new.granted = q.granted /\ new.key = q.key /\ new.doc = q.doc
    BY <1>0 DEF Request
  <2>4. new \in Request
    <3> HIDE DEF new
    <3> QED BY <1>0, <2>2
  <2>5. RequestTrue(new, from)
    <3> HIDE DEF new
    <3> QED BY <1>0, <2>1, <2>3 DEF RequestTrue
  <2>6. ASSUME NEW k \in Keys PROVE SnapshotTrue(publicCache'[k], k)
    <3>1. publicCache'[k] \in {publicCache[k], None}
      BY <1>11 DEF Prune, PruneSnapshots
    <3> QED BY <1>0, <3>1 DEF SnapshotTrue
  <2> HIDE DEF new, from
  <2>7. since' = [since EXCEPT ![r] = from]
    BY <1>2, <2>1
  <2> QED BY <1>0, <2>1, <2>2, <2>4, <2>5, <2>6, <2>7, ReqStepTrue
<1> QED BY <1>4, <1>5, <1>6, <1>7, <1>8, <1>9, <1>10, <1>11

\* A publication remembers what the tables say after it.
LEMMA CommitTrue ==
    ASSUME TypeInv, TypeInv', AllTrue, Commit
    PROVE  AllTrue'
<1>1. /\ revision \in 0..MaxRevision /\ revision' \in 0..MaxRevision
      /\ revision' = revision + 1 /\ revision \in Nat /\ revision <= revision'
  <2>1. revision' = revision + 1
    BY DEF Commit, Publish, SourceNext, UpsertApp, DecideVersion, Import, bumpRevision
  <2> QED BY <2>1, SourceAssumption DEF TypeInv, TypeOK, SourceTypeOK
<1>2. /\ past' = [past EXCEPT ![revision'] = TablesNow']
      /\ UNCHANGED <<publicCache, req, since>>
  BY DEF Commit, Publish, cacheVars
<1>3. \A n \in 0..revision : past'[n] = past[n]
  BY <1>1, <1>2 DEF AllTrue, PastKept
<1>4. PastKept'
  BY <1>1, <1>2 DEF AllTrue, PastKept
<1>5. /\ \A s \in Snapshot \cup {None}, k \in Keys : SnapshotTrue(s, k) => SnapshotTrue(s, k)'
      /\ \A q \in Request, f \in 0..MaxRevision : RequestTrue(q, f) => RequestTrue(q, f)'
  BY <1>1, <1>3, TrueStable
<1>6. \A k \in Keys : SnapshotTrue(publicCache[k], k)'
  BY <1>2, <1>5 DEF AllTrue, TypeInv, TypeOK
<1>7. \A r \in Reqs : RequestTrue(req[r], since[r])'
  BY <1>2, <1>5 DEF AllTrue, TypeInv, TypeOK
<1> QED BY <1>2, <1>4, <1>6, <1>7 DEF AllTrue

\* The operator and a crash discard, and write nothing.
LEMMA OthersTrue ==
    ASSUME TypeInv, TypeInv', AllTrue,
           Operate \/ (\E s \in SigningKeys \cup {None} : Crash(s)) \/ UNCHANGED pollVars
    PROVE  AllTrue'
<1>1. UNCHANGED <<sourceVars, past, since>>
  BY DEF Operate, Crash, RebuildSnapshots, Restart, pollVars, vars, instVars
<1>2. revision' \in 0..MaxRevision /\ revision' = revision /\ revision \in Nat
  BY <1>1, SourceAssumption DEF TypeInv, TypeOK, SourceTypeOK, sourceVars
<1>3. /\ \A s \in Snapshot \cup {None}, k \in Keys : SnapshotTrue(s, k) => SnapshotTrue(s, k)'
      /\ \A q \in Request, f \in 0..MaxRevision : RequestTrue(q, f) => RequestTrue(q, f)'
  BY <1>1, <1>2, TrueStable
<1>4. PastKept'
  BY <1>1, <1>2, CatalogueStable DEF AllTrue, PastKept, TablesNow, sourceVars
<1>5. \A k \in Keys : publicCache'[k] \in {publicCache[k], None}
  BY DEF Operate, Crash, RebuildSnapshots, DiscardSnapshots, Restart, pollVars, vars, cacheVars
<1>6. \A r \in Reqs : req'[r] \in {req[r], IdleReq}
  BY DEF Operate, Crash, RebuildSnapshots, Restart, pollVars, vars
<1>7. ASSUME NEW k \in Keys PROVE SnapshotTrue(publicCache[k], k)'
  <2>1. CASE publicCache'[k] = publicCache[k]
    BY <1>3, <2>1 DEF AllTrue, SnapshotTrue, TypeInv, TypeOK
  <2>2. CASE publicCache'[k] = None
    BY <2>2 DEF SnapshotTrue
  <2> QED BY <1>5, <2>1, <2>2
<1>8. ASSUME NEW r \in Reqs PROVE RequestTrue(req[r], since[r])'
  <2>1. CASE req'[r] = req[r]
    <3>1. RequestTrue(req[r], since[r]) /\ since[r] \in 0..MaxRevision /\ req[r] \in Request
      BY DEF AllTrue, TypeInv, TypeOK
    <3> QED BY <1>1, <1>3, <2>1, <3>1 DEF RequestTrue
  <2>2. CASE req'[r] = IdleReq
    <3>1. since[r] \in 0..revision
      BY DEF AllTrue, RequestTrue
    <3> QED BY <1>1, <1>2, <2>2, <3>1 DEF RequestTrue, IdleReq
  <2> QED BY <1>6, <2>1, <2>2
<1> QED BY <1>1, <1>4, <1>7, <1>8 DEF AllTrue

\* Empty caches, idle handlers, and the tables remembered at revision 0.
LEMMA TrueInit == PollInit => TypeInv /\ AllTrue
<1> SUFFICES ASSUME PollInit PROVE TypeInv /\ AllTrue
  OBVIOUS
<1>1. TypeInv
  BY TypeInit DEF PollInit
<1>2. revision = 0 /\ 0 \in 0..MaxRevision /\ 0 \in 0..revision
  BY SourceAssumption DEF PollInit, Init, SourceInit
<1>3. PastKept
  BY <1>2 DEF PollInit, PastKept
<1>4. \A r \in Reqs : RequestTrue(req[r], since[r])
  BY <1>1, <1>2, IdleTrue DEF PollInit, Init
<1>5. \A k \in Keys : SnapshotTrue(publicCache[k], k)
  BY DEF PollInit, Init, SnapshotTrue
<1> QED BY <1>1, <1>2, <1>3, <1>4, <1>5 DEF AllTrue, PollInit

\* Every step keeps what is held and cached true.
LEMMA TrueNext == TypeInv /\ AllTrue /\ [PollNext]_pollVars => (TypeInv /\ AllTrue)'
<1> SUFFICES ASSUME TypeInv, AllTrue, [PollNext]_pollVars PROVE (TypeInv /\ AllTrue)'
  OBVIOUS
<1>1. TypeInv'
  BY PollSteps, TypeNext
<1>2. AllTrue'
  BY <1>1, PollReqStepTrue, CommitTrue, OthersTrue DEF PollNext
<1> QED BY <1>1, <1>2

\* Every part of an answer was true while its request was in progress: its rows
\* are what the tables said at one revision since the arrival, and the texts of
\* every app it lists what they said at that one or later, whether the document
\* was built for the request or taken from the cache, and whatever publications
\* came in between.
THEOREM AnswersWereTrue == PollSafety => []AnswerWasTrue
<1>1. TypeInv /\ AllTrue => AnswerWasTrue
  BY DEF AllTrue, RequestTrue, WasTrue, AnswerWasTrue
<1> QED BY <1>1, TrueInit, TrueNext, PTL DEF PollSafety

\* What is proved of the service holds of it while instances poll it: nothing
\* they do takes a handler where a single request could not go.
THEOREM PolledServiceCoherent ==
    PollSafety => [](PublicCacheCoherent /\ PrivateCacheCoherent /\ AnswerCurrent
                       /\ PublicResigned)
BY PollingImplementsService, PublicCacheIsCoherent, PrivateCacheIsCoherent,
   AnswersAreCurrent, PublicIsResigned, PTL
==============================================================================
