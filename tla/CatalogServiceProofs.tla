------------------------ MODULE CatalogServiceProofs ------------------------
(***************************************************************************)
(* Proofs about CatalogService, for every set of apps, versions, texts,    *)
(* platforms, keys and handlers, and every combination of failures.        *)
(***************************************************************************)
EXTENDS CatalogService, CatalogDocumentProofs, FiniteSetTheorems

------------------------------------------------------------------------------
(* Type correctness.                                                       *)

\* A request slot that is not in use has its type.
LEMMA IdleReqType == IdleReq \in Request
<1>1. 0 \in 0..MaxRevision
  BY SourceAssumption
<1> QED BY <1>1, EmptyDocType DEF IdleReq, Request, ReqStates

\* An operator slot that is not in use has its type.
LEMMA IdleOpType == IdleOp \in Operation
BY DEF IdleOp, Operation

\* A handler in flight knows what it was asked about.
Addressed ==
    /\ \A r \in Reqs : req[r].pc # "idle" => req[r].key \in Keys
    /\ \A o \in Ops : /\ op[o].pc # "idle" => op[o].platform \in Platforms
                      /\ op[o].pc = "grant" => op[o].app \in Apps

TypeInv == TypeOK /\ ForeignKeys /\ Addressed

\* The initial states have their types.
LEMMA TypeInit == Init => TypeInv
<1> SUFFICES ASSUME Init PROVE TypeInv
  OBVIOUS
<1>1. SourceTypeOK /\ ForeignKeys
  BY SourceAssumption DEF Init, SourceInit, SourceTypeOK, ForeignKeys
<1>2. req \in [Reqs -> Request] /\ op \in [Ops -> Operation]
  BY IdleReqType, IdleOpType DEF Init
<1>3. Addressed
  BY DEF Init, Addressed, IdleReq, IdleOp
<1> QED BY <1>1, <1>2, <1>3 DEF Init, TypeInv, TypeOK

\* A step of a request handler preserves the types.
LEMMA ReqStepType ==
    ASSUME TypeInv, NEW r \in Reqs, ReqStep(r)
    PROVE  TypeInv'
<1> DEFINE Rest == UNCHANGED <<sourceVars, audienceVars, cacheVars, processVars, op>>
           ReqOK == /\ req' \in [Reqs -> Request]
                    /\ \A i \in Reqs : req'[i].pc # "idle" => req'[i].key \in Keys
<1>0. /\ req \in [Reqs -> Request]
      /\ req[r] \in Request
      /\ \A i \in Reqs : req[i].pc # "idle" => req[i].key \in Keys
  BY DEF TypeInv, TypeOK, Addressed
<1>a. ASSUME Rest, ReqOK PROVE TypeInv'
  BY <1>a DEF TypeInv, TypeOK, SourceTypeOK, ForeignKeys, Addressed, sourceVars,
              audienceVars, cacheVars, processVars
<1>b. ASSUME UNCHANGED <<sourceVars, audienceVars, processVars, op>>, ReqOK,
             publicCache' \in [Keys -> Snapshot \cup {None}],
             newer' \subseteq Keys \X Keys,
             privateCache' \in [Platforms -> [Keys -> Snapshot \cup {None}]]
      PROVE  TypeInv'
  BY <1>b DEF TypeInv, TypeOK, SourceTypeOK, ForeignKeys, Addressed, sourceVars,
              audienceVars, processVars
<1>1. ASSUME NEW p \in Platforms \cup {None}, NEW k \in Keys, Arrive(r, p, k)
      PROVE  TypeInv'
  <2>1. ReqOK
    BY <1>0, <1>1 DEF Arrive, Request, ReqStates
  <2> QED BY <1>a, <1>1, <2>1 DEF Arrive
<1>2. CASE ReadGrants(r)
  <2>1. ReqOK
    BY <1>0, <1>2 DEF ReadGrants, GrantedAppIDs, Request, ReqStates
  <2>2. GrantedAppIDs(req[r].platform) # {} => req[r].platform \in Platforms
    BY DEF GrantedAppIDs, TypeInv, TypeOK
  <2>3. lastSeen' \subseteq Platforms
    BY <1>2, <2>2 DEF ReadGrants, TypeInv, TypeOK
  <2> QED BY <1>2, <2>1, <2>3 DEF ReadGrants, TypeInv, TypeOK, SourceTypeOK, ForeignKeys,
                                   Addressed, sourceVars, cacheVars, processVars
<1>3. CASE ReadRevision(r)
  <2>1. revision \in 0..MaxRevision
    BY DEF TypeInv, TypeOK, SourceTypeOK
  <2>2. ReqOK
    BY <1>0, <1>3, <2>1 DEF ReadRevision, Request, ReqStates
  <2> QED BY <1>a, <1>3, <2>2 DEF ReadRevision
<1>4. CASE LoadSnapshot(r)
  <2> DEFINE held == Held(req[r].platform, req[r].key)
  <2>1. req[r].key \in Keys /\ req[r].platform \in Platforms \cup {None}
    BY <1>0, <1>4 DEF LoadSnapshot, Request
  <2>2. held \in Snapshot \cup {None}
    BY <2>1 DEF Held, TypeInv, TypeOK
  <2>3. ReqOK
    <3>1. CASE Fresh(held, req[r].rev)
      <4>1. held.doc \in Document /\ held.signed \in SigningKeys \cup {None}
        BY <2>2, <3>1 DEF Fresh, Snapshot
      <4>2. req' = [req EXCEPT ![r].pc = "done", ![r].doc = held.doc,
                               ![r].signed = held.signed]
        BY <1>4, <3>1 DEF LoadSnapshot
      <4> HIDE DEF held
      <4> QED BY <1>0, <2>1, <4>1, <4>2 DEF Request, ReqStates
    <3>2. CASE ~ Fresh(held, req[r].rev)
      <4>1. req' = [req EXCEPT ![r].pc = "build"]
        BY <1>4, <3>2 DEF LoadSnapshot
      <4> QED BY <1>0, <2>1, <4>1 DEF Request, ReqStates
    <3> QED BY <3>1, <3>2
  <2> QED BY <1>a, <1>4, <2>3 DEF LoadSnapshot
<1>5. CASE BuildRows(r)
  <2> DEFINE rows == CatalogRows(req[r].key, req[r].granted)
             doc == [EmptyDoc EXCEPT !.rows = rows]
             todo == {a \in Apps : rows[a] # NoRow}
  <2>1. rows \in [Apps -> Row]
    BY CatalogRowsType DEF TypeInv, TypeOK
  <2>2. doc \in Document
    <3> HIDE DEF rows
    <3> QED BY <2>1, EmptyDocType DEF Document
  <2>3. req' = [req EXCEPT ![r].pc = "texts", ![r].doc = doc, ![r].todo = todo]
    BY <1>5 DEF BuildRows
  <2>4. req[r].pc = "build" /\ todo \subseteq Apps
    BY <1>5 DEF BuildRows
  <2>5. ReqOK
    <3> HIDE DEF doc, todo
    <3> QED BY <1>0, <2>2, <2>3, <2>4 DEF Request, ReqStates
  <2> QED BY <1>a, <1>5, <2>5 DEF BuildRows
<1>6. ASSUME NEW a \in Apps, ReadTexts(r, a) PROVE TypeInv'
  <2>1. trans[a] \in Texts \cup {None}
    BY DEF TypeInv, TypeOK, SourceTypeOK
  <2>2. ReqOK
    BY <1>0, <1>6, <2>1 DEF ReadTexts, Request, ReqStates, Document
  <2> QED BY <1>a, <1>6, <2>2 DEF ReadTexts
<1>7. CASE SaveSnapshot(r)
  <2> DEFINE q == req[r]
  <2>1. q.key \in Keys /\ signer \in SigningKeys \cup {None}
    BY <1>0, <1>7 DEF SaveSnapshot, TypeInv, TypeOK
  <2>2. Built(q) \in Snapshot
    BY <1>0, <2>1 DEF Built, Snapshot, Request
  <2>3. ReqOK
    BY <1>0, <1>7, <2>1 DEF SaveSnapshot, Request, ReqStates
  <2>4. publicCache' \in [Keys -> Snapshot \cup {None}]
    BY <1>7, <2>1, <2>2 DEF SaveSnapshot, TypeInv, TypeOK, cacheVars
  <2>5. newer' \subseteq Keys \X Keys
    <3>1. {<<q.key, k>> : k \in CachedIn(q.key[1]) \ {q.key}} \subseteq Keys \X Keys
      BY <2>1 DEF CachedIn
    <3> QED BY <1>7, <3>1 DEF SaveSnapshot, TypeInv, TypeOK, cacheVars
  <2>6. privateCache' \in [Platforms -> [Keys -> Snapshot \cup {None}]]
    BY <1>7, <2>1, <2>2 DEF SaveSnapshot, TypeInv, TypeOK, cacheVars
  <2> QED BY <1>b, <1>7, <2>3, <2>4, <2>5, <2>6 DEF SaveSnapshot
<1>8. CASE PruneSnapshots(r)
  <2>1. ReqOK
    BY <1>0, <1>8 DEF PruneSnapshots, Request, ReqStates
  <2>2. publicCache' \in [Keys -> Snapshot \cup {None}]
    BY <1>8 DEF PruneSnapshots, TypeInv, TypeOK
  <2>3. newer' \subseteq Keys \X Keys
    BY <1>8 DEF PruneSnapshots, TypeInv, TypeOK
  <2>4. privateCache' \in [Platforms -> [Keys -> Snapshot \cup {None}]]
    BY <1>8 DEF PruneSnapshots, TypeInv, TypeOK
  <2> QED BY <1>b, <1>8, <2>1, <2>2, <2>3, <2>4 DEF PruneSnapshots
<1>9. CASE Answer(r) \/ Abort(r)
  <2>1. req' = [req EXCEPT ![r] = IdleReq]
    BY <1>9 DEF Answer, Abort
  <2>2. ReqOK
    BY <1>0, <2>1, IdleReqType DEF IdleReq
  <2> QED BY <1>a, <1>9, <2>2 DEF Answer, Abort
<1> QED BY <1>1, <1>2, <1>3, <1>4, <1>5, <1>6, <1>7, <1>8, <1>9 DEF ReqStep

\* A step of an operator handler preserves the types.
LEMMA OpStepType ==
    ASSUME TypeInv, NEW o \in Ops, OpStep(o)
    PROVE  TypeInv'
<1> DEFINE OpOK == /\ op' \in [Ops -> Operation]
                   /\ \A i \in Ops : /\ op'[i].pc # "idle" => op'[i].platform \in Platforms
                                     /\ op'[i].pc = "grant" => op'[i].app \in Apps
<1>0. /\ op \in [Ops -> Operation]
      /\ \A i \in Ops : /\ op[i].pc # "idle" => op[i].platform \in Platforms
                        /\ op[i].pc = "grant" => op[i].app \in Apps
  BY DEF TypeInv, TypeOK, Addressed
<1>a. ASSUME UNCHANGED <<sourceVars, lastSeen, publicCache, newer, processVars, req>>, OpOK,
             platforms' \in [Platforms -> {"unregistered", "enabled", "disabled"}],
             grants' \subseteq Apps \X Platforms,
             everGranted' \subseteq Apps \X Platforms,
             privateCache' \in [Platforms -> [Keys -> Snapshot \cup {None}]]
      PROVE  TypeInv'
  BY <1>a DEF TypeInv, TypeOK, SourceTypeOK, ForeignKeys, Addressed, sourceVars, processVars
<1>1. ASSUME NEW p \in Platforms, NEW a \in Apps, GrantCheck(o, p, a)
      PROVE  TypeInv'
  <2>1. OpOK
    BY <1>0, <1>1 DEF GrantCheck, Operation
  <2> QED BY <1>a, <1>1, <2>1 DEF GrantCheck, audienceVars, cacheVars, TypeInv, TypeOK
<1>2. CASE Grant(o)
  <2>1. OpOK
    BY <1>0, <1>2, IdleOpType DEF Grant, Operation, IdleOp
  <2>2. <<op[o].app, op[o].platform>> \in Apps \X Platforms
    BY <1>0, <1>2 DEF Grant
  <2>3. grants' \subseteq Apps \X Platforms /\ everGranted' \subseteq Apps \X Platforms
    BY <1>2, <2>2 DEF Grant, TypeInv, TypeOK
  <2> QED BY <1>a, <1>2, <2>1, <2>3 DEF Grant, cacheVars, TypeInv, TypeOK
<1>3. ASSUME NEW p \in Platforms, NEW a \in Apps, Revoke(o, p, a)
      PROVE  TypeInv'
  <2>1. OpOK
    BY <1>0, <1>3 DEF Revoke, Operation
  <2>2. grants' \subseteq Apps \X Platforms
    BY <1>3 DEF Revoke, TypeInv, TypeOK
  <2> QED BY <1>a, <1>3, <2>1, <2>2 DEF Revoke, cacheVars, TypeInv, TypeOK
<1>4. ASSUME NEW p \in Platforms, NEW access \in {"enabled", "disabled"},
             SetPlatformEnabled(o, p, access)
      PROVE  TypeInv'
  <2>1. OpOK
    BY <1>0, <1>4 DEF SetPlatformEnabled, Operation
  <2>2. platforms' \in [Platforms -> {"unregistered", "enabled", "disabled"}]
    BY <1>4 DEF SetPlatformEnabled, TypeInv, TypeOK
  <2> QED BY <1>a, <1>4, <2>1, <2>2 DEF SetPlatformEnabled, cacheVars, TypeInv, TypeOK
<1>5. CASE DiscardPrivateSnapshots(o)
  <2>1. OpOK
    BY <1>0, <1>5, IdleOpType DEF DiscardPrivateSnapshots, IdleOp
  <2>2. privateCache' \in [Platforms -> [Keys -> Snapshot \cup {None}]]
    BY <1>5 DEF DiscardPrivateSnapshots, TypeInv, TypeOK
  <2> QED BY <1>a, <1>5, <2>1, <2>2 DEF DiscardPrivateSnapshots, audienceVars, TypeInv, TypeOK
<1> QED BY <1>1, <1>2, <1>3, <1>4, <1>5 DEF OpStep

\* Every step preserves the types.
LEMMA TypeNext == TypeInv /\ [Next]_vars => TypeInv'
<1> SUFFICES ASSUME TypeInv, [Next]_vars PROVE TypeInv'
  OBVIOUS
<1>1. ASSUME NEW r \in Reqs, ReqStep(r) PROVE TypeInv'
  BY <1>1, ReqStepType
<1>2. ASSUME NEW o \in Ops, OpStep(o) PROVE TypeInv'
  BY <1>2, OpStepType
<1>3. ASSUME NEW p \in Platforms, CreatePlatform(p) PROVE TypeInv'
  BY <1>3 DEF CreatePlatform, TypeInv, TypeOK, SourceTypeOK, ForeignKeys, Addressed,
              sourceVars, cacheVars, processVars
<1>4. CASE RebuildSnapshots
  BY <1>4 DEF RebuildSnapshots, DiscardSnapshots, TypeInv, TypeOK, SourceTypeOK,
              ForeignKeys, Addressed, sourceVars, audienceVars
<1>5. ASSUME NEW s \in SigningKeys \cup {None}, Restart(s) PROVE TypeInv'
  <2>1. req' \in [Reqs -> Request] /\ op' \in [Ops -> Operation]
    BY <1>5, IdleReqType, IdleOpType DEF Restart
  <2>2. Addressed'
    BY <1>5 DEF Restart, Addressed, IdleReq, IdleOp
  <2>3. rotated' \in BOOLEAN
    BY <1>5 DEF Restart, TypeInv, TypeOK
  <2> QED BY <1>5, <2>1, <2>2, <2>3 DEF Restart, TypeInv, TypeOK, SourceTypeOK, ForeignKeys,
                                         sourceVars, audienceVars, cacheVars
<1>6. CASE Publish
  <2>1. SourceTypeOK' /\ ForeignKeys'
    BY <1>6, SourceType DEF Publish, TypeInv, TypeOK
  <2> QED BY <1>6, <2>1 DEF Publish, TypeInv, TypeOK, Addressed, audienceVars, cacheVars,
                             processVars
<1>7. CASE UNCHANGED vars
  BY <1>7 DEF vars, TypeInv, TypeOK, SourceTypeOK, ForeignKeys, Addressed, sourceVars,
              audienceVars, cacheVars, processVars
<1> QED BY <1>1, <1>2, <1>3, <1>4, <1>5, <1>6, <1>7 DEF Next

\* Every variable keeps its type: in particular every document that is cached,
\* or being assembled, lists each app under one of its version numbers and with
\* the entry of a registered app.
THEOREM TypeCorrect == Spec => []TypeOK
<1>1. Spec => []TypeInv
  BY TypeInit, TypeNext, PTL DEF Spec
<1>2. TypeInv => TypeOK
  BY DEF TypeInv
<1> QED BY <1>1, <1>2, PTL

------------------------------------------------------------------------------
(* Key rotation.                                                           *)

\* Unless the key has changed and nobody has rebuilt since, every document in
\* the public cache is signed by the key in use.
THEOREM PublicIsResigned == Spec => []PublicResigned
<1>1. Init => PublicResigned
  BY DEF Init, PublicResigned
<1>2. TypeInv /\ PublicResigned /\ [Next]_vars => PublicResigned'
  <2> SUFFICES ASSUME TypeInv, PublicResigned, [Next]_vars PROVE PublicResigned'
    OBVIOUS
  <2>1. ASSUME NEW r \in Reqs, ReqStep(r) PROVE PublicResigned'
    <3>1. UNCHANGED <<signer, rotated>>
      BY <2>1 DEF ReqStep, Arrive, ReadGrants, ReadRevision, LoadSnapshot, BuildRows,
                  ReadTexts, SaveSnapshot, PruneSnapshots, Answer, Abort, processVars
    <3>2. CASE UNCHANGED publicCache
      BY <3>1, <3>2 DEF PublicResigned
    <3>3. CASE SaveSnapshot(r) /\ publicCache' # publicCache
      <4>1. publicCache' = [publicCache EXCEPT ![req[r].key] = Built(req[r])]
        BY <3>3 DEF SaveSnapshot, cacheVars
      <4>2. Built(req[r]).signed = signer
        BY DEF Built
      <4> QED BY <3>1, <4>1, <4>2 DEF PublicResigned, TypeInv, TypeOK
    <3>4. CASE PruneSnapshots(r)
      <4>1. \A k \in Keys : publicCache'[k] \in {publicCache[k], None}
        BY <3>4 DEF PruneSnapshots
      <4> QED BY <3>1, <4>1 DEF PublicResigned
    <3> QED BY <2>1, <3>2, <3>3, <3>4
        DEF ReqStep, Arrive, ReadGrants, ReadRevision, LoadSnapshot, BuildRows,
            ReadTexts, Answer, Abort, cacheVars
  <2>2. CASE RebuildSnapshots
    BY <2>2 DEF RebuildSnapshots, DiscardSnapshots, PublicResigned
  <2>3. ASSUME NEW s \in SigningKeys \cup {None}, Restart(s) PROVE PublicResigned'
    BY <2>3 DEF Restart, PublicResigned, cacheVars, TypeInv, TypeOK
  <2>4. CASE UNCHANGED <<publicCache, signer, rotated>>
    BY <2>4 DEF PublicResigned
  <2> QED BY <2>1, <2>2, <2>3, <2>4
      DEF Next, OpStep, GrantCheck, Grant, Revoke, SetPlatformEnabled,
          DiscardPrivateSnapshots, CreatePlatform, Publish, vars, cacheVars, processVars
<1>3. Spec => []TypeInv
  BY TypeInit, TypeNext, PTL DEF Spec
<1> QED BY <1>1, <1>2, <1>3, PTL DEF Spec

------------------------------------------------------------------------------
(* The bound of the public cache, for every set of keys and handlers,      *)
(* every bound, and any interleaving of saves and prunes.                  *)
(*                                                                         *)
(* The bound is a statement about the handlers that have saved and not yet *)
(* pruned, so it needs the order the rows were built in to be a linear one *)
(* per channel, and nothing to come between a save and its prune: a prune  *)
(* that fails, or a process that dies before it, leaves its row behind     *)
(* until a later prune of the channel, and EveryPruneHappens excludes      *)
(* both.                                                                   *)

\* Handlers that saved a document of the channel, or tried to, and have not
\* pruned it.
Saving(c) == {r \in Reqs : req[r].pc = "prune" /\ req[r].key[1] = c}

\* A prune is not refused, and the process does not die before it.
EveryPruneHappens == Faults \cap {"prune", "restart"} = {}

------------------------------------------------------------------------------
(* A prune keeps the rows with fewest above them.                          *)

\* The order on a channel's rows: no row is newer than itself, and of two rows
\* one is newer.
Ordered(C) ==
    /\ \A k \in C : <<k, k>> \notin newer
    /\ \A i, j, k \in C : <<i, j>> \in newer /\ <<j, k>> \in newer => <<i, k>> \in newer
    /\ \A j, k \in C : j # k => <<j, k>> \in newer \/ <<k, j>> \in newer

Above(C, k) == {j \in C : <<j, k>> \in newer}

\* Counting the rows above each of them orders the rows as newer does.
LEMMA OlderHasMoreAbove ==
    ASSUME NEW C, IsFiniteSet(C), Ordered(C), NEW j \in C, NEW k \in C, <<k, j>> \in newer
    PROVE  Cardinality(Above(C, k)) < Cardinality(Above(C, j))
<1>1. /\ Above(C, k) \in SUBSET C /\ Above(C, j) \in SUBSET C
      /\ IsFiniteSet(Above(C, k)) /\ IsFiniteSet(Above(C, j))
  BY FS_Subset DEF Above
<1>2. k \notin Above(C, k)
  BY DEF Above, Ordered
<1>3. Above(C, k) \cup {k} \in SUBSET Above(C, j)
  BY DEF Above, Ordered
<1>4. /\ Cardinality(Above(C, k) \cup {k}) = Cardinality(Above(C, k)) + 1
      /\ Cardinality(Above(C, k)) \in Nat /\ Cardinality(Above(C, j)) \in Nat
  BY <1>1, <1>2, FS_AddElement, FS_CardinalityType
<1>5. Cardinality(Above(C, k) \cup {k}) <= Cardinality(Above(C, j))
  BY <1>1, <1>3, FS_Subset
<1> QED BY <1>4, <1>5

\* Among rows whose counts are below a bound, one has the highest count.
LEMMA MostAbove ==
    ASSUME NEW C, IsFiniteSet(C), NEW N \in Nat, NEW R \in SUBSET C, R # {},
           \A k \in R : Cardinality(Above(C, k)) < N
    PROVE  \E k \in R : \A j \in R : Cardinality(Above(C, j)) <= Cardinality(Above(C, k))
<1> DEFINE rank(k) == Cardinality(Above(C, k))
           T == {N - rank(k) : k \in R}
<1>1. \A k \in R : rank(k) \in Nat /\ rank(k) < N
  <2>1. ASSUME NEW k \in R PROVE rank(k) \in Nat
    <3>1. IsFiniteSet(Above(C, k))
      BY FS_Subset DEF Above
    <3> QED BY <3>1, FS_CardinalityType
  <2> QED BY <2>1
<1> HIDE DEF rank
<1>2. T \subseteq Nat /\ T # {}
  <2>1. \A k \in R : N - rank(k) \in Nat
    BY <1>1
  <2> QED BY <2>1
<1>3. PICK x \in T : \A y \in T : ~ (<<y, x>> \in OpToRel(<, Nat))
  <2>1. \E x \in T : \A y \in T : ~ (<<y, x>> \in OpToRel(<, Nat))
    <3> HIDE DEF T
    <3> QED BY <1>2, WFMin, NatLessThanWellFounded
  <2> QED BY <2>1
<1>4. \A y \in T : ~ (y < x)
  BY <1>2, <1>3 DEF OpToRel
<1>5. PICK k \in R : x = N - rank(k)
  BY DEF T
<1>6. ASSUME NEW j \in R PROVE rank(j) <= rank(k)
  <2>1. N - rank(j) \in T
    OBVIOUS
  <2>2. ~ (N - rank(j) < N - rank(k))
    BY <1>4, <1>5, <2>1
  <2> QED BY <1>1, <2>2
<1> QED BY <1>6 DEF rank

\* No more than N rows of a channel have fewer than N rows above them.
LEMMA FewAreRecent ==
    ASSUME NEW C, IsFiniteSet(C), Ordered(C), NEW N \in Nat,
           NEW R \in SUBSET C, \A k \in R : Cardinality(Above(C, k)) < N
    PROVE  IsFiniteSet(R) /\ Cardinality(R) <= N
<1>1. IsFiniteSet(R)
  BY FS_Subset
<1>2. CASE R = {}
  BY <1>1, <1>2, FS_EmptySet
<1>3. CASE R # {}
  <2>1. PICK k \in R : \A j \in R : Cardinality(Above(C, j)) <= Cardinality(Above(C, k))
    BY <1>3, MostAbove
  <2>2. \A j \in R : IsFiniteSet(Above(C, j)) /\ Cardinality(Above(C, j)) \in Nat
    <3>1. ASSUME NEW j \in R PROVE IsFiniteSet(Above(C, j))
      BY FS_Subset DEF Above
    <3> QED BY <3>1, FS_CardinalityType
  <2>3. ASSUME NEW j \in R, j # k PROVE <<j, k>> \in newer
    <3>1. CASE <<k, j>> \in newer
      <4>1. Cardinality(Above(C, k)) < Cardinality(Above(C, j))
        BY <3>1, OlderHasMoreAbove
      <4> QED BY <2>1, <2>2, <4>1
    <3> QED BY <2>3, <3>1 DEF Ordered
  <2>4. R \ {k} \in SUBSET Above(C, k)
    BY <2>3 DEF Above
  <2>5. Cardinality(R \ {k}) <= Cardinality(Above(C, k))
    BY <2>2, <2>4, FS_Subset
  <2>6. Cardinality(R \ {k}) = Cardinality(R) - 1 /\ Cardinality(R) \in Nat
    BY <1>1, FS_RemoveElement, FS_CardinalityType
  <2> QED BY <1>1, <2>2, <2>5, <2>6
<1> QED BY <1>2, <1>3
------------------------------------------------------------------------------
(* The order of the rows, and how many there are.                          *)

\* Every channel's rows are linearly ordered by when they were built, and
\* finitely many; so are the handlers that are about to prune.
ChannelsOrdered == \A c \in Channels : Ordered(CachedIn(c))

ChannelsFinite ==
    \A c \in Channels : IsFiniteSet(CachedIn(c)) /\ IsFiniteSet(Saving(c))

OrderInv == TypeInv /\ ChannelsOrdered /\ ChannelsFinite

\* Rows that stay, in the order they had, stay ordered.
LEMMA OrderKept ==
    ASSUME NEW C, Ordered(C), NEW D \in SUBSET C,
           \A j, k \in D : <<j, k>> \in newer' <=> <<j, k>> \in newer
    PROVE  Ordered(D)'
BY DEF Ordered

\* A handler that neither writes the public cache nor enters or leaves the
\* prune leaves the bound alone.
LEMMA BoundStable ==
    ASSUME OrderInv, TypeInv', UNCHANGED <<publicCache, newer>>,
           \A c \in Channels : Saving(c)' = Saving(c)
    PROVE  OrderInv' /\ (CacheBounded => CacheBounded')
<1>1. \A c \in Channels : CachedIn(c)' = CachedIn(c)
  BY DEF CachedIn
<1>2. \A c \in Channels : Ordered(CachedIn(c))'
  BY <1>1, OrderKept DEF OrderInv, ChannelsOrdered, Ordered
<1>3. CacheBounded => CacheBounded'
  BY <1>1 DEF CacheBounded, Saving
<1> QED BY <1>1, <1>2, <1>3 DEF OrderInv, ChannelsOrdered, ChannelsFinite

\* The same for handlers that leave without having pruned.
LEMMA FewerSaving ==
    ASSUME OrderInv, TypeInv', UNCHANGED <<publicCache, newer>>,
           \A c \in Channels : Saving(c)' \in SUBSET Saving(c)
    PROVE  OrderInv' /\ \A c \in Channels : CachedIn(c)' = CachedIn(c)
<1>1. \A c \in Channels : CachedIn(c)' = CachedIn(c)
  BY DEF CachedIn
<1>2. \A c \in Channels : Ordered(CachedIn(c))'
  BY <1>1, OrderKept DEF OrderInv, ChannelsOrdered, Ordered
<1>3. \A c \in Channels : IsFiniteSet(Saving(c)')
  BY FS_Subset DEF OrderInv, ChannelsFinite
<1> QED BY <1>1, <1>2, <1>3 DEF OrderInv, ChannelsOrdered, ChannelsFinite

\* A handler that moves from a step before the prune to another such step
\* leaves the handlers about to prune as they are.
LEMMA SavingStable ==
    ASSUME NEW r \in Reqs, \A i \in Reqs : i # r => req'[i] = req[i],
           req[r].pc # "prune", req'[r].pc # "prune"
    PROVE  \A c \in Channels : Saving(c)' = Saving(c)
BY DEF Saving

\* A save adds one row to its channel and one handler about to prune it.
LEMMA SaveKeepsBound ==
    ASSUME OrderInv, TypeInv', NEW r \in Reqs, SaveSnapshot(r)
    PROVE  OrderInv' /\ (CacheBounded => CacheBounded')
<1> DEFINE q == req[r]
           c0 == q.key[1]
           next == [q EXCEPT !.pc = IF q.platform = None THEN "prune" ELSE "done",
                             !.signed = signer]
<1>1. req \in [Reqs -> Request] /\ q \in Request /\ q.pc = "texts" /\ q.key \in Keys
  BY DEF OrderInv, TypeInv, TypeOK, Addressed, SaveSnapshot
<1>2. req' = [req EXCEPT ![r] = next]
  BY <1>1 DEF SaveSnapshot
<1>3. /\ next.pc = IF q.platform = None THEN "prune" ELSE "done"
      /\ next.key = q.key
  BY <1>1 DEF Request
<1>4. CASE q.platform # None
  <2>1. UNCHANGED <<publicCache, newer>>
    BY <1>4 DEF SaveSnapshot, cacheVars
  <2>2. next.pc # "prune" /\ req[r].pc # "prune"
    BY <1>1, <1>3, <1>4
  <2>3. (\A i \in Reqs : i # r => req'[i] = req[i]) /\ req'[r].pc # "prune"
    <3> HIDE DEF next
    <3> QED BY <1>1, <1>2, <2>2
  <2>4. \A c \in Channels : Saving(c)' = Saving(c)
    BY <2>2, <2>3, SavingStable
  <2> QED BY <2>1, <2>4, BoundStable
<1>5. CASE q.platform = None
  <2>1. /\ \A i \in Reqs : i # r => req'[i] = req[i]
        /\ req'[r].pc = "prune" /\ req'[r].key = q.key /\ req[r].pc # "prune"
    <3> HIDE DEF next
    <3> QED BY <1>1, <1>2, <1>3, <1>5
  <2>2. ASSUME NEW c \in Channels
        PROVE  /\ c = c0 => Saving(c)' = Saving(c) \cup {r}
               /\ c # c0 => Saving(c)' = Saving(c)
               /\ r \notin Saving(c)
    BY <2>1 DEF Saving
  <2>3. ASSUME NEW c \in Channels
        PROVE  /\ IsFiniteSet(Saving(c)')
               /\ Cardinality(Saving(c)') = Cardinality(Saving(c)) + (IF c = c0 THEN 1 ELSE 0)
               /\ Cardinality(Saving(c)) \in Nat
    <3>1. IsFiniteSet(Saving(c))
      BY DEF OrderInv, ChannelsFinite
    <3>2. Cardinality(Saving(c)) \in Nat
      BY <3>1, FS_CardinalityType
    <3> QED BY <2>2, <3>1, <3>2, FS_AddElement
  <2>4. CASE UNCHANGED <<publicCache, newer>>
    <3>1. \A c \in Channels : CachedIn(c)' = CachedIn(c)
      BY <2>4 DEF CachedIn
    <3>2. ChannelsOrdered'
      BY <2>4, <3>1, OrderKept DEF OrderInv, ChannelsOrdered, Ordered
    <3>3. ChannelsFinite'
      BY <2>3, <3>1 DEF OrderInv, ChannelsFinite
    <3>4. ASSUME CacheBounded, NEW c \in Channels
          PROVE  Cardinality(CachedIn(c)') <= MaxSnapshots + Cardinality(Saving(c)')
      <4>1. Cardinality(CachedIn(c)) <= MaxSnapshots + Cardinality(Saving(c))
        BY <3>4 DEF CacheBounded, Saving
      <4>2. Cardinality(CachedIn(c)) \in Nat
        BY FS_CardinalityType DEF OrderInv, ChannelsFinite
      <4> QED BY <2>3, <3>1, <4>1, <4>2, ServiceAssumption
    <3> QED BY <3>2, <3>3, <3>4 DEF OrderInv, CacheBounded, Saving
  <2>5. CASE /\ publicCache' = [publicCache EXCEPT ![q.key] = Built(q)]
             /\ newer' = {e \in newer : q.key \notin {e[1], e[2]}}
                            \cup {<<q.key, k>> : k \in CachedIn(c0) \ {q.key}}
    <3>1. ASSUME NEW c \in Channels
          PROVE  /\ CachedIn(c)' \subseteq CachedIn(c) \cup {q.key}
                 /\ c # c0 => CachedIn(c)' = CachedIn(c) /\ q.key \notin CachedIn(c)
      BY <1>1, <2>5 DEF CachedIn, OrderInv, TypeInv, TypeOK
    <3>2. ASSUME NEW j, NEW k
          PROVE  <<j, k>> \in newer' <=>
                    \/ <<j, k>> \in newer /\ j # q.key /\ k # q.key
                    \/ j = q.key /\ k \in CachedIn(c0) /\ k # q.key
      <4> HIDE DEF q, c0
      <4> QED BY <2>5
    <3>3. ASSUME NEW c \in Channels PROVE Ordered(CachedIn(c))'
      <4>1. Ordered(CachedIn(c))
        BY DEF OrderInv, ChannelsOrdered
      <4>2. CASE c # c0
        <5>1. \A j, k \in CachedIn(c) : <<j, k>> \in newer' <=> <<j, k>> \in newer
          <6>1. ASSUME NEW j \in CachedIn(c), NEW k \in CachedIn(c)
                PROVE  <<j, k>> \in newer' <=> <<j, k>> \in newer
            <7>1. j # q.key /\ k # q.key
              BY <3>1, <4>2
            <7> HIDE DEF q, c0
            <7> QED BY <3>2, <7>1
          <6> QED BY <6>1
        <5> QED BY <3>1, <4>1, <4>2, <5>1 DEF Ordered
      <4>3. CASE c = c0
        <5> DEFINE C == CachedIn(c)
                   D == CachedIn(c)'
        <5>1. D \subseteq C \cup {q.key}
          BY <3>1
        <5>2. \A j, k : <<j, k>> \in newer' <=>
                    \/ <<j, k>> \in newer /\ j # q.key /\ k # q.key
                    \/ j = q.key /\ k \in C /\ k # q.key
          BY <3>2, <4>3
        <5>3. /\ \A k \in C : <<k, k>> \notin newer
              /\ \A i, j, k \in C : <<i, j>> \in newer /\ <<j, k>> \in newer => <<i, k>> \in newer
              /\ \A j, k \in C : j # k => <<j, k>> \in newer \/ <<k, j>> \in newer
          BY <4>1 DEF Ordered
        <5> HIDE DEF C, D, q, c0
        <5>4. \A k \in D : <<k, k>> \notin newer'
          BY <5>1, <5>2, <5>3
        <5>5. \A i, j, k \in D : <<i, j>> \in newer' /\ <<j, k>> \in newer' => <<i, k>> \in newer'
          BY <5>1, <5>2, <5>3
        <5>6. \A j, k \in D : j # k => <<j, k>> \in newer' \/ <<k, j>> \in newer'
          BY <5>1, <5>2, <5>3
        <5> QED BY <5>4, <5>5, <5>6 DEF Ordered, D
      <4> QED BY <4>2, <4>3
    <3>4. ASSUME NEW c \in Channels
          PROVE  /\ IsFiniteSet(CachedIn(c)')
                 /\ Cardinality(CachedIn(c)') <= Cardinality(CachedIn(c)) + (IF c = c0 THEN 1 ELSE 0)
                 /\ Cardinality(CachedIn(c)') \in Nat /\ Cardinality(CachedIn(c)) \in Nat
      <4>1. IsFiniteSet(CachedIn(c)) /\ Cardinality(CachedIn(c)) \in Nat
        BY FS_CardinalityType DEF OrderInv, ChannelsFinite
      <4>2. CASE c # c0
        BY <3>1, <4>1, <4>2
      <4>3. CASE c = c0
        <5>1. /\ IsFiniteSet(CachedIn(c) \cup {q.key})
              /\ Cardinality(CachedIn(c) \cup {q.key}) <= Cardinality(CachedIn(c)) + 1
              /\ Cardinality(CachedIn(c) \cup {q.key}) \in Nat
          <6> DEFINE C == CachedIn(c)
                     x == q.key
          <6>1. IsFiniteSet(C) /\ Cardinality(C) \in Nat
            BY <4>1
          <6> HIDE DEF C, x
          <6>2. /\ IsFiniteSet(C \cup {x})
                /\ Cardinality(C \cup {x}) = IF x \in C THEN Cardinality(C) ELSE Cardinality(C) + 1
            BY <6>1, FS_AddElement
          <6>3. Cardinality(C \cup {x}) <= Cardinality(C) + 1 /\ Cardinality(C \cup {x}) \in Nat
            BY <6>1, <6>2
          <6> QED BY <6>2, <6>3 DEF C, x
        <5>2. /\ IsFiniteSet(CachedIn(c)')
              /\ Cardinality(CachedIn(c)') <= Cardinality(CachedIn(c) \cup {q.key})
          BY <3>1, <5>1, FS_Subset
        <5>3. Cardinality(CachedIn(c)') \in Nat
          BY <5>2, FS_CardinalityType
        <5> QED BY <4>1, <4>3, <5>1, <5>2, <5>3
      <4> QED BY <4>2, <4>3
    <3>5. ASSUME CacheBounded, NEW c \in Channels
          PROVE  Cardinality(CachedIn(c)') <= MaxSnapshots + Cardinality(Saving(c)')
      <4>1. Cardinality(CachedIn(c)) <= MaxSnapshots + Cardinality(Saving(c))
        BY <3>5 DEF CacheBounded, Saving
      <4> QED BY <2>3, <3>4, <4>1, ServiceAssumption
    <3> QED BY <2>3, <3>3, <3>4, <3>5
        DEF OrderInv, CacheBounded, ChannelsOrdered, ChannelsFinite, Saving
  <2> QED BY <1>5, <2>4, <2>5 DEF SaveSnapshot, cacheVars
<1> QED BY <1>4, <1>5

\* The statement of pruneSnapshots succeeds.
Pruned(c) ==
    /\ publicCache' = [k \in Keys |-> IF k \in Surplus(c) THEN None ELSE publicCache[k]]
    /\ newer' = {e \in newer : e[1] \notin Surplus(c) /\ e[2] \notin Surplus(c)}

\* A prune that succeeds leaves no more rows than the bound, and those it drops
\* were built before every row of the channel that it leaves.
LEMMA PruneKeepsBound ==
    ASSUME OrderInv, TypeInv', NEW r \in Reqs, PruneSnapshots(r),
           NEW c0 \in Channels, c0 = req[r].key[1], Pruned(c0)
    PROVE  /\ OrderInv' /\ (CacheBounded => CacheBounded')
           /\ Cardinality(CachedIn(c0)') <= MaxSnapshots
           /\ \A k \in CachedIn(c0) \ CachedIn(c0)', j \in CachedIn(c0)' : <<j, k>> \in newer
           /\ \A c \in Channels : c # c0 => CachedIn(c)' = CachedIn(c)
<1> DEFINE surplus == Surplus(c0)
           next == [req[r] EXCEPT !.pc = "done"]
<1>1. /\ req \in [Reqs -> Request] /\ req[r].pc = "prune" /\ req[r].key \in Keys
      /\ req' = [req EXCEPT ![r] = next] /\ next.pc = "done"
  BY DEF OrderInv, TypeInv, TypeOK, Addressed, PruneSnapshots, Request
<1>2. c0 \in Channels /\ c0 = req[r].key[1]
  OBVIOUS
<1>3. /\ publicCache' = [k \in Keys |-> IF k \in surplus THEN None ELSE publicCache[k]]
      /\ newer' = {e \in newer : e[1] \notin surplus /\ e[2] \notin surplus}
  BY DEF Pruned
<1>4. ASSUME NEW c \in Channels
      PROVE  CachedIn(c)' = CachedIn(c) \ surplus /\ (c # c0 => CachedIn(c)' = CachedIn(c))
  <2>1. CachedIn(c)' = CachedIn(c) \ surplus
    <3> HIDE DEF surplus
    <3> QED BY <1>3 DEF CachedIn
  <2>2. surplus \subseteq CachedIn(c0)
    BY DEF Surplus
  <2>3. c # c0 => CachedIn(c) \cap CachedIn(c0) = {}
    BY DEF CachedIn
  <2> QED BY <2>1, <2>2, <2>3
<1>5. ASSUME NEW c \in Channels PROVE Ordered(CachedIn(c))'
  <2>1. Ordered(CachedIn(c))
    BY DEF OrderInv, ChannelsOrdered
  <2>2. ASSUME NEW j \in CachedIn(c)', NEW k \in CachedIn(c)'
        PROVE  <<j, k>> \in newer' <=> <<j, k>> \in newer
    <3>1. j \notin surplus /\ k \notin surplus
      BY <1>4
    <3> HIDE DEF surplus
    <3> QED BY <1>3, <3>1
  <2>3. CachedIn(c)' \subseteq CachedIn(c)
    BY <1>4
  <2> QED BY <2>1, <2>2, <2>3 DEF Ordered
<1>6. ASSUME NEW c \in Channels
      PROVE  /\ IsFiniteSet(CachedIn(c)') /\ IsFiniteSet(Saving(c)')
             /\ Cardinality(CachedIn(c)') \in Nat /\ Cardinality(Saving(c)') \in Nat
             /\ c # c0 => Saving(c)' = Saving(c)
  <2>1. IsFiniteSet(CachedIn(c)) /\ IsFiniteSet(Saving(c))
    BY DEF OrderInv, ChannelsFinite
  <2>2. Saving(c)' \in SUBSET Saving(c) /\ (c # c0 => Saving(c)' = Saving(c))
    <3>1. /\ \A i \in Reqs : i # r => req'[i] = req[i]
          /\ req'[r].pc # "prune"
      <4> HIDE DEF next
      <4> QED BY <1>1
    <3> QED BY <3>1 DEF Saving
  <2>3. CachedIn(c)' \in SUBSET CachedIn(c)
    BY <1>4
  <2>4. IsFiniteSet(CachedIn(c)') /\ IsFiniteSet(Saving(c)')
    BY <2>1, <2>2, <2>3, FS_Subset
  <2> QED BY <2>2, <2>4, FS_CardinalityType
<1>7. Cardinality(CachedIn(c0)') <= MaxSnapshots
  <2>1. IsFiniteSet(CachedIn(c0)) /\ Ordered(CachedIn(c0))
    BY <1>2 DEF OrderInv, ChannelsOrdered, ChannelsFinite
  <2>2. CachedIn(c0)' = CachedIn(c0) \ surplus
    <3> HIDE DEF surplus
    <3> QED BY <1>2, <1>4
  <2>3. ASSUME NEW k \in CachedIn(c0)'
        PROVE  Cardinality(Above(CachedIn(c0), k)) < MaxSnapshots
    <3>1. k \in CachedIn(c0) /\ k \notin surplus
      <4> HIDE DEF surplus
      <4> QED BY <2>2
    <3>2. ~ (Cardinality({j \in CachedIn(c0) : <<j, k>> \in newer}) >= MaxSnapshots)
      BY <3>1 DEF Surplus
    <3>3. Above(CachedIn(c0), k) = {j \in CachedIn(c0) : <<j, k>> \in newer}
      BY DEF Above
    <3>4. Cardinality(Above(CachedIn(c0), k)) \in Nat
      <4>1. IsFiniteSet(Above(CachedIn(c0), k))
        BY <2>1, FS_Subset DEF Above
      <4> QED BY <4>1, FS_CardinalityType
    <3> QED BY <3>2, <3>3, <3>4, ServiceAssumption
  <2> DEFINE C == CachedIn(c0)
             D == CachedIn(c0)'
  <2>4. IsFiniteSet(C) /\ Ordered(C) /\ D \in SUBSET C
    BY <2>1, <2>2
  <2>5. \A k \in D : Cardinality(Above(C, k)) < MaxSnapshots
    BY <2>3
  <2> HIDE DEF C, D
  <2>6. Cardinality(D) <= MaxSnapshots
    BY <2>4, <2>5, FewAreRecent, ServiceAssumption
  <2> QED BY <2>6 DEF D
<1>8. ASSUME CacheBounded, NEW c \in Channels
      PROVE  Cardinality(CachedIn(c)') <= MaxSnapshots + Cardinality(Saving(c)')
  <2>1. CASE c = c0
    <3>1. Cardinality(CachedIn(c)') <= MaxSnapshots
      BY <1>7, <2>1
    <3> QED BY <1>6, <3>1, ServiceAssumption
  <2>2. CASE c # c0
    <3>1. Cardinality(CachedIn(c)) <= MaxSnapshots + Cardinality(Saving(c))
      BY <1>8 DEF CacheBounded, Saving
    <3> QED BY <1>4, <1>6, <2>2, <3>1
  <2> QED BY <2>1, <2>2
<1>9. ASSUME NEW k \in CachedIn(c0) \ CachedIn(c0)', NEW j \in CachedIn(c0)'
      PROVE  <<j, k>> \in newer
  <2>1. /\ IsFiniteSet(CachedIn(c0)) /\ Ordered(CachedIn(c0))
        /\ j \in CachedIn(c0) /\ j # k
    BY <1>4 DEF OrderInv, ChannelsOrdered, ChannelsFinite
  <2>2. k \in surplus /\ j \notin surplus
    <3> HIDE DEF surplus
    <3> QED BY <1>4
  <2>3. /\ Cardinality(Above(CachedIn(c0), k)) >= MaxSnapshots
        /\ ~ (Cardinality(Above(CachedIn(c0), j)) >= MaxSnapshots)
    BY <2>1, <2>2 DEF Surplus, Above
  <2>4. /\ Cardinality(Above(CachedIn(c0), k)) \in Nat
        /\ Cardinality(Above(CachedIn(c0), j)) \in Nat
    <3>1. IsFiniteSet(Above(CachedIn(c0), k)) /\ IsFiniteSet(Above(CachedIn(c0), j))
      BY <2>1, FS_Subset DEF Above
    <3> QED BY <3>1, FS_CardinalityType
  <2>5. CASE <<k, j>> \in newer
    <3>1. Cardinality(Above(CachedIn(c0), k)) < Cardinality(Above(CachedIn(c0), j))
      BY <2>1, <2>5, OlderHasMoreAbove
    <3> QED BY <2>3, <2>4, <3>1, ServiceAssumption
  <2> QED BY <2>1, <2>5 DEF Ordered
<1> QED BY <1>4, <1>5, <1>6, <1>7, <1>8, <1>9
    DEF OrderInv, CacheBounded, ChannelsOrdered, ChannelsFinite, Saving

\* A save leaves every row of the cache where it is, or replaces it.
LEMMA SaveAddsRow ==
    ASSUME TypeInv, NEW r \in Reqs, SaveSnapshot(r), NEW c \in Channels
    PROVE  CachedIn(c) \subseteq CachedIn(c)'
<1>1. req[r] \in Request /\ req[r].key \in Keys /\ signer \in SigningKeys \cup {None}
  BY DEF TypeInv, TypeOK, Addressed, SaveSnapshot
<1>2. Built(req[r]) \in Snapshot
  BY <1>1 DEF Built, Snapshot, Request
<1>3. Built(req[r]) # None
  BY <1>2, SnapshotAssumption
<1>4. UNCHANGED publicCache \/ publicCache' = [publicCache EXCEPT ![req[r].key] = Built(req[r])]
  BY DEF SaveSnapshot, cacheVars
<1> QED BY <1>1, <1>3, <1>4 DEF CachedIn, TypeInv, TypeOK

\* Rows that a step deletes.
RowsDropped(c) == CachedIn(c) \ CachedIn(c)'

NoneDropped == \A c \in Channels : RowsDropped(c) = {}

OldestDropped(c) ==
    /\ Cardinality(CachedIn(c)') <= MaxSnapshots
    /\ \A k \in RowsDropped(c), j \in CachedIn(c)' : <<j, k>> \in newer

\* Every step keeps the order, and the bound unless a prune is refused or the
\* process dies; only a prune and a rebuild drop rows.
LEMMA BoundNext ==
    ASSUME OrderInv, [Next]_vars
    PROVE  /\ OrderInv'
           /\ EveryPruneHappens /\ CacheBounded => CacheBounded'
           /\ \A c \in Channels : RowsDropped(c) # {} => OldestDropped(c)
<1>1. TypeInv /\ TypeInv'
  BY TypeNext DEF OrderInv
<1>2. ASSUME UNCHANGED <<publicCache, newer>>, \A c \in Channels : Saving(c)' = Saving(c)
      PROVE  OrderInv' /\ (CacheBounded => CacheBounded') /\ NoneDropped
  BY <1>1, <1>2, BoundStable DEF CachedIn, NoneDropped, RowsDropped
<1>3. ASSUME NEW r \in Reqs, SaveSnapshot(r)
      PROVE  OrderInv' /\ (CacheBounded => CacheBounded') /\ NoneDropped
  <2>1. NoneDropped
    BY <1>1, <1>3, SaveAddsRow DEF NoneDropped, RowsDropped
  <2> QED BY <1>1, <1>3, <2>1, SaveKeepsBound
<1>4. ASSUME NEW r \in Reqs, PruneSnapshots(r), Pruned(req[r].key[1])
      PROVE  /\ OrderInv' /\ (CacheBounded => CacheBounded')
             /\ \A c \in Channels : RowsDropped(c) # {} => OldestDropped(c)
  <2>1. req[r].key \in Keys
    BY <1>1, <1>4 DEF PruneSnapshots, TypeInv, Addressed
  <2>2. PICK c0 \in Channels : c0 = req[r].key[1]
    BY <2>1 DEF Keys
  <2>3. Pruned(c0)
    BY <1>4, <2>2
  <2>4. /\ OrderInv' /\ (CacheBounded => CacheBounded')
        /\ Cardinality(CachedIn(c0)') <= MaxSnapshots
        /\ \A k \in CachedIn(c0) \ CachedIn(c0)', j \in CachedIn(c0)' : <<j, k>> \in newer
        /\ \A c \in Channels : c # c0 => CachedIn(c)' = CachedIn(c)
    BY <1>1, <1>4, <2>2, <2>3, PruneKeepsBound
  <2> QED BY <2>4 DEF RowsDropped, OldestDropped
<1>5. ASSUME NEW r \in Reqs, PruneSnapshots(r), ~Pruned(req[r].key[1])
      PROVE  OrderInv' /\ NoneDropped /\ ~EveryPruneHappens
  <2>1. "prune" \in Faults /\ UNCHANGED <<publicCache, newer>>
    BY <1>5 DEF PruneSnapshots, Pruned
  <2>2. \A i \in Reqs : req'[i].pc = "prune" => req'[i] = req[i]
    BY <1>1, <1>5 DEF PruneSnapshots, TypeInv, TypeOK, Request
  <2>3. \A c \in Channels : Saving(c)' \in SUBSET Saving(c)
    BY <2>2 DEF Saving
  <2> QED BY <1>1, <2>1, <2>3, FewerSaving DEF EveryPruneHappens, NoneDropped, RowsDropped
<1>6. ASSUME NEW s \in SigningKeys \cup {None}, Restart(s)
      PROVE  OrderInv' /\ NoneDropped /\ ~EveryPruneHappens
  <2>1. "restart" \in Faults /\ UNCHANGED <<publicCache, newer>>
    BY <1>6 DEF Restart, cacheVars
  <2>2. \A c \in Channels : Saving(c)' \in SUBSET Saving(c)
    BY <1>6 DEF Restart, Saving, IdleReq
  <2> QED BY <1>1, <2>1, <2>2, FewerSaving DEF EveryPruneHappens, NoneDropped, RowsDropped
<1>7. ASSUME NEW r \in Reqs, ReqStep(r), ~SaveSnapshot(r), ~PruneSnapshots(r)
      PROVE  UNCHANGED <<publicCache, newer>> /\ \A c \in Channels : Saving(c)' = Saving(c)
  <2>0. req \in [Reqs -> Request] /\ req[r] \in Request
    BY <1>1 DEF TypeInv, TypeOK
  <2>1. ASSUME \A i \in Reqs : i # r => req'[i] = req[i], req[r].pc # "prune",
               req'[r].pc # "prune", UNCHANGED <<publicCache, newer>>
        PROVE  UNCHANGED <<publicCache, newer>> /\ \A c \in Channels : Saving(c)' = Saving(c)
    BY <2>1, SavingStable
  <2>2. ASSUME NEW p \in Platforms \cup {None}, NEW k \in Keys, Arrive(r, p, k)
        PROVE  UNCHANGED <<publicCache, newer>> /\ \A c \in Channels : Saving(c)' = Saving(c)
    BY <2>0, <2>1, <2>2 DEF Arrive, cacheVars, Request
  <2>3. CASE ReadGrants(r)
    BY <2>0, <2>1, <2>3 DEF ReadGrants, cacheVars, Request
  <2>4. CASE ReadRevision(r)
    BY <2>0, <2>1, <2>4 DEF ReadRevision, cacheVars, Request
  <2>5. CASE LoadSnapshot(r)
    BY <2>0, <2>1, <2>5 DEF LoadSnapshot, cacheVars, Request
  <2>6. CASE BuildRows(r)
    BY <2>0, <2>1, <2>6 DEF BuildRows, cacheVars, Request
  <2>7. ASSUME NEW a \in Apps, ReadTexts(r, a)
        PROVE  UNCHANGED <<publicCache, newer>> /\ \A c \in Channels : Saving(c)' = Saving(c)
    BY <2>0, <2>1, <2>7 DEF ReadTexts, cacheVars, Request
  <2>8. CASE Answer(r) \/ Abort(r)
    BY <2>0, <2>1, <2>8 DEF Answer, Abort, cacheVars, IdleReq
  <2> QED BY <1>7, <2>2, <2>3, <2>4, <2>5, <2>6, <2>7, <2>8 DEF ReqStep
<1>8. CASE RebuildSnapshots
  <2>1. ASSUME NEW c \in Channels PROVE CachedIn(c)' = {} /\ Saving(c)' = Saving(c)
    BY <1>8 DEF RebuildSnapshots, DiscardSnapshots, CachedIn, Saving
  <2>2. ChannelsOrdered'
    BY <2>1 DEF ChannelsOrdered, Ordered
  <2>3. ChannelsFinite'
    BY <2>1, FS_EmptySet DEF OrderInv, ChannelsFinite
  <2>4. ASSUME NEW c \in Channels
        PROVE  /\ Cardinality(CachedIn(c)') <= MaxSnapshots
               /\ Cardinality(CachedIn(c)') <= MaxSnapshots + Cardinality(Saving(c)')
    <3>1. Cardinality(Saving(c)') \in Nat
      BY <2>3, FS_CardinalityType DEF ChannelsFinite
    <3>2. Cardinality(CachedIn(c)') = 0
      BY <2>1, FS_EmptySet
    <3> QED BY <3>1, <3>2, ServiceAssumption
  <2>5. \A c \in Channels : OldestDropped(c)
    BY <2>1, <2>4 DEF OldestDropped
  <2> QED BY <1>1, <2>2, <2>3, <2>4, <2>5 DEF OrderInv, CacheBounded, Saving
<1>9. ASSUME \/ \E o \in Ops : OpStep(o)
             \/ \E p \in Platforms : CreatePlatform(p)
             \/ Publish
             \/ UNCHANGED vars
      PROVE  UNCHANGED <<publicCache, newer>> /\ \A c \in Channels : Saving(c)' = Saving(c)
  <2>1. UNCHANGED <<publicCache, newer, req>>
    BY <1>9 DEF OpStep, GrantCheck, Grant, Revoke, SetPlatformEnabled,
       DiscardPrivateSnapshots, CreatePlatform, Publish, vars, cacheVars
  <2> QED BY <2>1 DEF Saving
<1>10. NoneDropped => \A c \in Channels : RowsDropped(c) # {} => OldestDropped(c)
  BY DEF NoneDropped
<1> QED BY <1>2, <1>3, <1>4, <1>5, <1>6, <1>7, <1>8, <1>9, <1>10 DEF Next, ReqStep

\* Empty caches are in order.
LEMMA OrderInit == Init => OrderInv /\ CacheBounded
<1> SUFFICES ASSUME Init PROVE OrderInv /\ CacheBounded
  OBVIOUS
<1>1. ASSUME NEW c \in Channels PROVE CachedIn(c) = {} /\ Saving(c) = {}
  BY DEF Init, CachedIn, Saving, IdleReq
<1>2. ChannelsOrdered /\ ChannelsFinite
  BY <1>1, FS_EmptySet DEF ChannelsOrdered, Ordered, ChannelsFinite
<1>3. CacheBounded
  <2>1. \A c \in Channels : Cardinality(CachedIn(c)) = 0 /\ Cardinality(Saving(c)) = 0
    BY <1>1, FS_EmptySet
  <2>2. 0 <= MaxSnapshots + 0
    BY ServiceAssumption
  <2> QED BY <2>1, <2>2 DEF CacheBounded, Saving
<1> QED BY <1>2, <1>3, TypeInit DEF OrderInv

\* "Beyond this many, the least recently built are dropped": when no prune
\* fails and the process does not die between a save and its prune, a channel
\* holds at most the bound plus one row for every handler that has saved and
\* not yet pruned, however saves, prunes, rebuilds and publications interleave.
THEOREM CacheStaysBounded == ASSUME EveryPruneHappens PROVE Spec => []CacheBounded
<1>1. (OrderInv /\ CacheBounded) /\ [Next]_vars => (OrderInv /\ CacheBounded)'
  BY BoundNext
<1> QED BY <1>1, OrderInit, PTL DEF Spec

\* Whatever fails, the step that drops rows of a channel, which may come long
\* after the save that made them surplus, restores the bound, and drops none
\* that is newer than a row it leaves.
THEOREM OldestRowsDropped == Spec => LeastRecentDropped
<1>1. OrderInv /\ [Next]_vars => OrderInv'
  BY BoundNext
<1>2. OrderInv /\ [Next]_vars =>
        [\A c \in Channels :
            LET dropped == CachedIn(c) \ CachedIn(c)'
            IN  dropped # {} =>
                   /\ Cardinality(CachedIn(c)') <= MaxSnapshots
                   /\ \A k \in dropped, j \in CachedIn(c)' : <<j, k>> \in newer]_vars
  BY BoundNext DEF RowsDropped, OldestDropped
<1> QED BY <1>1, <1>2, OrderInit, PTL DEF Spec, LeastRecentDropped
==============================================================================
