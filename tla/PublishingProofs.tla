-------------------------- MODULE PublishingProofs --------------------------
(***************************************************************************)
(* Proofs about Publishing, for every set of organisations, apps, versions *)
(* and handlers: its types, and that it implements CatalogSource.          *)
(***************************************************************************)
EXTENDS Publishing, TLAPS

Writer == [pc : {"idle", "upsert", "submit", "decide"},
           tenant : Tenants \cup {None}, app : Apps \cup {None},
           version : Versions \cup {0}, type : Types, at : 0..MaxClock]

\* A handler in flight knows what it writes, on whose behalf, and a version is
\* only submitted for an app that is registered.
WriterAddressed(q) ==
    /\ q.pc # "idle" => q.app \in Apps
    /\ q.pc \in {"upsert", "submit"} => q.tenant \in Tenants
    /\ q.pc \in {"submit", "decide"} => q.version \in Versions
    /\ q.pc = "submit" => apps[q.app] \in Entry

\* store_app_versions refers to store_apps.
ForeignKeys ==
    \A a \in Apps, v \in Versions : versions[a][v] # NoVersion => apps[a] \in Entry

TypeInv == TypeOK /\ ForeignKeys /\ \A w \in Writers : WriterAddressed(writer[w])

\* A handler that is not in flight has a type.
LEMMA IdleWriterType == IdleWriter \in Writer /\ WriterAddressed(IdleWriter)
BY PublishingAssumption DEF IdleWriter, Writer, Types, WriterAddressed

\* Empty tables have their types.
LEMMA TypeInit == Init => TypeInv
<1> SUFFICES ASSUME Init PROVE TypeInv
  OBVIOUS
<1>1. \A w \in Writers : writer[w] \in Writer /\ WriterAddressed(writer[w])
  BY IdleWriterType DEF Init
<1>2. writer \in [Writers -> Writer]
  BY <1>1 DEF Init
<1>3. 0 \in 0..MaxRevision /\ 0 \in 0..MaxClock
  BY PublishingAssumption
<1>4. << >> \in Seq(Event)
  OBVIOUS
<1>5. TypeOK
  BY <1>2, <1>3, <1>4 DEF Init, TypeOK, Writer
<1>6. ForeignKeys
  BY DEF Init, ForeignKeys
<1> QED BY <1>1, <1>5, <1>6 DEF TypeInv

\* Nobody unregisters an app, and a row keeps its shape: what handlers in
\* flight were told stays true.
LEMMA WritersStable ==
    ASSUME TypeInv, \A a \in Apps : apps[a] \in Entry => apps'[a] \in Entry,
           NEW w \in Writers, NEW q \in Writer, WriterAddressed(q)',
           writer' = [writer EXCEPT ![w] = q]
    PROVE  writer' \in [Writers -> Writer] /\ \A i \in Writers : WriterAddressed(writer[i])'
<1>1. writer \in [Writers -> Writer] /\ \A i \in Writers : WriterAddressed(writer[i])
  BY DEF TypeInv, TypeOK, Writer
<1>2. \A i \in Writers : i # w => writer'[i] = writer[i]
  BY <1>1
<1>3. writer'[w] = q
  BY <1>1
<1>4. ASSUME NEW i \in Writers PROVE WriterAddressed(writer[i])'
  <2>1. CASE i = w
    BY <1>3, <2>1 DEF WriterAddressed
  <2>2. CASE i # w
    BY <1>1, <1>2, <2>2 DEF WriterAddressed
  <2> QED BY <2>1, <2>2
<1> QED BY <1>1, <1>4

\* What the type invariant says of one row.
LEMMA RowTypes ==
    ASSUME TypeInv, NEW a \in Apps
    PROVE  /\ apps[a] = NoEntry \/ apps[a] \in Entry
           /\ apps[a].owner \in Tenants \cup {None}
           /\ apps[a].type \in Types
           /\ apps[a].provenance \in Versions \cup {0}
           /\ apps[a].owner = None <=> apps[a] = NoEntry
           /\ trans[a] \in Texts \cup {None}
<1>1. apps[a] = NoEntry \/ apps[a] \in Entry
  BY DEF TypeInv, TypeOK
<1>2. trans[a] \in Texts \cup {None}
  BY DEF TypeInv, TypeOK
<1>3. CASE apps[a] = NoEntry
  BY <1>1, <1>2, <1>3 DEF NoEntry, Types
<1>4. CASE apps[a] \in Entry
  BY <1>1, <1>2, <1>4, PublishingAssumption DEF Entry, NoEntry
<1> QED BY <1>1, <1>3, <1>4

\* The handlers that only read leave the tables as they are.
LEMMA ReadersKeepTypes ==
    ASSUME TypeInv, UNCHANGED <<tables, editor>>, clock' \in 0..MaxClock,
           NEW w \in Writers, NEW q \in Writer, WriterAddressed(q),
           writer' = [writer EXCEPT ![w] = q]
    PROVE  TypeInv'
<1>1. WriterAddressed(q)'
  BY DEF WriterAddressed, tables
<1>2. writer' \in [Writers -> Writer] /\ \A i \in Writers : WriterAddressed(writer[i])'
  BY <1>1, WritersStable DEF tables
<1>3. TypeOK'
  BY <1>2 DEF TypeInv, TypeOK, tables, Writer
<1>4. ForeignKeys'
  BY DEF TypeInv, ForeignKeys, tables
<1> QED BY <1>2, <1>3, <1>4 DEF TypeInv
\* The commit of UpsertApp keeps the types, and everybody else's row.
LEMMA UpsertKeepsTypes ==
    ASSUME TypeInv, NEW w \in Writers, NEW visibility \in {"public", "private"},
           NEW text \in Texts, NEW type \in Types, NEW t \in Texts \cup {None},
           UpsertApp(w, visibility, text, type, t)
    PROVE  TypeInv' /\ \A a \in Apps : apps[a] \in Entry => apps'[a] \in Entry
<1> DEFINE q == writer[w]
           row == [owner |-> OwnerAfter(q.app, q.tenant), visibility |-> visibility,
                   text |-> text, type |-> type, provenance |-> apps[q.app].provenance]
<1>1. q \in Writer /\ q.app \in Apps /\ q.tenant \in Tenants
  BY DEF TypeInv, TypeOK, WriterAddressed, UpsertApp, Writer
<1>2. OwnerAfter(q.app, q.tenant) \in Tenants
  BY <1>1, RowTypes DEF OwnerAfter, Entry
<1>3. row \in Entry
  BY <1>1, <1>2, RowTypes DEF Entry
<1>4. apps' = [apps EXCEPT ![q.app] = row]
  BY DEF UpsertApp
<1>5. apps' \in [Apps -> Entry \cup {NoEntry}] /\ \A a \in Apps : apps[a] \in Entry => apps'[a] \in Entry
  <2> HIDE DEF row, q
  <2> QED BY <1>1, <1>3, <1>4 DEF TypeInv, TypeOK
<1>6. trans' \in [Apps -> Texts \cup {None}]
  BY <1>1, RowTypes DEF UpsertApp, TypeInv, TypeOK
<1>7. editor' \in [Apps -> Tenants \cup {None}]
  BY <1>1 DEF UpsertApp, TypeInv, TypeOK
<1>8. revision' \in 0..MaxRevision
  BY PublishingAssumption DEF UpsertApp, bumpRevision, TypeInv, TypeOK
<1>9. writer' \in [Writers -> Writer] /\ \A i \in Writers : WriterAddressed(writer[i])'
  <2>1. WriterAddressed(IdleWriter)'
    BY DEF WriterAddressed, IdleWriter
  <2> QED BY <1>5, <2>1, IdleWriterType, WritersStable DEF UpsertApp
<1>10. TypeOK'
  BY <1>5, <1>6, <1>7, <1>8, <1>9 DEF UpsertApp, TypeInv, TypeOK, Writer
<1>11. ForeignKeys'
  BY <1>5 DEF UpsertApp, TypeInv, ForeignKeys
<1> QED BY <1>5, <1>9, <1>10, <1>11 DEF TypeInv

\* The commit of SubmitVersion keeps the types.
LEMMA SubmitKeepsTypes ==
    ASSUME TypeInv, NEW w \in Writers, SubmitVersion(w)
    PROVE  TypeInv'
<1> DEFINE q == writer[w]
           row == [status |-> StatusAtSubmission, type |-> q.type, submitter |-> q.tenant]
           event == [action |-> "submitted", at |-> q.at]
<1>1. /\ q \in Writer /\ q.app \in Apps /\ q.tenant \in Tenants /\ q.version \in Versions
      /\ apps[q.app] \in Entry
  BY DEF TypeInv, TypeOK, WriterAddressed, SubmitVersion, Writer
<1>2. row \in Version /\ event \in Event
  BY <1>1 DEF Version, Event, StatusAtSubmission, Statuses, Writer
<1>3. versions' = [versions EXCEPT ![q.app][q.version] = row]
  BY DEF SubmitVersion
<1>4. versions' \in [Apps -> [Versions -> Version \cup {NoVersion}]]
  <2> HIDE DEF row, q
  <2> QED BY <1>1, <1>2, <1>3 DEF TypeInv, TypeOK
<1>5. external' \in [Apps -> Versions \cup {0}]
  BY <1>1 DEF SubmitVersion, TypeInv, TypeOK
<1>6. trail[q.app][q.version] \in Seq(Event)
  BY <1>1 DEF TypeInv, TypeOK
<1>7. Append(trail[q.app][q.version], event) \in Seq(Event)
  <2> HIDE DEF event, q
  <2> QED BY <1>2, <1>6
<1>8. trail' \in [Apps -> [Versions -> Seq(Event)]]
  <2>1. trail' = [trail EXCEPT ![q.app][q.version] = Append(trail[q.app][q.version], event)]
    BY <1>1 DEF SubmitVersion, TypeInv, TypeOK
  <2> HIDE DEF event, q
  <2> QED BY <1>1, <1>7, <2>1 DEF TypeInv, TypeOK
<1>9. writer' \in [Writers -> Writer] /\ \A i \in Writers : WriterAddressed(writer[i])'
  <2>1. WriterAddressed(IdleWriter)'
    BY DEF WriterAddressed, IdleWriter
  <2> QED BY <2>1, IdleWriterType, WritersStable DEF SubmitVersion
<1>10. TypeOK'
  BY <1>4, <1>5, <1>8, <1>9 DEF SubmitVersion, TypeInv, TypeOK, Writer
<1>11. ForeignKeys'
  <2>1. \A a \in Apps, v \in Versions :
           versions'[a][v] # NoVersion => versions[a][v] # NoVersion \/ a = q.app
    <3> HIDE DEF row, q
    <3> QED BY <1>1, <1>3 DEF TypeInv, TypeOK
  <2>2. apps' = apps
    BY DEF SubmitVersion
  <2> HIDE DEF row, q
  <2> QED BY <1>1, <2>1, <2>2 DEF TypeInv, ForeignKeys
<1> QED BY <1>9, <1>10, <1>11 DEF TypeInv

\* The commit of DecideVersion keeps the types.
LEMMA DecideKeepsTypes ==
    ASSUME TypeInv, NEW w \in Writers, NEW action \in Actions, DecideVersion(w, action)
    PROVE  TypeInv'
<1> DEFINE q == writer[w]
           row == [versions[q.app][q.version] EXCEPT !.status = StatusOf(action)]
           entry == [apps[q.app] EXCEPT !.provenance = ProvenanceAfter(q.app, q.version, action)]
           event == [action |-> action, at |-> q.at]
<1>1. q \in Writer /\ q.app \in Apps /\ q.version \in Versions
  BY DEF TypeInv, TypeOK, WriterAddressed, DecideVersion, Writer
<1>2. versions[q.app][q.version] \in Version
  <2>1. versions[q.app][q.version] # NoVersion
    BY DEF DecideVersion
  <2>2. versions[q.app][q.version] \in Version \cup {NoVersion}
    BY <1>1 DEF TypeInv, TypeOK
  <2> QED BY <2>1, <2>2
<1>3. apps[q.app] \in Entry
  BY <1>1 DEF DecideVersion, TypeInv, ForeignKeys
<1>4. row \in Version
  <2>1. StatusOf(action) \in Statuses
    BY DEF StatusOf, Actions, Statuses
  <2> QED BY <1>2, <2>1 DEF Version
<1>5. entry \in Entry
  BY <1>1, <1>3 DEF Entry, ProvenanceAfter
<1>6. event \in Event
  BY <1>1 DEF Event, Writer
<1>7. /\ versions' = [versions EXCEPT ![q.app][q.version] = row]
      /\ apps' = [apps EXCEPT ![q.app] = entry]
      /\ trail' = [trail EXCEPT ![q.app][q.version] = Append(trail[q.app][q.version], event)]
  BY <1>1 DEF DecideVersion, TypeInv, TypeOK
<1>8. Append(trail[q.app][q.version], event) \in Seq(Event)
  <2>1. trail[q.app][q.version] \in Seq(Event)
    BY <1>1 DEF TypeInv, TypeOK
  <2> HIDE DEF event, q
  <2> QED BY <1>6, <2>1
<1>9. /\ versions' \in [Apps -> [Versions -> Version \cup {NoVersion}]]
      /\ apps' \in [Apps -> Entry \cup {NoEntry}]
      /\ trail' \in [Apps -> [Versions -> Seq(Event)]]
      /\ \A a \in Apps : apps[a] \in Entry => apps'[a] \in Entry
      /\ apps'[q.app] \in Entry
  <2> HIDE DEF event, q, row, entry
  <2> QED BY <1>1, <1>4, <1>5, <1>7, <1>8 DEF TypeInv, TypeOK
<1>10. revision' \in 0..MaxRevision
  BY PublishingAssumption DEF DecideVersion, bumpRevision, TypeInv, TypeOK
<1>11. writer' \in [Writers -> Writer] /\ \A i \in Writers : WriterAddressed(writer[i])'
  <2>1. WriterAddressed(IdleWriter)'
    BY DEF WriterAddressed, IdleWriter
  <2> QED BY <1>9, <2>1, IdleWriterType, WritersStable DEF DecideVersion
<1>12. TypeOK'
  BY <1>9, <1>10, <1>11 DEF DecideVersion, TypeInv, TypeOK, Writer
<1>13. ForeignKeys'
  <2>1. \A a \in Apps, v \in Versions :
           versions'[a][v] # NoVersion => versions[a][v] # NoVersion \/ a = q.app
    <3> HIDE DEF row, q
    <3> QED BY <1>1, <1>7 DEF TypeInv, TypeOK
  <2> HIDE DEF row, q
  <2> QED BY <1>9, <2>1 DEF TypeInv, ForeignKeys
<1> QED BY <1>11, <1>12, <1>13 DEF TypeInv
\* Every step keeps the types.
LEMMA TypeNext == TypeInv /\ [Next]_vars => TypeInv'
<1> SUFFICES ASSUME TypeInv, [Next]_vars PROVE TypeInv'
  OBVIOUS
<1>1. ASSUME NEW t \in Tenants, SaveProfile(t) PROVE TypeInv'
  BY <1>1 DEF SaveProfile, TypeInv, TypeOK, ForeignKeys, WriterAddressed
<1>2. ASSUME NEW t \in Tenants, NEW verified \in {"verified", "unverified"},
             SetPublisherVerified(t, verified)
      PROVE  TypeInv'
  BY <1>2 DEF SetPublisherVerified, TypeInv, TypeOK, ForeignKeys, WriterAddressed
<1>3. ASSUME NEW w \in Writers, NEW t \in Tenants, NEW a \in Apps, CheckOwner(w, t, a)
      PROVE  TypeInv'
  <2> DEFINE q == [pc |-> "upsert", tenant |-> t, app |-> a, version |-> 0,
                   type |-> "module", at |-> 0]
  <2>1. q \in Writer /\ WriterAddressed(q)
    BY PublishingAssumption DEF Writer, WriterAddressed, Types
  <2>2. writer' = [writer EXCEPT ![w] = q] /\ UNCHANGED <<tables, editor>> /\ clock' = clock
    BY <1>3 DEF CheckOwner
  <2>3. clock' \in 0..MaxClock
    BY <2>2 DEF TypeInv, TypeOK
  <2> HIDE DEF q
  <2> QED BY <2>1, <2>2, <2>3, ReadersKeepTypes
<1>4. ASSUME NEW w \in Writers, NEW visibility \in {"public", "private"},
             NEW text \in Texts, NEW type \in Types, NEW t \in Texts \cup {None},
             UpsertApp(w, visibility, text, type, t)
      PROVE  TypeInv'
  BY <1>4, UpsertKeepsTypes
<1>5. ASSUME NEW w \in Writers, NEW t \in Tenants, NEW a \in Apps, NEW v \in Versions,
             OwnApp(w, t, a, v)
      PROVE  TypeInv'
  <2> DEFINE q == [pc |-> "submit", tenant |-> t, app |-> a, version |-> v,
                   type |-> apps[a].type, at |-> clock + 1]
  <2>1. clock + 1 \in 0..MaxClock /\ clock' = clock + 1
    BY <1>5, PublishingAssumption DEF OwnApp, TypeInv, TypeOK
  <2>2. apps[a] \in Entry
    BY <1>5, RowTypes, PublishingAssumption DEF OwnApp
  <2>3. q \in Writer /\ WriterAddressed(q)
    BY <2>1, <2>2, RowTypes DEF Writer, WriterAddressed
  <2>4. writer' = [writer EXCEPT ![w] = q] /\ UNCHANGED <<tables, editor>>
    BY <1>5 DEF OwnApp
  <2> HIDE DEF q
  <2> QED BY <2>1, <2>3, <2>4, ReadersKeepTypes
<1>6. ASSUME NEW w \in Writers, SubmitVersion(w) PROVE TypeInv'
  BY <1>6, SubmitKeepsTypes
<1>7. ASSUME NEW w \in Writers, NEW a \in Apps, NEW v \in Versions, BeginDecision(w, a, v)
      PROVE  TypeInv'
  <2> DEFINE q == [pc |-> "decide", tenant |-> None, app |-> a, version |-> v,
                   type |-> "module", at |-> clock + 1]
  <2>1. clock + 1 \in 0..MaxClock /\ clock' = clock + 1
    BY <1>7, PublishingAssumption DEF BeginDecision, TypeInv, TypeOK
  <2>2. q \in Writer /\ WriterAddressed(q)
    BY <2>1 DEF Writer, WriterAddressed, Types
  <2>3. writer' = [writer EXCEPT ![w] = q] /\ UNCHANGED <<tables, editor>>
    BY <1>7 DEF BeginDecision
  <2> HIDE DEF q
  <2> QED BY <2>1, <2>2, <2>3, ReadersKeepTypes
<1>8. ASSUME NEW w \in Writers, NEW action \in Actions, DecideVersion(w, action)
      PROVE  TypeInv'
  BY <1>8, DecideKeepsTypes
<1>9. ASSUME NEW w \in Writers, Rollback(w) PROVE TypeInv'
  <2>1. clock' \in 0..MaxClock
    BY <1>9 DEF Rollback, TypeInv, TypeOK
  <2> QED BY <1>9, <2>1, IdleWriterType, ReadersKeepTypes DEF Rollback
<1>10. CASE UNCHANGED vars
  BY <1>10 DEF vars, tables, TypeInv, TypeOK, ForeignKeys, WriterAddressed
<1> QED BY <1>1, <1>2, <1>3, <1>4, <1>5, <1>6, <1>7, <1>8, <1>9, <1>10 DEF Next

\* The tables of the write side have their types in every reachable state, for
\* any number of organisations, apps, versions and handlers in flight.
THEOREM TypeCorrect == Spec => []TypeOK
<1>1. Spec => []TypeInv
  BY TypeInit, TypeNext, PTL DEF Spec
<1>2. TypeInv => TypeOK
  BY DEF TypeInv
<1> QED BY <1>1, <1>2, PTL

------------------------------------------------------------------------------
(* Publishing implements CatalogSource.                                    *)

\* The app rows and the published numbers that a catalogue query sees.
Shown == [a \in Apps |-> [visibility |-> apps[a].visibility, text |-> apps[a].text]]
Out == [a \in Apps |-> {v \in Versions : versions[a][v].status = "published"}]

\* An app is registered for the catalogue when it is for the registry.
LEMMA ShownRegistered ==
    ASSUME TypeInv, NEW a \in Apps
    PROVE  Shown[a] = Source!NoApp <=> apps[a] = NoEntry
<1>1. apps[a] = NoEntry \/ apps[a] \in Entry
  BY RowTypes
<1>2. CASE apps[a] = NoEntry
  BY <1>2 DEF Shown, NoEntry, Source!NoApp
<1>3. CASE apps[a] \in Entry
  BY <1>3, PublishingAssumption DEF Shown, NoEntry, Source!NoApp, Entry
<1> QED BY <1>1, <1>2, <1>3
\* Empty tables are tables the catalogue may start from.
LEMMA SourceStarts == Init => Source!SourceInit
<1> SUFFICES ASSUME Init PROVE Source!SourceInit
  OBVIOUS
<1>1. Shown = [a \in Apps |-> Source!NoApp]
  BY DEF Init, Shown, NoEntry, Source!NoApp
<1>2. Out = [a \in Apps |-> {}]
  BY DEF Init, Out, NoVersion
<1>3. /\ Shown \in [Apps -> Source!AppRow \cup {Source!NoApp}]
      /\ Out \in [Apps -> SUBSET Versions]
      /\ \A a \in Apps : trans[a] = None /\ Out[a] = {}
      /\ revision = 0 /\ trans \in [Apps -> Texts \cup {None}]
  BY <1>1, <1>2 DEF Init
<1> QED BY <1>3 DEF Source!SourceInit, Shown, Out

\* The commit of UpsertApp is the catalogue's UpsertApp.
LEMMA UpsertIsSourceUpsert ==
    ASSUME TypeInv, NEW w \in Writers, NEW visibility \in {"public", "private"},
           NEW text \in Texts, NEW type \in Types, NEW t \in Texts \cup {None},
           UpsertApp(w, visibility, text, type, t)
    PROVE  Source!SourceNext
<1> DEFINE b == writer[w].app
<1>1. b \in Apps
  BY DEF TypeInv, TypeOK, WriterAddressed, UpsertApp
<1>2. Shown' = [Shown EXCEPT ![b] = [visibility |-> visibility, text |-> text]]
  <2>1. /\ apps'[b].visibility = visibility /\ apps'[b].text = text
        /\ \A a \in Apps : a # b => apps'[a] = apps[a]
    BY <1>1 DEF UpsertApp, TypeInv, TypeOK
  <2> HIDE DEF b
  <2> QED BY <1>1, <2>1 DEF Shown
<1>3. Out' = Out
  BY DEF UpsertApp, Out
<1>4. Source!UpsertApp(b, visibility, text, t)
  BY <1>2, <1>3 DEF Source!UpsertApp, Source!bumpRevision, UpsertApp, bumpRevision,
     Shown, Out
<1> QED BY <1>1, <1>4 DEF Source!SourceNext, Source!Visibilities

\* The commit of DecideVersion is the catalogue's DecideVersion.
LEMMA DecideIsSourceDecide ==
    ASSUME TypeInv, NEW w \in Writers, NEW action \in Actions, DecideVersion(w, action)
    PROVE  Source!SourceNext
<1> DEFINE b == writer[w].app
           n == writer[w].version
<1>1. b \in Apps /\ n \in Versions
  BY DEF TypeInv, TypeOK, WriterAddressed, DecideVersion
<1>2. versions[b][n] \in Version /\ versions[b][n] # NoVersion /\ apps[b] \in Entry
  BY <1>1 DEF DecideVersion, TypeInv, TypeOK, ForeignKeys
<1>3. Shown[b] # Source!NoApp
  BY <1>1, <1>2, ShownRegistered, PublishingAssumption DEF Entry, NoEntry
<1>4. Shown' = Shown
  <2>1. apps' = [apps EXCEPT ![b].provenance = ProvenanceAfter(b, n, action)]
    BY DEF DecideVersion
  <2>2. \A a \in Apps : a # b => apps'[a] = apps[a]
    BY <2>1 DEF TypeInv, TypeOK
  <2>3. apps'[b].visibility = apps[b].visibility /\ apps'[b].text = apps[b].text
    BY <1>1, <1>2, <2>1 DEF Entry, TypeInv, TypeOK
  <2> HIDE DEF b
  <2> QED BY <2>2, <2>3 DEF Shown
<1>5. Out' = [Out EXCEPT ![b] = IF action = "publish" THEN @ \cup {n} ELSE @ \ {n}]
  <2>1. versions' = [versions EXCEPT ![b][n].status = StatusOf(action)]
    BY DEF DecideVersion
  <2>2. versions'[b][n].status = StatusOf(action)
    BY <1>1, <1>2, <2>1 DEF TypeInv, TypeOK, Version
  <2>3. \A a \in Apps, v \in Versions : a # b \/ v # n => versions'[a][v] = versions[a][v]
    BY <1>1, <2>1 DEF TypeInv, TypeOK
  <2>4. StatusOf(action) = "published" <=> action = "publish"
    BY DEF StatusOf, Actions
  <2> HIDE DEF b, n
  <2>5. \A a \in Apps : a # b => Out'[a] = Out[a]
    BY <1>1, <2>3 DEF Out
  <2>6. Out'[b] = IF action = "publish" THEN Out[b] \cup {n} ELSE Out[b] \ {n}
    BY <1>1, <2>2, <2>3, <2>4 DEF Out
  <2>7. Out' = [a \in Apps |-> Out'[a]] /\ Out = [a \in Apps |-> Out[a]]
    BY DEF Out
  <2> QED BY <1>1, <2>5, <2>6, <2>7
<1>6. PICK a \in Apps, v \in Versions : a = b /\ v = n
  BY <1>1
<1>7. Source!DecideVersion(a, v, action)
  BY <1>3, <1>4, <1>5, <1>6 DEF Source!DecideVersion, Source!bumpRevision, DecideVersion,
     bumpRevision, Shown, Out
<1>8. action \in Source!Actions
  BY DEF Actions, Source!Actions
<1> QED BY <1>7, <1>8 DEF Source!SourceNext

\* A submission shows nothing new: the number was free, and its status is not
\* the one the catalogue query selects.
LEMMA SubmissionIsInvisible ==
    ASSUME TypeInv, NEW w \in Writers, SubmitVersion(w)
    PROVE  UNCHANGED <<revision, Shown, trans, Out>>
<1> DEFINE b == writer[w].app
           n == writer[w].version
<1>1. b \in Apps /\ n \in Versions
  BY DEF TypeInv, TypeOK, WriterAddressed, SubmitVersion
<1>2. versions[b][n].status # "published"
  BY DEF SubmitVersion, NumberIsFree, NoVersion
<1>3. versions'[b][n].status # "published"
  BY <1>1 DEF SubmitVersion, StatusAtSubmission, TypeInv, TypeOK
<1>4. \A a \in Apps, v \in Versions : a # b \/ v # n => versions'[a][v] = versions[a][v]
  BY <1>1 DEF SubmitVersion, TypeInv, TypeOK
<1>5. Out' = Out
  <2> HIDE DEF b, n
  <2> QED BY <1>1, <1>2, <1>3, <1>4 DEF Out
<1> QED BY <1>5 DEF SubmitVersion, Shown

\* Every step of the write side is a step of CatalogSource or changes nothing
\* that a catalogue would say.
LEMMA SourceSteps == TypeInv /\ [Next]_vars => [Source!SourceNext]_(Source!sourceVars)
<1> SUFFICES ASSUME TypeInv, [Next]_vars
             PROVE  Source!SourceNext \/ UNCHANGED <<revision, Shown, trans, Out>>
  BY DEF Source!sourceVars, Shown, Out
<1>1. ASSUME NEW w \in Writers, NEW visibility \in {"public", "private"},
             NEW text \in Texts, NEW type \in Types, NEW t \in Texts \cup {None},
             UpsertApp(w, visibility, text, type, t)
      PROVE  Source!SourceNext
  BY <1>1, UpsertIsSourceUpsert
<1>2. ASSUME NEW w \in Writers, NEW action \in Actions, DecideVersion(w, action)
      PROVE  Source!SourceNext
  BY <1>2, DecideIsSourceDecide
<1>3. ASSUME NEW w \in Writers, SubmitVersion(w)
      PROVE  UNCHANGED <<revision, Shown, trans, Out>>
  BY <1>3, SubmissionIsInvisible
<1>4. ASSUME UNCHANGED <<revision, apps, trans, versions>>
      PROVE  UNCHANGED <<revision, Shown, trans, Out>>
  BY <1>4 DEF Shown, Out
<1>5. ASSUME \/ \E t \in Tenants : SaveProfile(t)
             \/ \E t \in Tenants, verified \in {"verified", "unverified"} :
                   SetPublisherVerified(t, verified)
             \/ \E w \in Writers : \E t \in Tenants, a \in Apps : CheckOwner(w, t, a)
             \/ \E w \in Writers : \E t \in Tenants, a \in Apps, v \in Versions : OwnApp(w, t, a, v)
             \/ \E w \in Writers : \E a \in Apps, v \in Versions : BeginDecision(w, a, v)
             \/ \E w \in Writers : Rollback(w)
             \/ UNCHANGED vars
      PROVE  UNCHANGED <<revision, apps, trans, versions>>
  BY <1>5 DEF SaveProfile, SetPublisherVerified, CheckOwner, OwnApp, BeginDecision,
     Rollback, vars, tables
<1> QED BY <1>1, <1>2, <1>3, <1>4, <1>5 DEF Next

\* The detailed write side implements what the catalogue service relies on:
\* whatever handlers interleave, every commit that changes what a catalogue
\* would say moves the revision by one in the same commit.
THEOREM PublishingImplementsSource == Spec => ImplementsSource
<1>1. Spec => []TypeInv
  BY TypeInit, TypeNext, PTL DEF Spec
<1> QED BY <1>1, SourceStarts, SourceSteps, PTL DEF Spec, ImplementsSource, Source!SourceSpec
------------------------------------------------------------------------------
(* Ownership.                                                              *)

\* Whoever registered an app keeps it through any step.
LEMMA OwnerStays ==
    ASSUME TypeInv, [Next]_vars, NEW a \in Apps, apps[a] # NoEntry
    PROVE  apps'[a].owner = apps[a].owner
<1>1. apps[a] \in Entry
  BY RowTypes
<1>2. ASSUME NEW w \in Writers, NEW visibility \in {"public", "private"},
             NEW text \in Texts, NEW type \in Types, NEW t \in Texts \cup {None},
             UpsertApp(w, visibility, text, type, t)
      PROVE  apps'[a].owner = apps[a].owner
  <2>1. CASE a = writer[w].app
    BY <1>2, <2>1 DEF UpsertApp, OwnerAfter, TypeInv, TypeOK
  <2>2. CASE a # writer[w].app
    BY <1>2, <2>2 DEF UpsertApp, TypeInv, TypeOK
  <2> QED BY <2>1, <2>2
<1>3. ASSUME NEW w \in Writers, NEW action \in Actions, DecideVersion(w, action)
      PROVE  apps'[a].owner = apps[a].owner
  <2>1. CASE a = writer[w].app
    BY <1>1, <1>3, <2>1 DEF DecideVersion, Entry, TypeInv, TypeOK
  <2>2. CASE a # writer[w].app
    BY <1>3, <2>2 DEF DecideVersion, TypeInv, TypeOK
  <2> QED BY <2>1, <2>2
<1>4. ASSUME UNCHANGED apps PROVE apps'[a].owner = apps[a].owner
  BY <1>4
<1> QED BY <1>2, <1>3, <1>4 DEF Next, SaveProfile, SetPublisherVerified, CheckOwner,
     OwnApp, SubmitVersion, BeginDecision, Rollback, vars, tables

\* "The publisher may not be changed by an update": UpsertApp's ON CONFLICT
\* branch, and every other statement, leaves an app with the publisher that
\* registered it.
THEOREM OwnerNeverChanges == Spec => OwnerIsForever
<1>1. Spec => []TypeInv
  BY TypeInit, TypeNext, PTL DEF Spec
<1>2. TypeInv /\ [Next]_vars =>
          [\A a \in Apps : apps[a] # NoEntry => apps'[a].owner = apps[a].owner]_vars
  BY OwnerStays
<1> QED BY <1>1, <1>2, PTL DEF Spec, OwnerIsForever

\* A handler about to insert a version acts for the app's publisher: what
\* ownApp found stays true however long ago it looked.
SubmittersOwn ==
    \A w \in Writers : writer[w].pc = "submit" => apps[writer[w].app].owner = writer[w].tenant

OwnerInv == TypeInv /\ SubmittedByOwner /\ SubmittersOwn

\* Every step keeps submissions with the owner.
LEMMA OwnerNext == OwnerInv /\ [Next]_vars => OwnerInv'
<1> SUFFICES ASSUME OwnerInv, [Next]_vars PROVE OwnerInv'
  OBVIOUS
<1>1. TypeInv /\ TypeInv'
  BY TypeNext DEF OwnerInv
<1>2. \A a \in Apps : apps[a] # NoEntry => apps'[a].owner = apps[a].owner
  BY <1>1, OwnerStays
<1>3. \A w \in Writers : writer[w].pc = "submit" =>
          /\ writer[w].app \in Apps
          /\ writer[w].version \in Versions
          /\ apps[writer[w].app] # NoEntry
          /\ apps'[writer[w].app].owner = writer[w].tenant
  BY <1>1, <1>2, PublishingAssumption DEF OwnerInv, SubmittersOwn, TypeInv,
     WriterAddressed, Entry, NoEntry
<1>4. \A a \in Apps, v \in Versions : versions[a][v] # NoVersion =>
          versions[a][v].submitter = apps'[a].owner
  BY <1>1, <1>2, PublishingAssumption DEF OwnerInv, SubmittedByOwner, TypeInv,
     ForeignKeys, Entry, NoEntry
<1>5. SubmittersOwn'
  <2>1. ASSUME NEW w \in Writers, NEW t \in Tenants, NEW a \in Apps, NEW v \in Versions,
               OwnApp(w, t, a, v)
        PROVE  SubmittersOwn'
    <3>1. /\ writer'[w].app = a /\ writer'[w].tenant = t /\ apps'[a].owner = t
          /\ \A i \in Writers : i # w => writer'[i] = writer[i]
      BY <1>1, <2>1 DEF OwnApp, tables, TypeInv, TypeOK
    <3> QED BY <1>3, <3>1 DEF SubmittersOwn
  <2>2. ASSUME \A i \in Writers : writer'[i] = writer[i] \/ writer'[i].pc # "submit"
        PROVE  SubmittersOwn'
    BY <1>3, <2>2 DEF SubmittersOwn
  <2>3. ASSUME NEW w \in Writers, NEW q, writer' = [writer EXCEPT ![w] = q], q.pc # "submit"
        PROVE  SubmittersOwn'
    BY <1>1, <2>2, <2>3 DEF TypeInv, TypeOK
  <2>4. ASSUME UNCHANGED writer PROVE SubmittersOwn'
    BY <2>2, <2>4
  <2>5. IdleWriter.pc # "submit"
    BY DEF IdleWriter
  <2>6. ASSUME NEW w \in Writers,
               \/ \E visibility \in {"public", "private"}, text \in Texts,
                     type \in Types, t \in Texts \cup {None} :
                     UpsertApp(w, visibility, text, type, t)
               \/ SubmitVersion(w)
               \/ \E action \in Actions : DecideVersion(w, action)
               \/ Rollback(w)
        PROVE  SubmittersOwn'
    <3>1. writer' = [writer EXCEPT ![w] = IdleWriter]
      BY <2>6 DEF UpsertApp, SubmitVersion, DecideVersion, Rollback
    <3> QED BY <2>3, <2>5, <3>1
  <2>7. ASSUME NEW w \in Writers, NEW t \in Tenants, NEW a \in Apps, CheckOwner(w, t, a)
        PROVE  SubmittersOwn'
    <3>1. \A i \in Writers : writer'[i] = writer[i] \/ writer'[i].pc # "submit"
      BY <1>1, <2>7 DEF CheckOwner, TypeInv, TypeOK
    <3> QED BY <2>2, <3>1
  <2>8. ASSUME NEW w \in Writers, NEW a \in Apps, NEW v \in Versions, BeginDecision(w, a, v)
        PROVE  SubmittersOwn'
    <3>1. \A i \in Writers : writer'[i] = writer[i] \/ writer'[i].pc # "submit"
      BY <1>1, <2>8 DEF BeginDecision, TypeInv, TypeOK
    <3> QED BY <2>2, <3>1
  <2>9. ASSUME \/ \E t \in Tenants : SaveProfile(t)
               \/ \E t \in Tenants, verified \in {"verified", "unverified"} :
                     SetPublisherVerified(t, verified)
               \/ UNCHANGED vars
        PROVE  UNCHANGED writer
    BY <2>9 DEF SaveProfile, SetPublisherVerified, vars
  <2> QED BY <2>1, <2>4, <2>6, <2>7, <2>8, <2>9 DEF Next
<1>6. SubmittedByOwner'
  <2>1. ASSUME NEW w \in Writers, SubmitVersion(w)
        PROVE  SubmittedByOwner'
    <3>1. writer[w].pc = "submit"
      BY <2>1 DEF SubmitVersion
    <3>2. /\ versions'[writer[w].app][writer[w].version].submitter = writer[w].tenant
          /\ \A a \in Apps, v \in Versions :
                a # writer[w].app \/ v # writer[w].version => versions'[a][v] = versions[a][v]
      BY <1>1, <1>3, <2>1, <3>1 DEF SubmitVersion, TypeInv, TypeOK
    <3> QED BY <1>3, <1>4, <3>1, <3>2 DEF SubmittedByOwner
  <2>2. ASSUME NEW w \in Writers, NEW action \in Actions, DecideVersion(w, action)
        PROVE  SubmittedByOwner'
    <3> DEFINE b == writer[w].app
               n == writer[w].version
    <3>1. b \in Apps /\ n \in Versions
      BY <1>1, <2>2 DEF TypeInv, TypeOK, WriterAddressed, DecideVersion
    <3>2. versions[b][n] \in Version /\ versions[b][n] # NoVersion
      BY <1>1, <2>2, <3>1 DEF DecideVersion, TypeInv, TypeOK
    <3>3. versions' = [versions EXCEPT ![b][n].status = StatusOf(action)]
      BY <2>2 DEF DecideVersion
    <3>4. versions'[b][n].submitter = versions[b][n].submitter
      BY <1>1, <3>1, <3>2, <3>3 DEF TypeInv, TypeOK, Version
    <3>5. \A a \in Apps, v \in Versions : a # b \/ v # n => versions'[a][v] = versions[a][v]
      BY <1>1, <3>1, <3>3 DEF TypeInv, TypeOK
    <3> HIDE DEF b, n
    <3> QED BY <1>4, <3>2, <3>4, <3>5 DEF SubmittedByOwner
  <2>3. ASSUME UNCHANGED versions PROVE SubmittedByOwner'
    BY <1>4, <2>3 DEF SubmittedByOwner
  <2> QED BY <2>1, <2>2, <2>3 DEF Next, SaveProfile, SetPublisherVerified, CheckOwner,
       UpsertApp, OwnApp, BeginDecision, Rollback, vars, tables
<1> QED BY <1>1, <1>5, <1>6 DEF OwnerInv

\* "An app belongs to whoever registered it": every version in the registry was
\* submitted by the publisher its app belongs to, however submissions race
\* registrations and each other.
THEOREM OnlyOwnersSubmit == Spec => []SubmittedByOwner
<1>1. Init => OwnerInv
  BY TypeInit DEF Init, OwnerInv, SubmittedByOwner, SubmittersOwn, IdleWriter
<1>2. OwnerInv => SubmittedByOwner
  BY DEF OwnerInv
<1> QED BY <1>1, <1>2, OwnerNext, PTL DEF Spec
------------------------------------------------------------------------------
(* The trail of a version.                                                 *)

\* What one step does to the trail and the status of one version: nothing, or
\* it commits the submission that created the version, or a decision on it.
Submitted(a, v) ==
    /\ versions[a][v].status = "unused"
    /\ versions'[a][v].status = "in_review"
    /\ \E e \in Event : e.action = "submitted" /\ trail'[a][v] = Append(trail[a][v], e)

Decided(a, v, action) ==
    /\ versions[a][v].status # "unused"
    /\ versions'[a][v].status = StatusOf(action)
    /\ \E e \in Event : e.action = action /\ trail'[a][v] = Append(trail[a][v], e)

\* A version exists when its status is one the table allows.
LEMMA VersionStatus ==
    ASSUME TypeInv, NEW a \in Apps, NEW v \in Versions
    PROVE  /\ versions[a][v] = NoVersion <=> versions[a][v].status = "unused"
           /\ trail[a][v] \in Seq(Event)
<1>1. versions[a][v] \in Version \cup {NoVersion}
  BY DEF TypeInv, TypeOK
<1> QED BY <1>1 DEF TypeInv, TypeOK, Version, NoVersion, Statuses

\* Every step does one of these to every version, and provenance changes only
\* with a decision to publish.
LEMMA HistorySteps ==
    ASSUME TypeInv, [Next]_vars, NEW a \in Apps
    PROVE  /\ \A v \in Versions :
                 \/ UNCHANGED <<versions[a][v], trail[a][v]>>
                 \/ Submitted(a, v)
                 \/ \E action \in Actions : Decided(a, v, action)
           /\ \/ /\ apps'[a].provenance = apps[a].provenance
                 /\ \A v \in Versions : ~Decided(a, v, "publish")
              \/ \E v \in Versions :
                    /\ apps'[a].provenance = v
                    /\ Decided(a, v, "publish")
<1> USE DEF Actions
<1>1. ASSUME NEW w \in Writers, SubmitVersion(w)
      PROVE  /\ \A v \in Versions : UNCHANGED <<versions[a][v], trail[a][v]>> \/ Submitted(a, v)
             /\ UNCHANGED apps
  <2> DEFINE b == writer[w].app
             n == writer[w].version
             e == [action |-> "submitted", at |-> writer[w].at]
  <2>1. b \in Apps /\ n \in Versions /\ e \in Event
    BY <1>1 DEF TypeInv, TypeOK, WriterAddressed, SubmitVersion, Event
  <2>2. versions[b][n].status = "unused"
    BY <1>1 DEF SubmitVersion, NumberIsFree, NoVersion
  <2>3. versions'[b][n].status = "in_review" /\ trail'[b][n] = Append(trail[b][n], e)
    BY <1>1, <2>1 DEF SubmitVersion, StatusAtSubmission, TypeInv, TypeOK
  <2>4. Submitted(b, n)
    BY <2>1, <2>2, <2>3 DEF Submitted
  <2>5. \A v \in Versions : a # b \/ v # n =>
            UNCHANGED <<versions[a][v], trail[a][v]>>
    BY <1>1, <2>1 DEF SubmitVersion, TypeInv, TypeOK
  <2> HIDE DEF b, n, e
  <2> QED BY <1>1, <2>1, <2>4, <2>5 DEF SubmitVersion
<1>2. ASSUME NEW w \in Writers, NEW action \in Actions, DecideVersion(w, action)
      PROVE  \/ /\ \A v \in Versions : UNCHANGED <<versions[a][v], trail[a][v]>>
                /\ apps'[a].provenance = apps[a].provenance
             \/ \E n \in Versions :
                   /\ Decided(a, n, action)
                   /\ \A v \in Versions \ {n} : UNCHANGED <<versions[a][v], trail[a][v]>>
                   /\ apps'[a].provenance = IF action = "publish" THEN n ELSE apps[a].provenance
  <2> DEFINE b == writer[w].app
             n == writer[w].version
             e == [action |-> action, at |-> writer[w].at]
  <2>1. b \in Apps /\ n \in Versions /\ e \in Event
    BY <1>2 DEF TypeInv, TypeOK, WriterAddressed, DecideVersion, Event
  <2>2. versions[b][n] \in Version /\ versions[b][n].status # "unused"
    BY <1>2, <2>1 DEF DecideVersion, TypeInv, TypeOK, Version, Statuses
  <2>3. versions'[b][n].status = StatusOf(action) /\ trail'[b][n] = Append(trail[b][n], e)
    BY <1>2, <2>1, <2>2 DEF DecideVersion, TypeInv, TypeOK, Version
  <2>4. Decided(b, n, action)
    BY <2>1, <2>2, <2>3 DEF Decided
  <2>5. \A v \in Versions : a # b \/ v # n =>
            UNCHANGED <<versions[a][v], trail[a][v]>>
    BY <1>2, <2>1 DEF DecideVersion, TypeInv, TypeOK
  <2>6. a # b => apps'[a] = apps[a]
    BY <1>2, <2>1 DEF DecideVersion, TypeInv, TypeOK
  <2>7. apps[b] \in Entry
    BY <1>2, <2>1 DEF DecideVersion, TypeInv, ForeignKeys
  <2>8. apps'[b].provenance = IF action = "publish" THEN n ELSE apps[b].provenance
    BY <1>2, <2>1, <2>7 DEF DecideVersion, ProvenanceAfter, TypeInv, TypeOK, Entry
  <2> HIDE DEF b, n, e
  <2> QED BY <2>1, <2>4, <2>5, <2>6, <2>8
<1>3. ASSUME UNCHANGED <<versions, trail>>
      PROVE  \A v \in Versions : UNCHANGED <<versions[a][v], trail[a][v]>>
  BY <1>3
<1>4. \A v \in Versions, action \in Actions :
          trail'[a][v] = trail[a][v] => ~Decided(a, v, action)
  BY DEF Decided, TypeInv, TypeOK
<1>5. \A v \in Versions, action \in Actions : Submitted(a, v) => ~Decided(a, v, action)
  BY DEF Decided, Submitted
<1>6. \A v \in Versions, action, other \in Actions :
          Decided(a, v, action) /\ Decided(a, v, other) => action = other
  BY DEF Decided, StatusOf
<1>7. ASSUME NEW w \in Writers, NEW visibility \in {"public", "private"},
             NEW text \in Texts, NEW type \in Types, NEW t \in Texts \cup {None},
             UpsertApp(w, visibility, text, type, t)
      PROVE  apps'[a].provenance = apps[a].provenance
  <2>1. CASE a = writer[w].app
    BY <1>7, <2>1 DEF UpsertApp, TypeInv, TypeOK
  <2>2. CASE a # writer[w].app
    BY <1>7, <2>2 DEF UpsertApp, TypeInv, TypeOK
  <2> QED BY <2>1, <2>2
<1>8. CASE \E w \in Writers : SubmitVersion(w)
  BY <1>1, <1>4, <1>5, <1>8
<1>9. CASE \E w \in Writers : \E action \in Actions : DecideVersion(w, action)
  <2>1. PICK w \in Writers, action \in Actions : DecideVersion(w, action)
    BY <1>9
  <2>2. CASE /\ \A v \in Versions : UNCHANGED <<versions[a][v], trail[a][v]>>
             /\ apps'[a].provenance = apps[a].provenance
    BY <1>4, <2>2
  <2>3. ASSUME NEW n \in Versions, Decided(a, n, action),
               \A v \in Versions \ {n} : UNCHANGED <<versions[a][v], trail[a][v]>>,
               apps'[a].provenance = IF action = "publish" THEN n ELSE apps[a].provenance
        PROVE  /\ \A v \in Versions :
                     \/ UNCHANGED <<versions[a][v], trail[a][v]>>
                     \/ \E d \in Actions : Decided(a, v, d)
               /\ \/ /\ apps'[a].provenance = apps[a].provenance
                     /\ \A v \in Versions : ~Decided(a, v, "publish")
                  \/ \E v \in Versions : apps'[a].provenance = v /\ Decided(a, v, "publish")
    <3>1. CASE action = "publish"
      BY <2>3, <3>1
    <3>2. CASE action # "publish"
      BY <1>4, <1>6, <2>3, <3>2
    <3> QED BY <2>3, <3>1, <3>2
  <2> QED BY <1>2, <2>1, <2>2, <2>3
<1>10. ASSUME UNCHANGED <<versions, trail>>, apps'[a].provenance = apps[a].provenance
       PROVE  /\ \A v \in Versions : UNCHANGED <<versions[a][v], trail[a][v]>>
              /\ apps'[a].provenance = apps[a].provenance
              /\ \A v \in Versions : ~Decided(a, v, "publish")
  BY <1>4, <1>10
<1>11. ASSUME NEW w \in Writers, NEW visibility \in {"public", "private"},
              NEW text \in Texts, NEW type \in Types, NEW t \in Texts \cup {None},
              UpsertApp(w, visibility, text, type, t)
       PROVE  UNCHANGED <<versions, trail>> /\ apps'[a].provenance = apps[a].provenance
  BY <1>7, <1>11 DEF UpsertApp
<1>12. ASSUME \/ \E t \in Tenants : SaveProfile(t)
              \/ \E t \in Tenants, verified \in {"verified", "unverified"} :
                    SetPublisherVerified(t, verified)
              \/ \E w \in Writers : \E t \in Tenants, b \in Apps : CheckOwner(w, t, b)
              \/ \E w \in Writers : \E t \in Tenants, b \in Apps, v \in Versions : OwnApp(w, t, b, v)
              \/ \E w \in Writers : \E b \in Apps, v \in Versions : BeginDecision(w, b, v)
              \/ \E w \in Writers : Rollback(w)
              \/ UNCHANGED vars
       PROVE  UNCHANGED <<versions, trail>> /\ apps'[a].provenance = apps[a].provenance
  BY <1>12 DEF SaveProfile, SetPublisherVerified, CheckOwner, OwnApp, BeginDecision,
     Rollback, vars, tables
<1> QED BY <1>8, <1>9, <1>10, <1>11, <1>12 DEF Next

\* What OutcomesRecorded says of one trail.
TrailTold(t, status) ==
    /\ \A i \in 1..Len(t) : t[i].action = "submitted" <=> i = 1
    /\ status = (IF Len(t) = 0 THEN "unused"
                 ELSE IF Len(t) = 1 THEN "in_review" ELSE StatusOf(t[Len(t)].action))

\* One more event, written with the status it gives, keeps a trail telling what
\* happened.
LEMMA TrailGrows ==
    ASSUME NEW t \in Seq(Event), NEW status, TrailTold(t, status), NEW e \in Event,
           NEW next,
           \/ status = "unused" /\ e.action = "submitted" /\ next = "in_review"
           \/ status # "unused" /\ e.action \in Actions /\ next = StatusOf(e.action)
    PROVE  TrailTold(Append(t, e), next)
<1> DEFINE n == Len(t)
           u == Append(t, e)
<1>1. /\ n \in Nat /\ Len(u) = n + 1 /\ u[n + 1] = e
      /\ \A i \in 1..n : u[i] = t[i]
  OBVIOUS
<1>2. n = 0 <=> status = "unused"
  <2>0. n \in Nat
    BY <1>1
  <2>1. ASSUME n > 1 PROVE status # "unused"
    <3>1. n \in 1..n /\ n # 0 /\ n # 1
      <4> HIDE DEF n
      <4> QED BY <2>0, <2>1
    <3>2. t[n].action # "submitted" /\ t[n] \in Event
      <4>1. /\ \A i \in 1..n : t[i].action = "submitted" <=> i = 1
            /\ \A i \in 1..n : t[i] \in Event
        BY DEF TrailTold
      <4> HIDE DEF n
      <4> QED BY <3>1, <4>1
    <3>3. t[n].action \in Actions
      BY <3>2 DEF Event
    <3>4. StatusOf(t[n].action) # "unused"
      BY <3>3 DEF StatusOf, Actions
    <3> QED BY <3>1, <3>4 DEF TrailTold
  <2>2. n = 0 \/ n = 1 \/ n > 1
    <3> HIDE DEF n
    <3> QED BY <2>0
  <2>3. CASE n = 0
    BY <2>3 DEF TrailTold
  <2>4. CASE n = 1
    BY <2>4 DEF TrailTold
  <2>5. CASE n > 1
    BY <1>1, <2>1, <2>5
  <2> QED BY <2>2, <2>3, <2>4, <2>5
<1>3. e.action = "submitted" <=> n = 0
  BY <1>2 DEF Actions
<1>4. next = IF n + 1 = 1 THEN "in_review" ELSE StatusOf(e.action)
  BY <1>1, <1>2, <1>3
<1>5. \A i \in 1..(n + 1) : u[i].action = "submitted" <=> i = 1
  <2>1. \A i \in 1..n : t[i].action = "submitted" <=> i = 1
    BY DEF TrailTold
  <2> HIDE DEF n, u
  <2>2. \A i \in 1..(n + 1) : i \in 1..n \/ i = n + 1
    BY <1>1
  <2>3. n + 1 = 1 <=> n = 0
    BY <1>1
  <2>4. ASSUME NEW i \in 1..(n + 1) PROVE u[i].action = "submitted" <=> i = 1
    <3>1. CASE i \in 1..n
      BY <1>1, <2>1, <3>1
    <3>2. CASE i = n + 1
      BY <1>1, <1>3, <2>3, <3>2
    <3> QED BY <2>2, <3>1, <3>2
  <2> QED BY <2>4
<1>6. next = (IF Len(u) = 0 THEN "unused"
              ELSE IF Len(u) = 1 THEN "in_review" ELSE StatusOf(u[Len(u)].action))
  <2> HIDE DEF n, u
  <2> QED BY <1>1, <1>4
<1> HIDE DEF u
<1> QED BY <1>1, <1>5, <1>6 DEF TrailTold

\* The actions a trail holds.
ActionsIn(t) == {t[i].action : i \in DOMAIN t}

HistoryInv == TypeInv /\ OutcomesRecorded /\ ProvenanceReviewed

\* Every step keeps the trails complete and the provenance reviewed.
LEMMA HistoryNext == HistoryInv /\ [Next]_vars => HistoryInv'
<1> SUFFICES ASSUME HistoryInv, [Next]_vars PROVE HistoryInv'
  OBVIOUS
<1>1. TypeInv /\ TypeInv'
  BY TypeNext DEF HistoryInv
<1>2. ASSUME NEW a \in Apps, NEW v \in Versions
      PROVE  TrailTold(trail'[a][v], versions'[a][v].status)
  <2>1. TrailTold(trail[a][v], versions[a][v].status)
    BY DEF HistoryInv, OutcomesRecorded, TrailTold
  <2>2. trail[a][v] \in Seq(Event)
    BY <1>1, VersionStatus
  <2>3. CASE Submitted(a, v)
    BY <2>1, <2>2, <2>3, TrailGrows DEF Submitted
  <2>4. ASSUME NEW action \in Actions, Decided(a, v, action)
        PROVE  TrailTold(trail'[a][v], versions'[a][v].status)
    BY <2>1, <2>2, <2>4, TrailGrows DEF Decided
  <2> QED BY <1>1, <2>1, <2>3, <2>4, HistorySteps
<1>3. OutcomesRecorded'
  BY <1>2 DEF OutcomesRecorded, TrailTold
<1>4. ASSUME NEW a \in Apps, NEW v \in Versions
      PROVE  /\ ActionsIn(trail[a][v]) \subseteq ActionsIn(trail'[a][v])
             /\ Decided(a, v, "publish") => "publish" \in ActionsIn(trail'[a][v])
  <2>1. trail[a][v] \in Seq(Event)
    BY <1>1, VersionStatus
  <2>2. ASSUME NEW e \in Event, trail'[a][v] = Append(trail[a][v], e)
        PROVE  ActionsIn(trail[a][v]) \subseteq ActionsIn(trail'[a][v]) /\ e.action \in ActionsIn(trail'[a][v])
    <3> DEFINE t == trail[a][v]
               u == trail'[a][v]
    <3>1. /\ Len(t) \in Nat /\ DOMAIN t = 1..Len(t) /\ DOMAIN u = 1..(Len(t) + 1)
          /\ u[Len(t) + 1] = e /\ \A i \in 1..Len(t) : u[i] = t[i]
      BY <2>1, <2>2
    <3>2. /\ ActionsIn(trail[a][v]) = {t[i].action : i \in DOMAIN t}
          /\ ActionsIn(trail'[a][v]) = {u[i].action : i \in DOMAIN u}
      BY DEF ActionsIn
    <3> HIDE DEF t, u
    <3>3. \A i \in DOMAIN t : i \in DOMAIN u /\ u[i] = t[i]
      BY <3>1
    <3>4. Len(t) + 1 \in DOMAIN u
      BY <3>1
    <3> QED BY <3>1, <3>2, <3>3, <3>4
  <2>3. CASE UNCHANGED trail[a][v]
    BY <1>1, <2>1, <2>3 DEF Decided
  <2>4. Decided(a, v, "publish") =>
            \E e \in Event : e.action = "publish" /\ trail'[a][v] = Append(trail[a][v], e)
    BY DEF Decided
  <2>5. UNCHANGED trail[a][v] \/ \E e \in Event : trail'[a][v] = Append(trail[a][v], e)
    BY <1>1, HistorySteps DEF Submitted, Decided
  <2> QED BY <2>2, <2>3, <2>4, <2>5
<1>5. ASSUME NEW a \in Apps
      PROVE  /\ apps'[a].provenance # 0 => "publish" \in ActionsIn(trail'[a][apps'[a].provenance])
             /\ (\E v \in Versions : versions'[a][v].status = "published")
                   => apps'[a].provenance # 0
  <2>1. /\ apps[a].provenance # 0 => "publish" \in ActionsIn(trail[a][apps[a].provenance])
        /\ (\E v \in Versions : versions[a][v].status = "published")
              => apps[a].provenance # 0
    BY DEF HistoryInv, ProvenanceReviewed, Recorded, ActionsIn
  <2>2. apps[a].provenance \in Versions \cup {0}
    BY <1>1, RowTypes
  <2>3. CASE \E v \in Versions : apps'[a].provenance = v /\ Decided(a, v, "publish")
    BY <1>4, <2>3, PublishingAssumption
  <2>4. CASE /\ apps'[a].provenance = apps[a].provenance
             /\ \A v \in Versions : ~Decided(a, v, "publish")
    <3>1. \A v \in Versions : versions'[a][v].status = "published" =>
              versions[a][v].status = "published"
      BY <1>1, <2>4, HistorySteps DEF Submitted, Decided, StatusOf, Actions
    <3>2. apps'[a].provenance # 0 => "publish" \in ActionsIn(trail'[a][apps'[a].provenance])
      BY <1>4, <2>1, <2>2, <2>4
    <3> QED BY <2>1, <2>4, <3>1, <3>2
  <2> QED BY <1>1, <2>3, <2>4, HistorySteps
<1>6. ProvenanceReviewed'
  BY <1>5 DEF ProvenanceReviewed, Recorded, ActionsIn
<1> QED BY <1>1, <1>3, <1>6 DEF HistoryInv

\* Empty tables have nothing to record.
LEMMA HistoryInit == Init => HistoryInv
<1> SUFFICES ASSUME Init PROVE OutcomesRecorded /\ ProvenanceReviewed
  BY TypeInit DEF HistoryInv
<1>1. \A a \in Apps, v \in Versions :
          trail[a][v] = << >> /\ versions[a][v].status = "unused" /\ apps[a].provenance = 0
  BY DEF Init, NoVersion, NoEntry
<1>2. Len(<< >>) = 0
  OBVIOUS
<1>3. OutcomesRecorded
  BY <1>1, <1>2 DEF OutcomesRecorded
<1>4. \A a \in Apps : apps[a].provenance = 0
  BY DEF Init, NoEntry
<1> QED BY <1>1, <1>3, <1>4 DEF ProvenanceReviewed

\* "Every outcome is recorded": whatever handlers interleave, a version's trail
\* starts with the one submission, and its last event is the status the version
\* has, which a second decision or a retried one does not change.
THEOREM EveryOutcomeIsRecorded == Spec => []OutcomesRecorded
<1>1. HistoryInv => OutcomesRecorded
  BY DEF HistoryInv
<1> QED BY <1>1, HistoryInit, HistoryNext, PTL DEF Spec

\* No manifest describes an app before a reviewer published it, and none that
\* is published leaves its app undescribed.
THEOREM ProvenanceIsReviewed == Spec => []ProvenanceReviewed
<1>1. HistoryInv => ProvenanceReviewed
  BY DEF HistoryInv
<1> QED BY <1>1, HistoryInit, HistoryNext, PTL DEF Spec
==============================================================================
