------------------------ MODULE CatalogDocumentProofs ------------------------
(***************************************************************************)
(* What the other proofs need of CatalogSource and CatalogDocument: the    *)
(* transactions leave well-formed tables, and the document chosen from     *)
(* well-formed tables is well-formed.                                      *)
(***************************************************************************)
EXTENDS CatalogDocument, WellFoundedInduction, TLAPS

------------------------------------------------------------------------------
(* The document operators.                                                 *)

\* build() always has a newest version to choose: a nonempty set of version
\* numbers has a greatest element.
LEMMA GreatestVersion ==
    ASSUME NEW S, S \subseteq Versions, S # {}
    PROVE  \E v \in S : \A w \in S : w <= v
<1>1. PICK n \in Versions : \A v \in Versions : v <= n
  BY SourceAssumption
<1> DEFINE T == {n - v : v \in S}
<1>2. n \in Nat /\ \A v \in S : v \in Nat /\ v <= n
  BY <1>1, SourceAssumption
<1>3. T \subseteq Nat /\ T # {}
  <2>1. \A v \in S : n - v \in Nat
    BY <1>2
  <2>2. PICK s \in S : TRUE
    OBVIOUS
  <2>3. n - s \in T
    BY <2>2
  <2> QED BY <2>1, <2>3
<1>4. \E x \in T : \A y \in T : ~ (<<y, x>> \in OpToRel(<, Nat))
  <2> HIDE DEF T
  <2> QED BY <1>3, WFMin, NatLessThanWellFounded
<1>5. PICK x \in T : \A y \in T : ~ (<<y, x>> \in OpToRel(<, Nat))
  BY <1>4
<1>6. \A y \in T : ~ (y < x)
  BY <1>3, <1>5 DEF OpToRel
<1>7. PICK v \in S : x = n - v
  BY DEF T
<1>8. ASSUME NEW w \in S PROVE w <= v
  <2>1. n - w \in T
    OBVIOUS
  <2>2. ~ (n - w < n - v)
    BY <2>1, <1>6, <1>7
  <2> QED BY <2>2, <1>2
<1> QED BY <1>8

\* The published versions of an app that the key's platform can run.
Offered(a, k) == {v \in published[a] : <<a, v, k>> \in Offers}

\* The version chosen for an app is the greatest of those, and there is one
\* unless there are none of those.
LEMMA ChosenIsGreatest ==
    ASSUME NEW a \in Apps, NEW k, published[a] \subseteq Versions
    PROVE  /\ Chosen(a, k) = 0 <=> Offered(a, k) = {}
           /\ Chosen(a, k) # 0 => /\ Chosen(a, k) \in Offered(a, k)
                                  /\ \A v \in Offered(a, k) : v <= Chosen(a, k)
<1>1. Offered(a, k) \subseteq Versions /\ 0 \notin Offered(a, k)
  BY SourceAssumption DEF Offered
<1>2. Offered(a, k) = {} => Chosen(a, k) = 0
  BY DEF Chosen, Offered
<1>3. ASSUME Offered(a, k) # {}
      PROVE  /\ Chosen(a, k) \in Offered(a, k)
             /\ \A v \in Offered(a, k) : v <= Chosen(a, k)
  <2>1. \E v \in Offered(a, k) : \A w \in Offered(a, k) : w <= v
    BY <1>1, <1>3, GreatestVersion
  <2>2. Chosen(a, k) = CHOOSE v \in Offered(a, k) : \A w \in Offered(a, k) : w <= v
    BY <1>3 DEF Chosen, Offered
  <2> QED BY <2>1, <2>2
<1> QED BY <1>1, <1>2, <1>3

\* An id nobody has registered has no published version: store_app_versions
\* refers to store_apps.
ForeignKeys == \A a \in Apps : app[a] = NoApp => published[a] = {}

\* The catalogue query returns well-formed rows.
LEMMA CatalogRowsType ==
    ASSUME SourceTypeOK, ForeignKeys, NEW k, NEW G
    PROVE  CatalogRows(k, G) \in [Apps -> Row]
<1> SUFFICES ASSUME NEW a \in Apps, Listed(a, k, G)
             PROVE  [version |-> Chosen(a, k), entry |-> app[a]] \in Row
  BY DEF CatalogRows, Row
<1>1. published[a] \subseteq Versions /\ app[a] \in AppRow \cup {NoApp}
  BY DEF SourceTypeOK
<1>2. Chosen(a, k) # 0
  BY DEF Listed
<1>3. Chosen(a, k) \in published[a]
  BY <1>1, <1>2, ChosenIsGreatest DEF Offered
<1>4. app[a] \in AppRow
  BY <1>1, <1>3 DEF ForeignKeys
<1> QED BY <1>1, <1>3, <1>4 DEF Row

\* The document build() starts from has its type.
LEMMA EmptyDocType == EmptyDoc \in Document
BY DEF EmptyDoc, Document, Row

\* The publishing transactions leave well-formed tables.
LEMMA SourceType ==
    ASSUME SourceTypeOK, ForeignKeys, SourceNext
    PROVE  SourceTypeOK' /\ ForeignKeys'
<1> USE DEF SourceTypeOK
<1>1. CASE \E a \in Apps, visibility \in Visibilities, text \in Texts,
              t \in Texts \cup {None} : UpsertApp(a, visibility, text, t)
  <2>1. PICK a \in Apps, visibility \in Visibilities, text \in Texts,
             t \in Texts \cup {None} : UpsertApp(a, visibility, text, t)
    BY <1>1
  <2>2. revision' \in 0..MaxRevision
    BY <2>1, SourceAssumption DEF UpsertApp, bumpRevision
  <2>3. [visibility |-> visibility, text |-> text] \in AppRow \ {NoApp}
    BY DEF AppRow, NoApp, Visibilities
  <2>4. app' \in [Apps -> AppRow \cup {NoApp}]
    BY <2>1, <2>3 DEF UpsertApp
  <2>5. trans' \in [Apps -> Texts \cup {None}]
    BY <2>1 DEF UpsertApp
  <2>6. ForeignKeys'
    BY <2>1, <2>3 DEF UpsertApp, ForeignKeys
  <2> QED BY <2>1, <2>2, <2>4, <2>5, <2>6 DEF UpsertApp
<1>2. CASE \E a \in Apps, v \in Versions, action \in Actions :
              DecideVersion(a, v, action)
  <2>1. PICK a \in Apps, v \in Versions, action \in Actions :
             DecideVersion(a, v, action)
    BY <1>2
  <2>2. revision' \in 0..MaxRevision
    BY <2>1, SourceAssumption DEF DecideVersion, bumpRevision
  <2>3. published' \in [Apps -> SUBSET Versions]
    BY <2>1 DEF DecideVersion
  <2>4. ForeignKeys'
    BY <2>1 DEF DecideVersion, ForeignKeys
  <2> QED BY <2>1, <2>2, <2>3, <2>4 DEF DecideVersion
<1>3. CASE Import
  <2>1. revision' \in 0..MaxRevision
    BY <1>3, SourceAssumption DEF Import, bumpRevision
  <2> QED BY <1>3, <2>1 DEF Import, ForeignKeys
<1> QED BY <1>1, <1>2, <1>3 DEF SourceNext
==============================================================================
