--------------------------- MODULE SelectionProofs ---------------------------
(***************************************************************************)
(* Proofs about Selection: what the loop of build() computes from the rows *)
(* of its query, for every order of precedence, and every history of       *)
(* publications, and that it is what CatalogDocument says.                 *)
(***************************************************************************)
EXTENDS Selection, CatalogDocumentProofs

------------------------------------------------------------------------------
(* The loop invariant.                                                     *)

\* One row per version of an app, one version per time, and no row without a
\* time of publication.
WellStamped(rows) ==
    /\ \A row \in rows : row[3] >= Second
    /\ \A row, other \in rows :
          row[1] = other[1] /\ (row[2] = other[2] \/ row[3] = other[3]) => row = other

\* The rows of an app, among those of S, that the key's platform can run.
Candidates(q, a, S) == {row \in S : row[1] = a /\ <<a, row[2], q.key>> \in Offers}

\* A row is the one to offer rather than another.
Beats(row, other) ==
    \/ Rank[other[2]] < Rank[row[2]]
    \/ Rank[other[2]] = Rank[row[2]] /\ other[3] > row[3]

\* The version held for an app is that of the best of its rows in S.
BestHeld(q, a, S) ==
    IF Candidates(q, a, S) = {} THEN q.chosen[a] = 0
    ELSE \E row \in Candidates(q, a, S) :
            /\ q.chosen[a] = row[2]
            /\ \A other \in Candidates(q, a, S) \ {row} : Beats(row, other)

\* generatedAt is the newest time of the rows of S whose version is held.
ShownIn(q, S) == {row \in S : q.chosen[row[1]] = row[2]}

NewestHeld(q, S) ==
    IF ShownIn(q, S) = {} THEN q.generatedAt = 0
    ELSE \E row \in ShownIn(q, S) :
            /\ q.generatedAt = row[3]
            /\ \A other \in ShownIn(q, S) : other[3] <= row[3]

\* Between two iterations: what is left of an app is later than what was
\* taken, and what is held is the best of what was taken.
LoopInv(q) ==
    q.pc # "idle" =>
        /\ q.todo \subseteq q.rows
        /\ WellStamped(q.rows)
        /\ \A row \in q.rows \ q.todo, other \in q.todo :
              row[1] = other[1] => row[3] < other[3]
        /\ \A a \in Apps : BestHeld(q, a, q.rows \ q.todo)
        /\ NewestHeld(q, q.rows \ q.todo)
        /\ q.pc = "signed" => q.todo = {} /\ q.at = SignedAt(q.generatedAt)

\* What LoopInv says of a row.
LEMMA RowType ==
    ASSUME NEW q \in Scan, NEW row \in q.rows
    PROVE  /\ row[1] \in Apps /\ row[2] \in Versions /\ row[3] \in Times
           /\ row[2] \in Nat \ {0} /\ row[3] \in Nat /\ Rank[row[2]] \in Nat
           /\ row = <<row[1], row[2], row[3]>>
<1>1. row \in Apps \X Versions \X Times
  BY DEF Scan, Rows
<1>2. row[1] \in Apps /\ row[2] \in Versions /\ row[3] \in Times
  BY <1>1
<1>3. Times \subseteq Nat
  BY SourceAssumption, SelectionAssumption DEF Times
<1>4. row[2] \in Nat \ {0} /\ Rank[row[2]] \in Nat
  BY <1>2, SourceAssumption, SelectionAssumption
<1>5. row = <<row[1], row[2], row[3]>>
  BY <1>1
<1> QED BY <1>2, <1>3, <1>4, <1>5

\* The version held for an app is that of a row taken, whose platform can run
\* it, and none is held only when no row could be.
LEMMA HeldIsTaken ==
    ASSUME NEW q \in Scan, NEW S \in SUBSET q.rows, NEW a \in Apps, BestHeld(q, a, S)
    PROVE  /\ q.chosen[a] = 0 <=> Candidates(q, a, S) = {}
           /\ q.chosen[a] # 0 =>
                \E row \in Candidates(q, a, S) :
                    /\ q.chosen[a] = row[2]
                    /\ \A other \in Candidates(q, a, S) \ {row} : Beats(row, other)
<1>1. \A row \in Candidates(q, a, S) : row[2] # 0
  BY RowType DEF Candidates
<1> QED BY <1>1 DEF BestHeld

\* An iteration that takes the row.
LEMMA TakeKeepsLoop ==
    ASSUME NEW q \in Scan, q.pc = "scan", LoopInv(q), NEW row \in q.todo,
           \A other \in q.todo : other[1] = row[1] => row[3] <= other[3],
           <<row[1], row[2], q.key>> \in Offers,
           q.chosen[row[1]] = 0 \/ Rank[row[2]] > Rank[q.chosen[row[1]]],
           NEW new \in Scan, new.pc = "scan", new.rows = q.rows, new.key = q.key,
           new.todo = q.todo \ {row},
           new.chosen = [q.chosen EXCEPT ![row[1]] = row[2]],
           new.generatedAt = IF row[3] > q.generatedAt THEN row[3] ELSE q.generatedAt
    PROVE  LoopInv(new)
<1> DEFINE a == row[1]
           v == row[2]
           S == q.rows \ q.todo
           T == new.rows \ new.todo
<1>1. /\ q.todo \subseteq q.rows /\ WellStamped(q.rows) /\ row \in q.rows
      /\ \A r \in S, o \in q.todo : r[1] = o[1] => r[3] < o[3]
      /\ \A b \in Apps : BestHeld(q, b, S)
      /\ NewestHeld(q, S)
  BY DEF LoopInv
<1>2. T = S \cup {row} /\ row \notin S
  BY <1>1
<1>3. /\ a \in Apps /\ v \in Nat \ {0} /\ row[3] \in Nat /\ Rank[v] \in Nat
      /\ q.chosen \in [Apps -> Versions \cup {0}] /\ q.generatedAt \in Nat
  BY <1>1, RowType, SelectionAssumption, SourceAssumption DEF Scan, Times
<1>4. /\ new.chosen[a] = v
      /\ \A b \in Apps : b # a => new.chosen[b] = q.chosen[b]
  BY <1>3
<1>5. /\ Candidates(new, a, T) = Candidates(q, a, S) \cup {row}
      /\ \A b \in Apps : b # a => Candidates(new, b, T) = Candidates(q, b, S)
  BY <1>2 DEF Candidates
<1>6. \A r \in Candidates(q, a, S) : Rank[r[2]] < Rank[v]
  <2>1. CASE q.chosen[a] = 0
    BY <1>1, <1>3, <2>1, HeldIsTaken
  <2>2. CASE q.chosen[a] # 0
    <3>1. PICK held \in Candidates(q, a, S) :
              /\ q.chosen[a] = held[2]
              /\ \A other \in Candidates(q, a, S) \ {held} : Beats(held, other)
      BY <1>1, <1>3, <2>2, HeldIsTaken
    <3>2. \A r \in Candidates(q, a, S) : Rank[r[2]] \in Nat
      BY RowType DEF Candidates
    <3>3. ASSUME NEW r \in Candidates(q, a, S) PROVE Rank[r[2]] <= Rank[held[2]]
      <4>1. r = held \/ Beats(held, r)
        BY <3>1
      <4>2. Rank[r[2]] \in Nat /\ Rank[held[2]] \in Nat
        BY <3>1, <3>2
      <4>3. r = held \/ Rank[r[2]] < Rank[held[2]] \/ Rank[r[2]] = Rank[held[2]]
        BY <4>1 DEF Beats
      <4> QED BY <4>2, <4>3
    <3>4. Rank[held[2]] < Rank[v]
      BY <1>3, <2>2, <3>1, <3>2
    <3> HIDE DEF v, S, a
    <3> QED BY <1>3, <3>2, <3>3, <3>4
  <2> QED BY <2>1, <2>2
<1>7. ASSUME NEW b \in Apps PROVE BestHeld(new, b, T)
  <2>1. CASE b = a
    <3>1. row \in Candidates(new, a, T)
      BY <1>5
    <3>2. \A other \in Candidates(new, a, T) \ {row} : Beats(row, other)
      BY <1>5, <1>6 DEF Beats
    <3> QED BY <1>4, <2>1, <3>1, <3>2 DEF BestHeld
  <2>2. CASE b # a
    <3>1. new.chosen[b] = q.chosen[b] /\ Candidates(new, b, T) = Candidates(q, b, S)
      BY <1>4, <1>5, <2>2
    <3> HIDE DEF S, T
    <3> QED BY <1>1, <3>1 DEF BestHeld
  <2> QED BY <2>1, <2>2
<1>8. \A r \in T, o \in new.todo : r[1] = o[1] => r[3] < o[3]
  <2>1. ASSUME NEW r \in T, NEW o \in new.todo, r[1] = o[1] PROVE r[3] < o[3]
    <3>1. o \in q.todo /\ o # row
      OBVIOUS
    <3>2. CASE r \in S
      BY <1>1, <2>1, <3>1, <3>2
    <3>3. CASE r = row
      <4>1. row[3] <= o[3] /\ row[3] # o[3]
        BY <1>1, <2>1, <3>1, <3>3 DEF WellStamped
      <4>2. o[3] \in Nat
        BY <1>1, <3>1, RowType
      <4> QED BY <1>3, <3>3, <4>1, <4>2
    <3> QED BY <1>2, <3>2, <3>3
  <2> QED BY <2>1
<1>9. NewestHeld(new, T)
  <2>1. /\ row \in ShownIn(new, T)
        /\ \A r \in ShownIn(new, T) : r = row \/ (r \in ShownIn(q, S) /\ r[1] # a)
        /\ \A r \in ShownIn(q, S) : r \in ShownIn(new, T) \/ r[1] = a
    <3>1. \A r \in S : r \in q.rows /\ r[1] \in Apps
      BY RowType
    <3>2. ASSUME NEW r \in S, r[1] = a PROVE r[2] # v
      BY <1>1, <1>2, <3>2 DEF WellStamped
    <3> HIDE DEF a, v, S, T
    <3> QED BY <1>2, <1>3, <1>4, <3>1, <3>2 DEF ShownIn, a, v
  <2>2. \A r \in ShownIn(q, S) : r[3] \in Nat /\ (r[1] = a => r[3] < row[3])
    BY <1>1, RowType DEF ShownIn
  <2>3. CASE row[3] > q.generatedAt
    <3>1. \A r \in ShownIn(q, S) : r[3] <= q.generatedAt
      BY <1>1 DEF NewestHeld
    <3>2. \A r \in ShownIn(new, T) : r[3] <= row[3]
      <4> HIDE DEF S, T
      <4> QED BY <1>3, <2>1, <2>2, <2>3, <3>1
    <3> QED BY <2>1, <2>3, <3>2 DEF NewestHeld
  <2>4. CASE ~(row[3] > q.generatedAt)
    <3>1. row[3] > 0
      BY <1>1, <1>3, SelectionAssumption DEF WellStamped
    <3>2. PICK r \in ShownIn(q, S) :
              q.generatedAt = r[3] /\ \A other \in ShownIn(q, S) : other[3] <= r[3]
      BY <1>1, <1>3, <2>4, <3>1 DEF NewestHeld
    <3>3. r \in ShownIn(new, T)
      BY <1>3, <2>1, <2>2, <2>4, <3>2
    <3>4. \A other \in ShownIn(new, T) : other[3] <= r[3]
      <4> HIDE DEF S, T
      <4> QED BY <1>3, <2>1, <2>2, <2>4, <3>2
    <3>5. new.generatedAt = r[3]
      BY <2>4, <3>2
    <3> QED BY <3>3, <3>4, <3>5 DEF NewestHeld
  <2> QED BY <2>3, <2>4
<1>10. new.todo \subseteq new.rows /\ WellStamped(new.rows)
  BY <1>1
<1> HIDE DEF a, v, S
<1> QED BY <1>7, <1>8, <1>9, <1>10 DEF LoopInv

\* An iteration that does not.
LEMMA SkipKeepsLoop ==
    ASSUME NEW q \in Scan, q.pc = "scan", LoopInv(q), NEW row \in q.todo,
           \A other \in q.todo : other[1] = row[1] => row[3] <= other[3],
           \/ <<row[1], row[2], q.key>> \notin Offers
           \/ q.chosen[row[1]] # 0 /\ ~ (Rank[row[2]] > Rank[q.chosen[row[1]]]),
           NEW new, new.pc = "scan", new.rows = q.rows, new.key = q.key,
           new.todo = q.todo \ {row}, new.chosen = q.chosen,
           new.generatedAt = q.generatedAt
    PROVE  LoopInv(new)
<1> DEFINE a == row[1]
           v == row[2]
           S == q.rows \ q.todo
           T == new.rows \ new.todo
<1>1. /\ q.todo \subseteq q.rows /\ WellStamped(q.rows) /\ row \in q.rows
      /\ \A r \in S, o \in q.todo : r[1] = o[1] => r[3] < o[3]
      /\ \A b \in Apps : BestHeld(q, b, S)
      /\ NewestHeld(q, S)
  BY DEF LoopInv
<1>2. T = S \cup {row} /\ row \notin S
  BY <1>1
<1>3. /\ a \in Apps /\ v \in Nat \ {0} /\ row[3] \in Nat /\ Rank[v] \in Nat
  BY <1>1, RowType
<1>4. \A b \in Apps : BestHeld(new, b, T)
  <2>1. ASSUME NEW b \in Apps, b # a \/ <<a, v, q.key>> \notin Offers
        PROVE  BestHeld(new, b, T)
    <3>1. Candidates(new, b, T) = Candidates(q, b, S)
      BY <1>2, <2>1 DEF Candidates
    <3> HIDE DEF S, T
    <3> QED BY <1>1, <3>1 DEF BestHeld
  <2>2. ASSUME <<a, v, q.key>> \in Offers PROVE BestHeld(new, a, T)
    <3>1. q.chosen[a] # 0 /\ ~ (Rank[v] > Rank[q.chosen[a]])
      BY <2>2
    <3>2. PICK held \in Candidates(q, a, S) :
              /\ q.chosen[a] = held[2]
              /\ \A other \in Candidates(q, a, S) \ {held} : Beats(held, other)
      BY <1>1, <1>3, <3>1, HeldIsTaken
    <3>3. Candidates(new, a, T) = Candidates(q, a, S) \cup {row}
      BY <1>2, <2>2 DEF Candidates
    <3>4. held[3] < row[3] /\ Rank[held[2]] \in Nat
      BY <1>1, <3>2, RowType DEF Candidates
    <3>5. Rank[v] <= Rank[held[2]]
      BY <1>3, <3>1, <3>2, <3>4
    <3>6. Beats(held, row)
      <4>1. held[3] \in Nat
        BY <1>1, <3>2, RowType DEF Candidates
      <4> QED BY <1>3, <3>4, <3>5, <4>1 DEF Beats
    <3> HIDE DEF S, T, a, v
    <3> QED BY <3>2, <3>3, <3>6 DEF BestHeld
  <2> QED BY <2>1, <2>2
<1>5. ShownIn(new, T) = ShownIn(q, S)
  <2>1. q.chosen[a] # v
    <3>1. CASE q.chosen[a] = 0
      BY <1>3, <3>1
    <3>2. CASE q.chosen[a] # 0
      <4>1. PICK held \in Candidates(q, a, S) : q.chosen[a] = held[2]
        <5> HIDE DEF S
        <5>1. S \in SUBSET q.rows /\ BestHeld(q, a, S)
          BY <1>1, <1>3 DEF S
        <5> QED BY <1>3, <3>2, <5>1, HeldIsTaken
      <4>2. held \in q.rows /\ held[1] = a /\ held # row
        BY <1>2, <4>1 DEF Candidates
      <4> QED BY <1>1, <4>1, <4>2 DEF WellStamped
    <3> QED BY <3>1, <3>2
  <2> QED BY <1>2, <2>1 DEF ShownIn
<1>6. NewestHeld(new, T)
  BY <1>1, <1>5 DEF NewestHeld
<1>7. \A r \in T, o \in new.todo : r[1] = o[1] => r[3] < o[3]
  <2>1. ASSUME NEW r \in T, NEW o \in new.todo, r[1] = o[1] PROVE r[3] < o[3]
    <3>1. o \in q.todo /\ o # row
      OBVIOUS
    <3>2. CASE r \in S
      BY <1>1, <2>1, <3>1, <3>2
    <3>3. CASE r = row
      <4>1. row[3] <= o[3] /\ row[3] # o[3]
        BY <1>1, <2>1, <3>1, <3>3 DEF WellStamped
      <4>2. o[3] \in Nat
        BY <1>1, <3>1, RowType
      <4> QED BY <1>3, <3>3, <4>1, <4>2
    <3> QED BY <1>2, <3>2, <3>3
  <2> QED BY <2>1
<1>8. new.todo \subseteq new.rows /\ WellStamped(new.rows)
  BY <1>1
<1> HIDE DEF a, v, S
<1> QED BY <1>4, <1>6, <1>7, <1>8 DEF LoopInv
------------------------------------------------------------------------------
(* The tables, and the inductive invariant.                                *)

\* A version number and a time of publication belong together; and the rows a
\* build returned are those of the tables for as long as the revision stands.
TablesInv ==
    /\ TypeOK
    /\ ForeignKeys
    /\ \A a \in Apps : Stamped(published[a], stamp[a], clock)
    /\ scan.pc # "idle" => scan.key \in Keys
    /\ scan.rev <= revision
    /\ scan.pc # "idle" /\ scan.rev = revision =>
          /\ scan.rows = QueryRows(scan.key, scan.granted)
          /\ scan.entries = app

SelectionInv == TablesInv /\ LoopInv(scan)

\* No build has its type, and nothing to loop over.
LEMMA IdleIsScan == Idle \in Scan /\ LoopInv(Idle)
<1>1. 0 \in 0..MaxRevision /\ 0 \in Times
  BY SourceAssumption, SelectionAssumption DEF Times
<1> QED BY <1>1 DEF Idle, Scan, Rows, LoopInv

\* Before the first build the invariant holds.
LEMMA SelectionInit == Init => SelectionInv
<1> SUFFICES ASSUME Init PROVE SelectionInv
  OBVIOUS
<1>1. SourceTypeOK /\ ForeignKeys
  BY SourceAssumption DEF Init, SourceInit, SourceTypeOK, ForeignKeys
<1>2. 0..Start \subseteq Times /\ Start \in Times
  BY SourceAssumption, SelectionAssumption DEF Times
<1>3. stamp \in [Apps -> [Versions -> Times]] /\ clock \in Times
  BY <1>2 DEF Init
<1>4. scan = Idle /\ revision = 0 /\ \A a \in Apps : Stamped(published[a], stamp[a], clock)
  BY DEF Init, SourceInit
<1>5. scan.pc = "idle" /\ scan.rev <= revision
  BY <1>4 DEF Idle
<1> QED BY <1>1, <1>3, <1>4, <1>5, IdleIsScan DEF SelectionInv, TablesInv, TypeOK

\* What a transaction does leaves a build in progress alone, with what it read.
LEMMA TablesMove ==
    ASSUME SelectionInv, SourceNext, UNCHANGED scan,
           stamp' \in [Apps -> [Versions -> Times]], clock' \in Times,
           \A a \in Apps : Stamped(published'[a], stamp'[a], clock')
    PROVE  SelectionInv'
<1>1. SourceTypeOK' /\ ForeignKeys'
  BY SourceType DEF SelectionInv, TablesInv, TypeOK
<1>2. revision' = revision + 1 /\ revision \in Nat
  BY SourceAssumption DEF SourceNext, UpsertApp, DecideVersion, Import, bumpRevision,
     SelectionInv, TablesInv, TypeOK, SourceTypeOK
<1>3. scan.rev \in Nat
  BY SourceAssumption DEF SelectionInv, TablesInv, TypeOK, Scan
<1>4. scan'.rev <= revision' /\ scan'.rev # revision'
  BY <1>2, <1>3 DEF SelectionInv, TablesInv
<1>5. LoopInv(scan)'
  BY DEF SelectionInv
<1> QED BY <1>1, <1>4, <1>5 DEF SelectionInv, TablesInv, TypeOK

\* A build moves on while the tables stay as they are.
LEMMA ScanMoves ==
    ASSUME SelectionInv, UNCHANGED <<sourceVars, stamp, clock>>,
           scan' \in Scan, LoopInv(scan'), scan.pc # "idle", scan'.key = scan.key,
           scan'.granted = scan.granted, scan'.rev = scan.rev,
           scan'.rows = scan.rows, scan'.entries = scan.entries
    PROVE  SelectionInv'
<1>1. LoopInv(scan)'
  OBVIOUS
<1>2. QueryRows(scan.key, scan.granted)' = QueryRows(scan.key, scan.granted)
  BY DEF QueryRows, sourceVars
<1> QED BY <1>1, <1>2 DEF SelectionInv, TablesInv, TypeOK, SourceTypeOK, ForeignKeys, sourceVars

\* The query returns a row per published version, with its time.
LEMMA QueriedRows ==
    ASSUME TablesInv, NEW k \in Keys, NEW G \in SUBSET Apps
    PROVE  QueryRows(k, G) \in Rows /\ WellStamped(QueryRows(k, G))
<1>1. ASSUME NEW row \in QueryRows(k, G)
      PROVE  /\ row[1] \in Apps /\ row[2] \in Versions /\ row[2] \in published[row[1]]
             /\ row[3] = stamp[row[1]][row[2]] /\ row[3] \in Times
             /\ row = <<row[1], row[2], row[3]>>
  <2>1. PICK e \in Apps \X Versions :
            row = <<e[1], e[2], stamp[e[1]][e[2]]>> /\ e[2] \in published[e[1]]
    BY DEF QueryRows
  <2>2. e[1] \in Apps /\ e[2] \in Versions
    OBVIOUS
  <2>3. stamp[e[1]][e[2]] \in Times
    BY <2>2 DEF TablesInv, TypeOK
  <2> QED BY <2>1, <2>2, <2>3
<1>2. QueryRows(k, G) \in Rows
  BY <1>1 DEF Rows
<1>3. \A row \in QueryRows(k, G) : row[3] >= Second
  BY <1>1, SelectionAssumption DEF TablesInv, Stamped
<1>4. ASSUME NEW row \in QueryRows(k, G), NEW other \in QueryRows(k, G),
             row[1] = other[1], row[2] = other[2] \/ row[3] = other[3]
      PROVE  row = other
  <2>1. Stamped(published[row[1]], stamp[row[1]], clock)
    BY <1>1 DEF TablesInv
  <2>2. row[2] = other[2]
    BY <1>1, <1>4, <2>1 DEF Stamped
  <2> QED BY <1>1, <1>4, <2>2
<1> QED BY <1>2, <1>3, <1>4 DEF WellStamped
\* Every step preserves the invariant.
LEMMA SelectionNext == SelectionInv /\ [Next]_vars => SelectionInv'
<1> SUFFICES ASSUME SelectionInv, [Next]_vars PROVE SelectionInv'
  OBVIOUS
<1>0. /\ scan \in Scan /\ LoopInv(scan) /\ clock \in Times /\ clock \in Nat
      /\ stamp \in [Apps -> [Versions -> Times]]
      /\ \A a \in Apps : Stamped(published[a], stamp[a], clock)
  <2>1. Times \subseteq Nat
    BY SourceAssumption, SelectionAssumption DEF Times
  <2> QED BY <2>1 DEF SelectionInv, TablesInv, TypeOK
<1>1. ASSUME NEW a \in Apps, NEW visibility \in Visibilities, NEW text \in Texts,
             Edit(a, visibility, text)
      PROVE  SelectionInv'
  <2>1. SourceNext
    BY <1>1 DEF Edit, SourceNext
  <2>2. \A b \in Apps : Stamped(published'[b], stamp'[b], clock')
    BY <1>0, <1>1 DEF Edit, UpsertApp
  <2> QED BY <1>0, <1>1, <2>1, <2>2, TablesMove DEF Edit
<1>2. ASSUME NEW a \in Apps, NEW v \in Versions, NEW action \in Actions, NEW at \in Times,
             Decide(a, v, action, at)
      PROVE  SelectionInv'
  <2>1. SourceNext
    BY <1>2 DEF Decide, SourceNext
  <2>2. at \in Nat /\ clock' \in Times /\ clock' \in Nat /\ clock' >= clock
    <3>1. at \in Nat
      BY SourceAssumption, SelectionAssumption DEF Times
    <3> QED BY <1>0, <1>2, <3>1 DEF Decide
  <2>3. stamp' \in [Apps -> [Versions -> Times]]
    <3>1. 0 \in Times
      BY SourceAssumption, SelectionAssumption DEF Times
    <3> DEFINE t == IF action = "publish" THEN at ELSE 0
    <3>2. stamp' = [stamp EXCEPT ![a][v] = t] /\ t \in Times
      BY <1>2, <3>1 DEF Decide
    <3> HIDE DEF t
    <3> QED BY <1>0, <3>2
  <2>4. ASSUME NEW b \in Apps PROVE Stamped(published'[b], stamp'[b], clock')
    <3>1. CASE b = a
      BY <1>2, <3>1 DEF Decide
    <3>2. CASE b # a
      <4>1. published'[b] = published[b] /\ stamp'[b] = stamp[b]
        BY <1>0, <1>2, <3>2 DEF Decide, DecideVersion, SelectionInv, TablesInv, TypeOK,
           SourceTypeOK
      <4>2. Stamped(published[b], stamp[b], clock)
        BY <1>0
      <4>3. \A w \in published[b] : stamp[b][w] \in Nat
        BY <1>0, <4>2, SelectionAssumption DEF Stamped
      <4> QED BY <1>0, <2>2, <4>1, <4>2, <4>3, SelectionAssumption DEF Stamped
    <3> QED BY <3>1, <3>2
  <2> QED BY <1>2, <2>1, <2>2, <2>3, <2>4, TablesMove DEF Decide
<1>3. CASE ImportVersions
  <2>1. SourceNext
    BY <1>3 DEF ImportVersions, SourceNext
  <2> DEFINE new == {e \in Apps \X Versions : e[2] \in published'[e[1]] \ published[e[1]]}
  <2>2. PICK times \in [new -> Second..clock] :
            stamp' = [a \in Apps |-> [v \in Versions |->
                         IF <<a, v>> \in new THEN times[<<a, v>>] ELSE stamp[a][v]]]
    BY <1>3 DEF ImportVersions
  <2>3. Second..clock \subseteq Times
    BY <1>0, SelectionAssumption, SourceAssumption DEF Times
  <2>4. \A e \in new : times[e] \in Times
    <3> HIDE DEF new
    <3> QED BY <2>2, <2>3
  <2>5. stamp' \in [Apps -> [Versions -> Times]]
    <3> HIDE DEF new
    <3> QED BY <1>0, <2>2, <2>4
  <2>6. /\ UNCHANGED <<clock, scan>>
        /\ \A a \in Apps : Stamped(published'[a], stamp'[a], clock')
    BY <1>3 DEF ImportVersions
  <2> QED BY <1>0, <2>1, <2>5, <2>6, TablesMove
<1>4. ASSUME NEW k \in Keys, NEW G \in SUBSET Apps, Query(k, G)
      PROVE  SelectionInv'
  <2> DEFINE rows == QueryRows(k, G)
             new == [Idle EXCEPT !.pc = "scan", !.key = k, !.granted = G, !.rev = revision,
                                 !.entries = app, !.rows = rows, !.todo = rows]
  <2>1. rows \in Rows /\ WellStamped(rows) /\ scan' = new
    BY <1>4, QueriedRows DEF Query, SelectionInv
  <2>3. revision \in 0..MaxRevision /\ app \in [Apps -> AppRow \cup {NoApp}]
    BY DEF SelectionInv, TablesInv, TypeOK, SourceTypeOK
  <2>4. new \in Scan
    <3> HIDE DEF rows
    <3> QED BY <2>1, <2>3, IdleIsScan DEF Idle, Scan
  <2>5. /\ new.pc = "scan" /\ new.key = k /\ new.granted = G /\ new.rev = revision
        /\ new.entries = app /\ new.rows = rows /\ new.todo = rows
        /\ \A a \in Apps : new.chosen[a] = 0
        /\ new.generatedAt = 0
    <3> HIDE DEF rows
    <3> QED BY DEF Idle
  <2>6. LoopInv(new)
    <3> HIDE DEF rows, new
    <3>1. Candidates(new, "a", {}) = {} /\ new.rows \ new.todo = {}
      BY <2>5 DEF Candidates
    <3>2. \A a \in Apps : BestHeld(new, a, {})
      BY <2>5 DEF BestHeld, Candidates
    <3>3. NewestHeld(new, {})
      BY <2>5 DEF NewestHeld, ShownIn
    <3> QED BY <2>1, <2>5, <3>1, <3>2, <3>3 DEF LoopInv
  <2>7. LoopInv(scan)'
    BY <2>1, <2>6
  <2>8. TablesInv'
    <3> HIDE DEF new, rows
    <3>1. UNCHANGED <<revision, app, trans, published, stamp, clock>>
      BY <1>4 DEF Query, sourceVars
    <3>2. scan'.rev <= revision'
      BY <2>1, <2>3, <2>5, <3>1, SourceAssumption
    <3>3. scan'.rows = QueryRows(scan.key, scan.granted)'
      <4>1. scan'.rows = QueryRows(k, G) /\ scan'.key = k /\ scan'.granted = G
        BY <2>1, <2>5 DEF rows
      <4> QED BY <3>1, <4>1 DEF QueryRows
    <3> QED BY <2>1, <2>4, <2>5, <3>1, <3>2, <3>3
        DEF SelectionInv, TablesInv, TypeOK, SourceTypeOK, ForeignKeys
  <2> QED BY <2>7, <2>8 DEF SelectionInv
<1>5. ASSUME NEW row \in scan.todo, ScanRow(row) PROVE SelectionInv'
  <2> DEFINE takes == /\ <<row[1], row[2], scan.key>> \in Offers
                      /\ \/ scan.chosen[row[1]] = 0
                         \/ Rank[row[2]] > Rank[scan.chosen[row[1]]]
             taken == [scan EXCEPT !.todo = @ \ {row}, !.chosen[row[1]] = row[2],
                          !.generatedAt = IF row[3] > @ THEN row[3] ELSE @]
             skipped == [scan EXCEPT !.todo = @ \ {row}]
  <2>1. /\ scan.pc = "scan" /\ UNCHANGED <<sourceVars, stamp, clock>>
        /\ \A other \in scan.todo : other[1] = row[1] => row[3] <= other[3]
        /\ scan' = IF takes THEN taken ELSE skipped
    BY <1>5 DEF ScanRow, IsNext, IsNewerVersion
  <2>2. row \in scan.rows
    BY <1>0, <2>1 DEF LoopInv
  <2>3. row[1] \in Apps /\ row[2] \in Versions /\ row[3] \in Times
    BY <1>0, <2>2, RowType
  <2>4. CASE takes
    <3>1. scan' = taken
      BY <2>1, <2>4
    <3>2. /\ taken.pc = scan.pc /\ taken.key = scan.key /\ taken.granted = scan.granted
          /\ taken.rev = scan.rev /\ taken.entries = scan.entries /\ taken.rows = scan.rows
          /\ taken.todo = scan.todo \ {row} /\ taken.at = scan.at
          /\ taken.chosen = [scan.chosen EXCEPT ![row[1]] = row[2]]
          /\ taken.generatedAt = IF row[3] > scan.generatedAt THEN row[3]
                                 ELSE scan.generatedAt
          /\ taken \in Scan
      <4> HIDE DEF takes
      <4> QED BY <1>0, <2>3 DEF Scan, Rows
    <3>3. LoopInv(taken)
      <4>1. takes
        BY <2>4
      <4> HIDE DEF taken
      <4> QED BY <1>0, <2>1, <3>2, <4>1, TakeKeepsLoop
    <3> HIDE DEF taken, takes
    <3> QED BY <2>1, <3>1, <3>2, <3>3, ScanMoves
  <2>5. CASE ~takes
    <3>1. scan' = skipped
      BY <2>1, <2>5
    <3>2. /\ skipped.pc = scan.pc /\ skipped.key = scan.key
          /\ skipped.granted = scan.granted
          /\ skipped.rev = scan.rev /\ skipped.entries = scan.entries
          /\ skipped.rows = scan.rows /\ skipped.todo = scan.todo \ {row}
          /\ skipped.chosen = scan.chosen /\ skipped.generatedAt = scan.generatedAt
          /\ skipped \in Scan
      <4> HIDE DEF takes
      <4> QED BY <1>0, <2>3 DEF Scan, Rows
    <3>3. LoopInv(skipped)
      <4>1. ~takes
        BY <2>5
      <4> HIDE DEF skipped
      <4> QED BY <1>0, <2>1, <3>2, <4>1, SkipKeepsLoop
    <3> HIDE DEF skipped, takes
    <3> QED BY <2>1, <3>1, <3>2, <3>3, ScanMoves
  <2> QED BY <2>4, <2>5
<1>6. CASE Sign
  <2> DEFINE new == [scan EXCEPT !.pc = "signed", !.at = SignedAt(scan.generatedAt)]
  <2>1. /\ scan.pc = "scan" /\ scan.todo = {} /\ scan' = new
        /\ UNCHANGED <<sourceVars, stamp, clock>>
    BY <1>6 DEF Sign
  <2>2. SignedAt(scan.generatedAt) \in Nat
    <3>1. scan.generatedAt \in Nat
      BY <1>0, SourceAssumption, SelectionAssumption DEF Scan, Times
    <3>2. \A t \in Nat, d \in Nat \ {0} : t \div d \in Nat
      OBVIOUS
    <3> QED BY <3>1, <3>2, SelectionAssumption DEF SignedAt
  <2>3. /\ new.pc = "signed" /\ new.at = SignedAt(new.generatedAt) /\ new.todo = {}
        /\ new.key = scan.key /\ new.granted = scan.granted /\ new.rev = scan.rev
        /\ new.entries = scan.entries /\ new.rows = scan.rows /\ new.todo = scan.todo
        /\ new.chosen = scan.chosen /\ new.generatedAt = scan.generatedAt
        /\ new \in Scan
    BY <1>0, <2>1, <2>2 DEF Scan
  <2>4. LoopInv(new)
    <3> DEFINE S == new.rows \ new.todo
    <3>1. S = scan.rows \ scan.todo
      BY <2>3
    <3>2. \A a \in Apps : BestHeld(scan, a, S)
      BY <1>0, <2>1, <3>1 DEF LoopInv
    <3>3. NewestHeld(scan, S)
      BY <1>0, <2>1, <3>1 DEF LoopInv
    <3> HIDE DEF new, S
    <3>4. \A a \in Apps : Candidates(new, a, S) = Candidates(scan, a, S)
      BY <2>3 DEF Candidates
    <3>5. ShownIn(new, S) = ShownIn(scan, S)
      BY <2>3 DEF ShownIn
    <3>6. \A a \in Apps : BestHeld(new, a, S)
      BY <2>3, <3>2, <3>4 DEF BestHeld
    <3>7. NewestHeld(new, S)
      BY <2>3, <3>3, <3>5 DEF NewestHeld
    <3> QED BY <1>0, <2>1, <2>3, <3>6, <3>7 DEF LoopInv, S
  <2> HIDE DEF new
  <2> QED BY <2>1, <2>3, <2>4, ScanMoves
<1>7. ASSUME scan' = Idle, UNCHANGED <<sourceVars, stamp, clock>> PROVE SelectionInv'
  <2>1. LoopInv(scan)'
    BY <1>7, IdleIsScan
  <2>2. scan'.pc = "idle" /\ scan'.rev = 0 /\ scan' \in Scan
    BY <1>7, IdleIsScan DEF Idle
  <2>3. 0 <= revision
    BY SourceAssumption DEF SelectionInv, TablesInv, TypeOK, SourceTypeOK
  <2> QED BY <1>7, <2>1, <2>2, <2>3
      DEF SelectionInv, TablesInv, TypeOK, SourceTypeOK, ForeignKeys, sourceVars
<1>8. CASE UNCHANGED vars
  <2>1. LoopInv(scan)'
    BY <1>8 DEF vars, SelectionInv
  <2> QED BY <1>8, <2>1 DEF vars, SelectionInv, TablesInv, TypeOK, SourceTypeOK, ForeignKeys,
             sourceVars, QueryRows
<1> QED BY <1>1, <1>2, <1>3, <1>4, <1>5, <1>6, <1>7, <1>8 DEF Next, Return

\* In every reachable state the tables are well-formed and build's loop has
\* chosen, of the rows it has read, the ones the catalogue should list.
THEOREM SelectionInvariant == Spec => []SelectionInv
BY SelectionInit, SelectionNext, PTL DEF Spec

------------------------------------------------------------------------------
(* What a signed document says.                                            *)

\* The tables, the clock and the build keep their types.
THEOREM TypeCorrect == Spec => []TypeOK
<1>1. SelectionInv => TypeOK
  BY DEF SelectionInv, TablesInv
<1> QED BY <1>1, SelectionInvariant, PTL

\* Each app is listed at its greatest runnable version, whatever order its
\* versions were published in, and the one published first of equal ones.
THEOREM NewestIsListed == Spec => []NewestRunnable
<1>1. SelectionInv => NewestRunnable
  <2> SUFFICES ASSUME SelectionInv, scan.pc = "signed", NEW a \in Apps
               PROVE  IF Runnable(a) = {} THEN scan.chosen[a] = 0
                      ELSE \E row \in Runnable(a) :
                              /\ scan.chosen[a] = row[2]
                              /\ \A other \in Runnable(a) \ {row} :
                                    \/ Rank[other[2]] < Rank[row[2]]
                                    \/ Rank[other[2]] = Rank[row[2]] /\ other[3] > row[3]
    BY DEF NewestRunnable
  <2>1. BestHeld(scan, a, scan.rows) /\ Runnable(a) = Candidates(scan, a, scan.rows)
    <3>1. scan.rows \ scan.todo = scan.rows
      BY DEF SelectionInv, LoopInv
    <3> QED BY <3>1 DEF SelectionInv, LoopInv, Runnable, Candidates
  <2> QED BY <2>1 DEF BestHeld, Beats
<1> QED BY <1>1, SelectionInvariant, PTL

\* generated_at is the newest publication the document shows, to the second,
\* and the epoch only for a document that shows none.
THEOREM GeneratedAtIsNewest == Spec => []GeneratedAtNewest
<1>1. SelectionInv => GeneratedAtNewest
  <2> SUFFICES ASSUME SelectionInv, scan.pc = "signed"
               PROVE  IF Shown = {} THEN scan.at = 0
                      ELSE \E row \in Shown :
                              /\ scan.at = row[3] \div Second
                              /\ \A other \in Shown : other[3] <= row[3]
    BY DEF GeneratedAtNewest
  <2>1. /\ NewestHeld(scan, scan.rows) /\ scan.at = SignedAt(scan.generatedAt)
        /\ WellStamped(scan.rows)
    <3>1. scan.rows \ scan.todo = scan.rows
      BY DEF SelectionInv, LoopInv
    <3> QED BY <3>1 DEF SelectionInv, LoopInv
  <2>2. Shown = ShownIn(scan, scan.rows)
    BY DEF Shown, ShownIn
  <2>3. CASE Shown = {}
    BY <2>1, <2>2, <2>3 DEF NewestHeld, SignedAt
  <2>4. CASE Shown # {}
    <3>1. PICK row \in Shown : /\ scan.generatedAt = row[3]
                               /\ \A other \in Shown : other[3] <= row[3]
      BY <2>1, <2>2, <2>4 DEF NewestHeld
    <3>2. row[3] # 0
      <4>1. row \in scan.rows /\ scan \in Scan
        BY <2>2, <3>1 DEF ShownIn, SelectionInv, TablesInv, TypeOK
      <4>2. row[3] >= Second /\ row[3] \in Nat
        BY <2>1, <4>1, RowType DEF WellStamped
      <4> QED BY <4>2, SelectionAssumption
    <3>3. scan.at = row[3] \div Second
      BY <2>1, <3>1, <3>2 DEF SignedAt
    <3> QED BY <2>4, <3>1, <3>3
  <2> QED BY <2>3, <2>4
<1> QED BY <1>1, SelectionInvariant, PTL

\* What CatalogDocument says in one expression is what the loop computes,
\* while the tables are those of the query.
THEOREM LoopComputesDocument == Spec => []AgreesWithDocument
<1>1. SelectionInv => AgreesWithDocument
  <2> SUFFICES ASSUME SelectionInv, scan.pc = "signed", scan.rev = revision, NEW a \in Apps
               PROVE  LET row == CatalogRows(scan.key, scan.granted)[a]
                      IN  /\ row = NoRow <=> scan.chosen[a] = 0
                          /\ row # NoRow => /\ row.entry = scan.entries[a]
                                            /\ Rank[row.version] = Rank[scan.chosen[a]]
    BY DEF AgreesWithDocument
  <2> DEFINE k == scan.key
             G == scan.granted
             visible == app[a].visibility = "public" \/ a \in G
             C == Candidates(scan, a, scan.rows)
  <2>1. /\ scan \in Scan /\ k \in Keys /\ scan.rows = QueryRows(k, G)
        /\ scan.entries = app /\ published[a] \subseteq Versions
        /\ BestHeld(scan, a, scan.rows)
    <3>1. scan.rows \ scan.todo = scan.rows
      BY DEF SelectionInv, LoopInv
    <3> QED BY <3>1 DEF SelectionInv, LoopInv, TablesInv, TypeOK, SourceTypeOK
  <2>2. \A row \in C : visible /\ row[2] \in Offered(a, k)
    <3> SUFFICES ASSUME NEW row \in C PROVE visible /\ row[2] \in Offered(a, k)
      OBVIOUS
    <3>1. row[1] = a /\ <<a, row[2], k>> \in Offers /\ row \in QueryRows(k, G)
      BY <2>1 DEF Candidates
    <3>2. PICK e \in Apps \X Versions :
              /\ row = <<e[1], e[2], stamp[e[1]][e[2]]>> /\ e[2] \in published[e[1]]
              /\ app[e[1]].visibility = "public" \/ e[1] \in G
      BY <3>1 DEF QueryRows
    <3> QED BY <3>1, <3>2 DEF Offered
  <2>3. ASSUME visible, NEW v \in Offered(a, k) PROVE \E row \in C : row[2] = v
    <3>1. v \in Versions /\ v \in published[a] /\ <<a, v, k>> \in Offers
      BY <2>1 DEF Offered
    <3>2. \E p \in PlatformVersions : <<a, v, <<k[1], p>>>> \in Offers
      <4>1. k = <<k[1], k[2]>> /\ k[2] \in PlatformVersions
        BY <2>1 DEF Keys
      <4> QED BY <3>1, <4>1
    <3> DEFINE e == <<a, v>>
               row == <<a, v, stamp[a][v]>>
    <3>3. e \in Apps \X Versions /\ e[1] = a /\ e[2] = v
      BY <3>1
    <3>4. row \in QueryRows(k, G)
      BY <2>3, <3>1, <3>2, <3>3 DEF QueryRows
    <3>5. row \in C /\ row[2] = v
      BY <2>1, <3>1, <3>4 DEF Candidates
    <3> QED BY <3>5
  <2>4. /\ Chosen(a, k) = 0 <=> Offered(a, k) = {}
        /\ Chosen(a, k) # 0 => /\ Chosen(a, k) \in Offered(a, k)
                               /\ \A v \in Offered(a, k) : v <= Chosen(a, k)
    BY <2>1, ChosenIsGreatest
  <2>5. Listed(a, k, G) <=> C # {}
    BY <2>2, <2>3, <2>4 DEF Listed
  <2>6. scan.chosen[a] = 0 <=> C = {}
    BY <2>1, HeldIsTaken
  <2>7. CatalogRows(k, G)[a] = IF C # {} THEN [version |-> Chosen(a, k), entry |-> app[a]]
                               ELSE NoRow
    BY <2>5 DEF CatalogRows
  <2>8. CASE C = {}
    BY <2>6, <2>7, <2>8
  <2>9. CASE C # {}
    <3>1. Chosen(a, k) # 0 /\ visible
      BY <2>5, <2>9 DEF Listed
    <3>2. PICK best \in C : /\ scan.chosen[a] = best[2]
                            /\ \A other \in C \ {best} : Beats(best, other)
      BY <2>1, <2>9 DEF BestHeld
    <3>3. PICK row \in C : row[2] = Chosen(a, k)
      BY <2>3, <2>4, <3>1
    <3>4. /\ best[2] \in Versions /\ row[2] \in Versions
          /\ Rank[best[2]] \in Nat /\ Rank[row[2]] \in Nat
      BY <2>1, RowType DEF Candidates
    <3>5. Rank[best[2]] <= Rank[row[2]]
      BY <2>2, <2>4, <3>1, <3>2, <3>3, <3>4, SelectionAssumption
    <3>6. Rank[row[2]] <= Rank[best[2]]
      <4>1. row = best \/ Beats(best, row)
        BY <3>2
      <4>2. row = best \/ Rank[row[2]] < Rank[best[2]] \/ Rank[row[2]] = Rank[best[2]]
        BY <4>1 DEF Beats
      <4> QED BY <3>4, <4>2
    <3>7. Rank[Chosen(a, k)] = Rank[scan.chosen[a]]
      BY <3>2, <3>3, <3>4, <3>5, <3>6
    <3> QED BY <2>1, <2>6, <2>7, <2>9, <3>1, <3>7 DEF NoRow
  <2> QED BY <2>8, <2>9
<1> QED BY <1>1, SelectionInvariant, PTL

\* A publication takes no app out of any platform's catalogue and lowers no
\* version there; only a yank or a rejection does.
THEOREM PublishingOnlyAdds == Spec => PublishingHidesNothing
<1> DEFINE Greatest == \A a \in Apps, k \in Keys :
               /\ Chosen(a, k) = 0 <=> Offered(a, k) = {}
               /\ Chosen(a, k) # 0 => /\ Chosen(a, k) \in Offered(a, k)
                                      /\ \A v \in Offered(a, k) : v <= Chosen(a, k)
               /\ Offered(a, k) \subseteq Nat
           Lowers == (\A a \in Apps : published[a] \subseteq published'[a]) =>
                        \A a \in Apps, k \in Keys : Chosen(a, k) <= Chosen(a, k)'
<1>1. SelectionInv => Greatest
  <2> SUFFICES ASSUME SelectionInv, NEW a \in Apps, NEW k \in Keys
               PROVE  /\ Chosen(a, k) = 0 <=> Offered(a, k) = {}
                      /\ Chosen(a, k) # 0 => /\ Chosen(a, k) \in Offered(a, k)
                                             /\ \A v \in Offered(a, k) : v <= Chosen(a, k)
                      /\ Offered(a, k) \subseteq Nat
    OBVIOUS
  <2>1. published[a] \subseteq Versions
    BY DEF SelectionInv, TablesInv, TypeOK, SourceTypeOK
  <2>2. Offered(a, k) \subseteq Nat
    BY <2>1, SourceAssumption DEF Offered
  <2> QED BY <2>1, <2>2, ChosenIsGreatest
<1>2. Greatest /\ Greatest' /\ [Next]_vars => [Lowers]_vars
  <2> SUFFICES ASSUME Greatest, Greatest', \A a \in Apps : published[a] \subseteq published'[a],
                      NEW a \in Apps, NEW k \in Keys
               PROVE  Chosen(a, k) <= Chosen(a, k)'
    OBVIOUS
  <2>1. Offered(a, k) \subseteq Offered(a, k)'
    BY DEF Offered
  <2>2. Chosen(a, k) \in Nat /\ Chosen(a, k)' \in Nat
    BY DEF Greatest
  <2>3. CASE Chosen(a, k) = 0
    BY <2>2, <2>3
  <2>4. CASE Chosen(a, k) # 0
    <3>1. Chosen(a, k) \in Offered(a, k)'
      BY <2>1, <2>4
    <3> QED BY <3>1
  <2> QED BY <2>3, <2>4
<1> QED BY <1>1, <1>2, SelectionInvariant, PTL DEF Spec, PublishingHidesNothing
==============================================================================
