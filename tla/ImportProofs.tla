---------------------------- MODULE ImportProofs ----------------------------
(***************************************************************************)
(* Proofs about Import, for every pair of registries and every moment at   *)
(* which a run may read or be interrupted.                                 *)
(***************************************************************************)
EXTENDS Import, WellFoundedInduction, TLAPS

------------------------------------------------------------------------------
(* Tables and their rows.                                                  *)

\* The six tables are read in the order of the code: publishers first, versions
\* third, their events last.
LEMMA TablesAre ==
    /\ Tables = {"publishers", "apps", "versions", "texts", "externals", "events"}
    /\ Len(Order) = 6
    /\ Order[1] = "publishers" /\ Order[3] = "versions" /\ Order[6] = "events"
    /\ \A n \in 1..6 : Order[n] = "versions" => n = 3
    /\ \A n \in 1..6 : Order[n] = "events" => n = 6
BY DEF Tables, Order

\* Ids are primary keys, of rows of the table's type.
AppRows(rows) ==
    /\ \A r \in rows : r.id \in Apps /\ r.entry \in Entries
    /\ \A r, s \in rows : r.id = s.id => r = s

TextRows(rows) ==
    /\ \A r \in rows : r.id \in Apps /\ r.of = r.id /\ r.text \in Texts
    /\ \A r, s \in rows : r.id = s.id => r = s

VersionRow(v) ==
    /\ v = [id |-> v.id, of |-> v.of, number |-> v.number, status |-> v.status]
    /\ v.of \in Apps /\ v.number \in Versions /\ v.status \in Statuses

VersionRows(rows) == \A v \in rows : VersionRow(v)

\* An event's id says what it is about.
EventRows(rows) == \A e \in rows : e = [id |-> e.id, of |-> e.id[1]]

WellFormed(reg) ==
    /\ DOMAIN reg = Tables
    /\ AppRows(reg["apps"]) /\ TextRows(reg["texts"])
    /\ VersionRows(reg["versions"]) /\ EventRows(reg["events"])

\* Every version of these has the event its status comes from among those.
Explained(rows, events) == \A v \in rows : EventOf(v.id, v.status) \in events

\* Translations and versions are of apps that are there; an app has one version
\* of a number.
Referring(reg) ==
    /\ \A r \in reg["texts"] \cup reg["versions"] : r.of \in IdsOf(reg["apps"])
    /\ \A v, w \in reg["versions"] : v.of = w.of /\ v.number = w.number => v = w

\* What a run has read: a status is read before the event that explains it.
RunInv ==
    /\ run = [pc |-> run.pc, dryRun |-> run.dryRun, read |-> run.read, rows |-> run.rows,
              roles |-> run.roles]
    /\ run.pc \in {"idle", "running"} /\ run.read \in 0..6
    /\ WellFormed(run.rows)
    /\ run.read >= 3 => Explained(run.rows["versions"], source["events"])
    /\ run.read = 6 => Explained(run.rows["versions"], run.rows["events"])
    /\ run.pc = "running" /\ ~run.dryRun => revision < MaxRevision

ImportInv ==
    /\ WellFormed(source) /\ Explained(source["versions"], source["events"])
    /\ WellFormed(target) /\ Explained(target["versions"], target["events"])
    /\ Referring(target)
    /\ revision \in 0..MaxRevision
    /\ RunInv
------------------------------------------------------------------------------
(* What a transaction of a registry does to its tables.                    *)

\* The other tables stay.
LEMMA WithIs ==
    ASSUME NEW reg, DOMAIN reg = Tables, NEW table \in Tables, NEW row
    PROVE  /\ DOMAIN With(reg, table, row) = Tables
           /\ With(reg, table, row)[table] = reg[table] \cup {row}
           /\ \A other \in Tables \ {table} : With(reg, table, row)[other] = reg[other]
BY DEF With

\* The event of a status is a row of the trail.
LEMMA EventIs ==
    ASSUME NEW i, NEW status
    PROVE  EventOf(i, status) = [id |-> EventOf(i, status).id, of |-> EventOf(i, status).id[1]]
BY DEF EventOf

\* The rows besides the one that is written, and a translation of an app.
Besides(rows, id) == {r \in rows : r.id # id}
Text(id, t) == [id |-> id, of |-> id, text |-> t]

\* The row of an app is written, and a translation of it unless t = None.
Writes(reg, next, row, t) ==
    /\ row.id \in Apps /\ row.entry \in Entries
    /\ next["apps"] = Besides(reg["apps"], row.id) \cup {row}
    /\ next["texts"] = IF t = None THEN reg["texts"]
                       ELSE Besides(reg["texts"], row.id) \cup {Text(row.id, t)}

\* UpsertApp writes the row of one app, and at most one translation of it.
LEMMA UpsertedIs ==
    ASSUME NEW reg, WellFormed(reg), NEW next \in Upserted(reg)
    PROVE  /\ WellFormed(next)
           /\ \E t \in Texts \cup {None} : \E row : Writes(reg, next, row, t)
           /\ \A table \in Tables \ {"apps", "texts"} : next[table] = reg[table]
<1>1. PICK row : /\ row.id \in Apps /\ row.entry \in Entries
                 /\ \/ next = Put(reg, "apps", row)
                    \/ \E t \in Texts :
                          next = Put(Put(reg, "apps", row), "texts", Text(row.id, t))
  BY DEF Upserted, Text
<1> DEFINE first == Put(reg, "apps", row)
<1>2. /\ DOMAIN first = Tables
      /\ first["apps"] = Besides(reg["apps"], row.id) \cup {row}
      /\ \A table \in Tables \ {"apps"} : first[table] = reg[table]
  <2>1. DOMAIN reg = Tables /\ "apps" \in Tables
    BY TablesAre DEF WellFormed
  <2> QED BY <2>1 DEF Put, Besides
<1>3. PICK t \in Texts \cup {None} :
         \/ t = None /\ next = first
         \/ t # None /\ next = Put(first, "texts", Text(row.id, t))
  BY <1>1, ImportAssumption
<1> HIDE DEF first
<1>4. /\ DOMAIN next = Tables
      /\ next["apps"] = Besides(reg["apps"], row.id) \cup {row}
      /\ next["texts"] = IF t = None THEN reg["texts"]
                         ELSE Besides(reg["texts"], row.id) \cup {Text(row.id, t)}
      /\ \A table \in Tables \ {"apps", "texts"} : next[table] = reg[table]
  <2>1. CASE t = None /\ next = first
    BY <1>2, <2>1, TablesAre
  <2>2. CASE t # None /\ next = Put(first, "texts", Text(row.id, t))
    <3>1. Text(row.id, t).id = row.id
      BY DEF Text
    <3>2. /\ DOMAIN next = Tables
          /\ next["texts"] = Besides(first["texts"], row.id) \cup {Text(row.id, t)}
          /\ \A table \in Tables \ {"texts"} : next[table] = first[table]
      <4>1. "texts" \in Tables
        BY TablesAre
      <4> QED BY <1>2, <2>2, <3>1, <4>1 DEF Put, Besides
    <3> QED BY <1>2, <2>2, <3>2, TablesAre
  <2> QED BY <1>3, <2>1, <2>2
<1>5. AppRows(next["apps"])
  BY <1>1, <1>4 DEF WellFormed, AppRows, Besides
<1>6. TextRows(next["texts"])
  <2>1. CASE t = None
    BY <1>4, <2>1 DEF WellFormed
  <2>2. CASE t # None
    <3>1. t \in Texts /\ TextRows(reg["texts"])
      BY <1>3, <2>2 DEF WellFormed
    <3> QED BY <1>1, <1>4, <2>2, <3>1 DEF TextRows, Besides, Text
  <2> QED BY <2>1, <2>2
<1>7. WellFormed(next)
  BY <1>4, <1>5, <1>6, TablesAre DEF WellFormed
<1>8. Writes(reg, next, row, t)
  BY <1>1, <1>4 DEF Writes
<1> QED BY <1>4, <1>7, <1>8

\* A submission adds a version under review, under a number that is free, with
\* the event of that status, and touches no publisher, app or text.
LEMMA SubmittedIs ==
    ASSUME NEW reg, WellFormed(reg), NEW ids, NEW next \in Submitted(reg, ids)
    PROVE  /\ WellFormed(next)
           /\ \E v : /\ VersionRow(v) /\ v.status = "in_review" /\ v.of \in IdsOf(reg["apps"])
                     /\ \A w \in reg["versions"] : w.of # v.of \/ w.number # v.number
                     /\ next["versions"] = reg["versions"] \cup {v}
                     /\ next["events"] = reg["events"] \cup {EventOf(v.id, v.status)}
           /\ \A table \in {"publishers", "apps", "texts"} : next[table] = reg[table]
<1> DEFINE free == {v \in [id : ids \ IdsOf(reg["versions"]), of : IdsOf(reg["apps"]),
                           number : Versions, status : {"in_review"}] :
                       ~\E w \in reg["versions"] : w.of = v.of /\ w.number = v.number}
           submitted(v) == With(With(reg, "versions", v), "events", EventOf(v.id, v.status))
<1>1. PICK v \in free : \/ next = submitted(v)
                        \/ next = With(submitted(v), "externals", [id |-> v.of, of |-> v.of])
  BY DEF Submitted
<1>2. /\ VersionRow(v) /\ v.status = "in_review" /\ v.of \in IdsOf(reg["apps"])
      /\ \A w \in reg["versions"] : w.of # v.of \/ w.number # v.number
  BY DEF VersionRow, WellFormed, AppRows, IdsOf, Statuses
<1> HIDE DEF free
<1>3. /\ DOMAIN submitted(v) = Tables
      /\ submitted(v)["versions"] = reg["versions"] \cup {v}
      /\ submitted(v)["events"] = reg["events"] \cup {EventOf(v.id, v.status)}
      /\ \A table \in {"publishers", "apps", "texts"} : submitted(v)[table] = reg[table]
  <2> DEFINE first == With(reg, "versions", v)
  <2>1. /\ DOMAIN first = Tables /\ first["versions"] = reg["versions"] \cup {v}
        /\ \A table \in Tables \ {"versions"} : first[table] = reg[table]
    BY WithIs, TablesAre DEF WellFormed
  <2>2. submitted(v) = With(first, "events", EventOf(v.id, v.status))
    OBVIOUS
  <2> HIDE DEF first, submitted
  <2>3. /\ DOMAIN submitted(v) = Tables
        /\ submitted(v)["events"] = first["events"] \cup {EventOf(v.id, v.status)}
        /\ \A table \in Tables \ {"events"} : submitted(v)[table] = first[table]
    BY <2>1, <2>2, WithIs, TablesAre
  <2> QED BY <2>1, <2>3, TablesAre
<1> HIDE DEF submitted
<1>4. /\ DOMAIN next = Tables
      /\ \A table \in Tables \ {"externals"} : next[table] = submitted(v)[table]
  <2>1. CASE next = submitted(v)
    BY <1>3, <2>1
  <2>2. CASE next = With(submitted(v), "externals", [id |-> v.of, of |-> v.of])
    BY <1>3, <2>2, WithIs, TablesAre
  <2> QED BY <1>1, <2>1, <2>2
<1>5. /\ next["versions"] = reg["versions"] \cup {v}
      /\ next["events"] = reg["events"] \cup {EventOf(v.id, v.status)}
      /\ \A table \in {"publishers", "apps", "texts"} : next[table] = reg[table]
  BY <1>3, <1>4, TablesAre
<1>6. EventRows(next["events"]) /\ VersionRows(next["versions"])
  BY <1>2, <1>5, EventIs DEF WellFormed, EventRows, VersionRows
<1>7. WellFormed(next)
  BY <1>4, <1>5, <1>6 DEF WellFormed
<1> QED BY <1>2, <1>5, <1>7

\* A decision gives one version its new status and writes the event of it.
LEMMA DecidedIs ==
    ASSUME NEW reg, WellFormed(reg), NEW next \in Decided(reg)
    PROVE  /\ WellFormed(next)
           /\ \E v \in reg["versions"], status \in Statuses \ {"in_review"} :
                 /\ next["versions"] = (reg["versions"] \ {v}) \cup {[v EXCEPT !.status = status]}
                 /\ next["events"] = reg["events"] \cup {EventOf(v.id, status)}
           /\ \A table \in Tables \ {"versions", "events"} : next[table] = reg[table]
<1>1. PICK v \in reg["versions"], status \in Statuses \ {"in_review"} :
         next = With([reg EXCEPT !["versions"] = (@ \ {v}) \cup {[v EXCEPT !.status = status]}],
                     "events", EventOf(v.id, status))
  BY DEF Decided
<1> DEFINE first == [reg EXCEPT !["versions"] = (@ \ {v}) \cup {[v EXCEPT !.status = status]}]
           row == [v EXCEPT !.status = status]
<1>2. /\ DOMAIN first = Tables /\ first["versions"] = (reg["versions"] \ {v}) \cup {row}
      /\ \A table \in Tables \ {"versions"} : first[table] = reg[table]
  BY TablesAre DEF WellFormed
<1>3. next = With(first, "events", EventOf(v.id, status))
  BY <1>1
<1>4. VersionRow(row)
  <2>1. VersionRow(v)
    BY DEF WellFormed, VersionRows
  <2> QED BY <2>1 DEF VersionRow
<1>5. VersionRows(first["versions"])
  <2> HIDE DEF row, first
  <2> QED BY <1>2, <1>4 DEF WellFormed, VersionRows
<1> HIDE DEF first
<1>6. /\ DOMAIN next = Tables /\ next["events"] = first["events"] \cup {EventOf(v.id, status)}
      /\ \A table \in Tables \ {"events"} : next[table] = first[table]
  BY <1>2, <1>3, WithIs, TablesAre
<1> HIDE DEF row
<1>7. /\ next["versions"] = (reg["versions"] \ {v}) \cup {row}
      /\ next["events"] = reg["events"] \cup {EventOf(v.id, status)}
      /\ \A table \in Tables \ {"versions", "events"} : next[table] = reg[table]
  BY <1>2, <1>6, TablesAre
<1>8. EventRows(next["events"]) /\ VersionRows(next["versions"])
  <2>1. EventRows(next["events"])
    BY <1>7, EventIs DEF WellFormed, EventRows
  <2> QED BY <1>5, <1>6, <2>1, TablesAre
<1>9. WellFormed(next)
  BY <1>6, <1>7, <1>8, TablesAre DEF WellFormed
<1> QED BY <1>7, <1>9 DEF row

\* Saving a profile touches no other table.
LEMMA ProfiledIs ==
    ASSUME NEW reg, WellFormed(reg), NEW id, NEW tenant, NEW email,
           NEW next \in Profiled(reg, id, tenant, email)
    PROVE  WellFormed(next) /\ \A table \in Tables \ {"publishers"} : next[table] = reg[table]
<1>1. PICK rows : next = [reg EXCEPT !["publishers"] = rows]
  BY DEF Profiled
<1>2. DOMAIN next = Tables /\ \A table \in Tables \ {"publishers"} : next[table] = reg[table]
  BY <1>1 DEF WellFormed
<1> QED BY <1>2, TablesAre DEF WellFormed
------------------------------------------------------------------------------
(* The invariant.                                                          *)

\* A registry that works keeps its rows in order, and its trail complete.
LEMMA WorkKeeps ==
    ASSUME NEW reg, WellFormed(reg), Explained(reg["versions"], reg["events"]), NEW ids,
           NEW next \in Upserted(reg) \cup Submitted(reg, ids) \cup Decided(reg)
    PROVE  /\ WellFormed(next) /\ Explained(next["versions"], next["events"])
           /\ reg["events"] \subseteq next["events"]
           /\ Referring(reg) => Referring(next)
<1>1. CASE next \in Upserted(reg)
  <2>1. PICK t, row : Writes(reg, next, row, t)
    BY <1>1, UpsertedIs
  <2>2. WellFormed(next) /\ \A table \in Tables \ {"apps", "texts"} : next[table] = reg[table]
    BY <1>1, UpsertedIs
  <2>3. next["versions"] = reg["versions"] /\ next["events"] = reg["events"]
    BY <2>2, TablesAre
  <2>4. IdsOf(next["apps"]) = IdsOf(reg["apps"]) \cup {row.id}
    BY <2>1 DEF Writes, IdsOf, Besides
  <2>5. \A r \in next["texts"] : r \in reg["texts"] \/ r.of = row.id
    BY <2>1 DEF Writes, Besides, Text
  <2> QED BY <2>2, <2>3, <2>4, <2>5 DEF Referring
<1>2. CASE next \in Submitted(reg, ids)
  <2>1. PICK v : /\ v.of \in IdsOf(reg["apps"])
                 /\ \A w \in reg["versions"] : w.of # v.of \/ w.number # v.number
                 /\ next["versions"] = reg["versions"] \cup {v}
                 /\ next["events"] = reg["events"] \cup {EventOf(v.id, v.status)}
    BY <1>2, SubmittedIs
  <2>2. WellFormed(next) /\ next["apps"] = reg["apps"] /\ next["texts"] = reg["texts"]
    BY <1>2, SubmittedIs
  <2>3. Explained(next["versions"], next["events"])
    BY <2>1 DEF Explained
  <2>4. Referring(reg) => Referring(next)
    BY <2>1, <2>2 DEF Referring
  <2> QED BY <2>1, <2>2, <2>3, <2>4
<1>3. CASE next \in Decided(reg)
  <2>1. PICK v \in reg["versions"], status \in Statuses \ {"in_review"} :
           /\ next["versions"] = (reg["versions"] \ {v}) \cup {[v EXCEPT !.status = status]}
           /\ next["events"] = reg["events"] \cup {EventOf(v.id, status)}
    BY <1>3, DecidedIs
  <2>2. WellFormed(next) /\ \A table \in Tables \ {"versions", "events"} : next[table] = reg[table]
    BY <1>3, DecidedIs
  <2>3. next["apps"] = reg["apps"] /\ next["texts"] = reg["texts"]
    BY <2>2, TablesAre
  <2> DEFINE row == [v EXCEPT !.status = status]
  <2>4. row.id = v.id /\ row.of = v.of /\ row.number = v.number /\ row.status = status
    <3>1. VersionRow(v)
      BY DEF WellFormed, VersionRows
    <3> QED BY <3>1 DEF VersionRow
  <2> HIDE DEF row
  <2>5. next["versions"] = (reg["versions"] \ {v}) \cup {row}
    BY <2>1 DEF row
  <2>6. Explained(next["versions"], next["events"])
    BY <2>1, <2>4, <2>5 DEF Explained
  <2>7. Referring(reg) => Referring(next)
    BY <2>3, <2>4, <2>5 DEF Referring
  <2> QED BY <2>1, <2>2, <2>6, <2>7
<1> QED BY <1>1, <1>2, <1>3

\* A profile is no row of the other tables.
LEMMA ProfileKeeps ==
    ASSUME NEW reg, WellFormed(reg), NEW id, NEW tenant, NEW email,
           NEW next \in Profiled(reg, id, tenant, email)
    PROVE  /\ WellFormed(next)
           /\ \A table \in {"apps", "versions", "texts", "events"} : next[table] = reg[table]
BY ProfiledIs, TablesAre

\* Rows that are not there already join the rows that are, under keys of their
\* own.
LEMMA MergedRows ==
    ASSUME NEW here, NEW there
    PROVE  /\ here \subseteq Merged(here, there)
           /\ IdsOf(Merged(here, there)) = IdsOf(here) \cup IdsOf(there)
           /\ AppRows(here) /\ AppRows(there) => AppRows(Merged(here, there))
           /\ TextRows(here) /\ TextRows(there) => TextRows(Merged(here, there))
           /\ VersionRows(here) /\ VersionRows(there) => VersionRows(Merged(here, there))
           /\ EventRows(here) /\ EventRows(there) => EventRows(Merged(here, there))
<1>1. here \subseteq Merged(here, there) /\ Merged(here, there) \subseteq here \cup there
  BY DEF Merged
<1>2. IdsOf(Merged(here, there)) = IdsOf(here) \cup IdsOf(there)
  BY DEF Merged, IdsOf
<1>3. \A r \in Merged(here, there) \ here : \A s \in here : r.id # s.id
  BY DEF Merged, IdsOf
<1>4. AppRows(here) /\ AppRows(there) => AppRows(Merged(here, there))
  BY <1>1, <1>3 DEF AppRows
<1>5. TextRows(here) /\ TextRows(there) => TextRows(Merged(here, there))
  BY <1>1, <1>3 DEF TextRows
<1>6. VersionRows(here) /\ VersionRows(there) => VersionRows(Merged(here, there))
  BY <1>1 DEF VersionRows
<1>7. EventRows(here) /\ EventRows(there) => EventRows(Merged(here, there))
  BY <1>1 DEF EventRows
<1> QED BY <1>1, <1>2, <1>4, <1>5, <1>6, <1>7

\* A copied version finds its event here, inserted or there before it.
LEMMA MergedExplained ==
    ASSUME NEW here, NEW there, NEW events, NEW trail, EventRows(events), EventRows(trail),
           Explained(here, events), Explained(there, trail)
    PROVE  Explained(Merged(here, there), Merged(events, trail))
<1> SUFFICES ASSUME NEW v \in Merged(here, there)
             PROVE  EventOf(v.id, v.status) \in Merged(events, trail)
  BY DEF Explained
<1> DEFINE e == EventOf(v.id, v.status)
<1>1. CASE v \in here
  BY <1>1, MergedRows DEF Explained
<1>2. CASE v \in there
  <2>1. e \in trail
    BY <1>2 DEF Explained
  <2>2. CASE e.id \in IdsOf(events)
    <3>1. PICK f \in events : f.id = e.id
      BY <2>2 DEF IdsOf
    <3>2. f = [id |-> f.id, of |-> f.id[1]] /\ e = [id |-> e.id, of |-> e.id[1]]
      BY <2>1 DEF EventRows
    <3>3. f = e
      BY <3>1, <3>2
    <3> QED BY <3>3, MergedRows
  <2>3. CASE e.id \notin IdsOf(events)
    BY <2>1, <2>3 DEF Merged
  <2> QED BY <2>2, <2>3
<1> QED BY <1>1, <1>2 DEF Merged

\* What a run that no statement was refused of makes of the target.
LEMMA CopiedKeeps ==
    ASSUME WellFormed(target), Explained(target["versions"], target["events"]),
           NEW rows, WellFormed(rows), Explained(rows["versions"], rows["events"]),
           Accepted(rows)
    PROVE  /\ WellFormed(Copied(rows)) /\ Referring(Copied(rows))
           /\ Explained(Copied(rows)["versions"], Copied(rows)["events"])
<1> DEFINE copied == Copied(rows)
<1>1. /\ DOMAIN copied = Tables
      /\ \A table \in Tables \ {"publishers"} : copied[table] = Merged(target[table], rows[table])
  BY DEF Copied
<1>2. /\ copied["apps"] = Merged(target["apps"], rows["apps"])
      /\ copied["texts"] = Merged(target["texts"], rows["texts"])
      /\ copied["versions"] = Merged(target["versions"], rows["versions"])
      /\ copied["events"] = Merged(target["events"], rows["events"])
  BY <1>1, TablesAre
<1>3. /\ \A table \in DOMAIN Parent :
            \A r \in copied[table] : r.of \in IdsOf(copied[Parent[table]])
      /\ \A v, w \in copied["versions"] : v.of = w.of /\ v.number = w.number => v = w
  BY DEF Accepted
<1>4. /\ Parent["texts"] = "apps" /\ Parent["versions"] = "apps"
      /\ {"texts", "versions"} \subseteq DOMAIN Parent
  BY DEF Parent
<1> HIDE DEF copied
<1>5. Referring(copied)
  BY <1>3, <1>4 DEF Referring
<1>6. WellFormed(copied)
  BY <1>1, <1>2, MergedRows DEF WellFormed
<1>7. Explained(copied["versions"], copied["events"])
  BY <1>2, MergedExplained DEF WellFormed
<1> QED BY <1>5, <1>6, <1>7 DEF copied

\* What the old registry may hold when the first run is still to come.
LEMMA SourceStarts ==
    ASSUME Init
    PROVE  /\ WellFormed(source) /\ source["versions"] = {} /\ source["events"] = {}
           /\ \A p \in source["publishers"] :
                 /\ p.id \in {Born[n] : n \in 1..Len(Born)}
                 /\ p = [id |-> p.id, tenant |-> p.tenant, slug |-> p.slug, email |-> p.email]
                 /\ p.email \in Emails \cup {None}
<1>1. PICK publishers, apps :
         /\ publishers \in SUBSET [id : {Born[n] : n \in DOMAIN Born}, tenant : {None},
                                   slug : Slugs, email : Emails \cup {None}]
         /\ apps \in SUBSET [id : Apps, of : IdsOf(publishers), slug : AppSlugs,
                             entry : Entries]
         /\ Keyed(apps)
         /\ source = [Empty EXCEPT !["publishers"] = publishers, !["apps"] = apps]
  BY DEF Init
<1>2. /\ DOMAIN source = Tables /\ source["publishers"] = publishers /\ source["apps"] = apps
      /\ \A table \in Tables \ {"publishers", "apps"} : source[table] = {}
  BY <1>1, TablesAre DEF Empty
<1>3. /\ source["versions"] = {} /\ source["events"] = {} /\ source["texts"] = {}
  BY <1>2, TablesAre
<1>4. AppRows(apps)
  BY <1>1 DEF AppRows, Keyed
<1>5. WellFormed(source)
  BY <1>2, <1>3, <1>4 DEF WellFormed, TextRows, VersionRows, EventRows
<1>6. \A p \in publishers :
         /\ p.id \in {Born[n] : n \in 1..Len(Born)}
         /\ p = [id |-> p.id, tenant |-> p.tenant, slug |-> p.slug, email |-> p.email]
         /\ p.email \in Emails \cup {None}
  BY <1>1, ImportAssumption
<1> QED BY <1>2, <1>3, <1>5, <1>6

\* The invariant holds before the first run.
LEMMA ImportStarts == Init => ImportInv
<1> SUFFICES ASSUME Init PROVE ImportInv
  OBVIOUS
<1>1. WellFormed(Empty) /\ Referring(Empty) /\ Explained(Empty["versions"], Empty["events"])
  BY TablesAre DEF Empty, WellFormed, Referring, Explained, AppRows, TextRows, VersionRows,
                   EventRows
<1>2. RunInv
  BY <1>1 DEF Init, RunInv, NoRun
<1>3. revision \in 0..MaxRevision
  BY ImportAssumption DEF Init
<1>4. WellFormed(source) /\ Explained(source["versions"], source["events"])
  BY SourceStarts DEF Explained
<1> QED BY <1>1, <1>2, <1>3, <1>4 DEF Init, ImportInv

\* A run that is over has read nothing.
LEMMA NoRunIsFine == ASSUME run' = NoRun PROVE RunInv'
<1>1. WellFormed(Empty)
  BY TablesAre DEF Empty, WellFormed, AppRows, TextRows, VersionRows, EventRows
<1>2. /\ run'.pc = "idle" /\ run'.dryRun = FALSE /\ run'.read = 0 /\ run'.rows = Empty
      /\ run' = [pc |-> run'.pc, dryRun |-> run'.dryRun, read |-> run'.read,
                 rows |-> run'.rows, roles |-> run'.roles]
  BY DEF NoRun
<1> QED BY <1>1, <1>2 DEF RunInv

\* The old registry goes on; what a run has read of it stays explained.
LEMMA SourceWorksKeeps ==
    ASSUME ImportInv, SourceWorks
    PROVE  ImportInv'
<1>1. /\ WellFormed(source) /\ Explained(source["versions"], source["events"])
      /\ UNCHANGED <<target, revision, run>>
  BY DEF ImportInv, SourceWorks
<1>2. /\ WellFormed(source') /\ Explained(source'["versions"], source'["events"])
      /\ source["events"] \subseteq source'["events"]
  <2>1. CASE \E n \in DOMAIN Born, email \in Emails \cup {None} :
                source' \in Profiled(source, Born[n], None, email)
    <3>1. PICK n \in DOMAIN Born, email \in Emails \cup {None} :
             source' \in Profiled(source, Born[n], None, email)
      BY <2>1
    <3>2. /\ WellFormed(source')
          /\ \A table \in {"apps", "versions", "texts", "events"} : source'[table] = source[table]
      BY <1>1, <3>1, ProfileKeeps
    <3> QED BY <1>1, <3>2
  <2>2. CASE source' \in Upserted(source) \cup Submitted(source, SourceIds) \cup Decided(source)
    BY <1>1, <2>2, WorkKeeps
  <2> QED BY <2>1, <2>2 DEF SourceWorks
<1>3. RunInv'
  BY <1>1, <1>2 DEF ImportInv, RunInv, Explained
<1> QED BY <1>1, <1>2, <1>3 DEF ImportInv, Referring

\* So does this one, between two runs.
LEMMA TargetWorksKeeps ==
    ASSUME ImportInv, TargetWorks \/ TargetPublishes
    PROVE  ImportInv' /\ run.pc = "idle"
<1>1. /\ WellFormed(target) /\ Explained(target["versions"], target["events"])
      /\ Referring(target) /\ UNCHANGED <<source, run>> /\ run.pc = "idle"
  BY DEF ImportInv, TargetWorks, TargetPublishes
<1>2. /\ WellFormed(target') /\ Explained(target'["versions"], target'["events"])
      /\ Referring(target')
  <2>1. CASE \E tenant \in tenants, q \in Local \cup IdsOf(target["publishers"]) :
                target' \in Profiled(target, q, tenant, None)
    <3>1. PICK tenant \in tenants, q \in Local \cup IdsOf(target["publishers"]) :
             target' \in Profiled(target, q, tenant, None)
      BY <2>1
    <3>2. /\ WellFormed(target')
          /\ \A table \in {"apps", "versions", "texts", "events"} : target'[table] = target[table]
      BY <1>1, <3>1, ProfileKeeps
    <3> QED BY <1>1, <3>2 DEF Referring
  <2>2. CASE target' \in Upserted(target) \cup Submitted(target, LocalIds) \cup Decided(target)
    BY <1>1, <2>2, WorkKeeps
  <2> QED BY <2>1, <2>2 DEF TargetWorks, TargetPublishes
<1>3. revision' \in 0..MaxRevision
  BY ImportAssumption DEF ImportInv, TargetWorks, TargetPublishes
<1>4. RunInv'
  BY <1>1 DEF ImportInv, RunInv
<1> QED BY <1>1, <1>2, <1>3, <1>4 DEF ImportInv

\* A table is read as it is committed then: the events after the versions.
LEMMA ReadKeeps ==
    ASSUME ImportInv, NEW table \in Tables, Read(table)
    PROVE  ImportInv'
<1>1. /\ UNCHANGED <<source, target, revision>> /\ run.pc = "running"
      /\ run.read \in 0..5 /\ Order[run.read + 1] = table
      /\ run' = [run EXCEPT !.read = @ + 1, !.rows[table] = source[table],
                            !.roles = IF table = "publishers" THEN roles ELSE @]
  BY TablesAre DEF ImportInv, RunInv, Read
<1> DEFINE rows == [run.rows EXCEPT ![table] = source[table]]
<1>2. /\ run'.pc = run.pc /\ run'.dryRun = run.dryRun /\ run'.read = run.read + 1
      /\ run'.rows = rows
      /\ run' = [pc |-> run'.pc, dryRun |-> run'.dryRun, read |-> run'.read,
                 rows |-> run'.rows, roles |-> run'.roles]
  BY <1>1 DEF ImportInv, RunInv
<1>3. /\ DOMAIN rows = Tables /\ rows[table] = source[table]
      /\ \A other \in Tables \ {table} : rows[other] = run.rows[other]
  BY DEF ImportInv, RunInv, WellFormed
<1> HIDE DEF rows
<1>4. WellFormed(rows)
  <2>1. \A t \in Tables : rows[t] \in {source[t], run.rows[t]}
    BY <1>3
  <2>2. /\ rows["apps"] \in {source["apps"], run.rows["apps"]}
        /\ rows["texts"] \in {source["texts"], run.rows["texts"]}
        /\ rows["versions"] \in {source["versions"], run.rows["versions"]}
        /\ rows["events"] \in {source["events"], run.rows["events"]}
    BY <2>1, TablesAre
  <2> QED BY <1>3, <2>2 DEF ImportInv, RunInv, WellFormed
<1>5. run'.read >= 3 => Explained(rows["versions"], source["events"])
  <2>1. CASE run.read = 2
    <3>1. table = "versions"
      BY <1>1, <2>1, TablesAre
    <3> QED BY <1>3, <3>1 DEF ImportInv
  <2>2. CASE run.read >= 3
    <3>1. table # "versions"
      BY <1>1, <2>2, TablesAre
    <3> QED BY <1>3, <2>2, <3>1, TablesAre DEF ImportInv, RunInv
  <2> QED BY <1>1, <1>2, <2>1, <2>2
<1>6. run'.read = 6 => Explained(rows["versions"], rows["events"])
  <2> SUFFICES ASSUME run.read = 5 PROVE Explained(rows["versions"], rows["events"])
    BY <1>1, <1>2
  <2>1. table = "events"
    BY <1>1, TablesAre
  <2> QED BY <1>2, <1>3, <1>5, <2>1
<1>7. RunInv'
  <2>1. run'.pc = "running" /\ run'.read \in 0..6
    BY <1>1, <1>2
  <2>2. ~run'.dryRun => revision' < MaxRevision
    BY <1>1, <1>2 DEF ImportInv, RunInv
  <2> QED BY <1>1, <1>2, <1>4, <1>5, <1>6, <2>1, <2>2 DEF RunInv
<1> QED BY <1>1, <1>7 DEF ImportInv

\* A run commits what it read, all of it in order.
LEMMA CommitKeeps ==
    ASSUME ImportInv, Commit
    PROVE  ImportInv' /\ revision < MaxRevision
<1>1. /\ run.pc = "running" /\ run.read = 6 /\ ~run.dryRun /\ Accepted(run.rows)
      /\ target' = Copied(run.rows) /\ revision' = revision + 1 /\ run' = NoRun
      /\ source' = source
  BY TablesAre DEF Commit, Bumped
<1>2. revision < MaxRevision /\ revision' \in 0..MaxRevision
  BY <1>1, ImportAssumption DEF ImportInv, RunInv
<1>3. /\ WellFormed(target) /\ Explained(target["versions"], target["events"])
      /\ WellFormed(run.rows) /\ Explained(run.rows["versions"], run.rows["events"])
  BY <1>1 DEF ImportInv, RunInv
<1>4. /\ WellFormed(target') /\ Referring(target')
      /\ Explained(target'["versions"], target'["events"])
  BY <1>1, <1>3, CopiedKeeps
<1> QED BY <1>1, <1>2, <1>4, NoRunIsFine DEF ImportInv

\* Every step of the tool and of both registries keeps ImportInv.
LEMMA ImportNext == ImportInv /\ [Next]_vars => ImportInv'
<1> SUFFICES ASSUME ImportInv, [Next]_vars PROVE ImportInv'
  OBVIOUS
<1>1. ASSUME NEW dryRun \in BOOLEAN, Begin(dryRun) PROVE ImportInv'
  <2>1. UNCHANGED <<source, target, revision>>
    BY <1>1 DEF Begin
  <2>2. run' = [NoRun EXCEPT !.pc = "running", !.dryRun = dryRun]
    BY <1>1 DEF Begin
  <2>3. /\ run'.pc = "running" /\ run'.dryRun = dryRun /\ run'.read = 0 /\ run'.rows = Empty
        /\ run' = [pc |-> run'.pc, dryRun |-> run'.dryRun, read |-> run'.read,
                   rows |-> run'.rows, roles |-> run'.roles]
    BY <2>2 DEF NoRun
  <2>4. WellFormed(Empty)
    BY TablesAre DEF Empty, WellFormed, AppRows, TextRows, VersionRows, EventRows
  <2>5. ~run'.dryRun => revision' < MaxRevision
    <3>1. CASE dryRun = TRUE
      BY <2>3, <3>1
    <3>2. CASE dryRun = FALSE
      BY <1>1, <2>1, <3>2 DEF Begin
    <3> QED BY <3>1, <3>2
  <2>6. RunInv'
    BY <2>3, <2>4, <2>5 DEF RunInv
  <2> QED BY <2>1, <2>6 DEF ImportInv
<1>2. CASE Rollback \/ Interrupt
  BY <1>2, NoRunIsFine DEF Rollback, Interrupt, ImportInv
<1>3. CASE SetUpRoles \/ UNCHANGED vars
  BY <1>3 DEF SetUpRoles, vars, ImportInv, RunInv
<1> QED BY <1>1, <1>2, <1>3, SourceWorksKeeps, TargetWorksKeeps, ReadKeeps, CommitKeeps DEF Next

\* Every status in this registry has the event it comes from: a run reads the
\* trail after the versions, and an event that is there already is the same.
THEOREM EveryStatusIsExplained == Spec => []StatusExplained
<1>1. ImportInv => StatusExplained
  BY DEF ImportInv, Explained, StatusExplained
<1> QED BY <1>1, ImportStarts, ImportNext, PTL DEF Spec

\* No run takes anything but a profile away, or changes it.
THEOREM RunsTakeNothing == Spec => RunsOnlyAdd
<1>1. [Next]_vars => [run.pc = "running" =>
         \A table \in Tables \ {"publishers"} : target[table] \subseteq target'[table]]_vars
  <2> SUFFICES ASSUME Next, run.pc = "running", NEW table \in Tables \ {"publishers"}
               PROVE  target[table] \subseteq target'[table]
    OBVIOUS
  <2>1. CASE Commit
    BY <2>1, MergedRows DEF Commit, Copied
  <2>2. CASE ~Commit
    BY <2>2 DEF Next, SourceWorks, TargetWorks, TargetPublishes, SetUpRoles, Begin, Read, Rollback,
                Interrupt
  <2> QED BY <2>1, <2>2
<1> QED BY <1>1, PTL DEF Spec, RunsOnlyAdd
------------------------------------------------------------------------------
(* Import implements CatalogSource.                                        *)

\* What the catalogue query sees of the tables of a registry.
Shown(reg) == [a \in Apps |-> IF a \in IdsOf(reg["apps"])
                                THEN (CHOOSE r \in reg["apps"] : r.id = a).entry ELSE NoEntry]
Said(reg) == [a \in Apps |-> IF a \in IdsOf(reg["texts"])
                               THEN (CHOOSE r \in reg["texts"] : r.id = a).text ELSE None]
Out(reg) == [a \in Apps |-> {n \in Versions : \E v \in reg["versions"] :
                               v.of = a /\ v.number = n /\ v.status = "published"}]

\* What the catalogue shows of an app is its row's entry, since its id is a key.
LEMMA ShownIs ==
    ASSUME NEW reg, WellFormed(reg), NEW a \in Apps
    PROVE  /\ \A r \in reg["apps"] : r.id = a => Shown(reg)[a] = r.entry
           /\ Shown(reg)[a] = NoEntry <=> a \notin IdsOf(reg["apps"])
           /\ Shown(reg)[a] # NoEntry => Shown(reg)[a] \in Source!AppRow
<1>1. ASSUME NEW r \in reg["apps"], r.id = a
      PROVE  Shown(reg)[a] = r.entry /\ r.entry # NoEntry /\ r.entry \in Source!AppRow
  <2>1. (CHOOSE s \in reg["apps"] : s.id = a) = r
    BY <1>1 DEF WellFormed, AppRows
  <2>2. r.entry \in [visibility : {"public", "private"}, text : Texts]
    BY ImportAssumption DEF WellFormed, AppRows
  <2>3. a \in IdsOf(reg["apps"])
    BY <1>1 DEF IdsOf
  <2>4. r.entry \in Source!AppRow /\ r.entry # NoEntry
    BY <2>2 DEF Source!AppRow, Source!Visibilities, NoEntry
  <2> QED BY <2>1, <2>3, <2>4 DEF Shown
<1>2. a \notin IdsOf(reg["apps"]) => Shown(reg)[a] = NoEntry
  BY DEF Shown
<1>3. a \in IdsOf(reg["apps"]) => \E r \in reg["apps"] : r.id = a
  BY DEF IdsOf
<1> QED BY <1>1, <1>2, <1>3

\* The same of the texts of an app.
LEMMA SaidIs ==
    ASSUME NEW reg, WellFormed(reg), NEW a \in Apps
    PROVE  /\ \A r \in reg["texts"] : r.id = a => Said(reg)[a] = r.text
           /\ Said(reg)[a] = None <=> a \notin IdsOf(reg["texts"])
           /\ Said(reg)[a] \in Texts \cup {None}
<1>1. ASSUME NEW r \in reg["texts"], r.id = a
      PROVE  Said(reg)[a] = r.text /\ r.text \in Texts /\ r.text # None
  <2>1. (CHOOSE s \in reg["texts"] : s.id = a) = r
    BY <1>1 DEF WellFormed, TextRows
  <2>2. r.text \in Texts /\ r.text # None
    BY ImportAssumption DEF WellFormed, TextRows
  <2>3. a \in IdsOf(reg["texts"])
    BY <1>1 DEF IdsOf
  <2> QED BY <2>1, <2>2, <2>3 DEF Said
<1>2. a \notin IdsOf(reg["texts"]) => Said(reg)[a] = None
  BY DEF Said
<1>3. a \in IdsOf(reg["texts"]) => \E r \in reg["texts"] : r.id = a
  BY DEF IdsOf
<1> QED BY <1>1, <1>2, <1>3

\* An app that is not there has neither translations nor versions.
LEMMA SeenTypes ==
    ASSUME NEW reg, WellFormed(reg), Referring(reg)
    PROVE  /\ Shown(reg) \in [Apps -> Source!AppRow \cup {Source!NoApp}]
           /\ Said(reg) \in [Apps -> Texts \cup {None}]
           /\ Out(reg) \in [Apps -> SUBSET Versions]
           /\ \A a \in Apps : Shown(reg)[a] = Source!NoApp
                                 => Said(reg)[a] = None /\ Out(reg)[a] = {}
<1>1. NoEntry = Source!NoApp
  BY DEF NoEntry, Source!NoApp
<1>2. Shown(reg) \in [Apps -> Source!AppRow \cup {Source!NoApp}]
  <2>1. \A a \in Apps : Shown(reg)[a] \in Source!AppRow \cup {Source!NoApp}
    BY <1>1, ShownIs
  <2>2. Shown(reg) = [a \in Apps |-> Shown(reg)[a]]
    BY DEF Shown
  <2> QED BY <2>1, <2>2
<1>3. Said(reg) \in [Apps -> Texts \cup {None}]
  <2>1. \A a \in Apps : Said(reg)[a] \in Texts \cup {None}
    BY SaidIs
  <2>2. Said(reg) = [a \in Apps |-> Said(reg)[a]]
    BY DEF Said
  <2> QED BY <2>1, <2>2
<1>4. Out(reg) \in [Apps -> SUBSET Versions]
  BY DEF Out
<1>5. ASSUME NEW a \in Apps, Shown(reg)[a] = Source!NoApp
      PROVE  Said(reg)[a] = None /\ Out(reg)[a] = {}
  <2>1. a \notin IdsOf(reg["apps"])
    BY <1>1, <1>5, ShownIs
  <2>2. a \notin IdsOf(reg["texts"])
    BY <2>1 DEF Referring, IdsOf, WellFormed, TextRows
  <2>3. Out(reg)[a] = {}
    BY <2>1 DEF Out, Referring
  <2> QED BY <2>2, <2>3, SaidIs
<1> QED BY <1>2, <1>3, <1>4, <1>5

\* Writing the row of an app, with or without a translation, is an upsert.
LEMMA UpsertingIsUpsert ==
    ASSUME ImportInv, target' \in Upserted(target), revision < MaxRevision,
           revision' = revision + 1
    PROVE  Source!SourceNext
<1>1. PICK t \in Texts \cup {None} : \E row : Writes(target, target', row, t)
  BY UpsertedIs DEF ImportInv
<1>2. PICK row : /\ row.id \in Apps /\ row.entry \in Entries
                 /\ target'["apps"] = Besides(target["apps"], row.id) \cup {row}
                 /\ target'["texts"] =
                       IF t = None THEN target["texts"]
                       ELSE Besides(target["texts"], row.id) \cup {Text(row.id, t)}
  BY <1>1 DEF Writes
<1>3. /\ WellFormed(target) /\ WellFormed(target')
      /\ target'["versions"] = target["versions"]
  BY UpsertedIs, TablesAre DEF ImportInv
<1> DEFINE a == row.id
           e == row.entry
<1>4. Shown(target') = [Shown(target) EXCEPT ![a] = e]
  <2>1. Shown(target')[a] = e
    BY <1>2, <1>3, ShownIs
  <2>2. ASSUME NEW b \in Apps \ {a} PROVE Shown(target')[b] = Shown(target)[b]
    <3>1. CASE b \in IdsOf(target["apps"])
      <4>1. PICK r \in target["apps"] : r.id = b
        BY <3>1 DEF IdsOf
      <4>2. r \in target'["apps"]
        BY <1>2, <2>2, <4>1 DEF Besides
      <4> QED BY <1>3, <4>1, <4>2, ShownIs
    <3>2. CASE b \notin IdsOf(target["apps"])
      <4>1. b \notin IdsOf(target'["apps"])
        BY <1>2, <2>2, <3>2 DEF IdsOf, Besides
      <4> QED BY <1>3, <3>2, <4>1, ShownIs
    <3> QED BY <3>1, <3>2
  <2>3. /\ Shown(target') = [b \in Apps |-> Shown(target')[b]]
        /\ Shown(target) = [b \in Apps |-> Shown(target)[b]]
    BY DEF Shown
  <2> HIDE DEF a, e
  <2> QED BY <2>1, <2>2, <2>3
<1>5. Said(target') = [Said(target) EXCEPT ![a] = IF t = None THEN @ ELSE t]
  <2>1. Said(target')[a] = IF t = None THEN Said(target)[a] ELSE t
    <3>1. CASE t = None
      BY <1>2, <3>1 DEF Said
    <3>2. CASE t # None
      <4>1. Text(a, t) \in target'["texts"] /\ Text(a, t).id = a /\ Text(a, t).text = t
        BY <1>2, <3>2 DEF Text
      <4> HIDE DEF a
      <4> QED BY <1>2, <1>3, <3>2, <4>1, SaidIs DEF a
    <3> QED BY <3>1, <3>2
  <2>2. ASSUME NEW b \in Apps \ {a} PROVE Said(target')[b] = Said(target)[b]
    <3>1. CASE b \in IdsOf(target["texts"])
      <4>1. PICK r \in target["texts"] : r.id = b
        BY <3>1 DEF IdsOf
      <4>2. r \in target'["texts"]
        BY <1>2, <2>2, <4>1 DEF Besides
      <4> QED BY <1>3, <4>1, <4>2, SaidIs
    <3>2. CASE b \notin IdsOf(target["texts"])
      <4>1. b \notin IdsOf(target'["texts"])
        BY <1>2, <2>2, <3>2 DEF IdsOf, Besides, Text
      <4> QED BY <1>3, <3>2, <4>1, SaidIs
    <3> QED BY <3>1, <3>2
  <2>3. /\ Said(target') = [b \in Apps |-> Said(target')[b]]
        /\ Said(target) = [b \in Apps |-> Said(target)[b]]
    BY DEF Said
  <2> HIDE DEF a
  <2> QED BY <2>1, <2>2, <2>3
<1>6. Out(target') = Out(target)
  BY <1>3 DEF Out
<1>7. e \in [visibility : {"public", "private"}, text : Texts]
  BY <1>2, ImportAssumption
<1>8. a \in Apps
  BY <1>2
<1> HIDE DEF a, e
<1>9. Shown(target') = [Shown(target) EXCEPT ![a] = [visibility |-> e.visibility, text |-> e.text]]
  <2>1. e = [visibility |-> e.visibility, text |-> e.text]
    BY <1>7
  <2> QED BY <1>4, <2>1
<1>10. Source!UpsertApp(a, e.visibility, e.text, t)
  BY <1>5, <1>6, <1>9
     DEF Source!UpsertApp, Source!bumpRevision, Shown, Said, Out, Row
<1> QED BY <1>7, <1>8, <1>10 DEF Source!SourceNext, Source!Visibilities

\* A decision publishes a version, or takes it out.
LEMMA DecidingIsDecision ==
    ASSUME ImportInv, target' \in Decided(target), revision < MaxRevision,
           revision' = revision + 1
    PROVE  Source!SourceNext
<1>1. PICK v \in target["versions"], status \in Statuses \ {"in_review"} :
         target'["versions"] = (target["versions"] \ {v}) \cup {[v EXCEPT !.status = status]}
  BY DecidedIs DEF ImportInv
<1>2. /\ WellFormed(target) /\ Referring(target)
      /\ target'["apps"] = target["apps"] /\ target'["texts"] = target["texts"]
  BY DecidedIs, TablesAre DEF ImportInv
<1> DEFINE row == [v EXCEPT !.status = status]
           a == v.of
           n == v.number
           action == ActionOf(status)
<1>3. row.of = a /\ row.number = n /\ row.status = status
  BY <1>2 DEF WellFormed, VersionRows, VersionRow
<1>4. a \in Apps /\ n \in Versions /\ a \in IdsOf(target["apps"])
  BY <1>2 DEF WellFormed, VersionRows, VersionRow, Referring
<1>5. action \in Source!Actions /\ (action = "publish" <=> status = "published")
  BY DEF ActionOf, Statuses, Source!Actions
<1>6. \A w \in target["versions"] : w.of = a /\ w.number = n => w = v
  BY <1>2 DEF Referring
<1> HIDE DEF row
<1>7. target'["versions"] = (target["versions"] \ {v}) \cup {row}
  BY <1>1 DEF row
<1>8. Out(target') = [Out(target) EXCEPT ![a] = IF action = "publish" THEN @ \cup {n}
                                                ELSE @ \ {n}]
  <2>1. ASSUME NEW b \in Apps, NEW k \in Versions, b # a \/ k # n
        PROVE  k \in Out(target')[b] <=> k \in Out(target)[b]
    BY <1>3, <1>7, <2>1 DEF Out
  <2>2. n \in Out(target')[a] <=> status = "published"
    BY <1>3, <1>4, <1>6, <1>7 DEF Out
  <2>3. /\ Out(target') \in [Apps -> SUBSET Versions]
        /\ Out(target) \in [Apps -> SUBSET Versions]
    BY DEF Out
  <2> HIDE DEF a, n, action
  <2>4. \A b \in Apps \ {a} : Out(target')[b] = Out(target)[b]
    BY <2>1, <2>3
  <2>5. Out(target')[a] = IF action = "publish" THEN Out(target)[a] \cup {n}
                          ELSE Out(target)[a] \ {n}
    BY <1>4, <1>5, <2>1, <2>2, <2>3
  <2> QED BY <1>4, <2>3, <2>4, <2>5
<1>9. Shown(target') = Shown(target) /\ Said(target') = Said(target)
  BY <1>2 DEF Shown, Said
<1>10. Shown(target)[a] # Source!NoApp
  <2>1. Source!NoApp = NoEntry
    BY DEF NoEntry, Source!NoApp
  <2> QED BY <1>2, <1>4, <2>1, ShownIs
<1>11. Source!DecideVersion(a, n, action)
  <2> HIDE DEF a, n, action
  <2> QED BY <1>8, <1>9, <1>10
        DEF Source!DecideVersion, Source!bumpRevision, Shown, Said, Out, Row
<1> QED BY <1>4, <1>5, <1>11 DEF Source!SourceNext

\* Profiles and submissions are nothing a catalogue would say.
LEMMA WorkIsInvisible ==
    ASSUME ImportInv, TargetWorks
    PROVE  UNCHANGED <<Shown(target), Said(target), Out(target), revision>>
<1>1. revision' = revision /\ WellFormed(target)
  BY DEF TargetWorks, ImportInv
<1>2. CASE \E tenant \in tenants, q \in Local \cup IdsOf(target["publishers"]) :
              target' \in Profiled(target, q, tenant, None)
  <2>1. /\ target'["apps"] = target["apps"] /\ target'["texts"] = target["texts"]
        /\ target'["versions"] = target["versions"]
    BY <1>1, <1>2, ProfileKeeps
  <2> QED BY <1>1, <2>1 DEF Shown, Said, Out
<1>3. CASE target' \in Submitted(target, LocalIds)
  <2>1. target'["apps"] = target["apps"] /\ target'["texts"] = target["texts"]
    BY <1>1, <1>3, SubmittedIs
  <2>2. PICK v : v.status = "in_review" /\ target'["versions"] = target["versions"] \cup {v}
    BY <1>1, <1>3, SubmittedIs
  <2>3. Out(target') = Out(target)
    BY <2>2 DEF Out
  <2> QED BY <1>1, <2>1, <2>3 DEF Shown, Said
<1> QED BY <1>2, <1>3 DEF TargetWorks

\* A run that commits is the import that CatalogSource knows of.
LEMMA CommitIsImport ==
    ASSUME ImportInv, Commit
    PROVE  Source!SourceNext
<1>1. /\ WellFormed(target) /\ WellFormed(target') /\ Referring(target')
      /\ revision < MaxRevision /\ revision' = revision + 1
  BY CommitKeeps DEF ImportInv, Commit, Bumped
<1>2. /\ target["apps"] \subseteq target'["apps"] /\ target["texts"] \subseteq target'["texts"]
      /\ target["versions"] \subseteq target'["versions"]
  BY MergedRows, TablesAre DEF Commit, Copied
<1>3. ASSUME NEW a \in Apps
      PROVE  /\ Shown(target)[a] # Source!NoApp => Shown(target')[a] = Shown(target)[a]
             /\ Said(target)[a] # None => Said(target')[a] # None
             /\ Out(target)[a] \subseteq Out(target')[a]
             /\ Shown(target')[a] = Source!NoApp
                   => Said(target')[a] = None /\ Out(target')[a] = {}
  <2>1. Shown(target)[a] # Source!NoApp => Shown(target')[a] = Shown(target)[a]
    <3>1. Source!NoApp = NoEntry
      BY DEF NoEntry, Source!NoApp
    <3> SUFFICES ASSUME a \in IdsOf(target["apps"])
                 PROVE  Shown(target')[a] = Shown(target)[a]
      BY <1>1, <3>1, ShownIs
    <3>2. PICK r \in target["apps"] : r.id = a
      BY DEF IdsOf
    <3> QED BY <1>1, <1>2, <3>2, ShownIs
  <2>2. Said(target)[a] # None => Said(target')[a] # None
    <3>1. a \in IdsOf(target["texts"]) => a \in IdsOf(target'["texts"])
      BY <1>2 DEF IdsOf
    <3> QED BY <1>1, <3>1, SaidIs
  <2>3. Out(target)[a] \subseteq Out(target')[a]
    BY <1>2 DEF Out
  <2> QED BY <1>1, <2>1, <2>2, <2>3, SeenTypes
<1>4. Source!Import
  <2>1. /\ Shown(target') \in [Apps -> Source!AppRow \cup {Source!NoApp}]
        /\ Said(target') \in [Apps -> Texts \cup {None}]
        /\ Out(target') \in [Apps -> SUBSET Versions]
    BY <1>1, SeenTypes
  <2> QED BY <1>1, <1>3, <2>1 DEF Source!Import, Source!bumpRevision, Shown, Said, Out, Row
<1> QED BY <1>4 DEF Source!SourceNext

\* Every step is a step of CatalogSource, or changes nothing it sees.
LEMMA ImportSteps == ImportInv /\ [Next]_vars => [Source!SourceNext]_(Source!sourceVars)
<1> SUFFICES ASSUME ImportInv, [Next]_vars
             PROVE  \/ Source!SourceNext
                    \/ UNCHANGED <<Shown(target), Said(target), Out(target), revision>>
  BY DEF Source!sourceVars, Shown, Said, Out, Row
<1>1. CASE TargetPublishes
  BY <1>1, UpsertingIsUpsert, DecidingIsDecision DEF TargetPublishes
<1>2. CASE UNCHANGED <<target, revision>>
  BY <1>2
<1>3. SourceWorks \/ SetUpRoles \/ Rollback \/ Interrupt \/ (\E dryRun \in BOOLEAN : Begin(dryRun))
         \/ (\E table \in Tables : Read(table)) \/ UNCHANGED vars
      => UNCHANGED <<target, revision>>
  BY DEF SourceWorks, SetUpRoles, Rollback, Interrupt, Begin, Read, vars
<1> QED BY <1>1, <1>2, <1>3, WorkIsInvisible, CommitIsImport DEF Next

\* The import tool, and a registry at work between its runs, change nothing
\* that a catalogue would say without moving the revision in the same commit.
THEOREM ImportImplementsSource == Spec => ImplementsSource
<1>1. Init => Source!SourceInit
  <2> SUFFICES ASSUME Init PROVE Source!SourceInit
    OBVIOUS
  <2>1. WellFormed(target) /\ Referring(target)
    BY ImportStarts DEF ImportInv
  <2>2. /\ Shown(target) \in [Apps -> Source!AppRow \cup {Source!NoApp}]
        /\ Said(target) \in [Apps -> Texts \cup {None}]
        /\ Out(target) \in [Apps -> SUBSET Versions]
        /\ \A a \in Apps : Shown(target)[a] = Source!NoApp
                              => Said(target)[a] = None /\ Out(target)[a] = {}
    BY <2>1, SeenTypes
  <2> QED BY <2>2 DEF Init, Source!SourceInit, Shown, Said, Out, Row
<1> QED BY <1>1, ImportStarts, ImportNext, ImportSteps, PTL
        DEF Spec, ImplementsSource, Source!SourceSpec
------------------------------------------------------------------------------
(* The loop over the publishers.                                           *)

\* One turn of the loop.
Turn(s, rows, n) ==
    IF Born[n] \notin IdsOf(rows["publishers"]) THEN s
    ELSE WritePublisher(s, CHOOSE p \in rows["publishers"] : p.id = Born[n])

\* What the loop has made of its start after each of its first k turns.
Turns(f, rows, k) ==
    f = [n \in 0..k |-> IF n = 0 THEN Loop ELSE Turn(f[n - 1], rows, n)]

\* However many publishers there are, the loop ends.
LEMMA LoopEnds ==
    ASSUME NEW rows, NEW k \in Nat
    PROVE  \E f : Turns(f, rows, k)
<1> DEFINE Stuck == {j \in Nat : ~ \E f : Turns(f, rows, j)}
<1> SUFFICES ASSUME Stuck # {} PROVE FALSE
  OBVIOUS
<1>1. PICK j \in Stuck : \A i \in Stuck : <<i, j>> \notin OpToRel(<, Nat)
  BY WFMin, NatLessThanWellFounded
<1>2. j \in Nat /\ ~ \E f : Turns(f, rows, j)
  OBVIOUS
<1>3. \A i \in Nat : i < j => \E f : Turns(f, rows, i)
  BY <1>1 DEF OpToRel
<1> HIDE DEF Stuck
<1>4. CASE j = 0
  <2> DEFINE f == [n \in 0..0 |-> Loop]
  <2>1. Turns(f, rows, 0)
    BY DEF Turns
  <2> QED BY <1>2, <1>4, <2>1
<1>5. CASE j # 0
  <2>1. j - 1 \in Nat /\ j - 1 < j
    BY <1>2, <1>5
  <2>2. PICK f : Turns(f, rows, j - 1)
    BY <1>3, <2>1
  <2> DEFINE g == [n \in 0..j |-> IF n < j THEN f[n] ELSE Turn(f[j - 1], rows, j)]
  <2>3. \A n \in 0..(j - 1) : f[n] = IF n = 0 THEN Loop ELSE Turn(f[n - 1], rows, n)
    BY <2>2 DEF Turns
  <2>4. ASSUME NEW n \in 0..j
        PROVE  g[n] = IF n = 0 THEN Loop ELSE Turn(g[n - 1], rows, n)
    <3>1. CASE n = 0
      BY <1>2, <1>5, <2>1, <2>3, <3>1
    <3>2. CASE n # 0 /\ n < j
      <4>1. n \in 0..(j - 1) /\ n - 1 \in 0..j /\ n - 1 < j
        BY <1>2, <3>2
      <4>2. g[n] = f[n] /\ g[n - 1] = f[n - 1]
        BY <3>2, <4>1
      <4> QED BY <2>3, <3>2, <4>1, <4>2
    <3>3. CASE n = j
      <4>1. j - 1 \in 0..j /\ j \in 0..j
        BY <1>2, <2>1
      <4>2. g[j] = Turn(f[j - 1], rows, j) /\ g[j - 1] = f[j - 1]
        BY <2>1, <4>1
      <4> QED BY <1>5, <3>3, <4>2
    <3> QED BY <1>2, <3>1, <3>2, <3>3
  <2>5. g = [n \in 0..j |-> g[n]]
    OBVIOUS
  <2> HIDE DEF g
  <2>6. Turns(g, rows, j)
    BY <2>4, <2>5 DEF Turns
  <2> QED BY <1>2, <2>6
<1> QED BY <1>4, <1>5

\* The loop is its turns, one after the other.
LEMMA PublishersIs ==
    ASSUME NEW rows
    PROVE  \E f : Turns(f, rows, Len(Born)) /\ Publishers(rows) = f[Len(Born)]
<1> DEFINE after == CHOOSE f : Turns(f, rows, Len(Born))
<1>1. Turns(after, rows, Len(Born))
  BY LoopEnds, ImportAssumption
<1>2. Publishers(rows) = after[Len(Born)]
  BY DEF Publishers, Turns, Turn
<1> QED BY <1>1, <1>2

\* Profiles have their fields.
ProfileRow(p) ==
    /\ p = [id |-> p.id, tenant |-> p.tenant, slug |-> p.slug, email |-> p.email]
    /\ p.email \in Emails \cup {None}

\* The owner of a profile, where there is an e-mail, can act for its tenant, as
\* an admin if the run found that the tenant has the role.
CanAct(s, p) ==
    p.email # None =>
        /\ p.email \in s.users
        /\ <<p.tenant, p.email>> \in s.members
        /\ p.tenant \in run.roles => <<p.tenant, p.email>> \in s.admins

\* The publishers that were read and whose turn comes after the k-th.
Waiting(rows, k) == {Born[n] : n \in (k + 1)..Len(Born)} \cap IdsOf(rows["publishers"])

LoopRow(s) ==
    s = [ok |-> s.ok, tenants |-> s.tenants, users |-> s.users, members |-> s.members,
         admins |-> s.admins, publishers |-> s.publishers]

\* What is right after the k-th turn of the loop: whoever cannot act for a
\* publisher is the owner of one whose turn is to come.
TurnInv(s, rows, k) ==
    /\ LoopRow(s)
    /\ \A p \in s.publishers :
          /\ ProfileRow(p)
          /\ p.email # None => p.id \in IdsOf(rows["publishers"])
          /\ CanAct(s, p) \/ p.id \in Waiting(rows, k)

\* Tenant, account and membership come before the profile that needs them.
LEMMA OwnedIs ==
    ASSUME NEW s, LoopRow(s), NEW p, ProfileRow(p)
    PROVE  LET o == Owned(EnsureTenant(s, p), p)
           IN  /\ LoopRow(o)
               /\ s.users \subseteq o.users /\ s.members \subseteq o.members
               /\ s.admins \subseteq o.admins
               /\ CanAct(o, [p EXCEPT !.tenant = p.slug])
<1> DEFINE e == EnsureTenant(s, p)
           o == Owned(e, p)
           row == [p EXCEPT !.tenant = p.slug]
<1>1. /\ e = [ok |-> s.ok, tenants |-> s.tenants \cup {p.slug}, users |-> s.users,
              members |-> s.members, admins |-> s.admins, publishers |-> s.publishers]
  BY DEF EnsureTenant, LoopRow
<1>2. row.tenant = p.slug /\ row.email = p.email
  BY DEF ProfileRow
<1> HIDE DEF e, row
<1>3. CASE p.email = None
  <2>1. o = e
    BY <1>3 DEF Owned
  <2> HIDE DEF o
  <2>2. LoopRow(o) /\ o.users = s.users /\ o.members = s.members /\ o.admins = s.admins
    BY <1>1, <2>1 DEF LoopRow
  <2>3. CanAct(o, row)
    BY <1>2, <1>3 DEF CanAct
  <2> QED BY <2>2, <2>3 DEF e, o, row
<1>4. CASE p.email # None
  <2> DEFINE pair == <<p.slug, p.email>>
  <2>1. o = [ok |-> s.ok, tenants |-> s.tenants \cup {p.slug},
             users |-> s.users \cup {p.email}, members |-> s.members \cup {pair},
             admins |-> s.admins \cup Granted(pair),
             publishers |-> s.publishers]
    BY <1>1, <1>4 DEF Owned, Joins, EnsureUser
  <2>2. p.slug \in run.roles => pair \in Granted(pair)
    BY <1>4 DEF ProfileRow, Granted
  <2> HIDE DEF o
  <2>3. /\ o.users = s.users \cup {p.email} /\ o.members = s.members \cup {pair}
        /\ o.admins = s.admins \cup Granted(pair)
        /\ LoopRow(o)
    BY <2>1 DEF LoopRow
  <2>4. CanAct(o, row)
    BY <1>2, <2>2, <2>3 DEF CanAct
  <2> QED BY <2>3, <2>4 DEF e, o, row
<1> QED BY <1>3, <1>4

\* A turn takes nothing from the owners of other publishers, and its own can act
\* since account, tenant and membership are written first.
LEMMA TurnKeeps ==
    ASSUME NEW rows, NEW k \in 1..Len(Born), NEW s, TurnInv(s, rows, k - 1),
           NEW p \in rows["publishers"], ProfileRow(p), p.id = Born[k]
    PROVE  TurnInv(WritePublisher(s, p), rows, k)
<1> DEFINE o == Owned(EnsureTenant(s, p), p)
           row == [p EXCEPT !.tenant = p.slug]
           others == {q \in s.publishers : q.id # p.id}
           w == WritePublisher(s, p)
<1>1. /\ LoopRow(o)
      /\ s.users \subseteq o.users /\ s.members \subseteq o.members
      /\ s.admins \subseteq o.admins /\ CanAct(o, row)
  BY OwnedIs DEF TurnInv
<1>2. PICK ok : w = [o EXCEPT !.ok = ok, !.publishers = others \cup {row}]
  BY DEF WritePublisher
<1>3. ProfileRow(row) /\ row.id = p.id
  BY DEF ProfileRow
<1>4. p.id \in IdsOf(rows["publishers"])
  BY DEF IdsOf
<1> HIDE DEF w, row, o, others
<1>5. /\ LoopRow(w)
      /\ w.users = o.users /\ w.members = o.members /\ w.admins = o.admins
      /\ w.publishers = others \cup {row}
  BY <1>1, <1>2 DEF LoopRow
<1>6. ASSUME NEW q \in w.publishers
      PROVE  /\ ProfileRow(q)
             /\ q.email # None => q.id \in IdsOf(rows["publishers"])
             /\ CanAct(w, q) \/ q.id \in Waiting(rows, k)
  <2>1. CASE q = row
    BY <1>1, <1>3, <1>4, <1>5, <2>1 DEF CanAct
  <2>2. CASE q \in others
    <3>1. /\ q \in s.publishers /\ q.id # Born[k]
          /\ ProfileRow(q) /\ (q.email # None => q.id \in IdsOf(rows["publishers"]))
          /\ CanAct(s, q) \/ q.id \in Waiting(rows, k - 1)
      BY <2>2 DEF others, TurnInv
    <3>2. CASE CanAct(s, q)
      BY <1>1, <1>5, <3>1, <3>2 DEF CanAct
    <3>3. CASE q.id \in Waiting(rows, k - 1)
      <4>1. PICK n \in k..Len(Born) : q.id = Born[n] /\ q.id \in IdsOf(rows["publishers"])
        BY <3>3, ImportAssumption DEF Waiting
      <4>2. n \in (k + 1)..Len(Born)
        BY <3>1, <4>1, ImportAssumption
      <4> QED BY <3>1, <4>1, <4>2 DEF Waiting
    <3> QED BY <3>1, <3>2, <3>3
  <2> QED BY <1>5, <1>6, <2>1, <2>2
<1> QED BY <1>5, <1>6 DEF TurnInv, w

\* The loop ends with nobody waiting.
LEMMA LoopKeeps ==
    ASSUME NEW rows, \A p \in rows["publishers"] : ProfileRow(p), TurnInv(Loop, rows, 0)
    PROVE  TurnInv(Publishers(rows), rows, Len(Born)) /\ Waiting(rows, Len(Born)) = {}
<1>1. PICK f : Turns(f, rows, Len(Born)) /\ Publishers(rows) = f[Len(Born)]
  BY PublishersIs
<1>2. /\ Len(Born) \in Nat
      /\ \A n \in 0..Len(Born) : f[n] = IF n = 0 THEN Loop ELSE Turn(f[n - 1], rows, n)
  BY <1>1, ImportAssumption DEF Turns
<1> DEFINE Wrong == {n \in 0..Len(Born) : ~ TurnInv(f[n], rows, n)}
<1>3. Wrong = {}
  <2> SUFFICES ASSUME Wrong # {} PROVE FALSE
    OBVIOUS
  <2>1. Wrong \subseteq Nat
    BY <1>2
  <2>2. PICK n \in Wrong : \A i \in Wrong : <<i, n>> \notin OpToRel(<, Nat)
    BY <2>1, WFMin, NatLessThanWellFounded
  <2>3. n \in 0..Len(Born) /\ ~ TurnInv(f[n], rows, n)
    BY <2>2
  <2>4. n # 0
    BY <1>2, <2>3
  <2>5. /\ n - 1 \in 0..Len(Born) /\ n - 1 < n /\ n - 1 \in Nat
        /\ n \in Nat /\ n \in 1..Len(Born)
    BY <1>2, <2>3, <2>4
  <2>6. TurnInv(f[n - 1], rows, n - 1)
    BY <2>2, <2>5 DEF OpToRel
  <2>7. f[n] = Turn(f[n - 1], rows, n)
    BY <1>2, <2>3, <2>4
  <2>8. CASE Born[n] \notin IdsOf(rows["publishers"])
    <3>1. f[n] = f[n - 1]
      BY <2>7, <2>8 DEF Turn
    <3>2. Waiting(rows, n - 1) \subseteq Waiting(rows, n)
      <4> SUFFICES ASSUME NEW m \in n..Len(Born), Born[m] \in IdsOf(rows["publishers"])
                   PROVE  Born[m] \in Waiting(rows, n)
        BY <2>5 DEF Waiting
      <4>1. m \in (n + 1)..Len(Born)
        BY <1>2, <2>5, <2>8
      <4> QED BY <4>1 DEF Waiting
    <3> QED BY <2>3, <2>6, <3>1, <3>2 DEF TurnInv
  <2>9. CASE Born[n] \in IdsOf(rows["publishers"])
    <3> DEFINE p == CHOOSE p \in rows["publishers"] : p.id = Born[n]
    <3>1. p \in rows["publishers"] /\ p.id = Born[n]
      BY <2>9 DEF IdsOf
    <3>2. ProfileRow(p) /\ f[n] = WritePublisher(f[n - 1], p)
      BY <2>7, <2>9, <3>1 DEF Turn
    <3> HIDE DEF p
    <3> QED BY <2>3, <2>5, <2>6, <3>1, <3>2, TurnKeeps
  <2> QED BY <2>8, <2>9
<1>4. Len(Born) \in 0..Len(Born) /\ (Len(Born) + 1)..Len(Born) = {}
  BY <1>2
<1> QED BY <1>1, <1>3, <1>4 DEF Waiting
------------------------------------------------------------------------------
(* Owners.                                                                 *)

\* The publishers that have an owner.
Mailed(rows) == IdsOf({p \in rows : p.email # None})

\* Every publisher with an owner came from the source, which still has it, and a
\* run under way has read it, so that its turn comes.
OwnersInv ==
    /\ ImportInv
    /\ \A p \in source["publishers"] \cup run.rows["publishers"] \cup target["publishers"] :
          ProfileRow(p)
    /\ IdsOf(source["publishers"]) \subseteq {Born[n] : n \in 1..Len(Born)}
    /\ IdsOf(run.rows["publishers"]) \subseteq IdsOf(source["publishers"])
    /\ Mailed(target["publishers"]) \subseteq IdsOf(source["publishers"])
    /\ run.read >= 1 => Mailed(target["publishers"]) \subseteq IdsOf(run.rows["publishers"])

\* A profile is new, or has another handle, and no id is lost.
LEMMA ProfiledRows ==
    ASSUME NEW reg, WellFormed(reg), NEW id, NEW tenant, NEW email \in Emails \cup {None},
           \A p \in reg["publishers"] : ProfileRow(p),
           NEW next \in Profiled(reg, id, tenant, email)
    PROVE  /\ \A p \in next["publishers"] :
                 /\ ProfileRow(p)
                 /\ \/ p.id = id /\ p.email = email
                    \/ \E q \in reg["publishers"] : p.id = q.id /\ p.email = q.email
           /\ IdsOf(reg["publishers"]) \subseteq IdsOf(next["publishers"])
<1> DEFINE own == {p \in reg["publishers"] : p.id = id}
           free == Slugs \ {p.slug : p \in reg["publishers"] \ own}
           rows == IF own = {}
                   THEN [id : {id}, tenant : {tenant}, slug : free, email : {email}]
                   ELSE {[p EXCEPT !.slug = slug] : p \in own, slug \in free}
<1>1. PICK row \in rows : next = [reg EXCEPT !["publishers"] = (@ \ own) \cup {row}]
  BY DEF Profiled
<1>2. /\ ProfileRow(row) /\ row.id = id
      /\ \/ row.email = email
         \/ \E q \in reg["publishers"] : row.id = q.id /\ row.email = q.email
  <2>1. CASE own = {}
    <3>1. row \in [id : {id}, tenant : {tenant}, slug : free, email : {email}]
      BY <1>1, <2>1
    <3> HIDE DEF free
    <3> QED BY <3>1 DEF ProfileRow
  <2>2. CASE own # {}
    <3>1. PICK p \in own, slug \in free : row = [p EXCEPT !.slug = slug]
      BY <1>1, <2>2
    <3>2. p \in reg["publishers"] /\ ProfileRow(p) /\ p.id = id
      BY <3>1
    <3> HIDE DEF own, free, rows
    <3>3. row.id = p.id /\ row.email = p.email /\ ProfileRow(row)
      BY <3>1, <3>2 DEF ProfileRow
    <3> QED BY <3>2, <3>3
  <2> QED BY <2>1, <2>2
<1> HIDE DEF rows
<1>3. next["publishers"] = (reg["publishers"] \ own) \cup {row}
  BY <1>1, TablesAre DEF WellFormed
<1>4. IdsOf(reg["publishers"]) \subseteq IdsOf(next["publishers"])
  BY <1>2, <1>3 DEF IdsOf
<1> QED BY <1>2, <1>3, <1>4

\* The tables that a registry's other work leaves alone.
LEMMA WorkLeavesProfiles ==
    ASSUME NEW reg, WellFormed(reg), NEW ids,
           NEW next \in Upserted(reg) \cup Submitted(reg, ids) \cup Decided(reg)
    PROVE  next["publishers"] = reg["publishers"]
<1>1. CASE next \in Upserted(reg)
  BY <1>1, UpsertedIs, TablesAre
<1>2. CASE next \in Submitted(reg, ids)
  BY <1>2, SubmittedIs
<1>3. CASE next \in Decided(reg)
  BY <1>3, DecidedIs, TablesAre
<1> QED BY <1>1, <1>2, <1>3

\* The source has the publishers it had, and perhaps the next one.
LEMMA OwnersSource ==
    ASSUME OwnersInv, SourceWorks
    PROVE  OwnersInv'
<1>1. ImportInv' /\ WellFormed(source) /\ UNCHANGED <<target, run>>
  BY SourceWorksKeeps DEF OwnersInv, ImportInv, SourceWorks
<1>2. /\ \A p \in source'["publishers"] : ProfileRow(p)
      /\ IdsOf(source["publishers"]) \subseteq IdsOf(source'["publishers"])
      /\ IdsOf(source'["publishers"]) \subseteq {Born[n] : n \in 1..Len(Born)}
  <2>1. CASE \E n \in DOMAIN Born, email \in Emails \cup {None} :
                source' \in Profiled(source, Born[n], None, email)
    <3>1. PICK n \in DOMAIN Born, email \in Emails \cup {None} :
             source' \in Profiled(source, Born[n], None, email)
      BY <2>1
    <3>2. /\ \A p \in source'["publishers"] :
                /\ ProfileRow(p)
                /\ p.id = Born[n] \/ p.id \in IdsOf(source["publishers"])
          /\ IdsOf(source["publishers"]) \subseteq IdsOf(source'["publishers"])
      BY <1>1, <3>1, ProfiledRows DEF OwnersInv, IdsOf
    <3>3. Born[n] \in {Born[m] : m \in 1..Len(Born)}
      BY <3>1, ImportAssumption
    <3> QED BY <3>2, <3>3 DEF OwnersInv, IdsOf
  <2>2. CASE source' \in Upserted(source) \cup Submitted(source, SourceIds) \cup Decided(source)
    BY <1>1, <2>2, WorkLeavesProfiles DEF OwnersInv
  <2> QED BY <2>1, <2>2 DEF SourceWorks
<1> QED BY <1>1, <1>2 DEF OwnersInv

\* What the target does between two runs gives no publisher an owner.
LEMMA OwnersTarget ==
    ASSUME OwnersInv, TargetWorks \/ TargetPublishes
    PROVE  OwnersInv'
<1>1. ImportInv' /\ WellFormed(target) /\ UNCHANGED <<source, run>>
  BY TargetWorksKeeps DEF OwnersInv, ImportInv, TargetWorks, TargetPublishes
<1>2. /\ \A p \in target'["publishers"] : ProfileRow(p)
      /\ Mailed(target'["publishers"]) \subseteq Mailed(target["publishers"])
  <2>1. CASE \E tenant \in tenants, q \in Local \cup IdsOf(target["publishers"]) :
                target' \in Profiled(target, q, tenant, None)
    <3>1. \A p \in target'["publishers"] :
             /\ ProfileRow(p)
             /\ \/ p.email = None
                \/ \E q \in target["publishers"] : p.id = q.id /\ p.email = q.email
      BY <1>1, <2>1, ProfiledRows DEF OwnersInv
    <3> QED BY <3>1 DEF Mailed, IdsOf
  <2>2. CASE target' \in Upserted(target) \cup Submitted(target, LocalIds) \cup Decided(target)
    BY <1>1, <2>2, WorkLeavesProfiles DEF OwnersInv
  <2> QED BY <2>1, <2>2 DEF TargetWorks, TargetPublishes
<1> QED BY <1>1, <1>2 DEF OwnersInv

\* A run that commits has had the turn of every publisher with an owner.
LEMMA LoopOfCommit ==
    ASSUME OwnersInv, Commit
    PROVE  LET after == Publishers(run.rows)
           IN  /\ target'["publishers"] = after.publishers
               /\ \A p \in after.publishers :
                     /\ ProfileRow(p) /\ CanAct(after, p)
                     /\ p.email # None => p.id \in IdsOf(run.rows["publishers"])
<1>1. run.read >= 1
  BY TablesAre DEF Commit
<1>2. ASSUME NEW p \in target["publishers"]
      PROVE  /\ ProfileRow(p)
             /\ p.email # None => p.id \in IdsOf(run.rows["publishers"])
             /\ CanAct(Loop, p) \/ p.id \in Waiting(run.rows, 0)
  <2>1. p.email # None => p.id \in IdsOf(run.rows["publishers"])
    BY <1>1 DEF OwnersInv, Mailed, IdsOf
  <2>2. IdsOf(run.rows["publishers"]) \subseteq Waiting(run.rows, 0)
    BY ImportAssumption DEF OwnersInv, Waiting
  <2> QED BY <2>1, <2>2 DEF OwnersInv, CanAct
<1>3. TurnInv(Loop, run.rows, 0)
  <2>1. LoopRow(Loop) /\ Loop.publishers = target["publishers"]
    BY DEF Loop, LoopRow
  <2> QED BY <1>2, <2>1 DEF TurnInv
<1>4. /\ TurnInv(Publishers(run.rows), run.rows, Len(Born))
      /\ Waiting(run.rows, Len(Born)) = {}
  BY <1>3, LoopKeeps DEF OwnersInv
<1>5. target'["publishers"] = Publishers(run.rows).publishers
  BY TablesAre DEF Commit, Copied
<1> QED BY <1>4, <1>5 DEF TurnInv

\* Every step keeps OwnersInv.
LEMMA OwnersNext == OwnersInv /\ [Next]_vars => OwnersInv'
<1> SUFFICES ASSUME OwnersInv, [Next]_vars PROVE OwnersInv'
  OBVIOUS
<1>1. ImportInv'
  BY ImportNext DEF OwnersInv
<1>2. ASSUME UNCHANGED <<source, target>>, run'.rows = Empty, run'.read = 0
      PROVE  OwnersInv'
  <2>1. run'.rows["publishers"] = {}
    BY <1>2, TablesAre DEF Empty
  <2>2. IdsOf(run'.rows["publishers"]) = {}
    BY <2>1 DEF IdsOf
  <2> QED BY <1>1, <1>2, <2>1, <2>2 DEF OwnersInv
<1>3. ASSUME NEW dryRun \in BOOLEAN, Begin(dryRun) PROVE OwnersInv'
  BY <1>2, <1>3 DEF Begin, NoRun
<1>4. ASSUME NEW table \in Tables, Read(table) PROVE OwnersInv'
  <2>1. /\ run' = [run EXCEPT !.read = @ + 1, !.rows[table] = source[table],
                              !.roles = IF table = "publishers" THEN roles ELSE @]
        /\ Order[run.read + 1] = table
        /\ UNCHANGED <<source, target>>
    BY <1>4 DEF Read
  <2>2. run = [pc |-> run.pc, dryRun |-> run.dryRun, read |-> run.read, rows |-> run.rows,
               roles |-> run.roles]
        /\ DOMAIN run.rows = Tables /\ run.read \in Nat
    BY DEF OwnersInv, ImportInv, RunInv, WellFormed
  <2>3. run'.rows = [run.rows EXCEPT ![table] = source[table]] /\ run'.read = run.read + 1
    BY <2>1, <2>2
  <2>4. CASE table = "publishers"
    <3>1. run'.rows["publishers"] = source["publishers"]
      BY <2>2, <2>3, <2>4, TablesAre
    <3> QED BY <1>1, <2>1, <3>1 DEF OwnersInv
  <2>5. CASE table # "publishers"
    <3>1. run'.rows["publishers"] = run.rows["publishers"]
      BY <2>2, <2>3, <2>5, TablesAre
    <3>2. run.read >= 1
      BY <2>1, <2>2, <2>5, TablesAre
    <3> QED BY <1>1, <2>1, <3>1, <3>2 DEF OwnersInv
  <2> QED BY <2>4, <2>5
<1>5. CASE Commit
  <2> DEFINE after == Publishers(run.rows)
  <2>1. /\ target'["publishers"] = after.publishers
        /\ \A p \in after.publishers :
              /\ ProfileRow(p)
              /\ p.email # None => p.id \in IdsOf(run.rows["publishers"])
    BY <1>5, LoopOfCommit
  <2>2. run' = NoRun /\ source' = source
    BY <1>5 DEF Commit
  <2> HIDE DEF after
  <2>3. run'.rows["publishers"] = {} /\ run'.read = 0
    BY <2>2, TablesAre DEF NoRun, Empty
  <2>4. Mailed(target'["publishers"]) \subseteq IdsOf(source["publishers"])
    BY <2>1 DEF OwnersInv, Mailed, IdsOf
  <2>5. IdsOf(run'.rows["publishers"]) = {}
    BY <2>3 DEF IdsOf
  <2> QED BY <1>1, <2>1, <2>2, <2>3, <2>4, <2>5 DEF OwnersInv
<1>6. CASE Rollback \/ Interrupt
  BY <1>2, <1>6 DEF Rollback, Interrupt, NoRun
<1>7. CASE SetUpRoles \/ UNCHANGED vars
  BY <1>1, <1>7 DEF SetUpRoles, vars, OwnersInv
<1> QED BY <1>3, <1>4, <1>5, <1>6, <1>7, OwnersSource, OwnersTarget DEF Next

\* When a run commits, the owner of every publisher that ever came with an
\* e-mail can act for it, whatever the platform set up before the run came to the
\* publishers, and for every number of publishers that its loop goes through.
THEOREM EveryOwnerCanAct == Spec => OwnersCanAct
<1>1. Init => OwnersInv
  <2> SUFFICES ASSUME Init PROVE OwnersInv
    OBVIOUS
  <2>1. target["publishers"] = {} /\ run.rows["publishers"] = {} /\ run.read = 0
    BY TablesAre DEF Init, Empty, NoRun
  <2>2. /\ \A p \in source["publishers"] : ProfileRow(p)
        /\ IdsOf(source["publishers"]) \subseteq {Born[n] : n \in 1..Len(Born)}
    BY SourceStarts DEF ProfileRow, IdsOf
  <2>3. IdsOf(run.rows["publishers"]) = {} /\ Mailed(target["publishers"]) = {}
    BY <2>1 DEF IdsOf, Mailed
  <2> QED BY <2>1, <2>2, <2>3, ImportStarts DEF OwnersInv
<1>2. OwnersInv /\ [Next]_vars =>
         [Finishes => \A p \in target'["publishers"] :
            p.email # None =>
                /\ p.email \in users'
                /\ <<p.tenant, p.email>> \in members'
                /\ p.tenant \in run.roles => <<p.tenant, p.email>> \in admins']_vars
  <2> SUFFICES ASSUME OwnersInv, Next, Finishes, NEW p \in target'["publishers"],
                      p.email # None
               PROVE  /\ p.email \in users'
                      /\ <<p.tenant, p.email>> \in members'
                      /\ p.tenant \in run.roles => <<p.tenant, p.email>> \in admins'
    OBVIOUS
  <2>1. Commit
    BY DEF Finishes, Next, SourceWorks, TargetWorks, TargetPublishes, SetUpRoles, Begin,
           Read, Rollback, Interrupt
  <2>2. CanAct(Publishers(run.rows), p)
    BY <2>1, LoopOfCommit
  <2> QED BY <2>1, <2>2 DEF Commit, CanAct
<1> QED BY <1>1, <1>2, OwnersNext, PTL DEF Spec, OwnersCanAct
==============================================================================
