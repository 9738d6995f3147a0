------------------------- MODULE TransactionsProofs -------------------------
(***************************************************************************)
(* Proofs about Transactions: the locks that the statements take are       *)
(* enough for each transaction to be one step of Publishing, and are taken *)
(* in an order that leaves one way to deadlock, for every set of           *)
(* organisations, apps, versions and handlers.                             *)
(***************************************************************************)
EXTENDS Transactions, PublishingProofs, FiniteSetTheorems

------------------------------------------------------------------------------
(* The order of the statements.                                            *)

\* What an upsert, a submission and a decision may have left.
UpsertLeft ==
    {<<"app", "slug", "texts", "state", "commit">>, <<"slug", "texts", "state", "commit">>,
     <<"texts", "state", "commit">>, <<"state", "commit">>, <<"commit">>}
SubmitLeft ==
    {<<"version", "key", "external", "event", "commit">>,
     <<"version", "key", "event", "commit">>, <<"key", "external", "event", "commit">>,
     <<"key", "event", "commit">>, <<"external", "event", "commit">>,
     <<"event", "commit">>, <<"commit">>}
PublishLeft ==
    {<<"version", "app", "event", "state", "commit">>, <<"app", "event", "state", "commit">>,
     <<"event", "state", "commit">>, <<"state", "commit">>, <<"commit">>}
TurnDownLeft ==
    {<<"version", "event", "state", "commit">>, <<"event", "state", "commit">>,
     <<"state", "commit">>, <<"commit">>}

Left(pc, action) ==
    IF pc = "upsert" THEN UpsertLeft
    ELSE IF pc = "submit" THEN SubmitLeft
    ELSE IF action = "publish" THEN PublishLeft ELSE TurnDownLeft

\* The statements of a transaction, in the order of the rows they lock.
Level == [version |-> 1, app |-> 2, key |-> 2, slug |-> 3, texts |-> 4, external |-> 4,
          event |-> 5, state |-> 6, commit |-> 7, none |-> 0]

\* Where the locks on a row are taken: "app" takes that on the slug as well.
RowLevel == [version |-> 1, app |-> 2, slug |-> 2, text |-> 4, external |-> 4, state |-> 6]

Kinds == {"upsert", "submit", "decide"}

\* A statement other than the COMMIT leaves a later one, and no upsert and no
\* decision skips the revision, nor a publication the app.
Continues(pc, action, todo, left) ==
    /\ todo # << >> /\ todo \in Seq(Statements) /\ Head(todo) \in Statements
    /\ Head(todo) # "commit" =>
          /\ Tail(todo) \in left
          /\ Tail(todo) # << >>
          /\ Level[Head(todo)] < Level[Head(Tail(todo))]
          /\ pc # "submit" /\ Head(Tail(todo)) = "commit" => Head(todo) = "state"
          /\ pc = "decide" /\ action = "publish" /\ Head(todo) = "version"
                => Head(Tail(todo)) = "app"

\* What is left after a statement is again a list of statements of that kind of
\* transaction, and the next of them is of a higher level.
LEMMA LeftInOrder ==
    ASSUME NEW pc \in Kinds, NEW action, NEW todo \in Left(pc, action)
    PROVE  Continues(pc, action, todo, Left(pc, action))
<1>1. CASE pc = "upsert"
  <2>1. Left(pc, action) = UpsertLeft
    BY <1>1 DEF Left
  <2>2. CASE todo = <<"app", "slug", "texts", "state", "commit">>
    BY <1>1, <2>1, <2>2 DEF UpsertLeft, Continues, Statements, Level
  <2>3. CASE todo = <<"slug", "texts", "state", "commit">>
    BY <1>1, <2>1, <2>3 DEF UpsertLeft, Continues, Statements, Level
  <2>4. CASE todo = <<"texts", "state", "commit">>
    BY <1>1, <2>1, <2>4 DEF UpsertLeft, Continues, Statements, Level
  <2>5. CASE todo = <<"state", "commit">>
    BY <1>1, <2>1, <2>5 DEF UpsertLeft, Continues, Statements, Level
  <2>6. CASE todo = <<"commit">>
    BY <1>1, <2>1, <2>6 DEF UpsertLeft, Continues, Statements, Level
  <2> QED BY <2>1, <2>2, <2>3, <2>4, <2>5, <2>6 DEF UpsertLeft
<1>2. CASE pc = "submit"
  <2>1. Left(pc, action) = SubmitLeft
    BY <1>2 DEF Left
  <2>2. CASE todo = <<"version", "key", "external", "event", "commit">>
    BY <1>2, <2>1, <2>2 DEF SubmitLeft, Continues, Statements, Level
  <2>3. CASE todo = <<"version", "key", "event", "commit">>
    BY <1>2, <2>1, <2>3 DEF SubmitLeft, Continues, Statements, Level
  <2>4. CASE todo = <<"key", "external", "event", "commit">>
    BY <1>2, <2>1, <2>4 DEF SubmitLeft, Continues, Statements, Level
  <2>5. CASE todo = <<"key", "event", "commit">>
    BY <1>2, <2>1, <2>5 DEF SubmitLeft, Continues, Statements, Level
  <2>6. CASE todo = <<"external", "event", "commit">>
    BY <1>2, <2>1, <2>6 DEF SubmitLeft, Continues, Statements, Level
  <2>7. CASE todo = <<"event", "commit">>
    BY <1>2, <2>1, <2>7 DEF SubmitLeft, Continues, Statements, Level
  <2>8. CASE todo = <<"commit">>
    BY <1>2, <2>1, <2>8 DEF SubmitLeft, Continues, Statements, Level
  <2> QED BY <2>1, <2>2, <2>3, <2>4, <2>5, <2>6, <2>7, <2>8 DEF SubmitLeft
<1>3. CASE pc = "decide" /\ action = "publish"
  <2>1. Left(pc, action) = PublishLeft
    BY <1>3 DEF Left
  <2>2. CASE todo = <<"version", "app", "event", "state", "commit">>
    BY <1>3, <2>1, <2>2 DEF PublishLeft, Continues, Statements, Level
  <2>3. CASE todo = <<"app", "event", "state", "commit">>
    BY <1>3, <2>1, <2>3 DEF PublishLeft, Continues, Statements, Level
  <2>4. CASE todo = <<"event", "state", "commit">>
    BY <1>3, <2>1, <2>4 DEF PublishLeft, Continues, Statements, Level
  <2>5. CASE todo = <<"state", "commit">>
    BY <1>3, <2>1, <2>5 DEF PublishLeft, Continues, Statements, Level
  <2>6. CASE todo = <<"commit">>
    BY <1>3, <2>1, <2>6 DEF PublishLeft, Continues, Statements, Level
  <2> QED BY <2>1, <2>2, <2>3, <2>4, <2>5, <2>6 DEF PublishLeft
<1>4. CASE pc = "decide" /\ action # "publish"
  <2>1. Left(pc, action) = TurnDownLeft
    BY <1>4 DEF Left
  <2>2. CASE todo = <<"version", "event", "state", "commit">>
    BY <1>4, <2>1, <2>2 DEF TurnDownLeft, Continues, Statements, Level
  <2>3. CASE todo = <<"event", "state", "commit">>
    BY <1>4, <2>1, <2>3 DEF TurnDownLeft, Continues, Statements, Level
  <2>4. CASE todo = <<"state", "commit">>
    BY <1>4, <2>1, <2>4 DEF TurnDownLeft, Continues, Statements, Level
  <2>5. CASE todo = <<"commit">>
    BY <1>4, <2>1, <2>5 DEF TurnDownLeft, Continues, Statements, Level
  <2> QED BY <2>1, <2>2, <2>3, <2>4, <2>5 DEF TurnDownLeft
<1> QED BY <1>1, <1>2, <1>3, <1>4 DEF Kinds
------------------------------------------------------------------------------
(* The inductive invariant.                                                *)

TxRecord == [todo : Seq(Statements), edit : Edits \cup {None},
             slug : Slugs \cup {None}, action : Actions \cup {None},
             entry : Entry \cup {None}, row : Version \cup {None},
             rev : 0..MaxRevision]

\* TxTypeOK without the types of Publishing, and what is left of each
\* transaction; an upsert knows what it writes, a decision what it decides.
TxTyped ==
    /\ slug \in [Apps -> Slugs \cup {None}]
    /\ held \subseteq Writers \X RowNames \X Modes
    /\ tx \in [Writers -> TxRecord]

Underway(w) ==
    LET q == writer[w]
        t == tx[w]
    IN  /\ q.pc = "idle" => t.todo = << >>
        /\ q.pc # "idle" => t.todo \in Left(q.pc, t.action)
        /\ q.pc = "upsert" => t.edit \in Edits /\ t.slug \in Slugs
        /\ q.pc = "decide" => t.action \in Actions

\* Each commit in flight has its place in what the revision leaves of a run.
Busy == {w \in Writers : writer[w].pc # "idle"}

RoomLeft == IsFiniteSet(Busy) /\ revision + Cardinality(Busy) <= MaxRevision

\* No two transactions hold locks on one row that exclude each other.
LocksExclude ==
    \A g, h \in held : g[1] # h[1] /\ g[2] = h[2] => ~Clash(g[3], h[3])

\* A transaction that holds a row has gone on to a later statement.
LocksInOrder == \A h \in held : Level[Pending(h[1])] > RowLevel[h[2][1]]

\* What a transaction has written of the app row is what it would write now,
\* and it has the lock that keeps it so.
EntryKept(w) ==
    LET q == writer[w]
        t == tx[w]
    IN  /\ q.pc = "upsert" /\ Level[Pending(w)] > 2 =>
              /\ <<w, <<"app", q.app>>, "update">> \in held
              /\ t.entry = [owner |-> OwnerAfter(q.app, q.tenant),
                            visibility |-> t.edit.visibility, text |-> t.edit.text,
                            type |-> t.edit.type, provenance |-> apps[q.app].provenance]
        /\ q.pc = "decide" /\ t.action = "publish" /\ Level[Pending(w)] > 2 =>
              /\ <<w, <<"app", q.app>>, "no key update">> \in held
              /\ t.entry = [apps[q.app] EXCEPT !.provenance = q.version]
        /\ q.pc = "submit" \/ (q.pc = "decide" /\ t.action # "publish") => t.entry = None

\* The same of the version row.
RowKept(w) ==
    LET q == writer[w]
        t == tx[w]
        row == versions[q.app][q.version]
    IN  /\ q.pc \in {"submit", "decide"} /\ Level[Pending(w)] > 1 =>
              <<w, <<"version", <<q.app, q.version>>>>, "update">> \in held
        /\ q.pc = "submit" /\ Level[Pending(w)] > 1 =>
              /\ row = NoVersion
              /\ t.row = [status |-> StatusAtSubmission, type |-> q.type,
                          submitter |-> q.tenant]
        /\ q.pc = "decide" /\ Level[Pending(w)] > 1 =>
              /\ row # NoVersion
              /\ t.row = [row EXCEPT !.status = StatusOf(t.action)]
        /\ q.pc = "upsert" => t.row = None

\* The same of the revision.
RevKept(w) ==
    LET q == writer[w]
        t == tx[w]
    IN  /\ q.pc \in {"upsert", "decide"} /\ Pending(w) = "commit" =>
              /\ <<w, <<"state", None>>, "update">> \in held
              /\ t.rev = revision + 1
        /\ q.pc = "submit" => t.rev = 0

Kept(w) == EntryKept(w) /\ RowKept(w) /\ RevKept(w)

TxInv ==
    /\ TypeInv
    /\ TxTyped
    /\ \A w \in Writers : Underway(w) /\ Kept(w)
    /\ RoomLeft
    /\ LocksExclude
    /\ LocksInOrder
------------------------------------------------------------------------------
(* The locks a statement takes.                                            *)

\* A handler with a statement to execute has its inputs.
LEMMA InFlight ==
    ASSUME TxInv, NEW w \in Writers, Pending(w) # "none"
    PROVE  /\ writer[w].pc \in Kinds /\ writer[w].app \in Apps
           /\ writer[w].pc \in {"upsert", "submit"} => writer[w].tenant \in Tenants
           /\ writer[w].pc \in {"submit", "decide"} => writer[w].version \in Versions
           /\ tx[w].todo \in Left(writer[w].pc, tx[w].action)
           /\ Continues(writer[w].pc, tx[w].action, tx[w].todo,
                        Left(writer[w].pc, tx[w].action))
           /\ Pending(w) = Head(tx[w].todo) /\ Pending(w) \in Statements
<1>1. writer[w].pc \in {"idle"} \cup Kinds
  BY DEF TxInv, TypeInv, TypeOK, Kinds
<1>2. tx[w].todo # << >> /\ Pending(w) = Head(tx[w].todo)
  BY DEF Pending
<1>3. Underway(w) /\ WriterAddressed(writer[w])
  BY DEF TxInv, TypeInv
<1>4. writer[w].pc \in Kinds
  BY <1>1, <1>2, <1>3 DEF Underway
<1>5. tx[w].todo \in Left(writer[w].pc, tx[w].action)
  BY <1>3, <1>4 DEF Underway, Kinds
<1>6. Continues(writer[w].pc, tx[w].action, tx[w].todo, Left(writer[w].pc, tx[w].action))
  BY <1>4, <1>5, LeftInOrder
<1>7. Head(tx[w].todo) \in Statements
  BY <1>6 DEF Continues
<1> QED BY <1>2, <1>3, <1>4, <1>5, <1>6, <1>7 DEF WriterAddressed, Kinds

\* Which statements belong to which handler.
LEMMA WhoseStatement ==
    ASSUME TxInv, NEW w \in Writers
    PROVE  /\ Pending(w) \in {"slug", "texts"} => writer[w].pc = "upsert"
           /\ Pending(w) \in {"key", "external"} => writer[w].pc = "submit"
           /\ Pending(w) = "version" => writer[w].pc \in {"submit", "decide"}
           /\ Pending(w) = "app" => writer[w].pc \in {"upsert", "decide"}
           /\ Pending(w) = "event" => writer[w].pc \in {"submit", "decide"}
           /\ Pending(w) = "state" => writer[w].pc \in {"upsert", "decide"}
<1> SUFFICES ASSUME Pending(w) # "none"
             PROVE  /\ Pending(w) \in {"slug", "texts"} => writer[w].pc = "upsert"
                    /\ Pending(w) \in {"key", "external"} => writer[w].pc = "submit"
                    /\ Pending(w) = "version" => writer[w].pc \in {"submit", "decide"}
                    /\ Pending(w) = "app" => writer[w].pc \in {"upsert", "decide"}
                    /\ Pending(w) = "event" => writer[w].pc \in {"submit", "decide"}
                    /\ Pending(w) = "state" => writer[w].pc \in {"upsert", "decide"}
  OBVIOUS
<1>1. /\ writer[w].pc \in Kinds /\ Pending(w) = Head(tx[w].todo)
      /\ tx[w].todo \in Left(writer[w].pc, tx[w].action)
  BY InFlight
<1>2. \A todo \in UpsertLeft : Head(todo) \in {"app", "slug", "texts", "state", "commit"}
  BY DEF UpsertLeft
<1>3. \A todo \in SubmitLeft :
          Head(todo) \in {"version", "key", "external", "event", "commit"}
  BY DEF SubmitLeft
<1>4. \A todo \in PublishLeft \cup TurnDownLeft :
          Head(todo) \in {"version", "app", "event", "state", "commit"}
  BY DEF PublishLeft, TurnDownLeft
<1> QED BY <1>1, <1>2, <1>3, <1>4 DEF Left, Kinds

\* The rows there are.
LEMMA NamesOfRows ==
    /\ \A a \in Apps : {<<"app", a>>, <<"text", a>>, <<"external", a>>} \subseteq RowNames
    /\ \A s \in Slugs : <<"slug", s>> \in RowNames
    /\ \A a \in Apps, v \in Versions : <<"version", <<a, v>>>> \in RowNames
    /\ <<"state", None>> \in RowNames
BY DEF RowNames

\* The rows a statement locks are no later than the statement, and of its own
\* level unless it takes a slug.
LEMMA LocksType ==
    ASSUME TxInv, NEW w \in Writers, NEW l \in Locks(w)
    PROVE  /\ l \in RowNames \X Modes
           /\ Pending(w) \in Statements \ {"event", "commit"}
           /\ RowLevel[l[1][1]] <= Level[Pending(w)]
           /\ Pending(w) # "slug" => RowLevel[l[1][1]] = Level[Pending(w)]
<1> DEFINE a == writer[w].app
<1>1. CASE Pending(w) = "app"
  <2>1. /\ a \in Apps /\ writer[w].pc \in {"upsert", "decide"}
        /\ slug[a] \in Slugs \cup {None}
    BY <1>1, InFlight, WhoseStatement DEF TxInv, TxTyped
  <2>2. \/ l = <<<<"app", a>>, "update">>
        \/ l = <<<<"app", a>>, "no key update">>
        \/ l = <<<<"slug", slug[a]>>, "update">> /\ slug[a] # None
    BY <1>1 DEF Locks
  <2>3. CASE l = <<<<"app", a>>, "update">>
    <3>1. l \in RowNames \X Modes /\ l[1][1] = "app"
      BY <2>1, <2>3, NamesOfRows DEF Modes
    <3> QED BY <1>1, <3>1 DEF Level, RowLevel, Statements
  <2>4. CASE l = <<<<"app", a>>, "no key update">>
    <3>1. l \in RowNames \X Modes /\ l[1][1] = "app"
      BY <2>1, <2>4, NamesOfRows DEF Modes
    <3> QED BY <1>1, <3>1 DEF Level, RowLevel, Statements
  <2>5. CASE l = <<<<"slug", slug[a]>>, "update">> /\ slug[a] # None
    <3>1. l \in RowNames \X Modes /\ l[1][1] = "slug"
      BY <2>1, <2>5, NamesOfRows DEF Modes
    <3> QED BY <1>1, <3>1 DEF Level, RowLevel, Statements
  <2> QED BY <2>2, <2>3, <2>4, <2>5
<1>2. CASE Pending(w) = "slug"
  <2>1. l = <<<<"slug", tx[w].slug>>, "update">> /\ tx[w].slug \in Slugs
    BY <1>2, WhoseStatement DEF Locks, TxInv, Underway
  <2>2. l \in RowNames \X Modes /\ l[1][1] = "slug"
    BY <2>1, NamesOfRows DEF Modes
  <2> QED BY <1>2, <2>2 DEF Level, RowLevel, Statements
<1>3. CASE Pending(w) = "texts"
  <2>1. l = <<<<"text", a>>, "update">> /\ a \in Apps
    BY <1>3, InFlight DEF Locks
  <2>2. l \in RowNames \X Modes /\ l[1][1] = "text"
    BY <2>1, NamesOfRows DEF Modes
  <2> QED BY <1>3, <2>2 DEF Level, RowLevel, Statements
<1>4. CASE Pending(w) = "version"
  <2>1. /\ l = <<<<"version", <<a, writer[w].version>>>>, "update">>
        /\ a \in Apps /\ writer[w].version \in Versions
    BY <1>4, InFlight, WhoseStatement DEF Locks
  <2>2. l \in RowNames \X Modes /\ l[1][1] = "version"
    BY <2>1, NamesOfRows DEF Modes
  <2> QED BY <1>4, <2>2 DEF Level, RowLevel, Statements
<1>5. CASE Pending(w) = "key"
  <2>1. l = <<<<"app", a>>, "key share">> /\ a \in Apps
    BY <1>5, InFlight DEF Locks
  <2>2. l \in RowNames \X Modes /\ l[1][1] = "app"
    BY <2>1, NamesOfRows DEF Modes
  <2> QED BY <1>5, <2>2 DEF Level, RowLevel, Statements
<1>6. CASE Pending(w) = "external"
  <2>1. l = <<<<"external", a>>, "update">> /\ a \in Apps
    BY <1>6, InFlight DEF Locks
  <2>2. l \in RowNames \X Modes /\ l[1][1] = "external"
    BY <2>1, NamesOfRows DEF Modes
  <2> QED BY <1>6, <2>2 DEF Level, RowLevel, Statements
<1>7. CASE Pending(w) = "state"
  <2>1. l = <<<<"state", None>>, "update">>
    BY <1>7 DEF Locks, CounterLock
  <2>2. l \in RowNames \X Modes /\ l[1][1] = "state"
    BY <2>1, NamesOfRows DEF Modes
  <2> QED BY <1>7, <2>2 DEF Level, RowLevel, Statements
<1>8. Pending(w) \in {"app", "slug", "texts", "version", "key", "external", "state"}
  BY DEF Locks
<1> QED BY <1>1, <1>2, <1>3, <1>4, <1>5, <1>6, <1>7, <1>8
------------------------------------------------------------------------------
(* A statement.                                                            *)

\* Where a handler is once it has executed a statement.
LEMMA Proceeds ==
    ASSUME TxInv, NEW w \in Writers, Pending(w) \in Statements \ {"commit"},
           NEW t \in TxRecord, t.todo = tx[w].todo, Goes(w, t)
    PROVE  /\ tx' = [tx EXCEPT ![w] = [t EXCEPT !.todo = Tail(@)]]
           /\ [t EXCEPT !.todo = Tail(@)] \in TxRecord
           /\ tx'[w].todo \in Left(writer[w].pc, tx[w].action)
           /\ tx'[w].edit = t.edit /\ tx'[w].slug = t.slug /\ tx'[w].action = t.action
           /\ tx'[w].entry = t.entry /\ tx'[w].row = t.row /\ tx'[w].rev = t.rev
           /\ \A x \in Writers \ {w} : tx'[x] = tx[x]
           /\ Level[Pending(w)]  < Level[Pending(w)']
           /\ Pending(w)' \in Statements
           /\ writer[w].pc # "submit" /\ Pending(w)' = "commit" => Pending(w) = "state"
           /\ writer[w].pc = "decide" /\ tx[w].action = "publish" /\ Pending(w) = "version"
                => Pending(w)' = "app"
           /\ \A x \in Writers \ {w} : Pending(x)' = Pending(x)
<1> DEFINE new == [t EXCEPT !.todo = Tail(@)]
           todo == tx[w].todo
           left == Left(writer[w].pc, tx[w].action)
<1>1. /\ Continues(writer[w].pc, tx[w].action, todo, left)
      /\ writer[w].pc \in Kinds /\ Pending(w) = Head(todo) /\ todo \in left
  BY InFlight DEF Statements
<1>2. /\ Tail(todo) \in left /\ Tail(todo) # << >>
      /\ Level[Head(todo)] < Level[Head(Tail(todo))]
      /\ writer[w].pc # "submit" /\ Head(Tail(todo)) = "commit" => Head(todo) = "state"
      /\ writer[w].pc = "decide" /\ tx[w].action = "publish" /\ Head(todo) = "version"
            => Head(Tail(todo)) = "app"
  BY <1>1 DEF Continues
<1>3. Tail(todo) \in Seq(Statements) /\ Head(Tail(todo)) \in Statements
  BY <1>1, <1>2, LeftInOrder DEF Continues
<1>4. tx' = [tx EXCEPT ![w] = new]
  BY DEF Goes
<1>5. /\ new \in TxRecord /\ new.todo = Tail(todo) /\ new.edit = t.edit
      /\ new.slug = t.slug /\ new.action = t.action /\ new.entry = t.entry
      /\ new.row = t.row /\ new.rev = t.rev
  BY <1>3 DEF TxRecord
<1>6. tx'[w] = new /\ \A x \in Writers \ {w} : tx'[x] = tx[x]
  BY <1>4 DEF TxInv, TxTyped
<1>7. Pending(w)' = Head(Tail(todo))
  BY <1>2, <1>5, <1>6 DEF Pending
<1>8. \A x \in Writers \ {w} : Pending(x)' = Pending(x)
  BY <1>6 DEF Pending
<1> HIDE DEF new, todo, left
<1> QED BY <1>1, <1>2, <1>3, <1>4, <1>5, <1>6, <1>7, <1>8 DEF new, left

\* Which locks exclude each other does not depend on who came first.
LEMMA ClashSymmetric == \A m, n : Clash(m, n) <=> Clash(n, m)
BY DEF Clash

\* A statement that writes what Kept asks for preserves the invariant: it takes
\* locks nobody's locks exclude, and nobody else's rows are touched.
LEMMA StatementKeeps ==
    ASSUME TxInv, NEW w \in Writers, Pending(w) \in Statements \ {"commit"},
           Executes(w, Pending(w)), NEW t \in TxRecord, t.todo = tx[w].todo,
           t.edit = tx[w].edit, t.slug = tx[w].slug, t.action = tx[w].action,
           Goes(w, t), Kept(w)'
    PROVE  TxInv'
<1> DEFINE taken == {<<w, l[1], l[2]>> : l \in Locks(w)}
<1>1. /\ held' = held \cup taken /\ UNCHANGED <<vars, slug>>
      /\ \A x \in Writers \ {w}, l \in Locks(w), h \in held :
            h[1] = x /\ h[2] = l[1] => ~Clash(h[3], l[2])
  BY DEF Executes, WaitsFor
<1>2. UNCHANGED <<writer, apps, versions, revision, slug>>
  BY <1>1 DEF vars, tables
<1>3. /\ held \subseteq Writers \X RowNames \X Modes
      /\ slug \in [Apps -> Slugs \cup {None}] /\ tx \in [Writers -> TxRecord]
  BY DEF TxInv, TxTyped
<1>4. \A l \in Locks(w) : /\ l \in RowNames \X Modes
                          /\ RowLevel[l[1][1]] <= Level[Pending(w)]
  BY LocksType
<1>5. TypeInv'
  BY <1>1, TypeNext DEF TxInv
<1>6. TxTyped'
  <2>1. taken \subseteq Writers \X RowNames \X Modes
    BY <1>4
  <2>2. tx' \in [Writers -> TxRecord]
    BY <1>3, Proceeds
  <2> HIDE DEF taken
  <2> QED BY <1>1, <1>3, <2>1, <2>2 DEF TxTyped
<1>7. ASSUME NEW x \in Writers PROVE Underway(x)'
  <2>1. Underway(x)
    BY DEF TxInv
  <2>2. CASE x = w
    <3>1. writer[w].pc \in Kinds
      BY InFlight DEF Statements
    <3>2. /\ tx'[w].todo \in Left(writer[w].pc, tx[w].action)
          /\ tx'[w].edit = tx[w].edit /\ tx'[w].slug = tx[w].slug
          /\ tx'[w].action = tx[w].action
      BY Proceeds
    <3> QED BY <1>2, <2>1, <2>2, <3>1, <3>2 DEF Underway, Kinds
  <2>3. CASE x # w
    <3>1. tx'[x] = tx[x]
      BY <2>3, Proceeds
    <3> QED BY <1>2, <2>1, <3>1 DEF Underway
  <2> QED BY <2>2, <2>3
<1>8. ASSUME NEW x \in Writers, x # w PROVE Kept(x)'
  <2>1. tx'[x] = tx[x] /\ Pending(x)' = Pending(x) /\ held \subseteq held'
    BY <1>1, <1>8, Proceeds
  <2>2. Kept(x)
    BY DEF TxInv
  <2> QED BY <1>2, <2>1, <2>2 DEF Kept, EntryKept, RowKept, RevKept, OwnerAfter
<1>9. RoomLeft'
  BY <1>2 DEF TxInv, RoomLeft, Busy
<1>10. LocksExclude'
  <2> SUFFICES ASSUME NEW g \in held', NEW h \in held', g[1] # h[1], g[2] = h[2]
               PROVE  ~Clash(g[3], h[3])
    BY DEF LocksExclude
  <2>1. CASE g \in held /\ h \in held
    BY <2>1 DEF TxInv, LocksExclude
  <2>2. ASSUME NEW g1 \in held, NEW h1 \in taken, g1[1] # h1[1], g1[2] = h1[2]
        PROVE  ~Clash(g1[3], h1[3])
    <3>1. PICK l \in Locks(w) : h1 = <<w, l[1], l[2]>>
      OBVIOUS
    <3>2. g1[1] \in Writers \ {w} /\ g1[2] = l[1]
      BY <1>3, <2>2, <3>1
    <3>3. ~Clash(g1[3], l[2])
      BY <1>1, <3>2
    <3> QED BY <3>1, <3>3
  <2>3. ~(g \in taken /\ h \in taken)
    OBVIOUS
  <2> HIDE DEF taken
  <2> QED BY <1>1, <2>1, <2>2, <2>3, ClashSymmetric
<1>11. LocksInOrder'
  <2> SUFFICES ASSUME NEW h \in held' PROVE Level[Pending(h[1])'] > RowLevel[h[2][1]]
    BY DEF LocksInOrder, Pending
  <2>1. \A s \in Statements \cup {"none"} : Level[s] \in Nat
    BY DEF Statements, Level
  <2>2. \A r \in RowNames : RowLevel[r[1]] \in Nat
    BY DEF RowNames, RowLevel
  <2>3. /\ Level[Pending(w)] < Level[Pending(w)'] /\ Pending(w)' \in Statements
        /\ \A x \in Writers \ {w} : Pending(x)' = Pending(x)
    BY Proceeds
  <2>4. CASE h \in held /\ h[1] # w
    <3>1. h[1] \in Writers /\ Level[Pending(h[1])] > RowLevel[h[2][1]]
      BY <1>3, <2>4 DEF TxInv, LocksInOrder
    <3> QED BY <2>3, <2>4, <3>1 DEF Pending
  <2>5. CASE h \in held /\ h[1] = w
    <3>1. Level[Pending(w)] > RowLevel[h[2][1]] /\ h[2] \in RowNames
      BY <1>3, <2>5 DEF TxInv, LocksInOrder
    <3>2. Level[Pending(w)'] > RowLevel[h[2][1]]
      BY <2>1, <2>2, <2>3, <3>1
    <3> QED BY <2>5, <3>2
  <2>6. CASE h \in taken
    <3>1. PICK l \in Locks(w) : h = <<w, l[1], l[2]>>
      BY <2>6
    <3>2. RowLevel[l[1][1]] <= Level[Pending(w)] /\ l[1] \in RowNames
      BY <1>4
    <3>3. Level[Pending(w)'] > RowLevel[l[1][1]]
      BY <2>1, <2>2, <2>3, <3>2
    <3> QED BY <3>1, <3>3
  <2> QED BY <1>1, <2>4, <2>5, <2>6
<1> QED BY <1>5, <1>6, <1>7, <1>8, <1>9, <1>10, <1>11 DEF TxInv
\* A statement that writes nothing another one reads.
LEMMA OtherStatements ==
    ASSUME TxInv, NEW w \in Writers,
           TakeSlug(w) \/ WriteTexts(w) \/ CheckKey(w) \/ Register(w) \/ InsertEvent(w)
    PROVE  TxInv'
<1>1. /\ Pending(w) \in {"slug", "texts", "key", "external", "event"}
      /\ Executes(w, Pending(w)) /\ Goes(w, tx[w])
  BY DEF TakeSlug, WriteTexts, CheckKey, Register, InsertEvent, Executes
<1>2. tx[w] \in TxRecord /\ Pending(w) \in Statements \ {"commit"}
  BY <1>1 DEF TxInv, TxTyped, Statements
<1>3. Kept(w)'
  <2>1. Kept(w)
    BY DEF TxInv
  <2>2. /\ UNCHANGED <<writer, apps, versions, revision>> /\ held \subseteq held'
    BY <1>1 DEF Executes, vars, tables
  <2>3. /\ tx'[w].edit = tx[w].edit /\ tx'[w].slug = tx[w].slug
        /\ tx'[w].action = tx[w].action /\ tx'[w].entry = tx[w].entry
        /\ tx'[w].row = tx[w].row /\ tx'[w].rev = tx[w].rev
        /\ writer[w].pc # "submit" /\ Pending(w)' = "commit" => Pending(w) = "state"
    BY <1>1, <1>2, Proceeds
  <2>4. /\ writer[w].pc \in {"upsert", "decide"} => Level[Pending(w)] > 2
        /\ Level[Pending(w)] > 1
    BY <1>1, WhoseStatement DEF Level
  <2>5. writer[w].pc \in Kinds
    BY <1>1, InFlight
  <2> QED BY <1>1, <2>1, <2>2, <2>3, <2>4, <2>5
      DEF Kept, EntryKept, RowKept, RevKept, OwnerAfter, Kinds
<1> QED BY <1>1, <1>2, <1>3, StatementKeeps

\* What an upsert writes has its type.
LEMMA UpsertedEntry ==
    ASSUME TypeInv, NEW a \in Apps, NEW t \in Tenants, NEW e \in Edits
    PROVE  [owner |-> OwnerAfter(a, t), visibility |-> e.visibility, text |-> e.text,
            type |-> e.type, provenance |-> apps[a].provenance] \in Entry
<1>1. OwnerAfter(a, t) \in Tenants
  BY RowTypes DEF OwnerAfter, Entry
<1>2. apps[a].provenance \in Versions \cup {0}
  BY RowTypes
<1>3. e.visibility \in {"public", "private"} /\ e.text \in Texts /\ e.type \in Types
  BY TransactionsAssumption
<1> QED BY <1>1, <1>2, <1>3 DEF Entry

\* INSERT INTO store_apps ... ON CONFLICT DO UPDATE.
LEMMA WriteAppKeeps ==
    ASSUME TxInv, NEW w \in Writers, WriteApp(w)
    PROVE  TxInv'
<1> DEFINE a == writer[w].app
           e == tx[w].edit
           entry == [owner |-> OwnerAfter(a, writer[w].tenant), visibility |-> e.visibility,
                     text |-> e.text, type |-> e.type, provenance |-> apps[a].provenance]
           t == [tx[w] EXCEPT !.entry = entry]
<1>1. /\ writer[w].pc = "upsert" /\ Pending(w) = "app" /\ Executes(w, "app") /\ Goes(w, t)
  BY DEF WriteApp, Executes
<1>2. a \in Apps /\ writer[w].tenant \in Tenants /\ e \in Edits
  BY <1>1, InFlight DEF TxInv, Underway
<1>3. entry \in Entry
  BY <1>2, UpsertedEntry DEF TxInv
<1>4. /\ t \in TxRecord /\ t.todo = tx[w].todo /\ t.edit = tx[w].edit
      /\ t.slug = tx[w].slug /\ t.action = tx[w].action /\ t.entry = entry
      /\ t.row = tx[w].row /\ t.rev = tx[w].rev
  <2> HIDE DEF entry
  <2> QED BY <1>3 DEF TxInv, TxTyped, TxRecord
<1>5. Kept(w)'
  <2>1. UNCHANGED <<writer, apps>> /\ <<w, <<"app", a>>, "update">> \in held'
    <3>1. <<<<"app", a>>, "update">> \in Locks(w)
      BY <1>1 DEF Locks
    <3> QED BY <1>1, <3>1 DEF Executes, vars, tables
  <2>2. /\ tx'[w].edit = tx[w].edit /\ tx'[w].entry = entry /\ tx'[w].row = tx[w].row
        /\ Pending(w)' # "commit"
    <3> HIDE DEF t, entry
    <3> QED BY <1>1, <1>4, Proceeds DEF Statements
  <2>3. tx[w].row = None
    BY <1>1 DEF TxInv, Kept, RowKept
  <2> QED BY <1>1, <2>1, <2>2, <2>3 DEF Kept, EntryKept, RowKept, RevKept, OwnerAfter
<1> HIDE DEF t
<1> QED BY <1>1, <1>4, <1>5, StatementKeeps DEF Statements

\* INSERT INTO store_app_versions.
LEMMA InsertVersionKeeps ==
    ASSUME TxInv, NEW w \in Writers, InsertVersion(w)
    PROVE  TxInv'
<1> DEFINE q == writer[w]
           row == [status |-> StatusAtSubmission, type |-> q.type, submitter |-> q.tenant]
           t == [tx[w] EXCEPT !.row = row]
<1>1. /\ q.pc = "submit" /\ Pending(w) = "version" /\ Executes(w, "version") /\ Goes(w, t)
      /\ versions[q.app][q.version] = NoVersion
  BY DEF InsertVersion, Executes, NumberIsFree
<1>2. q.tenant \in Tenants /\ q.type \in Types
  BY <1>1, InFlight DEF TxInv, TypeInv, TypeOK
<1>3. row \in Version
  BY <1>2 DEF Version, StatusAtSubmission, Statuses
<1>4. /\ t \in TxRecord /\ t.todo = tx[w].todo /\ t.edit = tx[w].edit
      /\ t.slug = tx[w].slug /\ t.action = tx[w].action /\ t.entry = tx[w].entry
      /\ t.row = row /\ t.rev = tx[w].rev
  <2> HIDE DEF row
  <2> QED BY <1>3 DEF TxInv, TxTyped, TxRecord
<1>5. Kept(w)'
  <2>1. /\ UNCHANGED <<writer, versions>>
        /\ <<w, <<"version", <<q.app, q.version>>>>, "update">> \in held'
    <3>1. <<<<"version", <<q.app, q.version>>>>, "update">> \in Locks(w)
      BY <1>1 DEF Locks
    <3> QED BY <1>1, <3>1 DEF Executes, vars, tables
  <2>2. tx'[w].entry = tx[w].entry /\ tx'[w].row = row /\ tx'[w].rev = tx[w].rev
    <3> HIDE DEF t, row
    <3> QED BY <1>1, <1>4, Proceeds DEF Statements
  <2>3. tx[w].entry = None /\ tx[w].rev = 0
    BY <1>1 DEF TxInv, Kept, EntryKept, RevKept
  <2> QED BY <1>1, <2>1, <2>2, <2>3 DEF Kept, EntryKept, RowKept, RevKept
<1> HIDE DEF t
<1> QED BY <1>1, <1>4, <1>5, StatementKeeps DEF Statements

\* UPDATE store_app_versions SET status.
LEMMA UpdateStatusKeeps ==
    ASSUME TxInv, NEW w \in Writers, UpdateStatus(w)
    PROVE  TxInv'
<1> DEFINE q == writer[w]
           old == versions[q.app][q.version]
           row == [old EXCEPT !.status = StatusOf(tx[w].action)]
           t == [tx[w] EXCEPT !.row = row]
<1>1. /\ q.pc = "decide" /\ Pending(w) = "version" /\ Executes(w, "version") /\ Goes(w, t)
      /\ old # NoVersion
  BY DEF UpdateStatus, Executes
<1>2. q.app \in Apps /\ q.version \in Versions /\ tx[w].action \in Actions
  BY <1>1, InFlight DEF TxInv, Underway
<1>3. row \in Version
  <2>1. old \in Version
    BY <1>1, <1>2 DEF TxInv, TypeInv, TypeOK
  <2>2. StatusOf(tx[w].action) \in Statuses
    BY <1>2 DEF Actions, StatusOf, Statuses
  <2> QED BY <2>1, <2>2 DEF Version
<1>4. /\ t \in TxRecord /\ t.todo = tx[w].todo /\ t.edit = tx[w].edit
      /\ t.slug = tx[w].slug /\ t.action = tx[w].action /\ t.entry = tx[w].entry
      /\ t.row = row /\ t.rev = tx[w].rev
  <2> HIDE DEF row
  <2> QED BY <1>3 DEF TxInv, TxTyped, TxRecord
<1>5. Kept(w)'
  <2>1. /\ UNCHANGED <<writer, versions>>
        /\ <<w, <<"version", <<q.app, q.version>>>>, "update">> \in held'
    <3>1. <<<<"version", <<q.app, q.version>>>>, "update">> \in Locks(w)
      BY <1>1 DEF Locks
    <3> QED BY <1>1, <3>1 DEF Executes, vars, tables
  <2>2. /\ tx'[w].action = tx[w].action /\ tx'[w].entry = tx[w].entry /\ tx'[w].row = row
        /\ tx[w].action = "publish" => Pending(w)' = "app"
        /\ Pending(w)' # "commit"
    <3> HIDE DEF t, row
    <3> QED BY <1>1, <1>4, Proceeds DEF Statements
  <2>3. tx[w].action # "publish" => tx[w].entry = None
    BY <1>1 DEF TxInv, Kept, EntryKept
  <2>4. ~ (Level["app"] > 2)
    BY DEF Level
  <2> QED BY <1>1, <2>1, <2>2, <2>3, <2>4 DEF Kept, EntryKept, RowKept, RevKept
<1> HIDE DEF t
<1> QED BY <1>1, <1>4, <1>5, StatementKeeps DEF Statements

\* UPDATE store_apps, with what the published manifest says.
LEMMA UpdateProvenanceKeeps ==
    ASSUME TxInv, NEW w \in Writers, UpdateProvenance(w)
    PROVE  TxInv'
<1> DEFINE q == writer[w]
           entry == [apps[q.app] EXCEPT !.provenance =
                        ProvenanceAfter(q.app, q.version, tx[w].action)]
           t == [tx[w] EXCEPT !.entry = entry]
<1>1. q.pc = "decide" /\ Pending(w) = "app" /\ Executes(w, "app") /\ Goes(w, t)
  BY DEF UpdateProvenance, Executes
<1>2. /\ q.app \in Apps /\ q.version \in Versions
      /\ versions[q.app][q.version] # NoVersion
      /\ tx[w].row = [versions[q.app][q.version] EXCEPT !.status = StatusOf(tx[w].action)]
      /\ <<w, <<"version", <<q.app, q.version>>>>, "update">> \in held
      /\ tx[w].action # "publish" => FALSE
  <2>1. Level[Pending(w)] > 1 /\ Pending(w) # "none"
    BY <1>1 DEF Level
  <2>2. Kept(w) /\ q.app \in Apps /\ q.version \in Versions
    BY <1>1, <2>1, InFlight DEF TxInv
  <2>3. tx[w].action = "publish"
    <3>1. tx[w].todo \in Left(q.pc, tx[w].action) /\ Pending(w) = Head(tx[w].todo)
      BY <2>1, InFlight
    <3>2. \A todo \in TurnDownLeft : Head(todo) # "app"
      BY DEF TurnDownLeft
    <3> QED BY <1>1, <3>1, <3>2 DEF Left
  <2> QED BY <1>1, <2>1, <2>2, <2>3 DEF Kept, RowKept
<1>3. entry = [apps[q.app] EXCEPT !.provenance = q.version] /\ entry \in Entry
  <2>1. apps[q.app] \in Entry
    BY <1>2 DEF TxInv, TypeInv, ForeignKeys
  <2> QED BY <1>2, <2>1 DEF ProvenanceAfter, Entry
<1>4. /\ t \in TxRecord /\ t.todo = tx[w].todo /\ t.edit = tx[w].edit
      /\ t.slug = tx[w].slug /\ t.action = tx[w].action /\ t.entry = entry
      /\ t.row = tx[w].row /\ t.rev = tx[w].rev
  <2> HIDE DEF entry
  <2> QED BY <1>3 DEF TxInv, TxTyped, TxRecord
<1>5. Kept(w)'
  <2>1. /\ UNCHANGED <<writer, apps, versions>> /\ held \subseteq held'
        /\ <<w, <<"app", q.app>>, "no key update">> \in held'
    <3>1. <<<<"app", q.app>>, "no key update">> \in Locks(w)
      BY <1>1 DEF Locks
    <3>2. UNCHANGED <<writer, apps, versions>> /\ held \subseteq held'
      BY <1>1 DEF Executes, vars, tables
    <3>3. held' = held \cup {<<w, l[1], l[2]>> : l \in Locks(w)}
      BY <1>1 DEF Executes
    <3>4. <<w, <<"app", q.app>>, "no key update">> \in held'
      <4> DEFINE l == <<<<"app", q.app>>, "no key update">>
      <4>1. l[1] = <<"app", q.app>> /\ l[2] = "no key update" /\ l \in Locks(w)
        BY <3>1
      <4> HIDE DEF l
      <4> QED BY <3>3, <4>1
    <3> QED BY <3>2, <3>4
  <2>2. /\ tx'[w].action = tx[w].action /\ tx'[w].entry = entry /\ tx'[w].row = tx[w].row
        /\ Pending(w)' # "commit"
    <3> HIDE DEF t, entry
    <3> QED BY <1>1, <1>4, Proceeds DEF Statements
  <2> HIDE DEF entry
  <2> QED BY <1>1, <1>2, <1>3, <2>1, <2>2 DEF Kept, EntryKept, RowKept, RevKept
<1> HIDE DEF t
<1> QED BY <1>1, <1>4, <1>5, StatementKeeps DEF Statements

\* A transaction in flight has room for the bump it may commit.
LEMMA RoomForOne ==
    ASSUME TxInv, NEW w \in Busy
    PROVE  revision < MaxRevision /\ revision \in Nat /\ revision + 1 \in 0..MaxRevision
<1>1. IsFiniteSet(Busy) /\ revision + Cardinality(Busy) <= MaxRevision
  BY DEF TxInv, RoomLeft
<1>2. Cardinality(Busy) \in Nat /\ Cardinality(Busy) # 0
  BY <1>1, FS_CardinalityType, FS_EmptySet
<1>3. revision \in Nat
  BY PublishingAssumption DEF TxInv, TypeInv, TypeOK
<1> QED BY <1>1, <1>2, <1>3, PublishingAssumption

\* UPDATE ... SET revision = revision + 1.
LEMMA BumpRevisionKeeps ==
    ASSUME TxInv, NEW w \in Writers, BumpRevision(w)
    PROVE  TxInv'
<1> DEFINE t == [tx[w] EXCEPT !.rev = revision + 1]
<1>1. /\ Pending(w) = "state" /\ Executes(w, "state") /\ Goes(w, t)
      /\ writer[w].pc \in {"upsert", "decide"}
  BY WhoseStatement DEF BumpRevision, Executes
<1>2. revision + 1 \in 0..MaxRevision
  BY <1>1, RoomForOne DEF Busy
<1>3. /\ t \in TxRecord /\ t.todo = tx[w].todo /\ t.edit = tx[w].edit
      /\ t.slug = tx[w].slug /\ t.action = tx[w].action /\ t.entry = tx[w].entry
      /\ t.row = tx[w].row /\ t.rev = revision + 1
  BY <1>2 DEF TxInv, TxTyped, TxRecord
<1>4. Kept(w)'
  <2>1. /\ UNCHANGED <<writer, apps, versions, revision>> /\ held \subseteq held'
        /\ <<w, <<"state", None>>, "update">> \in held'
    <3>1. <<<<"state", None>>, "update">> \in Locks(w)
      BY <1>1 DEF Locks, CounterLock
    <3> QED BY <1>1, <3>1 DEF Executes, vars, tables
  <2>2. /\ tx'[w].edit = tx[w].edit /\ tx'[w].slug = tx[w].slug
        /\ tx'[w].action = tx[w].action /\ tx'[w].entry = tx[w].entry
        /\ tx'[w].row = tx[w].row /\ tx'[w].rev = revision + 1
    <3> HIDE DEF t
    <3> QED BY <1>1, <1>3, Proceeds DEF Statements
  <2>3. Kept(w) /\ Level[Pending(w)] > 2 /\ Level[Pending(w)] > 1
    BY <1>1 DEF TxInv, Level
  <2> QED BY <1>1, <2>1, <2>2, <2>3 DEF Kept, EntryKept, RowKept, RevKept, OwnerAfter
<1> HIDE DEF t
<1> QED BY <1>1, <1>3, <1>4, StatementKeeps DEF Statements
------------------------------------------------------------------------------
(* BEGIN, ROLLBACK and COMMIT.                                             *)

\* A handler that begins takes a place; one that ends gives it back.
LEMMA BusyGrows ==
    ASSUME TxInv, Room, NEW w \in Writers, w \notin Busy, UNCHANGED revision,
           Busy' = Busy \cup {w}
    PROVE  RoomLeft'
<1>1. IsFiniteSet(Busy) /\ revision + Cardinality(Busy) < MaxRevision
  BY DEF TxInv, RoomLeft, Room, Busy
<1>2. IsFiniteSet(Busy') /\ Cardinality(Busy') = Cardinality(Busy) + 1
  BY <1>1, FS_AddElement
<1>3. Cardinality(Busy) \in Nat /\ revision \in Nat
  BY <1>1, FS_CardinalityType, PublishingAssumption DEF TxInv, TypeInv, TypeOK
<1>4. revision' + Cardinality(Busy') <= MaxRevision
  BY <1>1, <1>2, <1>3, PublishingAssumption
<1> QED BY <1>2, <1>4 DEF RoomLeft, Busy

\* A transaction that ends, with or without a bump, leaves room for the bumps
\* of the others.
LEMMA BusyShrinks ==
    ASSUME TxInv, NEW w \in Busy, Busy' = Busy \ {w}, revision' \in {revision, revision + 1}
    PROVE  RoomLeft'
<1>1. IsFiniteSet(Busy) /\ revision + Cardinality(Busy) <= MaxRevision
  BY DEF TxInv, RoomLeft
<1>2. IsFiniteSet(Busy') /\ Cardinality(Busy') = Cardinality(Busy) - 1
  BY <1>1, FS_RemoveElement
<1>3. Cardinality(Busy) \in Nat /\ Cardinality(Busy') \in Nat /\ revision \in Nat
  BY <1>1, <1>2, FS_CardinalityType, PublishingAssumption DEF TxInv, TypeInv, TypeOK
<1>4. revision' + Cardinality(Busy') <= MaxRevision
  BY <1>1, <1>2, <1>3, PublishingAssumption
<1> QED BY <1>2, <1>4 DEF RoomLeft, Busy

\* BEGIN: nothing is locked and nothing written yet.
LEMMA BeginKeeps ==
    ASSUME TxInv, NEW w \in Writers, writer[w].pc = "idle", [Next]_vars, UNCHANGED tables,
           NEW q, q.pc \in Kinds, writer' = [writer EXCEPT ![w] = q],
           NEW todo, NEW edit \in Edits \cup {None}, NEW s \in Slugs \cup {None},
           NEW action \in Actions \cup {None}, Begins(w, todo, edit, s, action),
           todo \in Left(q.pc, action), Level[Head(todo)] < 3,
           q.pc # "upsert" => Level[Head(todo)] = 1,
           q.pc = "upsert" => edit \in Edits /\ s \in Slugs,
           q.pc = "decide" => action \in Actions
    PROVE  TxInv'
<1> DEFINE t == [NoTx EXCEPT !.todo = todo, !.edit = edit, !.slug = s, !.action = action]
<1>1. Room /\ tx' = [tx EXCEPT ![w] = t] /\ UNCHANGED <<slug, held>>
  BY DEF Begins
<1>2. todo # << >> /\ todo \in Seq(Statements) /\ Head(todo) \in Statements
  <2>1. Continues(q.pc, action, todo, Left(q.pc, action))
    BY LeftInOrder
  <2> QED BY <2>1 DEF Continues
<1>3. /\ t.todo = todo /\ t.edit = edit /\ t.slug = s /\ t.action = action
      /\ t.entry = None /\ t.row = None /\ t.rev = 0 /\ t \in TxRecord
  <2>1. 0 \in 0..MaxRevision
    BY PublishingAssumption
  <2> QED BY <1>2, <2>1 DEF NoTx, TxRecord
<1> HIDE DEF t
<1>4. TypeInv' /\ writer \in [Writers -> Writer] /\ tx \in [Writers -> TxRecord]
  BY TypeNext DEF TxInv, TxTyped, TypeInv, TypeOK, Writer
<1>5. /\ writer'[w] = q /\ tx'[w] = t /\ Pending(w)' = Head(todo)
      /\ \A x \in Writers \ {w} : writer'[x] = writer[x] /\ tx'[x] = tx[x]
  <2>1. writer'[w] = q /\ tx'[w] = t
    BY <1>1, <1>4
  <2>2. \A x \in Writers \ {w} : writer'[x] = writer[x] /\ tx'[x] = tx[x]
    BY <1>1, <1>4
  <2>3. Pending(w)' = Head(todo)
    BY <1>2, <1>3, <2>1 DEF Pending
  <2> QED BY <2>1, <2>2, <2>3
<1>6. TxTyped'
  BY <1>1, <1>3, <1>4 DEF TxInv, TxTyped
<1>7. ASSUME NEW x \in Writers PROVE Underway(x)' /\ Kept(x)'
  <2>1. Underway(x) /\ Kept(x)
    BY DEF TxInv
  <2>2. CASE x = w
    <3>1. Underway(w)'
      BY <1>3, <1>5 DEF Underway, Kinds
    <3>2. Level[Head(todo)] # 7 /\ Level[Head(todo)] \in Nat /\ Head(todo) # "commit"
      BY <1>2 DEF Statements, Level
    <3> DEFINE level == Level[Pending(w)']
    <3>a. /\ ~ (level > 2) /\ (q.pc # "upsert" => ~ (level > 1)) /\ writer'[w].pc = q.pc
          /\ tx'[w].entry = None /\ tx'[w].row = None
      BY <1>3, <1>5, <3>2
    <3> HIDE DEF level
    <3>3. EntryKept(w)'
      BY <3>a DEF EntryKept, level
    <3>4. RowKept(w)'
      BY <3>a DEF RowKept, level
    <3>5. RevKept(w)'
      BY <1>3, <1>5, <3>2 DEF RevKept
    <3> QED BY <2>2, <3>1, <3>3, <3>4, <3>5 DEF Kept
  <2>3. CASE x # w
    <3>1. writer'[x] = writer[x] /\ tx'[x] = tx[x] /\ Pending(x)' = Pending(x)
      BY <1>5, <2>3 DEF Pending
    <3>2. Underway(x)'
      BY <2>1, <3>1 DEF Underway
    <3>3. UNCHANGED <<apps, versions, revision, held>>
      BY <1>1 DEF tables
    <3>4. EntryKept(x)'
      <4>1. EntryKept(x) /\ apps' = apps /\ held' = held
        BY <2>1, <3>3 DEF Kept
      <4>2. apps'[writer[x].app] = apps[writer[x].app]
        BY <4>1
      <4>3. \A h : h \in held => h \in held'
        BY <4>1
      <4>4. EntryKept(x)
        BY <4>1
      <4> QED BY <3>1, <4>2, <4>3, <4>4 DEF EntryKept, OwnerAfter
    <3>5. RowKept(x)'
      BY <2>1, <3>1, <3>3 DEF Kept, RowKept
    <3>6. RevKept(x)'
      BY <2>1, <3>1, <3>3 DEF Kept, RevKept
    <3> QED BY <3>2, <3>4, <3>5, <3>6 DEF Kept
  <2> QED BY <2>2, <2>3
<1>8. RoomLeft'
  <2>1. w \notin Busy /\ Busy' = Busy \cup {w}
    BY <1>5 DEF Busy, Kinds
  <2> QED BY <1>1, <2>1, BusyGrows DEF tables
<1>9. LocksExclude'
  BY <1>1 DEF TxInv, LocksExclude
<1>10. LocksInOrder'
  <2>1. ASSUME NEW h \in held PROVE h[1] \in Writers \ {w} /\ Level[Pending(h[1])] > RowLevel[h[2][1]]
    <3>1. h[1] \in Writers /\ h[2] \in RowNames /\ Level[Pending(h[1])] > RowLevel[h[2][1]]
      BY DEF TxInv, TxTyped, LocksInOrder
    <3>2. RowLevel[h[2][1]] \in Nat
      BY <3>1 DEF RowNames, RowLevel
    <3>3. Pending(w) = "none"
      BY DEF TxInv, Underway, Pending
    <3>4. h[1] # w
      BY <3>1, <3>2, <3>3 DEF Level
    <3> QED BY <3>1, <3>4
  <2>2. \A x \in Writers \ {w} : Pending(x)' = Pending(x)
    BY <1>5 DEF Pending
  <2> QED BY <1>1, <2>1, <2>2 DEF LocksInOrder, Pending
<1> QED BY <1>4, <1>6, <1>7, <1>8, <1>9, <1>10 DEF TxInv

\* A transaction changes no row it has no lock on.
OnlyItsRows(w) ==
    /\ \A a \in Apps : \/ apps'[a] = apps[a]
                       \/ \E m \in {"update", "no key update"} :
                             <<w, <<"app", a>>, m>> \in held
    /\ \A a \in Apps, v \in Versions :
          \/ versions'[a][v] = versions[a][v]
          \/ <<w, <<"version", <<a, v>>>>, "update">> \in held
    /\ revision' = revision \/ <<w, <<"state", None>>, "update">> \in held

\* The end of a transaction: its locks go, and whoever is left finds the rows
\* it has locks on as they were.
LEMMA EndKeeps ==
    ASSUME TxInv, NEW w \in Writers, writer[w].pc # "idle", [Next]_vars, Ends(w),
           writer' = [writer EXCEPT ![w] = IdleWriter],
           slug' \in [Apps -> Slugs \cup {None}],
           revision' \in {revision, revision + 1}, OnlyItsRows(w)
    PROVE  TxInv'
<1>1. /\ TypeInv /\ TypeInv' /\ writer \in [Writers -> Writer] /\ tx \in [Writers -> TxRecord]
      /\ held \subseteq Writers \X RowNames \X Modes
  BY TypeNext DEF TxInv, TxTyped, TypeInv, TypeOK, Writer
<1>2. /\ tx' = [tx EXCEPT ![w] = NoTx] /\ held' = {h \in held : h[1] # w}
  BY DEF Ends, Released
<1>3. /\ writer'[w] = IdleWriter /\ tx'[w] = NoTx
      /\ \A x \in Writers \ {w} : writer'[x] = writer[x] /\ tx'[x] = tx[x]
  BY <1>1, <1>2
<1>4. TxTyped'
  <2>1. NoTx \in TxRecord
    <3>1. 0 \in 0..MaxRevision
      BY PublishingAssumption
    <3>2. << >> \in Seq(Statements)
      OBVIOUS
    <3> QED BY <3>1, <3>2 DEF NoTx, TxRecord
  <2> QED BY <1>1, <1>2, <2>1 DEF TxTyped
<1>5. ASSUME NEW x \in Writers PROVE Underway(x)' /\ Kept(x)'
  <2>1. Underway(x) /\ Kept(x)
    BY DEF TxInv
  <2>2. CASE x = w
    <3>1. writer'[w].pc = "idle" /\ tx'[w].todo = << >>
      BY <1>3 DEF IdleWriter, NoTx
    <3> QED BY <2>2, <3>1 DEF Underway, Kept, EntryKept, RowKept, RevKept
  <2>3. CASE x # w
    <3> DEFINE a == writer[x].app
               v == writer[x].version
    <3>1. writer'[x] = writer[x] /\ tx'[x] = tx[x] /\ Pending(x)' = Pending(x)
      BY <1>3, <2>3 DEF Pending
    <3>2. Underway(x)'
      BY <2>1, <3>1 DEF Underway
    <3>3. \A h \in held : h[1] = x => h \in held'
      BY <1>2, <2>3
    <3>4. \A r, m, n : <<w, r, m>> \in held /\ <<x, r, n>> \in held => ~Clash(m, n)
      BY <2>3 DEF TxInv, LocksExclude
    <3>5. WriterAddressed(writer[x])
      BY <1>1 DEF TypeInv
    <3>6. EntryKept(x)'
      <4>1. ASSUME NEW n \in {"update", "no key update"}, <<x, <<"app", a>>, n>> \in held,
                   writer[x].pc # "idle"
            PROVE  apps'[a] = apps[a]
        <5>1. a \in Apps
          BY <3>5, <4>1 DEF WriterAddressed
        <5>2. \A m \in {"update", "no key update"} : Clash(m, n)
          BY <4>1 DEF Clash
        <5> QED BY <3>4, <4>1, <5>1, <5>2 DEF OnlyItsRows
      <4> QED BY <2>1, <3>1, <3>3, <4>1 DEF Kept, EntryKept, OwnerAfter
    <3>7. RowKept(x)'
      <4>1. ASSUME <<x, <<"version", <<a, v>>>>, "update">> \in held,
                   writer[x].pc \in {"submit", "decide"}
            PROVE  versions'[a][v] = versions[a][v]
        <5>1. a \in Apps /\ v \in Versions
          BY <3>5, <4>1 DEF WriterAddressed
        <5>2. Clash("update", "update")
          BY DEF Clash
        <5> QED BY <3>4, <4>1, <5>1, <5>2 DEF OnlyItsRows
      <4> QED BY <2>1, <3>1, <3>3, <4>1 DEF Kept, RowKept
    <3>8. RevKept(x)'
      <4>1. <<x, <<"state", None>>, "update">> \in held => revision' = revision
        <5>1. Clash("update", "update")
          BY DEF Clash
        <5> QED BY <3>4, <5>1 DEF OnlyItsRows
      <4> QED BY <2>1, <3>1, <3>3, <4>1 DEF Kept, RevKept
    <3> QED BY <3>2, <3>6, <3>7, <3>8 DEF Kept
  <2> QED BY <2>2, <2>3
<1>6. RoomLeft'
  <2>1. w \in Busy /\ Busy' = Busy \ {w}
    <3>1. writer'[w].pc = "idle"
      BY <1>3 DEF IdleWriter
    <3> QED BY <1>3, <3>1 DEF Busy
  <2> QED BY <2>1, BusyShrinks
<1>7. LocksExclude'
  BY <1>2 DEF TxInv, LocksExclude
<1>8. LocksInOrder'
  <2>1. \A x \in Writers \ {w} : Pending(x)' = Pending(x)
    BY <1>3 DEF Pending
  <2>2. \A h \in held' : h \in held /\ h[1] \in Writers \ {w}
    BY <1>1, <1>2
  <2> QED BY <2>1, <2>2 DEF TxInv, LocksInOrder, Pending
<1> QED BY <1>1, <1>4, <1>5, <1>6, <1>7, <1>8 DEF TxInv

\* The three handlers open their transactions.
LEMMA UpsertBegins ==
    ASSUME TxInv, NEW w \in Writers, NEW t \in Tenants, NEW a \in Apps, NEW edit \in Edits,
           NEW s \in Slugs, BeginUpsert(w, t, a, edit, s)
    PROVE  TxInv' /\ [Next]_vars
<1> DEFINE q == [pc |-> "upsert", tenant |-> t, app |-> a, version |-> 0,
                 type |-> "module", at |-> 0]
<1>1. CheckOwner(w, t, a) /\ Begins(w, UpsertStatements, edit, s, None) /\ [Next]_vars
  BY DEF BeginUpsert, Next
<1>2. writer[w].pc = "idle" /\ UNCHANGED tables /\ writer' = [writer EXCEPT ![w] = q]
  BY <1>1 DEF CheckOwner
<1>3. UpsertStatements \in Left("upsert", None) /\ Level[Head(UpsertStatements)] < 3
  BY DEF UpsertStatements, Left, UpsertLeft, Level
<1>4. q.pc = "upsert" /\ q.pc \in Kinds
  BY DEF Kinds
<1> HIDE DEF q
<1> QED BY <1>1, <1>2, <1>3, <1>4, BeginKeeps

\* The first statement of a submission keeps TxInv, and is a step of the module.
LEMMA SubmissionBegins ==
    ASSUME TxInv, NEW w \in Writers, NEW t \in Tenants, NEW a \in Apps, NEW v \in Versions,
           BeginSubmit(w, t, a, v)
    PROVE  TxInv' /\ [Next]_vars
<1> DEFINE q == [pc |-> "submit", tenant |-> t, app |-> a, version |-> v,
                 type |-> apps[a].type, at |-> clock + 1]
           todo == SubmitStatements(apps[a].type)
<1>1. OwnApp(w, t, a, v) /\ Begins(w, todo, None, None, None) /\ [Next]_vars
  BY DEF BeginSubmit, Next
<1>2. writer[w].pc = "idle" /\ UNCHANGED tables /\ writer' = [writer EXCEPT ![w] = q]
  BY <1>1 DEF OwnApp
<1>3. todo \in Left("submit", None) /\ Level[Head(todo)] = 1 /\ Level[Head(todo)] < 3
  BY DEF SubmitStatements, Left, SubmitLeft, Level
<1>4. q.pc = "submit" /\ q.pc \in Kinds /\ None \in Edits \cup {None}
  BY DEF Kinds
<1> HIDE DEF q, todo
<1> QED BY <1>1, <1>2, <1>3, <1>4, BeginKeeps

\* The first statement of a decision keeps TxInv, and is a step of the module.
LEMMA DecisionBegins ==
    ASSUME TxInv, NEW w \in Writers, NEW a \in Apps, NEW v \in Versions,
           NEW action \in Actions, BeginDecide(w, a, v, action)
    PROVE  TxInv' /\ [Next]_vars
<1> DEFINE q == [pc |-> "decide", tenant |-> None, app |-> a, version |-> v,
                 type |-> "module", at |-> clock + 1]
           todo == DecideStatements(action)
<1>1. BeginDecision(w, a, v) /\ Begins(w, todo, None, None, action) /\ [Next]_vars
  BY DEF BeginDecide, Next
<1>2. writer[w].pc = "idle" /\ UNCHANGED tables /\ writer' = [writer EXCEPT ![w] = q]
  BY <1>1 DEF BeginDecision
<1>3. todo \in Left("decide", action) /\ Level[Head(todo)] = 1 /\ Level[Head(todo)] < 3
  BY DEF DecideStatements, Left, PublishLeft, TurnDownLeft, Level
<1>4. q.pc = "decide" /\ q.pc \in Kinds /\ None \in Edits \cup {None}
  BY DEF Kinds
<1> HIDE DEF q, todo
<1> QED BY <1>1, <1>2, <1>3, <1>4, BeginKeeps

\* A rollback leaves the tables alone.
LEMMA AbortKeeps ==
    ASSUME TxInv, NEW w \in Writers, Aborts(w)
    PROVE  TxInv' /\ [Next]_vars
<1>1. Rollback(w) /\ Ends(w) /\ slug' = slug /\ [Next]_vars
  BY DEF Aborts, Next
<1>2. /\ writer[w].pc # "idle" /\ writer' = [writer EXCEPT ![w] = IdleWriter]
      /\ UNCHANGED <<apps, versions, revision>>
  BY <1>1 DEF Rollback, tables
<1>3. OnlyItsRows(w) /\ slug' \in [Apps -> Slugs \cup {None}]
  BY <1>1, <1>2 DEF OnlyItsRows, TxInv, TxTyped
<1> QED BY <1>1, <1>2, <1>3, EndKeeps

\* What a transaction has at its COMMIT, and what it has locked.
LEMMA AtCommit ==
    ASSUME TxInv, NEW w \in Writers, Pending(w) = "commit"
    PROVE  /\ writer[w].pc \in Kinds /\ w \in Busy /\ writer[w].app \in Apps
           /\ EntryKept(w) /\ RowKept(w) /\ RevKept(w) /\ Underway(w)
           /\ Level[Pending(w)] > 2 /\ Level[Pending(w)] > 1
           /\ tx[w] \in TxRecord
<1>1. Pending(w) # "none" /\ Level[Pending(w)] > 2 /\ Level[Pending(w)] > 1
  BY DEF Level
<1>2. Kept(w) /\ Underway(w) /\ tx[w] \in TxRecord
  BY DEF TxInv, TxTyped
<1>3. writer[w].pc \in Kinds /\ writer[w].app \in Apps /\ writer[w].pc # "idle"
  BY <1>1, InFlight DEF Kinds
<1> QED BY <1>1, <1>2, <1>3 DEF Busy, Kept

\* The commit of an upsert is the UpsertApp of Publishing.
LEMMA UpsertCommits ==
    ASSUME TxInv, NEW w \in Writers, Commit(w), writer[w].pc = "upsert"
    PROVE  [Next]_vars /\ OnlyItsRows(w) /\ revision' = revision + 1
<1> DEFINE q == writer[w]
           t == tx[w]
           a == writer[w].app
           e == tx[w].edit
           entry == [owner |-> OwnerAfter(a, q.tenant), visibility |-> e.visibility,
                     text |-> e.text, type |-> e.type, provenance |-> apps[a].provenance]
<1>1. /\ a \in Apps /\ q.tenant \in Tenants /\ e \in Edits /\ t.slug \in Slugs
      /\ t.entry = entry /\ t.row = None /\ t.rev = revision + 1
      /\ <<w, <<"app", a>>, "update">> \in held
      /\ <<w, <<"state", None>>, "update">> \in held
  <2>1. Pending(w) = "commit" /\ Pending(w) # "none"
    BY DEF Commit
  <2>2. /\ EntryKept(w) /\ RowKept(w) /\ RevKept(w) /\ Underway(w)
        /\ Level[Pending(w)] > 2 /\ Level[Pending(w)] > 1
    BY <2>1, AtCommit
  <2>3. a \in Apps /\ q.tenant \in Tenants
    BY <2>1, InFlight
  <2> QED BY <2>1, <2>2, <2>3 DEF EntryKept, RowKept, RevKept, Underway
<1>2. entry # None /\ revision + 1 # 0 /\ revision < MaxRevision
  <2>1. entry \in Entry
    BY <1>1, UpsertedEntry DEF TxInv
  <2>2. revision < MaxRevision /\ revision \in Nat
    BY RoomForOne DEF Busy
  <2> HIDE DEF entry
  <2> QED BY <2>1, <2>2, TransactionsAssumption
<1>3. apps' = [apps EXCEPT ![a] = entry] /\ revision' = revision + 1
  <2> HIDE DEF entry
  <2> QED BY <1>1, <1>2 DEF Commit
<1>4. UNCHANGED <<publishers, versions, external, trail, clock>>
  <2>1. external' = [external EXCEPT ![a] = external[a]]
    BY DEF Commit
  <2>2. external \in [Apps -> Versions \cup {0}]
    BY DEF TxInv, TypeInv, TypeOK
  <2>3. external' = external
    BY <2>1, <2>2
  <2> QED BY <1>1, <2>3 DEF Commit
<1>5. UpsertApp(w, e.visibility, e.text, e.type, e.t)
  <2>1. trans' = [trans EXCEPT ![a] = IF e.t = None THEN @ ELSE e.t]
    BY DEF Commit
  <2>2. editor' = [editor EXCEPT ![a] = q.tenant] /\ writer' = [writer EXCEPT ![w] = IdleWriter]
    BY DEF Commit
  <2>3. apps' = [apps EXCEPT ![a] =
                    [owner |-> OwnerAfter(a, q.tenant), visibility |-> e.visibility,
                     text |-> e.text, type |-> e.type, provenance |-> @.provenance]]
    BY <1>3
  <2> QED BY <1>2, <1>3, <1>4, <2>1, <2>2, <2>3 DEF UpsertApp, bumpRevision
<1>6. /\ e.visibility \in {"public", "private"} /\ e.text \in Texts /\ e.type \in Types
      /\ e.t \in Texts \cup {None}
  BY <1>1, TransactionsAssumption
<1>7. [Next]_vars
  BY <1>5, <1>6 DEF Next
<1>8. OnlyItsRows(w)
  <2>1. \A b \in Apps : apps'[b] = apps[b] \/ b = a
    <3> HIDE DEF a, entry
    <3> QED BY <1>3 DEF TxInv, TypeInv, TypeOK
  <2> QED BY <1>1, <1>4, <2>1 DEF OnlyItsRows
<1> QED BY <1>3, <1>7, <1>8

\* The commit of a submission is its SubmitVersion.
LEMMA SubmissionCommits ==
    ASSUME TxInv, NEW w \in Writers, Commit(w), writer[w].pc = "submit"
    PROVE  [Next]_vars /\ OnlyItsRows(w) /\ revision' = revision
<1> DEFINE q == writer[w]
           t == tx[w]
           a == writer[w].app
           v == writer[w].version
           row == [status |-> StatusAtSubmission, type |-> q.type, submitter |-> q.tenant]
<1>1. /\ a \in Apps /\ v \in Versions /\ q.tenant \in Tenants /\ q.type \in Types
      /\ t.entry = None /\ t.row = row /\ t.rev = 0 /\ versions[a][v] = NoVersion
      /\ <<w, <<"version", <<a, v>>>>, "update">> \in held
  <2>1. Pending(w) = "commit" /\ Pending(w) # "none"
    BY DEF Commit
  <2>2. EntryKept(w) /\ RowKept(w) /\ RevKept(w) /\ Level[Pending(w)] > 1
    BY <2>1, AtCommit
  <2>3. a \in Apps /\ v \in Versions /\ q.tenant \in Tenants
    BY <2>1, InFlight
  <2>4. q.type \in Types
    BY DEF TxInv, TypeInv, TypeOK
  <2> QED BY <2>1, <2>2, <2>3, <2>4 DEF EntryKept, RowKept, RevKept
<1>2. row # None
  <2>1. row \in Version
    BY <1>1 DEF Version, StatusAtSubmission, Statuses
  <2> HIDE DEF row
  <2> QED BY <2>1, TransactionsAssumption
<1>3. versions' = [versions EXCEPT ![a][v] = row]
  <2> HIDE DEF row
  <2> QED BY <1>1, <1>2 DEF Commit
<1>4. UNCHANGED <<publishers, apps, trans, revision, clock, editor>>
  <2>1. /\ apps' = [apps EXCEPT ![a] = apps[a]] /\ trans' = [trans EXCEPT ![a] = trans[a]]
        /\ editor' = [editor EXCEPT ![a] = editor[a]]
    BY <1>1 DEF Commit
  <2>2. /\ apps \in [Apps -> Entry \cup {NoEntry}] /\ trans \in [Apps -> Texts \cup {None}]
        /\ editor \in [Apps -> Tenants \cup {None}]
    BY DEF TxInv, TypeInv, TypeOK
  <2>3. apps' = apps /\ trans' = trans /\ editor' = editor
    BY <2>1, <2>2
  <2> QED BY <1>1, <2>3 DEF Commit
<1>5. SubmitVersion(w)
  <2>1. /\ external' = [external EXCEPT ![a] = IF q.type = "external" THEN v ELSE @]
        /\ writer' = [writer EXCEPT ![w] = IdleWriter]
    BY DEF Commit
  <2>2. trail' = [trail EXCEPT ![a][v] = Append(@, [action |-> "submitted", at |-> q.at])]
    BY DEF Commit
  <2> QED BY <1>1, <1>3, <1>4, <2>1, <2>2 DEF SubmitVersion, NumberIsFree
<1>6. [Next]_vars
  BY <1>5 DEF Next
<1>7. OnlyItsRows(w)
  <2>1. \A b \in Apps, n \in Versions :
           versions'[b][n] = versions[b][n] \/ (b = a /\ n = v)
    <3> HIDE DEF a, v, row
    <3> QED BY <1>3 DEF TxInv, TypeInv, TypeOK
  <2> QED BY <1>1, <1>4, <2>1 DEF OnlyItsRows
<1> QED BY <1>4, <1>6, <1>7

\* The commit of a decision is its DecideVersion.
LEMMA DecisionCommits ==
    ASSUME TxInv, NEW w \in Writers, Commit(w), writer[w].pc = "decide"
    PROVE  [Next]_vars /\ OnlyItsRows(w) /\ revision' = revision + 1
<1> DEFINE q == writer[w]
           t == tx[w]
           a == writer[w].app
           v == writer[w].version
           action == tx[w].action
           row == [versions[a][v] EXCEPT !.status = StatusOf(action)]
           entry == [apps[a] EXCEPT !.provenance = v]
<1>1. /\ a \in Apps /\ v \in Versions /\ action \in Actions
      /\ t.row = row /\ t.rev = revision + 1 /\ versions[a][v] # NoVersion
      /\ action = "publish" => t.entry = entry /\ <<w, <<"app", a>>, "no key update">> \in held
      /\ action # "publish" => t.entry = None
      /\ <<w, <<"version", <<a, v>>>>, "update">> \in held
      /\ <<w, <<"state", None>>, "update">> \in held
  <2>1. Pending(w) = "commit" /\ Pending(w) # "none"
    BY DEF Commit
  <2>2. /\ EntryKept(w) /\ RowKept(w) /\ RevKept(w) /\ Underway(w)
        /\ Level[Pending(w)] > 2 /\ Level[Pending(w)] > 1
    BY <2>1, AtCommit
  <2>3. a \in Apps /\ v \in Versions
    BY <2>1, InFlight
  <2> QED BY <2>1, <2>2, <2>3 DEF EntryKept, RowKept, RevKept, Underway
<1>2. entry # None /\ row # None /\ revision + 1 # 0 /\ revision < MaxRevision
  <2>1. apps[a] \in Entry /\ versions[a][v] \in Version
    <3>1. \A b \in Apps, n \in Versions : versions[b][n] # NoVersion
                => apps[b] \in Entry /\ versions[b][n] \in Version
      BY DEF TxInv, TypeInv, TypeOK, ForeignKeys
    <3>2. a \in Apps /\ v \in Versions /\ versions[a][v] # NoVersion
      BY <1>1
    <3> QED BY <3>1, <3>2
  <2>2. entry \in Entry
    BY <1>1, <2>1 DEF Entry
  <2>3. StatusOf(action) \in Statuses
    BY <1>1 DEF StatusOf, Statuses, Actions
  <2>4. row \in Version
    BY <2>1, <2>3 DEF Version
  <2>5. revision < MaxRevision /\ revision \in Nat
    BY RoomForOne DEF Busy
  <2> HIDE DEF entry, row
  <2> QED BY <2>2, <2>4, <2>5, TransactionsAssumption
<1>3. versions' = [versions EXCEPT ![a][v] = row] /\ revision' = revision + 1
  <2> HIDE DEF row
  <2> QED BY <1>1, <1>2 DEF Commit
<1>4. apps' = [apps EXCEPT ![a].provenance = ProvenanceAfter(a, v, action)]
  <2>1. apps \in [Apps -> Entry \cup {NoEntry}] /\ apps[a] \in Entry
    BY <1>1 DEF TxInv, TypeInv, TypeOK, ForeignKeys
  <2>2. CASE action = "publish"
    <3>1. apps' = [apps EXCEPT ![a] = entry]
      <4> HIDE DEF entry
      <4> QED BY <1>1, <1>2, <2>2 DEF Commit
    <3> QED BY <2>2, <3>1 DEF ProvenanceAfter
  <2>3. CASE action # "publish"
    <3>1. apps' = [apps EXCEPT ![a] = apps[a]]
      BY <1>1, <2>3 DEF Commit
    <3>2. apps' = apps
      BY <2>1, <3>1
    <3>3. apps[a] = [apps[a] EXCEPT !.provenance = apps[a].provenance]
      BY <2>1 DEF Entry
    <3>4. apps = [apps EXCEPT ![a].provenance = apps[a].provenance]
      BY <2>1, <3>3
    <3> QED BY <2>3, <3>2, <3>4 DEF ProvenanceAfter
  <2> QED BY <2>2, <2>3
<1>5. UNCHANGED <<publishers, trans, external, clock, editor>>
  <2>1. /\ external' = [external EXCEPT ![a] = external[a]]
        /\ trans' = [trans EXCEPT ![a] = trans[a]]
        /\ editor' = [editor EXCEPT ![a] = editor[a]]
    BY DEF Commit
  <2>2. /\ external \in [Apps -> Versions \cup {0}] /\ trans \in [Apps -> Texts \cup {None}]
        /\ editor \in [Apps -> Tenants \cup {None}]
    BY DEF TxInv, TypeInv, TypeOK
  <2>3. external' = external /\ trans' = trans /\ editor' = editor
    BY <2>1, <2>2
  <2> QED BY <2>3 DEF Commit
<1>6. DecideVersion(w, action)
  <2>1. /\ versions' = [versions EXCEPT ![a][v].status = StatusOf(action)]
        /\ writer' = [writer EXCEPT ![w] = IdleWriter]
    BY <1>3 DEF Commit
  <2>2. trail' = [trail EXCEPT ![a][v] = Append(@, [action |-> action, at |-> q.at])]
    BY DEF Commit
  <2> QED BY <1>1, <1>2, <1>3, <1>4, <1>5, <2>1, <2>2 DEF DecideVersion, bumpRevision
<1>7. [Next]_vars
  BY <1>1, <1>6 DEF Next
<1>8. OnlyItsRows(w)
  <2>1. \A b \in Apps, n \in Versions :
           versions'[b][n] = versions[b][n] \/ (b = a /\ n = v)
    <3> HIDE DEF a, v, row
    <3> QED BY <1>3 DEF TxInv, TypeInv, TypeOK
  <2>2. \A b \in Apps : \/ apps'[b] = apps[b]
                        \/ b = a /\ action = "publish"
    <3>1. apps \in [Apps -> Entry \cup {NoEntry}]
      BY DEF TxInv, TypeInv, TypeOK
    <3>2. apps' = [apps EXCEPT ![a] = IF t.entry = None THEN @ ELSE t.entry]
      BY DEF Commit
    <3>3. action # "publish" => t.entry = None
      BY <1>1
    <3> HIDE DEF a, t, action
    <3> QED BY <3>1, <3>2, <3>3
  <2> QED BY <1>1, <2>1, <2>2 DEF OnlyItsRows
<1> QED BY <1>3, <1>7, <1>8

\* Every COMMIT is a step of Publishing, of rows the transaction has locked.
LEMMA CommitKeeps ==
    ASSUME TxInv, NEW w \in Writers, Commit(w)
    PROVE  TxInv' /\ [Next]_vars
<1> DEFINE a == writer[w].app
<1>1. writer[w].pc \in Kinds
  BY AtCommit DEF Commit
<1>2. [Next]_vars /\ OnlyItsRows(w) /\ revision' \in {revision, revision + 1}
  BY <1>1, UpsertCommits, SubmissionCommits, DecisionCommits DEF Kinds
<1>3. writer[w].pc # "idle" /\ writer' = [writer EXCEPT ![w] = IdleWriter] /\ Ends(w)
  BY <1>1 DEF Commit, Kinds
<1>4. slug' \in [Apps -> Slugs \cup {None}]
  <2>1. /\ slug \in [Apps -> Slugs \cup {None}] /\ tx[w] \in TxRecord
    BY DEF TxInv, TxTyped
  <2>2. slug' = [slug EXCEPT ![a] = tx[w].slug] \/ slug' = [slug EXCEPT ![a] = slug[a]]
    BY DEF Commit
  <2>3. tx[w].slug \in Slugs \cup {None}
    BY <2>1 DEF TxRecord
  <2> HIDE DEF a
  <2> QED BY <2>1, <2>2, <2>3
<1> QED BY <1>2, <1>3, <1>4, EndKeeps
------------------------------------------------------------------------------
(* The invariant, and Publishing.                                          *)

\* Nothing is locked or under way at first.
LEMMA TxStarts == TxInit => TxInv
<1> SUFFICES ASSUME TxInit PROVE TxInv
  OBVIOUS
<1>1. TypeInv
  BY TypeInit DEF TxInit
<1>2. TxTyped
  <2>1. 0 \in 0..MaxRevision
    BY PublishingAssumption
  <2>2. << >> \in Seq(Statements)
    OBVIOUS
  <2>3. NoTx \in TxRecord
    BY <2>1, <2>2 DEF NoTx, TxRecord
  <2> QED BY <2>3 DEF TxInit, TxTyped
<1>3. \A w \in Writers : writer[w].pc = "idle" /\ tx[w].todo = << >>
  BY DEF TxInit, Init, IdleWriter, NoTx
<1>4. \A w \in Writers : Underway(w) /\ Kept(w)
  BY <1>3 DEF Underway, Kept, EntryKept, RowKept, RevKept
<1>5. RoomLeft
  <2>1. Busy = {}
    BY <1>3 DEF Busy
  <2>2. IsFiniteSet(Busy) /\ Cardinality(Busy) = 0
    BY <2>1, FS_EmptySet
  <2>3. revision = 0
    BY DEF TxInit, Init
  <2> QED BY <2>2, <2>3, PublishingAssumption DEF RoomLeft
<1>6. LocksExclude /\ LocksInOrder
  BY DEF TxInit, LocksExclude, LocksInOrder
<1> QED BY <1>1, <1>2, <1>4, <1>5, <1>6 DEF TxInv

\* The handlers that need no transaction, and steps that change nothing.
LEMMA OthersKeep ==
    ASSUME TxInv, [Next]_vars,
           UNCHANGED <<apps, versions, revision, writer, slug, held, tx>>
    PROVE  TxInv'
<1>1. TypeInv'
  BY TypeNext DEF TxInv
<1>2. TxTyped'
  BY DEF TxInv, TxTyped
<1>3. ASSUME NEW w \in Writers PROVE Underway(w)' /\ Kept(w)'
  <2>1. Underway(w) /\ Kept(w)
    BY DEF TxInv
  <2>2. Underway(w)'
    BY <2>1 DEF Underway
  <2>3. EntryKept(w)'
    BY <2>1 DEF Kept, EntryKept, OwnerAfter, Pending
  <2>4. RowKept(w)' /\ RevKept(w)'
    BY <2>1 DEF Kept, RowKept, RevKept, Pending
  <2> QED BY <2>2, <2>3, <2>4 DEF Kept
<1>4. RoomLeft' /\ LocksExclude' /\ LocksInOrder'
  BY DEF TxInv, RoomLeft, Busy, LocksExclude, LocksInOrder, Pending
<1> QED BY <1>1, <1>2, <1>3, <1>4 DEF TxInv

\* A statement that writes no row of its own, or a row nobody sees yet.
LEMMA StatementSteps ==
    ASSUME TxInv, NEW w \in Writers, Step(w)
    PROVE  TxInv' /\ [Next]_vars
<1>1. CASE WriteApp(w)
  BY <1>1, WriteAppKeeps DEF WriteApp, Executes
<1>2. CASE TakeSlug(w) \/ WriteTexts(w) \/ CheckKey(w) \/ Register(w) \/ InsertEvent(w)
  BY <1>2, OtherStatements DEF TakeSlug, WriteTexts, CheckKey, Register, InsertEvent, Executes
<1>3. CASE InsertVersion(w)
  BY <1>3, InsertVersionKeeps DEF InsertVersion, Executes
<1>4. CASE UpdateStatus(w)
  BY <1>4, UpdateStatusKeeps DEF UpdateStatus, Executes
<1>5. CASE UpdateProvenance(w)
  BY <1>5, UpdateProvenanceKeeps DEF UpdateProvenance, Executes
<1>6. CASE BumpRevision(w)
  BY <1>6, BumpRevisionKeeps DEF BumpRevision, Executes
<1>7. CASE Refuse(w)
  BY <1>7, AbortKeeps DEF Refuse
<1>8. CASE Commit(w)
  BY <1>8, CommitKeeps
<1> QED BY <1>1, <1>2, <1>3, <1>4, <1>5, <1>6, <1>7, <1>8 DEF Step

\* Every step of the transactions keeps the invariant and is a step of
\* Publishing, or of nothing that Publishing knows.
LEMMA TxSteps == TxInv /\ [TxNext]_txVars => TxInv' /\ [Next]_vars
<1> SUFFICES ASSUME TxInv, [TxNext]_txVars PROVE TxInv' /\ [Next]_vars
  OBVIOUS
<1>1. CASE UNCHANGED txVars
  BY <1>1, OthersKeep DEF txVars, vars, tables
<1>2. ASSUME NEW t \in Tenants, SaveProfile(t), UNCHANGED <<slug, held, tx>>
      PROVE  TxInv' /\ [Next]_vars
  <2>1. [Next]_vars
    BY <1>2 DEF Next
  <2> QED BY <1>2, <2>1, OthersKeep DEF SaveProfile
<1>3. ASSUME NEW t \in Tenants, NEW verified \in {"verified", "unverified"},
             SetPublisherVerified(t, verified), UNCHANGED <<slug, held, tx>>
      PROVE  TxInv' /\ [Next]_vars
  <2>1. [Next]_vars
    BY <1>3 DEF Next
  <2> QED BY <1>3, <2>1, OthersKeep DEF SetPublisherVerified
<1>4. ASSUME NEW w \in Writers, Aborts(w) \/ DetectDeadlock(w) PROVE TxInv' /\ [Next]_vars
  BY <1>4, AbortKeeps DEF DetectDeadlock
<1> QED BY <1>1, <1>2, <1>3, <1>4, StatementSteps, UpsertBegins, SubmissionBegins,
           DecisionBegins DEF TxNext

\* The rows, the locks and the transactions are what they are meant to be.
THEOREM TransactionsTypeCorrect == TxSpec => []TxTypeOK
<1>1. TxInv => TxTypeOK
  BY DEF TxInv, TypeInv, TxTyped, TxTypeOK, TxRecord
<1> QED BY <1>1, TxStarts, TxSteps, PTL DEF TxSpec

\* However the statements interleave, READ COMMITTED and the locks make each
\* transaction of store.go the one step that Publishing says it is: a row that
\* was read under a lock is as it was when it is replaced, and no bump of the
\* revision is lost.
THEOREM TransactionsImplementPublishing == TxSpec => ImplementsPublishing
<1>1. TxInit => Init
  BY DEF TxInit
<1> QED BY <1>1, TxStarts, TxSteps, PTL DEF TxSpec, ImplementsPublishing, Spec

\* The two refinements compose: the statements promise the catalogue service
\* what CatalogSource says.
THEOREM TransactionsImplementSource == TxSpec => ImplementsSource
BY TransactionsImplementPublishing, PublishingImplementsSource, PTL DEF ImplementsPublishing

\* So what is true of Publishing is true of the statements: no interleaving of
\* them leaves a version without its outcome, an app with a provenance nobody
\* published, or a version submitted by another than the app's owner.
THEOREM StatementsKeepHistory ==
    TxSpec => [](OutcomesRecorded /\ ProvenanceReviewed /\ SubmittedByOwner)
BY TransactionsImplementPublishing, EveryOutcomeIsRecorded, ProvenanceIsReviewed,
   OnlyOwnersSubmit, PTL DEF ImplementsPublishing
------------------------------------------------------------------------------
(* Who waits for whom.                                                     *)

\* Whoever waits, other than for a slug, waits for a transaction that has gone
\* on to a later statement.
LEMMA WaitsForLater ==
    ASSUME TxInv, NEW x \in Writers, NEW y \in WaitsFor(x), Pending(x) # "slug"
    PROVE  Level[Pending(x)] < Level[Pending(y)]
<1>1. PICK l \in Locks(x), h \in held : h[1] = y /\ h[2] = l[1]
  BY DEF WaitsFor
<1>2. RowLevel[l[1][1]] = Level[Pending(x)]
  BY LocksType
<1>3. Level[Pending(h[1])] > RowLevel[h[2][1]]
  BY DEF TxInv, LocksInOrder
<1>4. Level[Pending(y)] > Level[Pending(x)]
  BY <1>1, <1>2, <1>3
<1>5. Level[Pending(x)] \in Nat /\ Level[Pending(y)] \in Nat
  <2>1. ASSUME NEW z \in Writers PROVE Level[Pending(z)] \in Nat
    <3>1. Pending(z) \in Statements \cup {"none"}
      BY InFlight
    <3> QED BY <3>1 DEF Statements, Level
  <2> QED BY <2>1 DEF WaitsFor
<1> QED BY <1>4, <1>5

\* All transactions of a cycle are in it.
LEMMA CycleIsShared ==
    ASSUME NEW W \in SUBSET Writers, \A x \in W : WaitsFor(x) \cap W # {}, NEW x \in W
    PROVE  InCycle(x)
BY DEF InCycle

\* In a cycle somebody waits for a slug.
LEMMA CycleHasSlug ==
    ASSUME TxInv, NEW W \in SUBSET Writers, \A x \in W : WaitsFor(x) \cap W # {},
           NEW w \in W
    PROVE  \E x \in W : Pending(x) = "slug"
<1> SUFFICES ASSUME \A x \in W : Pending(x) # "slug" PROVE FALSE
  OBVIOUS
<1> DEFINE Below(k) == \A x \in W : Level[Pending(x)] < k
<1>1. \A x \in W : Level[Pending(x)] \in 0..7
  <2>1. ASSUME NEW x \in W PROVE Pending(x) \in Statements \cup {"none"}
    BY InFlight
  <2> QED BY <2>1 DEF Statements, Level
<1>2. ASSUME NEW k \in 0..7, Below(k + 1) PROVE Below(k)
  <2>1. ASSUME NEW x \in W PROVE \E y \in W : Level[Pending(x)] < Level[Pending(y)]
    BY WaitsForLater
  <2>2. ASSUME NEW x \in W PROVE Level[Pending(x)] < k
    <3>1. PICK y \in W : Level[Pending(x)] < Level[Pending(y)]
      BY <2>1
    <3>2. Level[Pending(y)] < k + 1
      BY <1>2
    <3> QED BY <1>1, <3>1, <3>2
  <2> QED BY <2>2
<1>3. Below(8)
  BY <1>1
<1>4. Below(0)
  <2> HIDE DEF Below
  <2>1. /\ Below(7 + 1) => Below(7)
        /\ Below(6 + 1) => Below(6)
        /\ Below(5 + 1) => Below(5)
        /\ Below(4 + 1) => Below(4)
        /\ Below(3 + 1) => Below(3)
        /\ Below(2 + 1) => Below(2)
        /\ Below(1 + 1) => Below(1)
        /\ Below(0 + 1) => Below(0)
    BY <1>2
  <2> QED BY <1>3, <2>1
<1> QED BY <1>1, <1>4

\* The handlers' statements lock versions before apps, apps before what hangs
\* on them, and the revision last, so that PostgreSQL never has a deadlock to
\* break in which nobody is waiting for an app's slug.
THEOREM DeadlocksAreAboutSlugs == TxSpec => []OnlySlugsDeadlock
<1>1. TxInv => OnlySlugsDeadlock
  <2> SUFFICES ASSUME TxInv, NEW w \in Writers, InCycle(w)
               PROVE  \E x \in Writers : InCycle(x) /\ Pending(x) = "slug"
    BY DEF OnlySlugsDeadlock
  <2>1. PICK W \in SUBSET Writers : w \in W /\ \A x \in W : WaitsFor(x) \cap W # {}
    BY DEF InCycle
  <2>2. PICK x \in W : Pending(x) = "slug"
    BY <2>1, CycleHasSlug
  <2>3. InCycle(x)
    BY <2>1, CycleIsShared
  <2> QED BY <2>2, <2>3
<1> QED BY <1>1, TxStarts, TxSteps, PTL DEF TxSpec
==============================================================================
