------------------------------- MODULE Polling -------------------------------
(***************************************************************************)
(* Nexus instances that poll the catalogue endpoint.                       *)
(*                                                                         *)
(* Composes CatalogService with its clients: every handler serves one      *)
(* instance, which asks again and again, without a credential, for its     *)
(* channel and platform, sends the ETag of the document it holds and       *)
(* keeps that document on a 304.  Statements fail, answers get lost, the   *)
(* process restarts, other publications happen; what an instance ends up   *)
(* holding must be true, and must not stay behind for ever.                *)
(***************************************************************************)
EXTENDS CatalogService

CONSTANT KeysOf     \* what each instance asks for, one key at a time: its
                    \* platform version changes when it is upgraded

ASSUME PollingAssumption == KeysOf \in [Reqs -> SUBSET Keys]

VARIABLES
    inst,    \* what each instance holds: a document, or None
    since,   \* history: the revision when the instance's request arrived
    past     \* history: what the tables said at each revision so far

instVars == <<inst, since, past>>
pollVars == <<vars, instVars>>

\* What the tables say of the public catalogue.
TablesNow == [rows |-> [k \in Keys |-> CatalogRows(k, {})], trans |-> trans]

PollInit ==
    /\ Init
    /\ inst = [r \in Reqs |-> None]
    /\ since = [r \in Reqs |-> 0]
    /\ past = [n \in 0..MaxRevision |-> IF n = 0 THEN TablesNow ELSE None]

\* An instance sends its request.
Poll(r) ==
    /\ \E k \in KeysOf[r] : Arrive(r, None, k)
    /\ since' = [since EXCEPT ![r] = revision]
    /\ UNCHANGED <<inst, past>>

\* The handler's statements leave the instance alone.
Revision(r) == ReadRevision(r) /\ UNCHANGED instVars
Load(r) == LoadSnapshot(r) /\ UNCHANGED instVars
Build(r) == BuildRows(r) /\ UNCHANGED instVars
TextsOf(r, todo) ==
    req[r].todo = todo /\ (\E a \in todo : ReadTexts(r, a)) /\ UNCHANGED instVars
Save(r) == SaveSnapshot(r) /\ UNCHANGED instVars
Prune(r) == PruneSnapshots(r) /\ UNCHANGED instVars
Refuse(r) == Abort(r) /\ UNCHANGED instVars

\* The snapshot a handler answers with.
Served(r) == [rev |-> req[r].rev, doc |-> req[r].doc, signed |-> req[r].signed]

ETagOfRevision(s) ==                    \* mutant: the revision for a digest
    s.rev

\* The ETag is a digest of the document's bytes, its signature included.
ETag(s) == <<s.doc, s.signed>>

\* etagMatches: If-None-Match names the document the instance holds.
NotModified(r) == inst[r] # None /\ ETag(inst[r]) = ETag(Served(r))

\* The answer arrives: a 304, on which the instance keeps what it holds, or
\* the document.
Deliver(r) ==
    /\ Answer(r)
    /\ inst' = [inst EXCEPT ![r] = IF NotModified(r) THEN @ ELSE Served(r)]
    /\ UNCHANGED <<since, past>>

\* "catalog response was cut short": the instance keeps what it holds.
CutShort(r) ==
    /\ Answer(r)
    /\ UNCHANGED instVars

\* A publication, after which the tables say something else.
Commit ==
    /\ Publish
    /\ past' = [past EXCEPT ![revision'] = TablesNow']
    /\ UNCHANGED <<inst, since>>

Operate == RebuildSnapshots /\ UNCHANGED instVars
Crash(s) == Restart(s) /\ UNCHANGED instVars

PollNext ==
    \/ \E r \in Reqs :
          \/ Poll(r) \/ Deliver(r) \/ CutShort(r) \/ Refuse(r)
          \/ Revision(r) \/ Load(r) \/ Build(r) \/ Save(r) \/ Prune(r)
          \/ TextsOf(r, req[r].todo)
    \/ Operate
    \/ \E s \in SigningKeys \cup {None} : Crash(s)
    \/ Commit

\* Instances keep polling, and a statement or an answer that is tried again
\* and again does not fail every time: the faults of the model come and go,
\* and each of them lets the next poll start over.  A process that came up
\* without a key is started again with one.  Nothing is assumed of
\* publications, of the operator or of crashes.
Fairness ==
    /\ \A r \in Reqs :
          /\ SF_pollVars(Poll(r))
          /\ SF_pollVars(Revision(r))
          /\ SF_pollVars(Load(r))
          /\ SF_pollVars(Build(r))
          /\ \A todo \in SUBSET Apps : SF_pollVars(TextsOf(r, todo))
          /\ SF_pollVars(Save(r))
          /\ SF_pollVars(Prune(r))
          /\ SF_pollVars(Deliver(r))
    /\ WF_pollVars(signer = None /\ \E s \in SigningKeys : Crash(s))

PollSafety == PollInit /\ [][PollNext]_pollVars

PollSpec == PollSafety /\ Fairness

------------------------------------------------------------------------------
(* Properties.                                                             *)

\* Every part of an answer was true while its request was in progress: the
\* rows are what the tables said at one revision between the arrival and now,
\* and the translations of each app listed what they said then or later, with
\* the document built by this handler or by any other.
AnswerWasTrue ==
    \A r \in Reqs :
        LET q == req[r]
        IN  q.pc \in {"prune", "done"} =>
              \E n \in since[r]..revision :
                  /\ q.doc.rows = past[n].rows[q.key]
                  /\ \A a \in Lists(q.doc) :
                        \E m \in n..revision : q.doc.texts[a] = past[m].trans[a]

\* No publication and no change of key since revision n was signed with s.
Settled(n, s) == revision = n /\ signer = s /\ ~rotated

\* "The endpoint every Nexus instance polls": once publications stop for long
\* enough, and a new key has been followed by a rebuild, every instance holds
\* the current catalogue under the current key, whatever failed before.
PublicationArrives ==
    \A r \in Reqs, n \in 0..MaxRevision, s \in SigningKeys :
        Settled(n, s) ~> \/ ~Settled(n, s)
                         \/ /\ inst[r] # None
                            /\ \E k \in KeysOf[r] : inst[r].doc = Catalogue(k, {})
                            /\ inst[r].signed = s
==============================================================================
