---------------------------- MODULE TrustedMemory ----------------------------
(***************************************************************************)
(* Trusted memory of one tenant and project on PostgreSQL                  *)
(* (apps/api/postgres_store.py, apps/api/trusted_memory,                   *)
(* apps/api/internal_finalizer.py): a hash-linked history per lineage, the *)
(* materialized current fact, the outbox, the decision closures, the       *)
(* lifecycle records, the finalizer that promotes the facts of a closure   *)
(* in one transaction, and the walk that verifies a stream.                *)
(*                                                                         *)
(* Advisory transaction locks guard a lineage and the project.  A          *)
(* transaction's writes are private until it commits; a lost connection    *)
(* rolls it back.  A call that is refused before it writes, or that is     *)
(* answered from an idempotency key, changes nothing and is not a step.    *)
(***************************************************************************)
EXTENDS Integers, Sequences, FiniteSets, SequencesExt

CONSTANTS
    Sessions,       \* concurrent API processes
    Lineages,       \* lineage ids, ordered
    Contents,       \* fact cores, named by their digests, ordered
    Candidates,     \* the cores that are proposed as candidates
    Verified,       \* the lineages a reader verifies
    Closures,       \* decision closures, named by their digests
    VerifiedFacts,  \* closure -> the fact digests its evaluator result names
    Keys,           \* idempotency keys of callers
    Transitions,    \* the lifecycle transitions callers record
    MaxHistory,     \* bound on the events of a lineage
    PageSize        \* rows list_trusted_memory_history returns (1000 in the code)

AllowedLifecycleTransitions ==
    ({"CANDIDATE"} \X {"VALIDATED", "REJECTED", "QUARANTINED", "CONFLICTED", "EXPIRED",
                       "REVOKED"})
    \cup ({"VALIDATED"} \X {"SUPERSEDED", "CONFLICTED", "EXPIRED", "REVOKED"})

Project == 0    \* the lock of append_decision_closure, beside one per lineage

ASSUME OrderedIds == Lineages \subseteq Nat \ {Project} /\ Contents \subseteq Nat
ASSUME CallerInputs == Candidates \subseteq Contents /\ Verified \subseteq Lineages
ASSUME ClosuresName == /\ VerifiedFacts \in [Closures -> (SUBSET Contents) \ {{}}]
                       /\ \A c \in Closures : IsFiniteSet(VerifiedFacts[c])
ASSUME TransitionsAllowed == Transitions \subseteq AllowedLifecycleTransitions
ASSUME SessionsNamed == "free" \notin Sessions
ASSUME TrustedBounds == MaxHistory \in Nat \ {0} /\ PageSize \in Nat \ {0}

VARIABLES
    streams,   \* lineage -> its committed rows
    closures,  \* committed decision closures: [closure, key]
    lock,      \* advisory lock -> the session that holds it
    session,   \* session -> its open transaction
    walk       \* a reader in verify_trusted_memory_stream

trustedVars == <<streams, closures, lock, session, walk>>

Free == "free"
NoFact == [eligible |-> FALSE]

\* An event hash covers the record and its predecessor's hash, so it stands for
\* the whole prefix it closes.
ZeroHash == <<>>
EventHash(previous, record) == Append(previous, record)

EmptyStream == [history |-> <<>>, root |-> ZeroHash, current |-> NoFact, outbox |-> <<>>]
NoTransaction == [pc |-> "idle", work |-> <<>>, closure |-> {}, facts |-> <<>>, key |-> {}]
NoWalk == [pc |-> "idle", lineage |-> Project, sequence |-> 0, hash |-> ZeroHash, began |-> 0,
           verdict |-> TRUE]

TrustedInit == /\ streams = [l \in Lineages |-> EmptyStream]
               /\ closures = {}
               /\ lock = [r \in Lineages \cup {Project} |-> Free]
               /\ session = [s \in Sessions |-> NoTransaction]
               /\ walk = NoWalk

-----------------------------------------------------------------------------
(* Records.  A revision id names one revision of one core.                 *)

Candidate(content) == [type |-> "candidate", content |-> content]
Fact(content, revision, closure) ==
    [type |-> "fact", content |-> content, revision |-> revision, closure |-> closure]
LifecycleTransition(fact, edge) ==
    [type |-> "transition", content |-> fact.content, revision |-> fact.revision,
     from |-> edge[1], to |-> edge[2]]
Supersession(fact) ==
    [type |-> "supersession", content |-> fact.content, revision |-> fact.revision]
Revocation(fact) ==
    [type |-> "revocation", content |-> fact.content, revision |-> fact.revision]
Member(l, fact) == [lineage |-> l, content |-> fact.content, revision |-> fact.revision]
Conflict(members) == [type |-> "conflict", members |-> members]

IsFact(r) == r.type = "fact"
IsCandidate(r) == r.type = "candidate"

FactsOf(l) == {e.record : e \in {x \in ToSet(streams[l].history) : IsFact(x.record)}}
Conflicts(l) ==
    UNION {{Conflict({Member(l, f), Member(k, g)}) : g \in {x \in FactsOf(k) : x.content # f.content}} :
              f \in FactsOf(l), k \in Lineages}

\* What a caller may append: build_conflict, build_supersession and
\* build_revocation start from facts the caller has read.
LifecycleRecords(l) ==
    {LifecycleTransition(f, e) : f \in FactsOf(l), e \in Transitions}
    \cup {Supersession(f) : f \in FactsOf(l)} \cup {Revocation(f) : f \in FactsOf(l)}
    \cup Conflicts(l)

\* expected_current_event_hash: none, or the hash of an event the caller has seen.
Expectations(l) == {{}} \cup {{e.event_hash} : e \in ToSet(streams[l].history)}

-----------------------------------------------------------------------------
(* append_trusted_memory_record on the rows its transaction sees.          *)

ProjectionMatches(l, r, current) ==
    CASE r.type = "conflict" -> Member(l, current.fact) \in r.members
      [] r.type = "transition" -> /\ r.content = current.fact.content
                                  /\ r.revision = current.fact.revision
                                  /\ r.from = current.state
      [] OTHER -> r.content = current.fact.content /\ r.revision = current.fact.revision

Projects(l, r, expected, current) ==
    CASE IsCandidate(r) -> expected = {}
      [] IsFact(r) /\ current = NoFact -> expected = {} /\ r.revision = 1
      [] IsFact(r) /\ current # NoFact ->
             expected = {current.projection} /\ r.revision = current.fact.revision + 1
      [] OTHER -> /\ current # NoFact
                  /\ expected = {current.projection}
                  /\ ProjectionMatches(l, r, current)

ProjectedState(r) == CASE r.type = "transition" -> r.to
                       [] r.type = "conflict" -> "CONFLICTED"
                       [] r.type = "supersession" -> "SUPERSEDED"
                       [] r.type = "revocation" -> "REVOKED"

\* Mutant: a lifecycle record moves the projection without its event hash.
ProjectionSkipsHash(current, r, hash) ==
    CASE IsCandidate(r) -> current
      [] IsFact(r) -> [eligible |-> TRUE, fact |-> r, state |-> "VALIDATED",
                       fact_event |-> hash, projection |-> hash]
      [] OTHER -> [current EXCEPT !.state = ProjectedState(r)]

Projection(current, r, hash) ==
    CASE IsCandidate(r) -> current
      [] IsFact(r) -> [eligible |-> TRUE, fact |-> r, state |-> "VALIDATED",
                       fact_event |-> hash, projection |-> hash]
      [] OTHER -> [current EXCEPT !.state = ProjectedState(r),
                                  !.eligible = ProjectedState(r) = "VALIDATED",
                                  !.projection = hash]

AppendedRow(row, r, key) ==
    LET hash == EventHash(row.root, r)
    IN  [history |-> Append(row.history, [record |-> r, previous_hash |-> row.root,
                                          event_hash |-> hash, key |-> key]),
         root |-> hash,
         current |-> Projection(row.current, r, hash),
         outbox |-> Append(row.outbox, hash)]

Keyed(row, key) == {e \in ToSet(row.history) : e.key = key}

-----------------------------------------------------------------------------
(* Transactions.                                                           *)

Overlay(work, l) == IF l \in DOMAIN work THEN work[l] ELSE streams[l]
Staged(work, l, row) == [k \in DOMAIN work \cup {l} |-> IF k = l THEN row ELSE work[k]]
CanTake(s, r) == lock[r] \in {Free, s}
Take(s, r) == lock' = [lock EXCEPT ![r] = s]

End(s) == /\ session' = [session EXCEPT ![s] = NoTransaction]
          /\ lock' = [r \in DOMAIN lock |-> IF lock[r] = s THEN Free ELSE lock[r]]

Rollback(s) == End(s) /\ UNCHANGED <<streams, closures, walk>>

\* A candidate or a lifecycle record.
Record(s, l, r, key, expected) ==
    /\ session[s].pc = "idle" /\ lock[l] = Free
    /\ Keyed(streams[l], <<"record", {key}>>) = {}
    /\ Projects(l, r, expected, streams[l].current)
    /\ Len(streams[l].history) < MaxHistory
    /\ session' = [session EXCEPT ![s] = [NoTransaction EXCEPT
                      !.pc = "commit",
                      !.work = Staged(<<>>, l, AppendedRow(streams[l], r, <<"record", {key}>>))]]
    /\ Take(s, l)
    /\ UNCHANGED <<streams, closures, walk>>

\* FinalizationRequest.facts as _build_facts sorts them: exactly the facts the
\* closure names, one revision of each.
Before(a, b) == \/ a.lineage < b.lineage
                \/ a.lineage = b.lineage /\ a.record.content < b.record.content
Inputs(closure) ==
    LET names == VerifiedFacts[closure]
        places == UNION {{[lineage |-> l, expected |-> hash, record |-> Fact(c, v, closure)] :
                              c \in names, v \in 1..MaxHistory, hash \in Expectations(l)} :
                             l \in Lineages}
    IN  {facts \in [1..Cardinality(names) -> places] :
            /\ {facts[i].record.content : i \in DOMAIN facts} = names
            /\ \A i, j \in DOMAIN facts : i < j => Before(facts[i], facts[j])}

\* build_decision_closure: only a terminal CONTROL decision closes, on a signed and
\* admitted evaluator result that is bound to the same task, generation and bytes,
\* with evidence that is not listed twice.
Closable(request) == /\ request.authority = "CONTROL" /\ request.terminal
                     /\ request.signed /\ request.admitted
                     /\ request.bound /\ request.evidenced
TransitionRequests ==
    [authority : {"CONTROL", "MODEL", "WORKER", "MATRIX", "REVIEWER"}, terminal : BOOLEAN,
     signed : BOOLEAN, admitted : BOOLEAN, bound : BOOLEAN, evidenced : BOOLEAN]

\* append_decision_closure: the key names one closure, the digest one row.
ClosureRows(closure, key) ==
    IF \E c \in closures : c.key = key \/ c.closure = closure THEN {}
    ELSE {[closure |-> closure, key |-> key]}
ClosureConflicts(closure, key) == \E c \in closures : c.key = key /\ c.closure # closure

Finalize(s, closure, key) ==
    /\ session[s].pc = "idle" /\ lock[Project] = Free
    /\ ~ClosureConflicts(closure, key)
    /\ \E facts \in Inputs(closure) :
          session' = [session EXCEPT ![s] = [NoTransaction EXCEPT
                         !.pc = "facts", !.facts = facts, !.key = {key},
                         !.closure = ClosureRows(closure, key)]]
    /\ Take(s, Project)
    /\ UNCHANGED <<streams, closures, walk>>

\* Mutant: each fact is committed by itself.
FinalizeFactAlone(s) ==
    /\ session[s].pc = "facts"
    /\ LET t == session[s]
           input == Head(t.facts)
       IN  /\ CanTake(s, input.lineage)
           /\ Projects(input.lineage, input.record, input.expected,
                       streams[input.lineage].current)
           /\ Len(streams[input.lineage].history) < MaxHistory
           /\ streams' = [streams EXCEPT ![input.lineage] =
                             AppendedRow(@, input.record, <<"fact", t.key>>)]
           /\ closures' = closures \cup t.closure
           /\ session' = [session EXCEPT ![s].facts = Tail(@), ![s].closure = {},
                             ![s].pc = IF Len(t.facts) = 1 THEN "commit" ELSE "facts"]
           /\ UNCHANGED <<lock, walk>>

\* One fact of a finalization: replayed, appended, or refused, which rolls the
\* whole finalization back.
FinalizeFact(s) ==
    /\ session[s].pc = "facts"
    /\ LET t == session[s]
           input == Head(t.facts)
           l == input.lineage
           row == Overlay(t.work, l)
           keyed == Keyed(row, <<"fact", t.key>>)
           step(work) == session' = [session EXCEPT ![s] = [t EXCEPT
                             !.facts = Tail(@), !.work = work,
                             !.pc = IF Len(t.facts) = 1 THEN "commit" ELSE "facts"]]
       IN  /\ CanTake(s, l)
           /\ \/ /\ \E e \in keyed : e.record = input.record
                 /\ step(t.work) /\ Take(s, l) /\ UNCHANGED <<streams, closures, walk>>
              \/ /\ keyed = {} /\ Projects(l, input.record, input.expected, row.current)
                 /\ Len(row.history) < MaxHistory
                 /\ step(Staged(t.work, l, AppendedRow(row, input.record, <<"fact", t.key>>)))
                 /\ Take(s, l) /\ UNCHANGED <<streams, closures, walk>>
              \/ /\ IF keyed = {} THEN ~Projects(l, input.record, input.expected, row.current)
                    ELSE \A e \in keyed : e.record # input.record
                 /\ Rollback(s)

Commit(s) ==
    /\ session[s].pc = "commit"
    /\ streams' = [l \in Lineages |-> Overlay(session[s].work, l)]
    /\ closures' = closures \cup session[s].closure
    /\ End(s)
    /\ UNCHANGED walk

\* The connection is lost, or the process dies: the server rolls back.
Lose(s) == session[s].pc # "idle" /\ Rollback(s)

-----------------------------------------------------------------------------
(* verify_trusted_memory_stream: pages of history, then the stream row.     *)

Verify(l) ==
    /\ walk.pc = "idle"
    /\ walk' = [NoWalk EXCEPT !.pc = "page", !.lineage = l, !.began = Len(streams[l].history)]
    /\ UNCHANGED <<streams, closures, lock, session>>

Page(history, after) == SubSeq(history, after + 1, Min({after + PageSize, Len(history)}))
Linked(page, hash) ==
    \A i \in 1..Len(page) :
        LET before == IF i = 1 THEN hash ELSE page[i - 1].event_hash
        IN  page[i].previous_hash = before
            /\ page[i].event_hash = EventHash(before, page[i].record)

VerifyPage ==
    /\ walk.pc = "page"
    /\ LET page == Page(streams[walk.lineage].history, walk.sequence)
       IN  walk' = IF page = <<>> THEN [walk EXCEPT !.pc = "stream"]
                   ELSE IF ~Linked(page, walk.hash) THEN [walk EXCEPT !.pc = "done",
                                                                      !.verdict = FALSE]
                   ELSE [walk EXCEPT !.sequence = @ + Len(page), !.hash = Last(page).event_hash]
    /\ UNCHANGED <<streams, closures, lock, session>>

VerifyRoot ==
    /\ walk.pc = "stream"
    /\ walk' = [walk EXCEPT !.pc = "done",
                   !.verdict = /\ Len(streams[walk.lineage].history) = walk.sequence
                               /\ streams[walk.lineage].root = walk.hash]
    /\ UNCHANGED <<streams, closures, lock, session>>

Answer == walk.pc = "done" /\ walk' = NoWalk /\ UNCHANGED <<streams, closures, lock, session>>

-----------------------------------------------------------------------------
RecordAny(s) ==
    \E l \in Lineages, key \in Keys :
        \/ \E c \in Candidates : Record(s, l, Candidate(c), key, {})
        \/ \E r \in LifecycleRecords(l), h \in Expectations(l) : Record(s, l, r, key, h)

FinalizeAny(s) ==
    \E request \in TransitionRequests :
        /\ Closable(request)
        /\ \E closure \in Closures, key \in Keys : Finalize(s, closure, key)

TrustedNext ==
    \/ \E s \in Sessions : \/ RecordAny(s) \/ FinalizeAny(s) \/ FinalizeFact(s)
                           \/ Commit(s) \/ Lose(s)
    \/ \E l \in Verified : Verify(l)
    \/ VerifyPage \/ VerifyRoot \/ Answer

TrustedSpec == TrustedInit /\ [][TrustedNext]_trustedVars

\* A waiting session gets the lock: PostgreSQL queues lock requests in order.
TrustedFairSpec ==
    TrustedSpec /\ \A s \in Sessions :
                      SF_trustedVars(FinalizeFact(s)) /\ WF_trustedVars(Commit(s))

-----------------------------------------------------------------------------
(* Properties.                                                             *)

Records == UNION {{e.record : e \in ToSet(streams[l].history)} : l \in Lineages}

\* Types, and locks belong to open transactions only.
TrustedTypeOK ==
    /\ DOMAIN streams = Lineages
    /\ \A l \in Lineages : /\ Len(streams[l].history) <= MaxHistory
                           /\ streams[l].current.eligible \in BOOLEAN
    /\ \A c \in closures : c.closure \in Closures /\ c.key \in Keys
    /\ \A s \in Sessions : session[s].pc \in {"idle", "facts", "commit"}
    /\ \A r \in DOMAIN lock : lock[r] \in Sessions \cup {Free}
    /\ \A r \in DOMAIN lock, s \in Sessions : lock[r] = s => session[s].pc # "idle"
    /\ walk.pc \in {"idle", "page", "stream", "done"}

\* Each committed stream is one hash chain from the zero hash to its root, keyed
\* once per event and mirrored one to one in the outbox, whatever mix of
\* candidates, facts and lifecycle records built it.
StreamIntact ==
    \A l \in Lineages :
        LET h == streams[l].history
        IN  /\ Linked(h, ZeroHash)
            /\ streams[l].root = IF h = <<>> THEN ZeroHash ELSE Last(h).event_hash
            /\ streams[l].outbox = [i \in 1..Len(h) |-> h[i].event_hash]
            /\ \A i, j \in 1..Len(h) : h[i].key = h[j].key => i = j

\* The materialized current fact can be rebuilt from the history alone: the last
\* promoted fact, in the state the last record about it left, eligible exactly
\* when no record followed, and the revisions promoted are 1, 2, 3...  So a fact
\* that was invalidated is never eligible again: only a new revision is.
CurrentRebuilt ==
    \A l \in Lineages :
        LET h == streams[l].history
            facts == {i \in 1..Len(h) : IsFact(h[i].record)}
            moves == {i \in 1..Len(h) : ~IsCandidate(h[i].record)}
            LastOf(places) == {i \in places : \A j \in places : j <= i}
            current == streams[l].current
        IN  /\ \A i \in facts : h[i].record.revision = Cardinality({j \in facts : j <= i})
            /\ (current = NoFact) = (facts = {})
            /\ \A i \in LastOf(facts) : /\ current.fact = h[i].record
                                       /\ current.fact_event = h[i].event_hash
            /\ facts # {} =>
                 \A i \in LastOf(moves) : /\ current.projection = h[i].event_hash
                                          /\ current.eligible = IsFact(h[i].record)

\* A decision closure and all the facts its evaluator result names become visible
\* together or not at all, and no fact is visible without its closure.
ClosureIsWhole ==
    /\ \A c \in closures, content \in Contents :
           content \in VerifiedFacts[c.closure] =>
               \E r \in Records : IsFact(r) /\ r.content = content /\ r.closure = c.closure
    /\ \A r \in Records : IsFact(r) => \E c \in closures : c.closure = r.closure

\* The walk rejects a stream only when an event was committed while it ran.
RejectedOnlyIfMoved ==
    walk.pc = "done" /\ ~walk.verdict => Len(streams[walk.lineage].history) > walk.began

\* The current fact follows from the history, which is one chain, and the verifying walk
\* accepts it.
CurrentIsRebuilt == TrustedTypeOK /\ CurrentRebuilt /\ StreamIntact /\ RejectedOnlyIfMoved

\* Every transaction ends, so every lock is given up: sorted lineages under the
\* project lock cannot wait for each other.
TransactionsEnd == \A s \in Sessions : session[s].pc # "idle" ~> session[s].pc = "idle"

-----------------------------------------------------------------------------
(* What the design document says.                                          *)

\* "already-consumed ... closures fail": a closure promotes a fact in a lineage once.
ClosureConsumedOnce ==
    \A l \in Lineages :
        LET h == streams[l].history
        IN  \A i, j \in 1..Len(h) :
                IsFact(h[i].record) /\ IsFact(h[j].record)
                /\ h[i].record.closure = h[j].record.closure
                /\ h[i].record.content = h[j].record.content => i = j

\* "All other source states have no outgoing transitions": no lifecycle record is
\* accepted about a fact that is not VALIDATED any more.
TerminalStatesStay ==
    \A l \in Lineages :
        LET moves == SelectSeq(streams[l].history, LAMBDA e : ~IsCandidate(e.record))
        IN  \A i \in 2..Len(moves) :
                IsFact(moves[i].record) \/ IsFact(moves[i - 1].record)
=============================================================================
