----------------------------- MODULE EventStream -----------------------------
(***************************************************************************)
(* The audit event stream of one task (apps/api/event_stream.py): a browser *)
(* follows the committed events of the current generation, reconnects with *)
(* the id of the last event it got, and meets resets.  The audit log is    *)
(* what ApiRequests keeps: per generation a stream numbered from 1, its    *)
(* events visible in order when their transaction commits.                 *)
(*                                                                         *)
(* A notification only ends the wait early; the heartbeat ends it anyway,  *)
(* so a lost notification is a wait that takes longer.                     *)
(***************************************************************************)
EXTENDS Integers, Sequences

CONSTANTS
    AfterSequences,  \* values of the query parameter after_sequence
    PageSize,        \* rows list_events returns (1000 in the code)
    MaxEvents,       \* bound on the events of a generation
    MaxGenerations,  \* bound on resets
    MaxDrops         \* bound on lost connections

Inputs == /\ AfterSequences \subseteq Nat
          /\ PageSize \in Nat \ {0} /\ MaxEvents \in Nat \ {0, 1}
          /\ MaxGenerations \in Nat \ {0} /\ MaxDrops \in Nat

Generations == 1..MaxGenerations
NoGeneration == 0    \* of a missing or malformed cursor

VARIABLES
    generation,  \* the task's committed generation
    log,         \* generation -> number of committed events
    url,         \* after_sequence of the client's URL, kept on a reconnect
    lastEventId, \* the client's cursor: [generation, sequence]
    reader,      \* the server's iterator: [pc, generation, sequence]
    received,    \* generation -> sequence numbers the client got, in order
    drops        \* connections lost so far

vars == <<generation, log, url, lastEventId, reader, received, drops>>
database == <<generation, log>>

Closed == [pc |-> "closed", generation |-> NoGeneration, sequence |-> 0]

ClientInit == /\ url \in AfterSequences
              /\ lastEventId = [generation |-> NoGeneration, sequence |-> 0]
              /\ reader = Closed
              /\ received = [g \in Generations |-> <<>>]
              /\ drops = 0

\* The client comes when the task has some history.
Init == /\ generation \in Generations
        /\ log \in [Generations -> 0..MaxEvents]
        /\ \A g \in Generations : log[g] > 0 <=> g <= generation
        /\ ClientInit

-----------------------------------------------------------------------------
(* The audit log.                                                          *)

\* A transaction commits with the events its handler appended, however many.
CommitEvents(n) ==
    /\ log[generation] + n <= MaxEvents
    /\ log' = [log EXCEPT ![generation] = @ + n]
    /\ UNCHANGED <<generation, url, lastEventId, reader, received, drops>>

\* reset_demo commits two events with the generation it starts.
Reset ==
    /\ generation < MaxGenerations
    /\ generation' = generation + 1
    /\ log' = [log EXCEPT ![generation'] = 2]
    /\ UNCHANGED <<url, lastEventId, reader, received, drops>>

-----------------------------------------------------------------------------
(* The stream.                                                             *)

\* A cursor whose generation is not looked at.
AnyCursor == IF lastEventId.generation # NoGeneration THEN lastEventId.sequence ELSE url

\* parse_event_cursor, and the sequence to start after.
StartAfter == IF lastEventId.generation = generation THEN lastEventId.sequence ELSE url

\* task_event_stream, iter_task_events up to its loop: the cursor counts in the
\* generation it names, any other starts at after_sequence.
Connect ==
    /\ reader.pc = "closed"
    /\ reader' = [pc |-> "get_task", generation |-> generation, sequence |-> StartAfter]
    /\ UNCHANGED <<database, url, lastEventId, received, drops>>

\* A new generation is read from its first event.
SequenceNow == IF generation = reader.generation THEN reader.sequence ELSE 0

\* A round that stays with the generation it connected to.
GetTaskOnce ==
    /\ reader.pc = "get_task"
    /\ reader' = [reader EXCEPT !.pc = "list_events"]
    /\ UNCHANGED <<database, url, lastEventId, received, drops>>

\* The first query of a round.
GetTask ==
    /\ reader.pc = "get_task"
    /\ reader' = [pc |-> "list_events", generation |-> generation, sequence |-> SequenceNow]
    /\ UNCHANGED <<database, url, lastEventId, received, drops>>

\* list_events: the page of committed events after the sequence.
PageEnd == LET last == log[reader.generation]
           IN  IF last > reader.sequence + PageSize THEN reader.sequence + PageSize
               ELSE IF last > reader.sequence THEN last ELSE reader.sequence

\* The events of the page up to number "last" reach the client.
Yield(last) ==
    LET sent == [i \in 1..(last - reader.sequence) |-> reader.sequence + i]
    IN  /\ received' = [received EXCEPT ![reader.generation] = @ \o sent]
        /\ lastEventId' = IF sent = <<>> THEN lastEventId
                          ELSE [generation |-> reader.generation, sequence |-> last]

\* The second query of a round, every event of its page delivered; then the wait.
ListEvents ==
    /\ reader.pc = "list_events"
    /\ Yield(PageEnd)
    /\ reader' = [reader EXCEPT !.pc = "wait", !.sequence = PageEnd]
    /\ UNCHANGED <<database, url, drops>>

\* The connection breaks while the page is sent.
ListEventsCut ==
    /\ reader.pc = "list_events" /\ drops < MaxDrops
    /\ \E last \in reader.sequence..PageEnd : Yield(last)
    /\ reader' = Closed
    /\ drops' = drops + 1
    /\ UNCHANGED <<database, url>>

\* listener.notifies: a notification or the heartbeat.
Wake ==
    /\ reader.pc = "wait"
    /\ reader' = [reader EXCEPT !.pc = "get_task"]
    /\ UNCHANGED <<database, url, lastEventId, received, drops>>

\* The connection breaks between two rounds.
Drop ==
    /\ reader.pc \in {"get_task", "wait"} /\ drops < MaxDrops
    /\ reader' = Closed
    /\ drops' = drops + 1
    /\ UNCHANGED <<database, url, lastEventId, received>>

Next == \/ \E n \in 1..MaxEvents : CommitEvents(n)
        \/ Reset \/ Connect \/ GetTask \/ ListEvents \/ ListEventsCut \/ Wake \/ Drop

Spec == Init /\ [][Next]_vars

-----------------------------------------------------------------------------
(* Properties.                                                             *)

\* The iterator never runs ahead of the log it reads, except where a URL asked
\* it to start later.
TypeOK == /\ reader.pc \in {"closed", "get_task", "list_events", "wait"}
          /\ reader.generation \in Generations \cup {NoGeneration}
          /\ lastEventId.generation \in Generations \cup {NoGeneration}
          /\ \A g \in Generations : Len(received[g]) <= log[g]

\* Over all connections the events of a generation reach the client in order,
\* without a duplicate or a hole after the first, which is the one after the
\* position the client asked for or the generation's first
\* (event_stream.iter_task_events).
DeliveredInOrder ==
    \A g \in Generations : received[g] # <<>> =>
        /\ received[g][1] \in {1, url + 1}
        /\ \A i \in 2..Len(received[g]) : received[g][i] = received[g][i - 1] + 1

\* event_stream.py:5 "notification loss cannot create an audit gap": an event that
\* is committed reaches the client unless a reset starts another generation or
\* the URL asked to skip it.
EventsDelivered ==
    \A g \in Generations, n \in 1..MaxEvents :
        (generation = g /\ log[g] >= n)
            ~> (generation # g \/ n <= url \/ \E i \in DOMAIN received[g] : received[g][i] = n)

\* tests/api/test_event_stream.py:51 "test_stale_generation_cursor_replays_current_
\* generation": what a client with a cursor of an earlier generation gets of the
\* current one begins with its first event.
StaleCursorReplays ==
    \A g, h \in Generations :
        h < g /\ received[h] # <<>> /\ received[g] # <<>> => received[g][1] = 1
=============================================================================
