------------------------------ MODULE ApiStream ------------------------------
(***************************************************************************)
(* The API's request threads together with a browser that follows the      *)
(* task's audit stream: the stream of EventStream reads the events that    *)
(* the transactions of ApiRequests commit and meets the generations that   *)
(* their resets start.                                                     *)
(***************************************************************************)
EXTENDS ApiRequests

CONSTANTS AfterSequences, PageSize, MaxEvents, MaxDrops

VARIABLES url, lastEventId, reader, received, drops

client == <<url, lastEventId, reader, received, drops>>
composed == <<vars, client>>

\* The committed audit log as list_events counts it.
Log == [g \in Generations |-> Len(events[g])]

Stream == INSTANCE EventStream WITH generation <- task.generation, log <- Log
ASSUME StreamInputs == Stream!Inputs

StreamInit == Init /\ Stream!ClientInit

RequestStep == Next /\ UNCHANGED client
ReaderStep == /\ UNCHANGED vars
              /\ \/ Stream!Connect \/ Stream!GetTask \/ Stream!ListEvents
                 \/ Stream!ListEventsCut \/ Stream!Wake \/ Stream!Drop

StreamNext == RequestStep \/ ReaderStep

StreamSpec == StreamInit /\ [][StreamNext]_composed

\* The bound on the events of a generation leaves room for what the requests commit: five
\* events at most, after the two of the seed.
LogFits == MaxEvents \in Nat /\ MaxEvents >= 2 + 5 * MaxSends

\* What the reader does by itself: a browser reconnects; the server's loop runs on,
\* its wait is bounded by heartbeat_seconds.
ReaderGoesOn == UNCHANGED vars /\ (\/ Stream!Connect \/ Stream!GetTask
                                  \/ Stream!ListEvents \/ Stream!Wake)

-----------------------------------------------------------------------------
(* Where an instance may start: after n advances of generation g, each to  *)
(* the next stage, its approval decided and spent when EXECUTE is behind.  *)

History(g, n, scenario) ==
    LET row[i \in 0..n] == [Seeded(g, scenario) EXCEPT !.stage = FORWARD_PATH[i + 1],
                                                      !.version = i + 1]
        types(i) == IF row[i].stage = "EXECUTE"
                    THEN <<"approval.approved">> \o TransitionTypes("EXECUTE", scenario)
                    ELSE TransitionTypes(row[i].stage, scenario)
        stream[i \in 0..n] == IF i = 0 THEN Linked(<<>>, SeedTypes, row[0], 0)
                              ELSE Linked(stream[i - 1], types(i), row[i], 1)
    IN  stream[n]

Reached(g, n, scenario) ==
    /\ task = [Seeded(g, scenario) EXCEPT !.stage = FORWARD_PATH[n + 1], !.version = n + 1]
    /\ approvals = [h \in Generations |->
                       IF h # g \/ n < Position("APPROVAL") - 1 THEN <<>>
                       ELSE IF task.stage = "APPROVAL" THEN <<"PENDING">> ELSE <<"CONSUMED">>]
    /\ events = [h \in Generations |-> IF h > g THEN <<>>
                                       ELSE IF h = g THEN History(g, n, scenario)
                                       ELSE History(h, 0, "happy_path")]
    /\ NoCalls

-----------------------------------------------------------------------------
\* The requests are the environment the event stream was written for: what they
\* commit only ever extends the stream of the current generation or starts the
\* next one, whatever the threads interleave and however transactions end.
ImplementsStream == Stream!Spec

\* The client gets the events that requests commit in order, without a duplicate
\* or a hole, over all its connections: see EventStream.
DeliveredInOrder == TypeOK /\ Stream!TypeOK /\ Stream!DeliveredInOrder
=============================================================================
