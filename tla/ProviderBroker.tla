--------------------------- MODULE ProviderBroker ---------------------------
(***************************************************************************)
(* The paid model calls of a benchmark campaign (benchmarks/secure_memory/ *)
(* substrate): broker threads that share one budget ledger and one         *)
(* capability authority.  A dispatch checks the capability, reserves the   *)
(* budget of a signed ticket, marks it dispatched, calls the provider and  *)
(* settles or retains the reservation; it may retry once, on a second      *)
(* ticket.  Each operation of the ledger and of the authority holds that   *)
(* object's lock; a dispatch as a whole holds none.                        *)
(*                                                                         *)
(* The ledger's constructor admits one ticket per template, so a ticket    *)
(* stands for its template too.                                            *)
(***************************************************************************)
EXTENDS Integers, Sequences, FiniteSetsExt, Functions

CONSTANTS
    Threads,            \* threads that dispatch requests
    Tickets,            \* ids of preloaded budget tickets
    Ticket,             \* Ticket[k]: the signed ticket with id k
    Requests,           \* what callers dispatch
    Replies,            \* usages that the provider reports
    FailureKinds,       \* how calls of the provider fail
    CalibratedError,    \* bound on the error of the tokenizer
    TokenMargin,        \* added to a token estimate
    ByteMargin,         \* added to a byte count
    RequestCap, InputCap, OutputCap,    \* CAMPAIGN_RESERVATION
    CapabilityExpires,  \* last sequence at which the capability is valid
    MaxSequence,        \* bound: the trusted sequence stops here
    MaxRestarts,        \* bound: crashes
    NoTicket,
    NoUsage

VARIABLES
    events,       \* the ledger's events, in order
    resv,         \* resv[k]: the reservation of ticket k, as the ledger projects it
    capability,   \* state of the shared capability record
    sequence,     \* the trusted sequence number that stands for time
    frame,        \* frame[t]: thread t inside dispatch: where it is (pc), what it dispatches
                  \* (request), the ticket it spends, first the request's, then the retry's
    calls,        \* history: provider calls made under each ticket
    late,         \* history: calls t made although the capability was frozen
    restarts,     \* number of crashes
    replayed      \* number of events that the running process was started on

vars == <<events, resv, capability, sequence, frame, calls, late, restarts, replayed>>

TRANSIENT == {"429", "5xx", "timeout"}

ALLOWED_RETAIN_REASONS == TRANSIENT \cup
    {"provider_failure", "4xx", "unknown_usage", "contradictory_usage"}

ReservationStates == {"RESERVED", "DISPATCHED", "SETTLED", "RETAINED"}

TicketRecords == [owner: STRING, retryOwner: STRING, binding: STRING, maxInput: Nat,
                  maxOutput: Nat, expires: Nat]

RequestRecords == [ticket: Tickets, retry: Tickets \cup {NoTicket}, lease: SUBSET Tickets,
                   binding: STRING, leaseExpires: Nat, estimate: Nat, bytes: Nat]

ASSUME ConstantsAssumption ==
    /\ Ticket \in [Tickets -> TicketRecords]
    /\ Requests \subseteq RequestRecords
    /\ Replies \subseteq [input: Nat, output: Nat, reasoning: Nat]
    /\ FailureKinds \subseteq TRANSIENT \cup {"4xx", "provider_failure"}
    /\ NoTicket \notin Tickets /\ NoUsage \notin Replies
    /\ CalibratedError \in Nat /\ TokenMargin \in Nat /\ ByteMargin \in Nat
    /\ RequestCap \in Nat /\ InputCap \in Nat /\ OutputCap \in Nat
    /\ CapabilityExpires \in Nat /\ MaxSequence \in Nat /\ MaxRestarts \in Nat

NoFrame == [pc |-> "idle", request |-> NoTicket, ticket |-> NoTicket]

Frames == [pc: {"checked", "reserved", "dispatched", "sending", "backoff", "retry_checked",
                "freezing"}, request: Requests, ticket: Tickets]

Nothing == [state |-> "NONE", estimate |-> 0, bytes |-> 0, input |-> 0, output |-> 0,
            usage |-> NoUsage, reason |-> "none"]

-----------------------------------------------------------------------------
(* The budget ledger (budget.py).                                          *)

Reserved(r) == {k \in Tickets : r[k].state # "NONE"}

\* BudgetLedger.totals: a settled reservation still counts in full.
TotalInput(r) == SumFunction([k \in Reserved(r) |-> r[k].input])

TotalOutput(r) == SumFunction([k \in Reserved(r) |-> r[k].output])

WithinCaps(r) == /\ Cardinality(Reserved(r)) <= RequestCap
                 /\ TotalInput(r) <= InputCap
                 /\ TotalOutput(r) <= OutputCap

\* _append: the event and the projection change together.
Record(k, new) ==
    /\ events' = Append(events, [ticket |-> k, previous |-> resv[k].state, new |-> new])
    /\ resv' = [resv EXCEPT ![k] = new]

ReservedInput(q) == Max({q.estimate + CalibratedError + TokenMargin, q.bytes + ByteMargin})

NewReservation(k, q) ==
    [state |-> "RESERVED", estimate |-> q.estimate, bytes |-> q.bytes,
     input |-> ReservedInput(q), output |-> Ticket[k].maxOutput,
     usage |-> NoUsage, reason |-> "none"]

\* Mutant: the number of requests is capped, their tokens are not.
CanReserveUncapped(k, q) ==
    /\ sequence <= Ticket[k].expires
    /\ resv[k].state = "NONE"
    /\ sequence <= q.leaseExpires
    /\ k \in q.lease
    /\ q.binding = Ticket[k].binding
    /\ ReservedInput(q) <= Ticket[k].maxInput
    /\ Cardinality(Reserved(resv)) < RequestCap

\* Mutant: a ticket that was retained may be reserved again.
CanReserveRetained(k, q) ==
    /\ sequence <= Ticket[k].expires
    /\ resv[k].state \in {"NONE", "RETAINED"}
    /\ sequence <= q.leaseExpires
    /\ k \in q.lease
    /\ q.binding = Ticket[k].binding
    /\ ReservedInput(q) <= Ticket[k].maxInput
    /\ WithinCaps([resv EXCEPT ![k] = NewReservation(k, q)])

\* The checks of reserve.  `binding` stands for the role, campaign, configuration,
\* project, task, worker, user and request class that lease and ticket must share.
CanReserve(k, q) ==
    /\ sequence <= Ticket[k].expires
    /\ resv[k].state = "NONE"
    /\ sequence <= q.leaseExpires
    /\ k \in q.lease
    /\ q.binding = Ticket[k].binding
    /\ ReservedInput(q) <= Ticket[k].maxInput
    /\ WithinCaps([resv EXCEPT ![k] = NewReservation(k, q)])

\* The checks that reserve_retry adds.
CanRetry(k, original) ==
    /\ resv[original].state = "RETAINED"
    /\ resv[original].reason \in TRANSIENT
    /\ Ticket[k].retryOwner = Ticket[original].owner
    /\ Ticket[k].binding = Ticket[original].binding
    /\ Ticket[k].maxInput = Ticket[original].maxInput
    /\ Ticket[k].maxOutput = Ticket[original].maxOutput

-----------------------------------------------------------------------------
(* The capability (broker.py, CampaignCapabilityAuthority).                *)

\* record(): an expired capability freezes itself.
Usable == capability = "QUALIFIED" /\ sequence <= CapabilityExpires

CapabilityRead ==
    capability' = IF sequence > CapabilityExpires THEN "FROZEN" ELSE capability

-----------------------------------------------------------------------------
(* dispatch (broker.py, ProviderBroker).                                   *)

Init ==
    /\ events = <<>>
    /\ resv = [k \in Tickets |-> Nothing]
    /\ capability = "QUALIFIED"
    /\ sequence = 0
    /\ frame = [t \in Threads |-> NoFrame]
    /\ calls = [k \in Tickets |-> 0]
    /\ late = [t \in Threads |-> 0]
    /\ restarts = 0
    /\ replayed = 0

ledger == <<events, resv>>
environment == <<sequence, restarts, replayed>>
history == <<calls, late>>

pc == [t \in Threads |-> frame[t].pc]
ticket == [t \in Threads |-> frame[t].ticket]
request == [t \in Threads |-> frame[t].request]

\* dispatch goes on at `place`, or returns or raises, which leaves it.
Goto(t, place) ==
    frame' = [frame EXCEPT ![t] = IF place = "idle" THEN NoFrame ELSE [@ EXCEPT !.pc = place]]

\* A request arrives and reads the capability.
Dispatch(t, q) ==
    /\ pc[t] = "idle"
    /\ CapabilityRead
    /\ frame' = IF Usable
                THEN [frame EXCEPT ![t] = [pc |-> "checked", request |-> q, ticket |-> q.ticket]]
                ELSE frame
    /\ UNCHANGED <<ledger, environment, history>>

Reserve(t) ==
    /\ pc[t] = "checked"
    /\ IF CanReserve(ticket[t], request[t])
       THEN Record(ticket[t], NewReservation(ticket[t], request[t])) /\ Goto(t, "reserved")
       ELSE UNCHANGED ledger /\ Goto(t, "idle")
    /\ UNCHANGED <<capability, environment, history>>

ReserveRetry(t) ==
    /\ pc[t] = "retry_checked"
    /\ LET k == request[t].retry IN
         IF CanRetry(k, request[t].ticket) /\ CanReserve(k, request[t])
         THEN /\ Record(k, NewReservation(k, request[t]))
              /\ frame' = [frame EXCEPT ![t].pc = "reserved", ![t].ticket = k]
         ELSE UNCHANGED ledger /\ Goto(t, "idle")
    /\ UNCHANGED <<capability, environment, history>>

MarkDispatched(t) ==
    /\ pc[t] = "reserved"
    /\ resv[ticket[t]].state = "RESERVED"
    /\ Record(ticket[t], [resv[ticket[t]] EXCEPT !.state = "DISPATCHED"])
    /\ Goto(t, "dispatched")
    /\ UNCHANGED <<capability, environment, history>>

\* The call leaves for the provider.
Send(t) ==
    /\ pc[t] = "dispatched"
    /\ calls' = [calls EXCEPT ![ticket[t]] = @ + 1]
    /\ late' = [late EXCEPT ![t] = IF capability = "FROZEN" THEN @ + 1 ELSE @]
    /\ Goto(t, "sending")
    /\ UNCHANGED <<ledger, capability, environment>>

Retain(t, reason) ==
    Record(ticket[t], [resv[ticket[t]] EXCEPT !.state = "RETAINED", !.reason = reason])

\* RawUsage: reasoning tokens (and cached ones likewise) are a part of the total.
ValidUsage(usage) == usage.reasoning <= usage.output

\* settle accepts the reported usage.
Settle(t, usage) ==
    /\ pc[t] = "sending"
    /\ ValidUsage(usage)
    /\ resv[ticket[t]].state = "DISPATCHED"
    /\ usage.input <= resv[ticket[t]].input
    /\ usage.output <= resv[ticket[t]].output
    /\ Record(ticket[t], [resv[ticket[t]] EXCEPT !.state = "SETTLED", !.usage = usage])
    /\ Goto(t, "idle")
    /\ UNCHANGED <<capability, environment, history>>

\* The usage is inconsistent, or more than was reserved, and settle refuses it.
BreachOfUsage(t, usage) ==
    /\ pc[t] = "sending"
    /\ \/ ~ValidUsage(usage)
       \/ usage.input > resv[ticket[t]].input
       \/ usage.output > resv[ticket[t]].output
    /\ Retain(t, "contradictory_usage")
    /\ Goto(t, "freezing")
    /\ UNCHANGED <<capability, environment, history>>

\* Mutant: a response without usage ends the dispatch as a failure does.
MissingUsageEnds(t) ==
    /\ pc[t] = "sending"
    /\ Retain(t, "unknown_usage")
    /\ Goto(t, "idle")
    /\ UNCHANGED <<capability, environment, history>>

MissingUsage(t) ==
    /\ pc[t] = "sending"
    /\ Retain(t, "unknown_usage")
    /\ Goto(t, "freezing")
    /\ UNCHANGED <<capability, environment, history>>

Retrying(t) == ticket[t] # request[t].ticket

\* The call failed.  A transient failure of the first call may be tried again;
\* a second failure is retained as provider_failure, whatever it was.
ProviderFails(t, kind) ==
    /\ pc[t] = "sending"
    /\ Retain(t, IF Retrying(t) THEN "provider_failure" ELSE kind)
    /\ Goto(t, IF ~Retrying(t) /\ kind \in TRANSIENT /\ request[t].retry # NoTicket
               THEN "backoff" ELSE "idle")
    /\ UNCHANGED <<capability, environment, history>>

\* After the backoff the capability is read again.
CheckAgain(t) ==
    /\ pc[t] = "backoff"
    /\ CapabilityRead
    /\ Goto(t, IF Usable THEN "retry_checked" ELSE "idle")
    /\ UNCHANGED <<ledger, environment, history>>

Freeze(t) ==
    /\ pc[t] = "freezing"
    /\ capability' = "FROZEN"
    /\ Goto(t, "idle")
    /\ UNCHANGED <<ledger, environment, history>>

\* observe_unattributed_call
ObserveUnattributedCall ==
    /\ capability # "FROZEN"
    /\ capability' = "FROZEN"
    /\ UNCHANGED <<ledger, environment, frame, history>>

Tick ==
    /\ sequence < MaxSequence
    /\ sequence' = sequence + 1
    /\ UNCHANGED <<ledger, capability, frame, history, restarts, replayed>>

-----------------------------------------------------------------------------
(* replay (budget.py): the ledger is rebuilt from its events.              *)

\* One turn of replay's loop: the event against the projection of the earlier ones.
EventOk(r, e) ==
    LET prior == r[e.ticket] IN
    /\ e.previous = prior.state
    /\ prior.state = "NONE" =>
           /\ e.new.state = "RESERVED"
           /\ WithinCaps([r EXCEPT ![e.ticket] = e.new])
    /\ prior.state # "NONE" => \A f \in {"estimate", "bytes", "input", "output"} :
                                  e.new[f] = prior[f]
    /\ prior.state = "RESERVED" => e.new.state = "DISPATCHED"
    /\ prior.state = "DISPATCHED" => e.new.state \in {"SETTLED", "RETAINED"}
    /\ prior.state \notin {"SETTLED", "RETAINED"}
    /\ e.new.input = ReservedInput(e.new)
    /\ e.new.output = Ticket[e.ticket].maxOutput
    /\ e.new.input <= Ticket[e.ticket].maxInput
    /\ IF e.new.state = "RETAINED" THEN e.new.reason \in ALLOWED_RETAIN_REASONS
                                   ELSE e.new.reason = "none"
    /\ IF e.new.state = "SETTLED"
       THEN /\ e.new.usage # NoUsage
            /\ e.new.usage.input <= e.new.input
            /\ e.new.usage.output <= e.new.output
       ELSE e.new.usage = NoUsage

Turn(before, e) == [ok   |-> before.ok /\ EventOk(before.resv, e),
                    resv |-> [before.resv EXCEPT ![e.ticket] = e.new]]

NothingRead == [ok |-> TRUE, resv |-> [k \in Tickets |-> Nothing]]

Replayed(es) ==
    LET reading[n \in 0..Len(es)] ==
            IF n = 0 THEN NothingRead ELSE Turn(reading[n - 1], es[n])
    IN reading[Len(es)]

Replay == Replayed(events)

\* The process dies and is started again on its events: the ledger's and the
\* authority's constructors refuse tickets and capabilities that are out of date.
\* The authority starts from the signed record, which is QUALIFIED.
Restart ==
    /\ restarts < MaxRestarts
    /\ \A k \in Tickets : sequence <= Ticket[k].expires
    /\ sequence <= CapabilityExpires
    /\ Replay.ok
    /\ restarts' = restarts + 1
    /\ replayed' = Len(events)
    /\ resv' = Replay.resv
    /\ capability' = "QUALIFIED"
    /\ frame' = [t \in Threads |-> NoFrame]
    /\ late' = [t \in Threads |-> 0]
    /\ UNCHANGED <<events, sequence, calls>>

-----------------------------------------------------------------------------

Step(t) ==
    \/ Reserve(t) \/ ReserveRetry(t) \/ MarkDispatched(t) \/ Send(t)
    \/ \E usage \in Replies : Settle(t, usage) \/ BreachOfUsage(t, usage)
    \/ MissingUsage(t)
    \/ \E kind \in FailureKinds : ProviderFails(t, kind)
    \/ CheckAgain(t) \/ Freeze(t)

Next ==
    \/ \E t \in Threads : Step(t) \/ \E q \in Requests : Dispatch(t, q)
    \/ ObserveUnattributedCall
    \/ Tick
    \/ Restart

\* A thread inside dispatch goes on: no step waits for another thread, and a call
\* of the provider ends, if only in a timeout.
Spec == Init /\ [][Next]_vars /\ \A t \in Threads : WF_vars(Step(t))

-----------------------------------------------------------------------------
(* Properties.                                                             *)

Reservations == [state: ReservationStates \cup {"NONE"}, estimate: Nat, bytes: Nat,
                 input: Nat, output: Nat, usage: Replies \cup {NoUsage},
                 reason: ALLOWED_RETAIN_REASONS \cup {"none"}]

\* The ledger, the threads and the capability have their types.
TypeOK ==
    /\ events \in Seq([ticket: Tickets, previous: ReservationStates \cup {"NONE"},
                       new: Reservations])
    /\ resv \in [Tickets -> Reservations]
    /\ capability \in {"QUALIFIED", "FROZEN"}
    /\ sequence \in Nat /\ restarts \in Nat /\ replayed \in 0..Len(events)
    /\ frame \in [Threads -> Frames \cup {NoFrame}]
    /\ calls \in [Tickets -> Nat] /\ late \in [Threads -> Nat]

\* What the campaign may still cost is bounded (reserve, settle, retain): the budget
\* of every call ever made, whatever became of it and of the process since, is within
\* the caps together with all reservations that are still to be called.
CallsWithinCaps ==
    LET paid == {k \in Tickets : calls[k] > 0 \/ resv[k].state # "NONE"} IN
    /\ Cardinality(paid) <= RequestCap
    /\ SumFunction([k \in paid |-> resv[k].input]) <= InputCap
    /\ SumFunction([k \in paid |-> resv[k].output]) <= OutputCap

\* A ticket pays for one call: not for two threads that were handed the same ticket,
\* not for a retry, and not for a dispatch repeated after a crash; and a call is in
\* the ledger before it leaves (mark_dispatched before send).
OneCallPerTicket ==
    \A k \in Tickets :
        /\ calls[k] <= 1
        /\ calls[k] = 1 => resv[k].state \in {"DISPATCHED", "SETTLED", "RETAINED"}

\* A frozen campaign winds down: a thread that read the capability before the freeze
\* makes at most the call it was about to make, and no retry (dispatch).
OneLateCall == \A t \in Threads : late[t] <= 1

\* Whatever the threads did, and wherever they were cut off, the events replay without
\* a refusal to the reservations that the ledger held (reserve, _append, replay).
ReplayAccepts == Replay.ok /\ Replay.resv = resv

\* What the ledger promises about the campaign, its state well-formed, and about a ticket.
CapsHold == TypeOK /\ CallsWithinCaps /\ ReplayAccepts
OneCall == OneCallPerTicket /\ OneLateCall

BadUsage(e) == e.new.reason \in {"unknown_usage", "contradictory_usage"}

\* A usage report that is missing or contradicts the reservation freezes the campaign
\* (dispatch), unless the process crashes first.
BadUsageFreezes ==
    \A n \in 0..MaxRestarts :
        (restarts = n /\ \E i \in (replayed + 1)..Len(events) : BadUsage(events[i]))
            ~> (capability = "FROZEN" \/ restarts # n)
=============================================================================
