------------------------ MODULE ProviderBrokerProofs ------------------------
(***************************************************************************)
(* Proofs about ProviderBroker for any threads, tickets, requests, caps    *)
(* and bounds: the caps hold, the ledger's events replay to the ledger,    *)
(* and a ticket pays for one call.                                         *)
(*                                                                         *)
(* What replay makes of the events is a recursive function over their      *)
(* sequence.  The library's induction theorems take a predicate as a       *)
(* parameter; SetInduction below takes a set instead and follows from the  *)
(* existence of least elements.                                            *)
(***************************************************************************)
EXTENDS ProviderBroker, FiniteSetTheorems, WellFoundedInduction, TLAPS

-----------------------------------------------------------------------------
(* Induction over the natural numbers.                                     *)

\* A set of numbers that has an element has a least one.
LEMMA LeastElement ==
  ASSUME NEW T, T \subseteq Nat, T # {}
  PROVE  \E x \in T : \A y \in T : x =< y
<1>1. PICK x \in T : \A y \in T : ~ (<<y, x>> \in OpToRel(<,Nat))
  <2>1. \E x \in T : \A y \in T : ~ (<<y, x>> \in OpToRel(<,Nat))
    BY WFMin, NatLessThanWellFounded
  <2> QED BY <2>1
<1>2. ASSUME NEW y \in T, y < x PROVE FALSE
  <2>1. <<y,x>> \in OpToRel(<,Nat)
    BY <1>2 DEF OpToRel
  <2> QED BY <2>1, <1>1
<1>3. \A y \in T : ~ (y < x)
  BY <1>2
<1>4. \A y \in T : x =< y
  BY <1>3
<1> QED BY <1>4

\* Induction, with the induction hypothesis as a set.
LEMMA SetInduction ==
  ASSUME NEW S, 0 \in S, \A n \in Nat : n \in S => n+1 \in S
  PROVE  Nat \subseteq S
<1> DEFINE T == Nat \ S
<1>1. SUFFICES ASSUME T # {} PROVE FALSE
  OBVIOUS
<1>2. PICK x \in T : \A y \in T : x =< y
  BY <1>1, LeastElement
<1>3. x \in Nat /\ x # 0
  BY <1>2
<1>4. x-1 \in Nat /\ x-1 \notin T
  BY <1>2, <1>3
<1>5. (x-1)+1 \in S
  BY <1>4
<1> QED BY <1>2, <1>3, <1>5

-----------------------------------------------------------------------------
(* Totals and replay.                                                      *)

\* A ledger without reservations totals nothing (totals).
LEMMA SumOfNothing ==
  ASSUME NEW f, DOMAIN f = {}
  PROVE  SumFunction(f) = 0
BY DEF SumFunction, SumFunctionOnSet, FoldFunctionOnSet, MapThenFoldSet

\* The reading of the first n events.
Reading(es, n, f) == f = [i \in 0 .. n |-> IF i = 0 THEN NothingRead ELSE Turn(f[i - 1], es[i])]

\* Replay's loop reads any number of events.
LEMMA ReadingExists ==
  ASSUME NEW es, NEW n \in Nat
  PROVE  \E f : Reading(es, n, f)
<1> DEFINE S == {m \in Nat : \E f : Reading(es, m, f)}
<1>1. 0 \in S
  <2>1. Reading(es, 0, [i \in 0 .. 0 |-> NothingRead])
    BY DEF Reading
  <2> QED BY <2>1
<1>2. ASSUME NEW m \in Nat, m \in S PROVE m + 1 \in S
  <2>1. PICK f : Reading(es, m, f)
    BY <1>2
  <2> DEFINE g == [i \in 0 .. m + 1 |-> IF i = m + 1 THEN Turn(f[m], es[m + 1]) ELSE f[i]]
  <2>2. \A i \in 0 .. m : i # 0 => i - 1 \in 0 .. m
    OBVIOUS
  <2>3. \A i \in 0 .. m : g[i] = f[i] /\ f[i] = IF i = 0 THEN NothingRead ELSE Turn(f[i - 1], es[i])
    BY <2>1 DEF Reading
  <2>4. g[m + 1] = Turn(f[m], es[m + 1]) /\ f[m] = g[m]
    OBVIOUS
  <2>5. \A i \in 0 .. m + 1 : g[i] = IF i = 0 THEN NothingRead ELSE Turn(g[i - 1], es[i])
    <3> TAKE i \in 0 .. m + 1
    <3>1. CASE i = m + 1
      BY <3>1, <2>4
    <3>2. CASE i # m + 1
      <4>1. i \in 0 .. m BY <3>2
      <4>2. CASE i = 0 BY <4>1, <4>2, <2>3
      <4>3. CASE i # 0
        <5>1. g[i - 1] = f[i - 1] BY <4>1, <4>3, <2>2, <2>3
        <5>2. g[i] = f[i] /\ f[i] = Turn(f[i - 1], es[i]) BY <4>1, <4>3, <2>3
        <5> HIDE DEF g
        <5> QED BY <5>1, <5>2, <4>3
      <4> QED BY <4>2, <4>3
    <3> QED BY <3>1, <3>2
  <2>6. g = [i \in 0 .. m + 1 |-> g[i]]
    OBVIOUS
  <2>7. Reading(es, m + 1, g)
    <3> HIDE DEF g
    <3> QED BY <2>5, <2>6 DEF Reading
  <2> QED BY <2>7
<1>3. Nat \subseteq S
  <2> HIDE DEF S
  <2> QED BY <1>1, <1>2, SetInduction
<1> QED BY <1>3

\* Two replays of the same events agree.
LEMMA ReadingAgrees ==
  ASSUME NEW es, NEW ds, NEW m \in Nat, NEW n \in Nat, NEW f, NEW g,
         Reading(es, m, f), Reading(ds, n, g), m <= n, \A i \in 1 .. m : es[i] = ds[i]
  PROVE  f[m] = g[m]
<1> DEFINE S == {i \in Nat : i <= m => f[i] = g[i]}
<1>1. 0 \in S
  BY DEF Reading
<1>2. ASSUME NEW i \in Nat, i \in S PROVE i + 1 \in S
  <2>1. SUFFICES ASSUME i + 1 <= m PROVE f[i + 1] = g[i + 1]
    OBVIOUS
  <2>2. i + 1 \in 0 .. m /\ i + 1 \in 0 .. n /\ i + 1 # 0 /\ (i + 1) - 1 = i /\ i + 1 \in 1 .. m
    BY <2>1
  <2>3. f[i + 1] = Turn(f[i], es[i + 1])
    BY <2>2 DEF Reading
  <2>4. g[i + 1] = Turn(g[i], ds[i + 1])
    BY <2>2 DEF Reading
  <2>5. f[i] = g[i]
    BY <1>2, <2>1
  <2> QED BY <2>2, <2>3, <2>4, <2>5
<1>3. Nat \subseteq S
  <2> HIDE DEF S
  <2> QED BY <1>1, <1>2, SetInduction
<1> QED BY <1>3

\* replay returns what its loop holds after the last event.
LEMMA ReplayedIsReading ==
  ASSUME NEW es, NEW f, Len(es) \in Nat, Reading(es, Len(es), f)
  PROVE  Replayed(es) = f[Len(es)]
<1> DEFINE r == CHOOSE g : g = [n \in 0 .. Len(es) |->
                    IF n = 0 THEN NothingRead ELSE Turn(g[n - 1], es[n])]
<1>1. Replayed(es) = r[Len(es)]
  BY DEF Replayed
<1>2. Reading(es, Len(es), r)
  BY DEF Reading
<1> HIDE DEF r
<1> QED BY <1>1, <1>2, ReadingAgrees

\* replay of no events is a new ledger.
LEMMA ReplayedEmpty == Replayed(<<>>) = NothingRead
<1>1. Len(<<>>) = 0 OBVIOUS
<1>2. PICK f : Reading(<<>>, 0, f) BY ReadingExists
<1>3. f[0] = NothingRead BY <1>2 DEF Reading
<1> QED BY <1>1, <1>2, <1>3, ReplayedIsReading

\* replay of one event more is one more turn of its loop.
LEMMA ReplayedAppend ==
  ASSUME NEW E, NEW es \in Seq(E), NEW e \in E
  PROVE  Replayed(Append(es, e)) = Turn(Replayed(es), e)
<1> DEFINE n == Len(es)
           ds == Append(es, e)
<1>1. /\ n \in Nat /\ Len(ds) = n + 1
      /\ \A i \in 1 .. n : es[i] = ds[i]
      /\ ds[n + 1] = e
  OBVIOUS
<1>2. PICK f : Reading(es, n, f) BY <1>1, ReadingExists
<1> HIDE DEF n, ds
<1>3. PICK g : Reading(ds, n + 1, g)
  <2>1. n + 1 \in Nat BY <1>1
  <2> QED BY <2>1, ReadingExists
<1>4. f[n] = g[n] BY <1>1, <1>2, <1>3, ReadingAgrees
<1>5. g[n + 1] = Turn(g[n], e)
  <2>1. n + 1 \in 0 .. n + 1 /\ n + 1 # 0 /\ (n + 1) - 1 = n
    BY <1>1
  <2> QED BY <2>1, <1>1, <1>3 DEF Reading
<1>6. Replayed(es) = f[n] BY <1>1, <1>2, ReplayedIsReading DEF n
<1>7. Replayed(ds) = g[n + 1] BY <1>1, <1>3, ReplayedIsReading
<1> QED BY <1>4, <1>5, <1>6, <1>7 DEF ds

-----------------------------------------------------------------------------
(* The inductive invariant.                                                *)

\* The places at which a thread holds a reservation.
Busy == {"reserved", "dispatched", "sending"}

\* What replay checks of a reservation holds of every reservation in the projection.
Shape ==
    \A k \in Tickets :
        /\ resv[k].state = "NONE" => resv[k] = Nothing
        /\ resv[k].state # "NONE" =>
             /\ resv[k].input = ReservedInput(resv[k])
             /\ resv[k].output = Ticket[k].maxOutput
             /\ resv[k].input <= Ticket[k].maxInput
             /\ resv[k].state # "RETAINED" => resv[k].reason = "none"
             /\ resv[k].state # "SETTLED" => resv[k].usage = NoUsage

\* A thread between its reservation and the answer is the only one with its ticket, and the
\* reservation is in the state the thread left it in; before DISPATCHED no call was made.
Owned ==
    /\ \A t \in Threads :
        /\ pc[t] = "reserved" => resv[ticket[t]].state = "RESERVED" 
        /\ pc[t] = "dispatched" => resv[ticket[t]].state = "DISPATCHED" /\ calls[ticket[t]] = 0
        /\ pc[t] = "sending" => resv[ticket[t]].state = "DISPATCHED"
        /\ pc[t] \in {"backoff", "retry_checked"} => request[t].retry # NoTicket
    /\ \A t, u \in Threads :
        t # u /\ pc[t] \in Busy /\ pc[u] \in Busy => ticket[t] # ticket[u]
    /\ \A k \in Tickets : /\ calls[k] <= 1
                          /\ resv[k].state \in {"NONE", "RESERVED"} => calls[k] = 0

\* A thread whose call left after the freeze is in that call or has stopped dispatching.
Late ==
    \A t \in Threads :
        /\ late[t] <= 1
        /\ late[t] = 1 => /\ capability = "FROZEN"
                          /\ pc[t] \in {"idle", "sending", "backoff", "freezing"}

\* The part of the invariant that is about the ledger alone.
LedgerOK == Shape /\ WithinCaps(resv) /\ ReplayAccepts

IInv == TypeOK /\ LedgerOK /\ Owned /\ Late

\* Events, and the one that _append adds for ticket k.
Events == [ticket: Tickets, previous: ReservationStates \cup {"NONE"}, new: Reservations]
EventOf(k, new) == [ticket |-> k, previous |-> resv[k].state, new |-> new]

-----------------------------------------------------------------------------
(* The ledger: one event more.                                             *)

\* The input that is reserved for a request is a number of tokens.
LEMMA ReservedInputType ==
  ASSUME NEW q, q.estimate \in Nat, q.bytes \in Nat
  PROVE  ReservedInput(q) \in Nat
<1> DEFINE a == q.estimate + CalibratedError + TokenMargin
           b == q.bytes + ByteMargin
<1>1. a \in Nat /\ b \in Nat
  BY ConstantsAssumption
<1> HIDE DEF a, b
<1>2. \E x \in {a, b} : \A y \in {a, b} : x >= y
  BY <1>1
<1>3. Max({a, b}) \in {a, b}
  BY <1>2 DEF Max
<1> QED BY <1>1, <1>3 DEF ReservedInput, a, b

\* The totals do not change when a reservation that is there goes on.
LEMMA TotalsKept ==
  ASSUME NEW r, r \in [Tickets -> Reservations], NEW k \in Tickets, NEW new \in Reservations,
         r[k].state # "NONE", new.state # "NONE", new.input = r[k].input,
         new.output = r[k].output
  PROVE  WithinCaps([r EXCEPT ![k] = new]) <=> WithinCaps(r)
<1> DEFINE s == [r EXCEPT ![k] = new]
<1>1. Reserved(s) = Reserved(r)
  BY DEF Reserved
<1>2. [j \in Reserved(s) |-> s[j].input] = [j \in Reserved(r) |-> r[j].input]
  BY <1>1 DEF Reserved
<1>3. [j \in Reserved(s) |-> s[j].output] = [j \in Reserved(r) |-> r[j].output]
  BY <1>1 DEF Reserved
<1> HIDE DEF s
<1>4. TotalInput(s) = TotalInput(r) /\ TotalOutput(s) = TotalOutput(r)
  BY <1>2, <1>3 DEF TotalInput, TotalOutput
<1>5. WithinCaps(s) <=> WithinCaps(r)
  BY <1>1, <1>4 DEF WithinCaps
<1> QED BY <1>5 DEF s

\* An event that replay accepts keeps the ledger what it should be.
LEMMA RecordKeeps ==
  ASSUME TypeOK, LedgerOK, NEW k \in Tickets, NEW new \in Reservations,
         new.state # "NONE", EventOk(resv, EventOf(k, new)), Record(k, new)
  PROVE  /\ events' \in Seq(Events) /\ resv' \in [Tickets -> Reservations]
         /\ Len(events') = Len(events) + 1
         /\ LedgerOK'
<1> DEFINE e == EventOf(k, new)
<1>1. e \in Events /\ e.ticket = k /\ e.new = new /\ e.previous = resv[k].state
  BY DEF TypeOK, Events, EventOf, Reservations
<1>2. events' = Append(events, e) /\ resv' = [resv EXCEPT ![k] = new]
  BY DEF Record, EventOf
<1>3. events \in Seq(Events) /\ resv \in [Tickets -> Reservations]
  BY DEF TypeOK, Events
<1> HIDE DEF e
<1>4. events' \in Seq(Events) /\ Len(events') = Len(events) + 1
  BY <1>1, <1>2, <1>3
<1>5. resv' \in [Tickets -> Reservations]
  BY <1>2, <1>3
<1>6. EventOk(resv, e)
  BY DEF e
<1>7. ReplayAccepts'
  <2>1. Replay' = Turn(Replay, e)
    <3>1. Replayed(events') = Turn(Replayed(events), e)
      BY <1>1, <1>2, <1>3, ReplayedAppend
    <3> QED BY <3>1 DEF Replay
  <2>2. Replay.ok /\ Replay.resv = resv
    BY DEF LedgerOK, ReplayAccepts
  <2>3. Replay'.ok /\ Replay'.resv = resv'
    BY <2>1, <2>2, <1>1, <1>2, <1>6 DEF Turn
  <2> QED BY <2>3 DEF ReplayAccepts
<1>8. /\ new.input = ReservedInput(new)
      /\ new.output = Ticket[k].maxOutput
      /\ new.input <= Ticket[k].maxInput
      /\ new.state # "RETAINED" => new.reason = "none"
      /\ new.state # "SETTLED" => new.usage = NoUsage
  BY <1>6, <1>1 DEF EventOk
<1>9. Shape'
  <2> SUFFICES ASSUME NEW j \in Tickets
               PROVE  /\ resv'[j].state = "NONE" => resv'[j] = Nothing
                      /\ resv'[j].state # "NONE" =>
                         /\ resv'[j].input = ReservedInput(resv'[j])
                         /\ resv'[j].output = Ticket[j].maxOutput
                         /\ resv'[j].input <= Ticket[j].maxInput
                         /\ resv'[j].state # "RETAINED" => resv'[j].reason = "none"
                         /\ resv'[j].state # "SETTLED" => resv'[j].usage = NoUsage
    BY DEF Shape
  <2>1. CASE j = k
    <3>1. resv'[j] = new BY <2>1, <1>2, <1>3
    <3> QED BY <3>1, <1>8, <2>1
  <2>2. CASE j # k
    <3>1. resv'[j] = resv[j] BY <2>2, <1>2, <1>3
    <3> QED BY <3>1 DEF LedgerOK, Shape
  <2> QED BY <2>1, <2>2
<1>10. WithinCaps(resv')
  <2>1. CASE resv[k].state = "NONE"
    <3>1. WithinCaps([resv EXCEPT ![e.ticket] = e.new])
      BY <2>1, <1>6, <1>1 DEF EventOk
    <3> QED BY <3>1, <1>1, <1>2
  <2>2. CASE resv[k].state # "NONE"
    <3>1. new.input = resv[k].input /\ new.output = resv[k].output
      BY <2>2, <1>6, <1>1 DEF EventOk
    <3>2. WithinCaps(resv) BY DEF LedgerOK
    <3>3. WithinCaps([resv EXCEPT ![k] = new])
      BY <3>1, <3>2, <2>2, <1>3, TotalsKept
    <3> QED BY <3>3, <1>2
  <2> QED BY <2>1, <2>2
<1> QED BY <1>4, <1>5, <1>7, <1>9, <1>10 DEF LedgerOK

\* What the checks of reserve admit is what replay admits for a new ticket.
LEMMA NewReservationIsAccepted ==
  ASSUME TypeOK, LedgerOK, NEW k \in Tickets, NEW q \in Requests, CanReserve(k, q)
  PROVE  /\ NewReservation(k, q) \in Reservations
         /\ NewReservation(k, q).state = "RESERVED"
         /\ EventOk(resv, EventOf(k, NewReservation(k, q)))
<1> DEFINE new == NewReservation(k, q)
<1>1. q \in RequestRecords /\ q.estimate \in Nat /\ q.bytes \in Nat
  BY ConstantsAssumption DEF RequestRecords
<1>2. ReservedInput(q) \in Nat
  BY <1>1, ReservedInputType
<1>3. Ticket[k] \in TicketRecords /\ Ticket[k].maxOutput \in Nat
  BY ConstantsAssumption DEF TicketRecords
<1>4. /\ new.state = "RESERVED" /\ new.input = ReservedInput(q) /\ new.output = Ticket[k].maxOutput
      /\ new.usage = NoUsage /\ new.reason = "none"
      /\ new.estimate = q.estimate /\ new.bytes = q.bytes
      /\ new \in Reservations
  BY <1>1, <1>2, <1>3 DEF NewReservation, Reservations, ReservationStates
<1>5. resv[k].state = "NONE" /\ ReservedInput(q) <= Ticket[k].maxInput
      /\ WithinCaps([resv EXCEPT ![k] = new])
  BY DEF CanReserve
<1> HIDE DEF new
<1>6. ReservedInput(new) = ReservedInput(q)
  BY <1>4 DEF ReservedInput
<1>7. EventOk(resv, EventOf(k, new))
  BY <1>4, <1>5, <1>6 DEF EventOk, EventOf
<1> QED BY <1>4, <1>7 DEF new

\* A reservation goes on: marked, settled or retained.
LEMMA LaterStateIsAccepted ==
  ASSUME TypeOK, LedgerOK, NEW k \in Tickets, NEW new \in Reservations,
         \A f \in {"estimate", "bytes", "input", "output"} : new[f] = resv[k][f],
         \/ resv[k].state = "RESERVED" /\ new.state = "DISPATCHED"
         \/ resv[k].state = "DISPATCHED" /\ new.state \in {"SETTLED", "RETAINED"},
         IF new.state = "RETAINED" THEN new.reason \in ALLOWED_RETAIN_REASONS
                                   ELSE new.reason = "none",
         IF new.state = "SETTLED"
         THEN /\ new.usage # NoUsage /\ new.usage.input <= new.input
              /\ new.usage.output <= new.output
         ELSE new.usage = NoUsage
  PROVE  EventOk(resv, EventOf(k, new))
<1>1. new.estimate = resv[k].estimate /\ new.bytes = resv[k].bytes
      /\ new.input = resv[k].input /\ new.output = resv[k].output
  OBVIOUS
<1>2. resv[k].input = ReservedInput(resv[k]) /\ resv[k].output = Ticket[k].maxOutput
      /\ resv[k].input <= Ticket[k].maxInput
  BY DEF LedgerOK, Shape
<1>3. ReservedInput(new) = ReservedInput(resv[k])
  BY <1>1 DEF ReservedInput
<1> QED BY <1>1, <1>2, <1>3 DEF EventOk, EventOf

-----------------------------------------------------------------------------
(* The threads.                                                            *)

\* A thread inside dispatch has a request and a ticket.
LEMMA FrameType ==
  ASSUME TypeOK, NEW t \in Threads, pc[t] # "idle"
  PROVE  /\ frame[t] \in Frames /\ ticket[t] \in Tickets /\ request[t] \in Requests
         /\ request[t].ticket \in Tickets /\ request[t].retry \in Tickets \cup {NoTicket}
         /\ pc[t] = frame[t].pc /\ ticket[t] = frame[t].ticket /\ request[t] = frame[t].request
<1>1. frame[t] \in Frames \cup {NoFrame} BY DEF TypeOK
<1>2. frame[t] # NoFrame BY DEF pc, NoFrame
<1>3. frame[t] \in Frames BY <1>1, <1>2
<1>4. ticket[t] \in Tickets /\ request[t] \in Requests
      /\ pc[t] = frame[t].pc /\ ticket[t] = frame[t].ticket /\ request[t] = frame[t].request
  BY <1>3 DEF Frames, ticket, request, pc
<1>5. request[t] \in RequestRecords BY <1>4, ConstantsAssumption
<1> QED BY <1>3, <1>4, <1>5 DEF RequestRecords

\* A step of thread t changes its own frame only: to a frame or out of dispatch.
LEMMA GotoType ==
  ASSUME TypeOK, NEW t \in Threads, pc[t] # "idle", NEW place, Goto(t, place),
         place \in {"checked", "reserved", "dispatched", "sending", "backoff", "retry_checked",
                    "freezing", "idle"}
  PROVE  /\ frame' \in [Threads -> Frames \cup {NoFrame}]
         /\ pc'[t] = place
         /\ place # "idle" => ticket'[t] = ticket[t] /\ request'[t] = request[t]
         /\ \A u \in Threads \ {t} : pc'[u] = pc[u] /\ ticket'[u] = ticket[u]
                                     /\ request'[u] = request[u]
<1>1. frame \in [Threads -> Frames \cup {NoFrame}] BY DEF TypeOK
<1>2. frame[t] \in Frames BY FrameType
<1>3. CASE place = "idle"
  <2>1. frame' = [frame EXCEPT ![t] = NoFrame] BY <1>3 DEF Goto
  <2>2. frame' \in [Threads -> Frames \cup {NoFrame}] BY <2>1, <1>1
  <2>3. pc'[t] = "idle" BY <2>1, <1>1 DEF pc, NoFrame
  <2> QED BY <2>1, <2>2, <2>3, <1>1, <1>3 DEF pc, ticket, request
<1>4. CASE place # "idle"
  <2>1. frame' = [frame EXCEPT ![t] = [frame[t] EXCEPT !.pc = place]] BY <1>4, <1>1 DEF Goto
  <2>2. [frame[t] EXCEPT !.pc = place] \in Frames BY <1>2, <1>4 DEF Frames
  <2>3. frame' \in [Threads -> Frames \cup {NoFrame}] BY <2>1, <2>2, <1>1
  <2>4. frame'[t].pc = place /\ frame'[t].ticket = frame[t].ticket
        /\ frame'[t].request = frame[t].request
    BY <2>1, <1>1, <1>2 DEF Frames
  <2> QED BY <2>1, <2>3, <2>4, <1>1 DEF pc, ticket, request
<1> QED BY <1>3, <1>4

\* A new ledger, before any dispatch.
LEMMA InitInv == Init => IInv
<1> SUFFICES ASSUME Init PROVE IInv OBVIOUS
<1> USE DEF Init
<1>1. Nothing \in Reservations BY DEF Nothing, Reservations
<1>2. TypeOK
  <2>1. events \in Seq([ticket: Tickets, previous: ReservationStates \cup {"NONE"},
                       new: Reservations]) OBVIOUS
  <2>2. resv \in [Tickets -> Reservations] BY <1>1
  <2>3. replayed \in 0..Len(events) OBVIOUS
  <2>4. frame \in [Threads -> Frames \cup {NoFrame}] OBVIOUS
  <2> QED BY <2>1, <2>2, <2>3, <2>4 DEF TypeOK
<1>3. Shape BY DEF Shape, Nothing
<1>4. WithinCaps(resv)
  <2>1. Reserved(resv) = {} BY DEF Reserved, Nothing
  <2>2. Cardinality(Reserved(resv)) = 0 BY <2>1, FS_EmptySet
  <2>3. TotalInput(resv) = 0
    <3>1. DOMAIN [k \in Reserved(resv) |-> resv[k].input] = {} BY <2>1
    <3> QED BY <3>1, SumOfNothing DEF TotalInput
  <2>4. TotalOutput(resv) = 0
    <3>1. DOMAIN [k \in Reserved(resv) |-> resv[k].output] = {} BY <2>1
    <3> QED BY <3>1, SumOfNothing DEF TotalOutput
  <2> QED BY <2>2, <2>3, <2>4, ConstantsAssumption DEF WithinCaps
<1>5. ReplayAccepts BY ReplayedEmpty DEF ReplayAccepts, Replay, NothingRead
<1>6. Owned BY DEF Owned, pc, NoFrame, Nothing, Busy
<1>7. Late BY DEF Late
<1> QED BY <1>2, <1>3, <1>4, <1>5, <1>6, <1>7 DEF IInv, LedgerOK

\* A step that appends nothing leaves the ledger what it should be.
LEMMA LedgerUnchanged ==
  ASSUME LedgerOK, UNCHANGED ledger
  PROVE  LedgerOK'
<1>1. events' = events /\ resv' = resv BY DEF ledger
<1>2. Shape' BY <1>1 DEF LedgerOK, Shape
<1>3. WithinCaps(resv') BY <1>1 DEF LedgerOK
<1>4. Replay' = Replay BY <1>1 DEF Replay
<1>5. ReplayAccepts' BY <1>1, <1>4 DEF LedgerOK, ReplayAccepts
<1> QED BY <1>2, <1>3, <1>5 DEF LedgerOK

\* Reading the capability may freeze it and never thaws it (record).
LEMMA CapabilityReadType ==
  ASSUME TypeOK, CapabilityRead
  PROVE  /\ capability' \in {"QUALIFIED", "FROZEN"}
         /\ capability = "FROZEN" => capability' = "FROZEN"
BY DEF TypeOK, CapabilityRead

-----------------------------------------------------------------------------
(* The actions.                                                            *)

\* One lemma for each action.
LEMMA DispatchStep ==
  ASSUME IInv, NEW t \in Threads, NEW q \in Requests, Dispatch(t, q)
  PROVE  IInv'
<1> USE DEF IInv
<1>1. /\ pc[t] = "idle" /\ CapabilityRead /\ UNCHANGED <<ledger, environment, history>>
      /\ frame' = IF Usable
                  THEN [frame EXCEPT ![t] = [pc |-> "checked", request |-> q, ticket |-> q.ticket]]
                  ELSE frame
  BY DEF Dispatch
<1>2. q \in RequestRecords BY ConstantsAssumption
<1>3. [pc |-> "checked", request |-> q, ticket |-> q.ticket] \in Frames
  BY <1>2 DEF Frames, RequestRecords
<1>4. frame' \in [Threads -> Frames \cup {NoFrame}] BY <1>1, <1>3 DEF TypeOK
<1>5. TypeOK'
  BY <1>1, <1>4, CapabilityReadType DEF TypeOK, ledger, environment, history
<1>6. LedgerOK' BY <1>1, LedgerUnchanged
<1>7. /\ \A u \in Threads \ {t} : pc'[u] = pc[u] /\ ticket'[u] = ticket[u]
                                  /\ request'[u] = request[u]
      /\ pc'[t] \in {"idle", "checked"}
      /\ Usable \/ pc'[t] = "idle"
  BY <1>1 DEF pc, ticket, request, TypeOK
<1>8. Owned' BY <1>1, <1>7 DEF Owned, Busy, ledger, history
<1>9. Late'
  <2>1. capability = "FROZEN" => capability' = "FROZEN" /\ pc'[t] = "idle"
    BY <1>1, <1>7, CapabilityReadType DEF Usable
  <2> QED BY <2>1, <1>1, <1>7 DEF Late, history
<1> QED BY <1>5, <1>6, <1>8, <1>9

\* A step that leaves ledger, history and capability alone or freezes the capability, and moves
\* one thread out of the places at which it holds a reservation.
LEMMA QuietStep ==
  ASSUME IInv, NEW t \in Threads, pc[t] # "idle", NEW place, Goto(t, place),
         UNCHANGED <<ledger, environment, history>>,
         capability' \in {"QUALIFIED", "FROZEN"},
         capability = "FROZEN" => capability' = "FROZEN",
         \/ place = "idle"
         \/ place = "retry_checked" /\ pc[t] = "backoff" /\ capability # "FROZEN"
  PROVE  IInv'
<1> USE DEF IInv
<1>1. /\ frame' \in [Threads -> Frames \cup {NoFrame}]
      /\ pc'[t] = place
      /\ place # "idle" => ticket'[t] = ticket[t] /\ request'[t] = request[t]
      /\ \A u \in Threads \ {t} : pc'[u] = pc[u] /\ ticket'[u] = ticket[u]
                                  /\ request'[u] = request[u]
  BY GotoType
<1>2. TypeOK' BY <1>1 DEF TypeOK, ledger, environment, history
<1>3. LedgerOK' BY LedgerUnchanged
<1>4. Owned' BY <1>1 DEF Owned, Busy, ledger, history
<1>5. Late' BY <1>1 DEF Late, history
<1> QED BY <1>2, <1>3, <1>4, <1>5

LEMMA CheckAgainStep ==
  ASSUME IInv, NEW t \in Threads, CheckAgain(t)
  PROVE  IInv'
<1>1. /\ pc[t] = "backoff" /\ CapabilityRead /\ Goto(t, IF Usable THEN "retry_checked" ELSE "idle")
      /\ UNCHANGED <<ledger, environment, history>>
  BY DEF CheckAgain
<1>2. CASE Usable
  BY <1>1, <1>2, CapabilityReadType, QuietStep DEF Usable, IInv
<1>3. CASE ~Usable
  BY <1>1, <1>3, CapabilityReadType, QuietStep DEF IInv
<1> QED BY <1>2, <1>3

LEMMA FreezeStep ==
  ASSUME IInv, NEW t \in Threads, Freeze(t)
  PROVE  IInv'
BY QuietStep DEF Freeze

\* A thread whose dispatch has read the capability reserves a ticket.
LEMMA ReservationStep ==
  ASSUME IInv, NEW t \in Threads, pc[t] \in {"checked", "retry_checked"},
         NEW k \in Tickets, NEW q \in Requests, CanReserve(k, q),
         Record(k, NewReservation(k, q)), UNCHANGED <<capability, environment, history>>,
         frame' \in [Threads -> Frames \cup {NoFrame}],
         pc'[t] = "reserved", ticket'[t] = k,
         \A u \in Threads \ {t} : pc'[u] = pc[u] /\ ticket'[u] = ticket[u]
                                  /\ request'[u] = request[u]
  PROVE  IInv'
<1> USE DEF IInv
<1> DEFINE new == NewReservation(k, q)
<1>1. new \in Reservations /\ new.state = "RESERVED" /\ EventOk(resv, EventOf(k, new))
  BY NewReservationIsAccepted
<1>2. resv[k].state = "NONE" /\ resv' = [resv EXCEPT ![k] = new] /\ Record(k, new)
  BY DEF CanReserve, Record
<1> HIDE DEF new
<1>3. /\ events' \in Seq(Events) /\ resv' \in [Tickets -> Reservations]
      /\ Len(events') = Len(events) + 1
      /\ LedgerOK'
  BY <1>1, <1>2, RecordKeeps
<1>4. TypeOK'
  <2>1. Len(events) \in Nat BY DEF TypeOK
  <2>2. replayed' \in 0 .. Len(events') BY <2>1, <1>3 DEF TypeOK, environment
  <2> QED BY <2>2, <1>3 DEF TypeOK, Events, environment, history
<1>5. resv'[k].state = "RESERVED" /\ \A j \in Tickets \ {k} : resv'[j] = resv[j]
  BY <1>1, <1>2 DEF TypeOK
<1>6. \A u \in Threads : pc[u] \in Busy => ticket[u] \in Tickets /\ ticket[u] # k
  BY <1>2, FrameType DEF Owned, Busy
<1>7. Owned'
  <2>1. \A u \in Threads :
      /\ pc'[u] = "reserved" => resv'[ticket'[u]].state = "RESERVED"
      /\ pc'[u] = "dispatched" => resv'[ticket'[u]].state = "DISPATCHED" /\ calls'[ticket'[u]] = 0
      /\ pc'[u] = "sending" => resv'[ticket'[u]].state = "DISPATCHED"
      /\ pc'[u] \in {"backoff", "retry_checked"} => request'[u].retry # NoTicket
    BY <1>5, <1>6 DEF Owned, Busy, history
  <2>2. \A u, v \in Threads :
      u # v /\ pc'[u] \in Busy /\ pc'[v] \in Busy => ticket'[u] # ticket'[v]
    BY <1>6 DEF Owned
  <2>3. \A j \in Tickets : /\ calls'[j] <= 1
                           /\ resv'[j].state \in {"NONE", "RESERVED"} => calls'[j] = 0
    BY <1>2, <1>5 DEF Owned, history
  <2> QED BY <2>1, <2>2, <2>3 DEF Owned
<1>8. Late' BY DEF Late, history
<1> QED BY <1>3, <1>4, <1>7, <1>8

LEMMA ReserveStep ==
  ASSUME IInv, NEW t \in Threads, Reserve(t)
  PROVE  IInv'
<1>1. pc[t] = "checked" /\ UNCHANGED <<capability, environment, history>> /\ TypeOK
  BY DEF Reserve, IInv
<1>2. CASE ~CanReserve(ticket[t], request[t])
  BY <1>1, <1>2, QuietStep DEF Reserve, TypeOK
<1>3. CASE CanReserve(ticket[t], request[t])
  <2>1. Record(ticket[t], NewReservation(ticket[t], request[t])) /\ Goto(t, "reserved")
    BY <1>3 DEF Reserve
  <2>2. ticket[t] \in Tickets /\ request[t] \in Requests BY <1>1, FrameType
  <2>3. /\ frame' \in [Threads -> Frames \cup {NoFrame}]
        /\ pc'[t] = "reserved" /\ ticket'[t] = ticket[t]
        /\ \A u \in Threads \ {t} : pc'[u] = pc[u] /\ ticket'[u] = ticket[u]
                                    /\ request'[u] = request[u]
    BY <1>1, <2>1, GotoType
  <2> QED BY <1>1, <1>3, <2>1, <2>2, <2>3, ReservationStep
<1> QED BY <1>2, <1>3

LEMMA ReserveRetryStep ==
  ASSUME IInv, NEW t \in Threads, ReserveRetry(t)
  PROVE  IInv'
<1> DEFINE k == request[t].retry
<1>1. pc[t] = "retry_checked" /\ UNCHANGED <<capability, environment, history>> /\ TypeOK
  BY DEF ReserveRetry, IInv
<1>2. k \in Tickets /\ request[t] \in Requests /\ frame[t] \in Frames
  BY <1>1, FrameType DEF IInv, Owned
<1>3. CASE ~(CanRetry(k, request[t].ticket) /\ CanReserve(k, request[t]))
  <2>1. UNCHANGED ledger /\ Goto(t, "idle") BY <1>3 DEF ReserveRetry
  <2> QED BY <2>1, <1>1, QuietStep DEF TypeOK
<1>4. CASE CanRetry(k, request[t].ticket) /\ CanReserve(k, request[t])
  <2>1. /\ Record(k, NewReservation(k, request[t])) /\ CanReserve(k, request[t])
        /\ frame' = [frame EXCEPT ![t].pc = "reserved", ![t].ticket = k]
    BY <1>4 DEF ReserveRetry
  <2> HIDE DEF k
  <2>2. frame' = [frame EXCEPT ![t] = [frame[t] EXCEPT !.pc = "reserved", !.ticket = k]]
    BY <2>1, <1>1 DEF TypeOK
  <2>3. [frame[t] EXCEPT !.pc = "reserved", !.ticket = k] \in Frames
    BY <1>2 DEF Frames
  <2>4. frame' \in [Threads -> Frames \cup {NoFrame}]
    BY <2>2, <2>3, <1>1 DEF TypeOK
  <2>5. /\ pc'[t] = "reserved" /\ ticket'[t] = k
        /\ \A u \in Threads \ {t} : pc'[u] = pc[u] /\ ticket'[u] = ticket[u]
                                    /\ request'[u] = request[u]
    BY <2>2, <1>1, <1>2 DEF TypeOK, pc, ticket, request, Frames
  <2> QED BY <1>1, <1>2, <2>1, <2>4, <2>5, ReservationStep
<1> QED BY <1>3, <1>4

\* The reservation of a thread's ticket goes on, and with it the thread.
LEMMA ProgressStep ==
  ASSUME IInv, NEW t \in Threads, NEW new \in Reservations, NEW place,
         LET k == ticket[t] IN
            /\ Record(k, new) /\ EventOk(resv, EventOf(k, new)),
         Goto(t, place), UNCHANGED <<capability, environment, history>>,
         \/ /\ pc[t] = "reserved" /\ place = "dispatched"
            /\ new.state = "DISPATCHED"
         \/ /\ pc[t] = "sending" /\ new.state \in {"SETTLED", "RETAINED"}
            /\ \/ place \in {"idle", "freezing"}
               \/ place = "backoff" /\ request[t].retry # NoTicket
  PROVE  IInv'
<1> USE DEF IInv
<1> DEFINE k == ticket[t]
<1>1. pc[t] # "idle" /\ k \in Tickets
  BY FrameType
<1>2. /\ Record(k, new) /\ EventOk(resv, EventOf(k, new)) /\ new.state # "NONE"
      /\ resv' = [resv EXCEPT ![k] = new]
  BY DEF Record
<1>3. /\ frame' \in [Threads -> Frames \cup {NoFrame}]
      /\ pc'[t] = place
      /\ place # "idle" => ticket'[t] = k /\ request'[t] = request[t]
      /\ \A u \in Threads \ {t} : pc'[u] = pc[u] /\ ticket'[u] = ticket[u]
                                  /\ request'[u] = request[u]
  BY <1>1, GotoType
<1>4. \A u \in Threads \ {t} : pc[u] \in Busy => ticket[u] \in Tickets /\ ticket[u] # k
  BY FrameType DEF Owned, Busy
<1>5. pc[t] = "reserved" => resv[k].state = "RESERVED" /\ calls[k] = 0
  BY <1>1 DEF Owned
<1> HIDE DEF k
<1>6. /\ events' \in Seq(Events) /\ resv' \in [Tickets -> Reservations]
      /\ Len(events') = Len(events) + 1
      /\ LedgerOK'
  BY <1>1, <1>2, RecordKeeps
<1>7. TypeOK'
  <2>1. Len(events) \in Nat BY DEF TypeOK
  <2>2. replayed' \in 0 .. Len(events') BY <2>1, <1>6 DEF TypeOK, environment
  <2> QED BY <2>2, <1>3, <1>6 DEF TypeOK, Events, environment, history
<1>8. resv'[k].state = new.state /\ \A j \in Tickets \ {k} : resv'[j] = resv[j]
  BY <1>1, <1>2 DEF TypeOK
<1>9. Owned'
  <2>1. \A u \in Threads :
      /\ pc'[u] = "reserved" => resv'[ticket'[u]].state = "RESERVED"
      /\ pc'[u] = "dispatched" => resv'[ticket'[u]].state = "DISPATCHED" /\ calls'[ticket'[u]] = 0
      /\ pc'[u] = "sending" => resv'[ticket'[u]].state = "DISPATCHED"
      /\ pc'[u] \in {"backoff", "retry_checked"} => request'[u].retry # NoTicket
    BY <1>3, <1>4, <1>5, <1>8 DEF Owned, Busy, history
  <2>2. \A u, v \in Threads :
      u # v /\ pc'[u] \in Busy /\ pc'[v] \in Busy => ticket'[u] # ticket'[v]
    BY <1>3, <1>4 DEF Busy, Owned
  <2>3. \A j \in Tickets : /\ calls'[j] <= 1
                           /\ resv'[j].state \in {"NONE", "RESERVED"} => calls'[j] = 0
    BY <1>8 DEF Owned, history
  <2> QED BY <2>1, <2>2, <2>3 DEF Owned
<1>10. Late' BY <1>3 DEF Late, history
<1> QED BY <1>6, <1>7, <1>9, <1>10

LEMMA MarkDispatchedStep ==
  ASSUME IInv, NEW t \in Threads, MarkDispatched(t)
  PROVE  IInv'
<1> DEFINE k == ticket[t]
           new == [resv[k] EXCEPT !.state = "DISPATCHED"]
<1>1. /\ pc[t] = "reserved" /\ resv[k].state = "RESERVED" /\ Record(k, new)
      /\ Goto(t, "dispatched") /\ UNCHANGED <<capability, environment, history>>
  BY DEF MarkDispatched
<1>2. k \in Tickets /\ resv[k] \in Reservations BY <1>1, FrameType DEF IInv, TypeOK
<1>3. resv[k].reason = "none" /\ resv[k].usage = NoUsage
  BY <1>1, <1>2 DEF IInv, LedgerOK, Shape
<1>4. new \in Reservations BY <1>2 DEF Reservations, ReservationStates
<1>5. EventOk(resv, EventOf(k, new))
  <2>1. /\ \A f \in {"estimate", "bytes", "input", "output"} : new[f] = resv[k][f]
        /\ new.state = "DISPATCHED" /\ new.reason = "none" /\ new.usage = NoUsage
    BY <1>2, <1>3 DEF Reservations
  <2> HIDE DEF new, k
  <2> QED BY <2>1, <1>1, <1>2, <1>4, LaterStateIsAccepted DEF IInv
<1>6. new.state = "DISPATCHED" BY <1>2 DEF Reservations
<1> HIDE DEF new
<1> QED BY <1>1, <1>4, <1>5, <1>6, ProgressStep

LEMMA SettleStep ==
  ASSUME IInv, NEW t \in Threads, NEW usage \in Replies, Settle(t, usage)
  PROVE  IInv'
<1> DEFINE k == ticket[t]
           new == [resv[k] EXCEPT !.state = "SETTLED", !.usage = usage]
<1>1. /\ pc[t] = "sending" /\ resv[k].state = "DISPATCHED" /\ Record(k, new)
      /\ usage.input <= resv[k].input /\ usage.output <= resv[k].output
      /\ Goto(t, "idle") /\ UNCHANGED <<capability, environment, history>>
  BY DEF Settle
<1>2. k \in Tickets /\ resv[k] \in Reservations BY <1>1, FrameType DEF IInv, TypeOK
<1>3. resv[k].reason = "none" /\ usage # NoUsage
  BY <1>1, <1>2, ConstantsAssumption DEF IInv, LedgerOK, Shape
<1>4. new \in Reservations BY <1>2 DEF Reservations, ReservationStates
<1>5. EventOk(resv, EventOf(k, new))
  <2>1. /\ \A f \in {"estimate", "bytes", "input", "output"} : new[f] = resv[k][f]
        /\ new.state = "SETTLED" /\ new.reason = "none" /\ new.usage = usage
        /\ new.input = resv[k].input /\ new.output = resv[k].output
    BY <1>2, <1>3 DEF Reservations
  <2> HIDE DEF new, k
  <2> QED BY <2>1, <1>1, <1>2, <1>3, <1>4, LaterStateIsAccepted DEF IInv
<1>6. new.state = "SETTLED" BY <1>2 DEF Reservations
<1> HIDE DEF new
<1> QED BY <1>1, <1>4, <1>5, <1>6, ProgressStep

LEMMA RetainStep ==
  ASSUME IInv, NEW t \in Threads, pc[t] = "sending", NEW reason \in ALLOWED_RETAIN_REASONS,
         NEW place, Retain(t, reason), Goto(t, place),
         \/ place \in {"idle", "freezing"}
         \/ (place = "backoff" /\ request[t].retry # NoTicket),
         UNCHANGED <<capability, environment, history>>
  PROVE  IInv'
<1> DEFINE k == ticket[t]
           new == [resv[k] EXCEPT !.state = "RETAINED", !.reason = reason]
<1>1. Record(k, new) BY DEF Retain
<1>2. k \in Tickets /\ resv[k] \in Reservations /\ resv[k].state = "DISPATCHED"
  BY FrameType DEF IInv, TypeOK, Owned
<1>3. resv[k].usage = NoUsage BY <1>2 DEF IInv, LedgerOK, Shape
<1>4. new \in Reservations BY <1>2 DEF Reservations, ReservationStates
<1>5. EventOk(resv, EventOf(k, new))
  <2>1. /\ \A f \in {"estimate", "bytes", "input", "output"} : new[f] = resv[k][f]
        /\ new.state = "RETAINED" /\ new.reason = reason /\ new.usage = NoUsage
    BY <1>2, <1>3 DEF Reservations
  <2> HIDE DEF new, k
  <2> QED BY <2>1, <1>2, <1>4, LaterStateIsAccepted DEF IInv
<1>6. new.state = "RETAINED" BY <1>2 DEF Reservations
<1> HIDE DEF new
<1> QED BY <1>1, <1>4, <1>5, <1>6, ProgressStep

LEMMA ProviderFailsStep ==
  ASSUME IInv, NEW t \in Threads, NEW kind \in FailureKinds, ProviderFails(t, kind)
  PROVE  IInv'
<1> DEFINE reason == IF Retrying(t) THEN "provider_failure" ELSE kind
           place == IF ~Retrying(t) /\ kind \in TRANSIENT /\ request[t].retry # NoTicket
                    THEN "backoff" ELSE "idle"
<1>1. /\ pc[t] = "sending" /\ Retain(t, reason) /\ Goto(t, place)
      /\ UNCHANGED <<capability, environment, history>>
  BY DEF ProviderFails
<1>2. reason \in ALLOWED_RETAIN_REASONS
  BY ConstantsAssumption DEF ALLOWED_RETAIN_REASONS
<1>3. place = "idle" \/ (place = "backoff" /\ request[t].retry # NoTicket)
  OBVIOUS
<1> HIDE DEF reason, place
<1> QED BY <1>1, <1>2, <1>3, RetainStep

LEMMA SendStep ==
  ASSUME IInv, NEW t \in Threads, Send(t)
  PROVE  IInv'
<1> USE DEF IInv
<1> DEFINE k == ticket[t]
<1>1. /\ pc[t] = "dispatched" /\ Goto(t, "sending")
      /\ UNCHANGED <<ledger, capability, environment>>
      /\ calls' = [calls EXCEPT ![k] = @ + 1]
      /\ late' = [late EXCEPT ![t] = IF capability = "FROZEN" THEN @ + 1 ELSE @]
  BY DEF Send
<1>2. k \in Tickets BY <1>1, FrameType
<1>3. resv[k].state = "DISPATCHED" /\ calls[k] = 0
  BY <1>1 DEF Owned
<1>4. \A u \in Threads \ {t} : pc[u] \in Busy => ticket[u] \in Tickets /\ ticket[u] # k
  BY <1>1, FrameType DEF Owned, Busy
<1>5. /\ frame' \in [Threads -> Frames \cup {NoFrame}]
      /\ pc'[t] = "sending" /\ ticket'[t] = k /\ request'[t] = request[t]
      /\ \A u \in Threads \ {t} : pc'[u] = pc[u] /\ ticket'[u] = ticket[u]
                                  /\ request'[u] = request[u]
  BY <1>1, GotoType
<1> HIDE DEF k
<1>6. /\ calls' \in [Tickets -> Nat] /\ calls'[k] = 1
      /\ \A j \in Tickets \ {k} : calls'[j] = calls[j]
  BY <1>1, <1>2, <1>3 DEF TypeOK
<1>7. late[t] = 0
  <2>1. late[t] \in Nat BY DEF TypeOK
  <2>2. late[t] <= 1 /\ late[t] # 1 BY <1>1 DEF Late
  <2> QED BY <2>1, <2>2
<1>8. /\ late' \in [Threads -> Nat]
      /\ late'[t] = IF capability = "FROZEN" THEN 1 ELSE 0
      /\ \A u \in Threads \ {t} : late'[u] = late[u]
  BY <1>1, <1>7 DEF TypeOK
<1>9. TypeOK' BY <1>1, <1>5, <1>6, <1>8 DEF TypeOK, ledger, environment
<1>10. LedgerOK' BY <1>1, LedgerUnchanged
<1>11. Owned'
  <2>0. resv' = resv BY <1>1 DEF ledger
  <2>1. \A u \in Threads :
      /\ pc'[u] = "reserved" => resv'[ticket'[u]].state = "RESERVED"
      /\ pc'[u] = "dispatched" => resv'[ticket'[u]].state = "DISPATCHED" /\ calls'[ticket'[u]] = 0
      /\ pc'[u] = "sending" => resv'[ticket'[u]].state = "DISPATCHED"
      /\ pc'[u] \in {"backoff", "retry_checked"} => request'[u].retry # NoTicket
    BY <2>0, <1>3, <1>4, <1>5, <1>6 DEF Owned, Busy
  <2>2. \A u, v \in Threads :
      u # v /\ pc'[u] \in Busy /\ pc'[v] \in Busy => ticket'[u] # ticket'[v]
    BY <1>4, <1>5 DEF Owned
  <2>3. \A j \in Tickets : /\ calls'[j] <= 1
                           /\ resv'[j].state \in {"NONE", "RESERVED"} => calls'[j] = 0
    BY <2>0, <1>3, <1>6 DEF Owned
  <2> QED BY <2>1, <2>2, <2>3 DEF Owned
<1>12. Late' BY <1>1, <1>5, <1>8 DEF Late
<1> QED BY <1>9, <1>10, <1>11, <1>12

LEMMA RestartStep ==
  ASSUME IInv, Restart
  PROVE  IInv'
<1> USE DEF IInv
<1>1. /\ restarts' = restarts + 1 /\ replayed' = Len(events) /\ resv' = Replay.resv
      /\ capability' = "QUALIFIED" /\ frame' = [t \in Threads |-> NoFrame]
      /\ late' = [t \in Threads |-> 0] /\ UNCHANGED <<events, sequence, calls>>
  BY DEF Restart
<1>2. resv' = resv BY <1>1 DEF LedgerOK, ReplayAccepts
<1>3. LedgerOK' BY <1>1, <1>2, LedgerUnchanged DEF ledger
<1>4. Len(events) \in 0 .. Len(events)
  <2>1. Len(events) \in Nat BY DEF TypeOK
  <2> QED BY <2>1
<1>5. TypeOK' BY <1>1, <1>2, <1>4 DEF TypeOK
<1>6. Owned'
  <2>1. \A t \in Threads : pc'[t] = "idle" BY <1>1 DEF pc, NoFrame
  <2> QED BY <2>1, <1>1, <1>2 DEF Owned, Busy
<1>7. Late' BY <1>1 DEF Late
<1> QED BY <1>3, <1>5, <1>6, <1>7

\* Every step of the specification keeps the invariant.
LEMMA NextInv == IInv /\ [Next]_vars => IInv'
<1> SUFFICES ASSUME IInv, [Next]_vars PROVE IInv' OBVIOUS
<1>1. ASSUME NEW t \in Threads, Step(t) PROVE IInv'
  <2>1. ASSUME NEW usage \in Replies, BreachOfUsage(t, usage) PROVE IInv'
    BY <2>1, RetainStep DEF BreachOfUsage, ALLOWED_RETAIN_REASONS
  <2>2. CASE MissingUsage(t)
    BY <2>2, RetainStep DEF MissingUsage, ALLOWED_RETAIN_REASONS
  <2> QED BY <1>1, <2>1, <2>2, ReserveStep, ReserveRetryStep, MarkDispatchedStep, SendStep,
             SettleStep, ProviderFailsStep, CheckAgainStep, FreezeStep DEF Step
<1>2. CASE ObserveUnattributedCall
  <2>1. /\ capability' = "FROZEN" /\ UNCHANGED <<ledger, environment, frame, history>>
    BY <1>2 DEF ObserveUnattributedCall
  <2>2. TypeOK' BY <2>1 DEF IInv, TypeOK, ledger, environment, history
  <2>3. LedgerOK' BY <2>1, LedgerUnchanged DEF IInv
  <2>4. Owned' BY <2>1 DEF IInv, Owned, pc, ticket, request, ledger, history
  <2>5. Late' BY <2>1 DEF IInv, Late, pc, history
  <2> QED BY <2>2, <2>3, <2>4, <2>5 DEF IInv
<1>3. CASE Tick
  <2>1. /\ sequence' = sequence + 1
        /\ UNCHANGED <<ledger, capability, frame, history, restarts, replayed>>
    BY <1>3 DEF Tick
  <2>2. TypeOK' BY <2>1 DEF IInv, TypeOK, ledger, history
  <2>3. LedgerOK' BY <2>1, LedgerUnchanged DEF IInv
  <2>4. Owned' BY <2>1 DEF IInv, Owned, pc, ticket, request, ledger, history
  <2>5. Late' BY <2>1 DEF IInv, Late, pc, history
  <2> QED BY <2>2, <2>3, <2>4, <2>5 DEF IInv
<1>4. CASE UNCHANGED vars
  <2>1. UNCHANGED <<ledger, capability, environment, frame, history>>
    BY <1>4 DEF vars, ledger, environment, history
  <2>2. TypeOK' BY <2>1 DEF IInv, TypeOK, ledger, environment, history
  <2>3. LedgerOK' BY <2>1, LedgerUnchanged DEF IInv
  <2>4. Owned' BY <2>1 DEF IInv, Owned, pc, ticket, request, ledger, history
  <2>5. Late' BY <2>1 DEF IInv, Late, pc, history
  <2> QED BY <2>2, <2>3, <2>4, <2>5 DEF IInv
<1> QED BY <1>1, <1>2, <1>3, <1>4, DispatchStep, RestartStep DEF Next

-----------------------------------------------------------------------------
(* The theorems.                                                           *)

\* Every call that was made has its reservation.
LEMMA PaidIsReserved ==
  ASSUME IInv
  PROVE  {k \in Tickets : calls[k] > 0 \/ resv[k].state # "NONE"} = Reserved(resv)
<1>1. ASSUME NEW k \in Tickets, calls[k] > 0 PROVE resv[k].state # "NONE"
  BY <1>1 DEF IInv, Owned
<1> QED BY <1>1 DEF Reserved

\* The campaign stays within its caps: the calls ever made, with all reservations still to be
\* called, cost no more than requests, input and output allow, whatever threads race for the
\* last reservation and wherever the process died; and the events replay without a refusal to
\* the reservations that the ledger held (reserve, _append, replay).
THEOREM LedgerKeepsCaps == Spec => []CapsHold
<1>1. IInv => CapsHold
  <2> SUFFICES ASSUME IInv PROVE CapsHold OBVIOUS
  <2>1. WithinCaps(resv) /\ ReplayAccepts /\ TypeOK BY DEF IInv, LedgerOK
  <2>2. CallsWithinCaps
    BY <2>1, PaidIsReserved DEF CallsWithinCaps, WithinCaps, TotalInput, TotalOutput
  <2> QED BY <2>1, <2>2 DEF CapsHold
<1> QED BY <1>1, InitInv, NextInv, PTL DEF Spec

\* A ticket pays for one call and the call is in the ledger before it leaves (mark_dispatched),
\* also when two threads hold the ticket or the process crashes; a thread that read the
\* capability before a freeze makes at most the one call it was about to make (dispatch).
THEOREM TicketPaysOnce == Spec => []OneCall
<1>1. IInv => OneCall
  <2> SUFFICES ASSUME IInv PROVE OneCall OBVIOUS
  <2>1. OneLateCall BY DEF IInv, Late, OneLateCall
  <2>2. OneCallPerTicket
    <3> SUFFICES ASSUME NEW k \in Tickets
                 PROVE  /\ calls[k] <= 1
                        /\ calls[k] = 1 => resv[k].state \in {"DISPATCHED", "SETTLED", "RETAINED"}
      BY DEF OneCallPerTicket
    <3>1. resv[k].state \in ReservationStates \cup {"NONE"} BY DEF IInv, TypeOK, Reservations
    <3> QED BY <3>1 DEF IInv, Owned, ReservationStates
  <2> QED BY <2>1, <2>2 DEF OneCall
<1> QED BY <1>1, InitInv, NextInv, PTL DEF Spec
=============================================================================
