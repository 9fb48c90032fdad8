---------------------------- MODULE ReceiptChannel ----------------------------
(***************************************************************************)
(* One receive window of the authenticated channel                         *)
(* (benchmarks/secure_memory/substrate/channel.py): threads deliver frames, *)
(* a thread claims the sequence number of its frame, routes it, installs   *)
(* the receipt and moves the head; the others wait or are refused.  A frame *)
(* stands for its bytes and their digest; those that fail the checks of    *)
(* _decode, _verify and the MAC change nothing and are left out.           *)
(***************************************************************************)
EXTENDS Integers, FiniteSets

CONSTANTS
    Threads,        \* threads in ChannelCodec.receive
    Frames,         \* authentic frames: [sequence, bytes]
    MaxDeliveries,  \* bound on calls of receive
    MaxRoutes       \* bound on calls of the route that end

ASSUME FramesOK == \A f \in Frames : f.sequence \in Nat \ {0} /\ f.bytes # "none"
ASSUME Bounds == MaxDeliveries \in Nat /\ MaxRoutes \in Nat

SequenceNumbers == {f.sequence : f \in Frames}

VARIABLES
    head,       \* last committed sequence of the window, 0 without one
    claims,     \* sequence -> the frame that is being routed
    records,    \* sequence -> installed receipt: [frame, receipt]
    thread,     \* thread -> its call
    answers,    \* receipts that were returned: [sequence, frame, receipt]
    routes,     \* routes that ended, which numbers their receipts
    deliveries  \* calls so far

vars == <<head, claims, records, thread, answers, routes, deliveries>>
store == <<head, claims, records>>

None == "none"
NoReceipt == [frame |-> None, receipt |-> 0]
Idle == [pc |-> "idle"]

Init == /\ head = 0
        /\ claims = [n \in SequenceNumbers |-> None]
        /\ records = [n \in SequenceNumbers |-> NoReceipt]
        /\ thread = [t \in Threads |-> Idle]
        /\ answers = {}
        /\ routes = 0
        /\ deliveries = 0

At(t, pc) == thread[t].pc = pc
Frame(t) == thread[t].frame
SequenceOf(t) == Frame(t).sequence

Goto(t, pc) == thread' = [thread EXCEPT ![t].pc = pc]

Reject(t) == thread' = [thread EXCEPT ![t] = Idle] /\ UNCHANGED answers

Return(t, record) ==
    /\ thread' = [thread EXCEPT ![t] = Idle]
    /\ answers' = answers \cup {[sequence |-> SequenceOf(t), frame |-> Frame(t).bytes,
                                 receipt |-> record.receipt]}

\* receive, up to the claim.
Deliver(t, f) ==
    /\ At(t, "idle") /\ deliveries < MaxDeliveries
    /\ deliveries' = deliveries + 1
    /\ thread' = [thread EXCEPT ![t] = [pc |-> "claim", frame |-> f, receipt |-> 0]]
    /\ UNCHANGED <<store, answers, routes>>

\* claim: nobody is routing this sequence, or the thread waits.
Free(t) == claims[SequenceOf(t)] = None

\* Any frame with a spent number is taken for a replay.
AnyReplay(t) == TRUE

\* claim, below the head: the frame is the one whose receipt is installed.
Replays(t) == records[SequenceOf(t)].frame = Frame(t).bytes

\* claim under the lock.  A number below the head is a replay of the same bytes or
\* a conflict, the next one is claimed, any other is a mismatch.  Other bytes in
\* the place of a frame that is being routed are refused at once.
Claim(t) ==
    LET n == SequenceOf(t)
        b == Frame(t).bytes
    IN  /\ At(t, "claim")
        /\ \/ /\ ~Free(t) /\ claims[n] # b
              /\ Reject(t) /\ UNCHANGED claims
           \/ /\ Free(t) /\ n <= head
              /\ IF Replays(t) THEN Return(t, records[n]) ELSE Reject(t)
              /\ UNCHANGED claims
           \/ /\ Free(t) /\ n > head + 1
              /\ Reject(t) /\ UNCHANGED claims
           \/ /\ Free(t) /\ n = head + 1
              /\ claims' = [claims EXCEPT ![n] = b]
              /\ Goto(t, "route") /\ UNCHANGED answers
        /\ UNCHANGED <<head, records, routes, deliveries>>

\* The route answers with a receipt of its own, new at every call.
Route(t) ==
    /\ At(t, "route") /\ routes < MaxRoutes
    /\ routes' = routes + 1
    /\ thread' = [thread EXCEPT ![t] = [pc |-> "install", frame |-> Frame(t),
                                        receipt |-> routes']]
    /\ UNCHANGED <<store, answers, deliveries>>

\* abort: the claim is given back and the waiting threads are woken.
Abort(t) == claims' = [claims EXCEPT ![SequenceOf(t)] = None]

\* The route raises, or what it returns is no receipt.
RouteFails(t) ==
    /\ At(t, "route")
    /\ Abort(t) /\ Reject(t)
    /\ UNCHANGED <<head, records, routes, deliveries>>

InstallFails(t) ==
    /\ At(t, "install")
    /\ Abort(t) /\ Reject(t)
    /\ UNCHANGED <<head, records, routes, deliveries>>

\* install_or_get: a receipt that is installed already is kept.
InstallOrGet(t) ==
    LET n == SequenceOf(t)
    IN  /\ At(t, "install")
        /\ records[n].frame \in {None, Frame(t).bytes}
        /\ records' = IF records[n] # NoReceipt THEN records
                      ELSE [records EXCEPT ![n] = [frame |-> Frame(t).bytes,
                                                   receipt |-> thread[t].receipt]]
        /\ Goto(t, "commit")
        /\ UNCHANGED <<head, claims, answers, routes, deliveries>>

\* commit: head and claim in one step.
CommitHead(t) == head' = SequenceOf(t) /\ claims' = [claims EXCEPT ![SequenceOf(t)] = None]

Commit(t) ==
    /\ At(t, "commit")
    /\ CommitHead(t)
    /\ Return(t, records[SequenceOf(t)])
    /\ UNCHANGED <<records, routes, deliveries>>

Next == \E t \in Threads :
           \/ \E f \in Frames : Deliver(t, f)
           \/ Claim(t) \/ Route(t) \/ RouteFails(t) \/ InstallOrGet(t) \/ InstallFails(t)
           \/ Commit(t)

Spec == Init /\ [][Next]_vars

\* A thread that holds the claim runs on, a woken thread gets the lock in the end.
FairSpec == /\ Spec
            /\ \A t \in Threads : /\ SF_vars(Claim(t)) /\ WF_vars(Commit(t))
                                  /\ WF_vars(Route(t) \/ RouteFails(t))
                                  /\ WF_vars(InstallOrGet(t) \/ InstallFails(t))

-----------------------------------------------------------------------------
(* Properties.                                                             *)

Routing(n) == {t \in Threads : thread[t].pc \in {"route", "install", "commit"} /\ SequenceOf(t) = n}

\* The head and the records are where the threads say they are.
TypeOK == /\ head \in SequenceNumbers \cup {0}
          /\ \A n \in SequenceNumbers : claims[n] = None <=> Routing(n) = {}

\* Whoever delivers a frame, however often and at the same time as others, is
\* answered with the one receipt of the one frame its sequence number was spent on.
OneReceipt == \A a, b \in answers : a.sequence = b.sequence => a = b

\* A sequence number is routed by one thread at a time, in order, and never again
\* once its receipt is part of the window ("Exact replay ... never repeats a side
\* effect", ChannelCodec.receive).
RoutedInOrder ==
    \A n \in SequenceNumbers :
        /\ Cardinality(Routing(n)) <= 1
        /\ Routing(n) # {} => n = head + 1
        /\ n <= head => records[n] # NoReceipt
        /\ n > head + 1 => records[n] = NoReceipt

\* Every call ends: a waiting thread is woken by the commit or the abort.
CallsEnd == \A t \in Threads : ~At(t, "idle") ~> At(t, "idle")
=============================================================================
