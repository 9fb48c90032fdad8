----------------------------- MODULE MCLiveness -----------------------------
(* What must eventually happen, on small instances and with the fairness of  *)
(* each component.  A behaviour is one of the part that "part" names: a run  *)
(* of the bridge, two threads of the API that lock in opposite orders, one   *)
(* thread and a browser that follows the task, the receive window of the     *)
(* authenticated channel, an expert run, or a candidate and a closure of one *)
(* lineage.  The part is constant, so one strong fairness condition can      *)
(* stand for one of each part.                                               *)
EXTENDS ApiStream

CONSTANTS Workers, Pre, Post, Reassignable, MaxReassign, Outcomes, Variants, MaxFaults,
          s1, s2, k1

VARIABLES
    part,
    row, lease, frame, receipts, ledger, at, matrix, ego, faults,      \* BridgeRun
    head, claims, records, receiver, answers, routes, deliveries,      \* ReceiptChannel
    memory, disk, worker, served, failures, crashes,                   \* ExpertRuns
    streams, closures, memoryLock, transaction, walk                   \* TrustedMemory

bridge == <<row, lease, frame, receipts, ledger, at, matrix, ego, faults>>
channel == <<head, claims, records, receiver, answers, routes, deliveries>>
experts == <<memory, disk, worker, served, failures, crashes>>
facts == <<streams, closures, memoryLock, transaction, walk>>
all == <<part, composed, bridge, channel, experts, facts>>

-----------------------------------------------------------------------------
MCSessions == {s1, s2}
MCOnePre == <<"plan">>
MCOnePost == <<"verify">>
Bridge == INSTANCE BridgeRun

Advance(key, of) == [op |-> "advance", key |-> key, of |-> of, say |-> ""]
Decide(key, of, say) == [op |-> "decide", key |-> key, of |-> of, say |-> say]
ResetTo(key, say) == [op |-> "reset", key |-> key, of |-> NoApproval, say |-> say]
LockOrderRequests ==
    {Advance(NoKey, NoApproval), Advance(k1, <<1, 1>>), Decide(k1, <<1, 1>>, "approved")}
StreamRequests == {Advance(NoKey, NoApproval), ResetTo(NoKey, "insufficient_evidence")}
MCRequests == LockOrderRequests \cup StreamRequests

Frame(n, bytes) == [sequence |-> n, bytes |-> bytes]
Channel == INSTANCE ReceiptChannel
    WITH thread <- receiver, Threads <- Sessions, MaxDeliveries <- 3, MaxRoutes <- 2,
         Frames <- {Frame(1, "a"), Frame(1, "b"), Frame(2, "c")}

Experts == INSTANCE ExpertRuns
    WITH thread <- worker, Runs <- {"r1"}, MaxFailures <- 1, MaxCrashes <- 0

Memory == INSTANCE TrustedMemory
    WITH lock <- memoryLock, session <- transaction,
         Lineages <- {1}, Contents <- {1}, Candidates <- {1}, Verified <- {},
         Closures <- {"c1"}, VerifiedFacts <- [c \in {"c1"} |-> {1}], Keys <- {k1},
         Transitions <- {}, MaxHistory <- 3, PageSize <- 3

-----------------------------------------------------------------------------
MCInit == /\ part \in {"bridge", "requests", "stream", "channel", "expert", "memory"}
          /\ IF part = "requests" THEN Reached(1, 3, "happy_path") ELSE Init
          /\ Stream!ClientInit /\ Bridge!Init /\ Channel!Init /\ Experts!Init /\ Memory!TrustedInit
          /\ part # "stream" => url = 0

Serving == {s \in Sessions : session[s].pc # "idle"}
InPart == /\ part = "requests" => \A s \in Serving : Request(s) \in LockOrderRequests
          /\ part = "stream" => /\ \A s \in Serving : Request(s) \in StreamRequests
                                /\ Cardinality(Serving) <= 1 /\ sends <= 3

OnBridge(A) == /\ part = "bridge" /\ A
               /\ UNCHANGED <<part, composed, channel, experts, facts>>
OnApi(A) == /\ part \in {"requests", "stream"} /\ A
            /\ UNCHANGED <<part, bridge, channel, experts, facts>>
OnChannel(A) == /\ part = "channel" /\ A
                /\ UNCHANGED <<part, composed, bridge, experts, facts>>
OnExperts(A) == /\ part = "expert" /\ A
                /\ UNCHANGED <<part, composed, bridge, channel, facts>>
OnMemory(A) == /\ part = "memory" /\ A
               /\ UNCHANGED <<part, composed, bridge, channel, experts>>

MCNext == /\ \/ OnBridge(Bridge!Next)
             \/ OnApi(RequestStep)
             \/ part = "stream" /\ OnApi(ReaderStep)
             \/ OnChannel(Channel!Next)
             \/ OnExperts(Experts!Next)
             \/ OnMemory(Memory!TrustedNext)
          /\ InPart'

-----------------------------------------------------------------------------
(* The fairness of BridgeRun, ApiRequests, ApiStream, ReceiptChannel,      *)
(* ExpertRuns and TrustedMemory: see there.                                *)

\* What waits for a lock in the three components that have sessions.
Granted(s) == \/ OnApi(Step(s) /\ UNCHANGED client)
              \/ OnChannel(Channel!Claim(s))
              \/ OnMemory(Memory!FinalizeFact(s))

\* What goes on by itself there.
GoesOn(s) == \/ OnApi((Commit(s) \/ Answer(s) \/ LoseAnswer(s)) /\ UNCHANGED client)
             \/ OnChannel(\/ Channel!Commit(s) \/ Channel!Route(s) \/ Channel!RouteFails(s)
                          \/ Channel!InstallOrGet(s) \/ Channel!InstallFails(s))
             \/ OnMemory(Memory!Commit(s))

MCFairness ==
    /\ \A w \in Workers : WF_all(OnBridge(Bridge!Running(w)))
    /\ WF_all(OnBridge(Bridge!ExpireDead))
    /\ \A t \in Bridge!Tasks : WF_all(OnBridge(Bridge!TeamProgress(t)))
    /\ WF_all(OnBridge(Bridge!Approve))
    /\ SF_all(OnBridge(\E w \in Workers : Bridge!StartClaim(w)) \/ Granted(s1))
    /\ SF_all(OnBridge(\E w \in Workers : Bridge!ReconcileClaim(w)) \/ Granted(s2))
    /\ SF_all(OnBridge(\E w \in Workers : Bridge!GrantClaim(w)))
    /\ \A s \in Sessions : WF_all(GoesOn(s))
    /\ WF_all(OnApi((\E s \in Sessions : DeadlockAbort(s)) /\ UNCHANGED client))
    /\ WF_all(part = "stream" /\ OnApi(ReaderGoesOn))
    /\ WF_all(OnExperts(Experts!Execute("r1")))

MCSpec == MCInit /\ [][MCNext]_all /\ MCFairness

-----------------------------------------------------------------------------

\* Whoever waits for a lock or a claim goes on, and gives up what it holds: see
\* ApiRequests, ReceiptChannel and TrustedMemory.
CallsEnd == RequestsEnd /\ Channel!CallsEnd /\ Memory!TransactionsEnd

\* What a request commits reaches the browser: see EventStream.
EventsDelivered == part = "stream" => Stream!EventsDelivered
=============================================================================
