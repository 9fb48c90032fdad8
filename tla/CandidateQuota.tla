---------------------------- MODULE CandidateQuota ----------------------------
(***************************************************************************)
(* The admission ledger of untrusted candidates                            *)
(* (benchmarks/secure_memory/substrate/candidate_rpc.py).  Handlers of many *)
(* tasks share one ledger; propose and complete run under its lock, so each *)
(* is one step.  Campaign, configuration and tenant are one name, task and *)
(* generation another; a document is its proposal id, its task and whether *)
(* it carries a forbidden field, is no mapping or breaks the schema.       *)
(***************************************************************************)
EXTENDS Integers, Sequences, FiniteSets

CONSTANTS
    Contexts,       \* attempts: [campaign, problem, turn, task, attempt]
    Documents,      \* what candidates send: [id, task, form]
    TurnCap, ProblemCap, CampaignCap,       \* proposals a boundary may spend
    BurstCap, BurstTime, RollingCap, RollingTime,
    QueueDepth,
    MaxTime         \* bound on the clock

CapsAndForms ==
    /\ \A d \in Documents : d.form \in {"valid", "forbidden", "garbage", "oversized"}
    /\ {TurnCap, ProblemCap, CampaignCap, BurstCap, RollingCap, QueueDepth} \subseteq Nat
    /\ BurstTime \in Nat /\ RollingTime \in Nat /\ MaxTime \in Nat
    /\ BurstTime <= RollingTime

VARIABLES
    clock,      \* the last valid reading
    spent,      \* boundary -> attempts charged to it, for turns, problems and campaigns
    rates,      \* campaign -> times of its attempts in the rolling window
    queues,     \* campaign -> receipts that wait for completion
    completed,  \* receipts that were completed
    attempts,   \* attempt -> its answer: [digest, receipt, reason]
    proposals,  \* proposal id -> the receipt it was accepted with
    admitted    \* history: campaign -> times at which it had a proposal accepted

vars == <<clock, spent, rates, queues, completed, attempts, proposals, admitted>>

Campaign(c) == c.campaign
Problem(c) == <<c.campaign, c.problem>>
Boundary(c) == <<c.campaign, c.problem, c.turn>>
Campaigns == {Campaign(c) : c \in Contexts}
Boundaries == UNION {{<<Campaign(c)>>, Problem(c), Boundary(c)} : c \in Contexts}
Ids == {d.id : d \in Documents}

None == "none"
Nothing == {}
Unanswered == [digest |-> Nothing, receipt |-> Nothing, reason |-> "unanswered"]
\* Where the code has an optional value there is a set of at most one.
Digest(d) == IF d.form \in {"forbidden", "garbage"} THEN Nothing ELSE {d}
Receipt(c, d) == [context |-> c, digest |-> d]

Init == /\ clock = 0
        /\ spent = [b \in Boundaries |-> 0]
        /\ rates = [k \in Campaigns |-> <<>>]
        /\ queues = [k \in Campaigns |-> {}]
        /\ completed = {}
        /\ attempts = [c \in Contexts |-> Unanswered]
        /\ proposals = [i \in Ids |-> Nothing]
        /\ admitted = [k \in Campaigns |-> <<>>]

Answer(c, digest, receipt, reason) ==
    attempts' = [attempts EXCEPT ![c] = [digest |-> digest, receipt |-> receipt,
                                         reason |-> reason]]

Reject(c, digest, reason) == Answer(c, digest, Nothing, reason)

Exhausted(c) == IF spent[Boundary(c)] >= TurnCap THEN "turn_quota_exhausted"
                ELSE IF spent[Problem(c)] >= ProblemCap THEN "problem_quota_exhausted"
                ELSE IF spent[<<Campaign(c)>>] >= CampaignCap THEN "campaign_quota_exhausted"
                ELSE None

\* The times that are left when those of the front that are too old are dropped.
After(times, now, width) ==
    LET old == {n \in 0 .. Len(times) : \A i \in 1 .. n : now - times[i] >= width}
        dropped == CHOOSE n \in old : \A m \in old : m <= n
    IN  SubSeq(times, dropped + 1, Len(times))

\* The times of the burst alone, as if the deque kept no older ones.
RecentBurst(c, now) == After(rates[Campaign(c)], now, BurstTime)

\* The deque of the campaign without what left the rolling window.
Recent(c, now) == After(rates[Campaign(c)], now, RollingTime)

Burst(c, now) == {i \in DOMAIN Recent(c, now) : now - Recent(c, now)[i] < BurstTime}

\* reserve, at a reading of the clock: the caps first and without a charge, then the
\* charge, then the clock and the rates.  Invalid stands for a reading that is no
\* finite number or lies before the last one.
Invalid == -1

Reserve(c, now) ==
    IF Exhausted(c) # None THEN Exhausted(c)
    ELSE IF now = Invalid THEN "clock_invalid"
    ELSE IF Cardinality(Burst(c, now)) >= BurstCap THEN "burst_rate_exhausted"
    ELSE IF Len(Recent(c, now)) + 1 > RollingCap THEN "rolling_rate_exhausted"
    ELSE None

Charged(c) == [b \in Boundaries |->
                 IF b \in {<<Campaign(c)>>, Problem(c), Boundary(c)} THEN spent[b] + 1
                 ELSE spent[b]]

Charge(c, now) ==
    IF Exhausted(c) # None THEN UNCHANGED <<clock, spent, rates>>
    ELSE /\ spent' = Charged(c)
         /\ IF now = Invalid THEN UNCHANGED <<clock, rates>>
            ELSE /\ clock' = now
                 /\ rates' = [rates EXCEPT ![Campaign(c)] = Append(Recent(c, now), now)]

\* The reason for which a reserved document is refused, in the order of propose.
Refusal(c, d) ==
    IF d.form = "forbidden" THEN "forbidden_field"
    ELSE IF d.form = "garbage" THEN "schema_invalid"
    ELSE IF d.task # c.task THEN "task_mismatch"
    ELSE IF d.form = "oversized" THEN "payload_too_large"
    ELSE IF Cardinality(queues[Campaign(c)]) >= QueueDepth THEN "queue_depth_exhausted"
    ELSE None

\* A document whose id was accepted before is answered from there, without a charge;
\* one with a forbidden field or for another task is charged before that.
Known(c, d) == /\ d.form \in {"valid", "oversized"} /\ d.task = c.task
               /\ proposals[d.id] # Nothing

Replay(c, d) ==
    LET first == proposals[d.id]
    IN  IF \A r \in first : Boundary(r.context) = Boundary(c) /\ {r.digest} = Digest(d)
        THEN Answer(c, Digest(d), first, None)
        ELSE Reject(c, Digest(d), "cross_boundary_duplicate")

\* An attempt that was answered is answered the same again and changes nothing.
New(c) == attempts[c] = Unanswered

Propose(c, d) ==
    /\ New(c)
    /\ \/ /\ Known(c, d)
          /\ Replay(c, d)
          /\ UNCHANGED <<clock, spent, rates, queues, proposals, admitted>>
       \/ /\ ~Known(c, d)
          /\ \E now \in (clock .. MaxTime) \cup {Invalid} :
                LET reserved == Reserve(c, now)
                    reason == IF reserved # None THEN reserved ELSE Refusal(c, d)
                IN  /\ Charge(c, now)
                    /\ IF reason # None
                       THEN /\ Reject(c, Digest(d), reason)
                            /\ UNCHANGED <<queues, proposals, admitted>>
                       ELSE /\ queues' = [queues EXCEPT ![Campaign(c)] = @ \cup {Receipt(c, d)}]
                            /\ proposals' = [proposals EXCEPT ![d.id] = {Receipt(c, d)}]
                            /\ admitted' = [admitted EXCEPT ![Campaign(c)] = Append(@, now)]
                            /\ Answer(c, Digest(d), {Receipt(c, d)}, None)
    /\ UNCHANGED completed

\* complete, once: later calls find the receipt completed and change nothing, and an
\* attempt cannot complete the receipt of another.
Complete(c) ==
    LET mine == {r \in attempts[c].receipt \cap queues[Campaign(c)] : r.context = c}
    IN  /\ mine # {}
        /\ queues' = [queues EXCEPT ![Campaign(c)] = @ \ mine]
        /\ completed' = completed \cup mine
        /\ UNCHANGED <<clock, spent, rates, attempts, proposals, admitted>>

Next == \E c \in Contexts : (\E d \in Documents : Propose(c, d)) \/ Complete(c)

Spec == Init /\ [][Next]_vars

-----------------------------------------------------------------------------
(* Properties.                                                             *)

\* The clock runs forwards, and the deque of a campaign holds valid readings in
\* order, no more of them than attempts were charged.
TypeOK ==
    /\ clock \in 0 .. MaxTime
    /\ \A k \in Campaigns :
         /\ Len(rates[k]) <= spent[<<k>>]
         /\ \A i \in DOMAIN rates[k] : rates[k][i] \in 0 .. clock
         /\ \A i, j \in DOMAIN rates[k] : i < j => rates[k][i] <= rates[k][j]

\* Every attempt is charged once to its turn, its problem and its campaign, whatever
\* it carried and however often it is sent, but for those the caps refused and those
\* a former proposal answered ("a retry that attempts to regain a proposal
\* opportunity" in the plan of the substrate).
Uncharged == {"turn_quota_exhausted", "problem_quota_exhausted", "campaign_quota_exhausted",
              "cross_boundary_duplicate"}

WasCharged(c) == LET a == attempts[c]
                 IN  /\ a # Unanswered /\ a.reason \notin Uncharged
                     /\ \A r \in a.receipt : r.context = c

Inside(c, b) == b \in {<<Campaign(c)>>, Problem(c), Boundary(c)}

ChargedOnce ==
    \A b \in Boundaries :
        spent[b] = Cardinality({c \in Contexts : Inside(c, b) /\ WasCharged(c)})

\* Accepted proposals wait or are completed, never both and never twice, and an
\* attempt that holds a receipt holds the one its proposal id was accepted with.
Receipts(k) == queues[k] \cup {r \in completed : Campaign(r.context) = k}

QueueBacked ==
    /\ \A k \in Campaigns :
         /\ queues[k] \cap completed = {}
         /\ Cardinality(queues[k]) <= QueueDepth
         /\ Receipts(k) = {r \in UNION {proposals[i] : i \in Ids} : Campaign(r.context) = k}
    /\ \A c \in Contexts : \A r \in attempts[c].receipt :
         proposals[r.digest.id] = {r} /\ Boundary(r.context) = Boundary(c)

\* No window of the burst's or of the rolling time admits more than its cap, however
\* refusals and admissions alternate and whatever readings the clock gives.
Within(times, now, width) == Cardinality({i \in DOMAIN times : times[i] \in (now - width + 1) .. now})

AdmittedWithinRate ==
    \A k \in Campaigns, now \in 0 .. clock :
        /\ Within(admitted[k], now, BurstTime) <= BurstCap
        /\ Within(admitted[k], now, RollingTime) <= RollingCap
=============================================================================
