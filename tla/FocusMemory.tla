----------------------------- MODULE FocusMemory -----------------------------
(***************************************************************************)
(* The private memory of one agent (apps/api/research_os): a stage commit  *)
(* reads the last receipt, appends its own to a SQLite file, projects the  *)
(* result to FOCUS.md and sends the conversation to the remote memory.     *)
(* Requests and the threads of expert runs call it side by side.  A call   *)
(* stands for its payload, and its receipt is its number: two calls differ  *)
(* in the time of their payload.                                           *)
(***************************************************************************)
EXTENDS Integers, Sequences, FiniteSets

CONSTANTS
    Threads,        \* threads that commit stages of the agent
    MaxCalls,       \* bound on calls, retries among them
    MaxFailures,    \* bound on steps that raise
    MaxCrashes      \* bound on restarts of the process

Inputs == MaxCalls \in Nat /\ MaxFailures \in Nat /\ MaxCrashes \in Nat

VARIABLES
    commits,    \* rows of stage_commits: [receipt, previous]
    focusMd,    \* the sequence number of the commit FOCUS.md shows
    remote,     \* calls whose conversation was added, and archived, at the provider
    thread,     \* thread -> its call: [pc, call, sync, previous, sequence]
    answers,    \* answers that were sent: [receipt, previous, sequence]
    calls,      \* calls so far
    failures,   \* steps that raised so far
    crashes     \* restarts so far

vars == <<commits, focusMd, remote, thread, answers, calls, failures, crashes>>
durable == <<commits, focusMd, remote>>

ZERO_HASH == 0
Idle == [pc |-> "idle", call |-> 0, sync |-> FALSE, previous |-> ZERO_HASH, sequence |-> 0]

Init == /\ commits = <<>>
        /\ focusMd = 0
        /\ remote = [added |-> {}, archived |-> {}]
        /\ thread = [t \in Threads |-> Idle]
        /\ answers = {}
        /\ calls = 0
        /\ failures = 0
        /\ crashes = 0

At(t, pc) == thread[t].pc = pc
Goto(t, pc) == thread' = [thread EXCEPT ![t].pc = pc]
Stay == UNCHANGED <<answers, calls, failures, crashes>>

LastReceipt == IF commits = <<>> THEN ZERO_HASH ELSE commits[Len(commits)].receipt

\* commit_stage: sync_remote is given, or follows from the configuration.
Call(t, sync) ==
    /\ At(t, "idle") /\ calls < MaxCalls
    /\ calls' = calls + 1
    /\ thread' = [thread EXCEPT ![t] = [Idle EXCEPT !.pc = "read", !.call = calls + 1,
                                                    !.sync = sync]]
    /\ UNCHANGED <<durable, answers, failures, crashes>>

\* commit: sqlite3 opens no transaction for a SELECT.
ReadPrevious(t) ==
    /\ At(t, "read")
    /\ thread' = [thread EXCEPT ![t].pc = "insert", ![t].previous = LastReceipt]
    /\ UNCHANGED durable /\ Stay

Previous(t) == thread[t].previous

Rowid(t) == Len(commits) + 1

\* commit: the INSERTs begin a transaction, which holds the writer's lock until the
\* commit.
Insert(t) ==
    /\ At(t, "insert")
    /\ commits' = Append(commits, [receipt |-> thread[t].call, previous |-> Previous(t)])
    /\ thread' = [thread EXCEPT ![t].pc = "project", ![t].previous = Previous(t),
                                ![t].sequence = Rowid(t)]
    /\ UNCHANGED <<focusMd, remote>> /\ Stay

\* _atomic_project: a temporary file of its own, renamed.
Project(t) ==
    /\ At(t, "project")
    /\ focusMd' = thread[t].sequence
    /\ Goto(t, IF thread[t].sync THEN "add" ELSE "answer")
    /\ UNCHANGED <<commits, remote>> /\ Stay

\* commit_and_compact: two requests; the first answers before the second is sent.
ConversationAdd(t) ==
    /\ At(t, "add")
    /\ remote' = [remote EXCEPT !.added = @ \cup {thread[t].call}]
    /\ Goto(t, "archive")
    /\ UNCHANGED <<commits, focusMd>> /\ Stay

ForceArchive(t) ==
    /\ At(t, "archive")
    /\ remote' = [remote EXCEPT !.archived = @ \cup {thread[t].call}]
    /\ Goto(t, "answer")
    /\ UNCHANGED <<commits, focusMd>> /\ Stay

\* SELECT MAX(sequence) when the answer is built.
LastSequence(t) == Len(commits)

Sequence(t) == thread[t].sequence

Answer(t) ==
    /\ At(t, "answer")
    /\ answers' = answers \cup {[receipt |-> thread[t].call, previous |-> thread[t].previous,
                                 sequence |-> Sequence(t)]}
    /\ thread' = [thread EXCEPT ![t] = Idle]
    /\ UNCHANGED <<durable, calls, failures, crashes>>

\* A busy database, a full disk or the provider: what is done stays done, and what
\* the provider was asked may be done although its answer is lost.
Raise(t) ==
    /\ thread[t].pc \in {"read", "insert", "project", "add", "archive"}
    /\ failures < MaxFailures
    /\ failures' = failures + 1
    /\ thread' = [thread EXCEPT ![t] = Idle]
    /\ \/ remote' = remote
       \/ At(t, "add") /\ remote' = [remote EXCEPT !.added = @ \cup {thread[t].call}]
       \/ At(t, "archive") /\ remote' = [remote EXCEPT !.archived = @ \cup {thread[t].call}]
    /\ UNCHANGED <<commits, focusMd, answers, calls, crashes>>

Crash ==
    /\ crashes < MaxCrashes
    /\ crashes' = crashes + 1
    /\ thread' = [t \in Threads |-> Idle]
    /\ UNCHANGED <<durable, answers, calls, failures>>

Step(t) == \/ ReadPrevious(t) \/ Insert(t) \/ Project(t) \/ ConversationAdd(t)
           \/ ForceArchive(t) \/ Answer(t) \/ Raise(t)

Next == \/ \E t \in Threads : Step(t) \/ \E sync \in BOOLEAN : Call(t, sync)
        \/ Crash

Spec == Init /\ [][Next]_vars

-----------------------------------------------------------------------------
(* Properties *)

Receipts == {commits[i].receipt : i \in DOMAIN commits}

\* Types, and the marks of a thread's progress: a call past its INSERT has a row.
TypeOK ==
    /\ \A i \in DOMAIN commits : commits[i] \in [receipt : 1..MaxCalls, previous : 0..MaxCalls]
    /\ focusMd \in 0..Len(commits)
    /\ remote \in [added : SUBSET (1..MaxCalls), archived : SUBSET (1..MaxCalls)]
    /\ \A t \in Threads : thread[t].pc \in {"project", "add", "archive", "answer"} =>
           /\ thread[t].sequence \in DOMAIN commits
           /\ commits[thread[t].sequence].receipt = thread[t].call

\* The receipts of an agent are one chain: every row names the receipt of the row
\* before it.
ReceiptChain ==
    \A i \in DOMAIN commits :
        commits[i].previous = IF i = 1 THEN ZERO_HASH ELSE commits[i - 1].receipt

\* What an answer said of its commit is what the ledger keeps, and the receipt it
\* names is an earlier row's: whatever else was committed between the INSERT and the
\* answer.
ReceiptsAnchored ==
    \A a \in answers :
        /\ a.sequence \in DOMAIN commits
        /\ commits[a.sequence] = [receipt |-> a.receipt, previous |-> a.previous]
        /\ a.previous = ZERO_HASH \/ \E i \in 1..a.sequence - 1 : commits[i].receipt = a.previous

\* The provider knows no conversation that the agent's own ledger does not have, and
\* archives none that it was not given.
LocalFirst == remote.added \subseteq Receipts /\ remote.archived \subseteq remote.added
=============================================================================
