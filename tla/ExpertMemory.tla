----------------------------- MODULE ExpertMemory -----------------------------
(***************************************************************************)
(* Expert runs together with the private memory of one agent: when a role   *)
(* has answered, _compact_role (apps/api/expert_runs.py) commits its stage  *)
(* to the agent's ledger under _memory_lock, as the requests of the         *)
(* research-os routes do without that lock, and the role is complete only   *)
(* with the receipt.  The other agents' ledgers are alike; ExpertRuns       *)
(* stands for their calls.  Both parts live in one process: a restart ends  *)
(* the runs' threads and the requests together.                             *)
(***************************************************************************)
EXTENDS ExpertRuns

CONSTANTS
    Agent,      \* the role whose ledger is looked at
    Clients,    \* request threads that commit stages of the agent
    MaxCalls    \* bound on commits

VARIABLES commits, focusMd, remote, caller, answers, calls,    \* see FocusMemory
          receipt     \* run -> the sequence of the commit _compact_role returned, 0: none

Focus == INSTANCE FocusMemory WITH Threads <- Runs \cup Clients, thread <- caller

\* The threads of runs and of requests are different threads.
ASSUME AgentMemory == Focus!Inputs /\ Agent \in Roles /\ Runs \cap Clients = {}

focusVars == <<commits, focusMd, remote, caller, answers, calls>>
composed == <<vars, focusVars, receipt>>

ComposedInit == Init /\ Focus!Init /\ receipt = [r \in Runs |-> 0]

InMemory(r) == caller[r].pc # "idle"
MemoryLockFree == \A r \in Runs : ~InMemory(r)
RunsStay == UNCHANGED <<memory, disk, thread, served>>

\* A step of a run that does not touch the agent's ledger.
RunStep(r) ==
    /\ \/ Create(r) \/ Start(r) \/ VerifyGateway(r) \/ StartRole(r) \/ CompleteRole(r)
       \/ Compile(r) \/ Decide(r) \/ Fail(r) \/ Get(r)
       \/ /\ CallRole(r)
          /\ ~InMemory(r)
          /\ At(r, "call") /\ Role(r) = Agent => ~ thread'[r].pc = "called"
    /\ UNCHANGED <<focusVars, receipt>>

\* The agent's model has answered; commit_stage(..., sync_remote=False) under _memory_lock.
CompactRole(r) ==
    /\ At(r, "call") /\ Role(r) = Agent /\ MemoryLockFree
    /\ Focus!Call(r, FALSE)
    /\ RunsStay /\ UNCHANGED receipt

\* The commit goes on; its exception, if it raises, becomes the run's.
RaisedUnnoticed(r) == [thread[r] EXCEPT !.pc = "called"]
Raised(r) == Failing(r)

MemoryStep(r) ==
    /\ InMemory(r)
    /\ \/ /\ Focus!ReadPrevious(r) \/ Focus!Insert(r) \/ Focus!Project(r)
          /\ RunsStay /\ UNCHANGED receipt
       \/ /\ Focus!Raise(r)
          /\ Goto(r, Raised(r))
          /\ UNCHANGED <<memory, disk, served, receipt>>
       \/ /\ Focus!Answer(r)
          /\ receipt' = [receipt EXCEPT ![r] = caller[r].sequence]
          /\ Goto(r, [thread[r] EXCEPT !.pc = "called"])
          /\ UNCHANGED <<memory, disk, served>>

\* POST .../commit of the research-os routes.
ClientStep(t) ==
    /\ Focus!Step(t) \/ \E sync \in BOOLEAN : Focus!Call(t, sync)
    /\ RunsStay /\ UNCHANGED receipt

Restart == Crash /\ Focus!Crash /\ UNCHANGED receipt

ComposedNext ==
    \/ \E r \in Runs : RunStep(r) \/ CompactRole(r) \/ MemoryStep(r)
    \/ \E t \in Clients : ClientStep(t)
    \/ Restart

ComposedSpec == ComposedInit /\ [][ComposedNext]_composed

-----------------------------------------------------------------------------
\* A role that any record calls completed, in memory, in the file or in an operator's
\* hands, has its stage in the agent's ledger, as one row of its own: whatever failed,
\* whoever committed in between, and after a restart (_compact_role, CompleteRole).
CompletedIsCommitted ==
    \A r \in Runs : \A run \in {memory[r], disk[r], served[r]} \ {Absent} :
        run.roles[Agent] = "completed" =>
            /\ receipt[r] \in DOMAIN commits
            /\ \A q \in Runs \ {r} : receipt[q] # receipt[r]
            /\ \E a \in answers : a.sequence = receipt[r]
                                  /\ a.receipt = commits[receipt[r]].receipt

\* What an answer said of its commit is what the ledger keeps: see FocusMemory.
ReceiptsAnchored == Focus!TypeOK /\ Focus!ReceiptsAnchored /\ Focus!LocalFirst

\* Decisions are justified, and while no save fails what was read of a run is not taken
\* back: see ExpertRuns.
RunsHold == [](TypeOK /\ DecisionJustified) /\ ServedChainGrows
================================================================================
