---------------------------------- MODULE Tools ----------------------------------
(***************************************************************************)
(* Six components that run beside the control plane and share no state:    *)
(* the effect pipeline of the bridge, the user's status, the GPU server,   *)
(* the quota of the candidates, the dataset server and the workspace       *)
(* executor, each with variables of its own, and what each promises.       *)
(***************************************************************************)
EXTENDS Integers, Sequences, FiniteSets

CONSTANTS
    Missing, Raised,                                    \* no value; an evaluation that raised
    Slots, Effects, Enforcements, Retired, MaxSequence,              \* see EffectSafety
    Nodes, Current, Children, Judgements, MaxEvents,                 \* see UserStatus
    Servers, Callers, Requests, Configs, Jtis, Ttl,                  \* see GpuServer
    MaxTime, MaxCrashes, MaxProcesses,
    Contexts, Documents, TurnCap, ProblemCap, CampaignCap,           \* see CandidateQuota
    BurstCap, BurstTime, RollingCap, RollingTime, QueueDepth, MaxReading,
    Names, Contents, Versions, MaxCalls, MaxWrites, MaxFaults,       \* see DatasetManifest
    Editors, Paths, Texts, Files, Edits, Permitted, MaxEdits, MaxFailures   \* see WorkspaceExecutor

VARIABLES
    sequence, effect, decision, ledger, receipts, authorized,
    events, shown,
    clock, config, tokens, consumed, jobs, epoch, processes, calls,
    reading, spent, rates, queues, completed, attempts, proposals, admitted,
    data, temps, manifest, reads, begun,
    fs, litter, edits, used, log, faults

Safety == INSTANCE EffectSafety WITH None <- Missing, clock <- sequence
Status == INSTANCE UserStatus WITH None <- Missing, Decisions <- Judgements
Gpu == INSTANCE GpuServer WITH None <- Missing
Quota == INSTANCE CandidateQuota WITH clock <- reading, MaxTime <- MaxReading
Dataset == INSTANCE DatasetManifest
    WITH None <- Missing, Ids <- Versions, calls <- reads, spent <- begun
Workspace == INSTANCE WorkspaceExecutor
    WITH None <- Missing, Callers <- Editors, Contents <- Texts, Effects <- Edits,
         Admitted <- Permitted, MaxCalls <- MaxEdits, MaxFaults <- MaxFailures,
         calls <- edits, spent <- used

ASSUME ToolsAssumption ==
    /\ Safety!EffectSafetyAssumption
    /\ Status!UserStatusAssumption
    /\ Gpu!GpuAssumption
    /\ Quota!CapsAndForms
    /\ Dataset!DatasetAssumption
    /\ Workspace!WorkspaceAssumption

-----------------------------------------------------------------------------
\* Decisions pass the contracts of their readers, and an effect is handed to the executor
\* only with its evidence, approved in time and with a recovery the executor can carry
\* out: see EffectSafety.
EffectsGoverned ==
    /\ Safety!TypeOK /\ Safety!AuthorizedIsEvidenced /\ Safety!ApprovedInTime
    /\ Safety!AuthorizedIsRecoverable /\ Safety!DecisionsValid

\* A projection hides nothing that needs a user and asks for approval of the exact effect
\* only: see UserStatus.
UserIsTold == Status!NothingHidden /\ Status!ApprovalIsExact /\ Status!ProjectionsValid

\* Processes rest on tokens of their own and run on approved bytes, and on one key there
\* is one: see GpuServer.
LaunchesBacked ==
    /\ Gpu!TypeOK /\ Gpu!OneProcessPerToken /\ Gpu!RunsApprovedBytes
    /\ Gpu!OneProcessPerKey /\ Gpu!JobsBacked

\* No window of time admits more than its cap, attempts are charged once, and what was
\* accepted waits or is completed: see CandidateQuota.
QuotaKept == Quota!TypeOK /\ Quota!AdmittedWithinRate /\ Quota!ChargedOnce /\ Quota!QueueBacked

\* A dataset that drifted is not called valid, a published manifest stays, and who is told
\* that a manifest is published was told of the one that is: see DatasetManifest.
DriftDetected ==
    [][/\ Dataset!VerifiedIsListed /\ Dataset!ManifestKept
       /\ Dataset!AnswerIsPublished']_<<data, temps, manifest, reads, begun>>

\* An approval is good for one application; and while one caller works alone, what the
\* workspace held can be recovered at every moment, what failed is undone and what was
\* applied is not applied again: see WorkspaceExecutor.
ExecutorKept ==
    /\ [](/\ Workspace!TypeOK /\ Workspace!ApprovalAppliedOnce
         /\ Workspace!Alone => Workspace!Recoverable /\ Workspace!AppliedOnce)
    /\ [][Workspace!Alone' => Workspace!FailureRestores]_<<fs, log>>
=================================================================================
