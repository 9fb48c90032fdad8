-------------------------------- MODULE MCTools --------------------------------
(* Small instances of the components that run beside the control plane and   *)
(* share no state: the receive window of the authenticated channel, the      *)
(* effect pipeline, the user's status, the workspace executor, the GPU       *)
(* server, the dataset manifests and the candidate quota.  A behaviour is    *)
(* one of the component that "part" names; the others stay as they begin.    *)
EXTENDS ReceiptChannel, Tools

CONSTANTS c1, c2

VARIABLE part

safetyVars == <<sequence, effect, decision, ledger, receipts, authorized>>
statusVars == <<events, shown>>
gpuVars == <<clock, config, tokens, consumed, jobs, epoch, processes, calls>>
quotaVars == <<reading, spent, rates, queues, completed, attempts, proposals, admitted>>
workspaceVars == <<fs, litter, log, faults, edits, used>>
datasetVars == <<data, temps, manifest, reads, begun>>

-----------------------------------------------------------------------------
(* The channel: two frames that compete for the first number, and one for  *)
(* each later number.                                                      *)
MCFrames == {[sequence |-> 1, bytes |-> "a"], [sequence |-> 1, bytes |-> "b"],
             [sequence |-> 2, bytes |-> "c"]}

-----------------------------------------------------------------------------
(* Effects: a few together; every one that differs from an ordinary one in *)
(* the facts the rules look at, also against an older rule version.        *)
Rules == INSTANCE SafetyRules WITH None <- Missing

Effect(operation, plan, target) ==
    [operation |-> operation, target |-> target, paths |-> "target", arguments |-> "exact",
     route |-> "unset", secret |-> FALSE, scope |-> "exact", reversible |-> TRUE, plan |-> plan]

PairEffects == {Effect("workspace.delete", "BACKUP:recovery", "plain"),
                Effect("workspace.delete", "CHECKPOINT", "plain"),
                Effect("workspace.write", "REMOVE_CREATED_PATH", "plain")}
WideEffects == {e \in Rules!CanonicalEffects :
                  /\ e.arguments = "exact" /\ e.route # "gateway"
                  /\ e.paths = "other" => e.scope = "exact"}

MCEffects == PairEffects \cup WideEffects
Ordinary == Effect("workspace.write", "REMOVE_CREATED_PATH", "plain")

CurrentRules == \A s \in Slots : Safety!Decided(s) =>
                    decision[s].guardian.system.reasons \cap Retired = {}
FirstAlone == /\ decision[2] = Missing /\ sequence <= 1
              /\ Safety!Decided(1) /\ decision[1].pending => decision[1].disclosure.expires <= 1

-----------------------------------------------------------------------------
(* The status of a task with one child and a node below that; two effects  *)
(* that await approval and one that was denied.                            *)
Decide(e) == Rules!DecideFrom(e, Rules!BuildGuardianDecision(e, Rules!SystemAssess(e, 0),
                                                             "ENFORCING", 1), 4)
Removal == Decide(Effect("workspace.delete", "CHECKPOINT", "plain"))
Execution == Decide(Effect("workspace.execute", "CHECKPOINT", "plain"))
Refused == Decide(Effect("workspace.delete", "CHECKPOINT", "evidence"))

MCJudgements == {Removal, Execution, Refused}

-----------------------------------------------------------------------------
(* The workspace: a file, a free path and two backups.                     *)
MCFiles == [p \in {"file", "free", "backup", "spare"} |-> IF p = "file" THEN "old" ELSE Missing]
Now(files) == [files |-> files, temporary |-> 0]

W(operation, target, mode, saved, verdict) ==
    [operation |-> operation, target |-> target, mode |-> mode, backup |-> saved,
     scope |-> IF saved = Missing THEN <<target>> ELSE <<target, saved>>,
     data |-> "new", decision |-> verdict, checkpoint |-> Now(MCFiles)]

Overwrite == W("WRITE_TEXT", "file", "RESTORE_BACKUP", "backup", "APPROVAL_REQUIRED")
Make == W("WRITE_TEXT", "free", "REMOVE_CREATED_PATH", Missing, "ALLOW")
MakeDirectory == W("MAKE_DIRECTORY", "free", "REMOVE_CREATED_PATH", Missing, "ALLOW")
Delete == W("DELETE_FILE", "file", "RESTORE_BACKUP", "backup", "ALLOW")
Absent == W("DELETE_FILE", "free", "RESTORE_BACKUP", "backup", "ALLOW")
InDirectory(e) == [e EXCEPT !.checkpoint = Now([MCFiles EXCEPT !["free"] = "directory"])]

\* Everything one caller may present: effects in order, those the executor refuses, effects
\* admitted after another one, and one that is not what the Control ledger admitted.
SoloEffects ==
    {Overwrite, Make, MakeDirectory, Delete, Absent, InDirectory(Make), InDirectory(Absent),
     W("WRITE_TEXT", "file", "REMOVE_CREATED_PATH", Missing, "ALLOW"),
     W("WRITE_TEXT", "free", "RESTORE_BACKUP", "backup", "ALLOW"),
     W("MAKE_DIRECTORY", "file", "REMOVE_CREATED_PATH", Missing, "ALLOW"),
     W("WRITE_TEXT", "free", "REMOVE_CREATED_PATH", Missing, "DENY"),
     W("DELETE_FILE", "file", "REMOVE_CREATED_PATH", Missing, "ALLOW"),
     [Delete EXCEPT !.checkpoint = Now([MCFiles EXCEPT !["file"] = "new", !["backup"] = "old"])],
     [Absent EXCEPT !.checkpoint = Now([MCFiles EXCEPT !["free"] = "new"])]}
Tampered == [Make EXCEPT !.data = "old"]

\* Concurrent calls, and retries of each: approved and allowed ones, and one that moves a
\* deleted file back to where it was.
RetryEffects == {Overwrite, Make, MakeDirectory,
                 W("DELETE_FILE", "file", "RESTORE_BACKUP", "spare", "ALLOW"),
                 [W("DELETE_FILE", "spare", "RESTORE_BACKUP", "file", "ALLOW") EXCEPT
                     !.checkpoint = Now([MCFiles EXCEPT !["file"] = Missing, !["spare"] = "old"])]}
MCEdits == SoloEffects \cup RetryEffects \cup {Tampered}
MCPermitted == SoloEffects \cup RetryEffects

SoloAlone ==
    /\ Workspace!Busy \subseteq {c1} /\ \A i \in 1..Len(log) : log[i].caller = c1
    /\ Len(log) + Cardinality(Workspace!Busy) <= 2
RetryAlone ==
    /\ faults = 0 /\ \A i \in 1..Len(log) : log[i].effect \in RetryEffects
    /\ \A c \in Workspace!Busy : edits[c].effect \in RetryEffects

-----------------------------------------------------------------------------
(* The GPU server: two servers, a request that needs approval and the same *)
(* request after its config moved; two requests that share a key.          *)
Launch(key, action, bytes, r2) == [key |-> key, action |-> action, config |-> bytes, r2 |-> r2]

MCRequests == {Launch("k2", "sweep", "v1", TRUE), Launch("k2", "sweep", "v2", TRUE),
               Launch("k1", "train", "v1", FALSE), Launch("k1", "eval", "v1", FALSE)}

Asks(key) == \A c \in Callers : Gpu!Busy(c) => calls[c].request.key = key
TokensAlone == Asks("k2") /\ Cardinality(processes) <= 2
KeysAlone == /\ Asks("k1") /\ \A c \in Callers : Gpu!Busy(c) => calls[c].server = "s1"
             /\ epoch["s2"] = 0 /\ tokens = {} /\ clock = 0

-----------------------------------------------------------------------------
(* Attempts of a turn and of later ones; documents of every form.          *)
Attempt(turn, task, attempt) ==
    [campaign |-> "k", problem |-> "p", turn |-> turn, task |-> task, attempt |-> attempt]
Document(id, task, form) == [id |-> id, task |-> task, form |-> form]

MCContexts == {Attempt(1, "a", 1), Attempt(1, "a", 2), Attempt(1, "b", 1), Attempt(2, "a", 1)}
MCDocuments == {Document("x", "a", "valid"), Document("y", "b", "valid"),
                Document("x", "a", "oversized"), Document("x", "a", "forbidden"),
                Document("z", "a", "garbage"), Document("w", "a", "valid")}

-----------------------------------------------------------------------------

Parts == {"channel", "effect pair", "effect wide", "status", "workspace", "workspace retry",
          "gpu tokens", "gpu keys", "dataset", "quota"}

MCInit ==
    /\ part \in Parts
    /\ effect \in IF part = "effect pair" THEN [Slots -> PairEffects]
                 ELSE IF part = "effect wide" THEN {<<e, Ordinary>> : e \in WideEffects}
                 ELSE {<<Ordinary, Ordinary>>}
    /\ data \in IF part = "dataset" THEN [Names -> Contents \cup {Missing}] ELSE {<<Missing, Missing>>}
    /\ config \in IF part \in {"gpu tokens", "gpu keys"} THEN Configs ELSE {"v1"}
    /\ Init /\ Safety!Init /\ Status!Init /\ Gpu!Init /\ Quota!Init
    /\ Workspace!Init
    /\ Dataset!Init

MCNext ==
    /\ UNCHANGED part
    /\ \/ /\ part = "channel" /\ Next
          /\ UNCHANGED <<safetyVars, statusVars, gpuVars, quotaVars, workspaceVars, datasetVars>>
       \/ /\ \/ part = "effect pair" /\ Safety!Next /\ CurrentRules'
             \/ part = "effect wide" /\ Safety!Next /\ FirstAlone'
          /\ UNCHANGED <<vars, statusVars, gpuVars, quotaVars, workspaceVars, datasetVars>>
       \/ /\ part = "status" /\ Status!Next
          /\ UNCHANGED <<vars, safetyVars, gpuVars, quotaVars, workspaceVars, datasetVars>>
       \/ /\ \/ part = "gpu tokens" /\ Gpu!Next /\ TokensAlone'
             \/ part = "gpu keys" /\ Gpu!Next /\ KeysAlone'
          /\ UNCHANGED <<vars, safetyVars, statusVars, quotaVars, workspaceVars, datasetVars>>
       \/ /\ part = "quota" /\ Quota!Next
          /\ UNCHANGED <<vars, safetyVars, statusVars, gpuVars, workspaceVars, datasetVars>>
       \/ /\ \/ part = "workspace" /\ Workspace!Next /\ SoloAlone'
             \/ part = "workspace retry" /\ Workspace!Next /\ RetryAlone'
          /\ UNCHANGED <<vars, safetyVars, statusVars, gpuVars, quotaVars, datasetVars>>
       \/ /\ part = "dataset" /\ Dataset!Next
          /\ UNCHANGED <<vars, safetyVars, statusVars, gpuVars, quotaVars, workspaceVars>>

allVars == <<part, vars, safetyVars, statusVars, gpuVars, quotaVars, workspaceVars, datasetVars>>
MCSpec == MCInit /\ [][MCNext]_allVars

-----------------------------------------------------------------------------
\* What the executor promises, and what the workspace held can be recovered also while
\* calls with backups of their own race: see Tools and WorkspaceExecutor.
WorkspaceKept == ExecutorKept /\ [](part = "workspace retry" => Workspace!Recoverable)

-----------------------------------------------------------------------------
(* Statements of the repository's documents and tests that these instances *)
(* refute: see the README.                                                 *)

\* Whatever happened, some projection can be made: see UserStatus.
AlwaysProjectable == Status!AlwaysProjectable

\* A retry never launches again: see GpuServer.
RetryDoesNotLaunchAgain == Gpu!RetryDoesNotLaunchAgain

\* The manifest of unchanged data can be created again: see DatasetManifest.
IdenticalBytesIdenticalManifest == part = "dataset" => Dataset!IdenticalBytesIdenticalManifest
=============================================================================
