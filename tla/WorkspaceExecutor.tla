-------------------------- MODULE WorkspaceExecutor --------------------------
(***************************************************************************)
(* The sole filesystem mutation authority of the workspace MCP server      *)
(* (mcp_servers/src/egoagentos_mcp/workspace_executor.py).  Every system   *)
(* call that changes or reads the workspace is a step of its own, so that  *)
(* calls of several server threads or processes interleave, any of them    *)
(* may fail, and a server may crash between two of them.  A file is its    *)
(* contents and its inode (the call that created it); a checkpoint is the  *)
(* contents of every path and the temporary files lying about.             *)
(***************************************************************************)
EXTENDS Naturals, Sequences, FiniteSets

CONSTANTS
    Callers,      \* threads or processes serving workspace_execute_effect
    Paths,        \* canonical paths below the project
    Contents,     \* contents of regular files
    Files,        \* the workspace when the run starts: Paths -> Contents or None
    Effects,      \* the effects a caller may present
    Admitted,     \* those the Control ledger vouches for (external verifier)
    None,
    MaxCalls,     \* bound on calls
    MaxFaults     \* bound on failing system calls

Dir == "directory"
Modes == {"REMOVE_CREATED_PATH", "RESTORE_BACKUP"}
Operations == {"WRITE_TEXT", "MAKE_DIRECTORY", "DELETE_FILE"}
Decisions == {"ALLOW", "APPROVAL_REQUIRED", "DENY"}

WorkspaceAssumption ==
    /\ None \notin Contents \cup Paths \cup Callers
    /\ Dir \notin Contents \cup {None}
    /\ Files \in [Paths -> Contents \cup {None}]
    /\ Admitted \subseteq Effects
    /\ MaxCalls \in Nat /\ MaxFaults \in Nat
    /\ \A e \in Effects :
          /\ e.operation \in Operations /\ e.mode \in Modes /\ e.decision \in Decisions
          /\ e.target \in Paths /\ e.backup \in Paths \cup {None}
          /\ e.data \in Contents /\ e.checkpoint.files \in [Paths -> Contents \cup {None, Dir}]

VARIABLES
    fs,       \* path |-> [data, inode]; data = None when nothing is there
    litter,   \* temporary files nobody will remove
    calls,    \* caller |-> the call it is executing
    spent,    \* effects whose approval receipt was consumed
    log,      \* how the calls ended, in order
    faults    \* failed system calls so far

vars == <<fs, litter, calls, spent, log, faults>>

Absent == [data |-> None, inode |-> None]
Idle == [pc |-> "idle"]
Busy == {c \in Callers : calls[c].pc # "idle"}
Effect(c) == calls[c].effect

(* Temporary files: each call between its temporary write and its replace  *)
(* has one, and an unlink that failed left one behind.                     *)
Checkpoint ==
    [files |-> [p \in Paths |-> fs[p].data],
     temporary |-> litter + Cardinality({c \in Busy : calls[c].pc = "replace"})]

--------------------------------------------------------------------------------
(* Bookkeeping of a step.                                                  *)

Goto(c, pc) == calls' = [calls EXCEPT ![c].pc = pc]
End(c, code) ==
    /\ calls' = [calls EXCEPT ![c] = Idle]
    /\ log' = Append(log, [caller |-> c, effect |-> Effect(c), code |-> code])
Quiet == UNCHANGED <<fs, litter, spent, log, faults>>
EndQuietly(c, code) == End(c, code) /\ UNCHANGED <<fs, litter, spent, faults>>

Works == UNCHANGED faults
Fails(n) == faults + n <= MaxFaults /\ faults' = faults + n

--------------------------------------------------------------------------------
(* The contract and the gates before the first mutation.                   *)

(* WorkspaceEffectCore.validate_exact_operation_binding.                   *)
ContractHolds(e) ==
    /\ e.operation = "MAKE_DIRECTORY" => e.mode = "REMOVE_CREATED_PATH"
    /\ e.operation = "DELETE_FILE" => e.mode = "RESTORE_BACKUP"
    /\ (e.mode = "RESTORE_BACKUP") <=> (e.backup # None)
    /\ e.scope = (IF e.backup = None THEN <<e.target>> ELSE <<e.target, e.backup>>)

(* _validate_authority: the backup differs from the target.                *)
ValidateAuthority(e) == ContractHolds(e) /\ e.backup # e.target

(* execute, up to the authority verifier: refused before anything is read. *)
Execute(c, e, receipt) ==
    /\ calls[c] = Idle
    /\ Len(log) + Cardinality(Busy) < MaxCalls
    /\ IF ValidateAuthority(e) /\ e \in Admitted
       THEN /\ calls' = [calls EXCEPT ![c] =
                  [pc |-> "checkpoint", effect |-> e, receipt |-> receipt,
                   old |-> None, inode |-> None, job |-> "target", removing |-> e.target]]
            /\ UNCHANGED log
       ELSE /\ log' = Append(log, [caller |-> c, effect |-> e, code |-> "effect_refused"])
            /\ UNCHANGED calls
    /\ UNCHANGED <<fs, litter, spent, faults>>

CheckpointMatches(e) == Checkpoint = e.checkpoint

VerifyCheckpoint(c, pc, next) ==
    /\ calls[c].pc = pc
    /\ \/ CheckpointMatches(Effect(c)) /\ Goto(c, next) /\ Quiet
       \/ ~CheckpointMatches(Effect(c)) /\ EndQuietly(c, "workspace_checkpoint_stale")

FirstCheckpoint(c) == VerifyCheckpoint(c, "checkpoint", "authorize")
SecondCheckpoint(c) == VerifyCheckpoint(c, "checkpoint_again", "inspect")

(* _authorize: the injected verifier consumes the receipt.                 *)
Authorize(c) ==
    LET e == Effect(c) receipt == calls[c].receipt IN
    /\ calls[c].pc = "authorize"
    /\ \/ e.decision = "DENY" /\ EndQuietly(c, "effect_denied")
       \/ e.decision = "ALLOW" /\ receipt /\ EndQuietly(c, "approval_not_expected")
       \/ e.decision = "ALLOW" /\ ~receipt /\ Goto(c, "checkpoint_again") /\ Quiet
       \/ /\ e.decision = "APPROVAL_REQUIRED"
          /\ ~receipt \/ e \in spent
          /\ EndQuietly(c, "approval_refused")
       \/ /\ e.decision = "APPROVAL_REQUIRED" /\ receipt /\ e \notin spent
          /\ spent' = spent \cup {e}
          /\ Goto(c, "checkpoint_again")
          /\ UNCHANGED <<fs, litter, log, faults>>

--------------------------------------------------------------------------------
(* Inspecting the target and the backup.                                   *)

Read(c, pc) == calls' = [calls EXCEPT ![c].pc = pc, ![c].old = fs[Effect(c).target].data]

(* mutant: an overwrite without a recovery plan is let through *)
InspectWriteUnbacked(c) ==
    /\ calls[c].pc = "inspect" /\ Effect(c).operation = "WRITE_TEXT"
    /\ IF Effect(c).mode = "RESTORE_BACKUP" THEN Read(c, "backup_free") ELSE Goto(c, "temporary")
    /\ Quiet

InspectWrite(c) ==
    LET e == Effect(c) there == fs[e.target].data IN
    /\ calls[c].pc = "inspect" /\ e.operation = "WRITE_TEXT"
    /\ \/ there = None /\ e.mode = "REMOVE_CREATED_PATH" /\ Goto(c, "temporary") /\ Quiet
       \/ there = None /\ e.mode = "RESTORE_BACKUP" /\ EndQuietly(c, "recovery_plan_mismatch")
       \/ there = Dir /\ EndQuietly(c, "not_regular_file")
       \/ /\ there \in Contents /\ e.mode = "REMOVE_CREATED_PATH"
          /\ EndQuietly(c, "recovery_plan_mismatch")
       \/ there \in Contents /\ e.mode = "RESTORE_BACKUP" /\ Read(c, "backup_free") /\ Quiet

InspectMkdir(c) ==
    LET e == Effect(c) IN
    /\ calls[c].pc = "inspect" /\ e.operation = "MAKE_DIRECTORY"
    /\ \/ fs[e.target] = Absent /\ Goto(c, "mkdir") /\ Quiet
       \/ fs[e.target] # Absent /\ EndQuietly(c, "path_already_exists")

InspectDelete(c) ==
    LET e == Effect(c) there == fs[e.target].data IN
    /\ calls[c].pc = "inspect" /\ e.operation = "DELETE_FILE"
    /\ \/ there = None /\ EndQuietly(c, "path_not_found")
       \/ there = Dir /\ EndQuietly(c, "not_regular_file")
       \/ there \in Contents /\ Read(c, "backup_free") /\ Quiet

(* Recovery backups are single-use.                                        *)
BackupFree(c) ==
    LET e == Effect(c) IN
    /\ calls[c].pc = "backup_free"
    /\ \/ fs[e.backup] # Absent /\ EndQuietly(c, "recovery_backup_exists")
       \/ /\ fs[e.backup] = Absent
          /\ calls' = [calls EXCEPT
                ![c].pc = IF e.operation = "WRITE_TEXT" THEN "temporary" ELSE "move",
                ![c].job = "backup"]
          /\ Quiet

--------------------------------------------------------------------------------
(* _atomic_write_bytes.  A call writes its backup, its target, the target   *)
(* again when it rolls back ("undo") or a backup it already removed        *)
(* ("rewrite"); the job says which, and what follows.                      *)

WritePath(k) == IF k.job \in {"backup", "rewrite"} THEN k.effect.backup ELSE k.effect.target
WriteData(k) == IF k.job = "target" THEN k.effect.data ELSE k.old
Named(k) == k.effect.backup # None

Written(c) ==
    LET k == calls[c] IN
    CASE k.job = "backup"  -> Goto(c, "stat_backup") /\ UNCHANGED log
      [] k.job = "target"  -> Goto(c, "after") /\ UNCHANGED log
      [] k.job = "undo"    -> /\ calls' = [calls EXCEPT ![c].pc = "remove",
                                                        ![c].removing = k.effect.backup]
                              /\ UNCHANGED log
      [] k.job = "rewrite" -> End(c, "partial_effect")

(* _AtomicWriteFailure before the replace: nothing was mutated, except     *)
(* that a finished backup has to go again.                                 *)
NotApplied(c) ==
    LET k == calls[c] IN
    CASE k.job = "target" /\ Named(k) -> /\ calls' = [calls EXCEPT ![c].pc = "remove",
                                                                  ![c].removing = k.effect.backup]
                                         /\ UNCHANGED log
      [] k.job = "backup" \/ (k.job = "target" /\ ~Named(k)) -> End(c, "atomic_write_failed")
      [] OTHER -> End(c, "partial_effect")

(* The replace happened and the directory could not be synchronised.       *)
Applied(c) ==
    LET k == calls[c] IN
    CASE k.job = "target" /\ Named(k) -> /\ calls' = [calls EXCEPT ![c].pc = "temporary",
                                                                  ![c].job = "undo"]
                                         /\ UNCHANGED log
      [] k.job = "backup" \/ (k.job = "target" /\ ~Named(k)) ->
            /\ calls' = [calls EXCEPT ![c].pc = "remove", ![c].removing = WritePath(k)]
            /\ UNCHANGED log
      [] OTHER -> End(c, "partial_effect")

WriteTemporary(c) ==
    /\ calls[c].pc = "temporary"
    /\ \/ Works /\ Goto(c, "replace") /\ UNCHANGED <<litter, log>>
       \/ Fails(1) /\ NotApplied(c) /\ UNCHANGED litter
       \/ Fails(2) /\ NotApplied(c) /\ litter' = litter + 1   \* nor could it be unlinked
    /\ UNCHANGED <<fs, spent>>

Replace(c) ==
    LET k == calls[c] to == WritePath(k) IN
    /\ k.pc = "replace"
    /\ \/ /\ fs[to].data # Dir /\ Works
          /\ fs' = [fs EXCEPT ![to] = [data |-> WriteData(k), inode |-> c]]
          /\ Goto(c, "synchronise")
          /\ UNCHANGED <<litter, log>>
       \/ fs[to].data = Dir /\ Works /\ NotApplied(c) /\ UNCHANGED <<fs, litter>>
       \/ Fails(1) /\ NotApplied(c) /\ UNCHANGED <<fs, litter>>
       \/ Fails(2) /\ NotApplied(c) /\ litter' = litter + 1 /\ UNCHANGED fs
    /\ UNCHANGED spent

Synchronise(c) ==
    /\ calls[c].pc = "synchronise"
    /\ \/ Works /\ Written(c)
       \/ Fails(1) /\ Applied(c)
    /\ UNCHANGED <<fs, litter, spent>>

(* The inode found after the backup's write is the one rollback may remove. *)
StatBackup(c) ==
    LET e == Effect(c) IN
    /\ calls[c].pc = "stat_backup"
    /\ \/ /\ fs[e.backup].data \in Contents
          /\ calls' = [calls EXCEPT ![c].pc = "temporary", ![c].job = "target",
                                    ![c].inode = fs[e.backup].inode]
          /\ Quiet
       \/ fs[e.backup].data \notin Contents /\ EndQuietly(c, "filesystem_race_detected")

(* A scan, stat or open that fails, or finds an entry changed under it, is *)
(* reported as it is: nothing is rolled back, a finished backup included.  *)
InspectionFails(c) ==
    /\ calls[c].pc \in {"checkpoint", "checkpoint_again", "inspect", "backup_free", "stat_backup"}
    /\ Fails(1) /\ End(c, "inspection_failed")
    /\ UNCHANGED <<fs, litter, spent>>

--------------------------------------------------------------------------------
(* The two other mutations.                                                *)

Mkdir(c) ==
    LET e == Effect(c) IN
    /\ calls[c].pc = "mkdir"
    /\ \/ /\ fs[e.target] = Absent /\ Works
          /\ fs' = [fs EXCEPT ![e.target] = [data |-> Dir, inode |-> c]]
          /\ Goto(c, "mkdir_sync") /\ UNCHANGED log
       \/ fs[e.target] # Absent /\ Works /\ End(c, "directory_create_failed") /\ UNCHANGED fs
       \/ Fails(1) /\ End(c, "directory_create_failed") /\ UNCHANGED fs
    /\ UNCHANGED <<litter, spent>>

MkdirSync(c) ==
    /\ calls[c].pc = "mkdir_sync"
    /\ \/ Works /\ Goto(c, "after")
       \/ Fails(1) /\ Goto(c, "remove")
    /\ UNCHANGED <<fs, litter, spent, log>>

(* os.replace of the target onto its backup.                               *)
Move(c) ==
    LET e == Effect(c) IN
    /\ calls[c].pc = "move"
    /\ \/ /\ fs[e.target].data \in Contents /\ fs[e.backup].data # Dir /\ Works
          /\ fs' = [fs EXCEPT ![e.backup] = fs[e.target], ![e.target] = Absent]
          /\ Goto(c, "move_sync") /\ UNCHANGED log
       \/ /\ fs[e.target].data \notin Contents \/ fs[e.backup].data = Dir
          /\ Works /\ End(c, "recoverable_delete_failed") /\ UNCHANGED fs
       \/ Fails(1) /\ End(c, "recoverable_delete_failed") /\ UNCHANGED fs
    /\ UNCHANGED <<litter, spent>>

MoveSync(c) ==
    /\ calls[c].pc = "move_sync"
    /\ \/ Works /\ Goto(c, "after")
       \/ Fails(1) /\ calls' = [calls EXCEPT ![c].pc = "temporary", ![c].job = "undo"]
    /\ UNCHANGED <<fs, litter, spent, log>>

--------------------------------------------------------------------------------
(* Rolling back.                                                           *)

(* remove_created_backup compares the inode; the other undo steps do not.  *)
GuardsInode(k) == k.effect.operation = "WRITE_TEXT" /\ k.removing = k.effect.backup
                  /\ k.job \in {"target", "undo"}

(* An undo that lost its backup writes it again and reports the failure.   *)
RollbackFails(c) ==
    IF calls[c].job = "undo" /\ fs'[Effect(c).backup] = Absent
    THEN calls' = [calls EXCEPT ![c].pc = "temporary", ![c].job = "rewrite"] /\ UNCHANGED log
    ELSE End(c, "partial_effect")

Remove(c) ==
    LET k == calls[c] changed == GuardsInode(k) /\ fs[k.removing].inode # k.inode IN
    /\ k.pc = "remove"
    /\ \/ changed /\ Works /\ End(c, "partial_effect") /\ UNCHANGED fs
       \/ /\ ~changed /\ Works
          /\ IF k.effect.operation = "MAKE_DIRECTORY"
             THEN fs[k.removing].data = Dir ELSE fs[k.removing].data \in Contents
          /\ fs' = [fs EXCEPT ![k.removing] = Absent]
          /\ Goto(c, "remove_sync") /\ UNCHANGED log
       \/ /\ ~changed /\ Works
          /\ IF k.effect.operation = "MAKE_DIRECTORY"
             THEN fs[k.removing].data # Dir ELSE fs[k.removing].data \notin Contents
          /\ UNCHANGED fs /\ RollbackFails(c)
       \/ ~changed /\ Fails(1) /\ UNCHANGED fs /\ RollbackFails(c)
    /\ UNCHANGED <<litter, spent>>

RemoveSync(c) ==
    /\ calls[c].pc = "remove_sync"
    /\ UNCHANGED <<fs, litter, spent>>
    /\ \/ Works /\ Goto(c, "compare") /\ UNCHANGED log
       \/ Fails(1) /\ RollbackFails(c)

FailureCode(k) ==
    CASE k.effect.operation = "WRITE_TEXT" -> "atomic_write_failed"
      [] k.effect.operation = "MAKE_DIRECTORY" -> "directory_create_failed"
      [] k.effect.operation = "DELETE_FILE" -> "recoverable_delete_failed"

(* _rollback_or_raise_partial compares the checkpoint after the undo steps. *)
CompareCheckpoint(c) ==
    LET e == Effect(c) IN
    /\ calls[c].pc = "compare"
    /\ \/ Works /\ Checkpoint = e.checkpoint /\ End(c, FailureCode(calls[c]))
       \/ Works /\ Checkpoint # e.checkpoint /\ End(c, "partial_effect")
       \/ Fails(1) /\ End(c, "partial_effect")
    /\ UNCHANGED <<fs, litter, spent>>

(* The checkpoint after the mutation: when it cannot be taken there is no  *)
(* receipt, and nothing is rolled back.                                    *)
AfterCheckpoint(c) ==
    /\ calls[c].pc = "after"
    /\ \/ Works /\ End(c, "APPLIED")
       \/ Fails(1) /\ End(c, "workspace_checkpoint_failed")
    /\ UNCHANGED <<fs, litter, spent>>

(* The server process dies; its temporary file, if any, stays.             *)
Crash(c) ==
    /\ calls[c] # Idle
    /\ Fails(1)
    /\ litter' = IF calls[c].pc = "replace" THEN litter + 1 ELSE litter
    /\ End(c, "crashed")
    /\ UNCHANGED <<fs, spent>>

--------------------------------------------------------------------------------
Init ==
    /\ fs = [p \in Paths |-> [data |-> Files[p], inode |-> None]]
    /\ litter = 0
    /\ calls = [c \in Callers |-> Idle]
    /\ spent = {}
    /\ log = <<>>
    /\ faults = 0

Step(c) ==
    \/ FirstCheckpoint(c) \/ Authorize(c) \/ SecondCheckpoint(c)
    \/ InspectWrite(c) \/ InspectMkdir(c) \/ InspectDelete(c) \/ BackupFree(c)
    \/ WriteTemporary(c) \/ Replace(c) \/ Synchronise(c) \/ StatBackup(c)
    \/ InspectionFails(c)
    \/ Mkdir(c) \/ MkdirSync(c) \/ Move(c) \/ MoveSync(c)
    \/ Remove(c) \/ RemoveSync(c) \/ CompareCheckpoint(c) \/ AfterCheckpoint(c)

Next ==
    \E c \in Callers :
        \/ \E e \in Effects, receipt \in BOOLEAN : Execute(c, e, receipt)
        \/ Step(c)
        \/ Crash(c)

Spec == Init /\ [][Next]_vars

--------------------------------------------------------------------------------
(* Properties.                                                             *)

Phases == {"checkpoint", "authorize", "checkpoint_again", "inspect", "backup_free",
           "temporary", "replace", "synchronise", "stat_backup", "mkdir", "mkdir_sync",
           "move", "move_sync", "remove", "remove_sync", "compare", "after"}

CallRecords ==
    [pc : Phases, effect : Effects, receipt : BOOLEAN,
     old : Contents \cup {None}, inode : Callers \cup {None},
     job : {"backup", "target", "undo", "rewrite"}, removing : Paths]

(* Type invariant of the executor's state.                                 *)
TypeOK ==
    /\ fs \in [Paths -> [data : Contents \cup {Dir, None}, inode : Callers \cup {None}]]
    /\ \A p \in Paths : fs[p].data = None => fs[p].inode = None
    /\ litter \in Nat
    /\ \A c \in Callers : calls[c] \in {Idle} \cup CallRecords
    /\ spent \subseteq Effects
    /\ Len(log) + Cardinality(Busy) <= MaxCalls
    /\ faults \in 0..MaxFaults

(* One caller alone has called so far.                                     *)
Alone == \E c \in Callers : Busy \subseteq {c} /\ \A i \in 1..Len(log) : log[i].caller = c

(* At every moment, so also when the server dies there, the contents of    *)
(* each file the workspace started with are in some file: in its place or  *)
(* in the recovery backup.                                                 *)
Recoverable ==
    \A p \in Paths : Files[p] # None => \E q \in Paths : fs[q].data = Files[p]

(* A call that reports a failed mutation (not partial_effect) has put every *)
(* path back as its checkpoint has it, whichever system calls failed.      *)
Ended(code) == Len(log') > Len(log) /\ log'[Len(log')].code \in code
FailureRestores ==
    Ended({"atomic_write_failed", "directory_create_failed", "recoverable_delete_failed"})
        => [p \in Paths |-> fs'[p].data] = log'[Len(log')].effect.checkpoint.files

(* An effect, with or without a receipt, is not applied again when it is   *)
(* presented again: its first application moved the workspace off the      *)
(* checkpoint it is bound to, and calls that report a refusal or a failed  *)
(* mutation do not bring it back there.                                    *)
Changing == {"APPLIED", "partial_effect", "inspection_failed", "workspace_checkpoint_failed",
             "crashed"}
AppliedOnce ==
    \A i, j \in 1..Len(log) :
        /\ i < j /\ log[i].code = "APPLIED" /\ log[j].code = "APPLIED"
        /\ log[i].effect = log[j].effect
        => \E k \in i+1..j-1 : log[k].code \in Changing

(* However the calls interleave and whichever system call fails, an effect *)
(* that needs approval is applied at most once: its receipt is spent       *)
(* before the mutation and no rollback gives it back.                      *)
ApprovalAppliedOnce ==
    \A i, j \in 1..Len(log) :
        /\ log[i].code = "APPLIED" /\ log[j].code = "APPLIED"
        /\ log[i].effect = log[j].effect /\ log[i].effect.decision = "APPROVAL_REQUIRED"
        => i = j
===============================================================================
