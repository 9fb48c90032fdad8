------------------------------ MODULE ExpertRuns ------------------------------
(***************************************************************************)
(* The live expert runs of the API (apps/api/expert_runs.py): a request    *)
(* queues a run, a background thread takes it through four model roles and *)
(* a deterministic compiler, and saves the whole record to the run's file  *)
(* at every step, while operators read the record from memory or, after a  *)
(* restart, from the file.  The contents of prompts, outputs and receipts  *)
(* are left out; an output is its validity and a review its verdict.       *)
(***************************************************************************)
EXTENDS Integers, Sequences, SequencesExt

CONSTANTS
    Runs,           \* run ids
    MaxFailures,    \* bound on saves that fail
    MaxCrashes      \* bound on restarts of the process

ASSUME Bounds == MaxFailures \in Nat /\ MaxCrashes \in Nat

ROLE_ORDER == <<"research-pi", "scout", "experiment-architect", "reviewer">>
Roles == Range(ROLE_ORDER)
Verdicts == {"PASS", "WARN", "FAIL"}

VARIABLES
    memory,     \* run -> its record in the process
    disk,       \* run -> its record in run.json
    thread,     \* run -> the request and then the background thread: [pc, role, attempt]
    served,     \* run -> the record its operator was last shown
    failures,   \* saves that failed so far
    crashes     \* restarts so far

vars == <<memory, disk, thread, served, failures, crashes>>

Absent == [status |-> "absent", events |-> <<>>]
Thread(pc, role, attempt) == [pc |-> pc, role |-> role, attempt |-> attempt]

Init == /\ memory = [r \in Runs |-> Absent]
        /\ disk = [r \in Runs |-> Absent]
        /\ thread = [r \in Runs |-> Thread("none", 1, 1)]
        /\ served = [r \in Runs |-> Absent]
        /\ failures = 0
        /\ crashes = 0

At(r, pc) == thread[r].pc = pc
Role(r) == ROLE_ORDER[thread[r].role]
Goto(r, next) == thread' = [thread EXCEPT ![r] = next]

Event(type, role) == [type |-> type, role |-> role]
Appended(run, event) == [run EXCEPT !.events = Append(@, event)]
UpdateRole(run, role, status) == [run EXCEPT !.roles[role] = status]

\* The file is written before the lock is released.
Stored(r, run) == disk' = [disk EXCEPT ![r] = run]

\* The end of a block under the lock: _persist_locked writes a file of its own and
\* renames it, so it stores the whole record, or raises and leaves the old file.
Persist(r, run, next, raised) ==
    /\ memory' = [memory EXCEPT ![r] = run]
    /\ \/ /\ Stored(r, run) /\ Goto(r, next)
          /\ UNCHANGED failures
       \/ /\ failures < MaxFailures
          /\ failures' = failures + 1
          /\ Goto(r, raised)
          /\ UNCHANGED disk
    /\ UNCHANGED <<served, crashes>>

Queued == [status |-> "queued", roles |-> [x \in Roles |-> "queued"],
           compiled |-> FALSE, verdict |-> "none", decision |-> "none", events |-> <<>>]

Dead == Thread("ended", 1, 1)
Failing(r) == [thread[r] EXCEPT !.pc = "fail"]

\* create, and the answer that tells the operator the id.
Create(r) == /\ At(r, "none")
             /\ Persist(r, Appended(Queued, Event("run.queued", "none")),
                        Thread("queued", 1, 1), Thread("unknown", 1, 1))

\* execute, before its try: an exception here ends the thread.
Start(r) == /\ At(r, "queued")
            /\ Persist(r, Appended([memory[r] EXCEPT !.status = "running"],
                                   Event("run.started", "none")),
                       Thread("verify", 1, 1), Dead)

\* Any exception inside the try.
Raise(r) == Goto(r, Failing(r)) /\ UNCHANGED <<memory, disk, served, failures, crashes>>

VerifyGateway(r) ==
    /\ At(r, "verify")
    /\ \/ Raise(r)
       \/ Persist(r, Appended(memory[r], Event("gateway.verified", "none")),
                  Thread("start", 1, 1), Failing(r))

StartRole(r) ==
    /\ At(r, "start")
    /\ Persist(r, Appended(UpdateRole(memory[r], Role(r), "running"),
                           Event("role.started", Role(r))),
               Thread("call", thread[r].role, 1), Failing(r))

\* _call_role and _compact_role, outside the lock: an output that fails validation
\* is asked for once more, an error that is final is not.
CallRole(r) ==
    /\ At(r, "call")
    /\ \/ Raise(r)
       \/ /\ Goto(r, IF thread[r].attempt = 1 THEN Thread("call", thread[r].role, 2)
                     ELSE Failing(r))
          /\ UNCHANGED <<memory, disk, served, failures, crashes>>
       \/ /\ Goto(r, [thread[r] EXCEPT !.pc = "called"])
          /\ UNCHANGED <<memory, disk, served, failures, crashes>>

CompleteRole(r) ==
    /\ At(r, "called") /\ Role(r) # "reviewer"
    /\ Persist(r, Appended(UpdateRole(memory[r], Role(r), "completed"),
                           Event("role.completed", Role(r))),
               IF Role(r) = "experiment-architect" THEN Thread("compile", 4, 1)
               ELSE Thread("start", thread[r].role + 1, 1),
               Failing(r))

\* The compiler, and the start of the reviewer, in one block.
Compile(r) ==
    /\ At(r, "compile")
    /\ \/ Raise(r)
       \/ LET compiled == Appended([memory[r] EXCEPT !.compiled = TRUE],
                                   Event("plan.compiled", "experiment-architect"))
          IN  Persist(r, Appended(UpdateRole(compiled, "reviewer", "running"),
                                  Event("role.started", "reviewer")),
                      Thread("call", 4, 1), Failing(r))

Decided(run, verdict) ==
    LET status == IF verdict = "FAIL" THEN "rejected" ELSE "completed"
        reviewed == Appended(UpdateRole(run, "reviewer", "completed"),
                             Event("role.completed", "reviewer"))
    IN  Appended([reviewed EXCEPT !.status = status, !.verdict = verdict,
                     !.decision = IF verdict = "FAIL" THEN "BLOCKED_BY_REVIEWER"
                                  ELSE "PLAN_READY_FOR_HUMAN_REVIEW"],
                 Event("run.decided", "reviewer"))

Decide(r) ==
    /\ At(r, "called") /\ Role(r) = "reviewer"
    /\ \E verdict \in Verdicts : Persist(r, Decided(memory[r], verdict), Dead, Failing(r))

\* The decision of the run stays as it was when it fails.
FailedUndecided(run, role) ==
    Appended([run EXCEPT !.status = "failed",
                 !.roles = IF role = "none" THEN @ ELSE [@ EXCEPT ![role] = "failed"]],
             Event("run.failed", role))

\* except Exception: the role that was running fails, and the run with it.
Failed(run, role) ==
    Appended([run EXCEPT !.status = "failed", !.decision = "FAILED_CLOSED",
                 !.roles = IF role = "none" THEN @ ELSE [@ EXCEPT ![role] = "failed"]],
             Event("run.failed", role))

RunningRole(run) ==
    IF \E x \in Roles : run.roles[x] = "running"
    THEN CHOOSE x \in Roles : run.roles[x] = "running" ELSE "none"

Fail(r) == /\ At(r, "fail")
           /\ Persist(r, Failed(memory[r], RunningRole(memory[r])), Dead, Dead)

\* get: the record in memory, else the file, which is then kept in memory.
Get(r) ==
    LET run == IF memory[r] # Absent THEN memory[r] ELSE disk[r]
    IN  /\ thread[r].pc \notin {"none", "unknown"}
        /\ run \notin {Absent, served[r]}
        /\ memory' = [memory EXCEPT ![r] = run]
        /\ served' = [served EXCEPT ![r] = run]
        /\ UNCHANGED <<disk, thread, failures, crashes>>

\* The process restarts: nobody takes up the threads it had.
Crash ==
    /\ crashes < MaxCrashes
    /\ crashes' = crashes + 1
    /\ memory' = [r \in Runs |-> Absent]
    /\ thread' = [r \in Runs |-> IF thread[r].pc \in {"none", "unknown"} THEN thread[r] ELSE Dead]
    /\ UNCHANGED <<disk, served, failures>>

Execute(r) == \/ Start(r) \/ VerifyGateway(r) \/ StartRole(r) \/ CallRole(r)
              \/ CompleteRole(r) \/ Compile(r) \/ Decide(r) \/ Fail(r)

Next == (\E r \in Runs : Create(r) \/ Execute(r) \/ Get(r)) \/ Crash

Spec == Init /\ [][Next]_vars

\* A background thread runs, and every model call is bounded by its timeout.
FairSpec == Spec /\ \A r \in Runs : WF_vars(Execute(r))

-----------------------------------------------------------------------------
(* Properties.                                                             *)

Terminal == {"completed", "rejected", "failed"}

\* A thread between two blocks works on a running run in memory, and the role it
\* asks is the one role of that record that runs.
TypeOK ==
    \A r \in Runs :
        /\ thread[r].pc \in {"none", "unknown", "queued", "verify", "start", "call", "called",
                             "compile", "fail", "ended"}
        /\ thread[r].attempt \in 1..2
        /\ thread[r].pc \in {"verify", "start", "call", "called", "compile"} =>
             /\ memory[r].status = "running"
             /\ {x \in Roles : memory[r].roles[x] = "running"} =
                  IF thread[r].pc \in {"call", "called"} THEN {Role(r)} ELSE {}

\* Whatever record exists, in memory, in the file or in an operator's hands, its
\* decision is backed: a plan is ready only with four completed roles, a compiled
\* plan and a reviewer who did not fail it, and a failed run claims no other
\* decision ("FAILED_CLOSED" in execute).
Justified(run) ==
    /\ run.decision = "PLAN_READY_FOR_HUMAN_REVIEW" <=> run.status = "completed"
    /\ run.decision = "FAILED_CLOSED" <=> run.status = "failed"
    /\ run.decision = "BLOCKED_BY_REVIEWER" <=> run.status = "rejected"
    /\ run.status \in {"completed", "rejected"} =>
         /\ \A x \in Roles : run.roles[x] = "completed"
         /\ run.compiled
         /\ run.verdict = "FAIL" <=> run.status = "rejected"
    /\ \A i \in 2..4 : run.roles[ROLE_ORDER[i]] # "queued" =>
                         run.roles[ROLE_ORDER[i - 1]] = "completed"

DecisionJustified ==
    \A r \in Runs : \A run \in {memory[r], disk[r], served[r]} \ {Absent} : Justified(run)

\* While no save fails, what an operator has read of the event chain is never taken
\* back, also by a restart: every block saves before it lets a reader in
\* (_persist_locked).
ServedChainGrows ==
    [][failures' = 0 => \A r \in Runs : IsPrefix(served[r].events, served'[r].events)]_vars

\* A verdict that an operator has read is the run's last word.
DecisionFrozen ==
    [][\A r \in Runs : served[r].status \in {"completed", "rejected"} => served'[r] = served[r]]_vars

=============================================================================
