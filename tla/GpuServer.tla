------------------------------- MODULE GpuServer -------------------------------
(***************************************************************************)
(* The GPU launch server and its approval tokens (gpu_server.py,           *)
(* approval.py, synthetic_worker.py of the MCP servers): server processes  *)
(* that share one replay directory, callers that launch and retry, an      *)
(* operator who approves exact actions, a config file that changes under   *)
(* way, starts that fail and servers that crash and restart.               *)
(***************************************************************************)
EXTENDS Naturals, FiniteSets

CONSTANTS
    None,
    Servers, Callers,
    Requests,     \* launch requests: [key, action, config, r2]
    Configs,      \* possible bytes of the config file
    Jtis,         \* token ids the operator uses, each once
    Ttl,          \* lifetime the operator gives a token
    MaxTime, MaxCrashes, MaxProcesses   \* bounds

GpuAssumption ==
    /\ Requests \subseteq [key : {r.key : r \in Requests}, action : {r.action : r \in Requests},
                           config : Configs, r2 : BOOLEAN]
    /\ None \notin Jtis
    /\ Ttl \in Nat \ {0} /\ MaxTime \in Nat /\ MaxCrashes \in Nat /\ MaxProcesses \in Nat

VARIABLES
    clock,
    config,      \* the bytes of the config file
    tokens,      \* signed tokens the operator has issued
    consumed,    \* the replay directory: jti |-> when it was consumed
    jobs,        \* server |-> its job records, in memory only
    epoch,       \* server |-> how often it was started
    processes,   \* worker processes ever started
    calls        \* caller |-> its launch call

vars == <<clock, config, tokens, consumed, jobs, epoch, processes, calls>>

Idle == [phase |-> "idle"]
Busy(c) == calls[c].phase # "idle"
End(c) == calls' = [calls EXCEPT ![c] = Idle]
Goto(c, phase) == calls' = [calls EXCEPT ![c].phase = phase]

(* classify_gpu_action, action_digest and approval_scope: what a token is  *)
(* bound to.                                                               *)
Bound(r) == [action |-> r.action, scope |-> r.key, config |-> r.config]

Init ==
    /\ clock = 0
    /\ config \in Configs
    /\ tokens = {}
    /\ consumed = [j \in {} |-> 0]
    /\ jobs = [s \in Servers |-> {}]
    /\ epoch = [s \in Servers |-> 0]
    /\ processes = {}
    /\ calls = [c \in Callers |-> Idle]

--------------------------------------------------------------------------------
(* The surroundings.                                                       *)

Tick == /\ clock < MaxTime /\ clock' = clock + 1
        /\ UNCHANGED <<config, tokens, consumed, jobs, epoch, processes, calls>>

ChangeConfig ==
    /\ config' \in Configs \ {config}
    /\ UNCHANGED <<clock, tokens, consumed, jobs, epoch, processes, calls>>

(* HMACApprovalManager.issue for a request a human has approved.           *)
Issue(jti, r) ==
    /\ r.r2
    /\ \A t \in tokens : t.jti # jti
    /\ tokens' = tokens \cup {[jti |-> jti, bound |-> Bound(r), expires |-> clock + Ttl]}
    /\ UNCHANGED <<clock, config, consumed, jobs, epoch, processes, calls>>

Crash(s) ==
    /\ epoch[s] < MaxCrashes
    /\ epoch' = [epoch EXCEPT ![s] = @ + 1]
    /\ jobs' = [jobs EXCEPT ![s] = {}]
    /\ calls' = [c \in Callers |-> IF Busy(c) /\ calls[c].server = s THEN Idle ELSE calls[c]]
    /\ UNCHANGED <<clock, config, tokens, consumed, processes>>

--------------------------------------------------------------------------------
(* launch.                                                                 *)

(* plan: before the lock, the config file is hashed.  A call that finds    *)
(* other bytes, or is a dry run, ends here and changes nothing.            *)
Plan(c, s, r, t) ==
    /\ ~Busy(c)
    /\ config = r.config
    /\ t # None => r.r2
    /\ calls' = [calls EXCEPT ![c] = [phase |-> "waiting", server |-> s, request |-> r, token |-> t]]
    /\ UNCHANGED <<clock, config, tokens, consumed, jobs, epoch, processes>>

LockFree(s) == \A c \in Callers : Busy(c) => calls[c].server # s \/ calls[c].phase = "waiting"

Existing(s, key) == {j \in jobs[s] : j.request.key = key}

(* validate_and_consume up to the replay store: signed, unexpired, and     *)
(* bound to exactly this action, scope and config.                         *)
ValidToken(t, r) == t # None /\ clock < t.expires /\ t.bound = Bound(r)

(* mutant: the nonce file may exist *)
ConsumeAnyway(t) == consumed' = [j \in DOMAIN consumed \cup {t.jti} |-> clock]

(* FileReplayStore.consume: the exclusive creation of the nonce file.      *)
Consume(t) ==
    /\ t.jti \notin DOMAIN consumed
    /\ consumed' = [j \in DOMAIN consumed \cup {t.jti} |-> IF j = t.jti THEN clock ELSE consumed[j]]

(* Inside the lock: the existing job, the approval, then the start.        *)
Enter(c) ==
    LET call == calls[c] r == call.request s == call.server known == Existing(s, r.key) IN
    /\ call.phase = "waiting" /\ LockFree(s)
    /\ \/ /\ known # {}
          /\ End(c) /\ UNCHANGED consumed   \* the job, or idempotency_conflict
       \/ /\ known = {} /\ ~r.r2
          /\ Goto(c, "start") /\ UNCHANGED consumed
       \/ /\ known = {} /\ r.r2
          /\ \/ ValidToken(call.token, r) /\ Consume(call.token) /\ Goto(c, "start")
             \/ /\ ValidToken(call.token, r) => call.token.jti \in DOMAIN consumed
                /\ End(c) /\ UNCHANGED consumed
    /\ UNCHANGED <<clock, config, tokens, jobs, epoch, processes>>

Process(c) ==
    [id |-> Cardinality(processes), server |-> calls[c].server, epoch |-> epoch[calls[c].server],
     request |-> calls[c].request, jti |-> IF calls[c].request.r2 THEN calls[c].token.jti ELSE None,
     ran |-> None]

StartProcess(c) ==
    /\ calls[c].phase = "start" /\ Cardinality(processes) < MaxProcesses
    /\ processes' = processes \cup {Process(c)}
    /\ Goto(c, "started")
    /\ UNCHANGED <<clock, config, tokens, consumed, jobs, epoch>>

(* The start raises: no job is recorded, the token stays consumed.         *)
StartFails(c) ==
    /\ calls[c].phase = "start"
    /\ End(c)
    /\ UNCHANGED <<clock, config, tokens, consumed, jobs, epoch, processes>>

SaveJob(c) ==
    /\ calls[c].phase = "started"
    /\ jobs' = [jobs EXCEPT ![calls[c].server] = @ \cup {[request |-> calls[c].request]}]
    /\ End(c)
    /\ UNCHANGED <<clock, config, tokens, consumed, epoch, processes>>

(* synthetic_worker.main: the worker hashes the config again and refuses   *)
(* to run on other bytes.                                                  *)
Work(p) ==
    /\ p.ran = None
    /\ processes' = (processes \ {p}) \cup
           {[p EXCEPT !.ran = IF config = p.request.config THEN config ELSE "refused"]}
    /\ UNCHANGED <<clock, config, tokens, consumed, jobs, epoch, calls>>

Next ==
    \/ Tick \/ ChangeConfig
    \/ \E jti \in Jtis, r \in Requests : Issue(jti, r)
    \/ \E s \in Servers : Crash(s)
    \/ \E c \in Callers, s \in Servers, r \in Requests, t \in tokens \cup {None} :
          Plan(c, s, r, t)
    \/ \E c \in Callers : Enter(c) \/ StartProcess(c) \/ StartFails(c) \/ SaveJob(c)
    \/ \E p \in processes : Work(p)

Spec == Init /\ [][Next]_vars

--------------------------------------------------------------------------------
(* Properties.                                                             *)

(* Type invariant of the launch server.                                    *)
TypeOK ==
    /\ clock \in 0..MaxTime /\ config \in Configs
    /\ DOMAIN consumed \subseteq Jtis
    /\ \A t \in tokens : t.jti \in Jtis /\ t.expires \in 1..(MaxTime + Ttl)
    /\ \A s \in Servers : epoch[s] \in 0..MaxCrashes
    /\ \A s \in Servers : \A j \in jobs[s] : j.request \in Requests
    /\ \A c \in Callers : calls[c].phase \in {"idle", "waiting", "start", "started"}

(* Every R2 process rests on a token of its own: issued for exactly its    *)
(* action, key and config, unexpired when it was consumed, and never the   *)
(* token of another process, whatever crashes, fails or is retried on any  *)
(* of the servers.                                                         *)
OneProcessPerToken ==
    \A p \in processes : p.request.r2 =>
        /\ \E t \in tokens : /\ t.jti = p.jti /\ t.bound = Bound(p.request)
                             /\ p.jti \in DOMAIN consumed /\ consumed[p.jti] < t.expires
        /\ \A q \in processes : q.jti = p.jti => q.id = p.id

(* A worker runs on the bytes its launch was approved for or not at all,   *)
(* however the file changed between plan, approval, start and run.         *)
RunsApprovedBytes == \A p \in processes : p.ran \in {None, "refused", p.request.config}

(* A server keeps one job per key, of a process it started in this life: a *)
(* failed or crashed launch leaves no record a retry would be answered by. *)
JobsBacked ==
    \A s \in Servers : \A j \in jobs[s] :
        /\ \A k \in jobs[s] : k.request.key = j.request.key => k = j
        /\ \E p \in processes : p.server = s /\ p.epoch = epoch[s] /\ p.request = j.request

(* In one life a server starts one process per idempotency key, also when  *)
(* calls with that key overlap.                                            *)
OneProcessPerKey ==
    \A p, q \in processes :
        p.server = q.server /\ p.epoch = q.epoch /\ p.request.key = q.request.key => p.id = q.id

(* "An idempotent retry of an already launched exact request returns the   *)
(* existing job record and does not launch again" (mcp_servers/README.md). *)
RetryDoesNotLaunchAgain == \A p, q \in processes : p.request = q.request => p.id = q.id
================================================================================
