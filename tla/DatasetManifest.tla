---------------------------- MODULE DatasetManifest ----------------------------
(***************************************************************************)
(* The dataset server (dataset_server.py of the MCP servers): callers      *)
(* create and verify the canonical manifest of one directory while its     *)
(* author still writes to it, while other callers do the same, and while   *)
(* writes fail and servers crash.  A name is a number, in the order the    *)
(* scan visits them; the temporary files sort before every data file.      *)
(***************************************************************************)
EXTENDS Integers

CONSTANTS
    None,
    Callers, Names, Contents, Ids,
    MaxCalls, MaxWrites, MaxFaults   \* bounds

(* The bytes of a manifest: its id and the files it lists.  A missing one   *)
(* is none, and no answer.                                                 *)
Manifests ==
    [id : Ids, files : SUBSET (Int \X (Contents \cup {None, "temporary"}))]

DatasetAssumption ==
    /\ None \notin Manifests \cup {"created", "unchanged", "valid"}
    /\ Names \subseteq Nat \ {0}
    /\ MaxCalls \in Nat /\ MaxWrites \in Nat /\ MaxFaults \in Nat

VARIABLES
    data,       \* name |-> bytes of the data file, None when there is none
    temps,      \* temporary files in the directory, negative names
    manifest,   \* the published manifest or None
    calls,      \* caller |-> its call
    spent       \* calls begun, author's writes, faults

vars == <<data, temps, manifest, calls, spent>>

Idle(answer, m) == [phase |-> "idle", answer |-> answer, manifest |-> m]
At(c, phase) == calls[c].phase = phase
End(c, answer) == calls' = [calls EXCEPT ![c] = Idle(answer, calls[c].manifest)]
Fault == spent.faults < MaxFaults /\ spent' = [spent EXCEPT !.faults = @ + 1]
Smallest(s) == CHOOSE n \in s : \A k \in s : n <= k

DataFiles == {<<n, data[n]>> : n \in {k \in Names : data[k] # None}}
Present == {n \in Names : data[n] # None} \cup temps
Bytes(n) == IF n \in Names THEN data[n] ELSE "temporary"
TempName(c) == -calls[c].number   \* random in the code

Init ==
    /\ data \in [Names -> Contents \cup {None}]
    /\ temps = {}
    /\ manifest = None
    /\ calls = [c \in Callers |-> Idle(None, None)]
    /\ spent = [calls |-> 0, writes |-> 0, faults |-> 0]

--------------------------------------------------------------------------------
(* The dataset's author writes, adds and removes files.                    *)
WriteData(n, bytes) ==
    /\ spent.writes < MaxWrites /\ bytes # data[n]
    /\ spent' = [spent EXCEPT !.writes = @ + 1]
    /\ data' = [data EXCEPT ![n] = bytes]
    /\ calls' = [c \in Callers |-> IF At(c, "idle") THEN calls[c] ELSE [calls[c] EXCEPT !.clean = FALSE]]
    /\ UNCHANGED <<temps, manifest>>

Begin(c, kind, m) ==
    /\ At(c, "idle") /\ spent.calls < MaxCalls
    /\ spent' = [spent EXCEPT !.calls = @ + 1]
    /\ calls' = [calls EXCEPT ![c] = [phase |-> "scandir", kind |-> kind, manifest |-> m,
                                      number |-> spent.calls + 1, rest |-> {}, seen |-> {}, clean |-> TRUE]]
    /\ UNCHANGED <<data, temps, manifest>>

Create(c, id) == Begin(c, "create", [id |-> id, files |-> {}])

(* verify reads the manifest first, then scans; without one it ends.       *)
Verify(c) == manifest # None /\ Begin(c, "verify", manifest)

--------------------------------------------------------------------------------
(* _scan: the names at once, then each entry's bytes.                      *)

(* mutant: only what the manifest lists is looked at *)
EntriesListed(c) ==
    IF calls[c].kind = "verify" THEN {f[1] : f \in calls[c].manifest.files} ELSE Present

Entries(c) == Present

Scandir(c) ==
    /\ At(c, "scandir")
    /\ calls' = [calls EXCEPT ![c].phase = "hash", ![c].rest = Entries(c)]
    /\ UNCHANGED <<data, temps, manifest, spent>>

(* An entry that is gone by now: filesystem_race_detected.                 *)
HashEntry(c) ==
    /\ At(c, "hash") /\ calls[c].rest # {}
    /\ LET n == Smallest(calls[c].rest) IN
       IF n \notin Present THEN End(c, "filesystem_race_detected")
       ELSE calls' = [calls EXCEPT ![c].rest = @ \ {n}, ![c].seen = @ \cup {<<n, Bytes(n)>>}]
    /\ UNCHANGED <<data, temps, manifest, spent>>

(* verify: every field of the manifest against one built from the scan.    *)
Compare(c) ==
    /\ At(c, "hash") /\ calls[c].rest = {} /\ calls[c].kind = "verify"
    /\ End(c, IF calls[c].seen = calls[c].manifest.files THEN "valid" ELSE "invalid")
    /\ UNCHANGED <<data, temps, manifest, spent>>

(* _atomic_write: an existing manifest is never replaced.                  *)
CheckExisting(c) ==
    LET mine == [calls[c].manifest EXCEPT !.files = calls[c].seen] IN
    /\ At(c, "hash") /\ calls[c].rest = {} /\ calls[c].kind = "create"
    /\ calls' = [calls EXCEPT ![c] =
           IF manifest = None THEN [calls[c] EXCEPT !.phase = "write", !.manifest = mine]
           ELSE Idle(IF manifest = mine THEN "unchanged" ELSE "manifest_immutable", mine)]
    /\ UNCHANGED <<data, temps, manifest, spent>>

WriteTemporary(c) ==
    /\ At(c, "write")
    /\ temps' = temps \cup {TempName(c)}
    /\ calls' = [calls EXCEPT ![c].phase = "link"]
    /\ UNCHANGED <<data, manifest, spent>>

(* Writing or synchronising it fails: the file stays, only the descriptor  *)
(* is closed.                                                              *)
WriteTemporaryFails(c) ==
    /\ At(c, "write") /\ Fault
    /\ temps' = temps \cup {TempName(c)}
    /\ End(c, "failed")
    /\ UNCHANGED <<data, manifest>>

(* os.link: atomic, and never over a manifest that won the race.           *)
Publish(m) == IF manifest = None THEN m ELSE manifest

LinkAnswer(m) ==
    IF manifest = None THEN "created"
    ELSE IF manifest = m THEN "unchanged" ELSE "manifest_immutable"

Link(c) ==
    /\ At(c, "link")
    /\ manifest' = Publish(calls[c].manifest)
    /\ calls' = [calls EXCEPT ![c].phase = "unlink", ![c].kind = LinkAnswer(calls[c].manifest)]
    /\ UNCHANGED <<data, temps, spent>>

Unlink(c) ==
    /\ At(c, "unlink")
    /\ temps' = temps \ {TempName(c)}
    /\ End(c, calls[c].kind)
    /\ UNCHANGED <<data, manifest, spent>>

(* The server process ends: its temporary file stays.                      *)
Crash(c) ==
    /\ ~At(c, "idle") /\ Fault
    /\ calls' = [calls EXCEPT ![c] = Idle(None, None)]
    /\ UNCHANGED <<data, temps, manifest>>

Next ==
    \/ \E n \in Names, bytes \in Contents \cup {None} : WriteData(n, bytes)
    \/ \E c \in Callers :
          \/ \E id \in Ids : Create(c, id)
          \/ Verify(c)
          \/ Scandir(c) \/ HashEntry(c) \/ Compare(c) \/ CheckExisting(c)
          \/ WriteTemporary(c) \/ WriteTemporaryFails(c) \/ Link(c) \/ Unlink(c)
          \/ Crash(c)

Spec == Init /\ [][Next]_vars

--------------------------------------------------------------------------------
(* Properties.                                                             *)

Answered(c, answers) == At(c, "idle") /\ calls[c].answer \in answers

(* A published manifest is immutable, whoever races to publish another one *)
(* and wherever they crash: drift cannot be hidden by publishing again.    *)
ManifestKept == manifest # None => manifest' = manifest

(* What create returns to its caller as created or unchanged is the        *)
(* manifest that is published, also for the caller who lost the race.      *)
AnswerIsPublished ==
    \A c \in Callers : Answered(c, {"created", "unchanged"}) => calls[c].manifest = manifest

(* A verification during which nobody wrote to the data says valid only    *)
(* when the manifest lists exactly the data: a file that was changed,      *)
(* added or removed since publication is noticed.                          *)
VerifiedIsListed ==
    \A c \in Callers : ~At(c, "idle") /\ calls[c].clean /\ Answered(c, {"valid"})' =>
        {f \in manifest.files : f[1] \in Names} = DataFiles
DriftDetected == [][VerifiedIsListed]_vars

(* "identical bytes produce an identical tree hash and manifest hash"      *)
(* (mcp_servers/README.md): while nobody writes to the data, creating the  *)
(* manifest again and verifying it succeed.                                *)
IdenticalBytesIdenticalManifest ==
    spent.writes = 0 => \A c \in Callers : ~Answered(c, {"manifest_immutable", "invalid"})
================================================================================
