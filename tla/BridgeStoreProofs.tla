-------------------------- MODULE BridgeStoreProofs --------------------------
(***************************************************************************)
(* The bridge's two stores.  The extension chain of a run in the atomic    *)
(* store, for any number of owners, tasks, keys, bindings and payloads and *)
(* a chain of any length.  The PostgreSQL store does for one run what the  *)
(* atomic store promises, for any number of sessions, owners, tasks, keys  *)
(* and payloads, with any connection lost at any point; its transactions   *)
(* never wait for each other in a circle, and a replay returns every       *)
(* admission with its row.                                                 *)
(***************************************************************************)
EXTENDS BridgeStores, FiniteSetTheorems, SequenceTheorems, TLAPS

-----------------------------------------------------------------------------
(* The atomic store: BridgeLedger.                                         *)

\* EvidencePrecedes needs RowsMatchChain (the checks look a lease up in the table,
\* the property in the chain); the parts keep each other.
IInv == TypeOK /\ EvidencePrecedes /\ RowsMatchChain /\ UnderBinding

\* What an appended event leaves of the chain and adds to it.
LEMMA Appended ==
    ASSUME TypeOK, NEW k \in Keys, NEW p \in Payloads, NEW mark \in Nat,
           chain' = Append(chain, [key |-> k, payload |-> p, mark |-> mark])
    PROVE  /\ chain' \in Seq(Entries)
           /\ Len(chain) \in Nat
           /\ DOMAIN chain = 1..Len(chain)
           /\ Len(chain') = Len(chain) + 1
           /\ DOMAIN chain' = 1..(Len(chain) + 1)
           /\ \A n \in DOMAIN chain : chain'[n] = chain[n]
           /\ chain'[Len(chain) + 1] = [key |-> k, payload |-> p, mark |-> mark]
<1>1. chain \in Seq(Entries)
  BY DEF TypeOK
<1>2. [key |-> k, payload |-> p, mark |-> mark] \in Entries
  BY DEF Entries
<1> QED BY <1>1, <1>2, AppendProperties

\* Rows that are leased or cited in the chain are there for the appended event.
LEMMA EvidenceKept ==
    ASSUME TypeOK, RowsMatchChain, EvidencePrecedes,
           NEW k \in Keys, NEW p \in Payloads, NEW mark \in Nat,
           AppendExtensionBytes(k, p, mark),
           p.type = EvaluatorAdmission => RequireTaskLease(leases, p.task)
    PROVE  EvidencePrecedes'
<1>1. chain' = Append(chain, [key |-> k, payload |-> p, mark |-> mark])
  BY DEF AppendExtensionBytes
<1>2. /\ Len(chain) \in Nat
      /\ DOMAIN chain = 1..Len(chain)
      /\ DOMAIN chain' = 1..(Len(chain) + 1)
      /\ \A n \in DOMAIN chain : chain'[n] = chain[n]
      /\ chain'[Len(chain) + 1].payload = p
  BY <1>1, Appended
<1>3. Admissible(run.binding, chain, leases, p, mark)
  BY DEF AppendExtensionBytes, Appendable
<1>4. p.task \in Tasks /\ {q.type : q \in p.evidence} \subseteq EmbeddedIn(p.type)
  BY PayloadAssumption
<1>5. \A n \in DOMAIN chain : EvidenceBefore(n)'
  <2> SUFFICES ASSUME NEW n \in DOMAIN chain PROVE EvidenceBefore(n)'
    OBVIOUS
  <2>1. EvidenceBefore(n)
    BY DEF EvidencePrecedes
  <2>2. \A j \in 1..n : chain'[j] = chain[j]
    BY <1>2
  <2>3. n \in Nat /\ chain'[n] = chain[n]
    BY <1>2
  <2>4. LeasedBefore(n) => LeasedBefore(n)'
    BY <2>2, <2>3 DEF LeasedBefore
  <2>5. \A q : (\E j \in 1..(n - 1) : chain[j].payload = q)
               => \E j \in 1..(n - 1) : chain'[j].payload = q
    BY <2>2, <2>3
  <2> QED BY <2>1, <2>3, <2>4, <2>5 DEF EvidenceBefore
<1>6. ASSUME NEW new, new = Len(chain) + 1 PROVE EvidenceBefore(new)'
  <2>1. \A j \in 1..(new - 1) : j \in DOMAIN chain /\ chain'[j] = chain[j]
    BY <1>2, <1>6
  <2>2. leases[p.task] # NoRow => LeasedBefore(new)'
    <3> SUFFICES ASSUME leases[p.task] # NoRow PROVE LeasedBefore(new)'
      OBVIOUS
    <3>1. /\ leases[p.task] \in DOMAIN chain
          /\ chain[leases[p.task]].payload.type = LeaseAdmission
          /\ chain[leases[p.task]].payload.task = p.task
      BY <1>4 DEF RowsMatchChain
    <3>2. leases[p.task] \in 1..(new - 1)
      BY <3>1, <1>2, <1>6
    <3> QED BY <3>1, <3>2, <2>1, <1>2, <1>6 DEF LeasedBefore
  <2>3. \A q : HasExactEvent(chain, q) => \E j \in 1..(new - 1) : chain'[j].payload = q
    BY <1>2, <1>6 DEF HasExactEvent
  <2>4. p.type \in {"CANONICAL_EFFECT", "ATTENTION_PACKET", "USER_STATUS_PROJECTION",
                    EvaluatorAdmission} => LeasedBefore(new)'
    BY <1>3, <2>2 DEF Admissible, EffectAdmissible, AttentionAdmissible,
       ProjectionAdmissible, RequireTaskLease
  <2>5. p.type \in {"GUARDIAN_DECISION", "SAFETY_DECISION", "USER_STATUS_PROJECTION"} =>
           \A q \in p.evidence : HasExactEvent(chain, q)
    <3>1. CASE p.type = "GUARDIAN_DECISION"
      BY <3>1, <1>3, <1>4 DEF Admissible, GuardianAdmissible, Embeds, EmbeddedIn
    <3>2. CASE p.type = "SAFETY_DECISION"
      BY <3>2, <1>3, <1>4 DEF Admissible, SafetyAdmissible, Embeds, EmbeddedIn
    <3>3. CASE p.type = "USER_STATUS_PROJECTION"
      BY <3>3, <1>3, <1>4 DEF Admissible, ProjectionAdmissible, Embeds, EmbeddedIn
    <3> QED BY <3>1, <3>2, <3>3
  <2>6. p.type = "USER_STATUS_PROJECTION" => p.sources \subseteq 1..(new - 1)
    BY <1>2, <1>3, <1>6 DEF Admissible, ProjectionAdmissible
  <2>7. chain'[new].payload = p
    BY <1>2, <1>6
  <2> QED BY <2>3, <2>4, <2>5, <2>6, <2>7 DEF EvidenceBefore
<1>7. \A n \in DOMAIN chain' : n \in DOMAIN chain \/ n = Len(chain) + 1
  BY <1>2
<1>8. ASSUME NEW n \in DOMAIN chain' PROVE EvidenceBefore(n)'
  BY <1>5, <1>6, <1>7
<1> QED BY <1>8 DEF EvidencePrecedes

\* The checks of _append_extension_bytes keep the chain under the run's binding.
LEMMA BindingKept ==
    ASSUME TypeOK, UnderBinding, run' = run,
           NEW k \in Keys, NEW p \in Payloads, NEW mark \in Nat,
           AppendExtensionBytes(k, p, mark),
           p.type = LeaseAdmission => AssertLeaseBinding(run.binding, p)
    PROVE  UnderBinding'
<1>1. chain' = Append(chain, [key |-> k, payload |-> p, mark |-> mark])
  BY DEF AppendExtensionBytes
<1>2. /\ DOMAIN chain = 1..Len(chain) /\ Len(chain) \in Nat
      /\ DOMAIN chain' = 1..(Len(chain) + 1)
      /\ \A n \in DOMAIN chain : chain'[n] = chain[n]
      /\ chain'[Len(chain) + 1] = [key |-> k, payload |-> p, mark |-> mark]
  BY <1>1, Appended
<1>3. /\ run.binding # NoBinding /\ mark <= run.binding.watermark
      /\ \A n \in DOMAIN chain : chain[n].key # k
      /\ Admissible(run.binding, chain, leases, p, mark)
  BY DEF AppendExtensionBytes, Appendable, KeysOf
<1>4. p.type \in {"CANONICAL_EFFECT", "ATTENTION_PACKET"} => p.policy = run.binding.policy
  BY <1>3 DEF Admissible, EffectAdmissible, AttentionAdmissible
<1>5. \A n \in DOMAIN chain' : n \in DOMAIN chain \/ n = Len(chain) + 1
  BY <1>2
<1>6. ASSUME NEW n \in DOMAIN chain'
      PROVE  LET q == chain'[n].payload IN
             /\ chain'[n].mark <= run.binding.watermark
             /\ q.type \in {"CANONICAL_EFFECT", "ATTENTION_PACKET"} => q.policy = run.binding.policy
             /\ q.type = LeaseAdmission => AssertLeaseBinding(run.binding, q)
             /\ \A j \in DOMAIN chain' : chain'[j].key = chain'[n].key => j = n
  <2>1. CASE n \in DOMAIN chain
    BY <2>1, <1>2, <1>3, <1>5 DEF UnderBinding
  <2>2. CASE n = Len(chain) + 1
    BY <2>2, <1>2, <1>3, <1>4, <1>5
  <2> QED BY <2>1, <2>2, <1>5
<1> QED BY <1>3, <1>6 DEF UnderBinding, AssertLeaseBinding

\* The tasks of a chain are tasks.
LEMMA ChainTasks ==
    ASSUME TypeOK, NEW n \in DOMAIN chain
    PROVE  chain[n].payload.task \in Tasks
<1>1. chain \in Seq(Entries) /\ n \in 1..Len(chain)
  BY DEF TypeOK
<1>2. chain[n] \in Entries
  BY <1>1, ElementOfSeq
<1>3. chain[n].payload \in Payloads
  BY <1>2 DEF Entries
<1> QED BY <1>3, PayloadAssumption

\* Events that are no admission leave the two admission tables true.
LEMMA RowsKeptByEvent ==
    ASSUME TypeOK, RowsMatchChain, UNCHANGED <<leases, evaluators>>,
           NEW k \in Keys, NEW p \in Payloads, NEW mark \in Nat,
           chain' = Append(chain, [key |-> k, payload |-> p, mark |-> mark]),
           p.type \in EventModels
    PROVE  RowsMatchChain'
<1>1. /\ DOMAIN chain = 1..Len(chain) /\ Len(chain) \in Nat
      /\ DOMAIN chain' = 1..(Len(chain) + 1)
      /\ \A n \in DOMAIN chain : chain'[n] = chain[n]
      /\ chain'[Len(chain) + 1].payload = p
  BY Appended
<1>2. \A n \in DOMAIN chain' : n \in DOMAIN chain \/ n = Len(chain) + 1
  BY <1>1
<1>3. p.type # LeaseAdmission /\ p.type # EvaluatorAdmission
  BY DEF EventModels, LeaseAdmission, EvaluatorAdmission
<1>4. \A t \in Tasks : leases'[t] # NoRow =>
        /\ leases'[t] \in DOMAIN chain'
        /\ chain'[leases'[t]].payload.type = LeaseAdmission
        /\ chain'[leases'[t]].payload.task = t
  BY <1>1 DEF RowsMatchChain
<1>5. \A i \in BindingIds : evaluators'[i] # NoEvaluation =>
        /\ evaluators'[i].sequence \in DOMAIN chain'
        /\ chain'[evaluators'[i].sequence].payload.type = EvaluatorAdmission
        /\ chain'[evaluators'[i].sequence].payload.task = evaluators'[i].task
        /\ leases'[evaluators'[i].task] # NoRow
        /\ leases'[evaluators'[i].task] < evaluators'[i].sequence
  BY <1>1 DEF RowsMatchChain
<1>6. \A n \in DOMAIN chain' :
        /\ chain'[n].payload.type = LeaseAdmission => leases'[chain'[n].payload.task] = n
        /\ chain'[n].payload.type = EvaluatorAdmission =>
            \E i \in BindingIds : /\ evaluators'[i].sequence = n
                                  /\ \A j \in BindingIds \ {i} : evaluators'[j].sequence # n
  BY <1>1, <1>2, <1>3 DEF RowsMatchChain
<1> QED BY <1>4, <1>5, <1>6 DEF RowsMatchChain

\* A lease is admitted for a task that has none, and its row names its event.
LEMMA RowsKeptByLease ==
    ASSUME TypeOK, RowsMatchChain,
           NEW k \in Keys, NEW p \in Payloads, StoreSignedTaskLease(k, p)
    PROVE  RowsMatchChain'
<1> DEFINE e == [key |-> k, payload |-> p, mark |-> p.watermark]
           new == Len(chain) + 1
<1>1. /\ p.type = LeaseAdmission /\ leases[p.task] = NoRow
      /\ chain' = Append(chain, e)
      /\ leases' = [leases EXCEPT ![p.task] = Len(chain')]
      /\ evaluators' = evaluators
  BY DEF StoreSignedTaskLease, AppendExtensionBytes
<1>2. p.task \in Tasks /\ p.watermark \in Nat
  BY PayloadAssumption
<1>3. /\ DOMAIN chain = 1..Len(chain) /\ Len(chain) \in Nat
      /\ Len(chain') = new
      /\ DOMAIN chain' = 1..new
      /\ \A n \in DOMAIN chain : chain'[n] = chain[n]
      /\ chain'[new].payload = p
  BY <1>1, <1>2, Appended
<1>4. \A n \in DOMAIN chain' : n \in DOMAIN chain \/ n = new
  BY <1>3
<1>5. /\ leases'[p.task] = new
      /\ \A t \in Tasks \ {p.task} : leases'[t] = leases[t]
  BY <1>1, <1>2, <1>3 DEF TypeOK
<1>6. \A t \in Tasks : leases'[t] # NoRow =>
        /\ leases'[t] \in DOMAIN chain'
        /\ chain'[leases'[t]].payload.type = LeaseAdmission
        /\ chain'[leases'[t]].payload.task = t
  <2> SUFFICES ASSUME NEW t \in Tasks, leases'[t] # NoRow
               PROVE  /\ leases'[t] \in DOMAIN chain'
                      /\ chain'[leases'[t]].payload.type = LeaseAdmission
                      /\ chain'[leases'[t]].payload.task = t
    OBVIOUS
  <2>1. CASE t = p.task
    BY <2>1, <1>1, <1>3, <1>5
  <2>2. CASE t # p.task
    BY <2>2, <1>3, <1>5 DEF RowsMatchChain
  <2> QED BY <2>1, <2>2
<1>7. \A i \in BindingIds : evaluators'[i] # NoEvaluation =>
        /\ evaluators'[i].sequence \in DOMAIN chain'
        /\ chain'[evaluators'[i].sequence].payload.type = EvaluatorAdmission
        /\ chain'[evaluators'[i].sequence].payload.task = evaluators'[i].task
        /\ leases'[evaluators'[i].task] # NoRow
        /\ leases'[evaluators'[i].task] < evaluators'[i].sequence
  <2> SUFFICES ASSUME NEW i \in BindingIds, evaluators[i] # NoEvaluation
               PROVE  /\ evaluators[i].sequence \in DOMAIN chain'
                      /\ chain'[evaluators[i].sequence].payload.type = EvaluatorAdmission
                      /\ chain'[evaluators[i].sequence].payload.task = evaluators[i].task
                      /\ leases'[evaluators[i].task] # NoRow
                      /\ leases'[evaluators[i].task] < evaluators[i].sequence
    BY <1>1
  <2>1. /\ evaluators[i].sequence \in DOMAIN chain
        /\ chain[evaluators[i].sequence].payload.type = EvaluatorAdmission
        /\ chain[evaluators[i].sequence].payload.task = evaluators[i].task
        /\ leases[evaluators[i].task] # NoRow
        /\ leases[evaluators[i].task] < evaluators[i].sequence
    BY DEF RowsMatchChain
  <2>2. evaluators[i].task # p.task
    BY <2>1, <1>1
  <2>3. chain[evaluators[i].sequence].payload.task \in Tasks
    BY <2>1, ChainTasks
  <2> QED BY <2>1, <2>2, <2>3, <1>3, <1>5
<1>8. \A n \in DOMAIN chain' :
        /\ chain'[n].payload.type = LeaseAdmission => leases'[chain'[n].payload.task] = n
        /\ chain'[n].payload.type = EvaluatorAdmission =>
            \E i \in BindingIds : /\ evaluators'[i].sequence = n
                                  /\ \A j \in BindingIds \ {i} : evaluators'[j].sequence # n
  <2> SUFFICES ASSUME NEW n \in DOMAIN chain'
               PROVE  /\ chain'[n].payload.type = LeaseAdmission => leases'[chain'[n].payload.task] = n
                      /\ chain'[n].payload.type = EvaluatorAdmission =>
                          \E i \in BindingIds : /\ evaluators'[i].sequence = n
                                                /\ \A j \in BindingIds \ {i} : evaluators'[j].sequence # n
    OBVIOUS
  <2>1. CASE n = new
    BY <2>1, <1>1, <1>3, <1>5 DEF LeaseAdmission, EvaluatorAdmission
  <2>2. CASE n \in DOMAIN chain
    <3>1. chain[n].payload.task \in Tasks
      BY <2>2, ChainTasks
    <3>2. n # NoRow
      BY <2>2, <1>3 DEF NoRow
    <3> QED BY <2>2, <3>1, <3>2, <1>1, <1>3, <1>5 DEF RowsMatchChain
  <2> QED BY <2>1, <2>2, <1>4
<1> QED BY <1>6, <1>7, <1>8 DEF RowsMatchChain

\* An evaluator binding is admitted for a leased task under an id that has none.
LEMMA RowsKeptByEvaluation ==
    ASSUME TypeOK, RowsMatchChain,
           NEW k \in Keys, NEW i \in BindingIds, NEW p \in Payloads,
           BindSealedEvaluation(k, i, p)
    PROVE  RowsMatchChain'
<1> DEFINE mark == run.binding.watermark
           new == Len(chain) + 1
<1>1. /\ p.type = EvaluatorAdmission /\ leases[p.task] # NoRow
      /\ run.binding # NoBinding
      /\ chain' = Append(chain, [key |-> k, payload |-> p, mark |-> mark])
      /\ evaluators[i] = NoEvaluation
      /\ evaluators' = [evaluators EXCEPT ![i] = [task |-> p.task, sequence |-> Len(chain')]]
      /\ leases' = leases
  BY DEF BindSealedEvaluation, AppendExtensionBytes, Appendable, RequireTaskLease
<1>2. p.task \in Tasks /\ mark \in Nat
  BY <1>1, PayloadAssumption DEF TypeOK, RunRows
<1>3. /\ DOMAIN chain = 1..Len(chain) /\ Len(chain) \in Nat
      /\ Len(chain') = new
      /\ DOMAIN chain' = 1..new
      /\ \A n \in DOMAIN chain : chain'[n] = chain[n]
      /\ chain'[new].payload = p
  BY <1>1, <1>2, Appended
<1>4. \A n \in DOMAIN chain' : n \in DOMAIN chain \/ n = new
  BY <1>3
<1>5. /\ evaluators'[i] = [task |-> p.task, sequence |-> new]
      /\ \A j \in BindingIds \ {i} : evaluators'[j] = evaluators[j]
  BY <1>1, <1>3 DEF TypeOK
<1>6. \A j \in BindingIds : evaluators[j].sequence # new
  BY <1>3 DEF RowsMatchChain, NoEvaluation
<1>7. \A t \in Tasks : leases'[t] # NoRow =>
        /\ leases'[t] \in DOMAIN chain'
        /\ chain'[leases'[t]].payload.type = LeaseAdmission
        /\ chain'[leases'[t]].payload.task = t
  BY <1>1, <1>3 DEF RowsMatchChain
<1>8. \A j \in BindingIds : evaluators'[j] # NoEvaluation =>
        /\ evaluators'[j].sequence \in DOMAIN chain'
        /\ chain'[evaluators'[j].sequence].payload.type = EvaluatorAdmission
        /\ chain'[evaluators'[j].sequence].payload.task = evaluators'[j].task
        /\ leases'[evaluators'[j].task] # NoRow
        /\ leases'[evaluators'[j].task] < evaluators'[j].sequence
  <2> SUFFICES ASSUME NEW j \in BindingIds, evaluators'[j] # NoEvaluation
               PROVE  /\ evaluators'[j].sequence \in DOMAIN chain'
                      /\ chain'[evaluators'[j].sequence].payload.type = EvaluatorAdmission
                      /\ chain'[evaluators'[j].sequence].payload.task = evaluators'[j].task
                      /\ leases'[evaluators'[j].task] # NoRow
                      /\ leases'[evaluators'[j].task] < evaluators'[j].sequence
    OBVIOUS
  <2>1. CASE j = i
    <3>1. leases[p.task] \in DOMAIN chain
      BY <1>1, <1>2 DEF RowsMatchChain
    <3> QED BY <2>1, <3>1, <1>1, <1>3, <1>5
  <2>2. CASE j # i
    BY <2>2, <1>1, <1>3, <1>5 DEF RowsMatchChain
  <2> QED BY <2>1, <2>2
<1>9. \A n \in DOMAIN chain' :
        /\ chain'[n].payload.type = LeaseAdmission => leases'[chain'[n].payload.task] = n
        /\ chain'[n].payload.type = EvaluatorAdmission =>
            \E j \in BindingIds : /\ evaluators'[j].sequence = n
                                  /\ \A h \in BindingIds \ {j} : evaluators'[h].sequence # n
  <2> SUFFICES ASSUME NEW n \in DOMAIN chain'
               PROVE  /\ chain'[n].payload.type = LeaseAdmission => leases'[chain'[n].payload.task] = n
                      /\ chain'[n].payload.type = EvaluatorAdmission =>
                          \E j \in BindingIds : /\ evaluators'[j].sequence = n
                                                /\ \A h \in BindingIds \ {j} : evaluators'[h].sequence # n
    OBVIOUS
  <2>1. CASE n = new
    BY <2>1, <1>1, <1>3, <1>5, <1>6 DEF LeaseAdmission, EvaluatorAdmission
  <2>2. CASE n \in DOMAIN chain
    <3>1. n # 0 /\ n # new
      BY <2>2, <1>3
    <3>2. chain'[n].payload.type = LeaseAdmission => leases'[chain'[n].payload.task] = n
      BY <2>2, <1>1, <1>3 DEF RowsMatchChain
    <3>3. ASSUME chain[n].payload.type = EvaluatorAdmission
          PROVE  \E j \in BindingIds : /\ evaluators'[j].sequence = n
                                       /\ \A h \in BindingIds \ {j} : evaluators'[h].sequence # n
      <4>1. PICK j \in BindingIds : /\ evaluators[j].sequence = n
                                    /\ \A h \in BindingIds \ {j} : evaluators[h].sequence # n
        BY <2>2, <3>3 DEF RowsMatchChain
      <4>2. j # i
        BY <4>1, <3>1, <1>1 DEF NoEvaluation
      <4> QED BY <4>1, <4>2, <3>1, <1>5
    <3> QED BY <2>2, <3>2, <3>3, <1>3
  <2> QED BY <2>1, <2>2, <1>4
<1> QED BY <1>7, <1>8, <1>9 DEF RowsMatchChain

-----------------------------------------------------------------------------
(* The steps.                                                              *)

\* The empty store.
LEMMA InitInv == Init => IInv
<1> SUFFICES ASSUME Init PROVE IInv
  OBVIOUS
<1>1. DOMAIN chain = {}
  BY DEF Init
<1>2. TypeOK
  BY DEF Init, TypeOK, AbsentRun, RunRows, NoRow, NoEvaluation
<1>3. EvidencePrecedes
  BY <1>1 DEF EvidencePrecedes
<1>4. RowsMatchChain
  BY <1>1 DEF Init, RowsMatchChain
<1>5. UnderBinding
  BY <1>1 DEF Init, UnderBinding
<1> QED BY <1>2, <1>3, <1>4, <1>5 DEF IInv

\* The operations that leave the chain, the leases and the evaluators alone, and do
\* not rebind the run, keep what is said of them.
LEMMA ChainUntouched ==
    ASSUME IInv, UNCHANGED <<chain, leases, evaluators>>,
           run'.binding = run.binding \/ run.binding = NoBinding
    PROVE  EvidencePrecedes' /\ RowsMatchChain' /\ UnderBinding'
<1>1. EvidencePrecedes'
  BY DEF IInv, EvidencePrecedes, EvidenceBefore, LeasedBefore
<1>2. RowsMatchChain'
  BY DEF IInv, RowsMatchChain
<1>3. ASSUME run'.binding = run.binding PROVE UnderBinding'
  BY <1>3 DEF IInv, UnderBinding, AssertLeaseBinding
<1>4. ASSUME run.binding = NoBinding PROVE UnderBinding'
  <2>1. chain = <<>> /\ chain' = chain
    BY <1>4 DEF IInv, UnderBinding
  <2>2. DOMAIN chain' = {}
    BY <2>1
  <2> QED BY <2>1, <2>2 DEF UnderBinding
<1> QED BY <1>1, <1>2, <1>3, <1>4

\* The operations on the row, the events and the receipts.
LEMMA RowStep ==
    ASSUME IInv, NEW o \in Owners \cup {NoOwner},
           \/ CreateRun
           \/ o \in Owners /\ (ClaimOperation(o) \/ ReleaseOperation(o))
           \/ \E v \in 1..(MaxVersion - 1) : UpdateRun(o, v)
           \/ AppendEvent(o)
           \/ \E k \in ReceiptKeys, c \in Contents : ArchiveReceipt(o, k, c)
           \/ \E b \in Bindings : BindCampaign(b)
    PROVE  IInv'
<1>1. UNCHANGED <<chain, leases, evaluators>>
  BY DEF CreateRun, ClaimOperation, ReleaseOperation, UpdateRun, AppendEvent, ArchiveReceipt,
         BindCampaign
<1>2. TypeOK
  BY DEF IInv
<1>3. run \in RunRows
  BY <1>2 DEF TypeOK
<1>4. \/ run' = run
      \/ \E v \in Nat : run' = [run EXCEPT !.version = v]
      \/ \E w \in Owners \cup {NoOwner} : run' = [run EXCEPT !.owner = w]
      \/ run.binding = NoBinding /\ \E b \in Bindings : run' = [run EXCEPT !.binding = b]
  <2>1. CASE CreateRun
    BY <2>1 DEF CreateRun
  <2>2. CASE o \in Owners /\ (ClaimOperation(o) \/ ReleaseOperation(o))
    BY <2>2 DEF ClaimOperation, ReleaseOperation
  <2>3. ASSUME NEW v \in 1..(MaxVersion - 1), UpdateRun(o, v)
        PROVE  \E w \in Nat : run' = [run EXCEPT !.version = w]
    <3>1. v + 1 \in Nat /\ run' = [run EXCEPT !.version = v + 1]
      BY <2>3, <1>3 DEF UpdateRun, RunRows
    <3> QED BY <3>1
  <2>4. CASE AppendEvent(o)
    BY <2>4 DEF AppendEvent
  <2>5. CASE \E k \in ReceiptKeys, c \in Contents : ArchiveReceipt(o, k, c)
    BY <2>5 DEF ArchiveReceipt
  <2>6. CASE \E b \in Bindings : BindCampaign(b)
    BY <2>6 DEF BindCampaign
  <2> QED BY <2>1, <2>2, <2>3, <2>4, <2>5, <2>6
<1>5. run' \in RunRows /\ (run'.binding = run.binding \/ run.binding = NoBinding)
  BY <1>3, <1>4 DEF RunRows
<1>6. events' \in Seq(Owners \cup {NoOwner})
  <2>1. UNCHANGED events \/ events' = Append(events, o)
    BY DEF CreateRun, ClaimOperation, ReleaseOperation, UpdateRun, AppendEvent, ArchiveReceipt,
           BindCampaign
  <2>2. events \in Seq(Owners \cup {NoOwner})
    BY <1>2 DEF TypeOK
  <2>3. Append(events, o) \in Seq(Owners \cup {NoOwner})
    BY <2>2, AppendProperties
  <2> QED BY <2>1, <2>2, <2>3
<1>7. receipts' \in [ReceiptKeys -> Contents \cup {NoReceipt}]
  BY <1>2 DEF TypeOK, CreateRun, ClaimOperation, ReleaseOperation, UpdateRun, AppendEvent,
         ArchiveReceipt, BindCampaign
<1>8. TypeOK'
  BY <1>1, <1>2, <1>5, <1>6, <1>7 DEF TypeOK
<1> QED BY <1>1, <1>5, <1>8, ChainUntouched DEF IInv

\* An event of one of the open contracts.
LEMMA EventStep ==
    ASSUME IInv, NEW k \in Keys, NEW p \in Payloads, NEW mark \in Marks,
           AppendExtensionEvent(k, p, mark)
    PROVE  IInv'
<1>1. /\ AppendExtensionBytes(k, p, mark)
      /\ chain' = Append(chain, [key |-> k, payload |-> p, mark |-> mark])
      /\ p.type \in EventModels
      /\ UNCHANGED <<run, leases, evaluators, events, receipts>>
  BY DEF AppendExtensionEvent, AppendExtensionBytes
<1>2. mark \in Nat /\ p.type # LeaseAdmission /\ p.type # EvaluatorAdmission
  BY <1>1, PayloadAssumption DEF EventModels, LeaseAdmission, EvaluatorAdmission
<1>3. TypeOK'
  BY <1>1, <1>2, Appended DEF IInv, TypeOK
<1>4. EvidencePrecedes'
  BY <1>1, <1>2, EvidenceKept DEF IInv
<1>5. RowsMatchChain'
  BY <1>1, <1>2, RowsKeptByEvent DEF IInv
<1>6. UnderBinding'
  BY <1>1, <1>2, BindingKept DEF IInv
<1> QED BY <1>3, <1>4, <1>5, <1>6 DEF IInv

\* A task lease.
LEMMA LeaseStep ==
    ASSUME IInv, NEW k \in Keys, NEW p \in Payloads, StoreSignedTaskLease(k, p)
    PROVE  IInv'
<1> DEFINE mark == p.watermark
<1>1. /\ AppendExtensionBytes(k, p, mark)
      /\ chain' = Append(chain, [key |-> k, payload |-> p, mark |-> mark])
      /\ leases' = [leases EXCEPT ![p.task] = Len(chain')]
      /\ p.type = LeaseAdmission
      /\ AssertLeaseBinding(run.binding, p)
      /\ UNCHANGED <<run, evaluators, events, receipts>>
  BY DEF StoreSignedTaskLease, AppendExtensionBytes
<1>2. mark \in Nat /\ p.type # EvaluatorAdmission
  BY <1>1, PayloadAssumption DEF LeaseAdmission, EvaluatorAdmission
<1> HIDE DEF mark
<1>3. chain' \in Seq(Entries) /\ Len(chain') \in Nat
  BY <1>1, <1>2, Appended DEF IInv
<1>4. TypeOK'
  BY <1>1, <1>3 DEF IInv, TypeOK
<1>5. EvidencePrecedes'
  BY <1>1, <1>2, EvidenceKept DEF IInv
<1>6. RowsMatchChain'
  BY RowsKeptByLease DEF IInv
<1>7. UnderBinding'
  BY <1>1, <1>2, BindingKept DEF IInv
<1> QED BY <1>4, <1>5, <1>6, <1>7 DEF IInv

\* An evaluator binding.
LEMMA EvaluationStep ==
    ASSUME IInv, NEW k \in Keys, NEW i \in BindingIds, NEW p \in Payloads,
           BindSealedEvaluation(k, i, p)
    PROVE  IInv'
<1> DEFINE mark == run.binding.watermark
<1>1. /\ AppendExtensionBytes(k, p, mark)
      /\ chain' = Append(chain, [key |-> k, payload |-> p, mark |-> mark])
      /\ evaluators' = [evaluators EXCEPT ![i] = [task |-> p.task, sequence |-> Len(chain')]]
      /\ p.type = EvaluatorAdmission
      /\ RequireTaskLease(leases, p.task)
      /\ UNCHANGED <<run, leases, events, receipts>>
  BY DEF BindSealedEvaluation, AppendExtensionBytes
<1>2. run.binding \in Bindings
  BY <1>1 DEF IInv, TypeOK, RunRows, AppendExtensionBytes, Appendable
<1>3. mark \in Nat /\ p.type # LeaseAdmission /\ p.task \in Tasks
  BY <1>1, <1>2, PayloadAssumption DEF LeaseAdmission, EvaluatorAdmission
<1> HIDE DEF mark
<1>4. chain' \in Seq(Entries) /\ Len(chain') \in Nat
  BY <1>1, <1>3, Appended DEF IInv
<1>5. TypeOK'
  BY <1>1, <1>3, <1>4 DEF IInv, TypeOK
<1>6. EvidencePrecedes'
  BY <1>1, <1>3, EvidenceKept DEF IInv
<1>7. RowsMatchChain'
  BY RowsKeptByEvaluation DEF IInv
<1>8. UnderBinding'
  BY <1>1, <1>3, BindingKept DEF IInv
<1> QED BY <1>5, <1>6, <1>7, <1>8 DEF IInv

\* IInv is inductive.
LEMMA NextInv == IInv /\ [Next]_vars => IInv'
<1> SUFFICES ASSUME IInv, [Next]_vars PROVE IInv'
  OBVIOUS
<1>1. CASE UNCHANGED vars
  <2>1. TypeOK'
    BY <1>1 DEF IInv, TypeOK, vars
  <2>2. UNCHANGED <<chain, leases, evaluators>> /\ run'.binding = run.binding
    BY <1>1 DEF vars
  <2> QED BY <2>1, <2>2, ChainUntouched DEF IInv
<1>2. CASE CreateRun \/ \E b \in Bindings : BindCampaign(b)
  BY <1>2, RowStep
<1>3. CASE \E o \in Owners : ClaimOperation(o) \/ ReleaseOperation(o)
  BY <1>3, RowStep
<1>4. CASE \E o \in Owners \cup {NoOwner} :
             \/ \E v \in 1..(MaxVersion - 1) : UpdateRun(o, v)
             \/ AppendEvent(o)
             \/ \E k \in ReceiptKeys, c \in Contents : ArchiveReceipt(o, k, c)
  BY <1>4, RowStep
<1>5. CASE \E k \in Keys, p \in Payloads, mark \in Marks : AppendExtensionEvent(k, p, mark)
  BY <1>5, EventStep
<1>6. CASE \E k \in Keys, p \in Payloads : StoreSignedTaskLease(k, p)
  BY <1>6, LeaseStep
<1>7. CASE \E k \in Keys, i \in BindingIds, p \in Payloads : BindSealedEvaluation(k, i, p)
  BY <1>7, EvaluationStep
<1> QED BY <1>1, <1>2, <1>3, <1>4, <1>5, <1>6, <1>7 DEF Next

\* The invariant holds of every run of the store.
LEMMA Invariance == Spec => []IInv
BY InitInv, NextInv, PTL DEF Spec

\* The run row, the extension chain and its two admission tables, the collaboration
\* events and the receipts keep their types (the tables of store.py).
THEOREM BridgeLedgerTypeCorrect == Spec => []TypeOK
<1>1. IInv => TypeOK
  BY DEF IInv
<1> QED BY <1>1, Invariance, PTL

\* No event of the extension chain rests on evidence, a source or a lease that was
\* not admitted before it (_validate_extension_admission), for chains of any length.
THEOREM EvidenceIsAdmittedFirst == Spec => []EvidencePrecedes
<1>1. IInv => EvidencePrecedes
  BY DEF IInv
<1> QED BY <1>1, Invariance, PTL

\* The lease and evaluator tables and the chain name each other's rows, one to one
\* (store_signed_task_lease, bind_sealed_evaluation).
THEOREM AdmissionRowsMatchChain == Spec => []RowsMatchChain
<1>1. IInv => RowsMatchChain
  BY DEF IInv
<1> QED BY <1>1, Invariance, PTL

\* Everything in the chain was made under the campaign the run is bound to
\* (bind_campaign is immutable, _append_extension_bytes checks against it).
THEOREM ChainStaysUnderBinding == Spec => []UnderBinding
<1>1. IInv => UnderBinding
  BY DEF IInv
<1> QED BY <1>1, Invariance, PTL

-----------------------------------------------------------------------------
(* The PostgreSQL store.                                                   *)

Calls == RowCalls \cup ExtensionCalls
StreamOps == {"event", "receipt"}
RowOps == {"create", "claim", "release", "renew", "update"} \cup StreamOps
AppendOps == {"append", "lease", "evaluate"}
ExtensionOps == {"bind"} \cup AppendOps
Op(s) == Call(s).op

\* The rows of a chain are numbered from one on without gaps.
Numbered(rows) ==
    /\ IsFiniteSet(rows)
    /\ \A r \in rows : r.sequence \in Numbers(rows)
    /\ \A n \in Numbers(rows) : \E r \in rows : r.sequence = n
    /\ \A r, q \in rows : r.sequence = q.sequence => r = q

Shapes ==
    /\ runRow \in Ledger!RunRows
    /\ Numbered(extension) /\ Numbered(collaboration) /\ Numbered(archive)
    /\ \A rows \in {extension, collaboration, archive} : \A r \in rows : r.previous \in Nat
    /\ \A r \in extension : r.payload \in StorePayloads
    /\ taskLeases \in [StoreTasks -> Nat]
    /\ bindings \in [StoreBindingIds -> [task : StoreTasks \cup {"none"}, sequence : Nat]]
    /\ lock \in [Resources -> Sessions \cup {Free}]
    /\ session \in [Sessions -> [pc : Phases, call : Calls \cup {NoCall}, previous : Nat]]

\* Which calls come to which statement.
InPhase(s) ==
    /\ At(s, "idle") => Call(s) = NoCall
    /\ session[s].pc \in {"row", "stream", "previous"} => Call(s) \in RowCalls
    /\ session[s].pc \in {"stream", "previous"} => Op(s) \in StreamOps
    /\ session[s].pc \in {"extension", "admit", "write"} => Call(s) \in ExtensionCalls
    /\ At(s, "commit") => Call(s) \in Calls

\* The locks a session has taken on its way, in this order.
Held(s) ==
    CASE At(s, "stream") -> {"row"}
      [] At(s, "previous") -> {"row", Op(s)}
      [] session[s].pc \in {"admit", "write"} -> {"extension"}
      [] At(s, "commit") -> (IF Op(s) \in StreamOps THEN {Op(s)} ELSE {})
                            \cup (IF Op(s) \in ExtensionOps THEN {"extension"} ELSE {})
                            \cup {"row"}
      [] OTHER -> {}

LocksHeld == \A s \in Sessions, r \in Resources : lock[r] = s <=> r \in Held(s)

\* What a call has checked stays true until it commits: others need its lock to undo it.
Checked(s) ==
    /\ session[s].pc \in {"stream", "previous", "commit"} /\ Call(s) \in RowCalls
          => RowAllows(Call(s))
    /\ At(s, "commit") /\ Op(s) = "receipt" => ReceiptOf(Call(s).key) = {}
    /\ session[s].pc \in {"write", "commit"} /\ Call(s) \in ExtensionCalls => Admits(Call(s))

\* The calls under way count among the events.
Appending == {s \in Sessions : Op(s) = "event"}
EventsBounded == Cardinality(collaboration) + Cardinality(Appending) <= MaxEvents

\* Every admission event has its row.
Admitted(r) ==
    /\ r.payload.type = Ledger!LeaseAdmission => taskLeases[r.payload.task] = r.sequence
    /\ r.payload.type = Ledger!EvaluatorAdmission =>
          \E i \in StoreBindingIds : bindings[i].sequence = r.sequence

\* A replay in progress has the rows of the admission events it has read.
ReplayShape ==
    /\ replay.pc \in {"idle", "leases", "evaluators", "done"}
    /\ replay.events \subseteq extension
    /\ \A r \in replay.events :
          /\ replay.pc \in {"evaluators", "done"} /\ r.payload.type = Ledger!LeaseAdmission
                => r.sequence \in replay.leases
          /\ replay.pc = "done" /\ r.payload.type = Ledger!EvaluatorAdmission
                => r.sequence \in replay.leases

\* The committed tables move only under locks whose holders have checked what they do.
StoreInv ==
    /\ StoreAssumption
    /\ Shapes
    /\ \A s \in Sessions : InPhase(s) /\ Checked(s)
    /\ LocksHeld
    /\ EventsBounded
    /\ \A r \in extension : Admitted(r)
    /\ ReplayShape

-----------------------------------------------------------------------------
(* Facts about calls, chains and locks.                                    *)

\* What the calls of each kind carry.
LEMMA RowCallShape ==
    ASSUME NEW c \in RowCalls
    PROVE  /\ c.op \in RowOps
           /\ c.op \in {"claim", "release", "renew"} => c.owner \in Owners
           /\ c.op = "update" => c.owner \in LeaseOwners /\ c.version \in 1..(MaxVersion - 1)
           /\ c.op = "event" => c.owner \in LeaseOwners
           /\ c.op = "receipt" => /\ c.owner \in LeaseOwners /\ c.key \in ReceiptKeys
                                  /\ c.content \in Contents
BY DEF RowCalls, RowOps, StreamOps

LEMMA ExtensionCallShape ==
    ASSUME NEW c \in ExtensionCalls
    PROVE  /\ c.op \in ExtensionOps
           /\ c.op = "bind" => c.binding \in StoreBindings
           /\ c.op \in AppendOps => c.key \in StoreKeys /\ c.payload \in StorePayloads
           /\ c.op = "append" => c.payload.type \in Ledger!EventModels /\ c.mark \in StoreMarks
           /\ c.op = "lease" => c.payload.type = Ledger!LeaseAdmission
           /\ c.op = "evaluate" => /\ c.payload.type = Ledger!EvaluatorAdmission
                                   /\ c.id \in StoreBindingIds
BY DEF ExtensionCalls, ExtensionOps, AppendOps, PayloadsOf

LEMMA OpsApart ==
    /\ RowOps \cap ExtensionOps = {}
    /\ "none" \notin RowOps \cup ExtensionOps
    /\ StreamOps \subseteq RowOps /\ StreamOps \subseteq Resources
    /\ AppendOps \subseteq ExtensionOps
    /\ \A c \in Calls : /\ c.op \in RowOps <=> c \in RowCalls
                        /\ c.op \in ExtensionOps <=> c \in ExtensionCalls
<1>1. RowOps \cap ExtensionOps = {}
  BY DEF RowOps, StreamOps, ExtensionOps, AppendOps
<1> QED BY <1>1, RowCallShape, ExtensionCallShape
           DEF Calls, RowOps, StreamOps, ExtensionOps, AppendOps, Resources

\* A chain with a row more.
LEMMA RowAppended ==
    ASSUME NEW rows, Numbered(rows), NEW r, r.sequence = Cardinality(rows) + 1
    PROVE  /\ Numbered(rows \cup {r})
           /\ Cardinality(rows) \in Nat
           /\ Cardinality(rows \cup {r}) = Cardinality(rows) + 1
           /\ \A n \in Numbers(rows) : RowAt(rows \cup {r}, n) = RowAt(rows, n)
           /\ RowAt(rows \cup {r}, Cardinality(rows) + 1) = r
<1>1. Cardinality(rows) \in Nat
  BY FS_CardinalityType DEF Numbered
<1>2. \A q \in rows : q.sequence \in 1..Cardinality(rows)
  BY DEF Numbered, Numbers
<1>3. r \notin rows
  BY <1>1, <1>2
<1>4. IsFiniteSet(rows \cup {r}) /\ Cardinality(rows \cup {r}) = Cardinality(rows) + 1
  BY <1>3, FS_AddElement DEF Numbered
<1>5. Numbers(rows \cup {r}) = 1..(Cardinality(rows) + 1)
  BY <1>4 DEF Numbers
<1>6. Numbered(rows \cup {r})
  <2>1. \A q \in rows \cup {r} : q.sequence \in 1..(Cardinality(rows) + 1)
    BY <1>1, <1>2
  <2>2. ASSUME NEW n \in 1..(Cardinality(rows) + 1)
        PROVE  \E q \in rows \cup {r} : q.sequence = n
    <3>1. CASE n \in 1..Cardinality(rows)
      BY <3>1 DEF Numbered, Numbers
    <3>2. CASE n = Cardinality(rows) + 1
      BY <3>2
    <3> QED BY <1>1, <3>1, <3>2
  <2>3. \A q \in rows : q.sequence # r.sequence
    BY <1>1, <1>2
  <2>4. \A p, q \in rows \cup {r} : p.sequence = q.sequence => p = q
    BY <2>3 DEF Numbered
  <2> QED BY <1>4, <1>5, <2>1, <2>2, <2>4 DEF Numbered
<1>7. \A n \in Numbers(rows) : RowAt(rows, n) \in rows /\ RowAt(rows, n).sequence = n
  BY DEF Numbered, RowAt
<1>8. \A n \in Numbers(rows \cup {r}) :
         RowAt(rows \cup {r}, n) \in rows \cup {r} /\ RowAt(rows \cup {r}, n).sequence = n
  BY <1>6 DEF Numbered, RowAt
<1>9. \A p, q \in rows \cup {r} : p.sequence = q.sequence => p = q
  BY <1>6 DEF Numbered
<1>10. Numbers(rows) \subseteq Numbers(rows \cup {r})
       /\ Cardinality(rows) + 1 \in Numbers(rows \cup {r})
  <2>1. Numbers(rows) = 1..Cardinality(rows)
    BY DEF Numbers
  <2> QED BY <1>1, <1>5, <2>1
<1>11. \A n \in Numbers(rows) : RowAt(rows \cup {r}, n) = RowAt(rows, n)
  BY <1>7, <1>8, <1>9, <1>10
<1>12. RowAt(rows \cup {r}, Cardinality(rows) + 1) = r
  BY <1>8, <1>9, <1>10
<1> QED BY <1>1, <1>4, <1>6, <1>11, <1>12

\* The checks of a call look at the tables alone.
LEMMA ChecksStay ==
    ASSUME UNCHANGED tables
    PROVE  \A c : (RowAllows(c) <=> RowAllows(c)') /\ (Admits(c) <=> Admits(c)')
<1>1. runRow' = runRow /\ extension' = extension /\ taskLeases' = taskLeases /\ bindings' = bindings
  BY DEF tables
<1>2. Chain' = Chain
  BY <1>1 DEF Chain, Numbers, RowAt
<1>3. \A c : RowAllows(c) <=> RowAllows(c)'
  BY <1>1 DEF RowAllows, CreateAllowed, ClaimAllowed, ReleaseAllowed, RenewAllowed,
              UpdateAllowed, AppendAllowed, ArchiveAllowed, Ledger!AssertUpdateLease
<1>4. \A c : ValidateAdmission(c) <=> ValidateAdmission(c)'
  BY <1>1, <1>2 DEF ValidateAdmission, MarkOf
<1>5. \A c : AppendAdmits(c) <=> AppendAdmits(c)'
  BY <1>1, <1>4 DEF AppendAdmits, MarkOf
<1> QED BY <1>1, <1>3, <1>5 DEF Admits, BindAdmits, LeaseAdmits, EvaluateAdmits,
                               Ledger!RequireTaskLease, Ledger!AssertLeaseBinding

\* A lock that a session may take is its own afterwards.
LEMMA TakeFacts ==
    ASSUME Shapes, NEW s \in Sessions, NEW r \in Resources, Take(s, r)
    PROVE  /\ lock' \in [Resources -> Sessions \cup {Free}]
           /\ lock'[r] = s /\ lock[r] \in {Free, s}
           /\ \A q \in Resources \ {r} : lock'[q] = lock[q]
BY DEF Take, Shapes

LEMMA FreeFacts ==
    ASSUME Shapes, StoreAssumption, NEW s \in Sessions, FreeLocks(s)
    PROVE  /\ lock' \in [Resources -> Sessions \cup {Free}]
           /\ \A r \in Resources : /\ lock'[r] # s
                                   /\ \A u \in Sessions \ {s} : lock'[r] = u <=> lock[r] = u
BY DEF FreeLocks, Shapes, StoreAssumption

-----------------------------------------------------------------------------
(* The initial state.                                                      *)

\* No row, no call, no lock.
LEMMA StoreInitInv == StoreAssumption /\ StoreInit => StoreInv
<1> SUFFICES ASSUME StoreAssumption, StoreInit PROVE StoreInv
  OBVIOUS
<1>1. /\ \A s \in Sessions : session[s] = Idle /\ At(s, "idle") /\ Call(s) = NoCall
                             /\ Held(s) = {} /\ Op(s) = "none"
      /\ \A r \in Resources : lock[r] = Free
  BY DEF StoreInit, Idle, At, Call, Held, Op, NoCall
<1>2. Numbered({}) /\ Cardinality({}) = 0
  BY FS_EmptySet DEF Numbered, Numbers
<1>3. Shapes
  <2>1. runRow \in Ledger!RunRows
    BY DEF StoreInit, Ledger!AbsentRun, Ledger!RunRows, Ledger!NoOwner, Ledger!NoBinding
  <2>2. taskLeases \in [StoreTasks -> Nat]
    BY DEF StoreInit, Ledger!NoRow
  <2>3. bindings \in [StoreBindingIds -> [task : StoreTasks \cup {"none"}, sequence : Nat]]
    BY DEF StoreInit, Ledger!NoEvaluation
  <2>4. lock \in [Resources -> Sessions \cup {Free}]
    BY DEF StoreInit
  <2>5. session \in [Sessions -> [pc : Phases, call : Calls \cup {NoCall}, previous : Nat]]
    BY DEF StoreInit, Idle, Phases, Zero
  <2> QED BY <2>1, <2>2, <2>3, <2>4, <2>5, <1>2 DEF Shapes, StoreInit
<1>4. \A s \in Sessions : InPhase(s)
  BY <1>1 DEF InPhase, At
<1>5. \A s \in Sessions : Checked(s)
  BY <1>1 DEF Checked, At
<1>6. LocksHeld
  BY <1>1 DEF LocksHeld, StoreAssumption
<1>7. EventsBounded
  <2>1. Appending = {}
    BY <1>1 DEF Appending
  <2> QED BY <2>1, <1>2 DEF StoreInit, EventsBounded, StoreAssumption
<1>8. (\A r \in extension : Admitted(r)) /\ ReplayShape
  BY DEF StoreInit, ReplayShape, NoReplay
<1> QED BY <1>3, <1>4, <1>5, <1>6, <1>7, <1>8 DEF StoreInv

-----------------------------------------------------------------------------
(* A step of one session that leaves the tables alone.                     *)

\* Fewer calls append events than before.
LEMMA FewerAppend ==
    ASSUME StoreInv, NEW A, A \subseteq Appending
    PROVE  /\ IsFiniteSet(A) /\ Cardinality(A) \in Nat /\ Cardinality(A) <= Cardinality(Appending)
           /\ IsFiniteSet(Appending) /\ Cardinality(Appending) \in Nat
           /\ Cardinality(collaboration) \in Nat
<1>1. IsFiniteSet(Appending)
  BY FS_Subset DEF StoreInv, StoreAssumption, Appending
<1>2. IsFiniteSet(A) /\ Cardinality(A) <= Cardinality(Appending)
  BY <1>1, FS_Subset
<1>3. IsFiniteSet(collaboration)
  BY DEF StoreInv, Shapes, Numbered
<1> QED BY <1>1, <1>2, <1>3, FS_CardinalityType

\* The step changes one session and locks that nobody else has.
SessionMoves(s) ==
    /\ session' \in [Sessions -> [pc : Phases, call : Calls \cup {NoCall}, previous : Nat]]
    /\ \A u \in Sessions \ {s} : session'[u] = session[u]
    /\ lock' \in [Resources -> Sessions \cup {Free}]
    /\ \A r \in Resources : /\ lock'[r] = s <=> r \in Held(s)'
                            /\ \A u \in Sessions \ {s} : lock'[r] = u <=> lock[r] = u
    /\ UNCHANGED <<tables, replay>>

\* The other sessions are where they were.
LEMMA OthersStay ==
    ASSUME NEW s, NEW u \in Sessions \ {s}, session'[u] = session[u]
    PROVE  /\ Call(u)' = Call(u) /\ Op(u)' = Op(u) /\ Held(u)' = Held(u)
           /\ \A pc : At(u, pc)' <=> At(u, pc)
           /\ InPhase(u) => InPhase(u)'
<1>1. Call(u)' = Call(u) /\ Op(u)' = Op(u) /\ \A pc : At(u, pc)' <=> At(u, pc)
  BY DEF Call, Op, At
<1>2. Held(u)' = Held(u)
  BY <1>1 DEF Held
<1>3. InPhase(u) => InPhase(u)'
  BY <1>1 DEF InPhase
<1> QED BY <1>1, <1>2, <1>3

LEMMA MoveInv ==
    ASSUME StoreInv, NEW s \in Sessions, SessionMoves(s), InPhase(s)', Checked(s)',
           \/ Op(s)' = "event" => Op(s) = "event"
           \/ MayBegin(Call(s)')
    PROVE  StoreInv'
<1>0. /\ runRow' = runRow /\ extension' = extension /\ collaboration' = collaboration
      /\ archive' = archive /\ taskLeases' = taskLeases /\ bindings' = bindings /\ replay' = replay
      /\ UNCHANGED tables
  BY DEF SessionMoves, tables
<1>1. StoreAssumption'
  BY DEF StoreInv, StoreAssumption
<1>2. Shapes'
  BY <1>0 DEF StoreInv, Shapes, SessionMoves
<1>3. ASSUME NEW u \in Sessions PROVE InPhase(u)' /\ Checked(u)'
  <2>1. CASE u = s
    BY <2>1
  <2>2. CASE u # s
    <3>1. InPhase(u) /\ Checked(u)
      BY DEF StoreInv
    <3>2. session'[u] = session[u]
      BY <2>2 DEF SessionMoves
    <3>3. Checked(u)'
      BY <3>1, <3>2, <1>0, ChecksStay DEF Checked, Call, Op, At, ReceiptOf
    <3> QED BY <2>2, <3>1, <3>2, <3>3, OthersStay
  <2> QED BY <2>1, <2>2
<1>4. LocksHeld'
  <2> SUFFICES ASSUME NEW u \in Sessions, NEW r \in Resources
               PROVE  lock'[r] = u <=> r \in Held(u)'
    BY DEF LocksHeld
  <2>1. CASE u = s
    BY <2>1 DEF SessionMoves
  <2>2. CASE u # s
    <3>1. (lock'[r] = u <=> lock[r] = u) /\ session'[u] = session[u]
      BY <2>2 DEF SessionMoves
    <3>2. Held(u)' = Held(u)
      BY <2>2, <3>1, OthersStay
    <3> QED BY <3>1, <3>2 DEF StoreInv, LocksHeld
  <2> QED BY <2>1, <2>2
<1>5. EventsBounded'
  <2>1. \A u \in Sessions \ {s} : Op(u)' = Op(u)
    BY OthersStay DEF SessionMoves
  <2>2. CASE Appending' \subseteq Appending
    <3>1. Cardinality(Appending') \in Nat /\ Cardinality(Appending') <= Cardinality(Appending)
          /\ Cardinality(Appending) \in Nat /\ Cardinality(collaboration) \in Nat
      BY <2>2, FewerAppend
    <3>2. MaxEvents \in Nat
      BY DEF StoreInv, StoreAssumption
    <3> QED BY <3>1, <3>2, <1>0 DEF StoreInv, EventsBounded
  <2>3. CASE MayBegin(Call(s)') /\ Op(s)' = "event" /\ Op(s) # "event"
    <3>1. Appending' = Appending \cup {s} /\ s \notin Appending
      BY <2>1, <2>3 DEF Appending
    <3>2. IsFiniteSet(Appending) /\ Cardinality(Appending) \in Nat
          /\ Cardinality(collaboration) \in Nat
      BY FewerAppend
    <3>3. Cardinality(Appending') = Cardinality(Appending) + 1
      BY <3>1, <3>2, FS_AddElement
    <3>4. Cardinality(collaboration) + Cardinality(Appending) < MaxEvents
      BY <2>3 DEF MayBegin, Op, Appending
    <3>5. MaxEvents \in Nat
      BY DEF StoreInv, StoreAssumption
    <3> QED BY <3>2, <3>3, <3>4, <3>5, <1>0 DEF EventsBounded
  <2>4. CASE Op(s)' = "event" => Op(s) = "event"
    BY <2>1, <2>2, <2>4 DEF Appending
  <2> QED BY <2>3, <2>4
<1>6. (\A r \in extension' : Admitted(r)') /\ ReplayShape'
  BY <1>0 DEF StoreInv, Admitted, ReplayShape
<1> QED BY <1>1, <1>2, <1>3, <1>4, <1>5, <1>6 DEF StoreInv

-----------------------------------------------------------------------------
(* The statements before the commit.                                       *)

\* A step to the next statement keeps the call.
LEMMA GotoFacts ==
    ASSUME Shapes, NEW s \in Sessions, NEW pc \in Phases, Goto(s, pc)
    PROVE  /\ session' \in [Sessions -> [pc : Phases, call : Calls \cup {NoCall}, previous : Nat]]
           /\ \A u \in Sessions \ {s} : session'[u] = session[u]
           /\ session'[s].pc = pc /\ Call(s)' = Call(s) /\ Op(s)' = Op(s)
           /\ \A q : At(s, q)' <=> q = pc
BY DEF Goto, Shapes, Call, Op, At

\* A session that rolls back, or whose connection is lost, leaves no trace.
LEMMA RollbackInv ==
    ASSUME StoreInv, NEW s \in Sessions, Rollback(s)
    PROVE  StoreInv'
<1>1. /\ session' \in [Sessions -> [pc : Phases, call : Calls \cup {NoCall}, previous : Nat]]
      /\ \A u \in Sessions \ {s} : session'[u] = session[u]
      /\ session'[s] = Idle
  <2>1. Idle \in [pc : Phases, call : Calls \cup {NoCall}, previous : Nat]
    BY DEF Idle, Phases, Zero
  <2> QED BY <2>1 DEF StoreInv, Shapes, Rollback, End
<1>2. At(s, "idle")' /\ Call(s)' = NoCall /\ Held(s)' = {} /\ Op(s)' = "none"
  BY <1>1 DEF Idle, At, Call, Held, Op, NoCall
<1>3. SessionMoves(s)
  <2>1. FreeLocks(s) /\ UNCHANGED <<tables, replay>>
    BY DEF Rollback, End
  <2> QED BY <1>1, <1>2, <2>1, FreeFacts DEF StoreInv, SessionMoves
<1>4. InPhase(s)' /\ Checked(s)'
  BY <1>1, <1>2 DEF InPhase, Checked, At, Idle
<1> QED BY <1>2, <1>3, <1>4, MoveInv

LEMMA BeginInv ==
    ASSUME StoreInv, NEW s \in Sessions, NEW c \in Calls, MayBegin(c), Begin(s, c)
    PROVE  StoreInv'
<1> DEFINE pc == IF c \in RowCalls THEN "row" ELSE "extension"
<1>1. /\ session' \in [Sessions -> [pc : Phases, call : Calls \cup {NoCall}, previous : Nat]]
      /\ \A u \in Sessions \ {s} : session'[u] = session[u]
      /\ session'[s].pc = pc /\ Call(s)' = c
  <2>1. Idle \in [pc : Phases, call : Calls \cup {NoCall}, previous : Nat] /\ pc \in Phases
    BY DEF Idle, Phases, Zero
  <2>2. /\ [Idle EXCEPT !.pc = pc, !.call = c]
              \in [pc : Phases, call : Calls \cup {NoCall}, previous : Nat]
        /\ [Idle EXCEPT !.pc = pc, !.call = c].pc = pc
        /\ [Idle EXCEPT !.pc = pc, !.call = c].call = c
    <3> HIDE DEF pc
    <3> QED BY <2>1
  <2> QED BY <2>1, <2>2 DEF StoreInv, Shapes, Begin, Call
<1>2. \A q : At(s, q)' <=> q = pc
  BY <1>1 DEF At
<1>3. Held(s)' = {} /\ Held(s) = {}
  <2>1. At(s, "idle")
    BY DEF Begin
  <2> QED BY <1>1, <1>2, <2>1 DEF Held, At
<1>4. SessionMoves(s)
  BY <1>1, <1>3 DEF SessionMoves, Begin, StoreInv, Shapes, LocksHeld
<1>5. InPhase(s)' /\ Checked(s)'
  BY <1>1, <1>2 DEF InPhase, Checked, At, Calls
<1> QED BY <1>1, <1>4, <1>5, MoveInv

\* SELECT ... FOR UPDATE and the checks of a row call.
LEMMA LockRowInv ==
    ASSUME StoreInv, NEW s \in Sessions, LockRow(s)
    PROVE  StoreInv'
<1> DEFINE pc == IF Op(s) \in StreamOps THEN "stream" ELSE "commit"
<1>1. /\ At(s, "row") /\ Take(s, "row") /\ RowAllows(Call(s)) /\ Goto(s, pc)
      /\ UNCHANGED <<tables, replay>>
  BY DEF LockRow, Op, StreamOps
<1>2. Call(s) \in RowCalls /\ Op(s) \in RowOps /\ Op(s) \notin ExtensionOps
      /\ Call(s) \notin ExtensionCalls
  BY <1>1, RowCallShape, OpsApart DEF StoreInv, InPhase, At, Op, Calls
<1>3. /\ session' \in [Sessions -> [pc : Phases, call : Calls \cup {NoCall}, previous : Nat]]
      /\ \A u \in Sessions \ {s} : session'[u] = session[u]
      /\ session'[s].pc = pc /\ Call(s)' = Call(s) /\ Op(s)' = Op(s)
      /\ \A q : At(s, q)' <=> q = pc
  BY <1>1, GotoFacts DEF StoreInv, Phases
<1>4. Held(s) = {} /\ Held(s)' = {"row"}
  BY <1>1, <1>2, <1>3 DEF Held, At
<1>5. "row" \in Resources
  BY DEF Resources
<1>6. /\ lock' \in [Resources -> Sessions \cup {Free}]
      /\ lock'["row"] = s /\ lock["row"] \in {Free, s}
      /\ \A q \in Resources \ {"row"} : lock'[q] = lock[q]
  BY <1>1, <1>5, TakeFacts DEF StoreInv
<1>7. SessionMoves(s)
  BY <1>1, <1>3, <1>4, <1>6 DEF SessionMoves, StoreInv, LocksHeld, StoreAssumption
<1>8. InPhase(s)'
  BY <1>2, <1>3 DEF InPhase, Calls
<1>9. Checked(s)'
  <2>1. RowAllows(Call(s))'
    BY <1>1, <1>3, ChecksStay
  <2>2. ~ (At(s, "commit")' /\ Op(s)' = "receipt")
    BY <1>3 DEF StreamOps
  <2>3. Call(s)' \notin ExtensionCalls
    BY <1>2, <1>3
  <2> QED BY <2>1, <2>2, <2>3 DEF Checked
<1> QED BY <1>3, <1>7, <1>8, <1>9, MoveInv

\* The advisory lock of the call's stream.
LEMMA LockStreamInv ==
    ASSUME StoreInv, NEW s \in Sessions, LockStream(s)
    PROVE  StoreInv'
<1>1. /\ At(s, "stream") /\ Take(s, Op(s)) /\ Goto(s, "previous") /\ UNCHANGED <<tables, replay>>
  BY DEF LockStream, StreamLock, Op
<1>2. Call(s) \in RowCalls /\ Op(s) \in StreamOps /\ Op(s) \in Resources /\ Op(s) # "row"
      /\ Call(s) \notin ExtensionCalls /\ RowAllows(Call(s))
  BY <1>1, OpsApart, RowCallShape DEF StoreInv, InPhase, Checked, At, Op, Calls, StreamOps
<1>3. /\ session' \in [Sessions -> [pc : Phases, call : Calls \cup {NoCall}, previous : Nat]]
      /\ \A u \in Sessions \ {s} : session'[u] = session[u]
      /\ session'[s].pc = "previous" /\ Call(s)' = Call(s) /\ Op(s)' = Op(s)
      /\ \A q : At(s, q)' <=> q = "previous"
  BY <1>1, GotoFacts DEF StoreInv, Phases
<1>4. Held(s) = {"row"} /\ Held(s)' = {"row", Op(s)}
  BY <1>1, <1>2, <1>3 DEF Held, At
<1>5. /\ lock' \in [Resources -> Sessions \cup {Free}]
      /\ lock'[Op(s)] = s /\ lock[Op(s)] \in {Free, s}
      /\ \A q \in Resources \ {Op(s)} : lock'[q] = lock[q]
  BY <1>1, <1>2, TakeFacts DEF StoreInv
<1>6. SessionMoves(s)
  BY <1>1, <1>2, <1>3, <1>4, <1>5 DEF SessionMoves, StoreInv, LocksHeld, StoreAssumption
<1>7. InPhase(s)'
  BY <1>2, <1>3 DEF InPhase, Calls
<1>8. Checked(s)'
  <2>1. RowAllows(Call(s))'
    BY <1>1, <1>2, <1>3, ChecksStay
  <2> QED BY <1>2, <1>3, <2>1 DEF Checked
<1> QED BY <1>3, <1>6, <1>7, <1>8, MoveInv

\* Reading the last row's hash, and that the receipt key is new.
LEMMA ReadPreviousInv ==
    ASSUME StoreInv, NEW s \in Sessions, ReadPrevious(s)
    PROVE  StoreInv'
<1>1. /\ At(s, "previous")
      /\ Op(s) = "receipt" => ReceiptOf(Call(s).key) = {}
      /\ session' = [session EXCEPT ![s].pc = "commit",
                                    ![s].previous = LastHash(TableOf(Op(s)))]
      /\ lock' = lock /\ UNCHANGED <<tables, replay>>
  BY DEF ReadPrevious, Op
<1>2. Call(s) \in RowCalls /\ Op(s) \in StreamOps /\ Op(s) \notin ExtensionOps
      /\ Call(s) \notin ExtensionCalls /\ RowAllows(Call(s))
  BY <1>1, OpsApart, RowCallShape DEF StoreInv, InPhase, Checked, At, Op, Calls, StreamOps
<1>3. LastHash(TableOf(Op(s))) \in Nat
  BY FS_CardinalityType DEF StoreInv, Shapes, Numbered, LastHash, TableOf
<1>4. /\ session' \in [Sessions -> [pc : Phases, call : Calls \cup {NoCall}, previous : Nat]]
      /\ \A u \in Sessions \ {s} : session'[u] = session[u]
      /\ session'[s].pc = "commit" /\ Call(s)' = Call(s) /\ Op(s)' = Op(s)
      /\ \A q : At(s, q)' <=> q = "commit"
  BY <1>1, <1>3 DEF StoreInv, Shapes, Phases, Call, Op, At
<1>5. Held(s) = {"row", Op(s)} /\ Held(s)' = {"row", Op(s)}
  BY <1>1, <1>2, <1>4 DEF Held, At
<1>6. SessionMoves(s)
  BY <1>1, <1>4, <1>5 DEF SessionMoves, StoreInv, LocksHeld, Shapes
<1>7. InPhase(s)'
  BY <1>2, <1>4 DEF InPhase, Calls
<1>8. Checked(s)'
  <2>1. RowAllows(Call(s))'
    BY <1>1, <1>2, <1>4, ChecksStay
  <2>2. Op(s)' = "receipt" => (ReceiptOf(Call(s).key) = {})'
    BY <1>1, <1>4 DEF ReceiptOf, tables
  <2> QED BY <1>2, <1>4, <2>1, <2>2 DEF Checked
<1> QED BY <1>4, <1>6, <1>7, <1>8, MoveInv

\* The extension's advisory lock, before anything is read.
LEMMA LockExtensionInv ==
    ASSUME StoreInv, NEW s \in Sessions, LockExtension(s)
    PROVE  StoreInv'
<1>1. /\ At(s, "extension") /\ Take(s, "extension") /\ Goto(s, "admit")
      /\ UNCHANGED <<tables, replay>>
  BY DEF LockExtension
<1>2. Call(s) \in ExtensionCalls /\ Call(s) \notin RowCalls
  BY <1>1, OpsApart, ExtensionCallShape DEF StoreInv, InPhase, At, Calls
<1>3. /\ session' \in [Sessions -> [pc : Phases, call : Calls \cup {NoCall}, previous : Nat]]
      /\ \A u \in Sessions \ {s} : session'[u] = session[u]
      /\ session'[s].pc = "admit" /\ Call(s)' = Call(s) /\ Op(s)' = Op(s)
      /\ \A q : At(s, q)' <=> q = "admit"
  BY <1>1, GotoFacts DEF StoreInv, Phases
<1>4. Held(s) = {} /\ Held(s)' = {"extension"}
  BY <1>1, <1>3 DEF Held, At
<1>5. "extension" \in Resources
  BY DEF Resources
<1>6. /\ lock' \in [Resources -> Sessions \cup {Free}]
      /\ lock'["extension"] = s /\ lock["extension"] \in {Free, s}
      /\ \A q \in Resources \ {"extension"} : lock'[q] = lock[q]
  BY <1>1, <1>5, TakeFacts DEF StoreInv
<1>7. SessionMoves(s)
  BY <1>1, <1>3, <1>4, <1>6 DEF SessionMoves, StoreInv, LocksHeld, StoreAssumption
<1>8. InPhase(s)' /\ Checked(s)'
  BY <1>2, <1>3 DEF InPhase, Checked
<1> QED BY <1>3, <1>7, <1>8, MoveInv

\* Everything an extension call reads and checks.
LEMMA AdmitInv ==
    ASSUME StoreInv, NEW s \in Sessions, Admit(s)
    PROVE  StoreInv'
<1>1. /\ At(s, "admit") /\ Admits(Call(s))
      /\ session' = [session EXCEPT ![s].pc = "write", ![s].previous = LastHash(extension)]
      /\ lock' = lock /\ UNCHANGED <<tables, replay>>
  BY DEF Admit
<1>2. Call(s) \in ExtensionCalls /\ Call(s) \notin RowCalls
  BY <1>1, OpsApart, ExtensionCallShape DEF StoreInv, InPhase, At, Calls
<1>3. LastHash(extension) \in Nat
  BY FS_CardinalityType DEF StoreInv, Shapes, Numbered, LastHash
<1>4. /\ session' \in [Sessions -> [pc : Phases, call : Calls \cup {NoCall}, previous : Nat]]
      /\ \A u \in Sessions \ {s} : session'[u] = session[u]
      /\ session'[s].pc = "write" /\ Call(s)' = Call(s) /\ Op(s)' = Op(s)
      /\ \A q : At(s, q)' <=> q = "write"
  BY <1>1, <1>3 DEF StoreInv, Shapes, Phases, Call, Op, At
<1>5. Held(s) = {"extension"} /\ Held(s)' = {"extension"}
  BY <1>1, <1>4 DEF Held, At
<1>6. SessionMoves(s)
  BY <1>1, <1>4, <1>5 DEF SessionMoves, StoreInv, LocksHeld, Shapes
<1>7. InPhase(s)'
  BY <1>2, <1>4 DEF InPhase
<1>8. Checked(s)'
  <2>1. Admits(Call(s))'
    BY <1>1, <1>4, ChecksStay
  <2> QED BY <1>2, <1>4, <2>1 DEF Checked
<1> QED BY <1>4, <1>6, <1>7, <1>8, MoveInv

\* The first write takes the row's lock after the extension's.
LEMMA WriteInv ==
    ASSUME StoreInv, NEW s \in Sessions, Write(s)
    PROVE  StoreInv'
<1>1. /\ At(s, "write") /\ Take(s, "row") /\ Goto(s, "commit") /\ UNCHANGED <<tables, replay>>
  BY DEF Write
<1>2. Call(s) \in ExtensionCalls /\ Call(s) \notin RowCalls /\ Op(s) \in ExtensionOps
      /\ Op(s) \notin StreamOps /\ Admits(Call(s))
  BY <1>1, OpsApart, ExtensionCallShape DEF StoreInv, InPhase, Checked, At, Calls, Op
<1>3. /\ session' \in [Sessions -> [pc : Phases, call : Calls \cup {NoCall}, previous : Nat]]
      /\ \A u \in Sessions \ {s} : session'[u] = session[u]
      /\ session'[s].pc = "commit" /\ Call(s)' = Call(s) /\ Op(s)' = Op(s)
      /\ \A q : At(s, q)' <=> q = "commit"
  BY <1>1, GotoFacts DEF StoreInv, Phases
<1>4. Held(s) = {"extension"} /\ Held(s)' = {"extension", "row"}
  BY <1>1, <1>2, <1>3 DEF Held, At
<1>5. "row" \in Resources
  BY DEF Resources
<1>6. /\ lock' \in [Resources -> Sessions \cup {Free}]
      /\ lock'["row"] = s /\ lock["row"] \in {Free, s}
      /\ \A q \in Resources \ {"row"} : lock'[q] = lock[q]
  BY <1>1, <1>5, TakeFacts DEF StoreInv
<1>7. SessionMoves(s)
  BY <1>1, <1>3, <1>4, <1>6 DEF SessionMoves, StoreInv, LocksHeld, StoreAssumption
<1>8. InPhase(s)'
  BY <1>2, <1>3 DEF InPhase, Calls
<1>9. Checked(s)'
  <2>1. Admits(Call(s))'
    BY <1>1, <1>2, <1>3, ChecksStay
  <2>2. Op(s)' # "receipt"
    BY <1>2, <1>3 DEF StreamOps
  <2> QED BY <1>2, <1>3, <2>1, <2>2 DEF Checked
<1> QED BY <1>3, <1>7, <1>8, <1>9, MoveInv

-----------------------------------------------------------------------------
(* The commit.                                                             *)

\* A session that commits has the row's lock, and its stream's or the extension's.
LEMMA CommitAlone ==
    ASSUME StoreInv, NEW s \in Sessions, At(s, "commit")
    PROVE  /\ Call(s) \in Calls
           /\ \/ Op(s) \in RowOps /\ Call(s) \in RowCalls /\ RowAllows(Call(s))
              \/ Op(s) \in ExtensionOps /\ Call(s) \in ExtensionCalls /\ Admits(Call(s))
           /\ \A u \in Sessions \ {s} :
                 /\ session[u].pc \notin {"stream", "previous", "commit"}
                 /\ session[u].pc \in {"admit", "write"} => Op(s) \notin ExtensionOps
<1>1. Call(s) \in Calls
  BY DEF StoreInv, InPhase
<1>2. Call(s) \in RowCalls => RowAllows(Call(s))
  BY DEF StoreInv, Checked, At
<1>3. Call(s) \in ExtensionCalls => Admits(Call(s))
  BY DEF StoreInv, Checked, At
<1>4. /\ "row" \in Held(s)
      /\ Op(s) \in ExtensionOps => "extension" \in Held(s)
  BY DEF Held, At
<1>5. "row" \in Resources /\ "extension" \in Resources
  BY DEF Resources
<1>6. /\ lock["row"] = s
      /\ Op(s) \in ExtensionOps => lock["extension"] = s
  BY <1>4, <1>5 DEF StoreInv, LocksHeld
<1>7. ASSUME NEW u \in Sessions \ {s}
      PROVE  /\ session[u].pc \notin {"stream", "previous", "commit"}
             /\ session[u].pc \in {"admit", "write"} => Op(s) \notin ExtensionOps
  <2>1. "row" \notin Held(u)
    BY <1>5, <1>6 DEF StoreInv, LocksHeld
  <2>2. Op(s) \in ExtensionOps => "extension" \notin Held(u)
    BY <1>5, <1>6 DEF StoreInv, LocksHeld
  <2>3. session[u].pc \in {"stream", "previous", "commit"} => "row" \in Held(u)
    BY DEF Held, At
  <2>4. session[u].pc \in {"admit", "write"} => "extension" \in Held(u)
    BY DEF Held, At
  <2> QED BY <2>1, <2>2, <2>3, <2>4
<1>8. \/ Op(s) \in RowOps /\ Call(s) \in RowCalls
      \/ Op(s) \in ExtensionOps /\ Call(s) \in ExtensionCalls
  BY <1>1, RowCallShape, ExtensionCallShape DEF Op, Calls
<1> QED BY <1>1, <1>2, <1>3, <1>7, <1>8

\* What is written, and what is not.
LEMMA CommitWrites ==
    ASSUME StoreInv, NEW s \in Sessions, Commit(s)
    PROVE  /\ At(s, "commit") /\ End(s) /\ runRow' = RunAfter(Call(s)) /\ replay' = replay
           /\ Op(s) = "event" => collaboration' = collaboration \cup {InsertedEvent(s)}
           /\ Op(s) # "event" => collaboration' = collaboration
           /\ Op(s) = "receipt" => archive' = archive \cup {InsertedReceipt(s)}
           /\ Op(s) # "receipt" => archive' = archive
           /\ Op(s) \in AppendOps => extension' = extension \cup {InsertedExtension(s)}
           /\ Op(s) \notin AppendOps => extension' = extension
           /\ Op(s) = "lease" => taskLeases' = InsertedLease(Call(s))
           /\ Op(s) # "lease" => taskLeases' = taskLeases
           /\ Op(s) = "evaluate" => bindings' = InsertedEvaluation(Call(s))
           /\ Op(s) # "evaluate" => bindings' = bindings
BY DEF Commit, Op, AppendOps

\* The run's row: only a bind call touches the binding, and a run stays.
LEMMA RunWritten ==
    ASSUME StoreInv, NEW s \in Sessions, Commit(s)
    PROVE  /\ runRow' \in Ledger!RunRows
           /\ Op(s) # "bind" => runRow'.binding = runRow.binding
           /\ runRow.version > 0 => runRow'.version > 0
<1>1. runRow \in Ledger!RunRows /\ runRow' = RunAfter(Call(s)) /\ At(s, "commit")
  BY CommitWrites DEF StoreInv, Shapes
<1>2. CASE Op(s) \in RowOps /\ Call(s) \in RowCalls /\ RowAllows(Call(s))
  <2>1. CASE Op(s) = "create"
    BY <1>1, <2>1 DEF RunAfter, Op, Ledger!RunRows
  <2>2. CASE Op(s) = "claim"
    <3>1. Call(s).owner \in Owners
      BY <1>2, <2>2, RowCallShape DEF Op
    <3> QED BY <1>1, <2>2, <3>1 DEF RunAfter, Op, Ledger!RunRows
  <2>3. CASE Op(s) = "release"
    BY <1>1, <2>3 DEF RunAfter, Op, Ledger!RunRows
  <2>4. CASE Op(s) = "update"
    <3>1. runRow.version = Call(s).version
      BY <1>2, <2>4 DEF RowAllows, UpdateAllowed, Op
    <3> QED BY <1>1, <2>4, <3>1 DEF RunAfter, Op, Ledger!RunRows
  <2>5. CASE Op(s) \in {"renew", "event", "receipt"}
    BY <1>1, <2>5 DEF RunAfter, Op
  <2> QED BY <1>2, <2>1, <2>2, <2>3, <2>4, <2>5 DEF RowOps, StreamOps
<1>3. CASE Op(s) \in ExtensionOps /\ Call(s) \in ExtensionCalls
  <2>1. CASE Op(s) = "bind"
    <3>1. Call(s).binding \in StoreBindings
      BY <1>3, <2>1, ExtensionCallShape DEF Op
    <3> QED BY <1>1, <2>1, <3>1 DEF RunAfter, Op, Ledger!RunRows
  <2>2. CASE Op(s) \in AppendOps
    BY <1>1, <2>2 DEF RunAfter, Op, AppendOps
  <2> QED BY <1>3, <2>1, <2>2 DEF ExtensionOps
<1> QED BY <1>1, <1>2, <1>3, CommitAlone

\* What an extension call checked depends on the binding and on the extension's tables.
LEMMA AdmitsKept ==
    ASSUME extension' = extension, taskLeases' = taskLeases, bindings' = bindings,
           runRow'.binding = runRow.binding, runRow.version > 0 => runRow'.version > 0
    PROVE  \A c : Admits(c) => Admits(c)'
<1>1. Chain' = Chain
  BY DEF Chain, Numbers, RowAt
<1>2. \A c : MarkOf(c)' = MarkOf(c)
  BY DEF MarkOf
<1>3. \A c : ValidateAdmission(c) <=> ValidateAdmission(c)'
  BY <1>1, <1>2 DEF ValidateAdmission
<1>4. \A c : AppendAdmits(c) <=> AppendAdmits(c)'
  BY <1>2, <1>3 DEF AppendAdmits
<1> QED BY <1>4 DEF Admits, BindAdmits, LeaseAdmits, EvaluateAdmits,
                   Ledger!RequireTaskLease, Ledger!AssertLeaseBinding

\* The numbered rows, the tables and the sessions keep their shapes.
LEMMA CommitShapes ==
    ASSUME StoreInv, NEW s \in Sessions, Commit(s)
    PROVE  /\ Shapes'
           /\ session'[s] = Idle
           /\ \A u \in Sessions \ {s} : session'[u] = session[u]
<1>1. Shapes /\ StoreAssumption /\ At(s, "commit") /\ End(s)
  BY CommitWrites DEF StoreInv
<1>2. session[s].previous \in Nat
  BY <1>1 DEF Shapes
<1>3. /\ Numbered(collaboration') /\ \A r \in collaboration' : r.previous \in Nat
  <2>1. InsertedEvent(s).sequence = Cardinality(collaboration) + 1
        /\ InsertedEvent(s).previous \in Nat
    BY <1>2 DEF InsertedEvent, NewSequence
  <2>2. Numbered(collaboration) /\ \A r \in collaboration : r.previous \in Nat
    BY <1>1 DEF Shapes
  <2>3. Numbered(collaboration \cup {InsertedEvent(s)})
    BY <2>1, <2>2, RowAppended
  <2>4. collaboration' \in {collaboration, collaboration \cup {InsertedEvent(s)}}
    BY CommitWrites
  <2> QED BY <2>1, <2>2, <2>3, <2>4
<1>4. /\ Numbered(archive') /\ \A r \in archive' : r.previous \in Nat
  <2>1. InsertedReceipt(s).sequence = Cardinality(archive) + 1
        /\ InsertedReceipt(s).previous \in Nat
    BY <1>2 DEF InsertedReceipt, NewSequence
  <2>2. Numbered(archive) /\ \A r \in archive : r.previous \in Nat
    BY <1>1 DEF Shapes
  <2>3. Numbered(archive \cup {InsertedReceipt(s)})
    BY <2>1, <2>2, RowAppended
  <2>4. archive' \in {archive, archive \cup {InsertedReceipt(s)}}
    BY CommitWrites
  <2> QED BY <2>1, <2>2, <2>3, <2>4
<1>5. /\ Numbered(extension') /\ \A r \in extension' : r.previous \in Nat
      /\ \A r \in extension' : r.payload \in StorePayloads
  <2>1. /\ InsertedExtension(s).sequence = Cardinality(extension) + 1
        /\ InsertedExtension(s).previous \in Nat
        /\ InsertedExtension(s).payload = Call(s).payload
    BY <1>2 DEF InsertedExtension, NewSequence
  <2>2. Op(s) \in AppendOps => Call(s).payload \in StorePayloads
    BY <1>1, CommitAlone, ExtensionCallShape, OpsApart DEF Op
  <2>3. /\ Numbered(extension) /\ \A r \in extension : r.previous \in Nat
        /\ \A r \in extension : r.payload \in StorePayloads
    BY <1>1 DEF Shapes
  <2>4. Numbered(extension \cup {InsertedExtension(s)})
    BY <2>1, <2>3, RowAppended
  <2>5. \/ extension' = extension
        \/ Op(s) \in AppendOps /\ extension' = extension \cup {InsertedExtension(s)}
    BY CommitWrites
  <2> QED BY <2>1, <2>2, <2>3, <2>4, <2>5
<1>6. taskLeases' \in [StoreTasks -> Nat]
  <2>1. CASE Op(s) = "lease"
    <3>1. Cardinality(extension) \in Nat
      BY <1>1, FS_CardinalityType DEF Shapes, Numbered
    <3>2. taskLeases' = [taskLeases EXCEPT ![Call(s).payload.task] = Cardinality(extension) + 1]
      BY <2>1, CommitWrites DEF InsertedLease, NewSequence
    <3>3. taskLeases \in [StoreTasks -> Nat]
      BY <1>1 DEF Shapes
    <3>4. Cardinality(extension) + 1 \in Nat
      BY <3>1
    <3> QED BY <3>2, <3>3, <3>4, Zenon
  <2>2. CASE Op(s) # "lease"
    <3>1. taskLeases' = taskLeases
      BY <2>2, CommitWrites
    <3> QED BY <1>1, <3>1 DEF Shapes
  <2> QED BY <2>1, <2>2
<1>7. bindings' \in [StoreBindingIds -> [task : StoreTasks \cup {"none"}, sequence : Nat]]
  <2>1. CASE Op(s) = "evaluate"
    <3>1. Cardinality(extension) \in Nat
      BY <1>1, FS_CardinalityType DEF Shapes, Numbered
    <3>2. Call(s).payload.task \in StoreTasks
      BY <1>1, <2>1, CommitAlone, ExtensionCallShape, OpsApart DEF Op, AppendOps, StoreAssumption
    <3>3. bindings' = [bindings EXCEPT ![Call(s).id] =
                            [task |-> Call(s).payload.task,
                             sequence |-> Cardinality(extension) + 1]]
      BY <2>1, CommitWrites DEF InsertedEvaluation, NewSequence
    <3>4. bindings \in [StoreBindingIds -> [task : StoreTasks \cup {"none"}, sequence : Nat]]
      BY <1>1 DEF Shapes
    <3>5. [task |-> Call(s).payload.task, sequence |-> Cardinality(extension) + 1]
              \in [task : StoreTasks \cup {"none"}, sequence : Nat]
      BY <3>1, <3>2
    <3> QED BY <3>3, <3>4, <3>5, Zenon
  <2>2. CASE Op(s) # "evaluate"
    <3>1. bindings' = bindings
      BY <2>2, CommitWrites
    <3> QED BY <1>1, <3>1 DEF Shapes
  <2> QED BY <2>1, <2>2
<1>8. lock' \in [Resources -> Sessions \cup {Free}]
  BY <1>1, FreeFacts DEF End
<1>9. /\ session' \in [Sessions -> [pc : Phases, call : Calls \cup {NoCall}, previous : Nat]]
      /\ session'[s] = Idle
      /\ \A u \in Sessions \ {s} : session'[u] = session[u]
  <2>1. Idle \in [pc : Phases, call : Calls \cup {NoCall}, previous : Nat]
    BY DEF Idle, Phases, Zero
  <2> QED BY <1>1, <2>1 DEF Shapes, End
<1>10. runRow' \in Ledger!RunRows
  BY RunWritten
<1> QED BY <1>3, <1>4, <1>5, <1>6, <1>7, <1>8, <1>9, <1>10 DEF Shapes

\* A new admission event comes with its row; the rows of the others stay.
LEMMA CommitAdmitted ==
    ASSUME StoreInv, NEW s \in Sessions, Commit(s)
    PROVE  \A r \in extension' : Admitted(r)'
<1>0. Shapes /\ StoreAssumption /\ At(s, "commit") /\ \A r \in extension : Admitted(r)
  BY CommitWrites DEF StoreInv
<1> SUFFICES ASSUME NEW r \in extension' PROVE Admitted(r)'
  OBVIOUS
<1>1. \A q \in extension : q.sequence \in 1..Cardinality(extension) /\ q.sequence # 0
  BY <1>0 DEF Shapes, Numbered, Numbers
<1>2. Cardinality(extension) \in Nat
  BY <1>0, FS_CardinalityType DEF Shapes, Numbered
<1>3. CASE r \in extension
  <2>1. r.payload.type = Ledger!LeaseAdmission => taskLeases'[r.payload.task] = r.sequence
    <3>1. CASE Op(s) = "lease"
      <4>1. taskLeases' = [taskLeases EXCEPT ![Call(s).payload.task] = Cardinality(extension) + 1]
        BY <3>1, CommitWrites DEF InsertedLease, NewSequence
      <4>2. taskLeases[Call(s).payload.task] = 0
        BY <1>0, <3>1, CommitAlone DEF Admits, LeaseAdmits, Op, Ledger!NoRow, RowOps, StreamOps
      <4> QED BY <1>0, <1>1, <1>3, <4>1, <4>2 DEF Admitted, Shapes
    <3> QED BY <1>0, <1>3, <3>1, CommitWrites DEF Admitted
  <2>2. r.payload.type = Ledger!EvaluatorAdmission =>
            \E i \in StoreBindingIds : bindings'[i].sequence = r.sequence
    <3>1. CASE Op(s) = "evaluate"
      <4>1. bindings' = [bindings EXCEPT ![Call(s).id] =
                            [task |-> Call(s).payload.task,
                             sequence |-> Cardinality(extension) + 1]]
        BY <3>1, CommitWrites DEF InsertedEvaluation, NewSequence
      <4>2. bindings[Call(s).id].sequence = 0
        BY <1>0, <3>1, CommitAlone
           DEF Admits, EvaluateAdmits, Op, Ledger!NoEvaluation, RowOps, StreamOps
      <4> QED BY <1>0, <1>1, <1>3, <4>1, <4>2 DEF Admitted, Shapes
    <3> QED BY <1>0, <1>3, <3>1, CommitWrites DEF Admitted
  <2> QED BY <2>1, <2>2 DEF Admitted
<1>4. CASE r \notin extension
  <2>1. Op(s) \in AppendOps /\ r = InsertedExtension(s)
    BY <1>4, CommitWrites
  <2>2. /\ r.payload = Call(s).payload /\ r.sequence = Cardinality(extension) + 1
    BY <2>1 DEF InsertedExtension, NewSequence
  <2>3. Call(s) \in ExtensionCalls
    BY <1>0, <2>1, CommitAlone, OpsApart
  <2>4. CASE Op(s) = "append"
    <3>1. r.payload.type \notin {Ledger!LeaseAdmission, Ledger!EvaluatorAdmission}
      BY <2>2, <2>3, <2>4, ExtensionCallShape
         DEF Op, Ledger!EventModels, Ledger!LeaseAdmission, Ledger!EvaluatorAdmission
    <3> QED BY <3>1 DEF Admitted
  <2>5. CASE Op(s) = "lease"
    <3>1. r.payload.type = Ledger!LeaseAdmission /\ r.payload.task \in StoreTasks
      BY <2>2, <2>3, <2>5, <1>0, ExtensionCallShape DEF Op, AppendOps, StoreAssumption
    <3>2. taskLeases' = [taskLeases EXCEPT ![r.payload.task] = r.sequence]
      BY <2>2, <2>5, CommitWrites DEF InsertedLease, NewSequence
    <3> QED BY <1>0, <3>1, <3>2 DEF Admitted, Shapes, Ledger!LeaseAdmission,
                                    Ledger!EvaluatorAdmission
  <2>6. CASE Op(s) = "evaluate"
    <3>1. r.payload.type = Ledger!EvaluatorAdmission /\ Call(s).id \in StoreBindingIds
      BY <2>2, <2>3, <2>6, ExtensionCallShape DEF Op
    <3>2. bindings' = [bindings EXCEPT ![Call(s).id] =
                            [task |-> r.payload.task, sequence |-> r.sequence]]
      BY <2>2, <2>6, CommitWrites DEF InsertedEvaluation, NewSequence
    <3> QED BY <1>0, <3>1, <3>2 DEF Admitted, Shapes, Ledger!LeaseAdmission,
                                    Ledger!EvaluatorAdmission
  <2> QED BY <2>1, <2>4, <2>5, <2>6 DEF AppendOps
<1> QED BY <1>3, <1>4

\* A commit keeps the invariant.
LEMMA CommitInv ==
    ASSUME StoreInv, NEW s \in Sessions, Commit(s)
    PROVE  StoreInv'
<1>0. Shapes /\ StoreAssumption /\ At(s, "commit") /\ End(s) /\ replay' = replay
  BY CommitWrites DEF StoreInv
<1>1. Shapes' /\ session'[s] = Idle /\ \A u \in Sessions \ {s} : session'[u] = session[u]
  BY CommitShapes
<1>2. At(s, "idle")' /\ Call(s)' = NoCall /\ Held(s)' = {} /\ Op(s)' = "none"
  BY <1>1 DEF Idle, At, Call, Held, Op, NoCall
<1>3. ASSUME NEW u \in Sessions PROVE InPhase(u)' /\ Checked(u)'
  <2>1. CASE u = s
    BY <2>1, <1>1, <1>2 DEF InPhase, Checked, At, Idle
  <2>2. CASE u # s
    <3>1. InPhase(u)'
      BY <2>2, <1>1, OthersStay DEF StoreInv
    <3>2. /\ session[u].pc \notin {"stream", "previous", "commit"}
          /\ At(u, "write") => Op(s) \notin ExtensionOps
      BY <2>2, <1>0, CommitAlone DEF At
    <3>3. ASSUME At(u, "write"), Call(u) \in ExtensionCalls PROVE Admits(Call(u))'
      <4>1. Op(s) \notin ExtensionOps
        BY <3>2, <3>3
      <4>2. /\ extension' = extension /\ taskLeases' = taskLeases /\ bindings' = bindings
            /\ runRow'.binding = runRow.binding
            /\ runRow.version > 0 => runRow'.version > 0
        BY <4>1, CommitWrites, RunWritten DEF ExtensionOps, AppendOps
      <4>3. Admits(Call(u))
        BY <3>3 DEF StoreInv, Checked, At
      <4>4. \A c : Admits(c) => Admits(c)'
        BY <4>2, AdmitsKept
      <4>5. Call(u)' = Call(u)
        BY <2>2, <1>1, OthersStay
      <4> QED BY <4>3, <4>4, <4>5
    <3>4. session'[u] = session[u] /\ Call(u)' = Call(u)
      BY <2>2, <1>1, OthersStay
    <3> QED BY <3>1, <3>2, <3>3, <3>4 DEF Checked, At
  <2> QED BY <2>1, <2>2
<1>4. LocksHeld'
  <2> SUFFICES ASSUME NEW u \in Sessions, NEW r \in Resources
               PROVE  lock'[r] = u <=> r \in Held(u)'
    BY DEF LocksHeld
  <2>1. lock'[r] # s /\ \A v \in Sessions \ {s} : lock'[r] = v <=> lock[r] = v
    BY <1>0, FreeFacts DEF End
  <2>2. CASE u = s
    BY <2>1, <2>2, <1>2
  <2>3. CASE u # s
    <3>1. Held(u)' = Held(u)
      BY <2>3, <1>1, OthersStay
    <3> QED BY <2>1, <2>3, <3>1 DEF StoreInv, LocksHeld
  <2> QED BY <2>2, <2>3
<1>5. EventsBounded'
  <2>1. Appending' = Appending \ {s}
    <3>1. \A u \in Sessions \ {s} : Op(u)' = Op(u)
      BY <1>1, OthersStay
    <3> QED BY <1>2, <3>1 DEF Appending
  <2>2. /\ IsFiniteSet(Appending) /\ Cardinality(Appending) \in Nat
        /\ Cardinality(Appending') \in Nat /\ Cardinality(Appending') <= Cardinality(Appending)
        /\ Cardinality(collaboration) \in Nat
    BY <2>1, FewerAppend
  <2>3. MaxEvents \in Nat
    BY <1>0 DEF StoreAssumption
  <2>4. CASE Op(s) = "event"
    <3>1. s \in Appending
      BY <2>4 DEF Appending
    <3>2. Cardinality(Appending') = Cardinality(Appending) - 1
      BY <2>1, <2>2, <3>1, FS_RemoveElement
    <3>3. InsertedEvent(s).sequence = Cardinality(collaboration) + 1
      BY DEF InsertedEvent, NewSequence
    <3>4. Cardinality(collaboration') = Cardinality(collaboration) + 1
      <4>1. collaboration' = collaboration \cup {InsertedEvent(s)}
        BY <2>4, CommitWrites
      <4>2. Numbered(collaboration)
        BY <1>0 DEF Shapes
      <4> QED BY <3>3, <4>1, <4>2, RowAppended
    <3> QED BY <2>2, <2>3, <3>2, <3>4 DEF StoreInv, EventsBounded
  <2>5. CASE Op(s) # "event"
    <3>1. collaboration' = collaboration
      BY <2>5, CommitWrites
    <3> QED BY <2>2, <2>3, <3>1 DEF StoreInv, EventsBounded
  <2> QED BY <2>4, <2>5
<1>6. ReplayShape'
  <2>1. extension \subseteq extension'
    BY CommitWrites
  <2> QED BY <1>0, <2>1 DEF StoreInv, ReplayShape
<1>7. StoreAssumption'
  BY <1>0 DEF StoreAssumption
<1> QED BY <1>1, <1>3, <1>4, <1>5, <1>6, <1>7, CommitAdmitted DEF StoreInv

-----------------------------------------------------------------------------
(* The reader, and every step.                                             *)

\* The tables are read after the chain, and rows stay: the reader misses none.
LEMMA ReplayInv ==
    ASSUME StoreInv, ReplayEvents \/ ReplayLeases \/ ReplayEvaluators \/ ReplayAnswered
    PROVE  StoreInv'
<1>0. Shapes /\ ReplayShape /\ (\A r \in extension : Admitted(r)) /\ StoreAssumption
  BY DEF StoreInv
<1>1. /\ UNCHANGED <<tables, lock, session>>
      /\ runRow' = runRow /\ extension' = extension /\ collaboration' = collaboration
      /\ archive' = archive /\ taskLeases' = taskLeases /\ bindings' = bindings
      /\ lock' = lock /\ session' = session
  BY DEF ReplayEvents, ReplayLeases, ReplayEvaluators, ReplayAnswered, tables
<1>2. \A r \in extension : r.sequence # 0 /\ r.payload.task \in StoreTasks
  BY <1>0 DEF Shapes, Numbered, Numbers, StoreAssumption
<1>3. ReplayShape'
  <2>1. CASE ReplayEvents
    <3>1. replay'.pc = "leases" /\ replay'.events = extension
      BY <2>1 DEF ReplayEvents, NoReplay
    <3> QED BY <3>1, <1>1 DEF ReplayShape
  <2>4. CASE ReplayAnswered
    <3>1. replay'.pc = "idle" /\ replay'.events = {}
      BY <2>4 DEF ReplayAnswered, NoReplay
    <3> QED BY <3>1 DEF ReplayShape
  <2>2. CASE ReplayLeases
    <3>1. /\ replay.pc = "leases" /\ replay'.pc = "evaluators" /\ replay'.events = replay.events
          /\ replay'.leases = {taskLeases[t] : t \in StoreTasks} \ {0}
      BY <2>2 DEF ReplayLeases, Ledger!NoRow
    <3>2. \A r \in replay.events : r.payload.type = Ledger!LeaseAdmission =>
              r.sequence \in replay'.leases
      BY <3>1, <1>0, <1>2 DEF ReplayShape, Admitted
    <3> QED BY <3>1, <3>2, <1>0, <1>1 DEF ReplayShape
  <2>3. CASE ReplayEvaluators
    <3>1. /\ replay.pc = "evaluators" /\ replay'.pc = "done" /\ replay'.events = replay.events
          /\ replay'.leases = replay.leases
                                 \cup ({bindings[i].sequence : i \in StoreBindingIds} \ {0})
      BY <2>3 DEF ReplayEvaluators
    <3>2. \A r \in replay.events : r.payload.type = Ledger!EvaluatorAdmission =>
              r.sequence \in replay'.leases
      BY <3>1, <1>0, <1>2 DEF ReplayShape, Admitted
    <3> QED BY <3>1, <3>2, <1>0, <1>1 DEF ReplayShape
  <2> QED BY <2>1, <2>2, <2>3, <2>4
<1>4. Shapes'
  BY <1>0, <1>1 DEF Shapes
<1>5. ASSUME NEW u \in Sessions PROVE InPhase(u)' /\ Checked(u)' /\ Held(u)' = Held(u)
  <2>1. InPhase(u) /\ Checked(u)
    BY DEF StoreInv
  <2>2. Checked(u)'
    BY <2>1, <1>1, ChecksStay DEF Checked, Call, Op, At, ReceiptOf
  <2>3. InPhase(u)' /\ Held(u)' = Held(u)
    BY <2>1, <1>1 DEF InPhase, Held, Call, Op, At
  <2> QED BY <2>2, <2>3
<1>6. LocksHeld'
  BY <1>1, <1>5 DEF StoreInv, LocksHeld
<1>7. EventsBounded'
  BY <1>1 DEF StoreInv, EventsBounded, Appending, Op, Call
<1>8. \A r \in extension' : Admitted(r)'
  BY <1>0, <1>1 DEF Admitted
<1>9. StoreAssumption'
  BY <1>0 DEF StoreAssumption
<1> QED BY <1>3, <1>4, <1>5, <1>6, <1>7, <1>8, <1>9 DEF StoreInv

\* The step case of the invariant, statement by statement.
LEMMA StoreNextInv == StoreInv /\ [StoreNext]_storeVars => StoreInv'
<1> SUFFICES ASSUME StoreInv, [StoreNext]_storeVars PROVE StoreInv'
  OBVIOUS
<1>1. ASSUME NEW s \in Sessions, SessionStep(s) PROVE StoreInv'
  <2>1. CASE RefuseRow(s) \/ ReplayReceipt(s) \/ RefuseExtension(s)
    BY <2>1, RollbackInv DEF RefuseRow, ReplayReceipt, RefuseExtension
  <2> QED BY <1>1, <2>1, LockRowInv, LockStreamInv, ReadPreviousInv, LockExtensionInv,
             AdmitInv, WriteInv, CommitInv DEF SessionStep
<1>2. ASSUME NEW s \in Sessions, NEW c \in RowCalls \cup ExtensionCalls, MayBegin(c), Begin(s, c)
      PROVE  StoreInv'
  BY <1>2, BeginInv DEF Calls
<1>3. ASSUME NEW s \in Sessions, Lose(s) PROVE StoreInv'
  BY <1>3, RollbackInv DEF Lose
<1>4. CASE ReplayEvents \/ ReplayLeases \/ ReplayEvaluators \/ ReplayAnswered
  BY <1>4, ReplayInv
<1>5. CASE UNCHANGED storeVars
  <2>1. /\ runRow' = runRow /\ extension' = extension /\ collaboration' = collaboration
        /\ archive' = archive /\ taskLeases' = taskLeases /\ bindings' = bindings
        /\ lock' = lock /\ session' = session /\ replay' = replay /\ UNCHANGED tables
    BY <1>5 DEF storeVars, tables
  <2>2. ASSUME NEW u \in Sessions PROVE InPhase(u)' /\ Checked(u)' /\ Held(u)' = Held(u)
    <3>1. InPhase(u) /\ Checked(u)
      BY DEF StoreInv
    <3>2. Checked(u)'
      BY <3>1, <2>1, ChecksStay DEF Checked, Call, Op, At, ReceiptOf
    <3>3. InPhase(u)' /\ Held(u)' = Held(u)
      BY <3>1, <2>1 DEF InPhase, Held, Call, Op, At
    <3> QED BY <3>2, <3>3
  <2>3. Shapes' /\ StoreAssumption' /\ ReplayShape' /\ (\A r \in extension' : Admitted(r)')
    BY <2>1 DEF StoreInv, Shapes, StoreAssumption, ReplayShape, Admitted
  <2>4. LocksHeld'
    BY <2>1, <2>2 DEF StoreInv, LocksHeld
  <2>5. EventsBounded'
    BY <2>1 DEF StoreInv, EventsBounded, Appending, Op, Call
  <2> QED BY <2>2, <2>3, <2>4, <2>5 DEF StoreInv
<1> QED BY <1>1, <1>2, <1>3, <1>4, <1>5 DEF StoreNext

\* IInv holds in every reachable state.
LEMMA AlwaysInv == StoreAssumption /\ StoreSpec => []StoreInv
BY StoreInitInv, StoreNextInv, PTL DEF StoreSpec

\* Every statement leaves the tables, the locks and the sessions well-formed.
THEOREM StoreTypeCorrect == StoreAssumption /\ StoreSpec => []StoreTypeOK
<1>1. StoreInv => StoreTypeOK
  <2> SUFFICES ASSUME StoreInv PROVE StoreTypeOK
    OBVIOUS
  <2>1. Shapes /\ ReplayShape
    BY DEF StoreInv
  <2>2. \A rows \in {extension, collaboration, archive} :
            \A r \in rows : r.sequence \in Nat /\ r.previous \in Nat
    BY <2>1 DEF Shapes, Numbered, Numbers
  <2>3. \A s \in Sessions : /\ session[s].pc \in Phases
                            /\ Call(s) \in RowCalls \cup ExtensionCalls \cup {NoCall}
                            /\ session[s].previous \in Nat
    BY <2>1 DEF Shapes, Call, Calls
  <2> QED BY <2>1, <2>2, <2>3 DEF Shapes, ReplayShape, StoreTypeOK
<1> QED BY <1>1, AlwaysInv, PTL

\* A replay of the chain's authority returns each admission event with its row, although
\* its three reads are not one snapshot (replay_extension_authority).
THEOREM ReplaysAreComplete == StoreAssumption /\ StoreSpec => []ReplayComplete
<1>1. StoreInv => ReplayComplete
  BY DEF StoreInv, ReplayShape, ReplayComplete
<1> QED BY <1>1, AlwaysInv, PTL

\* Transactions never deadlock: a session that waits for the extension's lock has none, one
\* that waits for the row has at most the extension's, one that waits for a stream has the
\* row, and one that has a stream waits for nothing.
THEOREM TransactionsNeverDeadlock == StoreAssumption /\ StoreSpec => []NoWaitCycle
<1>1. StoreInv => NoWaitCycle
  <2> SUFFICES ASSUME StoreInv PROVE NoWaitCycle
    OBVIOUS
  <2> SUFFICES ASSUME NEW S \in (SUBSET Sessions) \ {{}},
                      \A s \in S : \E t \in S : WaitsFor(s, t)
               PROVE  FALSE
    BY DEF NoWaitCycle
  <2>1. ASSUME NEW s \in S, NEW t \in S, WaitsFor(s, t)
        PROVE  /\ Wanted(s) \in Resources /\ Wanted(s) \in Held(t)
               /\ Wanted(s) \in StreamOps \cup {"row", "extension"}
    <3>1. Wanted(s) \in Resources /\ lock[Wanted(s)] = t
      BY <2>1 DEF WaitsFor
    <3> QED BY <3>1 DEF StoreInv, LocksHeld, Resources, StreamOps
  <2>2. ASSUME NEW t \in S, NEW q \in StreamOps, q \in Held(t) PROVE Wanted(t) \notin Resources
    <3>1. session[t].pc \in {"previous", "commit"}
      BY <2>2 DEF Held, At, StreamOps
    <3> QED BY <3>1 DEF Wanted, At, Resources
  <2>3. ASSUME NEW t \in S, "row" \in Held(t)
        PROVE  Wanted(t) \in StreamOps \/ Wanted(t) \notin Resources
    <3>1. session[t].pc \in {"stream", "previous", "commit"}
      BY <2>3 DEF Held, At
    <3>2. At(t, "stream") => Op(t) \in StreamOps
      BY DEF StoreInv, InPhase, At
    <3> QED BY <3>1, <3>2 DEF Wanted, At, Resources, StreamLock, Op
  <2>4. ASSUME NEW t \in S, "extension" \in Held(t)
        PROVE  Wanted(t) = "row" \/ Wanted(t) \notin Resources
    <3>1. session[t].pc \in {"admit", "write", "commit"}
      <4>1. session[t].pc = "previous" => Op(t) # "extension"
        BY DEF StoreInv, InPhase, StreamOps
      <4> QED BY <2>4, <4>1 DEF Held, At
    <3> QED BY <3>1 DEF Wanted, At, Resources
  <2>5. \A s \in S : Wanted(s) \notin StreamOps
    BY <2>1, <2>2 DEF WaitsFor
  <2>6. \A s \in S : Wanted(s) # "row"
    BY <2>1, <2>3, <2>5 DEF WaitsFor
  <2>7. \A s \in S : Wanted(s) # "extension"
    BY <2>1, <2>4, <2>6 DEF WaitsFor
  <2>8. PICK s \in S : TRUE
    OBVIOUS
  <2>9. PICK t \in S : WaitsFor(s, t)
    OBVIOUS
  <2> QED BY <2>1, <2>5, <2>6, <2>7, <2>9
<1> QED BY <1>1, AlwaysInv, PTL

-----------------------------------------------------------------------------
(* The refinement.                                                         *)

\* A chain read in order of its numbers is a sequence.
LEMMA ChainRead ==
    ASSUME Shapes
    PROVE  /\ Chain \in Seq(Range(Chain)) /\ Len(Chain) = Cardinality(extension)
           /\ Events \in Seq(Range(Events)) /\ Len(Events) = Cardinality(collaboration)
           /\ Ledger!KeysOf(Chain) = {r.key : r \in extension}
<1>1. Cardinality(extension) \in Nat /\ Cardinality(collaboration) \in Nat
  BY FS_CardinalityType DEF Shapes, Numbered
<1>2. /\ DOMAIN Chain = 1..Cardinality(extension)
      /\ Chain \in [1..Cardinality(extension) -> Range(Chain)]
  BY DEF Chain, Numbers, Range
<1>3. /\ DOMAIN Events = 1..Cardinality(collaboration)
      /\ Events \in [1..Cardinality(collaboration) -> Range(Events)]
  BY DEF Events, Numbers, Range
<1>4. Ledger!KeysOf(Chain) = {r.key : r \in extension}
  <2>1. \A n \in Numbers(extension) :
           /\ RowAt(extension, n) \in extension /\ RowAt(extension, n).sequence = n
           /\ Chain[n].key = RowAt(extension, n).key
    BY DEF Shapes, Numbered, RowAt, Chain
  <2>2. \A r \in extension : r.sequence \in Numbers(extension) /\ RowAt(extension, r.sequence) = r
    BY <2>1 DEF Shapes, Numbered
  <2>3. DOMAIN Chain = Numbers(extension)
    BY DEF Chain
  <2> QED BY <2>1, <2>2, <2>3 DEF Ledger!KeysOf
<1> QED BY <1>1, <1>2, <1>3, <1>4, SeqDef

\* A sequence one element longer.
LEMMA SequenceGrows ==
    ASSUME NEW n \in Nat, NEW f, NEW g, NEW e,
           f = [k \in 1..n |-> f[k]], g = [k \in 1..(n + 1) |-> g[k]],
           \A k \in 1..n : g[k] = f[k], g[n + 1] = e
    PROVE  g = Append(f, e) /\ Len(g) = n + 1
<1> DEFINE S == {f[k] : k \in 1..n} \cup {e}
<1>1. f \in Seq(S) /\ Len(f) = n
  <2>1. f \in [1..n -> S]
    BY Zenon
  <2> QED BY <2>1, SeqDef
<1>2. g \in Seq(S) /\ Len(g) = n + 1
  <2>1. \A k \in 1..(n + 1) : g[k] \in S
    <3> SUFFICES ASSUME NEW k \in 1..(n + 1) PROVE g[k] \in S
      OBVIOUS
    <3>1. k \in 1..n \/ k = n + 1
      OBVIOUS
    <3> QED BY <3>1
  <2>2. g \in [1..(n + 1) -> S]
    BY <2>1, Zenon
  <2>3. n + 1 \in Nat
    OBVIOUS
  <2> QED BY <2>2, <2>3, SeqDef
<1>3. /\ Append(f, e) \in Seq(S) /\ Len(Append(f, e)) = n + 1
      /\ \A k \in 1..n : Append(f, e)[k] = f[k]
      /\ Append(f, e)[n + 1] = e
  <2>1. e \in S
    OBVIOUS
  <2> HIDE DEF S
  <2> QED BY <1>1, <2>1, AppendProperties
<1>4. \A k \in 1..(n + 1) : Append(f, e)[k] = g[k]
  <2> SUFFICES ASSUME NEW k \in 1..(n + 1) PROVE Append(f, e)[k] = g[k]
    OBVIOUS
  <2>1. k \in 1..n \/ k = n + 1
    OBVIOUS
  <2> HIDE DEF S
  <2> QED BY <1>3, <2>1, Zenon
<1> HIDE DEF S
<1> QED BY <1>2, <1>3, <1>4, SeqEqual

\* An inserted event is the chain's last.
LEMMA ChainGrows ==
    ASSUME Shapes, NEW r, r.sequence = Cardinality(extension) + 1,
           extension' = extension \cup {r}
    PROVE  /\ Chain' = Append(Chain, [key |-> r.key, payload |-> r.payload, mark |-> r.mark])
           /\ Len(Chain') = Cardinality(extension) + 1
<1> DEFINE n == Cardinality(extension)
<1>1. /\ n \in Nat /\ Numbers(extension) = 1..n /\ Numbers(extension') = 1..(n + 1)
      /\ \A k \in 1..n : RowAt(extension', k) = RowAt(extension, k)
      /\ RowAt(extension', n + 1) = r
  <2>1. Numbered(extension)
    BY DEF Shapes
  <2>2. /\ n \in Nat /\ Cardinality(extension \cup {r}) = n + 1
        /\ \A k \in Numbers(extension) : RowAt(extension \cup {r}, k) = RowAt(extension, k)
        /\ RowAt(extension \cup {r}, n + 1) = r
    BY <2>1, RowAppended
  <2> QED BY <2>2 DEF Numbers
<1>2. Chain = [k \in 1..n |-> Chain[k]] /\ Chain' = [k \in 1..(n + 1) |-> Chain'[k]]
  BY <1>1 DEF Chain
<1>3. \A k \in 1..n : k \in 1..(n + 1)
  BY <1>1
<1>4. \A k \in 1..n : Chain'[k] = Chain[k]
  BY <1>1, <1>3 DEF Chain
<1>5. Chain'[n + 1] = [key |-> r.key, payload |-> r.payload, mark |-> r.mark]
  <2>1. n + 1 \in 1..(n + 1)
    BY <1>1
  <2> QED BY <1>1, <2>1 DEF Chain
<1> HIDE DEF n
<1>6. /\ Chain' = Append(Chain, [key |-> r.key, payload |-> r.payload, mark |-> r.mark])
      /\ Len(Chain') = n + 1
  BY <1>1, <1>2, <1>4, <1>5, SequenceGrows
<1> QED BY <1>6 DEF n

LEMMA EventsGrow ==
    ASSUME Shapes, NEW r, r.sequence = Cardinality(collaboration) + 1,
           collaboration' = collaboration \cup {r}
    PROVE  Events' = Append(Events, r.owner)
<1> DEFINE n == Cardinality(collaboration)
<1>1. /\ n \in Nat /\ Numbers(collaboration) = 1..n /\ Numbers(collaboration') = 1..(n + 1)
      /\ \A k \in 1..n : RowAt(collaboration', k) = RowAt(collaboration, k)
      /\ RowAt(collaboration', n + 1) = r
  <2>1. Numbered(collaboration)
    BY DEF Shapes
  <2>2. /\ n \in Nat /\ Cardinality(collaboration \cup {r}) = n + 1
        /\ \A k \in Numbers(collaboration) : RowAt(collaboration \cup {r}, k) = RowAt(collaboration, k)
        /\ RowAt(collaboration \cup {r}, n + 1) = r
    BY <2>1, RowAppended
  <2> QED BY <2>2 DEF Numbers
<1>2. Events = [k \in 1..n |-> Events[k]] /\ Events' = [k \in 1..(n + 1) |-> Events'[k]]
  BY <1>1 DEF Events
<1>3. \A k \in 1..n : k \in 1..(n + 1)
  BY <1>1
<1>4. \A k \in 1..n : Events'[k] = Events[k]
  BY <1>1, <1>3 DEF Events
<1>5. Events'[n + 1] = r.owner
  <2>1. n + 1 \in 1..(n + 1)
    BY <1>1
  <2> QED BY <1>1, <2>1 DEF Events
<1> HIDE DEF n
<1> QED BY <1>1, <1>2, <1>4, <1>5, SequenceGrows

\* An archived receipt is the only one of its key.
LEMMA ReceiptsGrow ==
    ASSUME NEW r, r.key \in ReceiptKeys, ReceiptOf(r.key) = {}, archive' = archive \cup {r}
    PROVE  /\ Receipts[r.key] = Ledger!NoReceipt
           /\ Receipts' = [Receipts EXCEPT ![r.key] = r.content]
<1>1. \A k \in ReceiptKeys : ReceiptOf(k)' = IF k = r.key THEN {r} ELSE ReceiptOf(k)
  BY DEF ReceiptOf
<1>2. \A k \in ReceiptKeys \ {r.key} : Receipts'[k] = Receipts[k]
  <2> SUFFICES ASSUME NEW k \in ReceiptKeys \ {r.key} PROVE Receipts'[k] = Receipts[k]
    OBVIOUS
  <2>1. ReceiptOf(k)' = ReceiptOf(k)
    BY <1>1
  <2> QED BY <2>1 DEF Receipts
<1>3. Receipts'[r.key] = r.content
  BY <1>1 DEF Receipts
<1>4. DOMAIN Receipts = ReceiptKeys /\ DOMAIN Receipts' = ReceiptKeys
  BY DEF Receipts
<1>5. /\ Receipts = [k \in ReceiptKeys |-> Receipts[k]]
      /\ Receipts' = [k \in ReceiptKeys |-> Receipts'[k]]
  BY DEF Receipts
<1>6. Receipts[r.key] = Ledger!NoReceipt
  BY DEF Receipts, Ledger!NoReceipt
<1> QED BY <1>2, <1>3, <1>4, <1>5, <1>6

\* A table that is not written reads as before.
LEMMA TablesStay ==
    /\ extension' = extension => Chain' = Chain
    /\ collaboration' = collaboration => Events' = Events
    /\ archive' = archive => Receipts' = Receipts
<1>1. extension' = extension => Chain' = Chain
  BY DEF Chain, Numbers, RowAt
<1>2. collaboration' = collaboration => Events' = Events
  BY DEF Events, Numbers, RowAt
<1>3. archive' = archive => Receipts' = Receipts
  BY DEF Receipts, ReceiptOf
<1> QED BY <1>1, <1>2, <1>3

LEMMA InitRefines == StoreAssumption /\ StoreInit => Ledger!Init
<1> SUFFICES ASSUME StoreAssumption, StoreInit PROVE Ledger!Init
  OBVIOUS
<1>1. Shapes /\ Cardinality(extension) = 0 /\ Cardinality(collaboration) = 0
  BY StoreInitInv, FS_EmptySet DEF StoreInv, StoreInit
<1>2. Chain = <<>> /\ Events = <<>>
  <2>1. Chain \in Seq(Range(Chain)) /\ Len(Chain) = 0
    BY <1>1, ChainRead
  <2>2. Events \in Seq(Range(Events)) /\ Len(Events) = 0
    BY <1>1, ChainRead
  <2> QED BY <2>1, <2>2, EmptySeq
<1>3. Receipts = [k \in ReceiptKeys |-> Ledger!NoReceipt]
  BY DEF StoreInit, Receipts, ReceiptOf, Ledger!NoReceipt
<1> QED BY <1>2, <1>3 DEF StoreInit, Ledger!Init

\* A committed row call is the ledger's operation of that name; a renewal is none.
LEMMA RowCommitRefines ==
    ASSUME StoreInv, NEW s \in Sessions, Commit(s), Op(s) \in RowOps, Call(s) \in RowCalls,
           RowAllows(Call(s))
    PROVE  Ledger!Next \/ UNCHANGED Ledger!vars
<1> DEFINE c == Call(s)
<1>1. /\ runRow' = RunAfter(c) /\ extension' = extension /\ Chain' = Chain
      /\ taskLeases' = taskLeases /\ bindings' = bindings
      /\ Op(s) # "event" => Events' = Events
      /\ Op(s) # "receipt" => Receipts' = Receipts
  <2>1. Op(s) \notin AppendOps /\ Op(s) \notin {"lease", "evaluate"}
    BY OpsApart DEF AppendOps
  <2> QED BY <2>1, CommitWrites, TablesStay
<1>2. CASE Op(s) = "create"
  <2>1. runRow.version = 0 /\ runRow' = [runRow EXCEPT !.version = 1]
    BY <1>1, <1>2 DEF RowAllows, CreateAllowed, RunAfter, Op
  <2>2. Ledger!CreateRun
    BY <1>1, <1>2, <2>1 DEF Ledger!CreateRun
  <2> QED BY <2>2 DEF Ledger!Next
<1>3. CASE Op(s) = "claim"
  <2>1. runRow.version > 0 /\ runRow' = [runRow EXCEPT !.owner = c.owner] /\ c.owner \in Owners
    BY <1>1, <1>3, RowCallShape DEF RowAllows, ClaimAllowed, RunAfter, Op
  <2>2. Ledger!ClaimOperation(c.owner)
    BY <1>1, <1>3, <2>1 DEF Ledger!ClaimOperation
  <2> QED BY <2>1, <2>2 DEF Ledger!Next
<1>4. CASE Op(s) = "release"
  <2>1. /\ runRow.version > 0 /\ runRow.owner = c.owner
        /\ runRow' = [runRow EXCEPT !.owner = Ledger!NoOwner] /\ c.owner \in Owners
    BY <1>1, <1>4, RowCallShape DEF RowAllows, ReleaseAllowed, RunAfter, Op
  <2>2. Ledger!ReleaseOperation(c.owner)
    BY <1>1, <1>4, <2>1 DEF Ledger!ReleaseOperation
  <2> QED BY <2>1, <2>2 DEF Ledger!Next
<1>5. CASE Op(s) = "renew"
  <2>1. runRow' = runRow
    BY <1>1, <1>5 DEF RunAfter, Op
  <2> QED BY <1>1, <1>5, <2>1 DEF Ledger!vars
<1>6. CASE Op(s) = "update"
  <2>1. /\ runRow.version = c.version /\ runRow.version > 0 /\ Ledger!AssertUpdateLease(runRow, c.owner)
        /\ runRow' = [runRow EXCEPT !.version = c.version + 1]
    BY <1>1, <1>6 DEF RowAllows, UpdateAllowed, RunAfter, Op
  <2>2. c.owner \in Owners \cup {Ledger!NoOwner} /\ c.version \in 1..(MaxVersion - 1)
    BY <1>6, RowCallShape DEF Op, LeaseOwners
  <2>3. Ledger!UpdateRun(c.owner, c.version)
    BY <1>1, <1>6, <2>1 DEF Ledger!UpdateRun
  <2> QED BY <2>2, <2>3 DEF Ledger!Next
<1>7. CASE Op(s) = "event"
  <2>1. runRow.version > 0 /\ Ledger!AssertUpdateLease(runRow, c.owner) /\ runRow' = runRow
    BY <1>1, <1>7 DEF RowAllows, AppendAllowed, RunAfter, Op
  <2>2. c.owner \in Owners \cup {Ledger!NoOwner}
    BY <1>7, RowCallShape DEF Op, LeaseOwners
  <2>3. Events' = Append(Events, c.owner)
    <3>1. /\ InsertedEvent(s).sequence = Cardinality(collaboration) + 1
          /\ InsertedEvent(s).owner = c.owner
      BY DEF InsertedEvent, NewSequence
    <3>2. Shapes /\ collaboration' = collaboration \cup {InsertedEvent(s)}
      BY <1>7, CommitWrites DEF StoreInv
    <3> QED BY <3>1, <3>2, EventsGrow
  <2>4. Len(Events) < MaxEvents
    <3>1. {s} \subseteq Appending
      BY <1>7 DEF Appending
    <3>2. Cardinality({s}) = 1 /\ Cardinality({s}) <= Cardinality(Appending)
          /\ Cardinality(Appending) \in Nat /\ Cardinality(collaboration) \in Nat
      BY <3>1, FewerAppend, FS_Singleton
    <3>3. Len(Events) = Cardinality(collaboration)
      BY ChainRead DEF StoreInv
    <3> QED BY <3>2, <3>3 DEF StoreInv, EventsBounded, StoreAssumption
  <2>5. Ledger!AppendEvent(c.owner)
    BY <1>1, <1>7, <2>1, <2>3 DEF Ledger!AppendEvent
  <2> QED BY <2>2, <2>4, <2>5 DEF Ledger!Next
<1>8. CASE Op(s) = "receipt"
  <2>1. runRow.version > 0 /\ Ledger!AssertUpdateLease(runRow, c.owner) /\ runRow' = runRow
    BY <1>1, <1>8 DEF RowAllows, ArchiveAllowed, RunAfter, Op
  <2>2. c.owner \in Owners \cup {Ledger!NoOwner} /\ c.key \in ReceiptKeys /\ c.content \in Contents
    BY <1>8, RowCallShape DEF Op, LeaseOwners
  <2>3. /\ Receipts[c.key] = Ledger!NoReceipt
        /\ Receipts' = [Receipts EXCEPT ![c.key] = c.content]
    <3>1. InsertedReceipt(s).key = c.key /\ InsertedReceipt(s).content = c.content
      BY DEF InsertedReceipt
    <3>2. ReceiptOf(c.key) = {} /\ archive' = archive \cup {InsertedReceipt(s)}
      BY <1>8, CommitWrites DEF StoreInv, Checked
    <3> QED BY <2>2, <3>1, <3>2, ReceiptsGrow
  <2>4. Ledger!ArchiveReceipt(c.owner, c.key, c.content)
    BY <1>1, <1>8, <2>1, <2>3 DEF Ledger!ArchiveReceipt
  <2> QED BY <2>2, <2>4 DEF Ledger!Next
<1> HIDE DEF c
<1> QED BY <1>2, <1>3, <1>4, <1>5, <1>6, <1>7, <1>8 DEF RowOps, StreamOps

\* The admission that a call passed and the event it inserts are those of the ledger.
LEMMA AppendRefines ==
    ASSUME StoreInv, NEW s \in Sessions, Commit(s), Op(s) \in AppendOps, AppendAdmits(Call(s))
    PROVE  /\ Ledger!AppendExtensionBytes(Call(s).key, Call(s).payload, MarkOf(Call(s)))
           /\ Len(Chain') = NewSequence(extension)
<1> DEFINE c == Call(s)
<1>1. Shapes /\ extension' = extension \cup {InsertedExtension(s)}
  BY CommitWrites DEF StoreInv
<1>2. /\ InsertedExtension(s).sequence = Cardinality(extension) + 1
      /\ InsertedExtension(s).key = c.key /\ InsertedExtension(s).payload = c.payload
      /\ InsertedExtension(s).mark = MarkOf(c)
  BY DEF InsertedExtension, NewSequence
<1>3. /\ Chain' = Append(Chain, [key |-> c.key, payload |-> c.payload, mark |-> MarkOf(c)])
      /\ Len(Chain') = Cardinality(extension) + 1
  BY <1>1, <1>2, ChainGrows
<1>4. Ledger!Appendable(runRow, Chain, taskLeases, c.key, c.payload, MarkOf(c))
  <2>1. c.key \notin Ledger!KeysOf(Chain)
    BY <1>1, ChainRead DEF AppendAdmits
  <2> QED BY <2>1 DEF AppendAdmits, ValidateAdmission, Ledger!Appendable
<1> QED BY <1>3, <1>4 DEF Ledger!AppendExtensionBytes, NewSequence

\* A committed extension call is the ledger's operation of that name.
LEMMA ExtensionCommitRefines ==
    ASSUME StoreInv, NEW s \in Sessions, Commit(s), Op(s) \in ExtensionOps, Call(s) \in ExtensionCalls,
           Admits(Call(s))
    PROVE  Ledger!Next
<1> DEFINE c == Call(s)
<1>1. runRow' = RunAfter(c) /\ Events' = Events /\ Receipts' = Receipts
  <2>1. Op(s) \notin {"event", "receipt"}
    BY DEF ExtensionOps, AppendOps
  <2> QED BY <2>1, CommitWrites, TablesStay
<1>2. CASE Op(s) = "bind"
  <2>1. /\ runRow.version > 0 /\ runRow.binding = Ledger!NoBinding
        /\ runRow' = [runRow EXCEPT !.binding = c.binding] /\ c.binding \in StoreBindings
    BY <1>1, <1>2, ExtensionCallShape DEF Admits, BindAdmits, RunAfter, Op
  <2>2. Chain' = Chain /\ taskLeases' = taskLeases /\ bindings' = bindings
    <3>1. Op(s) \notin AppendOps
      BY <1>2 DEF AppendOps
    <3> QED BY <1>2, <3>1, CommitWrites, TablesStay
  <2>3. Ledger!BindCampaign(c.binding)
    BY <1>1, <2>1, <2>2 DEF Ledger!BindCampaign
  <2> QED BY <2>1, <2>3 DEF Ledger!Next
<1>3. Op(s) \in AppendOps => c.key \in StoreKeys /\ c.payload \in StorePayloads /\ runRow' = runRow
  BY <1>1, ExtensionCallShape DEF Op, RunAfter, AppendOps
<1>4. CASE Op(s) = "append"
  <2>1. AppendAdmits(c) /\ MarkOf(c) = c.mark /\ Op(s) \in AppendOps
    BY <1>4 DEF Admits, MarkOf, Op, AppendOps
  <2>2. c.payload.type \in Ledger!EventModels /\ c.mark \in StoreMarks
    BY <1>4, ExtensionCallShape DEF Op
  <2>3. taskLeases' = taskLeases /\ bindings' = bindings
    BY <1>4, CommitWrites
  <2>4. Ledger!AppendExtensionBytes(c.key, c.payload, c.mark)
    BY <2>1, AppendRefines
  <2>5. Ledger!AppendExtensionEvent(c.key, c.payload, c.mark)
    BY <1>1, <1>3, <2>1, <2>2, <2>3, <2>4 DEF Ledger!AppendExtensionEvent
  <2> QED BY <1>3, <2>1, <2>2, <2>5 DEF Ledger!Next
<1>5. CASE Op(s) = "lease"
  <2>1. /\ AppendAdmits(c) /\ MarkOf(c) = c.payload.watermark /\ Op(s) \in AppendOps
        /\ runRow.binding # Ledger!NoBinding /\ Ledger!AssertLeaseBinding(runRow.binding, c.payload)
        /\ taskLeases[c.payload.task] = Ledger!NoRow
    BY <1>5 DEF Admits, LeaseAdmits, MarkOf, Op, AppendOps
  <2>2. c.payload.type = Ledger!LeaseAdmission
    BY <1>5, ExtensionCallShape DEF Op
  <2>3. /\ Ledger!AppendExtensionBytes(c.key, c.payload, c.payload.watermark)
        /\ Len(Chain') = NewSequence(extension)
    BY <2>1, AppendRefines
  <2>4. /\ taskLeases' = [taskLeases EXCEPT ![c.payload.task] = Len(Chain')]
        /\ bindings' = bindings
    BY <1>5, <2>3, CommitWrites DEF InsertedLease
  <2>5. Ledger!StoreSignedTaskLease(c.key, c.payload)
    BY <1>1, <1>3, <2>1, <2>2, <2>3, <2>4 DEF Ledger!StoreSignedTaskLease
  <2> QED BY <1>3, <2>1, <2>5 DEF Ledger!Next
<1>6. CASE Op(s) = "evaluate"
  <2>1. /\ AppendAdmits(c) /\ MarkOf(c) = runRow.binding.watermark /\ Op(s) \in AppendOps
        /\ Ledger!RequireTaskLease(taskLeases, c.payload.task)
        /\ bindings[c.id] = Ledger!NoEvaluation
    BY <1>6 DEF Admits, EvaluateAdmits, MarkOf, Op, AppendOps
  <2>2. c.payload.type = Ledger!EvaluatorAdmission /\ c.id \in StoreBindingIds
    BY <1>6, ExtensionCallShape DEF Op
  <2>3. /\ Ledger!AppendExtensionBytes(c.key, c.payload, runRow.binding.watermark)
        /\ Len(Chain') = NewSequence(extension)
    BY <2>1, AppendRefines
  <2>4. /\ bindings' = [bindings EXCEPT ![c.id] = [task |-> c.payload.task,
                                                       sequence |-> Len(Chain')]]
        /\ taskLeases' = taskLeases
    BY <1>6, <2>3, CommitWrites DEF InsertedEvaluation
  <2>5. Ledger!BindSealedEvaluation(c.key, c.id, c.payload)
    BY <1>1, <1>3, <2>1, <2>2, <2>3, <2>4 DEF Ledger!BindSealedEvaluation
  <2> QED BY <1>3, <2>1, <2>2, <2>5 DEF Ledger!Next
<1> HIDE DEF c
<1> QED BY <1>2, <1>4, <1>5, <1>6 DEF ExtensionOps, AppendOps

\* Every step is one of the ledger's or changes nothing of it.
LEMMA StepRefines == StoreInv /\ [StoreNext]_storeVars => [Ledger!Next]_(Ledger!vars)
<1> SUFFICES ASSUME StoreInv, [StoreNext]_storeVars PROVE Ledger!Next \/ UNCHANGED Ledger!vars
  OBVIOUS
<1>1. ASSUME UNCHANGED tables PROVE UNCHANGED Ledger!vars
  BY <1>1, TablesStay DEF tables, Ledger!vars
<1>2. ASSUME NEW s \in Sessions, Commit(s) PROVE Ledger!Next \/ UNCHANGED Ledger!vars
  BY <1>2, CommitWrites, CommitAlone, RowCommitRefines, ExtensionCommitRefines
<1>3. ASSUME NEW s \in Sessions, SessionStep(s), ~ Commit(s) PROVE UNCHANGED tables
  BY <1>3 DEF SessionStep, LockRow, RefuseRow, LockStream, ReadPrevious, ReplayReceipt,
              LockExtension, Admit, RefuseExtension, Write, Rollback
<1>4. ASSUME NEW s \in Sessions, NEW c, Begin(s, c) PROVE UNCHANGED tables
  BY <1>4 DEF Begin
<1>5. ASSUME NEW s \in Sessions, Lose(s) PROVE UNCHANGED tables
  BY <1>5 DEF Lose, Rollback
<1>6. ASSUME ReplayEvents \/ ReplayLeases \/ ReplayEvaluators \/ ReplayAnswered
      PROVE  UNCHANGED tables
  BY <1>6 DEF ReplayEvents, ReplayLeases, ReplayEvaluators, ReplayAnswered
<1>7. CASE StoreNext
  BY <1>1, <1>2, <1>3, <1>4, <1>5, <1>6, <1>7 DEF StoreNext
<1>8. CASE UNCHANGED storeVars
  <2>1. UNCHANGED tables
    BY <1>8 DEF storeVars
  <2> QED BY <1>1, <2>1
<1> QED BY <1>7, <1>8

\* The committed tables of the PostgreSQL store, read through the mapping, only move as one
\* atomic operation of BridgeLedger moves them, for any processes and lost connections.
THEOREM StoreImplementsLedger == StoreAssumption /\ StoreSpec => ImplementsLedger
BY InitRefines, AlwaysInv, StepRefines, PTL DEF StoreSpec, ImplementsLedger, Ledger!Spec

-----------------------------------------------------------------------------
(* The store a process has chosen keeps its rules, the other stays as it is. *)

LEMMA EachStore == StoresSpec => Spec /\ StoreSpec
<1>1. StoresInit => Init /\ StoreInit
  BY DEF StoresInit
<1>2. [StoresNext]_storesVars => [Next]_vars /\ [StoreNext]_storeVars
  BY DEF StoresNext, storesVars
<1> QED BY <1>1, <1>2, PTL DEF StoresSpec, Spec, StoreSpec

\* Whichever store is in use, types hold, a replay has the row of every admission event it
\* returns, and no transactions wait for each other in a circle (build_bridge_store,
\* replay_extension_authority and the locks of PostgresBridgeStore's calls).
THEOREM StoresKeepTheirRules == StoreAssumption /\ StoresSpec => []StoreRules
<1>1. TypeOK /\ StoreTypeOK /\ ReplayComplete /\ NoWaitCycle => StoreRules
  BY DEF StoreRules
<1> QED BY <1>1, EachStore, BridgeLedgerTypeCorrect, StoreTypeCorrect, ReplaysAreComplete,
           TransactionsNeverDeadlock, PTL
==============================================================================
