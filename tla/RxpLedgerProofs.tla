---------------------------- MODULE RxpLedgerProofs ---------------------------
(***************************************************************************)
(* A Grant of RXP/1 backs one execution, a Decision is justified, and an   *)
(* auditor accepts every snapshot, for any number of processes, matrices,  *)
(* cells and documents.                                                    *)
(***************************************************************************)
EXTENDS RxpVerifier, SequenceTheorems, WellFoundedInduction, TLAPS

AfterReceipt == {"RECEIPT_RECORDED", "EVIDENCE_READY", "DECIDED"}

\* What a cell holds in its state.
CellShape(cell) ==
    /\ cell.state # "ABSENT" => cell.intent # NoDoc
    /\ cell.receipt # NoDoc <=> cell.state \in AfterReceipt

\* A Receipt that is being appended belongs to a granted cell.
WritingShape(l) ==
    writing[l] # NoDoc => /\ up[l]
                          /\ cells[l][writing[l].cell].state = "GRANTED"

\* GrantSpentOnce holds because the registry knows the Grant of every execution
\* before the ledger does.
IInv ==
    /\ TypeOK
    /\ \A l \in Ledgers, c \in Cells : CellShape(cells[l][c])
    /\ \A l \in Ledgers : WritingShape(l)
    /\ \A l \in Ledgers, c \in Cells : Executed(l, c) => cells[l][c].grant.id \in consumed
    /\ GrantSpentOnce

\* An entry that _append makes of typed parts keeps the ledgers typed.
LEMMA AppendType ==
    ASSUME entries \in [Ledgers -> Seq(Entries)],
           NEW l \in Ledgers, NEW e \in Entries,
           entries' = [entries EXCEPT ![l] = Append(@, e)]
    PROVE  entries' \in [Ledgers -> Seq(Entries)]
<1>1. entries[l] \in Seq(Entries)
  OBVIOUS
<1>2. Append(entries[l], e) \in Seq(Entries)
  BY <1>1, AppendProperties
<1> QED BY <1>2

\* A ledger starts with the frozen plan.
LEMMA InitInv == Init => IInv
<1> SUFFICES ASSUME Init PROVE IInv
  OBVIOUS
<1>1. Frozen \in Entries
  BY DEF Frozen, Entries, Documents
<1>2. <<Frozen>> \in Seq(Entries)
  BY <1>1
<1>3. AbsentCell \in CellRecords
  BY DEF AbsentCell, CellRecords, States
<1>4. TypeOK
  BY <1>2, <1>3 DEF Init, TypeOK
<1>5. \A l \in Ledgers, c \in Cells : cells[l][c] = AbsentCell /\ writing[l] = NoDoc
  BY DEF Init
<1>6. \A l \in Ledgers, c \in Cells : CellShape(cells[l][c]) /\ ~Executed(l, c)
  BY <1>5 DEF CellShape, Executed, AbsentCell, AfterReceipt
<1>7. \A l \in Ledgers : WritingShape(l)
  BY DEF Init, WritingShape
<1> QED BY <1>4, <1>6, <1>7 DEF IInv, GrantSpentOnce

\* A step on one cell that neither starts an execution nor changes the Grant of one
\* keeps the properties of Grants.
LEMMA SameExecutions ==
    ASSUME IInv,
           \A l \in Ledgers, c \in Cells :
               Executed(l, c)' => /\ Executed(l, c)
                                  /\ cells'[l][c].grant = cells[l][c].grant,
           consumed \subseteq consumed'
    PROVE  /\ \A l \in Ledgers, c \in Cells :
                  Executed(l, c)' => cells'[l][c].grant.id \in consumed'
           /\ GrantSpentOnce'
<1>1. \A l \in Ledgers, c \in Cells :
         Executed(l, c)' => cells'[l][c].grant.id \in consumed'
  BY DEF IInv
<1>2. GrantSpentOnce'
  <2> SUFFICES ASSUME NEW k \in Ledgers, NEW l \in Ledgers, NEW c \in Cells, NEW d \in Cells,
                      Executed(k, c)', Executed(l, d)',
                      cells'[k][c].grant.id = cells'[l][d].grant.id
               PROVE  k = l /\ c = d
    BY DEF GrantSpentOnce
  <2>1. /\ Executed(k, c) /\ Executed(l, d)
        /\ cells[k][c].grant.id = cells[l][d].grant.id
    OBVIOUS
  <2> QED BY <2>1 DEF IInv, GrantSpentOnce
<1> QED BY <1>1, <1>2

\* A write to one cell.
LEMMA CellWrite ==
    ASSUME TypeOK, NEW l \in Ledgers, NEW c \in Cells, NEW new \in CellRecords,
           cells' = [cells EXCEPT ![l] = [@ EXCEPT ![c] = new]]
    PROVE  /\ cells' \in [Ledgers -> [Cells -> CellRecords]]
           /\ cells'[l][c] = new
           /\ \A k \in Ledgers, d \in Cells : (k # l \/ d # c) => cells'[k][d] = cells[k][d]
BY DEF TypeOK

\* record_intent, record_grant, record_evidence and record_decision: a free ledger
\* appends an entry and moves one cell, without a new Receipt.
LEMMA CellStep ==
    ASSUME IInv, NEW l \in Ledgers, NEW c \in Cells, NEW new \in CellRecords,
           NEW e \in Entries,
           Free(l),
           cells' = [cells EXCEPT ![l] = [@ EXCEPT ![c] = new]],
           entries' = [entries EXCEPT ![l] = Append(@, e)],
           UNCHANGED <<writing, up, issued, consumed>>,
           CellShape(new),
           new.receipt = cells[l][c].receipt,
           new.receipt # NoDoc => new.grant = cells[l][c].grant
    PROVE  IInv'
<1>1. TypeOK
  BY DEF IInv
<1>2. /\ cells' \in [Ledgers -> [Cells -> CellRecords]]
      /\ cells'[l][c] = new
      /\ \A k \in Ledgers, d \in Cells : (k # l \/ d # c) => cells'[k][d] = cells[k][d]
  BY <1>1, CellWrite
<1>3. entries' \in [Ledgers -> Seq(Entries)]
  BY <1>1, AppendType DEF TypeOK
<1>4. TypeOK'
  BY <1>1, <1>2, <1>3 DEF TypeOK
<1>5. \A k \in Ledgers, d \in Cells : CellShape(cells'[k][d])
  BY <1>2 DEF IInv
<1>6. ASSUME NEW k \in Ledgers PROVE WritingShape(k)'
  <2>1. WritingShape(k)
    BY DEF IInv
  <2>2. CASE k = l
    BY <2>2 DEF Free, WritingShape
  <2>3. CASE k # l
    <3>1. cells'[k] = cells[k]
      BY <2>3, <1>1 DEF TypeOK
    <3> QED BY <2>1, <3>1 DEF WritingShape
  <2> QED BY <2>2, <2>3
<1>7. ASSUME NEW k \in Ledgers, NEW d \in Cells, Executed(k, d)'
      PROVE  Executed(k, d) /\ cells'[k][d].grant = cells[k][d].grant
  <2>1. CASE k = l /\ d = c
    BY <1>2, <1>7, <2>1 DEF Executed, Free
  <2>2. CASE k # l \/ d # c
    BY <1>2, <1>7, <2>2 DEF Executed
  <2> QED BY <2>1, <2>2
<1>8. /\ \A k \in Ledgers, d \in Cells : Executed(k, d)' => cells'[k][d].grant.id \in consumed'
      /\ GrantSpentOnce'
  BY <1>7, SameExecutions
<1> QED BY <1>4, <1>5, <1>6, <1>8 DEF IInv

-----------------------------------------------------------------------------
(* Decisions.  A cell stands for the entries about it, in both directions,   *)
(* and each document of a cell agrees with those before it.                  *)

One(doc) == IF doc = NoDoc THEN {} ELSE {doc}

\* The documents of one kind that a cell holds.
Held(cell, kind) ==
    CASE kind = "Intent" -> One(cell.intent)
      [] kind = "Grant" -> One(cell.grant)
      [] kind = "Receipt" -> One(cell.receipt)
      [] kind = "Evidence" -> cell.evidence
      [] kind = "Decision" -> IF cell.state = "DECIDED" THEN {cell.decision} ELSE {}

HeldKinds == {"Intent", "Grant", "Receipt", "Evidence", "Decision"}

\* Entry e brings its document to the cell that was old and is new.
Brings(e, old, new) ==
    \A kind \in HeldKinds :
        Held(new, kind) = IF kind = e.kind THEN Held(old, kind) \cup {e.doc} ELSE Held(old, kind)

LedgerShows(l, c) == \A kind \in HeldKinds : EntriesOf(l, c, kind) = Held(cells[l][c], kind)

\* Receipt r is of a cell with Grant g and Intent i.
ReceiptOf(r, g, i) == r.grant = g /\ r.intent = i /\ ValidReceipt(r, g, i)

CellHistory(cell) ==
    /\ cell.state = "ABSENT" => cell.intent = NoDoc
    /\ cell.state \in {"ABSENT", "INTENT_RECORDED"} => cell.grant = NoDoc
    /\ cell.grant # NoDoc => cell.grant \in issued /\ cell.grant.intent = cell.intent
    /\ cell.receipt # NoDoc => ReceiptOf(cell.receipt, cell.grant, cell.intent)
    /\ cell.state = "DECIDED" =>
          /\ cell.decision.evidence = cell.evidence /\ GatePasses(cell.evidence)
          /\ cell.decision.receipt = cell.receipt /\ cell.receipt.outcome = "SUCCEEDED"
          /\ cell.decision.intent = cell.intent

WritingHistory(l) ==
    writing[l] # NoDoc =>
        LET cell == cells[l][writing[l].cell]
        IN  ReceiptOf(writing[l], cell.grant, cell.intent)

History ==
    /\ \A l \in Ledgers, c \in Cells : LedgerShows(l, c) /\ CellHistory(cells[l][c])
    /\ \A l \in Ledgers : WritingHistory(l)

\* What the cells hold justifies the Decisions of the entries.
LEMMA HistoryJustifies == IInv /\ History => DecisionJustified
<1> SUFFICES ASSUME IInv, History, NEW l \in Ledgers, NEW c \in Cells,
                    NEW d \in EntriesOf(l, c, "Decision")
             PROVE  /\ EntriesOf(l, c, "Decision") = {d}
                    /\ d.evidence = EntriesOf(l, c, "Evidence")
                    /\ GatePasses(d.evidence)
                    /\ EntriesOf(l, c, "Receipt") = {d.receipt}
                    /\ d.receipt.outcome = "SUCCEEDED"
                    /\ \E g \in EntriesOf(l, c, "Grant") \cap issued :
                          /\ g = d.receipt.grant /\ g.intent = d.intent
                          /\ d.receipt.started < g.expires
                          /\ d.receipt.usage <= g.bounds
                          /\ d.receipt.determinism >= d.intent.determinism
  BY DEF DecisionJustified
<1> DEFINE cell == cells[l][c]
<1>1. /\ EntriesOf(l, c, "Grant") = One(cell.grant)
      /\ EntriesOf(l, c, "Receipt") = One(cell.receipt)
      /\ EntriesOf(l, c, "Evidence") = cell.evidence
      /\ EntriesOf(l, c, "Decision") = IF cell.state = "DECIDED" THEN {cell.decision} ELSE {}
  BY DEF History, LedgerShows, HeldKinds, Held
<1>2. CellHistory(cell) /\ CellShape(cell) /\ cell \in CellRecords
  BY DEF History, IInv, TypeOK
<1> HIDE DEF cell
<1>3. d = cell.decision /\ cell.state = "DECIDED"
  BY <1>1
<1>4. cell.receipt # NoDoc /\ cell.receipt \in Receipts
  BY <1>2, <1>3 DEF CellHistory, CellShape, AfterReceipt, CellRecords
<1>5. ReceiptOf(cell.receipt, cell.grant, cell.intent)
  BY <1>2, <1>4 DEF CellHistory
<1>6. cell.grant # NoDoc
  BY <1>4, <1>5, ConstantsAssumption DEF ReceiptOf
<1>7. cell.grant \in issued /\ cell.grant.intent = cell.intent
  BY <1>2, <1>6 DEF CellHistory
<1>8. /\ d.evidence = cell.evidence /\ GatePasses(d.evidence)
      /\ d.receipt = cell.receipt /\ cell.receipt.outcome = "SUCCEEDED"
      /\ d.intent = cell.intent
  BY <1>2, <1>3 DEF CellHistory
<1>9. /\ EntriesOf(l, c, "Decision") = {d}
      /\ EntriesOf(l, c, "Receipt") = {d.receipt}
      /\ EntriesOf(l, c, "Grant") = {cell.grant}
  BY <1>1, <1>3, <1>4, <1>6, <1>8 DEF One
<1>10. /\ cell.grant = d.receipt.grant /\ cell.grant.intent = d.intent
       /\ d.receipt.started < cell.grant.expires
       /\ d.receipt.usage <= cell.grant.bounds
       /\ d.receipt.determinism >= d.intent.determinism
  BY <1>5, <1>7, <1>8 DEF ReceiptOf, ValidReceipt
<1> QED BY <1>1, <1>7, <1>8, <1>9, <1>10

\* A ledger starts without entries about its cells.
LEMMA InitHistory == Init => History
<1> SUFFICES ASSUME Init PROVE History
  OBVIOUS
<1>1. ASSUME NEW l \in Ledgers, NEW c \in Cells
      PROVE  LedgerShows(l, c) /\ CellHistory(cells[l][c])
  <2>1. cells[l][c] = AbsentCell /\ entries[l] = <<Frozen>>
    BY DEF Init
  <2>2. \A kind \in HeldKinds : EntriesOf(l, c, kind) = {}
    BY <2>1 DEF EntriesOf, Frozen, HeldKinds
  <2>3. \A kind \in HeldKinds : Held(AbsentCell, kind) = {}
    BY DEF Held, HeldKinds, One, AbsentCell
  <2> QED BY <2>1, <2>2, <2>3 DEF LedgerShows, CellHistory, AbsentCell
<1>2. \A l \in Ledgers : WritingHistory(l)
  BY DEF Init, WritingHistory
<1> QED BY <1>1, <1>2 DEF History

\* The history of a cell is about its entries and its documents only.
LEMMA ShowsKept ==
    ASSUME entries' = entries, cells' = cells, NEW l \in Ledgers, NEW c \in Cells,
           LedgerShows(l, c)
    PROVE  LedgerShows(l, c)'
<1>1. \A kind \in HeldKinds : EntriesOf(l, c, kind)' = EntriesOf(l, c, kind)
  BY DEF EntriesOf
<1>2. \A kind \in HeldKinds : EntriesOf(l, c, kind)' = Held(cells'[l][c], kind)
  BY <1>1 DEF LedgerShows
<1> QED BY <1>2 DEF LedgerShows, Held, One

\* _append adds one document, of one kind, to one cell of one ledger.
LEMMA AppendedEntry ==
    ASSUME TypeOK, NEW l \in Ledgers, NEW e \in Entries,
           entries' = [entries EXCEPT ![l] = Append(@, e)]
    PROVE  \A k \in Ledgers, c \in Cells, kind \in HeldKinds :
               EntriesOf(k, c, kind)' =
                   IF k = l /\ e.cell = c /\ e.kind = kind
                      THEN EntriesOf(k, c, kind) \cup {e.doc}
                      ELSE EntriesOf(k, c, kind)
<1> SUFFICES ASSUME NEW k \in Ledgers, NEW c \in Cells, NEW kind \in HeldKinds
             PROVE  EntriesOf(k, c, kind)' =
                        IF k = l /\ e.cell = c /\ e.kind = kind
                           THEN EntriesOf(k, c, kind) \cup {e.doc}
                           ELSE EntriesOf(k, c, kind)
  OBVIOUS
<1>1. CASE k # l
  <2>1. entries'[k] = entries[k]
    BY <1>1 DEF TypeOK
  <2> QED BY <1>1, <2>1 DEF EntriesOf
<1>2. CASE k = l
  <2> DEFINE s == entries[l]
             n == Len(s)
             old == {m \in 1..n : s[m].kind = kind /\ s[m].cell = c}
             now == {m \in 1..(n + 1) : entries'[l][m].kind = kind /\ entries'[l][m].cell = c}
  <2>1. s \in Seq(Entries) /\ n \in Nat
    BY LenProperties DEF TypeOK
  <2>2. entries'[l] = Append(s, e)
    BY DEF TypeOK
  <2>3. /\ Len(entries'[l]) = n + 1
        /\ \A m \in 1..n : entries'[l][m] = s[m]
        /\ entries'[l][n + 1] = e
    BY <2>1, <2>2, AppendProperties
  <2>4. EntriesOf(k, c, kind) = {s[m].doc : m \in old}
    BY <1>2 DEF EntriesOf
  <2>5. EntriesOf(k, c, kind)' = {entries'[l][m].doc : m \in now}
    BY <1>2, <2>3 DEF EntriesOf
  <2> HIDE DEF s, n
  <2>6. 1..(n + 1) = (1..n) \cup {n + 1} /\ n + 1 \notin 1..n
    BY <2>1
  <2>7. now = IF e.cell = c /\ e.kind = kind THEN old \cup {n + 1} ELSE old
    BY <2>3, <2>6
  <2>8. {entries'[l][m].doc : m \in old} = {s[m].doc : m \in old}
    BY <2>3
  <2>9. {entries'[l][m].doc : m \in old \cup {n + 1}} =
            {entries'[l][m].doc : m \in old} \cup {e.doc}
    BY <2>3
  <2> HIDE DEF old, now
  <2> QED BY <1>2, <2>4, <2>5, <2>7, <2>8, <2>9
<1> QED BY <1>1, <1>2

\* A step that appends an entry about one cell, and writes its document to that cell,
\* keeps the history of all cells.
LEMMA HistoryStep ==
    ASSUME IInv, History, NEW l \in Ledgers, NEW c \in Cells, NEW new \in CellRecords,
           NEW e \in Entries, e.cell = c,
           cells' = [cells EXCEPT ![l] = [@ EXCEPT ![c] = new]],
           entries' = [entries EXCEPT ![l] = Append(@, e)],
           issued' = issued,
           writing'[l] = NoDoc,
           \A k \in Ledgers : k # l => writing'[k] = writing[k],
           CellHistory(new),
           Brings(e, cells[l][c], new)
    PROVE  History'
<1>1. TypeOK
  BY DEF IInv
<1>2. /\ cells' \in [Ledgers -> [Cells -> CellRecords]]
      /\ cells'[l][c] = new
      /\ \A k \in Ledgers, d \in Cells : (k # l \/ d # c) => cells'[k][d] = cells[k][d]
  <2>1. cells' = [cells EXCEPT ![l] = [@ EXCEPT ![c] = new]]
    OBVIOUS
  <2> QED BY ONLY <1>1, <2>1, CellWrite, l \in Ledgers, c \in Cells, new \in CellRecords
<1>0. \A k \in Ledgers, d \in Cells, kind \in HeldKinds :
         EntriesOf(k, d, kind)' =
             IF k = l /\ e.cell = d /\ e.kind = kind
                THEN EntriesOf(k, d, kind) \cup {e.doc}
                ELSE EntriesOf(k, d, kind)
  BY <1>1, AppendedEntry
<1>3. ASSUME NEW k \in Ledgers, NEW d \in Cells
      PROVE  LedgerShows(k, d)' /\ CellHistory(cells[k][d])'
  <2>1. LedgerShows(k, d) /\ CellHistory(cells[k][d])
    BY DEF History
  <2>2. CASE k = l /\ d = c
    <3>1. \A kind \in HeldKinds : EntriesOf(k, d, kind)' = Held(new, kind)
      BY <1>0, <2>1, <2>2 DEF LedgerShows, Brings
    <3>2. LedgerShows(k, d)'
      BY <1>2, <2>2, <3>1 DEF LedgerShows, Held, One
    <3> QED BY <1>2, <2>2, <3>2 DEF CellHistory
  <2>3. CASE k # l \/ d # c
    <3>1. \A kind \in HeldKinds : EntriesOf(k, d, kind)' = EntriesOf(k, d, kind)
      BY <1>0, <2>3
    <3>2. cells'[k][d] = cells[k][d]
      BY <1>2, <2>3
    <3>3. \A kind \in HeldKinds : EntriesOf(k, d, kind)' = Held(cells'[k][d], kind)
      BY <2>1, <3>1, <3>2 DEF LedgerShows
    <3>4. LedgerShows(k, d)'
      BY <3>3 DEF LedgerShows, Held, One
    <3> QED BY <2>1, <3>2, <3>4 DEF CellHistory
  <2> QED BY <2>2, <2>3
<1>4. ASSUME NEW k \in Ledgers PROVE WritingHistory(k)'
  <2>1. CASE k = l
    BY <2>1 DEF WritingHistory
  <2>2. CASE k # l
    <3>1. cells'[k] = cells[k] /\ writing'[k] = writing[k]
      BY <1>1, <2>2 DEF TypeOK
    <3> QED BY <3>1 DEF History, WritingHistory, ReceiptOf, ValidReceipt
  <2> QED BY <2>1, <2>2
<1> QED BY <1>3, <1>4 DEF History

-----------------------------------------------------------------------------
(* Induction over the natural numbers.                                     *)

\* A set of numbers that has an element has a least one.
LEMMA LeastElement ==
  ASSUME NEW T, T \subseteq Nat, T # {}
  PROVE  \E x \in T : \A y \in T : x =< y
<1>1. PICK x \in T : \A y \in T : ~ (<<y, x>> \in OpToRel(<,Nat))
  <2>1. \E x \in T : \A y \in T : ~ (<<y, x>> \in OpToRel(<,Nat))
    BY WFMin, NatLessThanWellFounded
  <2> QED BY <2>1
<1>2. ASSUME NEW y \in T, y < x PROVE FALSE
  <2>1. <<y,x>> \in OpToRel(<,Nat)
    BY <1>2 DEF OpToRel
  <2> QED BY <2>1, <1>1
<1>3. \A y \in T : ~ (y < x)
  BY <1>2
<1>4. \A y \in T : x =< y
  BY <1>3
<1> QED BY <1>4

\* Induction, with the induction hypothesis as a set.
LEMMA SetInduction ==
  ASSUME NEW S, 0 \in S, \A n \in Nat : n \in S => n+1 \in S
  PROVE  Nat \subseteq S
<1> DEFINE T == Nat \ S
<1>1. SUFFICES ASSUME T # {} PROVE FALSE
  OBVIOUS
<1>2. PICK x \in T : \A y \in T : x =< y
  BY <1>1, LeastElement
<1>3. x \in Nat /\ x # 0
  BY <1>2
<1>4. x-1 \in Nat /\ x-1 \notin T
  BY <1>2, <1>3
<1>5. (x-1)+1 \in S
  BY <1>4
<1> QED BY <1>2, <1>3, <1>5

-----------------------------------------------------------------------------
(* Totals and replay.                                                      *)

-----------------------------------------------------------------------------
(* The auditor's replay is a recursive function over the entries.          *)

Started(es) == [NothingRead EXCEPT !.ok = (es[1] = Frozen)]

\* The reading of the first n entries.
Reading(es, n, f) ==
    f = [i \in 1 .. n |-> IF i = 1 THEN Started(es) ELSE Read(f[i - 1], es[i])]

\* The auditor's loop reads any number of entries.
LEMMA ReadingExists ==
  ASSUME NEW es, NEW n \in Nat
  PROVE  \E f : Reading(es, n, f)
<1> DEFINE S == {m \in Nat : \E f : Reading(es, m, f)}
<1>1. 0 \in S
  <2>1. Reading(es, 0, [i \in 1 .. 0 |-> Started(es)])
    BY DEF Reading
  <2> QED BY <2>1
<1>2. ASSUME NEW m \in Nat, m \in S PROVE m + 1 \in S
  <2>1. PICK f : Reading(es, m, f)
    BY <1>2
  <2> DEFINE last == IF m + 1 = 1 THEN Started(es) ELSE Read(f[m], es[m + 1])
             g == [i \in 1 .. m + 1 |-> IF i = m + 1 THEN last ELSE f[i]]
  <2>2. \A i \in 1 .. m : i # 1 => i - 1 \in 1 .. m
    OBVIOUS
  <2>3. \A i \in 1 .. m : g[i] = f[i] /\ f[i] = IF i = 1 THEN Started(es) ELSE Read(f[i - 1], es[i])
    BY <2>1 DEF Reading
  <2>4. g[m + 1] = last /\ (m # 0 => f[m] = g[m])
    OBVIOUS
  <2>5. \A i \in 1 .. m + 1 : g[i] = IF i = 1 THEN Started(es) ELSE Read(g[i - 1], es[i])
    <3> TAKE i \in 1 .. m + 1
    <3>1. CASE i = m + 1
      <4>1. CASE m = 0 BY <3>1, <4>1, <2>4
      <4>2. CASE m # 0 BY <3>1, <4>2, <2>4
      <4> QED BY <4>1, <4>2
    <3>2. CASE i # m + 1
      <4>1. i \in 1 .. m BY <3>2
      <4>2. CASE i = 1 BY <4>1, <4>2, <2>3
      <4>3. CASE i # 1
        <5>1. g[i - 1] = f[i - 1] BY <4>1, <4>3, <2>2, <2>3
        <5>2. g[i] = f[i] /\ f[i] = Read(f[i - 1], es[i]) BY <4>1, <4>3, <2>3
        <5> HIDE DEF g
        <5> QED BY <5>1, <5>2, <4>3
      <4> QED BY <4>2, <4>3
    <3> QED BY <3>1, <3>2
  <2>6. g = [i \in 1 .. m + 1 |-> g[i]]
    OBVIOUS
  <2>7. Reading(es, m + 1, g)
    <3> HIDE DEF g
    <3> QED BY <2>5, <2>6 DEF Reading
  <2> QED BY <2>7
<1>3. Nat \subseteq S
  <2> HIDE DEF S
  <2> QED BY <1>1, <1>2, SetInduction
<1> QED BY <1>3

\* Two readings of the same entries agree.
LEMMA ReadingAgrees ==
  ASSUME NEW es, NEW ds, NEW m \in Nat, NEW n \in Nat, NEW f, NEW g, m # 0,
         Reading(es, m, f), Reading(ds, n, g), m <= n, \A i \in 1 .. m : es[i] = ds[i]
  PROVE  f[m] = g[m]
<1> DEFINE S == {i \in Nat : i # 0 /\ i <= m => f[i] = g[i]}
<1>1. 0 \in S
  OBVIOUS
<1>2. ASSUME NEW i \in Nat, i \in S PROVE i + 1 \in S
  <2>1. SUFFICES ASSUME i + 1 <= m PROVE f[i + 1] = g[i + 1]
    OBVIOUS
  <2>2. i + 1 \in 1 .. m /\ i + 1 \in 1 .. n /\ (i + 1) - 1 = i
    BY <2>1
  <2>3. f[i + 1] = IF i + 1 = 1 THEN Started(es) ELSE Read(f[i], es[i + 1])
    BY <2>2 DEF Reading
  <2>4. g[i + 1] = IF i + 1 = 1 THEN Started(ds) ELSE Read(g[i], ds[i + 1])
    BY <2>2 DEF Reading
  <2>5. Started(es) = Started(ds)
    <3>1. es[1] = ds[1] OBVIOUS
    <3> QED BY <3>1 DEF Started
  <2>6. i # 0 => f[i] = g[i]
    BY <1>2, <2>1
  <2> QED BY <2>2, <2>3, <2>4, <2>5, <2>6
<1>3. Nat \subseteq S
  <2> HIDE DEF S
  <2> QED BY <1>1, <1>2, SetInduction
<1> QED BY <1>3

\* verify_ledger_document returns what its loop holds after the last entry.
LEMMA VerifiedIsReading ==
  ASSUME NEW es, NEW f, Len(es) \in Nat, Len(es) # 0, Reading(es, Len(es), f)
  PROVE  VerifyLedger(es) = f[Len(es)]
<1> DEFINE r == CHOOSE g : g = [n \in 1 .. Len(es) |->
                    IF n = 1 THEN [NothingRead EXCEPT !.ok = (es[1] = Frozen)]
                    ELSE Read(g[n - 1], es[n])]
<1>1. VerifyLedger(es) = r[Len(es)]
  BY DEF VerifyLedger
<1>2. Reading(es, Len(es), r)
  BY DEF Reading, Started
<1> HIDE DEF r
<1> QED BY <1>1, <1>2, ReadingAgrees

\* The frozen plan alone is verified.
LEMMA VerifyFrozen == VerifyLedger(<<Frozen>>) = [NothingRead EXCEPT !.ok = TRUE]
<1> DEFINE es == <<Frozen>>
<1>1. Len(es) = 1 /\ es[1] = Frozen OBVIOUS
<1> HIDE DEF es
<1>2. PICK f : Reading(es, 1, f) BY ReadingExists
<1>3. f[1] = Started(es)
  <2>1. 1 \in 1 .. 1 OBVIOUS
  <2> QED BY <1>2, <2>1 DEF Reading
<1>4. VerifyLedger(es) = f[1]
  <2>1. Len(es) \in Nat /\ Len(es) # 0 /\ Reading(es, Len(es), f) BY <1>1, <1>2
  <2> QED BY <2>1, <1>1, VerifiedIsReading
<1> QED BY <1>1, <1>3, <1>4 DEF es, Started, NothingRead

\* One entry more is one more turn of the auditor's loop.
LEMMA VerifyAppend ==
  ASSUME NEW E, NEW es \in Seq(E), NEW e \in E, Len(es) # 0
  PROVE  VerifyLedger(Append(es, e)) = Read(VerifyLedger(es), e)
<1> DEFINE n == Len(es)
           ds == Append(es, e)
<1>1. /\ n \in Nat /\ Len(ds) = n + 1 /\ n # 0
      /\ \A i \in 1 .. n : es[i] = ds[i]
      /\ ds[n + 1] = e
  OBVIOUS
<1>2. PICK f : Reading(es, n, f) BY <1>1, ReadingExists
<1> HIDE DEF n, ds
<1>3. PICK g : Reading(ds, n + 1, g)
  <2>1. n + 1 \in Nat BY <1>1
  <2> QED BY <2>1, ReadingExists
<1>4. f[n] = g[n] BY <1>1, <1>2, <1>3, ReadingAgrees
<1>5. g[n + 1] = Read(g[n], e)
  <2>1. n + 1 \in 1 .. n + 1 /\ n + 1 # 1 /\ (n + 1) - 1 = n
    BY <1>1
  <2> QED BY <2>1, <1>1, <1>3 DEF Reading
<1>6. VerifyLedger(es) = f[n] BY <1>1, <1>2, VerifiedIsReading DEF n
<1>7. VerifyLedger(ds) = g[n + 1] BY <1>1, <1>3, VerifiedIsReading
<1> QED BY <1>4, <1>5, <1>6, <1>7 DEF ds

-----------------------------------------------------------------------------
(* What the auditor has read, and what it finds in the ledger.             *)

\* The entries after the frozen plan.
Seen(es) == {es[n] : n \in 2 .. Len(es)}

\* The documents of a cell are about that cell.
Located(cell, c) ==
    /\ cell.intent # NoDoc => cell.intent.cell = c
    /\ cell.receipt # NoDoc => cell.receipt.cell = c
    /\ \A f \in cell.evidence : f.cell = c
    /\ cell.state = "DECIDED" => cell.decision.cell = c

\* The auditor accepts the entries of l and holds after them the cells of l; the next
\* Receipt is in time.
Audited(l) ==
    /\ entries[l][1] = Frozen /\ Len(entries[l]) # 0
    /\ LET v == VerifyLedger(entries[l]) IN
         /\ v.ok /\ v.cells = cells[l]
         /\ v.read = Seen(entries[l]) /\ v.at = entries[l][Len(entries[l])].at
    /\ \A f \in Seen(entries[l]) : f.kind \in HeldKinds /\ f.cell \in Cells
    /\ \A c \in Cells : Located(cells[l][c], c)
    /\ SignaturesOk(entries[l])
    /\ writing[l] # NoDoc => AppendTimeOk(l, writing[l].completed)

Audit == \A l \in Ledgers : Audited(l)

\* What an entry brought is still in its cell.
LEMMA SeenIsHeld ==
    ASSUME History, NEW l \in Ledgers, Audited(l), NEW f \in Seen(entries[l])
    PROVE  f.kind \in HeldKinds /\ f.cell \in Cells /\ f.doc \in Held(cells[l][f.cell], f.kind)
<1>1. f.kind \in HeldKinds /\ f.cell \in Cells
  BY DEF Audited
<1>2. f.doc \in EntriesOf(l, f.cell, f.kind)
  BY DEF EntriesOf, Seen
<1>3. LedgerShows(l, f.cell)
  BY <1>1 DEF History
<1> QED BY <1>1, <1>2, <1>3 DEF LedgerShows

\* What a cell holds was brought by an entry.
LEMMA HeldIsSeen ==
    ASSUME IInv, History, NEW l \in Ledgers, Audited(l), NEW c \in Cells, NEW kind \in HeldKinds,
           NEW d \in Held(cells[l][c], kind)
    PROVE  \E n \in 2 .. Len(entries[l]) :
              entries[l][n].kind = kind /\ entries[l][n].cell = c /\ entries[l][n].doc = d
<1>1. LedgerShows(l, c)
  BY DEF History
<1>2. d \in EntriesOf(l, c, kind)
  BY <1>1 DEF LedgerShows
<1>3. PICK n \in 1 .. Len(entries[l]) :
         entries[l][n].kind = kind /\ entries[l][n].cell = c /\ entries[l][n].doc = d
  BY <1>2 DEF EntriesOf
<1>4. n # 1
  BY <1>3 DEF Audited, Frozen, HeldKinds
<1>5. Len(entries[l]) \in Nat
  BY LenProperties DEF IInv, TypeOK
<1>6. n \in 2 .. Len(entries[l])
  BY <1>3, <1>4, <1>5
<1> QED BY <1>3, <1>6

\* The documents of each kind.
DocsOf(kind) ==
    CASE kind = "Intent" -> Intents
      [] kind = "Grant" -> Grants
      [] kind = "Receipt" -> Receipts
      [] kind = "Evidence" -> Evidence
      [] kind = "Decision" -> Decisions

\* A document is of one kind.
LEMMA KindsDisjoint ==
    ASSUME NEW j \in HeldKinds, NEW k \in HeldKinds, NEW d \in DocsOf(j), d \in DocsOf(k)
    PROVE  j = k
BY KindsAssumption DEF HeldKinds, DocsOf

LEMMA HeldType ==
    ASSUME TypeOK, NEW l \in Ledgers, NEW c \in Cells, NEW kind \in HeldKinds,
           NEW d \in Held(cells[l][c], kind)
    PROVE  d \in DocsOf(kind) \/ (kind = "Decision" /\ d = NoDoc)
<1> DEFINE cell == cells[l][c]
<1>1. cell \in CellRecords
  BY DEF TypeOK
<1> HIDE DEF cell
<1>2. d \in Held(cell, kind)
  BY DEF cell
<1> QED BY <1>1, <1>2 DEF HeldKinds, Held, One, DocsOf, CellRecords

\* A document that no cell holds in its kind has not been read.
LEMMA NotRead ==
    ASSUME IInv, History, NEW l \in Ledgers, Audited(l), NEW kind \in HeldKinds,
           NEW d \in DocsOf(kind), \A c \in Cells : d \notin Held(cells[l][c], kind)
    PROVE  d \notin {f.doc : f \in Seen(entries[l])}
<1> SUFFICES ASSUME NEW f \in Seen(entries[l]), f.doc = d PROVE FALSE
  OBVIOUS
<1>1. f.kind \in HeldKinds /\ f.cell \in Cells /\ d \in Held(cells[l][f.cell], f.kind)
  BY SeenIsHeld
<1>2. f.kind # kind
  BY <1>1
<1>3. d \in DocsOf(f.kind) \/ (f.kind = "Decision" /\ d = NoDoc)
  BY <1>1, HeldType DEF IInv
<1>4. d \notin DocsOf(f.kind)
  BY <1>1, <1>2, KindsDisjoint
<1>5. f.kind = "Decision" /\ d = NoDoc
  BY <1>3, <1>4
<1>6. kind \in {"Intent", "Grant", "Receipt", "Evidence"}
  BY <1>2, <1>5 DEF HeldKinds
<1> QED BY <1>5, <1>6, ConstantsAssumption DEF DocsOf

\* The entries that were read are read again, and the new one.
LEMMA SeenAppend ==
    ASSUME NEW es \in Seq(Entries), NEW e \in Entries, Len(es) # 0
    PROVE  Seen(Append(es, e)) = Seen(es) \cup {e}
<1> DEFINE n == Len(es)
           ds == Append(es, e)
<1>1. /\ n \in Nat /\ n # 0 /\ Len(ds) = n + 1 /\ ds[n + 1] = e
      /\ \A m \in 1 .. n : ds[m] = es[m]
  BY AppendProperties, LenProperties
<1> HIDE DEF n, ds
<1>2. 2 .. n + 1 = (2 .. n) \cup {n + 1}
  BY <1>1
<1>3. \A m \in 2 .. n : ds[m] = es[m]
  BY <1>1
<1>4. {ds[m] : m \in 2 .. n + 1} = {es[m] : m \in 2 .. n} \cup {e}
  BY <1>1, <1>2, <1>3
<1>5. Seen(es) = {es[m] : m \in 2 .. n} BY DEF Seen, n
<1>6. Seen(ds) = {ds[m] : m \in 2 .. n + 1} BY <1>1 DEF Seen
<1> QED BY <1>4, <1>5, <1>6 DEF ds

\* The checks of verify_ledger_document on an entry about cell c that is appended to l.
Accepts(l, c, e) ==
    /\ AppendTimeOk(l, e.at)
    /\ e.doc \notin {f.doc : f \in Seen(entries[l])}
    /\ e.kind = "Intent" => e.doc.id \notin KnownIntentIds(l)
    /\ e.kind = "Grant" => e.doc.id \notin KnownGrantIds(l)
    /\ e.parents \subseteq {f.doc : f \in Seen(entries[l])}
    /\ TransitionOk(cells[l][c], e)
    /\ RecordedAtOk(e)
    /\ e.kind = "Grant" => /\ cells[l][c].intent # NoDoc
                           /\ VerifyGrant(e.doc, cells[l][c].intent, e.doc.issued)

\* The ids that the auditor compares are those of the cells.
LEMMA IdsNotRead ==
    ASSUME IInv, History, NEW l \in Ledgers, Audited(l), NEW c \in Cells, NEW e, Accepts(l, c, e),
           e.kind \in {"Intent", "Grant"}, NEW f \in Seen(entries[l]), f.kind = e.kind
    PROVE  f.doc.id # e.doc.id
<1>1. f.cell \in Cells /\ f.doc \in Held(cells[l][f.cell], f.kind)
  BY SeenIsHeld
<1>2. CASE e.kind = "Intent"
  <2>1. cells[l][f.cell].intent # NoDoc /\ f.doc = cells[l][f.cell].intent
    BY <1>1, <1>2 DEF Held, One
  <2>2. f.doc.id \in KnownIntentIds(l)
    BY <1>1, <2>1 DEF KnownIntentIds
  <2> QED BY <1>2, <2>2 DEF Accepts
<1>3. CASE e.kind = "Grant"
  <2>1. cells[l][f.cell].grant # NoDoc /\ f.doc = cells[l][f.cell].grant
    BY <1>1, <1>3 DEF Held, One
  <2>2. f.doc.id \in KnownGrantIds(l)
    BY <1>1, <2>1 DEF KnownGrantIds
  <2> QED BY <1>3, <2>2 DEF Accepts
<1> QED BY <1>2, <1>3

\* The signatures of a ledger stay when nothing is appended to it.
LEMMA SignaturesKept ==
    ASSUME NEW l \in Ledgers, entries'[l] = entries[l], issued \subseteq issued',
           SignaturesOk(entries[l])
    PROVE  SignaturesOk(entries[l])'
<1> DEFINE es == entries[l]
           Signed(g, i, at) == /\ g \in issued' /\ g.intent = i /\ Covers(g, i)
                               /\ g.issued <= at + CLOCK_SKEW /\ at < g.expires
<1>1. \A g, i, at : VerifyGrant(g, i, at) => Signed(g, i, at)
  BY DEF VerifyGrant
<1>2. \A n \in 1 .. Len(es) : es[n].kind = "Grant" =>
          \E m \in 1 .. n - 1 : /\ es[m].kind = "Intent" /\ es[m].cell = es[n].cell
                                /\ VerifyGrant(es[n].doc, es[m].doc, es[n].doc.issued)
  BY DEF SignaturesOk
<1>3. \A n \in 1 .. Len(es) : es[n].kind = "Grant" =>
          \E m \in 1 .. n - 1 : /\ es[m].kind = "Intent" /\ es[m].cell = es[n].cell
                                /\ Signed(es[n].doc, es[m].doc, es[n].doc.issued)
  <2> HIDE DEF es, Signed
  <2> QED BY <1>1, <1>2
<1>4. entries'[l] = es
  OBVIOUS
<1> HIDE DEF es
<1> QED BY <1>3, <1>4 DEF SignaturesOk, VerifyGrant, Covers, ValidWindow

\* A signature that was found stays found, and a Grant comes after the Intent it names.
LEMMA SignaturesStep ==
    ASSUME IInv, History, NEW l \in Ledgers, Audited(l), NEW c \in Cells, NEW e \in Entries,
           e.cell = c, Accepts(l, c, e), entries'[l] = Append(entries[l], e), issued' = issued
    PROVE  SignaturesOk(entries[l])'
<1> DEFINE es == entries[l]
           n == Len(es)
           ds == entries'[l]
<1>1. es \in Seq(Entries)
  BY DEF IInv, TypeOK
<1>2. n \in Nat /\ ds = Append(es, e)
  BY <1>1, LenProperties
<1>3. Len(ds) = n + 1 /\ ds[n + 1] = e /\ \A m \in 1 .. n : ds[m] = es[m]
  BY <1>1, <1>2, AppendProperties
<1>4. \A k \in 1 .. n : es[k].kind = "Grant" =>
         \E m \in 1 .. k - 1 : /\ es[m].kind = "Intent" /\ es[m].cell = es[k].cell
                               /\ VerifyGrant(es[k].doc, es[m].doc, es[k].doc.issued)
  BY DEF Audited, SignaturesOk
<1>5. e.kind = "Grant" => \E m \in 1 .. n : /\ es[m].kind = "Intent" /\ es[m].cell = c
                                             /\ VerifyGrant(e.doc, es[m].doc, e.doc.issued)
  <2> SUFFICES ASSUME e.kind = "Grant"
               PROVE  \E m \in 1 .. n : /\ es[m].kind = "Intent" /\ es[m].cell = c
                                        /\ VerifyGrant(e.doc, es[m].doc, e.doc.issued)
    OBVIOUS
  <2>1. /\ cells[l][c].intent # NoDoc
        /\ VerifyGrant(e.doc, cells[l][c].intent, e.doc.issued)
    BY DEF Accepts
  <2>2. "Intent" \in HeldKinds /\ cells[l][c].intent \in Held(cells[l][c], "Intent")
    BY <2>1 DEF HeldKinds, Held, One
  <2>3. PICK m \in 2 .. n : es[m].kind = "Intent" /\ es[m].cell = c
                            /\ es[m].doc = cells[l][c].intent
    <3> DEFINE kind == "Intent"
               d == cells[l][c].intent
    <3>1. kind \in HeldKinds /\ d \in Held(cells[l][c], kind)
      BY <2>2
    <3> HIDE DEF kind, d
    <3>2. \E m \in 2 .. Len(entries[l]) : /\ entries[l][m].kind = kind /\ entries[l][m].cell = c
                                           /\ entries[l][m].doc = d
      BY ONLY <3>1, HeldIsSeen, IInv, History, l \in Ledgers, c \in Cells, Audited(l)
    <3> QED BY <3>2 DEF kind, d
  <2>4. m \in 1 .. n
    BY <1>2, <2>3
  <2> QED BY <2>1, <2>3, <2>4
<1> HIDE DEF es, n, ds
<1>6. \A k \in 1 .. n + 1 : ds[k].kind = "Grant" =>
         \E m \in 1 .. k - 1 : /\ ds[m].kind = "Intent" /\ ds[m].cell = ds[k].cell
                               /\ VerifyGrant(ds[k].doc, ds[m].doc, ds[k].doc.issued)
  <2> SUFFICES ASSUME NEW k \in 1 .. n + 1, ds[k].kind = "Grant"
               PROVE  \E m \in 1 .. k - 1 : /\ ds[m].kind = "Intent" /\ ds[m].cell = ds[k].cell
                                            /\ VerifyGrant(ds[k].doc, ds[m].doc, ds[k].doc.issued)
    OBVIOUS
  <2>1. CASE k = n + 1
    <3>1. (n + 1) - 1 = n
      BY <1>2
    <3>2. PICK m \in 1 .. n : /\ es[m].kind = "Intent" /\ es[m].cell = c
                              /\ VerifyGrant(e.doc, es[m].doc, e.doc.issued)
      BY <1>3, <1>5, <2>1
    <3>3. ds[m] = es[m] /\ ds[k] = e
      BY <1>3, <2>1
    <3> QED BY <2>1, <3>1, <3>2, <3>3
  <2>2. CASE k \in 1 .. n
    <3>1. ds[k] = es[k]
      BY <1>3, <2>2
    <3>2. PICK m \in 1 .. k - 1 : /\ es[m].kind = "Intent" /\ es[m].cell = es[k].cell
                                  /\ VerifyGrant(es[k].doc, es[m].doc, es[k].doc.issued)
      BY <1>4, <2>2, <3>1
    <3>3. m \in 1 .. n
      BY <1>2, <2>2
    <3>4. ds[m] = es[m]
      BY <1>3, <3>3
    <3> QED BY <3>1, <3>2, <3>4
  <2>3. k = n + 1 \/ k \in 1 .. n
    BY <1>2
  <2> QED BY <2>1, <2>2, <2>3
<1>7. \A g, i, at : VerifyGrant(g, i, at)' <=> VerifyGrant(g, i, at)
  BY DEF VerifyGrant, Covers, ValidWindow
<1> QED BY <1>3, <1>6 DEF SignaturesOk, VerifyGrant, Covers, ValidWindow, ds

\* An entry that the auditor accepts, and the cell it makes of it, keep ledgers audited.
LEMMA AuditStep ==
    ASSUME IInv, History, Audit, NEW l \in Ledgers, NEW c \in Cells, NEW new \in CellRecords,
           NEW e \in Entries, e.cell = c, e.kind \in HeldKinds,
           cells' = [cells EXCEPT ![l] = [@ EXCEPT ![c] = new]],
           entries' = [entries EXCEPT ![l] = Append(@, e)],
           issued' = issued,
           writing'[l] = NoDoc,
           \A k \in Ledgers : k # l => writing'[k] = writing[k],
           new = CellAfter(cells[l][c], e),
           Located(new, c),
           Accepts(l, c, e)
    PROVE  Audit'
<1>1. TypeOK
  BY DEF IInv
<1>2. /\ cells' \in [Ledgers -> [Cells -> CellRecords]]
      /\ cells'[l][c] = new
      /\ \A k \in Ledgers, d \in Cells : (k # l \/ d # c) => cells'[k][d] = cells[k][d]
  <2>1. cells' = [cells EXCEPT ![l] = [@ EXCEPT ![c] = new]]
    OBVIOUS
  <2> QED BY ONLY <1>1, <2>1, CellWrite, l \in Ledgers, c \in Cells, new \in CellRecords
<1>3. ASSUME NEW k \in Ledgers, k # l PROVE Audited(k)'
  <2>1. entries'[k] = entries[k] /\ cells'[k] = cells[k] /\ writing'[k] = writing[k]
    BY <1>1, <1>3 DEF TypeOK
  <2>2. Audited(k)
    BY DEF Audit
  <2>3. SignaturesOk(entries[k])'
    BY <2>1, <2>2, SignaturesKept DEF Audited
  <2>4. VerifyLedger(entries'[k]) = VerifyLedger(entries[k])
    BY <2>1
  <2> QED BY ONLY <2>1, <2>2, <2>3, <2>4, k \in Ledgers DEF Audited, AppendTimeOk, Located
<1>4. Audited(l)'
  <2> DEFINE es == entries[l]
             v == VerifyLedger(es)
             w == VerifyLedger(Append(es, e))
  <2>1. es \in Seq(Entries) /\ Len(es) # 0 /\ Audited(l)
    BY <1>1 DEF TypeOK, Audit, Audited
  <2>2. entries'[l] = Append(es, e)
    BY <1>1 DEF TypeOK
  <2>3. /\ Len(es) \in Nat /\ Len(Append(es, e)) = Len(es) + 1
        /\ Append(es, e)[Len(es) + 1] = e
        /\ Append(es, e)[1] = es[1]
    BY <2>1, AppendProperties, LenProperties
  <2>4. /\ v.ok /\ v.cells = cells[l] /\ v.read = Seen(es) /\ v.at = es[Len(es)].at
    BY <2>1 DEF Audited
  <2>5. w = Read(v, e)
    BY <2>1, VerifyAppend
  <2>6. Seen(Append(es, e)) = Seen(es) \cup {e}
    BY <2>1, SeenAppend
  <2>7. \A f \in Seen(es) : f.kind = e.kind /\ e.kind \in {"Intent", "Grant"} =>
            f.doc.id # e.doc.id
    BY <2>1, IdsNotRead
  <2> HIDE DEF v, w
  <2>8. FreshOk(v, e)
    BY <2>4, <2>7 DEF FreshOk, Accepts
  <2>9. e.at >= v.at
    BY <2>4 DEF Accepts, AppendTimeOk
  <2>10. TransitionOk(v.cells[e.cell], e) /\ RecordedAtOk(e)
    BY <2>4 DEF Accepts
  <2>11. e.parents \subseteq {f.doc : f \in v.read}
    BY <2>4 DEF Accepts
  <2>12. w.ok
    BY <2>4, <2>5, <2>8, <2>9, <2>10, <2>11 DEF Read
  <2>13. w.cells = cells'[l]
    <3>1. w.cells = [cells[l] EXCEPT ![c] = CellAfter(cells[l][c], e)]
      BY <2>4, <2>5 DEF Read
    <3>2. cells'[l] = [cells[l] EXCEPT ![c] = new]
      BY <1>1 DEF TypeOK
    <3> QED BY <3>1, <3>2
  <2>14. w.read = Seen(Append(es, e)) /\ w.at = e.at
    BY <2>4, <2>5, <2>6 DEF Read
  <2>15. SignaturesOk(entries[l])'
    BY <2>1, <2>2, SignaturesStep
  <2>16. \A f \in Seen(Append(es, e)) : f.kind \in HeldKinds /\ f.cell \in Cells
    BY <2>1, <2>6 DEF Audited
  <2>17. ASSUME NEW d \in Cells PROVE Located(cells'[l][d], d)
    <3>1. Located(cells[l][d], d)
      BY <2>1 DEF Audited
    <3>2. CASE d = c
      BY <1>2, <3>2
    <3>3. CASE d # c
      BY <1>2, <3>1, <3>3
    <3> QED BY <3>2, <3>3
  <2>18. Append(es, e)[1] = Frozen /\ Len(Append(es, e)) # 0
    BY <2>1, <2>3 DEF Audited
  <2>19. VerifyLedger(entries[l])' = w
    BY <2>2 DEF w
  <2>20. writing'[l] = NoDoc
    OBVIOUS
  <2> HIDE DEF es
  <2> QED BY ONLY <2>2, <2>3, <2>12, <2>13, <2>14, <2>15, <2>16, <2>17, <2>18, <2>19, <2>20
          DEF Audited
<1> QED BY <1>3, <1>4 DEF Audit

\* A step that appends nothing keeps the ledgers audited.
LEMMA AuditKept ==
    ASSUME Audit, entries' = entries, cells' = cells, issued \subseteq issued',
           \A k \in Ledgers : \/ writing'[k] = writing[k] \/ writing'[k] = NoDoc
                              \/ AppendTimeOk(k, writing'[k].completed)
    PROVE  Audit'
<1> SUFFICES ASSUME NEW l \in Ledgers PROVE Audited(l)'
  BY DEF Audit
<1>1. Audited(l) /\ entries'[l] = entries[l] /\ cells'[l] = cells[l]
  BY DEF Audit
<1>2. SignaturesOk(entries[l])'
  BY <1>1, SignaturesKept DEF Audited
<1>3. VerifyLedger(entries'[l]) = VerifyLedger(entries[l])
  BY <1>1
<1>4. \/ writing'[l] = writing[l] \/ writing'[l] = NoDoc
      \/ AppendTimeOk(l, writing'[l].completed)
  OBVIOUS
<1> QED BY ONLY <1>1, <1>2, <1>3, <1>4, l \in Ledgers DEF Audited, AppendTimeOk

\* The documents that a cell holds have been read.
LEMMA DocIsSeen ==
    ASSUME IInv, History, NEW l \in Ledgers, Audited(l), NEW c \in Cells, NEW kind \in HeldKinds,
           NEW d \in Held(cells[l][c], kind)
    PROVE  d \in {f.doc : f \in Seen(entries[l])}
<1>1. PICK n \in 2 .. Len(entries[l]) : entries[l][n].doc = d
  BY HeldIsSeen
<1>2. entries[l][n] \in Seen(entries[l])
  BY DEF Seen
<1> QED BY <1>1, <1>2

LEMMA IntentIsSeen ==
    ASSUME IInv, History, NEW l \in Ledgers, Audited(l), NEW c \in Cells,
           cells[l][c].intent # NoDoc
    PROVE  cells[l][c].intent \in {f.doc : f \in Seen(entries[l])}
<1> DEFINE kind == "Intent"
<1>1. kind \in HeldKinds /\ cells[l][c].intent \in Held(cells[l][c], kind)
  BY DEF HeldKinds, Held, One
<1> HIDE DEF kind
<1> QED BY <1>1, DocIsSeen

LEMMA GrantIsSeen ==
    ASSUME IInv, History, NEW l \in Ledgers, Audited(l), NEW c \in Cells,
           cells[l][c].grant # NoDoc
    PROVE  cells[l][c].grant \in {f.doc : f \in Seen(entries[l])}
<1> DEFINE kind == "Grant"
<1>1. kind \in HeldKinds /\ cells[l][c].grant \in Held(cells[l][c], kind)
  BY DEF HeldKinds, Held, One
<1> HIDE DEF kind
<1> QED BY <1>1, DocIsSeen

LEMMA ReceiptIsSeen ==
    ASSUME IInv, History, NEW l \in Ledgers, Audited(l), NEW c \in Cells,
           cells[l][c].receipt # NoDoc
    PROVE  cells[l][c].receipt \in {f.doc : f \in Seen(entries[l])}
<1> DEFINE kind == "Receipt"
<1>1. kind \in HeldKinds /\ cells[l][c].receipt \in Held(cells[l][c], kind)
  BY DEF HeldKinds, Held, One
<1> HIDE DEF kind
<1> QED BY <1>1, DocIsSeen

LEMMA EvidenceIsSeen ==
    ASSUME IInv, History, NEW l \in Ledgers, Audited(l), NEW c \in Cells,
           NEW d \in cells[l][c].evidence
    PROVE  d \in {f.doc : f \in Seen(entries[l])}
<1> DEFINE kind == "Evidence"
<1>1. kind \in HeldKinds /\ d \in Held(cells[l][c], kind)
  BY DEF HeldKinds, Held
<1> HIDE DEF kind
<1> QED BY <1>1, DocIsSeen

\* A Grant that verifies at some time verifies at the time it was issued
\* (verify_grant_signatures).
LEMMA IssuedInWindow ==
    ASSUME NEW g \in Grants, NEW i, NEW at, VerifyGrant(g, i, at)
    PROVE  VerifyGrant(g, i, g.issued)
<1>1. g.issued \in Nat /\ g.expires \in Nat /\ CLOCK_SKEW \in Nat
  BY ConstantsAssumption
<1>2. g.issued + 1 <= g.expires
  BY DEF VerifyGrant, Covers, ValidWindow
<1>3. g.issued <= g.issued + CLOCK_SKEW /\ g.issued < g.expires
  BY <1>1, <1>2
<1> QED BY <1>3 DEF VerifyGrant

\* A ledger with the frozen plan is audited.
LEMMA InitAudit == Init => Audit
<1> SUFFICES ASSUME Init, NEW l \in Ledgers PROVE Audited(l)
  BY DEF Audit
<1>1. /\ entries[l] = <<Frozen>> /\ cells[l] = [c \in Cells |-> AbsentCell]
      /\ writing[l] = NoDoc
  BY DEF Init
<1>2. Len(<<Frozen>>) = 1 /\ <<Frozen>>[1] = Frozen /\ Frozen.at = 0 /\ Frozen.kind = "MatrixPlan"
  BY DEF Frozen
<1>3. Seen(<<Frozen>>) = {}
  BY <1>2 DEF Seen
<1>4. VerifyLedger(<<Frozen>>) = [NothingRead EXCEPT !.ok = TRUE]
  BY VerifyFrozen
<1>5. SignaturesOk(<<Frozen>>)
  <2>1. \A n \in 1 .. 1 : n = 1
    OBVIOUS
  <2> QED BY <1>2, <2>1 DEF SignaturesOk
<1>6. \A c \in Cells : Located(AbsentCell, c)
  BY DEF Located, AbsentCell
<1>7. /\ VerifyLedger(<<Frozen>>).ok /\ VerifyLedger(<<Frozen>>).cells = cells[l]
      /\ VerifyLedger(<<Frozen>>).read = {} /\ VerifyLedger(<<Frozen>>).at = 0
  BY <1>1, <1>4 DEF NothingRead
<1> HIDE DEF Init
<1> QED BY <1>1, <1>2, <1>3, <1>5, <1>6, <1>7 DEF Audited

\* What the auditor finds is what SnapshotVerifies says.
LEMMA AuditVerifies == Audit => SnapshotVerifies
BY DEF Audit, Audited, SnapshotVerifies

-----------------------------------------------------------------------------
(* The steps keep the invariant, the history and the audit.                  *)

\* record_intent keeps the invariant.
LEMMA RecordIntentInv ==
    ASSUME IInv, NEW l \in Ledgers, NEW i \in Intents, RecordIntent(l, i)
    PROVE  IInv' /\ (History => History') /\ (History /\ Audit => Audit')
<1> DEFINE c == i.cell
           new == [cells[l][c] EXCEPT !.intent = i, !.state = "INTENT_RECORDED"]
           e == [kind |-> "Intent", cell |-> c, doc |-> i, parents |-> {}, at |-> i.at]
<1>1. c \in Cells /\ i.at \in Nat
  BY ConstantsAssumption
<1>2. cells[l][c] \in CellRecords /\ CellShape(cells[l][c])
  BY <1>1 DEF IInv, TypeOK
<1>3. new \in CellRecords
  BY <1>2 DEF CellRecords, States
<1>4. e \in Entries
  BY <1>1 DEF Entries, Documents
<1>5. cells' = [cells EXCEPT ![l] = [@ EXCEPT ![c] = new]]
  BY <1>1, <1>2 DEF RecordIntent, IInv, TypeOK, CellRecords
<1>6. CellShape(new)
  BY <1>2, ConstantsAssumption DEF RecordIntent, CellShape, AfterReceipt, CellRecords
<1>7. new.receipt = cells[l][c].receipt /\ new.grant = cells[l][c].grant
  BY <1>2 DEF CellRecords
<1>8. /\ Free(l)
      /\ entries' = [entries EXCEPT ![l] = Append(@, e)]
      /\ UNCHANGED <<writing, up, issued, consumed>>
  BY DEF RecordIntent, Append1
<1>9. ASSUME History PROVE CellHistory(new)
  <2>1. CellHistory(cells[l][c]) /\ cells[l][c].state = "ABSENT"
    BY <1>1, <1>9 DEF History, RecordIntent
  <2> QED BY <1>2, <2>1 DEF CellHistory, CellShape, AfterReceipt, CellRecords
<1>10. ASSUME History PROVE Brings(e, cells[l][c], new)
  <2>1. cells[l][c].state = "ABSENT" /\ i # NoDoc
    BY ConstantsAssumption DEF RecordIntent
  <2>2. cells[l][c].intent = NoDoc
    BY <1>1, <1>10, <2>1 DEF History, CellHistory
  <2> HIDE DEF c
  <2> QED BY <1>2, <2>1, <2>2 DEF Brings, Held, HeldKinds, One, CellRecords
<1>11. /\ writing'[l] = NoDoc /\ issued' = issued /\ e.cell = c
       /\ \A k \in Ledgers : writing'[k] = writing[k]
  BY <1>8 DEF Free
<1>14. ASSUME History, Audit
       PROVE  new = CellAfter(cells[l][c], e) /\ Located(new, c) /\ Accepts(l, c, e)
  <2>1. /\ cells[l][c].state = "ABSENT" /\ i.id \notin KnownIntentIds(l)
        /\ AppendTimeOk(l, i.at) /\ c \in DOMAIN Plan /\ i.coordinates = Plan[c]
    BY DEF RecordIntent
  <2>2. \A d \in Cells : i \notin Held(cells[l][d], "Intent")
    BY <2>1, ConstantsAssumption DEF Held, One, KnownIntentIds
  <2>3. i \notin {f.doc : f \in Seen(entries[l])}
    <3> DEFINE kind == "Intent"
    <3>1. kind \in HeldKinds /\ i \in DocsOf(kind) /\ \A d \in Cells : i \notin Held(cells[l][d], kind)
      BY <2>2 DEF HeldKinds, DocsOf
    <3> HIDE DEF kind
    <3> QED BY <1>14, <3>1, NotRead DEF Audit
  <2>4. new = CellAfter(cells[l][c], e)
    BY <1>2 DEF CellAfter, CellRecords
  <2>5. Located(cells[l][c], c)
    BY <1>1, <1>14 DEF Audit, Audited
  <2>6. Located(new, c)
    BY <1>2, <2>1, <2>5 DEF Located, CellRecords
  <2>7. TransitionOk(cells[l][c], e) /\ RecordedAtOk(e)
    BY <2>1 DEF TransitionOk, IntentOk, RecordedAtOk
  <2> QED BY <2>1, <2>3, <2>4, <2>6, <2>7 DEF Accepts
<1>15. e.kind \in HeldKinds
  BY DEF HeldKinds
<1> HIDE DEF c, new, e
<1>12. IInv'
  BY <1>1, <1>3, <1>4, <1>5, <1>6, <1>7, <1>8, CellStep
<1>13. ASSUME History PROVE History'
  BY <1>1, <1>3, <1>4, <1>5, <1>8, <1>9, <1>10, <1>11, <1>13, HistoryStep
<1>16. ASSUME History, Audit PROVE Audit'
  BY <1>1, <1>3, <1>4, <1>5, <1>8, <1>11, <1>14, <1>15, <1>16, AuditStep
<1> QED BY <1>12, <1>13, <1>16

\* record_grant keeps the invariant: no Receipt was recorded under an earlier Grant
\* of the cell.
LEMMA RecordGrantInv ==
    ASSUME IInv, NEW l \in Ledgers, NEW g \in Grants, NEW at \in Times,
           RecordGrant(l, g, at)
    PROVE  IInv' /\ (History => History') /\ (History /\ Audit => Audit')
<1> DEFINE c == g.intent.cell
           old == cells[l][c]
           new == [old EXCEPT !.grant = g, !.state = "GRANTED"]
           e == [kind |-> "Grant", cell |-> c, doc |-> g, parents |-> {old.intent}, at |-> at]
<1>1. c \in Cells /\ at \in Nat
  BY ConstantsAssumption DEF Times
<1>2. old \in CellRecords /\ CellShape(old)
  BY <1>1 DEF IInv, TypeOK
<1>3. new \in CellRecords
  BY <1>2 DEF CellRecords, States
<1>4. e \in Entries
  BY <1>1, <1>2 DEF Entries, Documents, CellRecords
<1>5. cells' = [cells EXCEPT ![l] = [@ EXCEPT ![c] = new]]
  BY <1>1, <1>2 DEF RecordGrant, IInv, TypeOK, CellRecords
<1>6. old.state = "INTENT_RECORDED"
  BY DEF RecordGrant
<1>7. CellShape(new) /\ new.receipt = old.receipt /\ new.receipt = NoDoc
  BY <1>2, <1>6 DEF CellShape, AfterReceipt, CellRecords
<1>8. /\ Free(l)
      /\ entries' = [entries EXCEPT ![l] = Append(@, e)]
      /\ UNCHANGED <<writing, up, issued, consumed>>
  BY DEF RecordGrant, Append1
<1>9. new.receipt = cells[l][c].receipt
  BY <1>7
<1>10. ASSUME History PROVE CellHistory(new) /\ Brings(e, old, new)
  <2>1. CellHistory(old)
    BY <1>1, <1>10 DEF History
  <2>2. old.grant = NoDoc /\ old.receipt = NoDoc
    BY <1>2, <1>6, <2>1 DEF CellHistory, CellShape, AfterReceipt
  <2>3. g \in issued /\ g.intent = old.intent /\ g # NoDoc
    BY ConstantsAssumption DEF RecordGrant, VerifyGrant
  <2> HIDE DEF c
  <2>4. CellHistory(new)
    BY <1>2, <2>2, <2>3 DEF CellHistory, CellRecords
  <2>5. Brings(e, old, new)
    BY <1>2, <1>6, <2>2, <2>3 DEF Brings, Held, HeldKinds, One, CellRecords
  <2> QED BY <2>4, <2>5
<1>11. writing'[l] = NoDoc /\ issued' = issued /\ \A k \in Ledgers : writing'[k] = writing[k]
  BY <1>8 DEF Free
<1>12. old = cells[l][c] /\ e.cell = c
  OBVIOUS
<1>15. ASSUME History, Audit
       PROVE  new = CellAfter(old, e) /\ Located(new, c) /\ Accepts(l, c, e)
  <2>1. /\ g.id \notin KnownGrantIds(l) /\ AppendTimeOk(l, at) /\ VerifyGrant(g, old.intent, at)
    BY DEF RecordGrant
  <2>2. \A d \in Cells : g \notin Held(cells[l][d], "Grant")
    BY <2>1, ConstantsAssumption DEF Held, One, KnownGrantIds
  <2>3. g \notin {f.doc : f \in Seen(entries[l])}
    <3> DEFINE kind == "Grant"
    <3>1. kind \in HeldKinds /\ g \in DocsOf(kind) /\ \A d \in Cells : g \notin Held(cells[l][d], kind)
      BY <2>2 DEF HeldKinds, DocsOf
    <3> HIDE DEF kind
    <3> QED BY <1>15, <3>1, NotRead DEF Audit
  <2>4. new = CellAfter(old, e)
    <3> HIDE DEF old
    <3> QED BY <1>2 DEF CellAfter, CellRecords
  <2>5. Located(old, c)
    BY <1>1, <1>15 DEF Audit, Audited
  <2>6. Located(new, c)
    <3> HIDE DEF old, c
    <3> QED BY <1>2, <1>6, <2>5 DEF Located, CellRecords
  <2>7. g.intent = old.intent /\ g.bounds >= old.intent.needs
    BY <2>1 DEF VerifyGrant, Covers
  <2>8. TransitionOk(old, e)
    <3> HIDE DEF old
    <3> QED BY <1>6, <2>7 DEF TransitionOk, GrantOk
  <2>9. RecordedAtOk(e)
    BY <2>1 DEF VerifyGrant, RecordedAtOk
  <2>10. old.intent # NoDoc
    BY <1>2, <1>6 DEF CellShape
  <2>11. {old.intent} \subseteq {f.doc : f \in Seen(entries[l])}
    BY <1>1, <1>15, <2>10, IntentIsSeen DEF Audit
  <2>12. VerifyGrant(g, old.intent, g.issued)
    BY <2>1, IssuedInWindow
  <2> QED BY <2>1, <2>3, <2>4, <2>6, <2>8, <2>9, <2>10, <2>11, <2>12 DEF Accepts
<1>16. e.kind \in HeldKinds
  BY DEF HeldKinds
<1> HIDE DEF c, old, new, e
<1>13. IInv'
  BY <1>1, <1>3, <1>4, <1>5, <1>7, <1>8, <1>9, CellStep
<1>14. ASSUME History PROVE History'
  BY <1>1, <1>3, <1>4, <1>5, <1>8, <1>10, <1>11, <1>12, <1>14, HistoryStep
<1>17. ASSUME History, Audit PROVE Audit'
  BY <1>1, <1>3, <1>4, <1>5, <1>8, <1>11, <1>12, <1>15, <1>16, <1>17, AuditStep
<1> QED BY <1>13, <1>14, <1>17

\* record_evidence keeps the invariant, whether or not the gate passes.
LEMMA RecordEvidenceInv ==
    ASSUME IInv, NEW l \in Ledgers, NEW v \in Evidence, RecordEvidence(l, v)
    PROVE  IInv' /\ (History => History') /\ (History /\ Audit => Audit')
<1> DEFINE c == v.cell
           old == cells[l][c]
           after == IF GatePasses(old.evidence \cup {v}) THEN "EVIDENCE_READY" ELSE old.state
           new == [old EXCEPT !.evidence = @ \cup {v}, !.state = after]
           e == [kind |-> "Evidence", cell |-> c, doc |-> v, parents |-> {old.receipt},
                 at |-> v.at]
<1>1. c \in Cells /\ v.at \in Nat
  BY ConstantsAssumption
<1>2. old \in CellRecords /\ CellShape(old)
  BY <1>1 DEF IInv, TypeOK
<1>3. /\ old.state \in {"RECEIPT_RECORDED", "EVIDENCE_READY"}
      /\ after \in {"RECEIPT_RECORDED", "EVIDENCE_READY"}
  BY DEF RecordEvidence
<1>4. cells' = [cells EXCEPT ![l] = [@ EXCEPT ![c] = new]]
  <2>1. cells' = [cells EXCEPT ![l][c].evidence = @ \cup {v}, ![l][c].state = after]
    BY <1>1, <1>2 DEF RecordEvidence, IInv, TypeOK, CellRecords
  <2> HIDE DEF after
  <2> QED BY <1>1, <1>2, <2>1 DEF IInv, TypeOK, CellRecords
<1> HIDE DEF after
<1>5. new \in CellRecords
  BY <1>2, <1>3 DEF CellRecords, States
<1>6. e \in Entries
  BY <1>1, <1>2 DEF Entries, Documents, CellRecords
<1>7. CellShape(new) /\ new.receipt = old.receipt /\ new.grant = old.grant
  BY <1>2, <1>3 DEF CellShape, AfterReceipt, CellRecords
<1>8. /\ Free(l)
      /\ entries' = [entries EXCEPT ![l] = Append(@, e)]
      /\ UNCHANGED <<writing, up, issued, consumed>>
  BY DEF RecordEvidence, Append1
<1>9. new.receipt = cells[l][c].receipt /\ new.grant = cells[l][c].grant
  BY <1>7
<1>10. ASSUME History PROVE CellHistory(new)
  <2>1. CellHistory(old)
    BY <1>1, <1>10 DEF History
  <2> HIDE DEF c
  <2> QED BY <1>2, <1>3, <2>1 DEF CellHistory, CellRecords
<1>11. Brings(e, old, new)
  BY <1>2, <1>3 DEF Brings, Held, HeldKinds, CellRecords
<1>12. writing'[l] = NoDoc /\ issued' = issued /\ \A k \in Ledgers : writing'[k] = writing[k]
  BY <1>8 DEF Free
<1>13. old = cells[l][c] /\ e.cell = c
  OBVIOUS
<1>16. ASSUME History, Audit
       PROVE  new = CellAfter(old, e) /\ Located(new, c) /\ Accepts(l, c, e)
  <2>1. /\ v.receipt = old.receipt /\ AppendTimeOk(l, v.at)
        /\ \A f \in old.evidence : v.id # f.id
    BY DEF RecordEvidence
  <2>2. \A d \in Cells : Located(cells[l][d], d)
    BY <1>16 DEF Audit, Audited
  <2>3. \A d \in Cells : v \notin Held(cells[l][d], "Evidence")
    BY <2>1, <2>2 DEF Held, Located
  <2>4. v \notin {f.doc : f \in Seen(entries[l])}
    <3> DEFINE kind == "Evidence"
    <3>1. kind \in HeldKinds /\ v \in DocsOf(kind) /\ \A d \in Cells : v \notin Held(cells[l][d], kind)
      BY <2>3 DEF HeldKinds, DocsOf
    <3> HIDE DEF kind
    <3> QED BY <1>16, <3>1, NotRead DEF Audit
  <2>5. new = CellAfter(old, e)
    <3> HIDE DEF old
    <3> QED BY <1>2 DEF CellAfter, CellRecords, after
  <2>6. Located(old, c) /\ v.cell = c
    BY <1>1, <2>2
  <2>7. Located(new, c)
    <3> HIDE DEF old, c
    <3> QED BY <1>2, <1>3, <2>6 DEF Located, CellRecords
  <2>8. TransitionOk(old, e) /\ RecordedAtOk(e)
    <3> HIDE DEF old
    <3> QED BY <1>3, <2>1 DEF TransitionOk, EvidenceOk, RecordedAtOk
  <2>9. old.receipt # NoDoc
    BY <1>2, <1>3 DEF CellShape, AfterReceipt
  <2>10. {old.receipt} \subseteq {f.doc : f \in Seen(entries[l])}
    BY <1>1, <1>16, <2>9, ReceiptIsSeen DEF Audit
  <2> QED BY <2>1, <2>4, <2>5, <2>7, <2>8, <2>10 DEF Accepts
<1>17. e.kind \in HeldKinds
  BY DEF HeldKinds
<1> HIDE DEF c, old, new, e
<1>14. IInv'
  BY <1>1, <1>4, <1>5, <1>6, <1>7, <1>8, <1>9, CellStep
<1>15. ASSUME History PROVE History'
  BY <1>1, <1>4, <1>5, <1>6, <1>8, <1>10, <1>11, <1>12, <1>13, <1>15, HistoryStep
<1>18. ASSUME History, Audit PROVE Audit'
  BY <1>1, <1>4, <1>5, <1>6, <1>8, <1>12, <1>13, <1>16, <1>17, <1>18, AuditStep
<1> QED BY <1>14, <1>15, <1>18

\* record_decision keeps the invariant.
LEMMA RecordDecisionInv ==
    ASSUME IInv, NEW l \in Ledgers, NEW c \in Cells, NEW level \in Levels, NEW at \in Times,
           NEW E \in SUBSET cells[l][c].evidence,
           RecordDecision(l, DecisionDoc(l, c, E, level, at))
    PROVE  IInv' /\ (History => History') /\ (History /\ Audit => Audit')
<1> DEFINE d == DecisionDoc(l, c, E, level, at)
           old == cells[l][c]
           new == [old EXCEPT !.decision = d, !.state = "DECIDED"]
           e == [kind |-> "Decision", cell |-> c, doc |-> d,
                 parents |-> {d.intent, d.receipt} \cup d.evidence, at |-> at]
<1>1. old \in CellRecords /\ CellShape(old)
  BY DEF IInv, TypeOK
<1>2. /\ d.cell = c /\ d.at = at /\ d.intent = old.intent /\ d.receipt = old.receipt
      /\ d.evidence = E
  BY DEF DecisionDoc
<1>3. RecordDecision(l, d)
  OBVIOUS
<1>4. d \in Decisions
  <2>1. old.state = "EVIDENCE_READY"
    BY <1>2, <1>3 DEF RecordDecision
  <2>2. old.intent \in Intents /\ old.receipt \in Receipts
    BY <1>1, <2>1 DEF CellShape, CellRecords, AfterReceipt
  <2>3. E \subseteq Evidence
    BY <1>1 DEF CellRecords
  <2>4. MatrixOf[l] \in Matrices
    BY ConstantsAssumption
  <2> QED BY <2>2, <2>3, <2>4 DEF DecisionDoc, Decisions
<1> HIDE DEF d
<1>5. new \in CellRecords
  BY <1>1, <1>4 DEF CellRecords, States
<1>6. old.intent \in Documents /\ old.receipt \in Documents /\ d \in Documents
  BY <1>1, <1>4 DEF CellRecords, Documents
<1>7. d.evidence \subseteq Documents
  BY <1>1, <1>2 DEF CellRecords, Documents
<1>8. e \in Entries
  <2>1. at \in Nat
    BY ConstantsAssumption DEF Times
  <2> QED BY <1>2, <1>6, <1>7, <2>1 DEF Entries
<1>9. cells' = [cells EXCEPT ![l] = [@ EXCEPT ![c] = new]]
  <2>1. cells' = [cells EXCEPT ![l][d.cell].decision = d, ![l][d.cell].state = "DECIDED"]
    BY <1>3 DEF RecordDecision
  <2>2. cells' = [cells EXCEPT ![l][c].decision = d, ![l][c].state = "DECIDED"]
    BY <1>2, <2>1
  <2> QED BY <1>1, <2>2 DEF IInv, TypeOK, CellRecords
<1>10. /\ Free(l)
       /\ cells[l][c].state = "EVIDENCE_READY"
       /\ entries' = [entries EXCEPT ![l] = Append(@, e)]
       /\ UNCHANGED <<writing, up, issued, consumed>>
  BY <1>2, <1>3 DEF RecordDecision, Append1
<1>11. CellShape(new) /\ new.receipt = cells[l][c].receipt /\ new.grant = cells[l][c].grant
  BY <1>1, <1>10 DEF CellShape, AfterReceipt, CellRecords
<1>12. ASSUME History PROVE CellHistory(new) /\ Brings(e, old, new)
  <2>1. CellHistory(old)
    BY <1>12 DEF History
  <2>2. GatePasses(old.evidence)
    <3>1. d.gate.status = "PASS"
      BY DEF d, DecisionDoc
    <3>2. d.gate = EvidenceGate(old.evidence)
      BY <1>2, <1>3 DEF RecordDecision
    <3> QED BY <3>1, <3>2 DEF EvidenceGate
  <2>3. d.evidence = old.evidence /\ old.receipt.outcome = "SUCCEEDED"
    BY <1>2, <1>3 DEF RecordDecision
  <2>4. CellHistory(new)
    BY <1>1, <1>2, <1>10, <2>1, <2>2, <2>3 DEF CellHistory, CellRecords
  <2>5. Brings(e, old, new)
    BY <1>1, <1>10 DEF Brings, Held, HeldKinds, One, CellRecords
  <2> QED BY <2>4, <2>5
<1>13. writing'[l] = NoDoc /\ issued' = issued /\ \A k \in Ledgers : writing'[k] = writing[k]
  BY <1>10 DEF Free
<1>14. old = cells[l][c] /\ e.cell = c
  OBVIOUS
<1>17. ASSUME History, Audit
       PROVE  new = CellAfter(old, e) /\ Located(new, c) /\ Accepts(l, c, e)
  <2>1. /\ d.gate = EvidenceGate(old.evidence) /\ d.evidence = old.evidence
        /\ old.receipt.outcome = "SUCCEEDED" /\ d.determinism = old.receipt.determinism
        /\ AppendTimeOk(l, at)
    BY <1>2, <1>3 DEF RecordDecision
  <2>2. d.gate.status = "PASS" /\ d.gate.evidence = d.evidence
    BY DEF d, DecisionDoc
  <2>3. \A k \in Cells : Located(cells[l][k], k)
    BY <1>17 DEF Audit, Audited
  <2>4. \A k \in Cells : d \notin Held(cells[l][k], "Decision")
    BY <1>2, <1>10, <2>3 DEF Held, Located
  <2>5. d \notin {f.doc : f \in Seen(entries[l])}
    <3> DEFINE kind == "Decision"
    <3>1. kind \in HeldKinds /\ d \in DocsOf(kind) /\ \A k \in Cells : d \notin Held(cells[l][k], kind)
      BY <1>4, <2>4 DEF HeldKinds, DocsOf
    <3> HIDE DEF kind
    <3> QED BY <1>17, <3>1, NotRead DEF Audit
  <2>6. new = CellAfter(old, e)
    <3> HIDE DEF old
    <3> QED BY <1>1 DEF CellAfter, CellRecords
  <2>7. Located(new, c)
    <3>1. Located(old, c)
      BY <2>3
    <3> HIDE DEF old
    <3> QED BY <1>1, <1>2, <1>10, <1>14, <3>1 DEF Located, CellRecords
  <2>8. TransitionOk(old, e) /\ RecordedAtOk(e)
    <3>1. old.state = "EVIDENCE_READY"
      BY <1>10
    <3> HIDE DEF old
    <3> QED BY <1>2, <2>1, <2>2, <3>1 DEF TransitionOk, DecisionOk, RecordedAtOk
  <2>9. old.intent # NoDoc /\ old.receipt # NoDoc
    BY <1>1, <1>10 DEF CellShape, AfterReceipt
  <2>10. ({old.intent, old.receipt} \cup old.evidence) \subseteq {f.doc : f \in Seen(entries[l])}
    BY <1>17, <2>9, IntentIsSeen, ReceiptIsSeen, EvidenceIsSeen DEF Audit
  <2> QED BY <1>2, <2>1, <2>5, <2>6, <2>7, <2>8, <2>10 DEF Accepts
<1>18. e.kind \in HeldKinds
  BY DEF HeldKinds
<1> HIDE DEF old, new, e
<1>15. IInv'
  BY <1>5, <1>8, <1>9, <1>10, <1>11, CellStep
<1>16. ASSUME History PROVE History'
  BY <1>5, <1>8, <1>9, <1>10, <1>12, <1>13, <1>14, <1>16, HistoryStep
<1>19. ASSUME History, Audit PROVE Audit'
  BY <1>5, <1>8, <1>9, <1>10, <1>13, <1>14, <1>17, <1>18, <1>19, AuditStep
<1> QED BY <1>15, <1>16, <1>19

\* The registry hands out a Grant id once, so the execution that takes it is new.
LEMMA ConsumeGrantInv ==
    ASSUME IInv, NEW l \in Ledgers, NEW r \in Receipts, ConsumeGrant(l, r)
    PROVE  IInv' /\ (History => History') /\ (History /\ Audit => Audit')
<1>1. r.cell \in Cells /\ r # NoDoc
  BY ConstantsAssumption
<1>2. TypeOK'
  BY DEF IInv, TypeOK, ConsumeGrant
<1>3. cells' = cells /\ up' = up
  BY DEF ConsumeGrant
<1>4. writing'[l] = r /\ \A k \in Ledgers : k # l => writing'[k] = writing[k]
  BY DEF ConsumeGrant, IInv, TypeOK
<1>5. ASSUME NEW k \in Ledgers PROVE WritingShape(k)'
  <2>1. CASE k = l
    BY <1>3, <1>4, <2>1 DEF WritingShape, ConsumeGrant, Free
  <2>2. CASE k # l
    BY <1>3, <1>4, <2>2 DEF WritingShape, IInv
  <2> QED BY <2>1, <2>2
<1>6. \A k \in Ledgers, d \in Cells :
         Executed(k, d)' <=> (Executed(k, d) \/ (k = l /\ d = r.cell))
  BY <1>1, <1>3, <1>4 DEF Executed, ConsumeGrant, Free
<1> DEFINE id == cells[l][r.cell].grant.id
<1>7. id \notin consumed /\ consumed' = consumed \cup {id}
  BY DEF ConsumeGrant
<1>8. \A k \in Ledgers, d \in Cells : Executed(k, d)' => cells'[k][d].grant.id \in consumed'
  BY <1>3, <1>6, <1>7 DEF IInv
<1>9. GrantSpentOnce'
  <2> SUFFICES ASSUME NEW k \in Ledgers, NEW m \in Ledgers, NEW c \in Cells, NEW d \in Cells,
                      Executed(k, c)', Executed(m, d)',
                      cells[k][c].grant.id = cells[m][d].grant.id
               PROVE  k = m /\ c = d
    BY <1>3 DEF GrantSpentOnce
  <2>1. CASE Executed(k, c) /\ Executed(m, d)
    BY <2>1 DEF IInv, GrantSpentOnce
  <2>2. CASE ~Executed(k, c) /\ ~Executed(m, d)
    BY <1>6, <2>2
  <2>3. CASE Executed(k, c) /\ ~Executed(m, d)
    BY <1>6, <1>7, <2>3 DEF IInv
  <2>4. CASE ~Executed(k, c) /\ Executed(m, d)
    BY <1>6, <1>7, <2>4 DEF IInv
  <2> QED BY <2>1, <2>2, <2>3, <2>4
<1>10. \A k \in Ledgers, d \in Cells : CellShape(cells'[k][d])
  BY <1>3 DEF IInv
<1>11. ASSUME History PROVE History'
  <2>0. entries' = entries /\ issued' = issued
    BY DEF ConsumeGrant
  <2>1. \A k \in Ledgers, c \in Cells : LedgerShows(k, c)' /\ CellHistory(cells[k][c])'
    BY <1>3, <1>11, <2>0, ShowsKept DEF History, CellHistory
  <2>2. ReceiptOf(r, cells[l][r.cell].grant, cells[l][r.cell].intent)
    BY DEF ConsumeGrant, ReceiptOf
  <2>3. ASSUME NEW k \in Ledgers PROVE WritingHistory(k)'
    <3>1. CASE k = l
      BY <1>3, <1>4, <2>2, <3>1 DEF WritingHistory
    <3>2. CASE k # l
      BY <1>3, <1>4, <1>11, <3>2 DEF WritingHistory, History
    <3> QED BY <3>1, <3>2
  <2> QED BY <2>1, <2>3 DEF History
<1>12. IInv'
  BY <1>2, <1>5, <1>8, <1>9, <1>10 DEF IInv
<1>13. ASSUME Audit PROVE Audit'
  <2>1. entries' = entries /\ issued' = issued /\ AppendTimeOk(l, r.completed)
    BY DEF ConsumeGrant
  <2>2. \A k \in Ledgers : writing'[k] = writing[k] \/ AppendTimeOk(k, writing'[k].completed)
    BY <1>4, <2>1
  <2> QED BY <1>3, <1>13, <2>1, <2>2, AuditKept
<1> QED BY <1>11, <1>12, <1>13

\* The Receipt that record_receipt appends belongs to the execution that took the Grant.
LEMMA AppendReceiptInv ==
    ASSUME IInv, NEW l \in Ledgers, AppendReceipt(l)
    PROVE  IInv' /\ (History => History') /\ (History /\ Audit => Audit')
<1> DEFINE r == writing[l]
           c == r.cell
           old == cells[l][c]
           new == [old EXCEPT !.receipt = r, !.state = "RECEIPT_RECORDED"]
           e == [kind |-> "Receipt", cell |-> c, doc |-> r, parents |-> {r.intent, r.grant},
                 at |-> r.completed]
<1>1. r \in Receipts /\ r # NoDoc
  BY DEF AppendReceipt, IInv, TypeOK
<1>2. c \in Cells /\ r.completed \in Nat /\ r.intent \in Intents /\ r.grant \in Grants
  BY <1>1, ConstantsAssumption
<1>3. TypeOK /\ old \in CellRecords /\ CellShape(old) /\ old.state = "GRANTED"
  BY <1>1, <1>2 DEF IInv, TypeOK, WritingShape
<1>4. new \in CellRecords
  BY <1>1, <1>3 DEF CellRecords, States
<1>5. e \in Entries
  BY <1>1, <1>2 DEF Entries, Documents
<1>6. cells' = [cells EXCEPT ![l] = [@ EXCEPT ![c] = new]]
  BY <1>2, <1>3 DEF AppendReceipt, TypeOK, CellRecords
<1>7. /\ entries' = [entries EXCEPT ![l] = Append(@, e)]
      /\ writing' = [writing EXCEPT ![l] = NoDoc]
      /\ UNCHANGED <<up, issued, consumed>>
  BY DEF AppendReceipt, Append1
<1>8. CellShape(new) /\ new.grant = old.grant /\ new.receipt # NoDoc
  BY <1>1, <1>3 DEF CellShape, AfterReceipt, CellRecords
<1>9. Executed(l, c)
  BY <1>1 DEF Executed
<1>10. old = cells[l][c] /\ e.cell = c /\ r = writing[l]
  OBVIOUS
<1>11. ASSUME History PROVE CellHistory(new) /\ Brings(e, old, new)
  <2>1. CellHistory(old) /\ ReceiptOf(r, old.grant, old.intent)
    BY <1>1, <1>2, <1>11 DEF History, WritingHistory
  <2>2. old.receipt = NoDoc
    BY <1>3, <2>1 DEF CellHistory, CellShape, AfterReceipt
  <2> HIDE DEF c, r
  <2>3. CellHistory(new)
    BY <1>3, <2>1, <2>2 DEF CellHistory, CellRecords
  <2>4. Brings(e, old, new)
    BY <1>1, <1>3, <2>2 DEF Brings, Held, HeldKinds, One, CellRecords
  <2> QED BY <2>3, <2>4
<1>22. ASSUME History, Audit
       PROVE  new = CellAfter(old, e) /\ Located(new, c) /\ Accepts(l, c, e)
  <2>1. /\ CellHistory(old) /\ ReceiptOf(r, old.grant, old.intent)
        /\ AppendTimeOk(l, r.completed)
    BY <1>1, <1>2, <1>22 DEF History, WritingHistory, Audit, Audited
  <2>2. \A d \in Cells : Located(cells[l][d], d)
    BY <1>22 DEF Audit, Audited
  <2>3. old.receipt = NoDoc
    BY <1>3 DEF CellShape, AfterReceipt
  <2>4. \A d \in Cells : r \notin Held(cells[l][d], "Receipt")
    <3> SUFFICES ASSUME NEW d \in Cells, r \in Held(cells[l][d], "Receipt") PROVE FALSE
      OBVIOUS
    <3>1. cells[l][d].receipt = r
      BY DEF Held, One
    <3>2. r.cell = d
      BY <1>1, <2>2, <3>1 DEF Located
    <3> QED BY <1>1, <2>3, <3>1, <3>2
  <2>5. r \notin {f.doc : f \in Seen(entries[l])}
    <3> DEFINE kind == "Receipt"
    <3>1. kind \in HeldKinds /\ r \in DocsOf(kind) /\ \A d \in Cells : r \notin Held(cells[l][d], kind)
      BY <1>1, <2>4 DEF HeldKinds, DocsOf
    <3> HIDE DEF kind, r
    <3> QED BY <1>22, <3>1, NotRead DEF Audit
  <2>6. new = CellAfter(old, e)
    <3> HIDE DEF old, r, c
    <3> QED BY <1>3 DEF CellAfter, CellRecords
  <2>7. Located(old, c) /\ r.cell = c
    BY <1>2, <2>2
  <2>8. Located(new, c)
    <3> HIDE DEF old, c, r
    <3> QED BY <1>3, <2>7 DEF Located, CellRecords
  <2>9. TransitionOk(old, e) /\ RecordedAtOk(e)
    <3> HIDE DEF old, r, c
    <3> QED BY <1>3, <2>1 DEF TransitionOk, ReceiptOk, ReceiptOf, RecordedAtOk
  <2>10. old.intent # NoDoc /\ old.grant # NoDoc /\ r.intent = old.intent /\ r.grant = old.grant
    BY <1>2, <1>3, <2>1, ConstantsAssumption DEF ReceiptOf
  <2>11. {r.intent, r.grant} \subseteq {f.doc : f \in Seen(entries[l])}
    BY <1>2, <1>22, <2>10, IntentIsSeen, GrantIsSeen DEF Audit
  <2> QED BY <2>1, <2>5, <2>6, <2>8, <2>9, <2>11 DEF Accepts
<1>23. e.kind \in HeldKinds
  BY DEF HeldKinds
<1> HIDE DEF c, old, new, e
<1>12. /\ cells' \in [Ledgers -> [Cells -> CellRecords]]
       /\ cells'[l][c] = new
       /\ \A k \in Ledgers, d \in Cells : (k # l \/ d # c) => cells'[k][d] = cells[k][d]
  BY <1>2, <1>3, <1>4, <1>6, CellWrite
<1>13. entries' \in [Ledgers -> Seq(Entries)]
  BY <1>3, <1>5, <1>7, AppendType DEF TypeOK
<1>14. TypeOK'
  BY <1>3, <1>7, <1>12, <1>13 DEF TypeOK
<1>15. writing'[l] = NoDoc /\ \A k \in Ledgers : k # l => writing'[k] = writing[k]
  BY <1>3, <1>7 DEF TypeOK
<1>16. \A k \in Ledgers, d \in Cells : CellShape(cells'[k][d])
  BY <1>8, <1>12 DEF IInv
<1>17. ASSUME NEW k \in Ledgers PROVE WritingShape(k)'
  <2>1. CASE k = l
    BY <1>15, <2>1 DEF WritingShape
  <2>2. CASE k # l
    <3>1. cells'[k] = cells[k]
      BY <1>3, <1>6, <2>2 DEF TypeOK
    <3> QED BY <1>7, <1>15, <2>2, <3>1 DEF WritingShape, IInv
  <2> QED BY <2>1, <2>2
<1>18. ASSUME NEW k \in Ledgers, NEW d \in Cells, Executed(k, d)'
       PROVE  Executed(k, d) /\ cells'[k][d].grant = cells[k][d].grant
  <2>1. CASE k = l /\ d = c
    BY <1>8, <1>9, <1>10, <1>12, <2>1
  <2>2. CASE k # l \/ d # c
    <3>1. cells'[k][d] = cells[k][d]
      BY <1>12, <2>2
    <3>2. writing'[k] = writing[k] \/ writing'[k] = NoDoc
      BY <1>15
    <3> QED BY <1>18, <3>1, <3>2 DEF Executed
  <2> QED BY <2>1, <2>2
<1>19. /\ \A k \in Ledgers, d \in Cells : Executed(k, d)' => cells'[k][d].grant.id \in consumed'
       /\ GrantSpentOnce'
  BY <1>7, <1>18, SameExecutions
<1>20. IInv'
  BY <1>14, <1>16, <1>17, <1>19 DEF IInv
<1>21. ASSUME History PROVE History'
  BY <1>2, <1>4, <1>5, <1>6, <1>7, <1>10, <1>15, <1>11, <1>21, HistoryStep
<1>24. ASSUME History, Audit PROVE Audit'
  BY <1>2, <1>4, <1>5, <1>6, <1>7, <1>10, <1>15, <1>22, <1>23, <1>24, AuditStep
<1> QED BY <1>20, <1>21, <1>24

\* Issuing a Grant, a crash and a step that changes nothing leave the cells alone.
LEMMA OtherStepsInv ==
    ASSUME IInv,
           \/ \E g \in Grants : IssueGrant(g) \/ MigrateApproval(g)
           \/ \E l \in Ledgers : Crash(l)
           \/ UNCHANGED vars
    PROVE  IInv' /\ (History => History') /\ (History /\ Audit => Audit')
<1>1. cells' = cells /\ entries' = entries /\ consumed' = consumed
  BY DEF IssueGrant, MigrateApproval, Crash, vars
<1>2. TypeOK'
  BY <1>1 DEF IInv, TypeOK, IssueGrant, MigrateApproval, Crash, vars
<1>3. \A l \in Ledgers : (writing'[l] = writing[l] /\ up'[l] = up[l]) \/ writing'[l] = NoDoc
  BY DEF IInv, TypeOK, IssueGrant, MigrateApproval, Crash, vars
<1>4. \A l \in Ledgers : WritingShape(l)'
  BY <1>1, <1>3 DEF IInv, WritingShape
<1>5. \A l \in Ledgers, c \in Cells : CellShape(cells'[l][c])
  BY <1>1 DEF IInv
<1>6. \A l \in Ledgers, c \in Cells :
         Executed(l, c)' => Executed(l, c) /\ cells'[l][c].grant = cells[l][c].grant
  BY <1>1, <1>3 DEF Executed
<1>7. /\ \A l \in Ledgers, c \in Cells : Executed(l, c)' => cells'[l][c].grant.id \in consumed'
      /\ GrantSpentOnce'
  BY <1>1, <1>6, SameExecutions
<1>8. IInv'
  BY <1>2, <1>4, <1>5, <1>7 DEF IInv
<1>9. ASSUME History PROVE History'
  <2>1. issued \subseteq issued'
    BY DEF IssueGrant, MigrateApproval, Crash, vars
  <2>2. ASSUME NEW l \in Ledgers, NEW c \in Cells
        PROVE  LedgerShows(l, c)' /\ CellHistory(cells[l][c])'
    <3>1. LedgerShows(l, c) /\ CellHistory(cells[l][c])
      BY <1>9 DEF History
    <3>2. LedgerShows(l, c)'
      BY <1>1, <3>1, ShowsKept
    <3>3. CellHistory(cells[l][c])'
      BY <1>1, <2>1, <3>1 DEF CellHistory
    <3> QED BY <3>2, <3>3
  <2>3. \A l \in Ledgers : WritingHistory(l)'
    BY <1>1, <1>3, <1>9 DEF History, WritingHistory
  <2> QED BY <2>2, <2>3 DEF History
<1>10. ASSUME Audit PROVE Audit'
  <2>1. issued \subseteq issued'
    BY DEF IssueGrant, MigrateApproval, Crash, vars
  <2> QED BY <1>1, <1>3, <1>10, <2>1, AuditKept
<1> QED BY <1>8, <1>9, <1>10

\* Every step of every process keeps the inductive invariant, and with it the history.
LEMMA NextInv ==
    IInv /\ [Next]_vars => IInv' /\ (History => History') /\ (History /\ Audit => Audit')
<1> DEFINE Kept == IInv' /\ (History => History') /\ (History /\ Audit => Audit')
<1> SUFFICES ASSUME IInv, [Next]_vars PROVE Kept
  OBVIOUS
<1>1. CASE \E g \in Grants : IssueGrant(g) \/ MigrateApproval(g)
  BY <1>1, OtherStepsInv
<1>2. CASE UNCHANGED vars
  BY <1>2, OtherStepsInv
<1>3. ASSUME NEW l \in Ledgers, \E i \in Intents : RecordIntent(l, i) PROVE Kept
  BY <1>3, RecordIntentInv
<1>4. ASSUME NEW l \in Ledgers, \E g \in Grants, at \in Times : RecordGrant(l, g, at)
      PROVE  Kept
  BY <1>4, RecordGrantInv
<1>5. ASSUME NEW l \in Ledgers, \E r \in Receipts : ConsumeGrant(l, r) PROVE Kept
  BY <1>5, ConsumeGrantInv
<1>6. ASSUME NEW l \in Ledgers, AppendReceipt(l) PROVE Kept
  BY <1>6, AppendReceiptInv
<1>7. ASSUME NEW l \in Ledgers, \E e \in Evidence : RecordEvidence(l, e) PROVE Kept
  BY <1>7, RecordEvidenceInv
<1>8. ASSUME NEW l \in Ledgers,
             \E c \in ReadyCells(l), level \in Levels, at \in Times :
                 \E E \in SUBSET cells[l][c].evidence :
                     RecordDecision(l, DecisionDoc(l, c, E, level, at))
      PROVE  Kept
  BY <1>8, RecordDecisionInv DEF ReadyCells
<1>9. ASSUME NEW l \in Ledgers, Crash(l) PROVE Kept
  BY <1>9, OtherStepsInv
<1> QED BY <1>1, <1>2, <1>3, <1>4, <1>5, <1>6, <1>7, <1>8, <1>9 DEF Next

\* The documents, cells and entries of every ledger keep their types, through all
\* interleavings of record_* calls of all processes, and their crashes.
THEOREM LedgerTypeCorrect == Spec => []TypeOK
<1>1. IInv => TypeOK
  BY DEF IInv
<1> QED BY <1>1, InitInv, NextInv, PTL DEF Spec

\* A Grant id backs at most one execution in all ledgers together: the write to the
\* registry in record_receipt comes before the append, and only one caller gets it.
THEOREM GrantBacksOneExecution == Spec => []GrantSpentOnce
<1>1. IInv => GrantSpentOnce
  BY DEF IInv
<1> QED BY <1>1, InitInv, NextInv, PTL DEF Spec

\* A Decision of a ledger is justified by the entries about its cell, in every process and
\* through every crash: the cell that record_decision looks at stands for those entries,
\* and nothing is added to it once it is decided.
THEOREM DecisionsAreJustified == Spec => []DecisionJustified
<1> QED BY InitInv, InitHistory, NextInv, HistoryJustifies, PTL DEF Spec

\* An auditor who replays any snapshot of any ledger accepts it, rebuilds its cells and finds
\* every Grant signed for the Intent before it, however record_* calls of the processes
\* interleave and wherever they crash.
THEOREM SnapshotsVerify == Spec => []SnapshotVerifies
<1> QED BY InitInv, InitHistory, InitAudit, NextInv, AuditVerifies, PTL DEF Spec
=============================================================================
