------------------------------ MODULE ToolsProofs ------------------------------
(***************************************************************************)
(* The components that run beside the control plane, as MCTools has them   *)
(* together: the receive window answers every frame with one receipt, a    *)
(* user is told what needs a user, no effect is handed over without its    *)
(* evidence, a process of the GPU server rests on an approval token of its *)
(* own, candidates are charged once and admitted within the rates, the     *)
(* dataset server tells of the manifest that is published, and the         *)
(* workspace executor loses nothing of what it changes; for any number of  *)
(* threads, frames, nodes, effects, servers, callers, campaigns, attempts, *)
(* files and failing system calls.                                         *)
(***************************************************************************)
EXTENDS ReceiptChannel, Tools, FiniteSetTheorems, SequenceTheorems, TLAPS

-----------------------------------------------------------------------------
(* The receive window of the channel.                                      *)

Bytes == {f.bytes : f \in Frames}
Busy == [pc : {"claim", "route", "install", "commit"}, frame : Frames, receipt : Nat]
Holds(t) == thread[t].pc \in {"route", "install", "commit"}

Shapes == /\ head \in SequenceNumbers \cup {0}
          /\ routes \in Nat
          /\ claims \in [SequenceNumbers -> Bytes \cup {None}]
          /\ records \in [SequenceNumbers -> [frame : Bytes \cup {None}, receipt : Nat]]
          /\ thread \in [Threads -> {Idle} \cup Busy]

\* The claim of the next number and the thread that holds it belong together.
OneHolder == /\ \A t \in Threads : Holds(t) => /\ SequenceOf(t) = head + 1
                                               /\ claims[SequenceOf(t)] = Frame(t).bytes
             /\ \A t, u \in Threads : Holds(t) /\ Holds(u) => t = u
             /\ \A n \in SequenceNumbers : claims[n] # None =>
                    \E t \in Threads : Holds(t) /\ SequenceOf(t) = n

\* Receipts are installed up to the head, at most one beyond it, and for the frame
\* that is about to be committed.
Installed == /\ \A n \in SequenceNumbers :
                  /\ n <= head => records[n].frame # None
                  /\ n > head + 1 => records[n] = NoReceipt
                  /\ records[n] # NoReceipt => records[n].frame # None
             /\ \A t \in Threads : At(t, "commit") =>
                    records[SequenceOf(t)].frame = Frame(t).bytes

\* What was answered is what the window keeps.
Answered == \A a \in answers :
              /\ a.sequence \in SequenceNumbers /\ a.sequence <= head
              /\ a = [sequence |-> a.sequence, frame |-> records[a.sequence].frame,
                      receipt |-> records[a.sequence].receipt]

\* OneReceipt needs that an installed receipt is never replaced, and that in turn
\* that one thread at a time works at the head.
IInv == Shapes /\ OneHolder /\ Installed /\ Answered

\* The sequence numbers of authentic frames are positive, their bytes are bytes.
LEMMA FrameShape ==
    ASSUME NEW f \in Frames
    PROVE  /\ f.sequence \in SequenceNumbers /\ f.sequence \in Nat \ {0}
           /\ f.bytes \in Bytes /\ f.bytes # None
BY FramesOK DEF SequenceNumbers, Bytes, None

LEMMA NumberShape == SequenceNumbers \subseteq Nat \ {0}
BY FramesOK DEF SequenceNumbers

\* A thread in a call carries a frame.
LEMMA CallShape ==
    ASSUME Shapes, NEW t \in Threads, ~At(t, "idle")
    PROVE  /\ thread[t] \in Busy
           /\ Frame(t) \in Frames /\ SequenceOf(t) \in SequenceNumbers
           /\ Frame(t).bytes \in Bytes /\ Frame(t).bytes # None
<1>1. thread[t] \in Busy
  BY DEF Shapes, At, Idle
<1>2. Frame(t) \in Frames
  BY <1>1 DEF Busy, Frame
<1> QED BY <1>1, <1>2, FrameShape DEF SequenceOf

\* Nothing is claimed, installed or answered yet.
LEMMA InitInv == Init => IInv
<1> SUFFICES ASSUME Init PROVE IInv
  OBVIOUS
<1>1. \A t \in Threads : thread[t] = Idle /\ ~Holds(t) /\ ~At(t, "commit")
  BY DEF Init, Idle, Holds, At
<1>2. NoReceipt \in [frame : Bytes \cup {None}, receipt : Nat]
  BY DEF NoReceipt
<1>3. Shapes
  BY <1>2 DEF Init, Shapes
<1>4. OneHolder
  BY <1>1 DEF Init, OneHolder
<1>5. Installed
  BY <1>1, NumberShape DEF Init, Installed
<1>6. Answered
  BY DEF Init, Answered
<1> QED BY <1>3, <1>4, <1>5, <1>6 DEF IInv

\* Steps of a thread that touch neither the window nor the answers.
LEMMA WindowKept ==
    ASSUME IInv, UNCHANGED <<store, answers>>, NEW t \in Threads, NEW call \in {Idle} \cup Busy,
           thread' = [thread EXCEPT ![t] = call], routes' \in Nat,
           \/ ~Holds(t) /\ call.pc \in {"idle", "claim"}
           \/ Holds(t) /\ call.pc = "install" /\ call.frame = Frame(t)
    PROVE  IInv'
<1>1. /\ thread'[t] = call
      /\ \A u \in Threads \ {t} : thread'[u] = thread[u]
      /\ thread' \in [Threads -> {Idle} \cup Busy]
  BY DEF IInv, Shapes
<1>2. Shapes'
  BY <1>1 DEF IInv, Shapes, store
<1>3. \A u \in Threads : Holds(u)' <=> Holds(u)
  BY <1>1 DEF Holds
<1>4. \A u \in Threads : Holds(u) => thread'[u].frame = thread[u].frame
  BY <1>1 DEF Frame
<1>5. OneHolder'
  BY <1>3, <1>4 DEF IInv, OneHolder, SequenceOf, Frame, store
<1>6. \A u \in Threads : At(u, "commit")' => At(u, "commit") /\ thread'[u] = thread[u]
  BY <1>1 DEF At
<1>7. Installed'
  BY <1>6 DEF IInv, Installed, SequenceOf, Frame, store
<1>8. Answered'
  BY DEF IInv, Answered, store
<1> QED BY <1>2, <1>5, <1>7, <1>8 DEF IInv

\* A replay below the head is answered with the receipt that is installed.
LEMMA ReplayStep ==
    ASSUME IInv, NEW t \in Threads, At(t, "claim"), SequenceOf(t) <= head, Replays(t),
           Return(t, records[SequenceOf(t)]), UNCHANGED <<store, routes>>
    PROVE  IInv'
<1> DEFINE n == SequenceOf(t)
<1>1. /\ n \in SequenceNumbers /\ ~Holds(t)
      /\ Frame(t).bytes = records[n].frame
  BY CallShape DEF IInv, At, Holds, Replays
<1>2. \A u \in Threads : (Holds(u)' <=> Holds(u)) /\ (Holds(u) => thread'[u] = thread[u])
  BY <1>1 DEF IInv, Shapes, Return, Holds, Idle
<1>3. Shapes'
  BY DEF IInv, Shapes, Return, store
<1>4. OneHolder'
  BY <1>2 DEF IInv, OneHolder, SequenceOf, Frame, store
<1>5. \A u \in Threads : At(u, "commit")' => At(u, "commit") /\ thread'[u] = thread[u]
  BY <1>2 DEF At, Holds
<1>6. Installed'
  BY <1>5 DEF IInv, Installed, SequenceOf, Frame, store
<1>7. answers' = answers \cup {[sequence |-> n, frame |-> records[n].frame,
                                receipt |-> records[n].receipt]}
  BY <1>1 DEF Return
<1>8. Answered'
  BY <1>1, <1>7 DEF IInv, Answered, store
<1> QED BY <1>3, <1>4, <1>6, <1>8 DEF IInv

\* The next number is claimed by a thread while nobody holds it.
LEMMA ClaimHeadStep ==
    ASSUME IInv, NEW t \in Threads, At(t, "claim"), Free(t), SequenceOf(t) = head + 1,
           claims' = [claims EXCEPT ![SequenceOf(t)] = Frame(t).bytes], Goto(t, "route"),
           UNCHANGED <<head, records, answers, routes>>
    PROVE  IInv'
<1> DEFINE n == SequenceOf(t)
<1>1. /\ thread[t] \in Busy /\ n \in SequenceNumbers /\ ~Holds(t)
      /\ Frame(t).bytes \in Bytes /\ Frame(t).bytes # None
  BY CallShape DEF IInv, At, Holds
<1>2. \A u \in Threads : ~Holds(u)
  <2> SUFFICES ASSUME NEW u \in Threads, Holds(u) PROVE FALSE
    OBVIOUS
  <2>1. SequenceOf(u) = n /\ claims[n] = Frame(u).bytes
    BY DEF IInv, OneHolder
  <2>2. Frame(u).bytes # None
    BY CallShape DEF IInv, Holds, At
  <2> QED BY <2>1, <2>2 DEF Free
<1>3. /\ thread'[t] = [thread[t] EXCEPT !.pc = "route"]
      /\ \A u \in Threads \ {t} : thread'[u] = thread[u]
      /\ thread' \in [Threads -> {Idle} \cup Busy]
  BY <1>1 DEF IInv, Shapes, Goto, Busy
<1>4. /\ thread'[t].frame = thread[t].frame /\ thread'[t].pc = "route"
      /\ \A u \in Threads : Holds(u)' <=> u = t
  BY <1>1, <1>2, <1>3 DEF Busy, Holds
<1>5. /\ claims'[n] = Frame(t).bytes
      /\ \A m \in SequenceNumbers \ {n} : claims'[m] = claims[m]
      /\ claims' \in [SequenceNumbers -> Bytes \cup {None}]
  BY <1>1 DEF IInv, Shapes
<1>6. Shapes'
  BY <1>3, <1>5 DEF IInv, Shapes
<1>7. \A m \in SequenceNumbers : claims'[m] # None => m = n
  BY <1>2, <1>5 DEF IInv, OneHolder
<1>8. OneHolder'
  BY <1>4, <1>5, <1>7 DEF OneHolder, SequenceOf, Frame
<1>9. \A u \in Threads : ~At(u, "commit")'
  BY <1>2, <1>3, <1>4 DEF At, Holds
<1>10. Installed'
  BY <1>9 DEF IInv, Installed
<1>11. Answered'
  BY DEF IInv, Answered
<1> QED BY <1>6, <1>8, <1>10, <1>11 DEF IInv

\* The holder gives the claim back.
LEMMA AbortStep ==
    ASSUME IInv, NEW t \in Threads, Holds(t), Abort(t), Reject(t),
           UNCHANGED <<head, records, routes>>
    PROVE  IInv'
<1> DEFINE n == SequenceOf(t)
<1>1. n \in SequenceNumbers
  BY CallShape DEF IInv, Holds, At
<1>2. \A u \in Threads : ~Holds(u)' /\ ~At(u, "commit")'
  BY DEF IInv, Shapes, OneHolder, Reject, Holds, At, Idle
<1>3. claims' = [claims EXCEPT ![n] = None] /\ UNCHANGED answers
  BY DEF Abort, Reject
<1>4. Shapes'
  BY <1>1, <1>3 DEF IInv, Shapes, Reject
<1>5. \A m \in SequenceNumbers : claims[m] # None => m = n
  BY DEF IInv, OneHolder
<1>6. \A m \in SequenceNumbers : claims'[m] = None
  BY <1>1, <1>3, <1>5 DEF IInv, Shapes
<1>7. OneHolder'
  BY <1>2, <1>6 DEF OneHolder
<1>8. Installed'
  BY <1>2 DEF IInv, Installed
<1>9. Answered'
  BY <1>3 DEF IInv, Answered
<1> QED BY <1>4, <1>7, <1>8, <1>9 DEF IInv

\* A receipt is installed at the head, or the one that is there is kept.
LEMMA InstallStep ==
    ASSUME IInv, NEW t \in Threads, InstallOrGet(t)
    PROVE  IInv'
<1> DEFINE n == SequenceOf(t)
           mine == [frame |-> Frame(t).bytes, receipt |-> thread[t].receipt]
<1>1. /\ At(t, "install") /\ Holds(t)
      /\ records[n].frame \in {None, Frame(t).bytes}
      /\ records' = IF records[n] # NoReceipt THEN records ELSE [records EXCEPT ![n] = mine]
      /\ Goto(t, "commit")
      /\ UNCHANGED <<head, claims, answers, routes>>
  BY DEF InstallOrGet, At, Holds
<1>2. /\ thread[t] \in Busy /\ n \in SequenceNumbers
      /\ Frame(t).bytes \in Bytes /\ Frame(t).bytes # None /\ n = head + 1
  BY <1>1, CallShape DEF IInv, At, OneHolder
<1>3. /\ thread'[t] = [thread[t] EXCEPT !.pc = "commit"]
      /\ \A u \in Threads \ {t} : thread'[u] = thread[u]
      /\ thread' \in [Threads -> {Idle} \cup Busy]
  BY <1>1, <1>2 DEF IInv, Shapes, Goto, Busy
<1>4. /\ thread'[t].frame = thread[t].frame /\ thread'[t].pc = "commit"
      /\ \A u \in Threads : (Holds(u)' <=> Holds(u)) /\ thread'[u].frame = thread[u].frame
  BY <1>1, <1>2, <1>3 DEF Busy, Holds
<1>5. mine \in [frame : Bytes \cup {None}, receipt : Nat]
  BY <1>2 DEF Busy
<1>6. /\ records' \in [SequenceNumbers -> [frame : Bytes \cup {None}, receipt : Nat]]
      /\ \A m \in SequenceNumbers \ {n} : records'[m] = records[m]
  BY <1>1, <1>2, <1>5 DEF IInv, Shapes
<1>7. records'[n].frame = Frame(t).bytes
  <2>1. CASE records[n] # NoReceipt
    BY <2>1, <1>1, <1>2 DEF IInv, Installed
  <2>2. CASE records[n] = NoReceipt
    <3>1. records'[n] = mine
      BY <2>2, <1>1, <1>2 DEF IInv, Shapes
    <3> QED BY <3>1
  <2> QED BY <2>1, <2>2
<1>8. Shapes'
  BY <1>1, <1>3, <1>6 DEF IInv, Shapes
<1>9. OneHolder'
  BY <1>1, <1>3, <1>4 DEF IInv, OneHolder, SequenceOf, Frame
<1>10. Installed'
  <2>1. head \in Nat /\ SequenceNumbers \subseteq Nat
    BY NumberShape DEF IInv, Shapes
  <2>2. \A m \in SequenceNumbers :
          /\ m <= head' => records'[m].frame # None
          /\ m > head' + 1 => records'[m] = NoReceipt
          /\ records'[m] # NoReceipt => records'[m].frame # None
    BY <2>1, <1>1, <1>2, <1>6, <1>7 DEF IInv, Installed
  <2>3. \A u \in Threads : At(u, "commit")' => u = t
    BY <1>1, <1>4 DEF IInv, OneHolder, At, Holds
  <2>4. thread'[t].frame.sequence = n /\ thread'[t].frame.bytes = Frame(t).bytes
    BY <1>4 DEF SequenceOf, Frame
  <2> QED BY <2>2, <2>3, <2>4, <1>7 DEF Installed, SequenceOf, Frame
<1>11. Answered'
  <2>1. head \in Nat /\ SequenceNumbers \subseteq Nat
    BY NumberShape DEF IInv, Shapes
  <2>2. \A a \in answers : a.sequence \in SequenceNumbers \ {n}
    BY <2>1, <1>2 DEF IInv, Answered
  <2> QED BY <2>2, <1>1, <1>6 DEF IInv, Answered
<1> QED BY <1>8, <1>9, <1>10, <1>11 DEF IInv

\* The head moves to the number whose receipt is installed.
LEMMA CommitStep ==
    ASSUME IInv, NEW t \in Threads, Commit(t)
    PROVE  IInv'
<1> DEFINE n == SequenceOf(t)
<1>1. /\ At(t, "commit") /\ Holds(t)
      /\ head' = n /\ claims' = [claims EXCEPT ![n] = None]
      /\ thread' = [thread EXCEPT ![t] = Idle]
      /\ answers' = answers \cup {[sequence |-> n, frame |-> Frame(t).bytes,
                                   receipt |-> records[n].receipt]}
      /\ UNCHANGED <<records, routes>>
  BY DEF Commit, CommitHead, Return, At, Holds
<1>2. /\ n \in SequenceNumbers /\ n = head + 1
      /\ Frame(t).bytes # None /\ records[n].frame = Frame(t).bytes
  BY <1>1, CallShape DEF IInv, At, OneHolder, Installed
<1>3. head \in Nat /\ SequenceNumbers \subseteq Nat
  BY NumberShape DEF IInv, Shapes
<1>4. \A u \in Threads : ~Holds(u)' /\ ~At(u, "commit")'
  BY <1>1 DEF IInv, Shapes, OneHolder, Holds, At, Idle
<1>5. Shapes'
  BY <1>1, <1>2 DEF IInv, Shapes
<1>6. \A m \in SequenceNumbers : claims[m] # None => m = n
  BY <1>1, <1>2 DEF IInv, OneHolder
<1>7. \A m \in SequenceNumbers : claims'[m] = None
  BY <1>1, <1>2, <1>6 DEF IInv, Shapes
<1>8. OneHolder'
  BY <1>4, <1>7 DEF OneHolder
<1>9. \A m \in SequenceNumbers : m <= n => m <= head \/ m = n
  <2>1. n = head + 1
    BY <1>2
  <2> HIDE DEF n
  <2> QED BY <1>3, <2>1
<1>10. Installed'
  <2>1. \A m \in SequenceNumbers :
          /\ m <= head' => records'[m].frame # None
          /\ m > head' + 1 => records'[m] = NoReceipt
          /\ records'[m] # NoReceipt => records'[m].frame # None
    <3>1. \A m \in SequenceNumbers :
            /\ m <= head => records[m].frame # None
            /\ m > head + 1 => records[m] = NoReceipt
            /\ records[m] # NoReceipt => records[m].frame # None
      BY DEF IInv, Installed
    <3>2. records' = records /\ head' = n
      BY <1>1
    <3>3. n = head + 1 /\ n \in Nat /\ records[n].frame # None
      BY <1>2, <1>3
    <3> HIDE DEF n
    <3>4. \A m \in SequenceNumbers : m > n + 1 => m > head + 1
      BY <1>3, <3>3
    <3> QED BY <1>9, <3>1, <3>2, <3>3, <3>4
  <2> QED BY <2>1, <1>4 DEF Installed
<1>11. Answered'
  BY <1>1, <1>2, <1>3 DEF IInv, Answered
<1> QED BY <1>5, <1>8, <1>10, <1>11 DEF IInv

\* IInv is inductive.
LEMMA NextInv == IInv /\ [Next]_vars => IInv'
<1> SUFFICES ASSUME IInv, [Next]_vars PROVE IInv'
  OBVIOUS
<1>1. CASE UNCHANGED vars
  BY <1>1 DEF IInv, Shapes, OneHolder, Installed, Answered, Holds, At, SequenceOf, Frame, vars
<1>2. ASSUME NEW t \in Threads, NEW f \in Frames, Deliver(t, f) PROVE IInv'
  <2> DEFINE call == [pc |-> "claim", frame |-> f, receipt |-> 0]
  <2>1. call \in Busy /\ call.pc = "claim" /\ ~Holds(t)
    BY <1>2 DEF Deliver, Busy, At, Holds
  <2>2. thread' = [thread EXCEPT ![t] = call] /\ UNCHANGED <<store, answers, routes>>
    BY <1>2 DEF Deliver
  <2>3. routes' \in Nat
    BY <2>2 DEF IInv, Shapes
  <2> HIDE DEF call
  <2> QED BY <2>1, <2>2, <2>3, WindowKept
<1>3. ASSUME NEW t \in Threads, Claim(t) PROVE IInv'
  <2>1. At(t, "claim") /\ ~Holds(t) /\ UNCHANGED <<head, records, routes>>
    BY <1>3 DEF Claim, At, Holds
  <2>2. routes' \in Nat /\ Idle.pc = "idle"
    BY <2>1 DEF IInv, Shapes, Idle
  <2>3. CASE Reject(t) /\ UNCHANGED claims
    BY <2>1, <2>2, <2>3, WindowKept DEF Reject, store
  <2>4. CASE /\ SequenceOf(t) <= head /\ Replays(t)
             /\ Return(t, records[SequenceOf(t)]) /\ UNCHANGED claims
    BY <2>1, <2>4, ReplayStep DEF store
  <2>5. CASE /\ Free(t) /\ SequenceOf(t) = head + 1
             /\ claims' = [claims EXCEPT ![SequenceOf(t)] = Frame(t).bytes]
             /\ Goto(t, "route") /\ UNCHANGED answers
    BY <2>1, <2>5, ClaimHeadStep
  <2> QED BY <1>3, <2>3, <2>4, <2>5 DEF Claim
<1>4. ASSUME NEW t \in Threads, Route(t) PROVE IInv'
  <2> DEFINE call == [pc |-> "install", frame |-> Frame(t), receipt |-> routes + 1]
  <2>1. At(t, "route") /\ Holds(t) /\ routes' = routes + 1 /\ UNCHANGED <<store, answers>>
    BY <1>4 DEF Route, At, Holds
  <2>2. thread[t] \in Busy /\ routes \in Nat
    BY <2>1, CallShape DEF IInv, Shapes, At
  <2>3. call \in Busy /\ call.pc = "install" /\ call.frame = Frame(t)
    BY <2>1, <2>2, CallShape DEF IInv, Busy, At
  <2>5. routes' \in Nat
    BY <2>1, <2>2
  <2>4. thread' = [thread EXCEPT ![t] = call]
    BY <1>4, <2>1 DEF Route
  <2> HIDE DEF call
  <2> QED BY <2>1, <2>3, <2>4, <2>5, WindowKept
<1>5. ASSUME NEW t \in Threads, RouteFails(t) \/ InstallFails(t) PROVE IInv'
  BY <1>5, AbortStep DEF RouteFails, InstallFails, At, Holds
<1>6. CASE \E t \in Threads : InstallOrGet(t)
  BY <1>6, InstallStep
<1>7. CASE \E t \in Threads : Commit(t)
  BY <1>7, CommitStep
<1> QED BY <1>1, <1>2, <1>3, <1>4, <1>5, <1>6, <1>7 DEF Next

\* The invariant holds of every run of the window.
LEMMA Invariance == Spec => []IInv
BY InitInv, NextInv, PTL DEF Spec

\* Every delivery of a sequence number that is answered is answered with the same
\* receipt for the same bytes (ChannelCodec.receive, InMemoryReceiptStore).
THEOREM OneReceiptPerNumber == Spec => []OneReceipt
<1>1. IInv => OneReceipt
  BY DEF IInv, Answered, OneReceipt
<1> QED BY <1>1, Invariance, PTL

\* A claim is there exactly while its frame is routed (claim, abort, commit).
THEOREM ClaimsFollowThreads == Spec => []TypeOK
<1>1. IInv => TypeOK
  <2> SUFFICES ASSUME IInv, NEW n \in SequenceNumbers
               PROVE  claims[n] = None <=> Routing(n) = {}
    BY DEF IInv, Shapes, TypeOK
  <2>1. \A t \in Threads : t \in Routing(n) <=> Holds(t) /\ SequenceOf(t) = n
    BY DEF Routing, Holds
  <2>2. \A t \in Threads : Holds(t) => Frame(t).bytes # None
    BY CallShape DEF IInv, Holds, At
  <2>3. Routing(n) \subseteq Threads
    BY DEF Routing
  <2> QED BY <2>1, <2>2, <2>3 DEF IInv, OneHolder
<1> QED BY <1>1, Invariance, PTL

\* One thread at a time routes, the number after the head only, and what the head
\* has passed keeps its receipt (ChannelCodec.receive).
THEOREM NumbersRoutedInOrder == Spec => []RoutedInOrder
<1>1. IInv => RoutedInOrder
  <2> SUFFICES ASSUME IInv, NEW n \in SequenceNumbers
               PROVE  /\ Cardinality(Routing(n)) <= 1
                      /\ Routing(n) # {} => n = head + 1
                      /\ n <= head => records[n] # NoReceipt
                      /\ n > head + 1 => records[n] = NoReceipt
    BY DEF RoutedInOrder
  <2>1. \A t \in Routing(n) : t \in Threads /\ Holds(t) /\ SequenceOf(t) = n
    BY DEF Routing, Holds
  <2>2. Routing(n) # {} => n = head + 1
    BY <2>1 DEF IInv, OneHolder
  <2>3. ASSUME NEW t \in Routing(n) PROVE Cardinality(Routing(n)) = 1
    <3>1. \A u \in Routing(n) : u = t
      BY <2>1, <2>3 DEF IInv, OneHolder
    <3>2. Routing(n) = {t}
      BY <3>1
    <3> QED BY <3>2, FS_Singleton
  <2>4. Cardinality(Routing(n)) <= 1
    <3>1. CASE Routing(n) = {}
      BY <3>1, FS_EmptySet
    <3>2. CASE Routing(n) # {}
      BY <3>2, <2>3
    <3> QED BY <3>1, <3>2
  <2> QED BY <2>2, <2>4 DEF IInv, Installed, NoReceipt
<1> QED BY <1>1, Invariance, PTL

-----------------------------------------------------------------------------
(* The GPU server and its approval tokens.                                 *)

On(c, phase) == calls[c].phase = phase
Inside(c) == calls[c].phase \in {"start", "started"}
Server(c) == calls[c].server
Request(c) == calls[c].request
Token(c) == calls[c].token

Tokens == [jti : Jtis, bound : {Gpu!Bound(r) : r \in Requests}, expires : 1..(MaxTime + Ttl)]
Launches == [phase : {"waiting", "start", "started"}, server : Servers,
             request : Requests, token : tokens \cup {Missing}]
Processes == [id : Nat, server : Servers, epoch : 0..MaxCrashes, request : Requests,
              jti : Jtis \cup {Missing}, ran : Configs \cup {Missing, "refused"}]

LaunchShapes ==
    /\ clock \in 0..MaxTime /\ config \in Configs
    /\ tokens \subseteq Tokens
    /\ DOMAIN consumed \subseteq Jtis
    /\ consumed \in [DOMAIN consumed -> 0..MaxTime]
    /\ jobs \in [Servers -> SUBSET [request : Requests]]
    /\ epoch \in [Servers -> 0..MaxCrashes]
    /\ IsFiniteSet(processes) /\ processes \subseteq Processes
    /\ calls \in [Callers -> {Gpu!Idle} \cup Launches]

\* An R2 request has token k, signed for it, which was consumed before it expired.
Rests(r, k) ==
    r.r2 => \E t \in tokens : /\ t.jti = k /\ t.bound = Gpu!Bound(r)
                              /\ k \in DOMAIN consumed /\ consumed[k] < t.expires

JtiOf(c) == IF Request(c).r2 THEN Token(c).jti ELSE Missing

\* Inside a server's lock there is one call at a time, with a token that is consumed
\* and that, until the start, no process and no other call has.
OneInside ==
    /\ \A c, d \in Callers : Inside(c) /\ Inside(d) /\ Server(c) = Server(d) => c = d
    /\ \A c \in Callers : Inside(c) => /\ Rests(Request(c), JtiOf(c))
                                       /\ Gpu!Existing(Server(c), Request(c).key) = {}
    /\ \A c \in Callers : On(c, "start") /\ Request(c).r2 =>
          /\ \A p \in processes : p.jti # JtiOf(c)
          /\ \A d \in Callers \ {c} : On(d, "start") => JtiOf(d) # JtiOf(c)

\* Every process rests on a token of its own.
OwnToken ==
    \A p \in processes :
        /\ Rests(p.request, p.jti)
        /\ p.request.r2 => \A q \in processes : q.jti = p.jti => q.id = p.id

\* Only an R2 process has a token.
Unapproved == \A p \in processes : ~p.request.r2 => p.jti = Missing

\* A process of the server's present life has its job, or its call is about to save it.
Known ==
    \A p \in processes :
        /\ p.epoch <= epoch[p.server]
        /\ p.epoch = epoch[p.server] =>
              \/ \E j \in jobs[p.server] : j.request = p.request
              \/ \E c \in Callers : /\ On(c, "started") /\ Server(c) = p.server
                                    /\ Request(c) = p.request

\* A call that has started a process has one in the server's present life.
Started ==
    \A c \in Callers : On(c, "started") =>
        \E p \in processes : /\ p.server = Server(c) /\ p.epoch = epoch[Server(c)]
                             /\ p.request = Request(c)

\* OneProcessPerToken needs that a token is consumed under way, OneProcessPerKey that
\* a process is known to its server before the lock is given up.
LaunchInv ==
    /\ Gpu!GpuAssumption
    /\ LaunchShapes /\ OneInside /\ OwnToken /\ Unapproved /\ Known /\ Started
    /\ Gpu!JobsBacked /\ Gpu!OneProcessPerKey /\ Gpu!RunsApprovedBytes

-----------------------------------------------------------------------------
(* Facts about calls and requests.                                         *)

\* A call under way carries a server, a request and a token that was issued.
LEMMA LaunchShape ==
    ASSUME LaunchShapes, NEW c \in Callers, calls[c].phase # "idle"
    PROVE  /\ calls[c] \in Launches
           /\ Server(c) \in Servers /\ Request(c) \in Requests
           /\ Token(c) \in tokens \cup {Missing}
<1>1. calls[c] \in Launches
  BY DEF LaunchShapes, Gpu!Idle
<1> QED BY <1>1 DEF Launches, Server, Request, Token

\* Every request has a configuration and says whether it is R2.
LEMMA RequestShape ==
    ASSUME Gpu!GpuAssumption, NEW r \in Requests
    PROVE  r.r2 \in BOOLEAN /\ r.config \in Configs
BY DEF Gpu!GpuAssumption

\* The bounds are numbers, and None is no token.
LEMMA BoundShape ==
    ASSUME Gpu!GpuAssumption
    PROVE  /\ Ttl \in Nat \ {0} /\ MaxTime \in Nat /\ MaxCrashes \in Nat
           /\ Missing \notin Jtis
BY DEF Gpu!GpuAssumption

\* Writing one call leaves the others.
LEMMA GotoFacts ==
    ASSUME LaunchShapes, NEW c \in Callers, calls[c].phase # "idle",
           NEW phase \in {"waiting", "start", "started"}, Gpu!Goto(c, phase)
    PROVE  /\ calls' \in [Callers -> {Gpu!Idle} \cup Launches]
           /\ \A d \in Callers \ {c} : calls'[d] = calls[d]
           /\ calls'[c].phase = phase /\ calls'[c].server = Server(c)
           /\ calls'[c].request = Request(c) /\ calls'[c].token = Token(c)
<1>1. calls[c] \in Launches
  BY LaunchShape
<1>2. calls' = [calls EXCEPT ![c] = [calls[c] EXCEPT !.phase = phase]]
  BY DEF Gpu!Goto
<1>3. [calls[c] EXCEPT !.phase = phase] \in Launches
  BY <1>1 DEF Launches
<1> QED BY <1>1, <1>2, <1>3 DEF LaunchShapes, Launches, Server, Request, Token

\* Ending a call leaves the others.
LEMMA EndFacts ==
    ASSUME LaunchShapes, NEW c \in Callers, Gpu!End(c)
    PROVE  /\ calls' \in [Callers -> {Gpu!Idle} \cup Launches]
           /\ \A d \in Callers \ {c} : calls'[d] = calls[d]
           /\ calls'[c] = Gpu!Idle /\ calls'[c].phase = "idle"
BY DEF Gpu!End, LaunchShapes, Gpu!Idle

\* A token stays what a request rests on: tokens are issued and consumed for good.
LEMMA RestsStays ==
    ASSUME NEW r \in Requests, NEW k, Rests(r, k),
           tokens \subseteq tokens',
           \A j \in DOMAIN consumed : j \in DOMAIN consumed' /\ consumed'[j] = consumed[j]
    PROVE  Rests(r, k)'
BY DEF Rests

-----------------------------------------------------------------------------
(* The initial state.                                                      *)

\* No server has run anything.
LEMMA LaunchInit == Gpu!GpuAssumption /\ Gpu!Init => LaunchInv
<1> SUFFICES ASSUME Gpu!GpuAssumption, Gpu!Init PROVE LaunchInv
  OBVIOUS
<1>1. \A c \in Callers : calls[c].phase = "idle"
  BY DEF Gpu!Init, Gpu!Idle
<1>2. LaunchShapes
  BY FS_EmptySet DEF Gpu!Init, LaunchShapes, Gpu!GpuAssumption
<1>3. OneInside /\ Started
  BY <1>1 DEF OneInside, Started, Inside, On
<1>4. OwnToken /\ Unapproved /\ Known /\ Gpu!OneProcessPerKey /\ Gpu!RunsApprovedBytes
  BY DEF Gpu!Init, OwnToken, Unapproved, Known, Gpu!OneProcessPerKey, Gpu!RunsApprovedBytes
<1>5. Gpu!JobsBacked
  BY DEF Gpu!Init, Gpu!JobsBacked
<1> QED BY <1>2, <1>3, <1>4, <1>5 DEF LaunchInv

-----------------------------------------------------------------------------
(* Steps in which no call gets further inside a lock.                      *)

\* Calls stay, give up, or are still outside the lock; the jobs, the processes and what
\* is consumed stay.
Outside ==
    /\ \A c \in Callers : \/ calls'[c] = calls[c]
                          \/ ~On(c, "started") /\ calls'[c].phase \notin {"start", "started"}
    /\ UNCHANGED <<jobs, epoch, processes>>
    /\ tokens \subseteq tokens' /\ UNCHANGED consumed

\* Such a step keeps everything but the shapes.
LEMMA OutsideInv ==
    ASSUME LaunchInv, Outside, LaunchShapes'
    PROVE  LaunchInv'
<1>1. \A c \in Callers : Inside(c)' => Inside(c) /\ calls'[c] = calls[c]
  BY DEF Outside, Inside
<1>2. \A c \in Callers : (On(c, "start")' => Inside(c)') /\ (On(c, "started")' => Inside(c)')
  BY DEF Inside, On
<1>3. \A k : \A r \in Requests : Rests(r, k) => Rests(r, k)'
  BY RestsStays DEF Outside
<1>4. \A c \in Callers : Inside(c) => Request(c) \in Requests
  BY LaunchShape DEF LaunchInv, Inside
<1>5. OneInside'
  <2>1. \A c, d \in Callers : Inside(c)' /\ Inside(d)' /\ Server(c)' = Server(d)' => c = d
    BY <1>1 DEF LaunchInv, OneInside, Server
  <2>2. ASSUME NEW c \in Callers, Inside(c)'
        PROVE  Rests(Request(c), JtiOf(c))' /\ (Gpu!Existing(Server(c), Request(c).key) = {})'
    <3>1. Inside(c) /\ calls'[c] = calls[c]
      BY <1>1, <2>2
    <3>2. Rests(Request(c), JtiOf(c)) /\ Gpu!Existing(Server(c), Request(c).key) = {}
      BY <3>1 DEF LaunchInv, OneInside
    <3> QED BY <3>1, <3>2, <1>3, <1>4 DEF Gpu!Existing, Server, Request, JtiOf, Token, Outside
  <2>3. ASSUME NEW c \in Callers, On(c, "start")', Request(c)'.r2
        PROVE  /\ \A p \in processes' : p.jti # JtiOf(c)'
               /\ \A d \in Callers \ {c} : On(d, "start")' => JtiOf(d)' # JtiOf(c)'
    <3>1. \A d \in Callers : On(d, "start")' =>
                On(d, "start") /\ JtiOf(d)' = JtiOf(d) /\ Request(d)' = Request(d)
      BY <1>1, <1>2 DEF On, JtiOf, Request, Token
    <3> QED BY <2>3, <3>1 DEF LaunchInv, OneInside, Outside
  <2> QED BY <2>1, <2>2, <2>3 DEF OneInside
<1>6. OwnToken'
  <2>1. \A p \in processes : p.request \in Requests
    BY DEF LaunchInv, LaunchShapes, Processes
  <2> QED BY <1>3, <2>1 DEF LaunchInv, OwnToken, Outside
<1>7. \A c \in Callers : On(c, "started") <=> On(c, "started")'
  BY DEF Outside, On
<1>8. \A c \in Callers : On(c, "started") => calls'[c] = calls[c]
  BY DEF Outside, On
<1>9. Known'
  <2>1. ASSUME NEW p \in processes, p.epoch = epoch[p.server],
               ~ \E j \in jobs[p.server] : j.request = p.request
        PROVE  \E c \in Callers : On(c, "started")' /\ Server(c)' = p.server
                                  /\ Request(c)' = p.request
    <3>1. PICK c \in Callers : On(c, "started") /\ Server(c) = p.server /\ Request(c) = p.request
      BY <2>1 DEF LaunchInv, Known
    <3> QED BY <3>1, <1>7, <1>8 DEF Server, Request
  <2> QED BY <2>1 DEF LaunchInv, Known, Outside
<1>10. Started'
  BY <1>7, <1>8 DEF LaunchInv, Started, Outside, Server, Request
<1>11. Gpu!JobsBacked'
  BY DEF LaunchInv, Gpu!JobsBacked, Outside
<1>12. Gpu!OneProcessPerKey' /\ Gpu!RunsApprovedBytes' /\ Unapproved'
  BY DEF LaunchInv, Gpu!OneProcessPerKey, Gpu!RunsApprovedBytes, Unapproved, Outside
<1>13. Gpu!GpuAssumption'
  BY DEF LaunchInv, Gpu!GpuAssumption
<1> QED BY <1>5, <1>6, <1>9, <1>10, <1>11, <1>12, <1>13 DEF LaunchInv

\* Time passes, the file changes, the operator signs, a launch is planned.
LEMMA SurroundingsInv ==
    ASSUME LaunchInv, \/ Gpu!Tick \/ Gpu!ChangeConfig
                      \/ \E jti \in Jtis, r \in Requests : Gpu!Issue(jti, r)
                      \/ \E c \in Callers, s \in Servers, r \in Requests, t \in tokens \cup {Missing} :
                            Gpu!Plan(c, s, r, t)
    PROVE  LaunchInv'
<1>1. CASE Gpu!Tick
  <2>0. clock' \in 0..MaxTime
    BY <1>1, BoundShape DEF LaunchInv, LaunchShapes, Gpu!Tick
  <2>1. LaunchShapes'
    BY <1>1, <2>0 DEF LaunchInv, LaunchShapes, Gpu!Tick, Launches
  <2> QED BY <1>1, <2>1, OutsideInv DEF Outside, Gpu!Tick
<1>2. CASE Gpu!ChangeConfig
  <2>1. LaunchShapes'
    BY <1>2 DEF LaunchInv, LaunchShapes, Gpu!ChangeConfig, Launches
  <2> QED BY <1>2, <2>1, OutsideInv DEF Outside, Gpu!ChangeConfig
<1>3. ASSUME NEW jti \in Jtis, NEW r \in Requests, Gpu!Issue(jti, r) PROVE LaunchInv'
  <2> DEFINE t == [jti |-> jti, bound |-> Gpu!Bound(r), expires |-> clock + Ttl]
  <2>0. clock + Ttl \in 1..(MaxTime + Ttl)
    BY BoundShape DEF LaunchInv, LaunchShapes
  <2>1. t \in Tokens
    BY <2>0 DEF Tokens
  <2>2. tokens' = tokens \cup {t} /\ UNCHANGED <<clock, config, consumed, jobs, epoch, processes, calls>>
    BY <1>3 DEF Gpu!Issue
  <2>3. calls' \in [Callers -> {Gpu!Idle} \cup Launches']
    BY <2>2 DEF LaunchInv, LaunchShapes, Launches
  <2>4. LaunchShapes'
    BY <2>1, <2>2, <2>3 DEF LaunchInv, LaunchShapes, Tokens, Processes
  <2> QED BY <2>2, <2>4, OutsideInv DEF Outside
<1>4. ASSUME NEW c \in Callers, NEW s \in Servers, NEW r \in Requests,
             NEW t \in tokens \cup {Missing}, Gpu!Plan(c, s, r, t)
      PROVE  LaunchInv'
  <2> DEFINE launch == [phase |-> "waiting", server |-> s, request |-> r, token |-> t]
  <2>1. calls' = [calls EXCEPT ![c] = launch]
        /\ UNCHANGED <<clock, config, tokens, consumed, jobs, epoch, processes>>
    BY <1>4 DEF Gpu!Plan
  <2>2. launch \in Launches
    BY DEF Launches
  <2>3. LaunchShapes'
    BY <2>1, <2>2 DEF LaunchInv, LaunchShapes, Launches, Tokens, Processes
  <2>4. calls[c].phase = "idle"
    BY <1>4 DEF Gpu!Plan, Gpu!Busy
  <2>5. Outside
    BY <2>1, <2>4 DEF Outside, On, LaunchInv, LaunchShapes
  <2> QED BY <2>3, <2>5, OutsideInv
<1> QED BY <1>1, <1>2, <1>3, <1>4

\* The start raises.
LEMMA StartFailsInv ==
    ASSUME LaunchInv, NEW c \in Callers, Gpu!StartFails(c)
    PROVE  LaunchInv'
<1>1. LaunchShapes
  BY DEF LaunchInv
<1>2. Gpu!End(c) /\ UNCHANGED <<clock, config, tokens, consumed, jobs, epoch, processes>>
      /\ calls[c].phase = "start"
  BY DEF Gpu!StartFails
<1>3. LaunchShapes'
  BY <1>1, <1>2, EndFacts DEF LaunchShapes, Launches, Tokens, Processes
<1>4. Outside
  BY <1>1, <1>2, EndFacts DEF Outside, On
<1> QED BY <1>3, <1>4, OutsideInv

-----------------------------------------------------------------------------
(* The lock is taken, the approval is consumed.                            *)

\* Consuming a token keeps what was consumed.
LEMMA ConsumeFacts ==
    ASSUME LaunchInv, NEW t \in tokens, Gpu!Consume(t)
    PROVE  /\ DOMAIN consumed' = DOMAIN consumed \cup {t.jti}
           /\ consumed'[t.jti] = clock
           /\ t.jti \notin DOMAIN consumed /\ t.jti \in Jtis
           /\ \A j \in DOMAIN consumed : consumed'[j] = consumed[j]
           /\ consumed' \in [DOMAIN consumed' -> 0..MaxTime]
<1>1. t.jti \in Jtis
  BY DEF LaunchInv, LaunchShapes, Tokens
<1>2. clock \in 0..MaxTime /\ consumed \in [DOMAIN consumed -> 0..MaxTime]
  BY DEF LaunchInv, LaunchShapes
<1> QED BY <1>1, <1>2 DEF Gpu!Consume

\* A call that enters finds no job under its key, and a token of its own.
LEMMA StartInv ==
    ASSUME LaunchInv, NEW c \in Callers, On(c, "waiting"), Gpu!LockFree(Server(c)),
           Gpu!Existing(Server(c), Request(c).key) = {}, Gpu!Goto(c, "start"),
           \/ ~Request(c).r2 /\ UNCHANGED consumed
           \/ Request(c).r2 /\ Gpu!ValidToken(Token(c), Request(c)) /\ Gpu!Consume(Token(c)),
           UNCHANGED <<clock, config, tokens, jobs, epoch, processes>>
    PROVE  LaunchInv'
<1>0. LaunchShapes /\ Gpu!GpuAssumption /\ calls[c].phase # "idle"
  BY DEF LaunchInv, On
<1>1. /\ calls' \in [Callers -> {Gpu!Idle} \cup Launches]
      /\ \A d \in Callers \ {c} : calls'[d] = calls[d]
      /\ calls'[c].phase = "start"
      /\ Server(c)' = Server(c) /\ Request(c)' = Request(c) /\ Token(c)' = Token(c)
  BY <1>0, GotoFacts DEF Server, Request, Token
<1>2. Server(c) \in Servers /\ Request(c) \in Requests /\ Token(c) \in tokens \cup {Missing}
  BY <1>0, LaunchShape
<1>3. Request(c).r2 => Token(c) \in tokens /\ Gpu!Consume(Token(c)) /\ clock < Token(c).expires
                       /\ Token(c).bound = Gpu!Bound(Request(c))
  BY <1>2 DEF Gpu!ValidToken
<1>4. /\ DOMAIN consumed \subseteq DOMAIN consumed'
      /\ \A j \in DOMAIN consumed : consumed'[j] = consumed[j]
      /\ DOMAIN consumed' \subseteq Jtis /\ consumed' \in [DOMAIN consumed' -> 0..MaxTime]
  <2>1. CASE Request(c).r2
    BY <2>1, <1>0, <1>3, ConsumeFacts DEF LaunchShapes
  <2>2. CASE ~Request(c).r2
    BY <2>2, <1>0 DEF LaunchShapes
  <2> QED BY <2>1, <2>2
<1>5. \A k : \A r \in Requests : Rests(r, k) => Rests(r, k)'
  BY <1>4, RestsStays
<1>6. LaunchShapes'
  BY <1>0, <1>1, <1>4 DEF LaunchShapes, Launches, Tokens, Processes
<1>7. \A d \in Callers \ {c} : Inside(d) => Server(d) # Server(c)
  BY DEF Gpu!LockFree, Gpu!Busy, Inside, Server
<1>8. \A d \in Callers \ {c} :
         /\ Inside(d)' = Inside(d) /\ On(d, "start")' = On(d, "start")
         /\ On(d, "started")' = On(d, "started")
         /\ Server(d)' = Server(d) /\ Request(d)' = Request(d) /\ JtiOf(d)' = JtiOf(d)
  BY <1>1 DEF Inside, On, Server, Request, JtiOf, Token
<1>9. ~On(c, "started") /\ ~On(c, "started")' /\ On(c, "start")' /\ JtiOf(c)' = JtiOf(c)
  BY <1>1 DEF On, JtiOf, Token, Request
<1>10. Rests(Request(c), JtiOf(c))'
  <2>1. CASE Request(c).r2
    <3>1. PICK t \in tokens : t = Token(c) /\ Gpu!Consume(t) /\ clock < t.expires
                              /\ t.bound = Gpu!Bound(Request(c))
      BY <1>3, <2>1
    <3>2. t.jti \in DOMAIN consumed' /\ consumed'[t.jti] = clock
      BY <3>1, ConsumeFacts
    <3> QED BY <2>1, <3>1, <3>2, <1>1, <1>9 DEF Rests, JtiOf
  <2>2. CASE ~Request(c).r2
    BY <2>2, <1>1 DEF Rests
  <2> QED BY <2>1, <2>2
<1>11. OneInside'
  <2>1. \A a, b \in Callers : Inside(a)' /\ Inside(b)' /\ Server(a)' = Server(b)' => a = b
    BY <1>1, <1>7, <1>8 DEF LaunchInv, OneInside
  <2>2. ASSUME NEW d \in Callers, Inside(d)'
        PROVE  Rests(Request(d), JtiOf(d))' /\ (Gpu!Existing(Server(d), Request(d).key) = {})'
    <3>1. CASE d = c
      BY <3>1, <1>1, <1>10 DEF Gpu!Existing
    <3>2. CASE d # c
      <4>1. Inside(d) /\ Request(d) \in Requests
        BY <3>2, <2>2, <1>0, <1>8, LaunchShape DEF Inside
      <4> QED BY <3>2, <4>1, <1>5, <1>8 DEF LaunchInv, OneInside, Gpu!Existing
    <3> QED BY <3>1, <3>2
  <2>3. ASSUME Request(c).r2
        PROVE  /\ JtiOf(c) \notin DOMAIN consumed /\ JtiOf(c) # Missing
    BY <2>3, <1>0, <1>3, ConsumeFacts, BoundShape DEF JtiOf
  <2>4. \A d \in Callers \ {c} : Inside(d) => JtiOf(d) \in DOMAIN consumed \cup {Missing}
    BY DEF LaunchInv, OneInside, Rests, JtiOf
  <2>5. \A p \in processes : p.jti \in DOMAIN consumed \cup {Missing}
    <3> SUFFICES ASSUME NEW p \in processes PROVE p.jti \in DOMAIN consumed \cup {Missing}
      OBVIOUS
    <3>1. CASE p.request.r2
      BY <3>1 DEF LaunchInv, OwnToken, Rests
    <3> QED BY <3>1 DEF LaunchInv, Unapproved
  <2>6. ASSUME NEW d \in Callers, On(d, "start")', Request(d)'.r2
        PROVE  /\ \A p \in processes' : p.jti # JtiOf(d)'
               /\ \A b \in Callers \ {d} : On(b, "start")' => JtiOf(b)' # JtiOf(d)'
    <3>1. \A b \in Callers \ {c} : On(b, "start")' => On(b, "start") /\ Inside(b)
      BY <1>8 DEF Inside, On
    <3>2. CASE d = c
      BY <3>1, <3>2, <2>3, <2>4, <2>5, <2>6, <1>1, <1>8, <1>9
    <3>3. CASE d # c
      <4>1. On(d, "start") /\ Request(d).r2 /\ JtiOf(d) = Token(d).jti
            /\ JtiOf(d) \in DOMAIN consumed
        BY <3>3, <3>1, <2>6, <1>8 DEF JtiOf, LaunchInv, OneInside, Rests
      <4>2. JtiOf(c) # JtiOf(d)
        <5>1. CASE Request(c).r2
          BY <5>1, <2>3, <4>1
        <5>2. CASE ~Request(c).r2
          BY <5>2, <4>1, <1>0, BoundShape DEF JtiOf, LaunchShapes
        <5> QED BY <5>1, <5>2
      <4> QED BY <3>1, <3>3, <4>1, <4>2, <1>8, <1>9 DEF LaunchInv, OneInside
    <3> QED BY <3>2, <3>3
  <2> QED BY <2>1, <2>2, <2>6 DEF OneInside
<1>12. OwnToken'
  <2>1. \A p \in processes : p.request \in Requests
    BY <1>0 DEF LaunchShapes, Processes
  <2> QED BY <1>5, <2>1 DEF LaunchInv, OwnToken
<1>13. Known'
  <2>1. ASSUME NEW d \in Callers, On(d, "started")
        PROVE  On(d, "started")' /\ Server(d)' = Server(d) /\ Request(d)' = Request(d)
    BY <2>1, <1>8, <1>9
  <2> QED BY <2>1 DEF LaunchInv, Known
<1>14. Started'
  BY <1>8, <1>9 DEF LaunchInv, Started
<1>15. Gpu!JobsBacked'
  BY DEF LaunchInv, Gpu!JobsBacked
<1>16. Gpu!OneProcessPerKey' /\ Gpu!RunsApprovedBytes' /\ Unapproved'
  BY DEF LaunchInv, Gpu!OneProcessPerKey, Gpu!RunsApprovedBytes, Unapproved
<1>17. Gpu!GpuAssumption'
  BY DEF LaunchInv, Gpu!GpuAssumption
<1> QED BY <1>6, <1>11, <1>12, <1>13, <1>14, <1>15, <1>16, <1>17 DEF LaunchInv

\* Whatever a call finds inside the lock.
LEMMA EnterInv ==
    ASSUME LaunchInv, NEW c \in Callers, Gpu!Enter(c)
    PROVE  LaunchInv'
<1>1. /\ On(c, "waiting") /\ Gpu!LockFree(Server(c))
      /\ UNCHANGED <<clock, config, tokens, jobs, epoch, processes>>
  BY DEF Gpu!Enter, On, Server
<1>2. CASE Gpu!End(c) /\ UNCHANGED consumed
  <2>1. LaunchShapes
    BY DEF LaunchInv
  <2>2. LaunchShapes'
    BY <1>1, <1>2, <2>1, EndFacts DEF LaunchShapes, Launches, Tokens, Processes
  <2>3. Outside
    BY <1>1, <1>2, <2>1, EndFacts DEF Outside, On
  <2> QED BY <2>2, <2>3, OutsideInv
<1>3. CASE /\ Gpu!Existing(Server(c), Request(c).key) = {} /\ Gpu!Goto(c, "start")
           /\ \/ ~Request(c).r2 /\ UNCHANGED consumed
              \/ Request(c).r2 /\ Gpu!ValidToken(Token(c), Request(c)) /\ Gpu!Consume(Token(c))
  BY <1>1, <1>3, StartInv
<1> QED BY <1>2, <1>3 DEF Gpu!Enter, Server, Request, Token

-----------------------------------------------------------------------------
(* The process is started, its job is saved.                               *)

\* The new process has the token of its call, which no other has, and a key under which
\* this life of the server has started none.
LEMMA StartProcessInv ==
    ASSUME LaunchInv, NEW c \in Callers, Gpu!StartProcess(c)
    PROVE  LaunchInv'
<1> DEFINE n == Gpu!Process(c)
<1>0. LaunchShapes /\ Gpu!GpuAssumption /\ On(c, "start") /\ Inside(c) /\ calls[c].phase # "idle"
  BY DEF LaunchInv, Gpu!StartProcess, On, Inside
<1>1. /\ processes' = processes \cup {n} /\ Gpu!Goto(c, "started")
      /\ UNCHANGED <<clock, config, tokens, consumed, jobs, epoch>>
  BY DEF Gpu!StartProcess
<1>2. /\ calls' \in [Callers -> {Gpu!Idle} \cup Launches]
      /\ \A d \in Callers \ {c} : calls'[d] = calls[d]
      /\ calls'[c].phase = "started"
      /\ Server(c)' = Server(c) /\ Request(c)' = Request(c) /\ Token(c)' = Token(c)
  BY <1>0, <1>1, GotoFacts DEF Server, Request, Token
<1>3. Server(c) \in Servers /\ Request(c) \in Requests /\ Token(c) \in tokens \cup {Missing}
  BY <1>0, LaunchShape
<1>4. /\ n.server = Server(c) /\ n.epoch = epoch[Server(c)] /\ n.request = Request(c)
      /\ n.jti = JtiOf(c) /\ n.ran = Missing
  BY DEF Gpu!Process, Server, Request, Token, JtiOf
<1>5. Rests(Request(c), JtiOf(c)) /\ Gpu!Existing(Server(c), Request(c).key) = {}
  BY <1>0 DEF LaunchInv, OneInside
<1>6. JtiOf(c) \in Jtis \cup {Missing}
  BY <1>5, <1>0 DEF Rests, JtiOf, LaunchShapes
<1>7. n \in Processes
  <2>1. Cardinality(processes) \in Nat
    BY <1>0, FS_CardinalityType DEF LaunchShapes
  <2>2. epoch[Server(c)] \in 0..MaxCrashes
    BY <1>0, <1>3 DEF LaunchShapes
  <2>3. /\ n = [id |-> n.id, server |-> n.server, epoch |-> n.epoch, request |-> n.request,
                jti |-> n.jti, ran |-> n.ran]
        /\ n.id = Gpu!Cardinality(processes)
    BY DEF Gpu!Process
  <2> HIDE DEF n
  <2>4. Gpu!Cardinality(processes) = Cardinality(processes)
    BY DEF Gpu!Cardinality, Cardinality, Gpu!IsFiniteSet, IsFiniteSet
  <2> QED BY <2>1, <2>2, <2>3, <2>4, <1>3, <1>4, <1>6 DEF Processes
<1>8. LaunchShapes'
  <2>1. IsFiniteSet(processes')
    BY <1>0, <1>1, FS_AddElement DEF LaunchShapes
  <2> QED BY <2>1, <1>0, <1>1, <1>2, <1>7 DEF LaunchShapes, Launches, Tokens, Processes
<1>9. \A d \in Callers \ {c} :
         /\ Inside(d)' = Inside(d) /\ On(d, "start")' = On(d, "start")
         /\ On(d, "started")' = On(d, "started")
         /\ Server(d)' = Server(d) /\ Request(d)' = Request(d) /\ JtiOf(d)' = JtiOf(d)
  BY <1>2 DEF Inside, On, Server, Request, JtiOf, Token
<1>10. /\ Inside(c)' /\ ~On(c, "start")' /\ On(c, "started")' /\ JtiOf(c)' = JtiOf(c)
  BY <1>2 DEF On, Inside, JtiOf, Token, Request
<1>11. \A k : \A r \in Requests : Rests(r, k) => Rests(r, k)'
  BY <1>1, RestsStays
<1>12. OneInside'
  <2>1. \A a, b \in Callers : Inside(a)' /\ Inside(b)' /\ Server(a)' = Server(b)' => a = b
    BY <1>0, <1>2, <1>9 DEF LaunchInv, OneInside
  <2>2. ASSUME NEW d \in Callers, Inside(d)'
        PROVE  Rests(Request(d), JtiOf(d))' /\ (Gpu!Existing(Server(d), Request(d).key) = {})'
    <3>1. /\ Inside(d) /\ Request(d) \in Requests
          /\ Server(d)' = Server(d) /\ Request(d)' = Request(d) /\ JtiOf(d)' = JtiOf(d)
      BY <2>2, <1>0, <1>2, <1>9, <1>10, LaunchShape DEF Inside
    <3> QED BY <3>1, <1>1, <1>11 DEF LaunchInv, OneInside, Gpu!Existing
  <2>3. ASSUME NEW d \in Callers, On(d, "start")', Request(d)'.r2
        PROVE  /\ \A p \in processes' : p.jti # JtiOf(d)'
               /\ \A b \in Callers \ {d} : On(b, "start")' => JtiOf(b)' # JtiOf(d)'
    <3>1. d # c /\ On(d, "start") /\ Request(d).r2 /\ JtiOf(d)' = JtiOf(d)
      BY <2>3, <1>9, <1>10
    <3>2. JtiOf(c) # JtiOf(d)
      BY <3>1, <1>0 DEF LaunchInv, OneInside
    <3> QED BY <3>1, <3>2, <1>1, <1>4, <1>9, <1>10 DEF LaunchInv, OneInside
  <2> QED BY <2>1, <2>2, <2>3 DEF OneInside
<1>13. OwnToken'
  <2> SUFFICES ASSUME NEW p \in processes'
               PROVE  /\ Rests(p.request, p.jti)'
                      /\ p.request.r2 => \A q \in processes' : q.jti = p.jti => q.id = p.id
    BY DEF OwnToken
  <2>1. p \in processes \/ p = n
    BY <1>1
  <2>2. Rests(p.request, p.jti) /\ p.request \in Requests
    BY <2>1, <1>0, <1>3, <1>4, <1>5 DEF LaunchInv, OwnToken, LaunchShapes, Processes
  <2>3. Request(c).r2 => \A q \in processes : q.jti # JtiOf(c)
    BY <1>0 DEF LaunchInv, OneInside
  <2>4. ~Request(c).r2 => JtiOf(c) = Missing
    BY DEF JtiOf
  <2>5. p.request.r2 => p.jti \in Jtis
    BY <2>2, <1>0 DEF Rests, LaunchShapes
  <2>6. ASSUME p.request.r2, NEW q \in processes', q.jti = p.jti PROVE q.id = p.id
    <3>1. CASE p \in processes /\ q \in processes
      BY <3>1, <2>6 DEF LaunchInv, OwnToken
    <3>2. CASE p = n /\ q = n
      BY <3>2
    <3>3. CASE p = n /\ q \in processes
      BY <3>3, <2>3, <2>6, <1>4
    <3>4. CASE p \in processes /\ q = n
      <4>1. JtiOf(c) \in Jtis
        BY <3>4, <2>5, <2>6, <1>4
      <4>2. Request(c).r2
        BY <4>1, <2>4, <1>0, BoundShape
      <4> QED BY <4>2, <3>4, <2>3, <2>6, <1>4
    <3> QED BY <3>1, <3>2, <3>3, <3>4, <2>1, <2>6, <1>1
  <2> QED BY <2>2, <2>6, <1>11
<1>14. Unapproved' /\ Gpu!RunsApprovedBytes'
  BY <1>1, <1>4 DEF LaunchInv, Unapproved, Gpu!RunsApprovedBytes, JtiOf
<1>15. Known'
  <2> SUFFICES ASSUME NEW p \in processes'
               PROVE  /\ p.epoch <= epoch[p.server]
                      /\ p.epoch = epoch[p.server] =>
                            \/ \E j \in jobs[p.server] : j.request = p.request
                            \/ \E d \in Callers : /\ On(d, "started")' /\ Server(d)' = p.server
                                                  /\ Request(d)' = p.request
    BY <1>1 DEF Known
  <2>1. CASE p \in processes
    <3>1. \A d \in Callers : On(d, "started") =>
             On(d, "started")' /\ Server(d)' = Server(d) /\ Request(d)' = Request(d)
      BY <1>0, <1>9 DEF On
    <3> QED BY <2>1, <3>1 DEF LaunchInv, Known
  <2>2. CASE p = n
    <3>1. epoch[Server(c)] \in Nat
      BY <1>0, <1>3, BoundShape DEF LaunchShapes
    <3> QED BY <2>2, <3>1, <1>2, <1>4, <1>10
  <2> QED BY <2>1, <2>2, <1>1
<1>16. Started'
  <2> SUFFICES ASSUME NEW d \in Callers, On(d, "started")'
               PROVE  \E p \in processes' : /\ p.server = Server(d)'
                                            /\ p.epoch = epoch[Server(d)']
                                            /\ p.request = Request(d)'
    BY <1>1 DEF Started
  <2>1. CASE d = c
    BY <2>1, <1>1, <1>2, <1>4
  <2>2. CASE d # c
    BY <2>2, <1>1, <1>9 DEF LaunchInv, Started
  <2> QED BY <2>1, <2>2
<1>17. Gpu!JobsBacked'
  BY <1>1 DEF LaunchInv, Gpu!JobsBacked
<1>18. Gpu!OneProcessPerKey'
  <2>1. ASSUME NEW q \in processes, q.server = Server(c), q.epoch = epoch[Server(c)],
               q.request.key = Request(c).key
        PROVE  FALSE
    <3>1. CASE \E j \in jobs[q.server] : j.request = q.request
      BY <3>1, <2>1, <1>5 DEF Gpu!Existing
    <3>2. CASE \E d \in Callers : On(d, "started") /\ Server(d) = q.server
      BY <3>2, <2>1, <1>0 DEF LaunchInv, OneInside, Inside, On
    <3> QED BY <3>1, <3>2, <2>1 DEF LaunchInv, Known
  <2> SUFFICES ASSUME NEW p \in processes', NEW q \in processes',
                      p.server = q.server, p.epoch = q.epoch, p.request.key = q.request.key
               PROVE  p.id = q.id
    BY DEF Gpu!OneProcessPerKey
  <2>2. CASE p \in processes /\ q \in processes
    BY <2>2 DEF LaunchInv, Gpu!OneProcessPerKey
  <2>3. CASE p = n \/ q = n
    BY <2>3, <2>1, <1>1, <1>4
  <2> QED BY <2>2, <2>3, <1>1
<1>19. Gpu!GpuAssumption'
  BY DEF LaunchInv, Gpu!GpuAssumption
<1> QED BY <1>8, <1>12, <1>13, <1>14, <1>15, <1>16, <1>17, <1>18, <1>19 DEF LaunchInv

\* The job that is saved is the first under its key, and its process has been started.
LEMMA SaveJobInv ==
    ASSUME LaunchInv, NEW c \in Callers, Gpu!SaveJob(c)
    PROVE  LaunchInv'
<1> DEFINE job == [request |-> Request(c)]
<1>0. LaunchShapes /\ On(c, "started") /\ Inside(c) /\ calls[c].phase # "idle"
  BY DEF LaunchInv, Gpu!SaveJob, On, Inside
<1>1. /\ jobs' = [jobs EXCEPT ![Server(c)] = @ \cup {job}] /\ Gpu!End(c)
      /\ UNCHANGED <<clock, config, tokens, consumed, epoch, processes>>
  BY DEF Gpu!SaveJob, Server, Request
<1>2. /\ calls' \in [Callers -> {Gpu!Idle} \cup Launches]
      /\ \A d \in Callers \ {c} : calls'[d] = calls[d]
      /\ calls'[c].phase = "idle"
  BY <1>0, <1>1, EndFacts
<1>3. Server(c) \in Servers /\ Request(c) \in Requests
  BY <1>0, LaunchShape
<1>4. /\ jobs' \in [Servers -> SUBSET [request : Requests]]
      /\ jobs'[Server(c)] = jobs[Server(c)] \cup {job}
      /\ \A s \in Servers \ {Server(c)} : jobs'[s] = jobs[s]
  BY <1>0, <1>1, <1>3 DEF LaunchShapes
<1>5. LaunchShapes'
  BY <1>0, <1>1, <1>2, <1>4 DEF LaunchShapes, Launches, Tokens, Processes
<1>6. \A d \in Callers :
         Inside(d)' => /\ d # c /\ Inside(d)
                       /\ On(d, "start")' = On(d, "start") /\ On(d, "started")' = On(d, "started")
                       /\ Server(d)' = Server(d) /\ Request(d)' = Request(d)
                       /\ JtiOf(d)' = JtiOf(d)
  BY <1>2 DEF Inside, On, Server, Request, JtiOf, Token
<1>7. \A d \in Callers : (On(d, "start")' => Inside(d)') /\ (On(d, "started")' => Inside(d)')
  BY DEF On, Inside
<1>8. \A d \in Callers \ {c} : Inside(d) => Server(d) # Server(c) /\ Server(d) \in Servers
  BY <1>0, LaunchShape DEF LaunchInv, OneInside, Inside
<1>9. \A k : \A r \in Requests : Rests(r, k) => Rests(r, k)'
  BY <1>1, RestsStays
<1>10. OneInside'
  <2>1. \A a, b \in Callers : Inside(a)' /\ Inside(b)' /\ Server(a)' = Server(b)' => a = b
    BY <1>6 DEF LaunchInv, OneInside
  <2>2. ASSUME NEW d \in Callers, Inside(d)'
        PROVE  Rests(Request(d), JtiOf(d))' /\ (Gpu!Existing(Server(d), Request(d).key) = {})'
    <3>1. /\ Inside(d) /\ Request(d) \in Requests /\ jobs'[Server(d)] = jobs[Server(d)]
          /\ Server(d)' = Server(d) /\ Request(d)' = Request(d) /\ JtiOf(d)' = JtiOf(d)
      BY <2>2, <1>0, <1>4, <1>6, <1>8, LaunchShape DEF Inside
    <3> QED BY <3>1, <1>9 DEF LaunchInv, OneInside, Gpu!Existing
  <2>3. ASSUME NEW d \in Callers, On(d, "start")', Request(d)'.r2
        PROVE  /\ \A p \in processes' : p.jti # JtiOf(d)'
               /\ \A b \in Callers \ {d} : On(b, "start")' => JtiOf(b)' # JtiOf(d)'
    BY <2>3, <1>1, <1>6, <1>7 DEF LaunchInv, OneInside
  <2> QED BY <2>1, <2>2, <2>3 DEF OneInside
<1>11. OwnToken' /\ Unapproved' /\ Gpu!RunsApprovedBytes' /\ Gpu!OneProcessPerKey'
  <2>1. \A p \in processes : p.request \in Requests
    BY <1>0 DEF LaunchShapes, Processes
  <2>2. OwnToken'
    BY <1>1, <1>9, <2>1 DEF LaunchInv, OwnToken
  <2> QED BY <1>1, <2>2 DEF LaunchInv, Unapproved, Gpu!RunsApprovedBytes, Gpu!OneProcessPerKey
<1>12. Known'
  <2> SUFFICES ASSUME NEW p \in processes
               PROVE  /\ p.epoch <= epoch[p.server]
                      /\ p.epoch = epoch[p.server] =>
                            \/ \E j \in jobs'[p.server] : j.request = p.request
                            \/ \E d \in Callers : /\ On(d, "started")' /\ Server(d)' = p.server
                                                  /\ Request(d)' = p.request
    BY <1>1 DEF Known
  <2>1. p.server \in Servers
    BY <1>0 DEF LaunchShapes, Processes
  <2>2. jobs[p.server] \subseteq jobs'[p.server]
    BY <2>1, <1>4
  <2>3. ASSUME NEW d \in Callers, On(d, "started"), Server(d) = p.server, Request(d) = p.request
        PROVE  \/ \E j \in jobs'[p.server] : j.request = p.request
               \/ On(d, "started")' /\ Server(d)' = p.server /\ Request(d)' = p.request
    <3>1. CASE d = c
      <4>1. job \in jobs'[p.server] /\ job.request = Request(c)
        BY <3>1, <2>3, <1>4
      <4> QED BY <4>1, <3>1, <2>3
    <3>2. CASE d # c
      BY <3>2, <2>3, <1>2 DEF On, Server, Request
    <3> QED BY <3>1, <3>2
  <2> QED BY <2>2, <2>3 DEF LaunchInv, Known
<1>13. Started'
  BY <1>1, <1>6, <1>7 DEF LaunchInv, Started
<1>14. Gpu!JobsBacked'
  <2> SUFFICES ASSUME NEW s \in Servers, NEW j \in jobs'[s]
               PROVE  /\ \A k \in jobs'[s] : k.request.key = j.request.key => k = j
                      /\ \E p \in processes : p.server = s /\ p.epoch = epoch[s]
                                              /\ p.request = j.request
    BY <1>1 DEF Gpu!JobsBacked
  <2>1. CASE s # Server(c)
    BY <2>1, <1>4 DEF LaunchInv, Gpu!JobsBacked
  <2>2. CASE s = Server(c)
    <3>1. \A k \in jobs[s] : k.request.key # Request(c).key
      BY <2>2, <1>0 DEF LaunchInv, OneInside, Gpu!Existing
    <3>2. \A k \in jobs'[s] : k \in jobs[s] \/ k = job
      BY <2>2, <1>4
    <3>3. \E p \in processes : p.server = s /\ p.epoch = epoch[s] /\ p.request = Request(c)
      BY <2>2, <1>0 DEF LaunchInv, Started
    <3>4. CASE j = job
      BY <3>1, <3>2, <3>3, <3>4
    <3>5. CASE j \in jobs[s]
      BY <3>1, <3>2, <3>5 DEF LaunchInv, Gpu!JobsBacked
    <3> QED BY <3>2, <3>4, <3>5
  <2> QED BY <2>1, <2>2
<1>15. Gpu!GpuAssumption'
  BY DEF LaunchInv, Gpu!GpuAssumption
<1> QED BY <1>5, <1>10, <1>11, <1>12, <1>13, <1>14, <1>15 DEF LaunchInv

-----------------------------------------------------------------------------
(* A server crashes, a worker runs.                                        *)

\* A server that crashes forgets its jobs and its calls; its processes are of a past life.
LEMMA CrashInv ==
    ASSUME LaunchInv, NEW s \in Servers, Gpu!Crash(s)
    PROVE  LaunchInv'
<1>0. LaunchShapes
  BY DEF LaunchInv
<1>1. /\ epoch[s] < MaxCrashes
      /\ epoch' = [epoch EXCEPT ![s] = @ + 1] /\ jobs' = [jobs EXCEPT ![s] = {}]
      /\ calls' = [c \in Callers |-> IF Gpu!Busy(c) /\ calls[c].server = s THEN Gpu!Idle ELSE calls[c]]
      /\ UNCHANGED <<clock, config, tokens, consumed, processes>>
  BY DEF Gpu!Crash
<1>2. epoch[s] \in Nat /\ epoch[s] + 1 \in 0..MaxCrashes /\ epoch'[s] = epoch[s] + 1
      /\ jobs'[s] = {}
  BY <1>0, <1>1, BoundShape DEF LaunchInv, LaunchShapes
<1>3. \A u \in Servers \ {s} : epoch'[u] = epoch[u] /\ jobs'[u] = jobs[u]
  BY <1>0, <1>1 DEF LaunchShapes
<1>4. calls' \in [Callers -> {Gpu!Idle} \cup Launches]
  BY <1>0, <1>1 DEF LaunchShapes
<1>5. LaunchShapes'
  BY <1>0, <1>1, <1>2, <1>4 DEF LaunchShapes, Launches, Tokens, Processes
<1>6. \A c \in Callers :
         /\ Inside(c)' => calls'[c] = calls[c] /\ Server(c) # s
         /\ Inside(c) /\ Server(c) # s => calls'[c] = calls[c]
  BY <1>1 DEF Inside, Gpu!Idle, Gpu!Busy, Server
<1>7. \A c \in Callers :
         Inside(c)' => /\ Inside(c) /\ Server(c) \in Servers \ {s} /\ Request(c) \in Requests
                       /\ On(c, "start")' = On(c, "start") /\ On(c, "started")' = On(c, "started")
                       /\ Server(c)' = Server(c) /\ Request(c)' = Request(c)
                       /\ JtiOf(c)' = JtiOf(c)
  BY <1>0, <1>6, LaunchShape DEF Inside, On, Server, Request, JtiOf, Token
<1>8. \A c \in Callers : (On(c, "start")' => Inside(c)') /\ (On(c, "started")' => Inside(c)')
  BY DEF On, Inside
<1>9. \A k : \A r \in Requests : Rests(r, k) => Rests(r, k)'
  BY <1>1, RestsStays
<1>10. OneInside'
  <2>1. \A a, b \in Callers : Inside(a)' /\ Inside(b)' /\ Server(a)' = Server(b)' => a = b
    BY <1>7 DEF LaunchInv, OneInside
  <2>2. ASSUME NEW d \in Callers, Inside(d)'
        PROVE  Rests(Request(d), JtiOf(d))' /\ (Gpu!Existing(Server(d), Request(d).key) = {})'
    BY <2>2, <1>3, <1>7, <1>9 DEF LaunchInv, OneInside, Gpu!Existing
  <2>3. ASSUME NEW d \in Callers, On(d, "start")', Request(d)'.r2
        PROVE  /\ \A p \in processes' : p.jti # JtiOf(d)'
               /\ \A b \in Callers \ {d} : On(b, "start")' => JtiOf(b)' # JtiOf(d)'
    BY <2>3, <1>1, <1>7, <1>8 DEF LaunchInv, OneInside
  <2> QED BY <2>1, <2>2, <2>3 DEF OneInside
<1>11. OwnToken' /\ Unapproved' /\ Gpu!RunsApprovedBytes' /\ Gpu!OneProcessPerKey'
  <2>1. \A p \in processes : p.request \in Requests
    BY <1>0 DEF LaunchShapes, Processes
  <2>2. OwnToken'
    BY <1>1, <1>9, <2>1 DEF LaunchInv, OwnToken
  <2> QED BY <1>1, <2>2 DEF LaunchInv, Unapproved, Gpu!RunsApprovedBytes, Gpu!OneProcessPerKey
<1>12. Known'
  <2> SUFFICES ASSUME NEW p \in processes
               PROVE  /\ p.epoch <= epoch'[p.server]
                      /\ p.epoch = epoch'[p.server] =>
                            \/ \E j \in jobs'[p.server] : j.request = p.request
                            \/ \E d \in Callers : /\ On(d, "started")' /\ Server(d)' = p.server
                                                  /\ Request(d)' = p.request
    BY <1>1 DEF Known
  <2>1. p.server \in Servers /\ p.epoch \in Nat /\ p.epoch <= epoch[p.server]
    BY <1>0, BoundShape DEF LaunchInv, LaunchShapes, Processes, Known
  <2>2. CASE p.server = s
    BY <2>1, <2>2, <1>2
  <2>3. CASE p.server # s
    <3>1. \A d \in Callers : On(d, "started") /\ Server(d) = p.server =>
             On(d, "started")' /\ Server(d)' = Server(d) /\ Request(d)' = Request(d)
      BY <2>3, <1>6 DEF Inside, On, Server, Request
    <3> QED BY <2>1, <2>3, <3>1, <1>3 DEF LaunchInv, Known
  <2> QED BY <2>2, <2>3
<1>13. Started'
  BY <1>1, <1>3, <1>7, <1>8 DEF LaunchInv, Started
<1>14. Gpu!JobsBacked'
  <2> SUFFICES ASSUME NEW u \in Servers, NEW j \in jobs'[u]
               PROVE  /\ \A k \in jobs'[u] : k.request.key = j.request.key => k = j
                      /\ \E p \in processes : p.server = u /\ p.epoch = epoch'[u]
                                              /\ p.request = j.request
    BY <1>1 DEF Gpu!JobsBacked
  <2>1. u # s
    BY <1>2
  <2> QED BY <2>1, <1>3 DEF LaunchInv, Gpu!JobsBacked
<1>15. Gpu!GpuAssumption'
  BY DEF LaunchInv, Gpu!GpuAssumption
<1> QED BY <1>5, <1>10, <1>11, <1>12, <1>13, <1>14, <1>15 DEF LaunchInv

\* A worker writes what it ran, and nothing that the other properties look at.
LEMMA WorkInv ==
    ASSUME LaunchInv, NEW w \in processes, Gpu!Work(w)
    PROVE  LaunchInv'
<1> DEFINE v == [w EXCEPT !.ran = IF config = w.request.config THEN config ELSE "refused"]
<1>0. LaunchShapes /\ w \in Processes
  BY DEF LaunchInv, LaunchShapes
<1>1. /\ processes' = (processes \ {w}) \cup {v}
      /\ UNCHANGED <<clock, config, tokens, consumed, jobs, epoch, calls>>
  BY DEF Gpu!Work
<1>2. /\ v \in Processes
      /\ v.id = w.id /\ v.server = w.server /\ v.epoch = w.epoch /\ v.request = w.request
      /\ v.jti = w.jti /\ v.ran \in {"refused", w.request.config}
  BY <1>0 DEF Processes, LaunchShapes
<1>3. LaunchShapes'
  <2>1. IsFiniteSet(processes')
    BY <1>0, <1>1, FS_RemoveElement, FS_AddElement DEF LaunchShapes
  <2> QED BY <2>1, <1>0, <1>1, <1>2 DEF LaunchShapes, Launches, Tokens, Processes
\* Every process is, but for what it ran, one of before, and the other way round.
<1>4. ASSUME NEW p \in processes'
      PROVE  \E q \in processes : /\ p.id = q.id /\ p.server = q.server /\ p.epoch = q.epoch
                                  /\ p.request = q.request /\ p.jti = q.jti
  BY <1>1, <1>2
<1>5. ASSUME NEW q \in processes
      PROVE  \E p \in processes' : /\ p.id = q.id /\ p.server = q.server /\ p.epoch = q.epoch
                                   /\ p.request = q.request /\ p.jti = q.jti
  BY <1>1, <1>2
<1>6. \A k : \A r \in Requests : Rests(r, k) => Rests(r, k)'
  BY <1>1, RestsStays
<1>7. \A c \in Callers :
         /\ Inside(c)' = Inside(c) /\ On(c, "start")' = On(c, "start")
         /\ On(c, "started")' = On(c, "started") /\ JtiOf(c)' = JtiOf(c)
         /\ Server(c)' = Server(c) /\ Request(c)' = Request(c)
  BY <1>1 DEF Inside, On, Server, Request, JtiOf, Token
<1>8. OneInside'
  <2>1. \A a, b \in Callers : Inside(a)' /\ Inside(b)' /\ Server(a)' = Server(b)' => a = b
    BY <1>7 DEF LaunchInv, OneInside
  <2>2. ASSUME NEW d \in Callers, Inside(d)'
        PROVE  Rests(Request(d), JtiOf(d))' /\ (Gpu!Existing(Server(d), Request(d).key) = {})'
    <3>1. Inside(d) /\ Request(d) \in Requests
      BY <2>2, <1>0, <1>7, LaunchShape DEF Inside
    <3> QED BY <3>1, <1>1, <1>6, <1>7 DEF LaunchInv, OneInside, Gpu!Existing
  <2>3. ASSUME NEW d \in Callers, On(d, "start")', Request(d)'.r2
        PROVE  /\ \A p \in processes' : p.jti # JtiOf(d)'
               /\ \A b \in Callers \ {d} : On(b, "start")' => JtiOf(b)' # JtiOf(d)'
    BY <2>3, <1>4, <1>7 DEF LaunchInv, OneInside
  <2> QED BY <2>1, <2>2, <2>3 DEF OneInside
<1>9. OwnToken'
  <2> SUFFICES ASSUME NEW p \in processes'
               PROVE  /\ Rests(p.request, p.jti)'
                      /\ p.request.r2 => \A q \in processes' : q.jti = p.jti => q.id = p.id
    BY DEF OwnToken
  <2>1. PICK o \in processes : p.id = o.id /\ p.request = o.request /\ p.jti = o.jti
    BY <1>4
  <2>2. Rests(o.request, o.jti) /\ o.request \in Requests
    BY <1>0 DEF LaunchInv, OwnToken, LaunchShapes, Processes
  <2>3. p.request.r2 => \A q \in processes' : q.jti = p.jti => q.id = p.id
    BY <2>1, <1>4 DEF LaunchInv, OwnToken
  <2> QED BY <2>1, <2>2, <2>3, <1>6
<1>10. Unapproved'
  BY <1>4 DEF LaunchInv, Unapproved
<1>11. Gpu!RunsApprovedBytes'
  BY <1>1, <1>2 DEF LaunchInv, Gpu!RunsApprovedBytes
<1>12. Gpu!OneProcessPerKey'
  BY <1>4 DEF LaunchInv, Gpu!OneProcessPerKey
<1>13. Known'
  <2> SUFFICES ASSUME NEW p \in processes'
               PROVE  /\ p.epoch <= epoch[p.server]
                      /\ p.epoch = epoch[p.server] =>
                            \/ \E j \in jobs[p.server] : j.request = p.request
                            \/ \E d \in Callers : /\ On(d, "started")' /\ Server(d)' = p.server
                                                  /\ Request(d)' = p.request
    BY <1>1 DEF Known
  <2>1. PICK o \in processes : p.server = o.server /\ p.epoch = o.epoch /\ p.request = o.request
    BY <1>4
  <2> QED BY <2>1, <1>7 DEF LaunchInv, Known
<1>14. Started'
  BY <1>1, <1>5, <1>7 DEF LaunchInv, Started
<1>15. Gpu!JobsBacked'
  <2> SUFFICES ASSUME NEW s \in Servers, NEW j \in jobs[s]
               PROVE  /\ \A k \in jobs[s] : k.request.key = j.request.key => k = j
                      /\ \E p \in processes' : p.server = s /\ p.epoch = epoch[s]
                                               /\ p.request = j.request
    BY <1>1 DEF Gpu!JobsBacked
  <2>1. PICK q \in processes : q.server = s /\ q.epoch = epoch[s] /\ q.request = j.request
    BY DEF LaunchInv, Gpu!JobsBacked
  <2> QED BY <2>1, <1>5 DEF LaunchInv, Gpu!JobsBacked
<1>16. Gpu!GpuAssumption'
  BY DEF LaunchInv, Gpu!GpuAssumption
<1> QED BY <1>3, <1>8, <1>9, <1>10, <1>11, <1>12, <1>13, <1>14, <1>15, <1>16 DEF LaunchInv

-----------------------------------------------------------------------------
(* Every step keeps the invariant.                                         *)

\* The step case of the invariant, action by action.
LEMMA LaunchNext == LaunchInv /\ [Gpu!Next]_(Gpu!vars) => LaunchInv'
<1> SUFFICES ASSUME LaunchInv, [Gpu!Next]_(Gpu!vars) PROVE LaunchInv'
  OBVIOUS
<1>1. CASE \/ Gpu!Tick \/ Gpu!ChangeConfig
           \/ \E jti \in Jtis, r \in Requests : Gpu!Issue(jti, r)
           \/ \E c \in Callers, s \in Servers, r \in Requests, t \in tokens \cup {Missing} :
                 Gpu!Plan(c, s, r, t)
  BY <1>1, SurroundingsInv
<1>2. CASE \E s \in Servers : Gpu!Crash(s)
  BY <1>2, CrashInv
<1>3. CASE \E c \in Callers : Gpu!Enter(c) \/ Gpu!StartProcess(c) \/ Gpu!StartFails(c) \/ Gpu!SaveJob(c)
  BY <1>3, EnterInv, StartProcessInv, StartFailsInv, SaveJobInv
<1>4. CASE \E p \in processes : Gpu!Work(p)
  BY <1>4, WorkInv
<1>5. CASE UNCHANGED Gpu!vars
  <2>1. LaunchShapes'
    BY <1>5 DEF LaunchInv, LaunchShapes, Launches, Tokens, Processes, Gpu!vars
  <2>2. Outside
    BY <1>5 DEF Outside, Gpu!vars
  <2> QED BY <2>1, <2>2, OutsideInv
<1> QED BY <1>1, <1>2, <1>3, <1>4, <1>5 DEF Gpu!Next

\* LaunchInv holds in every reachable state.
LEMMA LaunchAlways == Gpu!Spec => []LaunchInv
BY ToolsAssumption, LaunchInit, LaunchNext, PTL DEF Gpu!Spec

\* The launch server's state keeps its type (launch, validate_and_consume); no token
\* starts two processes, on any of the servers, before or after a crash, and every R2
\* process has one that was signed for it and alive (FileReplayStore.consume); it runs
\* the bytes that were approved; one life of a server starts one process per idempotency
\* key, and every job it keeps is of a process it started (launch under GPUService's lock).
THEOREM LaunchesAreBacked == Gpu!Spec => []LaunchesBacked
<1>1. LaunchInv => Gpu!TypeOK
  <2> SUFFICES ASSUME LaunchInv PROVE Gpu!TypeOK
    OBVIOUS
  <2>1. LaunchShapes
    BY DEF LaunchInv
  <2>2. \A c \in Callers : calls[c].phase \in {"idle", "waiting", "start", "started"}
    BY <2>1 DEF LaunchShapes, Gpu!Idle, Launches
  <2>3. \A s \in Servers : \A j \in jobs[s] : j.request \in Requests
    BY <2>1 DEF LaunchShapes
  <2> QED BY <2>1, <2>2, <2>3 DEF LaunchShapes, Gpu!TypeOK, Tokens
<1>2. LaunchInv => Gpu!OneProcessPerToken
  BY DEF LaunchInv, OwnToken, Rests, Gpu!OneProcessPerToken
<1>3. LaunchInv => Gpu!RunsApprovedBytes /\ Gpu!OneProcessPerKey /\ Gpu!JobsBacked
  BY DEF LaunchInv
<1>4. LaunchInv => LaunchesBacked
  BY <1>1, <1>2, <1>3 DEF LaunchesBacked
<1> QED BY <1>4, LaunchAlways, PTL

-----------------------------------------------------------------------------
(* The user's status.                                                      *)

StatusEvents == [type : Status!EventTypes, node : Nodes, safety : Judgements \cup {Missing}]
UpTo(p) == p.upto \in 0..Len(events)
StatusInv == /\ events \in Seq(StatusEvents)
             /\ Status!Shown => UpTo(shown)
             /\ UserIsTold

\* What _effective_mode chooses is the most severe of what was asked for and what happened.
LEMMA ModeIsSevere ==
    ASSUME NEW seen \in Seq(StatusEvents), NEW requested \in Status!Modes,
           NEW mode, mode = Status!EffectiveMode(requested, seen)
    PROVE  /\ mode \in Status!Modes
           /\ \A i \in 1..Len(seen) :
                 seen[i].type \in Status!SafetyTypes =>
                     Status!ModePriority[mode] >= Status!ModePriority[seen[i].type]
<1> DEFINE candidates == {requested} \cup {e.type : e \in {x \in Status!Range(seen) : x.type # "PROGRESS"}}
           top == {m \in candidates : \A n \in candidates : Status!ModePriority[n] <= Status!ModePriority[m]}
<1>1. \A i \in 1..Len(seen) : seen[i] \in StatusEvents
  OBVIOUS
<1>2. candidates \subseteq Status!Modes
  BY <1>1 DEF Status!Range, StatusEvents, Status!EventTypes, Status!Modes
<1>3. /\ Status!ModePriority["PROGRESS"] = 0 /\ Status!ModePriority["DETAIL"] = 0
      /\ Status!ModePriority["RISK"] = 1 /\ Status!ModePriority["APPROVAL"] = 2
      /\ Status!ModePriority["SECURITY"] = 3
  BY DEF Status!ModePriority, Status!Modes
<1> HIDE DEF candidates
<1>4. top # {}
  <2>0. requested \in candidates
    BY DEF candidates
  <2>1. CASE "SECURITY" \in candidates
    BY <1>2, <1>3, <2>1 DEF Status!Modes
  <2>2. CASE "SECURITY" \notin candidates /\ "APPROVAL" \in candidates
    BY <1>2, <1>3, <2>2 DEF Status!Modes
  <2>3. CASE candidates \cap {"SECURITY", "APPROVAL"} = {} /\ "RISK" \in candidates
    BY <1>2, <1>3, <2>3 DEF Status!Modes
  <2>4. CASE candidates \cap {"SECURITY", "APPROVAL", "RISK"} = {}
    BY <1>2, <1>3, <2>0, <2>4 DEF Status!Modes
  <2> QED BY <2>1, <2>2, <2>3, <2>4
<1>5. mode = IF requested \in top THEN requested ELSE CHOOSE m \in top : TRUE
  BY DEF Status!EffectiveMode, candidates
<1> HIDE DEF top
<1>6. mode \in top
  <2>1. (CHOOSE m \in top : TRUE) \in top
    BY <1>4
  <2> QED BY <1>5, <2>1
<1> USE DEF top
<1>7. ASSUME NEW i \in 1..Len(seen), seen[i].type \in Status!SafetyTypes
      PROVE  seen[i].type \in candidates
  <2>1. seen[i] \in Status!Range(seen) /\ seen[i].type # "PROGRESS"
    BY <1>7 DEF Status!Range, Status!SafetyTypes
  <2> QED BY <2>1 DEF candidates
<1>8. \A i \in 1..Len(seen) : seen[i].type \in Status!SafetyTypes =>
          Status!ModePriority[seen[i].type] <= Status!ModePriority[mode]
  BY <1>6, <1>7
<1>9. \A m \in Status!Modes : Status!ModePriority[m] \in Nat
  BY <1>3 DEF Status!Modes
<1>10. Status!SafetyTypes \subseteq Status!Modes
  BY DEF Status!SafetyTypes, Status!Modes
<1> QED BY <1>2, <1>6, <1>8, <1>9, <1>10

\* A projection that is made tells of all the events it was made of.
LEMMA ProjectionTells ==
    ASSUME NEW seen \in Seq(StatusEvents), NEW requested \in Status!Modes,
           NEW safety, NEW disclosure, Status!Projectable(requested, seen, safety, disclosure),
           NEW p, p = Status!Projection(requested, seen, safety, disclosure)
    PROVE  /\ p.upto = Len(seen)
           /\ \A i \in 1..Len(seen) :
                 seen[i].type \in Status!SafetyTypes =>
                     /\ seen[i].node \in p.visible
                     /\ Status!ModePriority[p.mode] >= Status!ModePriority[seen[i].type]
           /\ Status!ProjectionContract(p)
           /\ p.mode = "APPROVAL" => \A i \in 1..Len(seen) :
                 /\ seen[i].type # "SECURITY"
                 /\ seen[i].type = "APPROVAL" => /\ seen[i].safety = p.safety
                                                 /\ p.disclosure = seen[i].safety.disclosure
<1>1. PICK mode : mode = Status!EffectiveMode(requested, seen)
  OBVIOUS
<1>2. /\ mode \in Status!Modes
      /\ \A i \in 1..Len(seen) :
            seen[i].type \in Status!SafetyTypes =>
                Status!ModePriority[mode] >= Status!ModePriority[seen[i].type]
  BY <1>1, ModeIsSevere
<1>3. /\ p.mode = mode /\ p.overrides = Status!Overrides(mode, seen)
      /\ p.visible = Status!Base \cup p.overrides
      /\ p.safety = safety /\ p.disclosure = disclosure /\ p.upto = Len(seen)
  BY <1>1 DEF Status!Projection
<1>4. Status!ValidSafetyBinding(mode, seen, safety, disclosure)
  BY <1>1 DEF Status!Projectable
<1>5. /\ Status!ModePriority["PROGRESS"] = 0 /\ Status!ModePriority["DETAIL"] = 0
      /\ Status!ModePriority["RISK"] = 1 /\ Status!ModePriority["APPROVAL"] = 2
      /\ Status!ModePriority["SECURITY"] = 3
  BY DEF Status!ModePriority, Status!Modes
<1>6. \A i \in 1..Len(seen) : /\ seen[i] \in StatusEvents /\ seen[i] \in Status!Range(seen)
  BY DEF Status!Range
<1>7. ASSUME NEW i \in 1..Len(seen), seen[i].type \in Status!SafetyTypes
      PROVE  seen[i].node \in p.visible
  <2>1. mode \in Status!SafetyTypes
    BY <1>2, <1>5, <1>7 DEF Status!SafetyTypes, Status!Modes
  <2>2. seen[i].node \in Status!Attention(mode, seen)
    BY <1>6, <1>7, <2>1 DEF Status!Attention
  <2> QED BY <1>3, <2>2 DEF Status!Overrides
<1>8. Status!ProjectionContract(p)
  <2>1. p.overrides \subseteq Nodes /\ p.overrides \cap Status!Base = {}
    <3>1. \A e \in Status!Range(seen) : e.node \in Nodes
      BY <1>6 DEF Status!Range, StatusEvents
    <3> QED BY <1>3, <3>1 DEF Status!Overrides, Status!Attention
  <2>2. mode \in {"PROGRESS", "DETAIL"} => p.overrides = {}
    BY <1>3 DEF Status!Overrides, Status!Attention, Status!SafetyTypes
  <2>3. mode \notin {"APPROVAL", "SECURITY"} => safety = Missing /\ disclosure = Missing
    BY <1>4 DEF Status!ValidSafetyBinding
  <2>4. mode \in {"APPROVAL", "SECURITY"} => safety # Missing
    BY <1>4 DEF Status!ValidSafetyBinding
  <2>5. mode = "APPROVAL" => disclosure # Missing /\ disclosure = safety.disclosure
    BY <1>4 DEF Status!ValidSafetyBinding
  <2>6. mode = "SECURITY" => disclosure = Missing
    BY <1>4 DEF Status!ValidSafetyBinding
  <2>7. "SECURITY" # "APPROVAL"
    OBVIOUS
  <2> QED BY <1>3, <2>1, <2>2, <2>3, <2>4, <2>5, <2>6, <2>7 DEF Status!ProjectionContract
<1>9. ASSUME p.mode = "APPROVAL", NEW i \in 1..Len(seen)
      PROVE  /\ seen[i].type # "SECURITY"
             /\ seen[i].type = "APPROVAL" => /\ seen[i].safety = p.safety
                                             /\ p.disclosure = seen[i].safety.disclosure
  <2>1. seen[i].type # "SECURITY"
    BY <1>2, <1>3, <1>5, <1>9 DEF Status!SafetyTypes
  <2>2. mode = "APPROVAL"
    BY <1>3, <1>9
  <2>3. /\ \A e \in {x \in Status!Range(seen) : x.type = mode} : e.safety = safety
        /\ safety.disclosure = disclosure
    BY <1>4, <2>2 DEF Status!ValidSafetyBinding
  <2> QED BY <1>3, <1>6, <2>1, <2>2, <2>3
<1> QED BY <1>2, <1>3, <1>7, <1>8, <1>9

LEMMA StatusNext == StatusInv /\ [Status!Next]_(Status!vars) => StatusInv'
<1> SUFFICES ASSUME StatusInv, [Status!Next]_(Status!vars) PROVE StatusInv'
  OBVIOUS
<1>0. Len(events) \in Nat /\ events \in Seq(StatusEvents)
  BY DEF StatusInv
<1>1. ASSUME NEW type \in Status!EventTypes, NEW node \in Nodes, NEW safety \in Judgements \cup {Missing},
             Status!AdmitEvent(type, node, safety)
      PROVE  StatusInv'
  <2>1. PICK e : e = [type |-> type, node |-> node, safety |-> safety]
    OBVIOUS
  <2>2. e \in StatusEvents
    BY <2>1 DEF StatusEvents
  <2>3. events' = Append(events, e) /\ shown' = shown
    BY <1>1, <2>1 DEF Status!AdmitEvent
  <2>4. /\ events' \in Seq(StatusEvents) /\ Len(events') = Len(events) + 1
        /\ \A i \in 1..Len(events) : events'[i] = events[i]
    BY <1>0, <2>2, <2>3
  <2>5. Status!Shown' = Status!Shown
    BY <2>3 DEF Status!Shown
  <2>6. Status!Shown => \A i \in 1..shown.upto : i \in 1..Len(events)
    BY <1>0 DEF StatusInv, UpTo
  <2>7. Status!NothingHidden' /\ Status!ApprovalIsExact'
    BY <2>3, <2>4, <2>5, <2>6
       DEF StatusInv, UserIsTold, Status!NothingHidden, Status!ApprovalIsExact
  <2>8. Status!ProjectionsValid'
    BY <2>3, <2>5 DEF StatusInv, UserIsTold, Status!ProjectionsValid
  <2>9. Status!Shown' => UpTo(shown)'
    BY <1>0, <2>3, <2>4, <2>5 DEF StatusInv, UpTo
  <2> QED BY <2>4, <2>7, <2>8, <2>9 DEF StatusInv, UserIsTold
<1>2. ASSUME NEW requested \in Status!Modes, NEW safety \in Judgements \cup {Missing},
             NEW disclosure \in Status!Disclosures,
             Status!ProjectUserStatus(requested, safety, disclosure)
      PROVE  StatusInv'
  <2>1. events' = events
    BY <1>2 DEF Status!ProjectUserStatus
  <2>2. CASE Status!Projectable(requested, events, safety, disclosure)
    <3>1. PICK p : p = Status!Projection(requested, events, safety, disclosure)
      OBVIOUS
    <3>2. shown' = p
      BY <1>2, <2>2, <3>1 DEF Status!ProjectUserStatus
    <3>3. /\ p.upto = Len(events)
          /\ \A i \in 1..Len(events) :
                events[i].type \in Status!SafetyTypes =>
                    /\ events[i].node \in p.visible
                    /\ Status!ModePriority[p.mode] >= Status!ModePriority[events[i].type]
          /\ Status!ProjectionContract(p)
          /\ p.mode = "APPROVAL" => \A i \in 1..Len(events) :
                /\ events[i].type # "SECURITY"
                /\ events[i].type = "APPROVAL" => /\ events[i].safety = p.safety
                                                  /\ p.disclosure = events[i].safety.disclosure
      BY <1>0, <2>2, <3>1, ProjectionTells
    <3>4. UpTo(shown)'
      BY <1>0, <2>1, <3>2, <3>3 DEF UpTo
    <3>5. UserIsTold'
      BY <2>1, <3>2, <3>3 DEF UserIsTold, Status!NothingHidden, Status!ApprovalIsExact,
                             Status!ProjectionsValid
    <3> QED BY <1>0, <2>1, <3>4, <3>5 DEF StatusInv
  <2>3. CASE ~Status!Projectable(requested, events, safety, disclosure)
    <3>1. ~Status!Shown'
      BY <1>2, <2>3 DEF Status!ProjectUserStatus, Status!Shown
    <3> QED BY <1>0, <2>1, <3>1 DEF StatusInv, UserIsTold, Status!NothingHidden,
                                    Status!ApprovalIsExact, Status!ProjectionsValid
  <2> QED BY <2>2, <2>3
<1>3. CASE UNCHANGED Status!vars
  BY <1>3 DEF StatusInv, UpTo, UserIsTold, Status!NothingHidden, Status!ApprovalIsExact,
              Status!ProjectionsValid, Status!Shown, Status!vars
<1> QED BY <1>1, <1>2, <1>3 DEF Status!Next

\* Whatever is admitted and asked for, a projection shows every node with a safety event, is
\* no less severe than any of them, and asks for approval of the one effect that waits for
\* it (project_user_status, _effective_mode, _validate_safety_binding).
THEOREM UsersAreTold == Status!Spec => []UserIsTold
<1>1. Status!Init => StatusInv
  BY DEF Status!Init, StatusInv, UserIsTold, Status!NothingHidden, Status!ApprovalIsExact,
         Status!ProjectionsValid, Status!Shown
<1>2. StatusInv => UserIsTold
  BY DEF StatusInv
<1> QED BY <1>1, <1>2, StatusNext, PTL DEF Status!Spec

-----------------------------------------------------------------------------
(* The effect pipeline.                                                    *)

LEMMA SafetyRanks ==
    /\ Safety!Levels = {"LOW", "MEDIUM", "HIGH"}
    /\ Safety!RiskRank["LOW"] = 0 /\ Safety!RiskRank["MEDIUM"] = 1 /\ Safety!RiskRank["HIGH"] = 2
    /\ Safety!Dispositions = {"ALLOW", "APPROVAL_REQUIRED", "DENY"}
    /\ Safety!DispositionRank["ALLOW"] = 0 /\ Safety!DispositionRank["APPROVAL_REQUIRED"] = 1
    /\ Safety!DispositionRank["DENY"] = 2
BY DEF Safety!Levels, Safety!RiskRank, Safety!Dispositions, Safety!DispositionRank

\* What a rule matched or an unknown operation adds to an assessment.
Demands(e) == Safety!MandatoryRuleMatches(e) \cup Safety!Unknown(e)

LEMMA DemandsAreCodes == \A e : Demands(e) \subseteq Safety!Codes
BY DEF Demands, Safety!MandatoryRuleMatches, Safety!Unknown, Safety!Codes

\* An assessment of an effect, and what every one of the system's says.
Assesses(a, stage, e) ==
    /\ a \in Safety!Assessments /\ a.stage = stage /\ a.effect = e
Assessed(a, e) ==
    /\ Assesses(a, "SYSTEM", e)
    /\ a.disposition = "ALLOW" => a.level # "HIGH" /\ Demands(e) = {}
    /\ a.disposition # "ALLOW" => a.level = "HIGH"
    /\ Safety!OperationRiskLevel(e.operation) = "HIGH" => a.level = "HIGH"
    /\ a.disposition = "DENY" => a.constraints # {}

LEMMA AssessmentType ==
    ASSUME NEW stage \in {"SYSTEM", "GUARDIAN"}, NEW e \in Effects, NEW level \in Safety!Levels,
           NEW disposition \in Safety!Dispositions, NEW reasons \in SUBSET Safety!Codes,
           NEW constraints \in SUBSET Safety!Codes, NEW n \in Nat,
           NEW a, a = Safety!Assessment(stage, e, level, disposition, reasons, constraints, n)
    PROVE  /\ Assesses(a, stage, e) /\ a.level = level /\ a.disposition = disposition
           /\ a.reasons = reasons /\ a.constraints = constraints
BY DEF Safety!Assessment, Safety!Assessments, Assesses

LEMMA SystemAssesses ==
    ASSUME NEW e \in Effects, NEW n \in Nat
    PROVE  Assessed(Safety!SystemAssess(e, n), e)
<1> DEFINE level == Safety!OperationRiskLevel(e.operation)
           reason == {IF level = "LOW" THEN "READ_ONLY_WORKSPACE_EFFECT"
                                       ELSE "REVERSIBLE_WORKSPACE_MUTATION"}
<1>1. PICK a : a = Safety!SystemAssess(e, n)
  OBVIOUS
<1>2. Demands(e) \in SUBSET Safety!Codes
  BY DemandsAreCodes
<1>3. level \in Safety!Levels
  BY SafetyRanks DEF Safety!OperationRiskLevel
<1>4. /\ "HIGH" \in Safety!Levels /\ "DENY" \in Safety!Dispositions
      /\ "APPROVAL_REQUIRED" \in Safety!Dispositions /\ "ALLOW" \in Safety!Dispositions
      /\ {"SYSTEM_HIGH_IMPACT_EFFECT"} \in SUBSET Safety!Codes /\ {} \in SUBSET Safety!Codes
      /\ reason \in SUBSET Safety!Codes
  BY SafetyRanks DEF Safety!Codes
<1>5. CASE Demands(e) # {}
  <2>1. a = Safety!Assessment("SYSTEM", e, "HIGH", "DENY", Demands(e), Demands(e), n)
    BY <1>1, <1>5 DEF Safety!SystemAssess, Demands
  <2>2. /\ Assesses(a, "SYSTEM", e) /\ a.level = "HIGH" /\ a.disposition = "DENY"
        /\ a.constraints = Demands(e)
    BY <1>2, <1>4, <2>1, AssessmentType
  <2> QED BY <1>1, <1>5, <2>2 DEF Assessed
<1>6. CASE Demands(e) = {} /\ level = "HIGH"
  <2>1. a = Safety!Assessment("SYSTEM", e, "HIGH", "APPROVAL_REQUIRED",
                              {"SYSTEM_HIGH_IMPACT_EFFECT"}, {}, n)
    BY <1>1, <1>6 DEF Safety!SystemAssess, Demands
  <2>2. /\ Assesses(a, "SYSTEM", e) /\ a.level = "HIGH" /\ a.disposition = "APPROVAL_REQUIRED"
    BY <1>4, <2>1, AssessmentType
  <2> QED BY <1>1, <2>2 DEF Assessed
<1>7. CASE Demands(e) = {} /\ level # "HIGH"
  <2>1. a = Safety!Assessment("SYSTEM", e, level, "ALLOW", reason, {}, n)
    BY <1>1, <1>7 DEF Safety!SystemAssess, Demands
  <2>2. /\ Assesses(a, "SYSTEM", e) /\ a.level = level /\ a.disposition = "ALLOW"
    BY <1>3, <1>4, <2>1, AssessmentType
  <2> QED BY <1>1, <1>7, <2>2 DEF Assessed
<1> QED BY <1>5, <1>6, <1>7

\* Also an assessment of an older rule version says what Assessed asks.
LEMMA SystemsAssess ==
    ASSUME sequence \in Nat, NEW e \in Effects, NEW a \in Safety!SystemAssessments(e)
    PROVE  Assessed(a, e)
<1>1. CASE a = Safety!SystemAssess(e, sequence)
  BY <1>1, SystemAssesses
<1>2. ASSUME NEW c \in Retired
      PROVE  /\ {c} \in SUBSET Safety!Codes /\ {} \in SUBSET Safety!Codes
             /\ "HIGH" \in Safety!Levels /\ "DENY" \in Safety!Dispositions
             /\ "APPROVAL_REQUIRED" \in Safety!Dispositions
  BY SafetyRanks DEF Safety!Codes
<1>3. ASSUME NEW c \in Retired,
             a = Safety!Assessment("SYSTEM", e, "HIGH", "DENY", {c}, {c}, sequence)
      PROVE  Assessed(a, e)
  <2>1. /\ Assesses(a, "SYSTEM", e) /\ a.level = "HIGH" /\ a.disposition = "DENY"
        /\ a.constraints = {c}
    BY <1>2, <1>3, AssessmentType
  <2> QED BY <2>1 DEF Assessed
<1>4. ASSUME NEW c \in Retired,
             a = Safety!Assessment("SYSTEM", e, "HIGH", "APPROVAL_REQUIRED", {c}, {}, sequence)
      PROVE  Assessed(a, e)
  <2>1. /\ Assesses(a, "SYSTEM", e) /\ a.level = "HIGH" /\ a.disposition = "APPROVAL_REQUIRED"
    BY <1>2, <1>4, AssessmentType
  <2> QED BY <2>1 DEF Assessed
<1> QED BY <1>1, <1>3, <1>4 DEF Safety!SystemAssessments

\* The Guardian denies what a rule or the system forbids, and allows nothing by itself.
LEMMA GuardianAnswers ==
    ASSUME NEW e \in Effects, NEW system, Assessed(system, e), system.level = "HIGH", NEW n \in Nat,
           NEW a, a = Safety!GuardianAssess(e, system, n)
    PROVE  /\ Assesses(a, "GUARDIAN", e) /\ a.level = "HIGH"
           /\ a.disposition \in {"APPROVAL_REQUIRED", "DENY"}
           /\ system.constraints \subseteq a.constraints
           /\ Demands(e) # {} \/ system.disposition = "DENY" => a.disposition = "DENY"
<1> DEFINE missing == system.constraints \ Demands(e)
           constraints == Demands(e) \cup missing
           reasons == Demands(e) \cup (IF missing # {} THEN {"SYSTEM_CONSTRAINT_MISMATCH"} ELSE {})
<1>1. Demands(e) \subseteq Safety!Codes /\ system.constraints \subseteq Safety!Codes
  BY DemandsAreCodes DEF Assessed, Assesses, Safety!Assessments
<1>2. /\ constraints \in SUBSET Safety!Codes /\ reasons \in SUBSET Safety!Codes
      /\ reasons \cup {"GUARDIAN_HIGH_IMPACT_EFFECT"} \in SUBSET Safety!Codes
      /\ reasons \cup {"SYSTEM_GUARDIAN_RISK_MISMATCH"} \in SUBSET Safety!Codes
      /\ {"GUARDIAN_CONSISTENCY"} \in SUBSET Safety!Codes /\ {} \in SUBSET Safety!Codes
  BY <1>1 DEF Safety!Codes
<1>3. /\ "HIGH" \in Safety!Levels /\ "DENY" \in Safety!Dispositions
      /\ "APPROVAL_REQUIRED" \in Safety!Dispositions
  BY SafetyRanks
<1>4. system.constraints \subseteq constraints
  OBVIOUS
<1>5. system.disposition = "DENY" => constraints # {}
  BY DEF Assessed
<1>6. Demands(e) # {} => constraints # {}
  OBVIOUS
<1>7. a = IF constraints # {}
          THEN Safety!Assessment("GUARDIAN", e, "HIGH", "DENY", reasons, constraints, n)
          ELSE IF Safety!OperationRiskLevel(e.operation) = "HIGH"
          THEN Safety!Assessment("GUARDIAN", e, "HIGH", "APPROVAL_REQUIRED",
                                 reasons \cup {"GUARDIAN_HIGH_IMPACT_EFFECT"}, {}, n)
          ELSE Safety!Assessment("GUARDIAN", e, "HIGH", "DENY",
                                 reasons \cup {"SYSTEM_GUARDIAN_RISK_MISMATCH"},
                                 {"GUARDIAN_CONSISTENCY"}, n)
  BY DEF Safety!GuardianAssess, Demands
<1> HIDE DEF constraints, reasons
<1>8. CASE constraints # {}
  <2>1. a = Safety!Assessment("GUARDIAN", e, "HIGH", "DENY", reasons, constraints, n)
    BY <1>7, <1>8
  <2>2. /\ Assesses(a, "GUARDIAN", e) /\ a.level = "HIGH" /\ a.disposition = "DENY"
        /\ a.constraints = constraints
    BY <1>2, <1>3, <2>1, AssessmentType
  <2> QED BY <1>4, <2>2
<1>9. CASE constraints = {} /\ Safety!OperationRiskLevel(e.operation) = "HIGH"
  <2>1. a = Safety!Assessment("GUARDIAN", e, "HIGH", "APPROVAL_REQUIRED",
                              reasons \cup {"GUARDIAN_HIGH_IMPACT_EFFECT"}, {}, n)
    BY <1>7, <1>9
  <2>2. /\ Assesses(a, "GUARDIAN", e) /\ a.level = "HIGH" /\ a.disposition = "APPROVAL_REQUIRED"
        /\ a.constraints = {}
    BY <1>2, <1>3, <2>1, AssessmentType
  <2> QED BY <1>4, <1>5, <1>6, <1>9, <2>2
<1>10. CASE constraints = {} /\ Safety!OperationRiskLevel(e.operation) # "HIGH"
  <2>1. a = Safety!Assessment("GUARDIAN", e, "HIGH", "DENY",
                              reasons \cup {"SYSTEM_GUARDIAN_RISK_MISMATCH"},
                              {"GUARDIAN_CONSISTENCY"}, n)
    BY <1>7, <1>10
  <2>2. /\ Assesses(a, "GUARDIAN", e) /\ a.level = "HIGH" /\ a.disposition = "DENY"
    BY <1>2, <1>3, <2>1, AssessmentType
  <2> QED BY <1>4, <1>10, <2>2
<1> QED BY <1>8, <1>9, <1>10

LEMMA SafetyConstants ==
    /\ Missing \notin Safety!Assessments /\ Missing \notin Safety!Disclosures
    /\ Effects \subseteq Safety!CanonicalEffects /\ MaxSequence \in Nat
BY ToolsAssumption DEF Safety!EffectSafetyAssumption

\* What build_guardian_decision makes of an effect and its assessment.
Guarded(g, e) ==
    /\ Safety!GuardianContract(g) /\ g.effect = e
    /\ Assessed(g.system, e)
    /\ g.guardian # Missing => Assesses(g.guardian, "GUARDIAN", e)
    /\ g.disposition \in Safety!Dispositions
    /\ g.disposition # "DENY" => Demands(e) = {}
    /\ g.system.level = "HIGH" => g.disposition # "ALLOW"

LEMMA GuardianDecides ==
    ASSUME NEW e \in Effects, NEW system, Assessed(system, e), NEW enforcement, NEW n \in Nat,
           NEW g, g = Safety!BuildGuardianDecision(e, system, enforcement, n)
    PROVE  Guarded(g, e)
<1>0. /\ system \in Safety!Assessments /\ system.stage = "SYSTEM" /\ system.effect = e
      /\ system.level \in Safety!Levels /\ system.disposition \in Safety!Dispositions
  BY DEF Assessed, Assesses, Safety!Assessments
<1>1. CASE system.level = "HIGH"
  <2>1. PICK a : a = Safety!GuardianAssess(e, system, n)
    OBVIOUS
  <2>2. /\ Assesses(a, "GUARDIAN", e) /\ a.level = "HIGH"
        /\ a.disposition \in {"APPROVAL_REQUIRED", "DENY"}
        /\ system.constraints \subseteq a.constraints
        /\ Demands(e) # {} \/ system.disposition = "DENY" => a.disposition = "DENY"
    BY <1>1, <2>1, GuardianAnswers
  <2>3. a \in Safety!Assessments /\ a.stage = "GUARDIAN" /\ a.effect = e
    BY <2>2 DEF Assesses
  <2>4. a # Missing
    BY <2>3, SafetyConstants
  <2>5. /\ g.effect = e /\ g.system = system /\ g.guardian = a
        /\ g.disposition = a.disposition
    BY <1>1, <2>1, <2>4 DEF Safety!BuildGuardianDecision
  <2>6. Safety!RiskRank[a.level] >= Safety!RiskRank[system.level]
    BY <1>1, <2>2, SafetyRanks
  <2>7. Safety!DispositionRank[a.disposition] >= Safety!DispositionRank[system.disposition]
    BY <1>0, <2>2, SafetyRanks
  <2>8. Safety!GuardianContract(g)
    BY <1>0, <1>1, <2>2, <2>3, <2>4, <2>5, <2>6, <2>7 DEF Safety!GuardianContract
  <2>9. a.disposition \in Safety!Dispositions /\ a.disposition # "ALLOW"
    BY <2>2, SafetyRanks
  <2> QED BY <1>1, <2>2, <2>5, <2>8, <2>9 DEF Guarded
<1>2. CASE system.level # "HIGH"
  <2>1. /\ g.effect = e /\ g.system = system /\ g.guardian = Missing
        /\ g.disposition = system.disposition
    BY <1>2 DEF Safety!BuildGuardianDecision
  <2>2. system.disposition = "ALLOW" /\ Demands(e) = {}
    BY <1>2 DEF Assessed
  <2>3. Safety!GuardianContract(g)
    BY <1>0, <1>2, <2>1 DEF Safety!GuardianContract
  <2> QED BY <1>0, <1>2, <2>1, <2>2, <2>3 DEF Guarded
<1> QED BY <1>1, <1>2

\* What evaluate_effect_safety makes of that.
Judged(d, e) ==
    /\ Safety!GuardianContract(d.guardian) /\ Safety!SafetyContract(d)
    /\ d.verdict \in Safety!Dispositions
    /\ d.verdict # "DENY" => Demands(e) = {}
    /\ Safety!OperationRiskLevel(e.operation) = "HIGH" => d.verdict # "ALLOW"

LEMMA DecisionJudges ==
    ASSUME NEW e \in Effects, NEW g, Guarded(g, e), NEW expires \in 0..MaxSequence,
           NEW d, d = Safety!DecideFrom(e, g, expires)
    PROVE  Judged(d, e)
<1>1. /\ d.effect = e /\ d.guardian = g /\ d.verdict = g.disposition
      /\ d.pending = (g.disposition = "APPROVAL_REQUIRED")
      /\ d.disclosure = IF d.pending THEN Safety!Disclosure(e, g, expires) ELSE Missing
  BY DEF Safety!DecideFrom
<1>2. g.effect = e /\ Safety!GuardianContract(g)
  BY DEF Guarded
<1>3. Safety!ReasonCodes(g) \in SUBSET Safety!Codes
  <2>1. g.system.reasons \in SUBSET Safety!Codes
    BY DEF Guarded, Assessed, Assesses, Safety!Assessments
  <2>2. g.guardian # Missing => g.guardian.reasons \in SUBSET Safety!Codes
    BY DEF Guarded, Assesses, Safety!Assessments
  <2> QED BY <2>1, <2>2 DEF Safety!ReasonCodes
<1>4. e.plan \in Safety!Plans
  BY SafetyConstants DEF Safety!CanonicalEffects
<1>5. PICK told : told = Safety!Disclosure(e, g, expires)
  OBVIOUS
<1>6. /\ told \in Safety!Disclosures /\ told.effect = e /\ told.plan = e.plan
      /\ told.reasons = Safety!ReasonCodes(g)
  BY <1>3, <1>4, <1>5 DEF Safety!Disclosure, Safety!Disclosures
<1>7. told # Missing
  BY <1>6, SafetyConstants
<1>8. Safety!SafetyContract(d)
  BY <1>1, <1>2, <1>5, <1>6, <1>7 DEF Safety!SafetyContract
<1>9. Safety!OperationRiskLevel(e.operation) = "HIGH" => g.disposition # "ALLOW"
  BY DEF Guarded, Assessed
<1> QED BY <1>1, <1>2, <1>8, <1>9 DEF Judged, Guarded

-----------------------------------------------------------------------------
(* Every step keeps what the pipeline promises.                            *)

EvidenceClosed ==
    \A s \in Slots :
        /\ <<s, "SAFETY_DECISION">> \in ledger =>
               <<s, "CANONICAL_EFFECT">> \in ledger /\ <<s, "GUARDIAN_DECISION">> \in ledger
        /\ <<s, "GUARDIAN_DECISION">> \in ledger => <<s, "SYSTEM_RISK_ASSESSMENT">> \in ledger
EffectsJudged == \A s \in Slots : Safety!Decided(s) => Judged(decision[s], effect[s])
EffectInv ==
    /\ sequence \in 0..MaxSequence /\ effect \in [Slots -> Effects]
    /\ decision = [s \in Slots |-> decision[s]]
    /\ EffectsJudged
    /\ ledger \subseteq Slots \X Safety!EventTypes /\ EvidenceClosed
    /\ authorized \subseteq Slots \X Nat
    /\ \A r \in receipts : r.approved <= r.expires
    /\ Safety!AuthorizedIsEvidenced /\ Safety!ApprovedInTime /\ Safety!AuthorizedIsRecoverable

LEMMA EffectGoverned == EffectInv => EffectsGoverned
<1> SUFFICES ASSUME EffectInv PROVE EffectsGoverned
  OBVIOUS
<1>1. Safety!TypeOK
  BY DEF EffectInv, EffectsJudged, Judged, Safety!TypeOK
<1>2. Safety!DecisionsValid
  BY DEF EffectInv, EffectsJudged, Judged, Safety!DecisionsValid
<1> QED BY <1>1, <1>2 DEF EffectInv, EffectsGoverned

LEMMA EvaluateKeeps ==
    ASSUME EffectInv, NEW s \in Slots, NEW expires \in 0..MaxSequence,
           Safety!EvaluateEffectSafety(s, expires)
    PROVE  EffectInv'
<1>0. MaxSequence \in Nat /\ sequence \in Nat /\ sequence + 1 \in Nat
  BY SafetyConstants DEF EffectInv
<1>1. effect[s] \in Effects
  BY DEF EffectInv
<1>2. PICK system \in Safety!SystemAssessments(effect[s]), enforcement \in Enforcements :
          decision' = [decision EXCEPT ![s] =
              IF Safety!Evaluable(effect[s],
                     Safety!BuildGuardianDecision(effect[s], system, enforcement, sequence + 1),
                     sequence, expires)
              THEN Safety!DecideFrom(effect[s],
                     Safety!BuildGuardianDecision(effect[s], system, enforcement, sequence + 1),
                     expires)
              ELSE Raised]
  BY DEF Safety!EvaluateEffectSafety
<1>3. PICK g : g = Safety!BuildGuardianDecision(effect[s], system, enforcement, sequence + 1)
  OBVIOUS
<1>4. Guarded(g, effect[s])
  <2>1. Assessed(system, effect[s])
    BY <1>0, <1>1, SystemsAssess
  <2> QED BY <1>0, <1>1, <1>3, <2>1, GuardianDecides
<1>5. PICK d : d = Safety!DecideFrom(effect[s], g, expires)
  OBVIOUS
<1>6. Judged(d, effect[s])
  BY <1>1, <1>4, <1>5, DecisionJudges
<1>7. decision' = [decision EXCEPT ![s] = d] \/ decision' = [decision EXCEPT ![s] = Raised]
  BY <1>2, <1>3, <1>5
<1>8. UNCHANGED <<sequence, effect, ledger, receipts, authorized>>
  BY DEF Safety!EvaluateEffectSafety
<1>9. /\ decision' = [t \in Slots |-> decision'[t]]
      /\ \A t \in Slots : t # s => decision'[t] = decision[t]
      /\ decision'[s] \in {d, Raised}
  BY <1>7 DEF EffectInv
<1>10. EffectsJudged'
  <2> SUFFICES ASSUME NEW t \in Slots, Safety!Decided(t)'
               PROVE  Judged(decision'[t], effect'[t])
    BY DEF EffectsJudged
  <2>1. CASE t = s
    <3>1. decision'[s] # Raised
      BY <2>1 DEF Safety!Decided
    <3>2. decision'[s] = d
      BY <1>9, <3>1
    <3> QED BY <1>6, <1>8, <2>1, <3>2
  <2>2. CASE t # s
    BY <1>8, <1>9, <2>2 DEF EffectInv, EffectsJudged, Safety!Decided
  <2> QED BY <2>1, <2>2
<1>11. EvidenceClosed' /\ Safety!AuthorizedIsEvidenced' /\ Safety!ApprovedInTime'
       /\ Safety!AuthorizedIsRecoverable'
  BY <1>8 DEF EffectInv, EvidenceClosed, Safety!AuthorizedIsEvidenced, Safety!ApprovedInTime,
              Safety!AuthorizedIsRecoverable
<1> QED BY <1>8, <1>9, <1>10, <1>11 DEF EffectInv

LEMMA AdmitKeeps ==
    ASSUME EffectInv, NEW s \in Slots, NEW type \in Safety!EventTypes, Safety!Admit(s, type)
    PROVE  EffectInv'
<1>1. /\ ledger' = ledger \cup {<<s, type>>} /\ Safety!Admissible(s, type)
      /\ UNCHANGED <<sequence, effect, decision, receipts, authorized>>
  BY DEF Safety!Admit
<1>2. ledger' \subseteq Slots \X Safety!EventTypes
  BY <1>1 DEF EffectInv
<1>3. /\ type = "GUARDIAN_DECISION" => <<s, "SYSTEM_RISK_ASSESSMENT">> \in ledger
      /\ type = "SAFETY_DECISION" =>
             <<s, "CANONICAL_EFFECT">> \in ledger /\ <<s, "GUARDIAN_DECISION">> \in ledger
  BY <1>1 DEF Safety!Admissible
<1>4. EvidenceClosed'
  <2> SUFFICES ASSUME NEW t \in Slots
               PROVE  /\ <<t, "SAFETY_DECISION">> \in ledger' =>
                             /\ <<t, "CANONICAL_EFFECT">> \in ledger'
                             /\ <<t, "GUARDIAN_DECISION">> \in ledger'
                      /\ <<t, "GUARDIAN_DECISION">> \in ledger' =>
                             <<t, "SYSTEM_RISK_ASSESSMENT">> \in ledger'
    BY DEF EvidenceClosed
  <2>1. <<t, "SAFETY_DECISION">> \in ledger' =>
            <<t, "SAFETY_DECISION">> \in ledger \/ (t = s /\ type = "SAFETY_DECISION")
    BY <1>1
  <2>2. <<t, "GUARDIAN_DECISION">> \in ledger' =>
            <<t, "GUARDIAN_DECISION">> \in ledger \/ (t = s /\ type = "GUARDIAN_DECISION")
    BY <1>1
  <2>3. ledger \subseteq ledger'
    BY <1>1
  <2> QED BY <1>3, <2>1, <2>2, <2>3 DEF EffectInv, EvidenceClosed
<1>5. Safety!AuthorizedIsEvidenced'
  BY <1>1 DEF EffectInv, Safety!AuthorizedIsEvidenced
<1>6. Safety!ApprovedInTime' /\ Safety!AuthorizedIsRecoverable' /\ EffectsJudged'
  BY <1>1 DEF EffectInv, Safety!ApprovedInTime, Safety!AuthorizedIsRecoverable, EffectsJudged,
              Safety!Decided
<1> QED BY <1>1, <1>2, <1>4, <1>5, <1>6 DEF EffectInv

LEMMA ReceiptKeeps ==
    ASSUME EffectInv, NEW s \in Slots, Safety!BuildApprovalReceipt(s)
    PROVE  EffectInv'
<1>1. PICK r : r = [effect |-> effect[s], approved |-> sequence,
                    expires |-> decision[s].disclosure.expires]
  OBVIOUS
<1>2. /\ receipts' = receipts \cup {r} /\ sequence <= decision[s].disclosure.expires
      /\ UNCHANGED <<sequence, effect, decision, ledger, authorized>>
  BY <1>1 DEF Safety!BuildApprovalReceipt
<1>3. r.approved <= r.expires
  BY <1>1, <1>2
<1>4. Safety!ApprovedInTime'
  BY <1>2 DEF EffectInv, Safety!ApprovedInTime
<1>5. /\ EvidenceClosed' /\ Safety!AuthorizedIsEvidenced'
      /\ Safety!AuthorizedIsRecoverable' /\ EffectsJudged'
  BY <1>2 DEF EffectInv, EvidenceClosed, Safety!AuthorizedIsEvidenced,
              Safety!AuthorizedIsRecoverable, EffectsJudged, Safety!Decided
<1> QED BY <1>2, <1>3, <1>4, <1>5 DEF EffectInv

LEMMA AuthorizeKeeps ==
    ASSUME EffectInv, NEW s \in Slots, Safety!Authorize(s)
    PROVE  EffectInv'
<1>0. effect[s] \in Safety!CanonicalEffects /\ sequence \in Nat
  BY SafetyConstants DEF EffectInv
<1>1. PICK a : a = <<s, sequence>>
  OBVIOUS
<1>2. /\ authorized' = authorized \cup {a} /\ a \in Slots \X Nat /\ a[1] = s /\ a[2] = sequence
      /\ UNCHANGED <<sequence, effect, decision, ledger, receipts>>
  BY <1>0, <1>1 DEF Safety!Authorize
<1>3. /\ Judged(decision[s], effect[s]) /\ Safety!BuildsWorkspaceEffect(s)
      /\ <<s, "SAFETY_DECISION">> \in ledger
      /\ decision[s].verdict = "ALLOW" \/ \E r \in receipts : Safety!ValidateApprovalReceipt(r, s)
  BY DEF Safety!Authorize, Safety!VerifierAccepts, EffectInv, EffectsJudged
<1>4. \A type \in Safety!EventTypes : <<s, type>> \in ledger
  BY <1>3 DEF EffectInv, EvidenceClosed, Safety!EventTypes
<1>5. Safety!AuthorizedIsEvidenced'
  BY <1>2, <1>4 DEF EffectInv, Safety!AuthorizedIsEvidenced
<1>6. Safety!OperationRiskLevel(effect[s].operation) = "HIGH" =>
          \E r \in receipts : /\ r.effect = effect[s]
                              /\ r.approved <= sequence /\ sequence <= r.expires
  BY <1>3 DEF Judged, Safety!ValidateApprovalReceipt
<1>7. Safety!ApprovedInTime'
  BY <1>2, <1>6 DEF EffectInv, Safety!ApprovedInTime
<1>8. PICK e : e = effect[s]
  OBVIOUS
<1>9. Safety!Mappable(e) /\ Demands(e) = {}
  BY <1>3, <1>8 DEF Safety!BuildsWorkspaceEffect, Judged
<1>10. ~Safety!IsEvidenceTampering(e)
  <2>1. "EVIDENCE_TAMPERING" \notin Safety!MandatoryRuleMatches(e)
    BY <1>9 DEF Demands
  <2> QED BY <2>1 DEF Safety!MandatoryRuleMatches
<1>11. /\ e.scope = "exact" /\ e.target = "plain" /\ e.paths = "target"
       /\ e.route # "direct" /\ e.reversible
       /\ e.operation \in Safety!Destructive => e.plan \in {"CHECKPOINT", "BACKUP:recovery"}
  <2>1. e.target # "evidence"
    BY <1>9, <1>10 DEF Safety!IsEvidenceTampering, Safety!Mappable, Safety!LowOperations
  <2>2. e.target = "plain"
    BY <1>0, <1>8, <1>9, <2>1 DEF Safety!Mappable, Safety!CanonicalEffects
  <2>3. e.operation \in Safety!Destructive => e.plan \in {"CHECKPOINT", "BACKUP:recovery"}
    BY <1>9 DEF Safety!Mappable, Safety!Destructive
  <2> QED BY <1>9, <2>2, <2>3 DEF Safety!Mappable
<1>12. Safety!AuthorizedIsRecoverable'
  BY <1>2, <1>8, <1>11 DEF EffectInv, Safety!AuthorizedIsRecoverable
<1>13. EvidenceClosed' /\ EffectsJudged'
  BY <1>2 DEF EffectInv, EvidenceClosed, EffectsJudged, Safety!Decided
<1> QED BY <1>2, <1>5, <1>7, <1>12, <1>13 DEF EffectInv

LEMMA EffectNext == EffectInv /\ [Safety!Next]_(Safety!vars) => EffectInv'
<1> SUFFICES ASSUME EffectInv, [Safety!Next]_(Safety!vars) PROVE EffectInv'
  OBVIOUS
<1>1. CASE Safety!Tick
  <2>1. /\ sequence' \in 0..MaxSequence
        /\ UNCHANGED <<effect, decision, ledger, receipts, authorized>>
    BY <1>1, SafetyConstants DEF EffectInv, Safety!Tick
  <2> QED BY <2>1 DEF EffectInv, EvidenceClosed, EffectsJudged, Safety!Decided,
                      Safety!AuthorizedIsEvidenced, Safety!ApprovedInTime,
                      Safety!AuthorizedIsRecoverable
<1>2. CASE UNCHANGED Safety!vars
  BY <1>2 DEF EffectInv, EvidenceClosed, EffectsJudged, Safety!Decided, Safety!vars,
              Safety!AuthorizedIsEvidenced, Safety!ApprovedInTime, Safety!AuthorizedIsRecoverable
<1> QED BY <1>1, <1>2, EvaluateKeeps, AdmitKeeps, ReceiptKeeps, AuthorizeKeeps DEF Safety!Next

\* Whatever the order of evaluation, admission, approval and time, a decision passes the
\* contracts of its readers, and an effect is handed to the executor only with its evidence
\* in the ledger, approved in time if it has a high impact, inside its project and workspace and with a
\* recovery (evaluate_effect_safety, the Control ledger's admission, the executor's check).
THEOREM EffectsAreGoverned == Safety!Spec => []EffectsGoverned
<1>1. Safety!Init => EffectInv
  <2> SUFFICES ASSUME Safety!Init PROVE EffectInv
    OBVIOUS
  <2>1. EffectsJudged
    BY DEF Safety!Init, EffectsJudged, Safety!Decided
  <2> QED BY <2>1, SafetyConstants
          DEF Safety!Init, EffectInv, EvidenceClosed, Safety!AuthorizedIsEvidenced,
              Safety!ApprovedInTime, Safety!AuthorizedIsRecoverable
<1> QED BY <1>1, EffectGoverned, EffectNext, PTL DEF Safety!Spec

-----------------------------------------------------------------------------
(* The quota of the candidates: counting times.                            *)

LEMMA QuotaConstants ==
    /\ TurnCap \in Nat /\ ProblemCap \in Nat /\ CampaignCap \in Nat
    /\ BurstCap \in Nat /\ RollingCap \in Nat /\ QueueDepth \in Nat
    /\ BurstTime \in Nat /\ RollingTime \in Nat /\ MaxReading \in Nat /\ BurstTime <= RollingTime
    /\ \A d \in Documents : d.form \in {"valid", "forbidden", "garbage", "oversized"}
BY ToolsAssumption DEF Quota!CapsAndForms

\* The quota counts as FiniteSets does.
LEMMA QuotaCounts == \A S : Quota!Cardinality(S) = Cardinality(S)
BY DEF Quota!Cardinality, Cardinality, Quota!IsFiniteSet, IsFiniteSet

\* A set of natural numbers has a least one, and up to a bound a greatest one.
LEMMA LeastElement ==
    ASSUME NEW T, T \subseteq Nat, T # {}
    PROVE  \E x \in T : \A y \in T : x <= y
<1>1. PICK x \in T : \A y \in T : ~(<<y, x>> \in OpToRel(<, Nat))
  <2>1. \E x \in T : \A y \in T : ~(<<y, x>> \in OpToRel(<, Nat))
    BY WFMin, NatLessThanWellFounded
  <2> QED BY <2>1
<1>2. ASSUME NEW y \in T PROVE ~(y < x)
  <2>1. y < x => <<y, x>> \in OpToRel(<, Nat)
    BY DEF OpToRel
  <2> QED BY <1>1, <2>1
<1> QED BY <1>2

LEMMA GreatestElement ==
    ASSUME NEW n \in Nat, NEW S \in SUBSET (0..n), 0 \in S
    PROVE  \E x \in S : \A y \in S : y <= x
<1> DEFINE T == {n - y : y \in S}
<1>1. T # {} /\ T \subseteq Nat
  OBVIOUS
<1>2. PICK m \in T : \A y \in T : m <= y
  <2> HIDE DEF T
  <2> QED BY <1>1, LeastElement
<1>3. PICK x \in S : m = n - x
  BY <1>2
<1>4. \A y \in S : y <= x
  <2> SUFFICES ASSUME NEW y \in S PROVE y <= x
    OBVIOUS
  <2>1. n - x <= n - y
    BY <1>2, <1>3
  <2> QED BY <2>1
<1> QED BY <1>4

\* How many times come at v or later.
From(times, v) == Cardinality({i \in 1..Len(times) : times[i] >= v})

LEMMA IndicesFinite ==
    ASSUME NEW times, Len(times) \in Nat, NEW S, S \subseteq 1..Len(times)
    PROVE  IsFiniteSet(S) /\ Cardinality(S) \in Nat /\ Cardinality(S) <= Len(times)
<1>1. IsFiniteSet(1..Len(times)) /\ Cardinality(1..Len(times)) = Len(times)
  BY FS_Interval
<1>2. IsFiniteSet(S) /\ Cardinality(S) <= Cardinality(1..Len(times))
  BY <1>1, FS_Subset
<1> QED BY <1>1, <1>2, FS_CardinalityType

\* One more time adds one if it is late enough.
LEMMA FromAppend ==
    ASSUME NEW times \in Seq(Nat), NEW now \in Nat, NEW v \in Int
    PROVE  /\ From(times, v) \in Nat
           /\ From(Append(times, now), v) = IF now >= v THEN From(times, v) + 1 ELSE From(times, v)
<1> DEFINE more == Append(times, now)
           S == {i \in 1..Len(times) : times[i] >= v}
           T == {i \in 1..Len(more) : more[i] >= v}
<1>0. Len(times) \in Nat
  OBVIOUS
<1>1. /\ Len(more) = Len(times) + 1 /\ more[Len(times) + 1] = now
      /\ \A i \in 1..Len(times) : more[i] = times[i]
  OBVIOUS
<1>2. 1..Len(more) = 1..Len(times) \cup {Len(times) + 1}
  BY <1>0, <1>1
<1>3. T = IF now >= v THEN S \cup {Len(times) + 1} ELSE S
  BY <1>0, <1>1, <1>2
<1>4. Len(times) + 1 \notin S
  BY <1>0
<1>5. IsFiniteSet(S) /\ Cardinality(S) \in Nat
  BY <1>0, IndicesFinite
<1> QED BY <1>3, <1>4, <1>5, FS_AddElement DEF From

LEMMA WithinAppend ==
    ASSUME NEW times \in Seq(Nat), NEW now \in Nat, NEW x \in Int, NEW width \in Nat
    PROVE  /\ Quota!Within(times, x, width) \in Nat
           /\ x < now => Quota!Within(Append(times, now), x, width) = Quota!Within(times, x, width)
           /\ Quota!Within(times, x, width) <= From(times, x - width + 1)
<1> DEFINE more == Append(times, now)
           S == {i \in DOMAIN times : times[i] \in (x - width + 1)..x}
           T == {i \in DOMAIN more : more[i] \in (x - width + 1)..x}
           R == {i \in 1..Len(times) : times[i] >= x - width + 1}
<1>0. Len(times) \in Nat /\ DOMAIN times = 1..Len(times)
  OBVIOUS
<1>1. /\ DOMAIN more = 1..Len(times) \cup {Len(times) + 1} /\ more[Len(times) + 1] = now
      /\ \A i \in 1..Len(times) : more[i] = times[i]
  BY <1>0
<1>2. x < now => T = S
  BY <1>0, <1>1
<1>3. IsFiniteSet(R) /\ IsFiniteSet(S) /\ Cardinality(S) \in Nat
  BY <1>0, IndicesFinite
<1>4. S \subseteq R
  BY <1>0
<1>5. Cardinality(S) <= Cardinality(R)
  BY <1>3, <1>4, FS_Subset
<1>6. Quota!Within(times, x, width) = Cardinality(S)
  BY QuotaCounts DEF Quota!Within
<1>7. Quota!Within(more, x, width) = Cardinality(T)
  BY QuotaCounts DEF Quota!Within
<1>8. From(times, x - width + 1) = Cardinality(R)
  BY DEF From
<1> HIDE DEF S, T, R
<1> QED BY <1>2, <1>3, <1>5, <1>6, <1>7, <1>8

\* The deque after the old times were dropped from its front.
IsRest(rest, times, now, width) ==
    \E n \in 0..Len(times) :
        /\ \A i \in 1..n : now - times[i] >= width
        /\ rest \in Seq(Nat) /\ Len(rest) = Len(times) - n
        /\ \A i \in 1..Len(rest) : n + i \in 1..Len(times) /\ rest[i] = times[n + i]

LEMMA AfterIsSuffix ==
    ASSUME NEW times \in Seq(Nat), NEW now \in Nat, NEW width \in Nat,
           NEW rest, rest = Quota!After(times, now, width)
    PROVE  IsRest(rest, times, now, width)
<1> DEFINE old == {m \in 0..Len(times) : \A i \in 1..m : now - times[i] >= width}
           n == CHOOSE m \in old : \A k \in old : k <= m
<1>0. Len(times) \in Nat
  OBVIOUS
<1>1. 0 \in old /\ old \in SUBSET (0..Len(times))
  BY <1>0
<1> HIDE DEF old
<1>2. \E m \in old : \A k \in old : k <= m
  BY <1>0, <1>1, GreatestElement
<1>3. n \in old
  BY <1>2
<1>4. rest = SubSeq(times, n + 1, Len(times))
  BY DEF Quota!After, old
<1> HIDE DEF n
<1>5. n \in 0..Len(times) /\ \A i \in 1..n : now - times[i] >= width
  BY <1>3 DEF old
<1>6. /\ rest \in Seq(Nat) /\ Len(rest) = Len(times) - n
      /\ \A i \in 1..Len(rest) : n + i \in 1..Len(times) /\ rest[i] = times[n + i]
  <2>1. rest = [i \in 1..(Len(times) - n) |-> times[n + i]]
    BY <1>0, <1>4, <1>5
  <2>2. \A i \in 1..(Len(times) - n) : n + i \in 1..Len(times) /\ times[n + i] \in Nat
    BY <1>0, <1>5
  <2>3. rest \in [1..(Len(times) - n) -> Nat] /\ Len(times) - n \in Nat
    BY <1>0, <1>5, <2>1, <2>2
  <2>4. rest \in Seq(Nat)
    BY <2>3, SeqDef
  <2>5. Len(rest) = Len(times) - n
    BY <2>3, <2>4, LenProperties
  <2> QED BY <2>1, <2>2, <2>4, <2>5
<1> QED BY <1>5, <1>6 DEF IsRest

\* Nothing that is late enough is dropped, and what is left is in the deque.
LEMMA AfterKeepsRecent ==
    ASSUME NEW times \in Seq(Nat), NEW now \in Nat, NEW width \in Nat,
           NEW rest, rest = Quota!After(times, now, width), NEW v \in Int, v > now - width
    PROVE  /\ rest \in Seq(Nat)
           /\ From(times, v) <= From(rest, v)
           /\ From(times, v) <= Len(rest)
<1>1. PICK n \in 0..Len(times) :
          /\ \A i \in 1..n : now - times[i] >= width
          /\ rest \in Seq(Nat) /\ Len(rest) = Len(times) - n
          /\ \A i \in 1..Len(rest) : n + i \in 1..Len(times) /\ rest[i] = times[n + i]
  <2>1. IsRest(rest, times, now, width)
    BY AfterIsSuffix
  <2> QED BY <2>1 DEF IsRest
<1> DEFINE S == {i \in 1..Len(times) : times[i] >= v}
           T == {i \in 1..Len(rest) : rest[i] >= v}
           f == [i \in S |-> i - n]
<1>2. Len(times) \in Nat /\ Len(rest) \in Nat /\ n \in Nat
  BY <1>1
<1>3. \A i \in S : i > n
  BY <1>1, <1>2
<1>4. \A i \in S : i - n \in T
  <2> SUFFICES ASSUME NEW i \in S PROVE i - n \in T
    OBVIOUS
  <2>1. i - n \in 1..Len(rest)
    BY <1>1, <1>2, <1>3
  <2>2. n + (i - n) = i
    BY <1>2
  <2>3. rest[i - n] = times[i]
    BY <1>1, <2>1, <2>2
  <2> QED BY <2>1, <2>3
<1>5. f \in Injection(S, T)
  <2>1. f \in [S -> T]
    BY <1>4
  <2>2. \A a, b \in S : f[a] = f[b] => a = b
    BY <1>2
  <2> QED BY <2>1, <2>2 DEF Injection, IsInjective
<1>6. IsFiniteSet(T) /\ Cardinality(T) <= Len(rest) /\ Cardinality(T) \in Nat
  BY <1>2, IndicesFinite
<1>7. Cardinality(S) <= Cardinality(T)
  BY <1>5, <1>6, FS_Injection
<1>8. Cardinality(S) \in Nat
  BY <1>2, IndicesFinite
<1> QED BY <1>1, <1>6, <1>7, <1>8 DEF From

-----------------------------------------------------------------------------
(* What a proposal can come to.                                            *)

Answers(c, a) == attempts' = [attempts EXCEPT ![c] = a]
Stamped(c, now) ==
    /\ now \in reading..MaxReading /\ reading' = now
    /\ rates' = [rates EXCEPT ![Quota!Campaign(c)] = Append(Quota!Recent(c, now), now)]

\* Refused without a charge, answered as the first time, refused and charged, accepted.
Forgone(c) ==
    /\ UNCHANGED <<reading, spent, rates, queues, completed, proposals, admitted>>
    /\ \E a : Answers(c, a) /\ a.reason \in Quota!Uncharged /\ a.receipt = {}
Repeated(c, d) ==
    /\ UNCHANGED <<reading, spent, rates, queues, completed, proposals, admitted>>
    /\ proposals[d.id] # {}
    /\ \A r \in proposals[d.id] : /\ Quota!Boundary(r.context) = Quota!Boundary(c)
                                  /\ r.digest = d
    /\ \E a : Answers(c, a) /\ a.reason = "none" /\ a.receipt = proposals[d.id]
Refused(c) ==
    /\ spent' = Quota!Charged(c)
    /\ UNCHANGED <<queues, completed, proposals, admitted>>
    /\ \E a : /\ Answers(c, a) /\ a.reason \notin Quota!Uncharged \cup {"unanswered"}
              /\ a.receipt = {}
    /\ UNCHANGED <<reading, rates>> \/ \E now \in Nat : Stamped(c, now)
Taken(c, d, now) ==
    /\ Stamped(c, now) /\ spent' = Quota!Charged(c)
    /\ ~(Cardinality(Quota!Burst(c, now)) >= BurstCap)
    /\ ~(Len(Quota!Recent(c, now)) + 1 > RollingCap)
    /\ ~(Cardinality(queues[Quota!Campaign(c)]) >= QueueDepth) /\ proposals[d.id] = {}
    /\ queues' = [queues EXCEPT ![Quota!Campaign(c)] = @ \cup {Quota!Receipt(c, d)}]
    /\ proposals' = [proposals EXCEPT ![d.id] = {Quota!Receipt(c, d)}]
    /\ admitted' = [admitted EXCEPT ![Quota!Campaign(c)] = Append(@, now)]
    /\ UNCHANGED completed
    /\ \E a : Answers(c, a) /\ a.reason = "none" /\ a.receipt = {Quota!Receipt(c, d)}

LEMMA AnswerIs ==
    ASSUME NEW c, NEW digest, NEW receipt, NEW reason, Quota!Answer(c, digest, receipt, reason)
    PROVE  \E a : Answers(c, a) /\ a.reason = reason /\ a.receipt = receipt
<1>1. PICK a : a = [digest |-> digest, receipt |-> receipt, reason |-> reason]
  OBVIOUS
<1>2. Answers(c, a)
  BY <1>1 DEF Quota!Answer, Answers
<1> QED BY <1>1, <1>2

LEMMA ReplayOutcome ==
    ASSUME NEW c \in Contexts, NEW d \in Documents, Quota!Known(c, d), Quota!Replay(c, d),
           UNCHANGED <<reading, spent, rates, queues, completed, proposals, admitted>>
    PROVE  Forgone(c) \/ Repeated(c, d)
<1>1. Quota!Digest(d) = {d} /\ proposals[d.id] # {}
  BY DEF Quota!Known, Quota!Digest, Quota!Nothing
<1>2. CASE \A r \in proposals[d.id] : /\ Quota!Boundary(r.context) = Quota!Boundary(c)
                                      /\ {r.digest} = Quota!Digest(d)
  <2>1. Quota!Answer(c, Quota!Digest(d), proposals[d.id], "none")
    BY <1>2 DEF Quota!Replay, Quota!None
  <2>2. \E a : Answers(c, a) /\ a.reason = "none" /\ a.receipt = proposals[d.id]
    BY <2>1, AnswerIs
  <2>3. \A r \in proposals[d.id] : r.digest = d
    BY <1>1, <1>2
  <2> QED BY <1>1, <1>2, <2>2, <2>3 DEF Repeated
<1>3. CASE ~\A r \in proposals[d.id] : /\ Quota!Boundary(r.context) = Quota!Boundary(c)
                                       /\ {r.digest} = Quota!Digest(d)
  <2>1. Quota!Answer(c, Quota!Digest(d), {}, "cross_boundary_duplicate")
    BY <1>3 DEF Quota!Replay, Quota!Reject, Quota!Nothing
  <2>2. \E a : Answers(c, a) /\ a.reason = "cross_boundary_duplicate" /\ a.receipt = {}
    BY <2>1, AnswerIs
  <2> QED BY <2>2 DEF Forgone, Quota!Uncharged
<1> QED BY <1>2, <1>3

\* What a document is refused for, or "none", and what the reading of the clock makes of it.
WeighedFor(c, d, now) == IF Quota!Reserve(c, now) # "none" THEN Quota!Reserve(c, now)
                         ELSE Quota!Refusal(c, d)
Weighed(c, d, now) ==
    /\ Quota!Charge(c, now)
    /\ IF WeighedFor(c, d, now) # "none"
       THEN /\ Quota!Reject(c, Quota!Digest(d), WeighedFor(c, d, now))
            /\ UNCHANGED <<queues, proposals, admitted>>
       ELSE /\ queues' = [queues EXCEPT ![Quota!Campaign(c)] = @ \cup {Quota!Receipt(c, d)}]
            /\ proposals' = [proposals EXCEPT ![d.id] = {Quota!Receipt(c, d)}]
            /\ admitted' = [admitted EXCEPT ![Quota!Campaign(c)] = Append(@, now)]
            /\ Quota!Answer(c, Quota!Digest(d), {Quota!Receipt(c, d)}, "none")

LEMMA ProposeOutcome ==
    ASSUME NEW c \in Contexts, NEW d \in Documents, Quota!Propose(c, d), reading \in Nat
    PROVE  Forgone(c) \/ Repeated(c, d) \/ Refused(c) \/ \E now \in Nat : Taken(c, d, now)
<1>1. CASE Quota!Known(c, d)
  BY <1>1, ReplayOutcome DEF Quota!Propose
<1>2. CASE ~Quota!Known(c, d)
  <2>1. PICK now \in (reading..MaxReading) \cup {Quota!Invalid} : Weighed(c, d, now)
    BY <1>2 DEF Quota!Propose, Quota!None, Weighed, WeighedFor
  <2> DEFINE reason == WeighedFor(c, d, now)
  <2>9. /\ reason = IF Quota!Reserve(c, now) # "none" THEN Quota!Reserve(c, now)
                    ELSE Quota!Refusal(c, d)
        /\ Quota!Charge(c, now)
        /\ reason # "none" => /\ Quota!Reject(c, Quota!Digest(d), reason)
                              /\ UNCHANGED <<queues, proposals, admitted>>
        /\ reason = "none" => /\ queues' = [queues EXCEPT ![Quota!Campaign(c)] =
                                               @ \cup {Quota!Receipt(c, d)}]
                              /\ proposals' = [proposals EXCEPT ![d.id] = {Quota!Receipt(c, d)}]
                              /\ admitted' = [admitted EXCEPT ![Quota!Campaign(c)] = Append(@, now)]
                              /\ Quota!Answer(c, Quota!Digest(d), {Quota!Receipt(c, d)}, "none")
    BY <2>1 DEF Weighed, WeighedFor
  <2> HIDE DEF reason
  <2>2. completed' = completed
    BY DEF Quota!Propose
  <2>3. reason # "none" => \E a : Answers(c, a) /\ a.reason = reason /\ a.receipt = {}
    BY <2>1, <2>9, AnswerIs DEF Quota!Reject, Quota!Nothing
  <2>4. Quota!Exhausted(c) \in {"turn_quota_exhausted", "problem_quota_exhausted",
                                "campaign_quota_exhausted", "none"}
    BY DEF Quota!Exhausted, Quota!None
  <2>5. CASE Quota!Exhausted(c) # "none"
    <3>1. reason = Quota!Exhausted(c)
      BY <2>1, <2>9, <2>5 DEF Quota!Reserve, Quota!None
    <3>2. UNCHANGED <<reading, spent, rates>>
      BY <2>1, <2>9, <2>5 DEF Quota!Charge, Quota!None
    <3>3. reason \in Quota!Uncharged /\ reason # "none"
      BY <2>4, <2>5, <3>1 DEF Quota!Uncharged
    <3>4. UNCHANGED <<queues, proposals, admitted>>
      BY <2>1, <2>9, <3>3
    <3> QED BY <2>2, <2>3, <3>2, <3>3, <3>4 DEF Forgone
  <2>6. CASE Quota!Exhausted(c) = "none"
    <3>1. spent' = Quota!Charged(c)
      BY <2>1, <2>9, <2>6 DEF Quota!Charge, Quota!None
    <3>2. now = Quota!Invalid => UNCHANGED <<reading, rates>>
      BY <2>1, <2>9, <2>6 DEF Quota!Charge, Quota!None
    <3>3. now # Quota!Invalid => now \in Nat /\ Stamped(c, now)
      BY <2>1, <2>9, <2>6, QuotaConstants DEF Quota!Charge, Quota!None, Stamped
    <3>4. Quota!Reserve(c, now) \in {"clock_invalid", "burst_rate_exhausted",
                                     "rolling_rate_exhausted", "none"}
      BY <2>6 DEF Quota!Reserve, Quota!None
    <3>5. Quota!Refusal(c, d) \in {"forbidden_field", "schema_invalid", "task_mismatch",
                                   "payload_too_large", "queue_depth_exhausted", "none"}
      BY DEF Quota!Refusal, Quota!None
    <3>6. CASE reason # "none"
      <4>1. reason \notin Quota!Uncharged \cup {"unanswered"}
        BY <2>1, <2>9, <3>4, <3>5 DEF Quota!Uncharged
      <4>2. UNCHANGED <<queues, proposals, admitted>>
        BY <2>1, <2>9, <3>6
      <4>3. UNCHANGED <<reading, rates>> \/ \E n \in Nat : Stamped(c, n)
        BY <3>2, <3>3
      <4> QED BY <2>2, <2>3, <3>1, <3>6, <4>1, <4>2, <4>3 DEF Refused
    <3>7. CASE reason = "none"
      <4>1. Quota!Reserve(c, now) = "none" /\ Quota!Refusal(c, d) = "none"
        BY <2>1, <2>9, <3>7
      <4>2. /\ now # Quota!Invalid
            /\ ~(Quota!Cardinality(Quota!Burst(c, now)) >= BurstCap)
            /\ ~(Len(Quota!Recent(c, now)) + 1 > RollingCap)
        BY <2>6, <4>1 DEF Quota!Reserve, Quota!None
      <4>3. /\ d.form # "forbidden" /\ d.form # "garbage" /\ d.form # "oversized"
            /\ d.task = c.task
            /\ ~(Quota!Cardinality(queues[Quota!Campaign(c)]) >= QueueDepth)
        BY <4>1 DEF Quota!Refusal, Quota!None
      <4>4. proposals[d.id] = {}
        BY <1>2, <4>3, QuotaConstants DEF Quota!Known, Quota!Nothing
      <4>5. \E a : Answers(c, a) /\ a.reason = "none" /\ a.receipt = {Quota!Receipt(c, d)}
        BY <2>1, <2>9, <3>7, AnswerIs
      <4>6. now \in Nat /\ Stamped(c, now)
        BY <3>3, <4>2
      <4>7. /\ ~(Cardinality(Quota!Burst(c, now)) >= BurstCap)
            /\ ~(Cardinality(queues[Quota!Campaign(c)]) >= QueueDepth)
        BY <4>2, <4>3, QuotaCounts
      <4> QED BY <2>1, <2>9, <2>2, <3>1, <3>7, <4>2, <4>4, <4>5, <4>6, <4>7 DEF Taken
    <3> QED BY <3>6, <3>7
  <2> QED BY <2>5, <2>6
<1> QED BY <1>1, <1>2

-----------------------------------------------------------------------------
(* The clock, the charges and the deques.                                  *)

CountersKept ==
    /\ reading \in 0..MaxReading
    /\ spent \in [Quota!Boundaries -> Nat]
    /\ rates \in [Quota!Campaigns -> Seq(Nat)]
    /\ admitted \in [Quota!Campaigns -> Seq(Nat)]
    /\ Quota!TypeOK

\* What one campaign's deque may hold.
InOrder(times, now, charges) ==
    /\ Len(times) <= charges
    /\ \A i \in DOMAIN times : times[i] \in 0..now
    /\ \A i, j \in DOMAIN times : i < j => times[i] <= times[j]

LEMMA RestInOrder ==
    ASSUME NEW times \in Seq(Nat), NEW now \in Nat, NEW before \in Nat, before <= now,
           NEW charges \in Nat, InOrder(times, before, charges)
    PROVE  /\ Quota!After(times, now, RollingTime) \in Seq(Nat)
           /\ InOrder(Append(Quota!After(times, now, RollingTime), now), now, charges + 1)
<1>1. PICK rest : rest = Quota!After(times, now, RollingTime)
  OBVIOUS
<1>2. PICK n \in 0..Len(times) :
          /\ rest \in Seq(Nat) /\ Len(rest) = Len(times) - n
          /\ \A i \in 1..Len(rest) : n + i \in 1..Len(times) /\ rest[i] = times[n + i]
  <2>1. IsRest(rest, times, now, RollingTime)
    BY <1>1, AfterIsSuffix, QuotaConstants
  <2> QED BY <2>1 DEF IsRest
<1> DEFINE more == Append(rest, now)
<1>3. Len(times) \in Nat /\ Len(rest) \in Nat /\ n \in Nat
  BY <1>2
<1>4. /\ Len(more) = Len(rest) + 1 /\ more[Len(rest) + 1] = now
      /\ DOMAIN more = 1..(Len(rest) + 1)
      /\ \A i \in 1..Len(rest) : more[i] = rest[i]
  BY <1>2, <1>3
<1>5. Len(more) <= charges + 1
  BY <1>2, <1>3, <1>4 DEF InOrder
<1>6. \A i \in 1..Len(rest) : rest[i] \in 0..now
  <2> SUFFICES ASSUME NEW i \in 1..Len(rest) PROVE rest[i] \in 0..now
    OBVIOUS
  <2>0. DOMAIN times = 1..Len(times)
    OBVIOUS
  <2>1. n + i \in DOMAIN times /\ rest[i] = times[n + i]
    BY <1>2, <2>0
  <2>2. times[n + i] \in 0..before
    BY <2>1 DEF InOrder
  <2> QED BY <2>1, <2>2
<1>7. \A i, j \in 1..Len(rest) : i < j => rest[i] <= rest[j]
  <2> SUFFICES ASSUME NEW i \in 1..Len(rest), NEW j \in 1..Len(rest), i < j
               PROVE  rest[i] <= rest[j]
    OBVIOUS
  <2>0. DOMAIN times = 1..Len(times)
    OBVIOUS
  <2>1. /\ n + i \in DOMAIN times /\ rest[i] = times[n + i]
        /\ n + j \in DOMAIN times /\ rest[j] = times[n + j]
    BY <1>2, <2>0
  <2>2. n + i < n + j
    BY <1>3
  <2> QED BY <2>1, <2>2 DEF InOrder
<1> HIDE DEF more
<1>8. \A i \in DOMAIN more : more[i] \in 0..now
  <2> SUFFICES ASSUME NEW i \in DOMAIN more PROVE more[i] \in 0..now
    OBVIOUS
  <2>1. i \in 1..Len(rest) \/ i = Len(rest) + 1
    BY <1>3, <1>4
  <2>2. now \in 0..now
    OBVIOUS
  <2> QED BY <1>4, <1>6, <2>1, <2>2
<1>9. \A i, j \in DOMAIN more : i < j => more[i] <= more[j]
  <2> SUFFICES ASSUME NEW i \in DOMAIN more, NEW j \in DOMAIN more, i < j
               PROVE  more[i] <= more[j]
    OBVIOUS
  <2>1. i \in 1..Len(rest) /\ more[i] = rest[i] /\ more[i] \in 0..now
    BY <1>3, <1>4, <1>8
  <2>2. CASE j = Len(rest) + 1
    BY <1>4, <2>1, <2>2
  <2>3. CASE j \in 1..Len(rest)
    BY <1>4, <1>7, <2>1, <2>3
  <2> QED BY <1>3, <1>4, <2>2, <2>3
<1>10. InOrder(more, now, charges + 1)
  BY <1>5, <1>8, <1>9 DEF InOrder
<1> QED BY <1>1, <1>2, <1>10 DEF more

\* A charge, and what the reading of the clock makes of the deque.
Charges(c) ==
    /\ spent' = Quota!Charged(c)
    /\ UNCHANGED <<reading, rates>> \/ \E now \in Nat : Stamped(c, now)

LEMMA CampaignOf ==
    \A c \in Contexts : /\ Quota!Campaign(c) \in Quota!Campaigns
                        /\ \A b : Quota!Inside(c, b) => b \in Quota!Boundaries
                        /\ Quota!Inside(c, <<Quota!Campaign(c)>>)
BY DEF Quota!Campaigns, Quota!Inside, Quota!Boundaries

LEMMA SpentAfter ==
    ASSUME NEW c \in Contexts, CountersKept, spent' = Quota!Charged(c)
    PROVE  /\ spent' \in [Quota!Boundaries -> Nat]
           /\ \A b \in Quota!Boundaries :
                spent'[b] = IF Quota!Inside(c, b) THEN spent[b] + 1 ELSE spent[b]
BY DEF CountersKept, Quota!Charged, Quota!Inside

LEMMA TypeIsOrder ==
    Quota!TypeOK <=> /\ reading \in 0..MaxReading
                     /\ \A k \in Quota!Campaigns : InOrder(rates[k], reading, spent[<<k>>])
BY DEF Quota!TypeOK, InOrder

LEMMA TypeIsOrderNext ==
    Quota!TypeOK' <=> /\ reading' \in 0..MaxReading
                      /\ \A k \in Quota!Campaigns : InOrder(rates'[k], reading', spent'[<<k>>])
BY DEF Quota!TypeOK, InOrder

LEMMA LaterInOrder ==
    ASSUME NEW times \in Seq(Nat), NEW before \in Nat, NEW now \in Nat, before <= now,
           NEW charges \in Nat, NEW more \in Nat, charges <= more,
           InOrder(times, before, charges)
    PROVE  InOrder(times, now, more)
<1>1. Len(times) \in Nat
  OBVIOUS
<1> QED BY <1>1 DEF InOrder

LEMMA CampaignCharges ==
    ASSUME NEW k \in Quota!Campaigns
    PROVE  <<k>> \in Quota!Boundaries
BY DEF Quota!Campaigns, Quota!Boundaries

LEMMA ChargesKeepCounters ==
    ASSUME NEW c \in Contexts, CountersKept, Charges(c)
    PROVE  /\ reading' \in 0..MaxReading /\ spent' \in [Quota!Boundaries -> Nat]
           /\ rates' \in [Quota!Campaigns -> Seq(Nat)] /\ Quota!TypeOK'
<1>0. /\ reading \in 0..MaxReading /\ spent \in [Quota!Boundaries -> Nat]
      /\ rates \in [Quota!Campaigns -> Seq(Nat)]
      /\ \A k \in Quota!Campaigns : InOrder(rates[k], reading, spent[<<k>>])
  BY TypeIsOrder DEF CountersKept
<1>1. /\ spent' \in [Quota!Boundaries -> Nat]
      /\ \A b \in Quota!Boundaries :
           spent'[b] = IF Quota!Inside(c, b) THEN spent[b] + 1 ELSE spent[b]
  BY SpentAfter DEF Charges
<1>2. \A k \in Quota!Campaigns :
         /\ spent[<<k>>] \in Nat /\ spent'[<<k>>] \in Nat /\ spent[<<k>>] <= spent'[<<k>>]
         /\ k = Quota!Campaign(c) => spent'[<<k>>] = spent[<<k>>] + 1
  <2> SUFFICES ASSUME NEW k \in Quota!Campaigns
               PROVE  /\ spent[<<k>>] \in Nat /\ spent'[<<k>>] \in Nat
                      /\ spent[<<k>>] <= spent'[<<k>>]
                      /\ k = Quota!Campaign(c) => spent'[<<k>>] = spent[<<k>>] + 1
    OBVIOUS
  <2>1. <<k>> \in Quota!Boundaries
    BY CampaignCharges
  <2>2. k = Quota!Campaign(c) => Quota!Inside(c, <<k>>)
    BY CampaignOf
  <2>3. spent'[<<k>>] = IF Quota!Inside(c, <<k>>) THEN spent[<<k>>] + 1 ELSE spent[<<k>>]
    BY <1>1, <2>1
  <2>4. spent[<<k>>] \in Nat
    BY <1>0, <2>1
  <2> QED BY <2>2, <2>3, <2>4
<1>3. CASE UNCHANGED <<reading, rates>>
  <2>1. \A k \in Quota!Campaigns : InOrder(rates'[k], reading', spent'[<<k>>])
    <3> SUFFICES ASSUME NEW k \in Quota!Campaigns
                 PROVE  InOrder(rates[k], reading, spent'[<<k>>])
      BY <1>3
    <3> QED BY <1>0, <1>2, LaterInOrder
  <2> QED BY <1>0, <1>1, <1>3, <2>1, TypeIsOrderNext
<1>4. CASE \E now \in Nat : Stamped(c, now)
  <2>1. PICK now \in Nat : Stamped(c, now)
    BY <1>4
  <2> DEFINE m == Quota!Campaign(c)
  <2>2. /\ now \in reading..MaxReading /\ reading' = now
        /\ rates' = [rates EXCEPT ![m] = Append(Quota!After(rates[m], now, RollingTime), now)]
    BY <2>1 DEF Stamped, Quota!Recent
  <2>3. m \in Quota!Campaigns
    BY CampaignOf
  <2> HIDE DEF m
  <2>4. /\ Quota!After(rates[m], now, RollingTime) \in Seq(Nat)
        /\ InOrder(Append(Quota!After(rates[m], now, RollingTime), now), now, spent[<<m>>] + 1)
    BY <1>0, <1>2, <2>2, <2>3, RestInOrder
  <2>5. rates' \in [Quota!Campaigns -> Seq(Nat)]
    BY <1>0, <2>2, <2>3, <2>4
  <2>6. \A k \in Quota!Campaigns : InOrder(rates'[k], reading', spent'[<<k>>])
    <3> SUFFICES ASSUME NEW k \in Quota!Campaigns
                 PROVE  InOrder(rates'[k], now, spent'[<<k>>])
      BY <2>2
    <3>1. CASE k = m
      BY <1>0, <1>2, <2>2, <2>3, <2>4, <3>1 DEF m
    <3>2. CASE k # m
      <4>1. rates'[k] = rates[k]
        BY <1>0, <2>2, <3>2
      <4>2. reading <= now /\ reading \in Nat
        BY <1>0, <2>2
      <4> QED BY <1>0, <1>2, <4>1, <4>2, LaterInOrder
    <3> QED BY <3>1, <3>2
  <2> QED BY <1>0, <1>1, <2>2, <2>5, <2>6, TypeIsOrderNext
<1> QED BY <1>3, <1>4 DEF Charges

-----------------------------------------------------------------------------
(* Admissions against the deque: the deque of a campaign holds every       *)
(* admission that a later one is weighed against, so that no window is     *)
(* overdrawn, however far the deque was emptied.                           *)

InWindows(times, held, now) ==
    /\ \A v \in Int : v > now - RollingTime => From(times, v) <= From(held, v)
    /\ \A x \in Int : /\ Quota!Within(times, x, BurstTime) <= BurstCap
                      /\ Quota!Within(times, x, RollingTime) <= RollingCap

WindowsKept ==
    \A k \in Quota!Campaigns : InWindows(admitted[k], rates[k], reading)

LEMMA StampedInWindows ==
    ASSUME NEW times \in Seq(Nat), NEW held \in Seq(Nat), NEW before \in Nat, NEW now \in Nat,
           before <= now, InWindows(times, held, before)
    PROVE  InWindows(times, Append(Quota!After(held, now, RollingTime), now), now)
<1>1. PICK rest : rest = Quota!After(held, now, RollingTime)
  OBVIOUS
<1>2. ASSUME NEW v \in Int, v > now - RollingTime
      PROVE  From(times, v) <= From(Append(rest, now), v)
  <2>1. rest \in Seq(Nat) /\ From(held, v) <= From(rest, v)
    BY <1>1, <1>2, AfterKeepsRecent, QuotaConstants
  <2>2. From(times, v) <= From(held, v)
    BY <1>2, QuotaConstants DEF InWindows
  <2>3. From(times, v) \in Nat /\ From(held, v) \in Nat /\ From(rest, v) \in Nat
    BY <2>1, FromAppend
  <2>4. From(rest, v) <= From(Append(rest, now), v) /\ From(Append(rest, now), v) \in Nat
    <3>1. From(Append(rest, now), v) = IF now >= v THEN From(rest, v) + 1 ELSE From(rest, v)
      BY <2>1, FromAppend
    <3> QED BY <2>3, <3>1
  <2> QED BY <2>1, <2>2, <2>3, <2>4
<1> QED BY <1>1, <1>2 DEF InWindows

LEMMA AdmittedInWindows ==
    ASSUME NEW c \in Contexts, CountersKept, WindowsKept, NEW now \in Nat, Stamped(c, now),
           NEW times, times = admitted[Quota!Campaign(c)],
           NEW held, held = rates[Quota!Campaign(c)],
           ~(Cardinality(Quota!Burst(c, now)) >= BurstCap),
           ~(Len(Quota!Recent(c, now)) + 1 > RollingCap)
    PROVE  InWindows(Append(times, now), Append(Quota!After(held, now, RollingTime), now), now)
<1>1. PICK rest : rest = Quota!After(held, now, RollingTime)
  OBVIOUS
<1>2. /\ times \in Seq(Nat) /\ held \in Seq(Nat) /\ reading \in Nat /\ reading <= now
      /\ InWindows(times, held, reading)
  <2>1. Quota!Campaign(c) \in Quota!Campaigns
    BY CampaignOf
  <2>2. reading \in Nat /\ reading <= now
    BY DEF CountersKept, Stamped
  <2> QED BY <2>1, <2>2 DEF CountersKept, WindowsKept
<1>3. InWindows(times, Append(rest, now), now)
  BY <1>1, <1>2, StampedInWindows
<1>4. rest \in Seq(Nat)
  <2>1. now - RollingTime < now + 1 /\ now + 1 \in Int
    BY QuotaConstants
  <2> QED BY <1>1, <1>2, <2>1, AfterKeepsRecent, QuotaConstants
<1>5. ASSUME NEW v \in Int, v > now - RollingTime
      PROVE  /\ From(times, v) \in Nat /\ From(rest, v) \in Nat
             /\ From(times, v) <= From(rest, v) /\ From(times, v) <= Len(rest)
             /\ From(Append(times, now), v) \in Nat
             /\ From(Append(times, now), v) <= From(times, v) + 1
             /\ From(Append(times, now), v) <= From(Append(rest, now), v)
  <2>1. v > reading - RollingTime
    BY <1>2, <1>5, QuotaConstants
  <2>2. From(times, v) <= From(held, v)
    BY <1>2, <2>1 DEF InWindows
  <2>3. From(held, v) <= From(rest, v) /\ From(held, v) <= Len(rest)
    BY <1>1, <1>2, <1>5, AfterKeepsRecent, QuotaConstants
  <2>4. From(times, v) \in Nat /\ From(held, v) \in Nat /\ From(rest, v) \in Nat
    BY <1>2, <1>4, FromAppend
  <2>5. /\ From(Append(times, now), v) = IF now >= v THEN From(times, v) + 1 ELSE From(times, v)
        /\ From(Append(rest, now), v) = IF now >= v THEN From(rest, v) + 1 ELSE From(rest, v)
    BY <1>2, <1>4, FromAppend
  <2>6. Len(rest) \in Nat
    BY <1>4
  <2> QED BY <2>2, <2>3, <2>4, <2>5, <2>6
<1>6. Len(rest) + 1 <= RollingCap /\ Len(rest) \in Nat
  <2>1. ~(Len(rest) + 1 > RollingCap)
    BY <1>1 DEF Quota!Recent
  <2> QED BY <1>4, <2>1, QuotaConstants
<1>7. ASSUME NEW v \in Int, v > now - BurstTime
      PROVE  From(rest, v) + 1 <= BurstCap
  <2> DEFINE S == {i \in 1..Len(rest) : rest[i] >= v}
             B == {i \in DOMAIN rest : now - rest[i] < BurstTime}
  <2>1. Quota!Burst(c, now) = B
    BY <1>1 DEF Quota!Burst, Quota!Recent
  <2>2. S \subseteq B /\ B \subseteq 1..Len(rest)
    <3>1. DOMAIN rest = 1..Len(rest) /\ \A i \in 1..Len(rest) : rest[i] \in Nat
      BY <1>4
    <3> QED BY <3>1, <1>7, QuotaConstants
  <2> HIDE DEF B, S
  <2>3. IsFiniteSet(B) /\ Cardinality(B) \in Nat
    BY <1>6, <2>2, IndicesFinite
  <2>4. Cardinality(S) <= Cardinality(B) /\ IsFiniteSet(S)
    BY <2>2, <2>3, FS_Subset
  <2>5. Cardinality(B) < BurstCap
    BY <2>1, <2>3, QuotaConstants
  <2>6. Cardinality(S) \in Nat
    BY <2>4, FS_CardinalityType
  <2>7. From(rest, v) = Cardinality(S)
    BY DEF From, S
  <2> QED BY <2>3, <2>4, <2>5, <2>6, <2>7, QuotaConstants
<1>8. ASSUME NEW x \in Int, NEW width \in Nat, NEW cap \in Nat, width <= RollingTime,
             Quota!Within(times, x, width) <= cap,
             \A v \in Int : v > now - width /\ v > now - RollingTime => From(times, v) + 1 <= cap
      PROVE  Quota!Within(Append(times, now), x, width) <= cap
  <2>1. CASE x < now
    BY <1>2, <1>8, <2>1, WithinAppend
  <2>2. CASE ~(x < now)
    <3> DEFINE v == x - width + 1
    <3>1. v \in Int /\ v > now - width /\ v > now - RollingTime
      BY <1>8, <2>2, QuotaConstants
    <3> HIDE DEF v
    <3>2. Append(times, now) \in Seq(Nat)
      BY <1>2
    <3>3. /\ Quota!Within(Append(times, now), x, width) \in Nat
          /\ Quota!Within(Append(times, now), x, width) <= From(Append(times, now), v)
      BY <3>2, WithinAppend DEF v
    <3>4. /\ From(Append(times, now), v) \in Nat /\ From(times, v) \in Nat
          /\ From(Append(times, now), v) <= From(times, v) + 1
      BY <1>5, <3>1
    <3>5. From(times, v) + 1 <= cap
      BY <1>8, <3>1
    <3> QED BY <3>3, <3>4, <3>5
  <2> QED BY <2>1, <2>2
<1>9. \A v \in Int : v > now - RollingTime => From(times, v) + 1 <= RollingCap
  <2> SUFFICES ASSUME NEW v \in Int, v > now - RollingTime PROVE From(times, v) + 1 <= RollingCap
    OBVIOUS
  <2>1. From(times, v) \in Nat /\ From(times, v) <= Len(rest)
    BY <1>5
  <2> QED BY <1>6, <2>1, QuotaConstants
<1>10. \A v \in Int : v > now - BurstTime /\ v > now - RollingTime => From(times, v) + 1 <= BurstCap
  <2> SUFFICES ASSUME NEW v \in Int, v > now - BurstTime, v > now - RollingTime
               PROVE  From(times, v) + 1 <= BurstCap
    OBVIOUS
  <2>1. From(times, v) \in Nat /\ From(rest, v) \in Nat /\ From(times, v) <= From(rest, v)
    BY <1>5
  <2>2. From(rest, v) + 1 <= BurstCap
    BY <1>7
  <2> QED BY <2>1, <2>2, QuotaConstants
<1>11. ASSUME NEW x \in Int
       PROVE  /\ Quota!Within(Append(times, now), x, BurstTime) <= BurstCap
              /\ Quota!Within(Append(times, now), x, RollingTime) <= RollingCap
  <2>1. /\ Quota!Within(times, x, BurstTime) <= BurstCap
        /\ Quota!Within(times, x, RollingTime) <= RollingCap
    BY <1>2 DEF InWindows
  <2>2. Quota!Within(Append(times, now), x, BurstTime) <= BurstCap
    BY <1>8, <1>10, <2>1, QuotaConstants
  <2>3. Quota!Within(Append(times, now), x, RollingTime) <= RollingCap
    BY <1>8, <1>9, <2>1, QuotaConstants
  <2> QED BY <2>2, <2>3
<1> QED BY <1>1, <1>5, <1>11 DEF InWindows

-----------------------------------------------------------------------------
(* What is accepted, and who was charged.                                  *)

Rcpts == [context : Contexts, digest : Documents]
Replied == {c \in Contexts : attempts[c] # Quota!Unanswered}
Payers(b) == {c \in Contexts : Quota!Inside(c, b) /\ Quota!WasCharged(c)}

AnswersKept ==
    /\ attempts = [c \in Contexts |-> attempts[c]] /\ IsFiniteSet(Replied)
    /\ proposals \in [Quota!Ids -> SUBSET Rcpts]
    /\ \A i \in Quota!Ids : \A r \in proposals[i] :
         proposals[i] = {r} /\ r.digest.id = i /\ attempts[r.context] # Quota!Unanswered
    /\ \A c \in Contexts : \A r \in attempts[c].receipt :
         /\ r \in Rcpts /\ proposals[r.digest.id] = {r}
         /\ Quota!Boundary(r.context) = Quota!Boundary(c)

PaidOnce == \A b \in Quota!Boundaries : spent[b] = Cardinality(Payers(b))

LEMMA PaidIsChargedOnce == PaidOnce <=> Quota!ChargedOnce
BY QuotaCounts DEF PaidOnce, Payers, Quota!ChargedOnce

\* One attempt is answered: the others keep what they were answered.
LEMMA AnswersOne ==
    ASSUME NEW c \in Contexts, NEW a, AnswersKept, Answers(c, a),
           a.reason # "unanswered", Quota!New(c)
    PROVE  /\ attempts' = [x \in Contexts |-> attempts'[x]]
           /\ attempts'[c] = a
           /\ \A x \in Contexts : x # c => attempts'[x] = attempts[x]
           /\ c \notin Replied /\ Replied' = Replied \cup {c} /\ IsFiniteSet(Replied')
<1>1. /\ attempts' = [x \in Contexts |-> IF x = c THEN a ELSE attempts[x]]
  BY DEF AnswersKept, Answers
<1>2. a # Quota!Unanswered
  BY DEF Quota!Unanswered
<1>3. attempts[c] = Quota!Unanswered
  BY DEF Quota!New
<1>4. c \notin Replied /\ Replied' = Replied \cup {c}
  BY <1>1, <1>2, <1>3 DEF Replied, Quota!Unanswered
<1>5. IsFiniteSet(Replied')
  BY <1>4, FS_AddElement DEF AnswersKept
<1> QED BY <1>1, <1>4, <1>5

LEMMA PayersAfter ==
    ASSUME NEW c \in Contexts, NEW a, AnswersKept, Answers(c, a), a.reason # "unanswered",
           Quota!New(c), NEW b
    PROVE  /\ IsFiniteSet(Payers(b)) /\ c \notin Payers(b)
           /\ Payers(b)' = IF /\ Quota!Inside(c, b) /\ a.reason \notin Quota!Uncharged
                              /\ \A r \in a.receipt : r.context = c
                           THEN Payers(b) \cup {c} ELSE Payers(b)
<1>1. /\ attempts'[c] = a
      /\ \A x \in Contexts : x # c => attempts'[x] = attempts[x]
      /\ c \notin Replied
  BY AnswersOne
<1>2. Payers(b) \subseteq Replied
  BY DEF Payers, Replied, Quota!WasCharged
<1>3. IsFiniteSet(Payers(b)) /\ c \notin Payers(b)
  BY <1>1, <1>2, FS_Subset DEF AnswersKept
<1>4. Quota!WasCharged(c)' <=> /\ a.reason \notin Quota!Uncharged
                               /\ \A r \in a.receipt : r.context = c
  <2>1. a # Quota!Unanswered
    BY DEF Quota!Unanswered
  <2> QED BY <1>1, <2>1 DEF Quota!WasCharged, Quota!Unanswered, Quota!Uncharged, Quota!Nothing
<1>5. \A x \in Contexts : x # c => (Quota!WasCharged(x)' <=> Quota!WasCharged(x))
  BY <1>1 DEF Quota!WasCharged, Quota!Unanswered, Quota!Uncharged, Quota!Nothing
<1>6. \A x : Quota!Inside(x, b)' <=> Quota!Inside(x, b)
  BY DEF Quota!Inside
<1>7. Payers(b)' = {x \in Contexts : Quota!Inside(x, b) /\ Quota!WasCharged(x)'}
  BY <1>6 DEF Payers
<1>8. c \notin {x \in Contexts : Quota!Inside(x, b) /\ Quota!WasCharged(x)}
  BY <1>3 DEF Payers
<1> QED BY <1>3, <1>4, <1>5, <1>7, <1>8 DEF Payers

\* A charged answer is paid for, and an answer without a charge is not counted.
LEMMA PaidAfter ==
    ASSUME NEW c \in Contexts, NEW a, AnswersKept, PaidOnce, CountersKept,
           Answers(c, a), a.reason # "unanswered", Quota!New(c),
           \/ /\ spent' = spent
              /\ \/ a.reason \in Quota!Uncharged
                 \/ \E r \in a.receipt : r.context # c
           \/ /\ spent' = Quota!Charged(c) /\ a.reason \notin Quota!Uncharged
              /\ \A r \in a.receipt : r.context = c
    PROVE  PaidOnce'
<1> SUFFICES ASSUME NEW b \in Quota!Boundaries
             PROVE  spent'[b] = Cardinality(Payers(b)')
  BY DEF PaidOnce, Quota!Boundaries
<1>1. /\ IsFiniteSet(Payers(b)) /\ c \notin Payers(b) /\ Cardinality(Payers(b)) \in Nat
      /\ spent[b] = Cardinality(Payers(b))
      /\ Payers(b)' = IF /\ Quota!Inside(c, b) /\ a.reason \notin Quota!Uncharged
                         /\ \A r \in a.receipt : r.context = c
                      THEN Payers(b) \cup {c} ELSE Payers(b)
  BY PayersAfter, FS_CardinalityType DEF PaidOnce
<1>2. Cardinality(Payers(b) \cup {c}) = Cardinality(Payers(b)) + 1
  BY <1>1, FS_AddElement
<1>3. CASE spent' = spent /\ (a.reason \in Quota!Uncharged \/ \E r \in a.receipt : r.context # c)
  BY <1>1, <1>3
<1>4. CASE /\ spent' = Quota!Charged(c) /\ a.reason \notin Quota!Uncharged
           /\ \A r \in a.receipt : r.context = c
  <2>1. spent'[b] = IF Quota!Inside(c, b) THEN spent[b] + 1 ELSE spent[b]
    BY <1>4, SpentAfter
  <2> QED BY <1>1, <1>2, <1>4, <2>1
<1> QED BY <1>3, <1>4

\* An answer with no receipt, or with one that its proposal id has.
LEMMA AnswersStay ==
    ASSUME NEW c \in Contexts, NEW a, AnswersKept, Answers(c, a), a.reason # "unanswered",
           Quota!New(c), UNCHANGED proposals,
           \A r \in a.receipt : /\ r \in Rcpts /\ proposals[r.digest.id] = {r}
                                /\ Quota!Boundary(r.context) = Quota!Boundary(c)
    PROVE  AnswersKept'
<1>1. /\ attempts' = [x \in Contexts |-> attempts'[x]]
      /\ attempts'[c] = a
      /\ \A x \in Contexts : x # c => attempts'[x] = attempts[x]
      /\ IsFiniteSet(Replied') /\ Replied' = Replied \cup {c}
  BY AnswersOne
<1>2. \A x \in Contexts : attempts[x] # Quota!Unanswered => attempts'[x] # Quota!Unanswered
  BY <1>1 DEF Replied, Quota!Unanswered
<1>3. Quota!Ids' = Quota!Ids /\ Rcpts' = Rcpts
  BY DEF Quota!Ids, Rcpts
<1>4. /\ \A x : Quota!Boundary(x)' = Quota!Boundary(x)
      /\ Quota!Unanswered' = Quota!Unanswered
  BY DEF Quota!Boundary, Quota!Campaign, Quota!Unanswered, Quota!Nothing
<1>5. \A i \in Quota!Ids : \A r \in proposals[i] :
         proposals[i] = {r} /\ r.digest.id = i /\ attempts'[r.context] # Quota!Unanswered
  <2> SUFFICES ASSUME NEW i \in Quota!Ids, NEW r \in proposals[i]
               PROVE  proposals[i] = {r} /\ r.digest.id = i /\ attempts'[r.context] # Quota!Unanswered
    OBVIOUS
  <2>1. r.context \in Contexts
    BY DEF AnswersKept, Rcpts
  <2> QED BY <1>2, <2>1 DEF AnswersKept
<1>6. \A x \in Contexts : \A r \in attempts'[x].receipt :
         /\ r \in Rcpts /\ proposals[r.digest.id] = {r}
         /\ Quota!Boundary(r.context) = Quota!Boundary(x)
  BY <1>1 DEF AnswersKept
<1> QED BY <1>1, <1>3, <1>4, <1>5, <1>6 DEF AnswersKept

\* A proposal is accepted under an id that had none.
LEMMA AnswersTake ==
    ASSUME NEW c \in Contexts, NEW d \in Documents, NEW a, AnswersKept, Answers(c, a),
           a.reason = "none", a.receipt = {Quota!Receipt(c, d)}, Quota!New(c),
           proposals[d.id] = {}, proposals' = [proposals EXCEPT ![d.id] = {Quota!Receipt(c, d)}]
    PROVE  AnswersKept'
<1>0. PICK s : s = Quota!Receipt(c, d)
  OBVIOUS
<1>1. /\ attempts' = [x \in Contexts |-> attempts'[x]]
      /\ attempts'[c] = a
      /\ \A x \in Contexts : x # c => attempts'[x] = attempts[x]
      /\ IsFiniteSet(Replied') /\ Replied' = Replied \cup {c}
  BY AnswersOne
<1>2. \A x \in Contexts : attempts[x] # Quota!Unanswered \/ x = c => attempts'[x] # Quota!Unanswered
  BY <1>1 DEF Replied, Quota!Unanswered
<1>3. Quota!Ids' = Quota!Ids /\ Rcpts' = Rcpts
  BY DEF Quota!Ids, Rcpts
<1>4. /\ \A x : Quota!Boundary(x)' = Quota!Boundary(x)
      /\ Quota!Unanswered' = Quota!Unanswered
  BY DEF Quota!Boundary, Quota!Campaign, Quota!Unanswered, Quota!Nothing
<1>5. s \in Rcpts /\ s.context = c /\ s.digest = d /\ d.id \in Quota!Ids
  BY <1>0 DEF Rcpts, Quota!Receipt, Quota!Ids
<1>6. /\ proposals' \in [Quota!Ids -> SUBSET Rcpts] /\ proposals'[d.id] = {s}
      /\ \A i \in Quota!Ids : i # d.id => proposals'[i] = proposals[i]
  BY <1>0, <1>5 DEF AnswersKept
<1>7. \A i \in Quota!Ids : \A r \in proposals'[i] :
         proposals'[i] = {r} /\ r.digest.id = i /\ attempts'[r.context] # Quota!Unanswered
  <2> SUFFICES ASSUME NEW i \in Quota!Ids, NEW r \in proposals'[i]
               PROVE  /\ proposals'[i] = {r} /\ r.digest.id = i
                      /\ attempts'[r.context] # Quota!Unanswered
    OBVIOUS
  <2>1. CASE i = d.id
    BY <1>2, <1>5, <1>6, <2>1
  <2>2. CASE i # d.id
    <3>1. r \in proposals[i] /\ r.context \in Contexts
      BY <1>6, <2>2 DEF AnswersKept, Rcpts
    <3> QED BY <1>2, <1>6, <2>2, <3>1 DEF AnswersKept
  <2> QED BY <2>1, <2>2
<1>8. \A x \in Contexts : \A r \in attempts'[x].receipt :
         /\ r \in Rcpts /\ proposals'[r.digest.id] = {r}
         /\ Quota!Boundary(r.context) = Quota!Boundary(x)
  <2> SUFFICES ASSUME NEW x \in Contexts, NEW r \in attempts'[x].receipt
               PROVE  /\ r \in Rcpts /\ proposals'[r.digest.id] = {r}
                      /\ Quota!Boundary(r.context) = Quota!Boundary(x)
    OBVIOUS
  <2>1. CASE x = c
    BY <1>0, <1>1, <1>5, <1>6, <2>1
  <2>2. CASE x # c
    <3>1. /\ r \in Rcpts /\ proposals[r.digest.id] = {r}
          /\ Quota!Boundary(r.context) = Quota!Boundary(x)
      BY <1>1, <2>2 DEF AnswersKept
    <3>2. r.digest.id \in Quota!Ids /\ r.digest.id # d.id
      BY <3>1 DEF Rcpts, Quota!Ids
    <3> QED BY <1>6, <3>1, <3>2
  <2> QED BY <2>1, <2>2
<1> QED BY <1>1, <1>3, <1>4, <1>6, <1>7, <1>8 DEF AnswersKept

-----------------------------------------------------------------------------
(* What waits and what is completed.                                       *)

Accepted == UNION {proposals[i] : i \in Quota!Ids}

QueuesKept ==
    /\ queues \in [Quota!Campaigns -> SUBSET Rcpts] /\ completed \subseteq Rcpts
    /\ \A k \in Quota!Campaigns :
         /\ IsFiniteSet(queues[k]) /\ Cardinality(queues[k]) <= QueueDepth
         /\ queues[k] \cap completed = {}
         /\ Quota!Receipts(k) = {r \in Accepted : Quota!Campaign(r.context) = k}

LEMMA QueuesBack == AnswersKept /\ QueuesKept => Quota!QueueBacked
<1> SUFFICES ASSUME AnswersKept, QueuesKept PROVE Quota!QueueBacked
  OBVIOUS
<1>1. \A k \in Quota!Campaigns :
         /\ queues[k] \cap completed = {}
         /\ Quota!Cardinality(queues[k]) <= QueueDepth
         /\ Quota!Receipts(k) = {r \in UNION {proposals[i] : i \in Quota!Ids} :
                                    Quota!Campaign(r.context) = k}
  BY QuotaCounts DEF QueuesKept, Accepted
<1>2. \A c \in Contexts : \A r \in attempts[c].receipt :
         proposals[r.digest.id] = {r} /\ Quota!Boundary(r.context) = Quota!Boundary(c)
  BY DEF AnswersKept
<1> QED BY <1>1, <1>2 DEF Quota!QueueBacked

LEMMA QueuesSame ==
    QueuesKept /\ UNCHANGED <<queues, completed, proposals>> => QueuesKept'
<1>1. Quota!Campaigns' = Quota!Campaigns /\ Quota!Ids' = Quota!Ids /\ Rcpts' = Rcpts
  BY DEF Quota!Campaigns, Quota!Campaign, Quota!Ids, Rcpts
<1>2. UNCHANGED <<queues, completed, proposals>> =>
        Accepted' = Accepted /\ \A k : Quota!Receipts(k)' = Quota!Receipts(k)
  BY DEF Accepted, Quota!Ids, Quota!Receipts, Quota!Campaign
<1> QED BY <1>1, <1>2 DEF QueuesKept, Quota!Campaign

\* A receipt is queued: it was neither queued nor completed, as its id had none.
LEMMA QueuesTake ==
    ASSUME NEW c \in Contexts, NEW d \in Documents, AnswersKept, QueuesKept,
           ~(Cardinality(queues[Quota!Campaign(c)]) >= QueueDepth), proposals[d.id] = {},
           queues' = [queues EXCEPT ![Quota!Campaign(c)] = @ \cup {Quota!Receipt(c, d)}],
           proposals' = [proposals EXCEPT ![d.id] = {Quota!Receipt(c, d)}], UNCHANGED completed
    PROVE  QueuesKept'
<1> DEFINE m == Quota!Campaign(c)
           accepted(k) == {r \in Accepted : Quota!Campaign(r.context) = k}
<1>0. PICK s : s = Quota!Receipt(c, d)
  OBVIOUS
<1>1. m \in Quota!Campaigns /\ d.id \in Quota!Ids
  BY CampaignOf DEF Quota!Ids
<1>2. s \in Rcpts /\ s.context = c /\ s.digest = d
  BY <1>0 DEF Rcpts, Quota!Receipt
<1>3. \A r \in Accepted : r.digest.id \in Quota!Ids /\ proposals[r.digest.id] = {r}
  BY DEF Accepted, AnswersKept
<1>4. s \notin Accepted
  BY <1>2, <1>3
<1>5. s \notin completed /\ s \notin queues[m]
  <2>1. Quota!Receipts(m) = accepted(m)
    BY <1>1 DEF QueuesKept
  <2>2. s \notin Quota!Receipts(m)
    BY <1>4, <2>1
  <2> QED BY <1>2, <2>2 DEF Quota!Receipts
<1>6. /\ queues' \in [Quota!Campaigns -> SUBSET Rcpts]
      /\ queues'[m] = queues[m] \cup {s}
      /\ \A k \in Quota!Campaigns : k # m => queues'[k] = queues[k]
  BY <1>0, <1>1, <1>2 DEF QueuesKept
<1>7. Accepted' = Accepted \cup {s}
  <2>1. /\ proposals'[d.id] = {s}
        /\ \A i \in Quota!Ids : i # d.id => proposals'[i] = proposals[i]
    BY <1>0, <1>1 DEF AnswersKept
  <2>2. Accepted' = UNION {proposals'[i] : i \in Quota!Ids}
    BY DEF Accepted, Quota!Ids
  <2> QED BY <1>1, <2>1, <2>2 DEF Accepted
<1>8. ASSUME NEW k \in Quota!Campaigns
      PROVE  /\ IsFiniteSet(queues'[k]) /\ Cardinality(queues'[k]) <= QueueDepth
             /\ queues'[k] \cap completed = {}
  <2>1. /\ IsFiniteSet(queues[k]) /\ Cardinality(queues[k]) <= QueueDepth
        /\ queues[k] \cap completed = {}
    BY DEF QueuesKept
  <2>2. CASE k = m
    <3>1. IsFiniteSet(queues[m]) /\ Cardinality(queues[m]) \in Nat
      BY <2>1, <2>2, FS_CardinalityType
    <3>2. IsFiniteSet(queues[m] \cup {s}) /\ Cardinality(queues[m] \cup {s}) = Cardinality(queues[m]) + 1
      BY <1>5, <3>1, FS_AddElement
    <3>3. Cardinality(queues[m]) + 1 <= QueueDepth
      BY <3>1, QuotaConstants
    <3> QED BY <1>5, <1>6, <2>1, <2>2, <3>2, <3>3
  <2>3. CASE k # m
    BY <1>6, <2>1, <2>3
  <2> QED BY <2>2, <2>3
<1>9. ASSUME NEW k \in Quota!Campaigns
      PROVE  Quota!Receipts(k)' = {r \in Accepted' : Quota!Campaign(r.context) = k}
  <2>1. Quota!Receipts(k)' = queues'[k] \cup {r \in completed : Quota!Campaign(r.context) = k}
    BY DEF Quota!Receipts, Quota!Campaign
  <2>2. queues[k] \cup {r \in completed : Quota!Campaign(r.context) = k} = accepted(k)
    BY DEF QueuesKept, Quota!Receipts
  <2>3. Quota!Campaign(s.context) = m
    BY <1>2
  <2> HIDE DEF m
  <2> QED BY <1>6, <1>7, <2>1, <2>2, <2>3
<1>10. /\ Quota!Campaigns' = Quota!Campaigns /\ Rcpts' = Rcpts
       /\ \A x : Quota!Campaign(x)' = Quota!Campaign(x)
  BY DEF Quota!Campaigns, Quota!Campaign, Rcpts
<1> QED BY <1>6, <1>8, <1>9, <1>10 DEF QueuesKept

\* Receipts move from the queue to the completed ones.
LEMMA QueuesMove ==
    ASSUME NEW c \in Contexts, QueuesKept, Quota!Complete(c)
    PROVE  QueuesKept'
<1> DEFINE m == Quota!Campaign(c)
           mine == {r \in attempts[c].receipt \cap queues[m] : r.context = c}
<1>1. /\ queues' = [queues EXCEPT ![m] = @ \ mine]
      /\ completed' = completed \cup mine /\ UNCHANGED proposals
  BY DEF Quota!Complete
<1>2. m \in Quota!Campaigns
  BY CampaignOf
<1>3. mine \subseteq queues[m] /\ \A r \in mine : Quota!Campaign(r.context) = m
  OBVIOUS
<1> HIDE DEF mine, m
<1>4. /\ queues' \in [Quota!Campaigns -> SUBSET Rcpts] /\ completed' \subseteq Rcpts
      /\ queues'[m] = queues[m] \ mine
      /\ \A k \in Quota!Campaigns : k # m => queues'[k] = queues[k]
  BY <1>1, <1>2, <1>3 DEF QueuesKept
<1>5. Accepted' = Accepted
  BY <1>1 DEF Accepted, Quota!Ids
<1>6. \A k \in Quota!Campaigns : \A r \in queues[k] : Quota!Campaign(r.context) = k
  <2> SUFFICES ASSUME NEW k \in Quota!Campaigns, NEW r \in queues[k]
               PROVE  Quota!Campaign(r.context) = k
    OBVIOUS
  <2>1. r \in Quota!Receipts(k)
    BY DEF Quota!Receipts
  <2> QED BY <2>1 DEF QueuesKept
<1>7. ASSUME NEW k \in Quota!Campaigns
      PROVE  /\ IsFiniteSet(queues'[k]) /\ Cardinality(queues'[k]) <= QueueDepth
             /\ queues'[k] \cap completed' = {}
  <2>1. /\ IsFiniteSet(queues[k]) /\ Cardinality(queues[k]) <= QueueDepth
        /\ Cardinality(queues[k]) \in Nat /\ queues[k] \cap completed = {}
    BY FS_CardinalityType DEF QueuesKept
  <2>2. queues'[k] \subseteq queues[k] /\ queues'[k] \cap mine = {}
    BY <1>2, <1>3, <1>4, <1>6
  <2>3. /\ IsFiniteSet(queues'[k]) /\ Cardinality(queues'[k]) <= Cardinality(queues[k])
        /\ Cardinality(queues'[k]) \in Nat
    BY <2>1, <2>2, FS_Subset, FS_CardinalityType
  <2>4. queues'[k] \cap completed' = {}
    BY <1>1, <2>1, <2>2
  <2> QED BY <2>1, <2>3, <2>4, QuotaConstants
<1>8. ASSUME NEW k \in Quota!Campaigns
      PROVE  Quota!Receipts(k)' = {r \in Accepted' : Quota!Campaign(r.context) = k}
  <2>1. Quota!Receipts(k)' = queues'[k] \cup {r \in completed' : Quota!Campaign(r.context) = k}
    BY DEF Quota!Receipts, Quota!Campaign
  <2>2. queues[k] \cup {r \in completed : Quota!Campaign(r.context) = k}
          = {r \in Accepted : Quota!Campaign(r.context) = k}
    BY DEF QueuesKept, Quota!Receipts
  <2> QED BY <1>1, <1>3, <1>4, <1>5, <2>1, <2>2
<1>9. /\ Quota!Campaigns' = Quota!Campaigns /\ Rcpts' = Rcpts
      /\ \A x : Quota!Campaign(x)' = Quota!Campaign(x)
  BY DEF Quota!Campaigns, Quota!Campaign, Rcpts
<1> QED BY <1>4, <1>7, <1>8, <1>9 DEF QueuesKept

-----------------------------------------------------------------------------
(* The quota's invariant.                                                  *)

QuotaInv == CountersKept /\ WindowsKept /\ AnswersKept /\ PaidOnce /\ QueuesKept

LEMMA WindowsNext ==
    ASSUME \A k \in Quota!Campaigns : InWindows(admitted'[k], rates'[k], reading')
    PROVE  WindowsKept'
<1>1. WindowsKept' <=> \A k \in Quota!Campaigns : InWindows(admitted'[k], rates'[k], reading')
  BY DEF WindowsKept, InWindows, Quota!Campaigns, Quota!Campaign, Quota!Within, Quota!Cardinality,
         From
<1> QED BY <1>1

LEMMA CountersNext ==
    ASSUME reading' \in 0..MaxReading, spent' \in [Quota!Boundaries -> Nat],
           rates' \in [Quota!Campaigns -> Seq(Nat)], admitted' \in [Quota!Campaigns -> Seq(Nat)],
           Quota!TypeOK'
    PROVE  CountersKept'
BY DEF CountersKept, Quota!Boundaries, Quota!Campaigns, Quota!Campaign, Quota!Problem, Quota!Boundary

\* What a charge does to the windows when nothing is admitted.
LEMMA ChargesKeepWindows ==
    ASSUME NEW c \in Contexts, CountersKept, WindowsKept, UNCHANGED admitted,
           UNCHANGED <<reading, rates>> \/ \E now \in Nat : Stamped(c, now)
    PROVE  WindowsKept'
<1> SUFFICES ASSUME NEW k \in Quota!Campaigns
             PROVE  InWindows(admitted'[k], rates'[k], reading')
  BY WindowsNext
<1>1. /\ admitted[k] \in Seq(Nat) /\ rates[k] \in Seq(Nat) /\ reading \in Nat
      /\ InWindows(admitted[k], rates[k], reading)
  BY DEF CountersKept, WindowsKept
<1>2. CASE UNCHANGED <<reading, rates>>
  BY <1>1, <1>2
<1>3. CASE \E now \in Nat : Stamped(c, now)
  <2>1. PICK now \in Nat : Stamped(c, now)
    BY <1>3
  <2> DEFINE m == Quota!Campaign(c)
  <2>2. /\ reading <= now /\ reading' = now
        /\ rates' = [rates EXCEPT ![m] = Append(Quota!After(rates[m], now, RollingTime), now)]
    BY <1>1, <2>1 DEF Stamped, Quota!Recent
  <2> HIDE DEF m
  <2>3. CASE k = m
    <3>1. rates'[k] = Append(Quota!After(rates[k], now, RollingTime), now)
      BY <2>2, <2>3 DEF CountersKept
    <3>2. InWindows(admitted[k], Append(Quota!After(rates[k], now, RollingTime), now), now)
      BY <1>1, <2>2, StampedInWindows
    <3> QED BY <2>2, <3>1, <3>2
  <2>4. CASE k # m
    <3>1. rates'[k] = rates[k]
      BY <2>2, <2>4 DEF CountersKept
    <3>2. InWindows(admitted[k], rates[k], now)
      BY <1>1, <2>2, QuotaConstants DEF InWindows
    <3> QED BY <2>2, <3>1, <3>2
  <2> QED BY <2>3, <2>4
<1> QED BY <1>2, <1>3

LEMMA TakenKeepsCounts ==
    ASSUME NEW c \in Contexts, NEW d \in Documents, NEW now \in Nat,
           CountersKept, WindowsKept, Taken(c, d, now)
    PROVE  CountersKept' /\ WindowsKept'
<1> DEFINE m == Quota!Campaign(c)
<1>1. Charges(c)
  BY DEF Taken, Charges
<1>2. m \in Quota!Campaigns
  BY CampaignOf
<1>3. /\ admitted' = [admitted EXCEPT ![m] = Append(@, now)] /\ Stamped(c, now)
      /\ ~(Cardinality(Quota!Burst(c, now)) >= BurstCap)
      /\ ~(Len(Quota!Recent(c, now)) + 1 > RollingCap)
  BY DEF Taken
<1>4. InWindows(Append(admitted[m], now), Append(Quota!After(rates[m], now, RollingTime), now), now)
  BY <1>3, AdmittedInWindows
<1>5. /\ reading' = now /\ now \in reading..MaxReading
      /\ rates' = [rates EXCEPT ![m] = Append(Quota!After(rates[m], now, RollingTime), now)]
  BY <1>3 DEF Stamped, Quota!Recent
<1> HIDE DEF m
<1>6. admitted' \in [Quota!Campaigns -> Seq(Nat)]
  <2>1. Append(admitted[m], now) \in Seq(Nat)
    BY <1>2 DEF CountersKept
  <2> QED BY <1>2, <1>3, <2>1 DEF CountersKept
<1>7. CountersKept'
  BY <1>1, <1>6, ChargesKeepCounters, CountersNext
<1>8. ASSUME NEW k \in Quota!Campaigns
      PROVE  InWindows(admitted'[k], rates'[k], reading')
  <2>1. CASE k = m
    <3>1. /\ admitted'[k] = Append(admitted[m], now)
          /\ rates'[k] = Append(Quota!After(rates[m], now, RollingTime), now)
      BY <1>2, <1>3, <1>5, <2>1 DEF CountersKept
    <3> QED BY <1>4, <1>5, <3>1
  <2>2. CASE k # m
    <3>1. admitted'[k] = admitted[k] /\ rates'[k] = rates[k]
      BY <1>3, <1>5, <2>2 DEF CountersKept
    <3>2. InWindows(admitted[k], rates[k], reading) /\ reading \in Nat /\ reading <= now
      BY <1>5 DEF WindowsKept, CountersKept
    <3>3. InWindows(admitted[k], rates[k], now)
      BY <3>2, QuotaConstants DEF InWindows
    <3> QED BY <1>5, <3>1, <3>3
  <2> QED BY <2>1, <2>2
<1>9. WindowsKept'
  BY <1>8, WindowsNext
<1> QED BY <1>7, <1>9

LEMMA QuotaInit == Quota!Init => QuotaInv
<1> SUFFICES ASSUME Quota!Init PROVE QuotaInv
  OBVIOUS
<1>1. /\ reading = 0 /\ spent = [b \in Quota!Boundaries |-> 0]
      /\ rates = [k \in Quota!Campaigns |-> <<>>] /\ admitted = [k \in Quota!Campaigns |-> <<>>]
      /\ queues = [k \in Quota!Campaigns |-> {}] /\ completed = {}
      /\ attempts = [c \in Contexts |-> Quota!Unanswered] /\ proposals = [i \in Quota!Ids |-> {}]
  BY DEF Quota!Init, Quota!Nothing
<1>2. <<>> \in Seq(Nat) /\ Len(<<>>) = 0 /\ DOMAIN <<>> = {}
  OBVIOUS
<1>3. /\ \A v : From(<<>>, v) = 0
      /\ \A x, width : Quota!Within(<<>>, x, width) = 0
  <2>1. \A v : {i \in 1..Len(<<>>) : <<>>[i] >= v} = {}
    BY <1>2
  <2>2. \A x, width : {i \in DOMAIN <<>> : <<>>[i] \in (x - width + 1)..x} = {}
    BY <1>2
  <2> QED BY <2>1, <2>2, FS_EmptySet, QuotaCounts DEF From, Quota!Within
<1>4. CountersKept
  <2>1. Quota!TypeOK
    <3> SUFFICES ASSUME NEW k \in Quota!Campaigns
                 PROVE  InOrder(rates[k], reading, spent[<<k>>])
      BY <1>1, TypeIsOrder, QuotaConstants
    <3>1. rates[k] = <<>> /\ spent[<<k>>] = 0
      BY <1>1, CampaignCharges
    <3> QED BY <1>2, <3>1 DEF InOrder
  <2> QED BY <1>1, <1>2, <2>1, QuotaConstants DEF CountersKept
<1>5. WindowsKept
  BY <1>1, <1>3, QuotaConstants DEF WindowsKept, InWindows
<1>6. Replied = {}
  BY <1>1 DEF Replied
<1>7. AnswersKept
  BY <1>1, <1>6, FS_EmptySet DEF AnswersKept, Quota!Unanswered, Quota!Nothing
<1>8. PaidOnce
  <2> SUFFICES ASSUME NEW b \in Quota!Boundaries PROVE spent[b] = Cardinality(Payers(b))
    BY DEF PaidOnce
  <2>1. Payers(b) = {}
    BY <1>1 DEF Payers, Quota!WasCharged
  <2> QED BY <1>1, <2>1, FS_EmptySet
<1>9. QueuesKept
  <2>1. Accepted = {}
    BY <1>1 DEF Accepted
  <2>2. \A k \in Quota!Campaigns : Quota!Receipts(k) = {}
    BY <1>1 DEF Quota!Receipts
  <2> QED BY <1>1, <2>1, <2>2, FS_EmptySet, QuotaConstants DEF QueuesKept
<1> QED BY <1>4, <1>5, <1>7, <1>8, <1>9 DEF QuotaInv

LEMMA ProposeKeeps ==
    ASSUME NEW c \in Contexts, NEW d \in Documents, QuotaInv, Quota!Propose(c, d)
    PROVE  QuotaInv'
<1>1. Quota!New(c)
  BY DEF Quota!Propose
<1>2. Forgone(c) \/ Repeated(c, d) \/ Refused(c) \/ \E now \in Nat : Taken(c, d, now)
  <2>1. reading \in Nat
    BY DEF QuotaInv, CountersKept
  <2> QED BY <2>1, ProposeOutcome
<1>3. CASE Forgone(c)
  <2>1. PICK a : Answers(c, a) /\ a.reason \in Quota!Uncharged /\ a.receipt = {}
    BY <1>3 DEF Forgone
  <2>2. a.reason # "unanswered"
    BY <2>1 DEF Quota!Uncharged
  <2>3. AnswersKept'
    BY <1>1, <1>3, <2>1, <2>2, AnswersStay DEF QuotaInv, Forgone
  <2>4. PaidOnce'
    BY <1>1, <1>3, <2>1, <2>2, PaidAfter DEF QuotaInv, Forgone
  <2>5. CountersKept' /\ WindowsKept'
    <3>1. Quota!TypeOK'
      BY <1>3 DEF QuotaInv, CountersKept, Forgone, Quota!TypeOK, Quota!Campaigns, Quota!Campaign
    <3>2. CountersKept'
      BY <1>3, <3>1, CountersNext DEF QuotaInv, CountersKept, Forgone
    <3> QED BY <1>3, <3>2, ChargesKeepWindows DEF QuotaInv, Forgone
  <2>6. QueuesKept'
    BY <1>3, QueuesSame DEF QuotaInv, Forgone
  <2> QED BY <2>3, <2>4, <2>5, <2>6 DEF QuotaInv
<1>4. CASE Repeated(c, d)
  <2>1. PICK a : Answers(c, a) /\ a.reason = "none" /\ a.receipt = proposals[d.id]
    BY <1>4 DEF Repeated
  <2>2. d.id \in Quota!Ids
    BY DEF Quota!Ids
  <2>3. \A r \in a.receipt : /\ r \in Rcpts /\ proposals[r.digest.id] = {r}
                             /\ Quota!Boundary(r.context) = Quota!Boundary(c)
    BY <1>4, <2>1, <2>2 DEF QuotaInv, AnswersKept, Repeated
  <2>4. \E r \in a.receipt : r.context # c
    <3>1. PICK r \in a.receipt : TRUE
      BY <1>4, <2>1 DEF Repeated
    <3>2. attempts[r.context] # Quota!Unanswered
      BY <2>1, <2>2, <3>1 DEF QuotaInv, AnswersKept
    <3> QED BY <1>1, <3>1, <3>2 DEF Quota!New
  <2>5. AnswersKept'
    BY <1>1, <1>4, <2>1, <2>3, AnswersStay DEF QuotaInv, Repeated
  <2>6. PaidOnce'
    BY <1>1, <1>4, <2>1, <2>4, PaidAfter DEF QuotaInv, Repeated
  <2>7. CountersKept' /\ WindowsKept'
    <3>1. Quota!TypeOK'
      BY <1>4 DEF QuotaInv, CountersKept, Repeated, Quota!TypeOK, Quota!Campaigns, Quota!Campaign
    <3>2. CountersKept'
      BY <1>4, <3>1, CountersNext DEF QuotaInv, CountersKept, Repeated
    <3> QED BY <1>4, <3>2, ChargesKeepWindows DEF QuotaInv, Repeated
  <2>8. QueuesKept'
    BY <1>4, QueuesSame DEF QuotaInv, Repeated
  <2> QED BY <2>5, <2>6, <2>7, <2>8 DEF QuotaInv
<1>5. CASE Refused(c)
  <2>1. PICK a : /\ Answers(c, a) /\ a.reason \notin Quota!Uncharged \cup {"unanswered"}
                 /\ a.receipt = {}
    BY <1>5 DEF Refused
  <2>2. AnswersKept'
    BY <1>1, <1>5, <2>1, AnswersStay DEF QuotaInv, Refused
  <2>3. PaidOnce'
    BY <1>1, <1>5, <2>1, PaidAfter DEF QuotaInv, Refused
  <2>4. Charges(c)
    BY <1>5 DEF Refused, Charges
  <2>5. CountersKept'
    BY <1>5, <2>4, ChargesKeepCounters, CountersNext DEF QuotaInv, CountersKept, Refused
  <2>6. WindowsKept'
    BY <1>5, ChargesKeepWindows DEF QuotaInv, Refused
  <2>7. QueuesKept'
    BY <1>5, QueuesSame DEF QuotaInv, Refused
  <2> QED BY <2>2, <2>3, <2>5, <2>6, <2>7 DEF QuotaInv
<1>6. CASE \E now \in Nat : Taken(c, d, now)
  <2>1. PICK now \in Nat : Taken(c, d, now)
    BY <1>6
  <2>2. PICK a : Answers(c, a) /\ a.reason = "none" /\ a.receipt = {Quota!Receipt(c, d)}
    BY <2>1 DEF Taken
  <2>3. a.reason # "unanswered" /\ a.reason \notin Quota!Uncharged
    BY <2>2 DEF Quota!Uncharged
  <2>4. \A r \in a.receipt : r.context = c
    BY <2>2 DEF Quota!Receipt
  <2>5. AnswersKept'
    BY <1>1, <2>1, <2>2, AnswersTake DEF QuotaInv, Taken
  <2>6. PaidOnce'
    BY <1>1, <2>1, <2>2, <2>3, <2>4, PaidAfter DEF QuotaInv, Taken
  <2>7. QueuesKept'
    BY <2>1, QueuesTake DEF QuotaInv, Taken
  <2>8. CountersKept' /\ WindowsKept'
    BY <2>1, TakenKeepsCounts DEF QuotaInv
  <2> QED BY <2>5, <2>6, <2>7, <2>8 DEF QuotaInv
<1> QED BY <1>2, <1>3, <1>4, <1>5, <1>6

LEMMA QuotaRests ==
    ASSUME QuotaInv, UNCHANGED <<reading, spent, rates, attempts, proposals, admitted>>,
           QueuesKept'
    PROVE  QuotaInv'
<1>1. Quota!TypeOK'
  BY DEF QuotaInv, CountersKept, Quota!TypeOK, Quota!Campaigns, Quota!Campaign
<1>2. CountersKept'
  BY <1>1, CountersNext DEF QuotaInv, CountersKept
<1>3. WindowsKept'
  BY WindowsNext DEF QuotaInv, WindowsKept
<1>4. /\ Quota!Ids' = Quota!Ids /\ Rcpts' = Rcpts /\ Quota!Unanswered' = Quota!Unanswered
      /\ \A x : Quota!Boundary(x)' = Quota!Boundary(x)
  BY DEF Quota!Ids, Rcpts, Quota!Unanswered, Quota!Nothing, Quota!Boundary, Quota!Campaign
<1>5. Replied' = Replied
  BY <1>4 DEF Replied
<1>6. AnswersKept'
  BY <1>4, <1>5 DEF QuotaInv, AnswersKept
<1>7. Quota!Boundaries' = Quota!Boundaries /\ \A b : Payers(b)' = Payers(b)
  BY DEF Quota!Boundaries, Payers, Quota!Inside, Quota!WasCharged, Quota!Unanswered,
         Quota!Uncharged, Quota!Nothing, Quota!Boundary, Quota!Campaign, Quota!Problem
<1>8. PaidOnce'
  BY <1>7 DEF QuotaInv, PaidOnce
<1> QED BY <1>2, <1>3, <1>6, <1>8 DEF QuotaInv

LEMMA QuotaNext == QuotaInv /\ [Quota!Next]_(Quota!vars) => QuotaInv'
<1> SUFFICES ASSUME QuotaInv, [Quota!Next]_(Quota!vars) PROVE QuotaInv'
  OBVIOUS
<1>1. CASE Quota!Next
  <2>1. PICK c \in Contexts : (\E d \in Documents : Quota!Propose(c, d)) \/ Quota!Complete(c)
    BY <1>1 DEF Quota!Next
  <2>2. CASE \E d \in Documents : Quota!Propose(c, d)
    BY <2>2, ProposeKeeps
  <2>3. CASE Quota!Complete(c)
    <3>1. QueuesKept'
      BY <2>3, QueuesMove DEF QuotaInv
    <3>2. UNCHANGED <<reading, spent, rates, attempts, proposals, admitted>>
      BY <2>3 DEF Quota!Complete
    <3> QED BY <3>1, <3>2, QuotaRests
  <2> QED BY <2>1, <2>2, <2>3
<1>2. CASE UNCHANGED Quota!vars
  <2>1. UNCHANGED <<reading, spent, rates, attempts, proposals, admitted, queues, completed>>
    BY <1>2 DEF Quota!vars
  <2>2. QueuesKept'
    BY <2>1, QueuesSame DEF QuotaInv
  <2> QED BY <2>1, <2>2, QuotaRests
<1> QED BY <1>1, <1>2

LEMMA QuotaInvIsKept == QuotaInv => QuotaKept
<1> SUFFICES ASSUME QuotaInv PROVE QuotaKept
  OBVIOUS
<1>1. Quota!TypeOK /\ Quota!ChargedOnce /\ Quota!QueueBacked
  BY PaidIsChargedOnce, QueuesBack DEF QuotaInv, CountersKept
<1>2. Quota!AdmittedWithinRate
  <2> SUFFICES ASSUME NEW k \in Quota!Campaigns, NEW now \in 0..reading
               PROVE  /\ Quota!Within(admitted[k], now, BurstTime) <= BurstCap
                      /\ Quota!Within(admitted[k], now, RollingTime) <= RollingCap
    BY DEF Quota!AdmittedWithinRate
  <2>1. now \in Int
    OBVIOUS
  <2> QED BY <2>1 DEF QuotaInv, WindowsKept, InWindows
<1> QED BY <1>1, <1>2 DEF QuotaKept

\* No window of the burst's or of the rolling time admits more proposals of a campaign
\* than its cap, every attempt is charged once to its turn, its problem and its campaign,
\* and what was accepted waits or is completed (reserve, propose and complete).
THEOREM QuotaIsKept == Quota!Spec => []QuotaKept
<1>1. Quota!Init => QuotaInv
  BY QuotaInit
<1>2. QuotaInv /\ [Quota!Next]_(Quota!vars) => QuotaInv'
  BY QuotaNext
<1>3. QuotaInv => QuotaKept
  BY QuotaInvIsKept
<1> QED BY <1>1, <1>2, <1>3, PTL DEF Quota!Spec
-----------------------------------------------------------------------------
(* The dataset server.                                                     *)

Entry == Int \X (Contents \cup {Missing, "temporary"})
Rested == [phase : {"idle"}, manifest : Dataset!Manifests \cup {Missing},
           answer : {Missing, "filesystem_race_detected", "valid", "invalid", "unchanged",
                     "manifest_immutable", "created", "failed"}]
Running == [phase : {"scandir", "hash", "write", "link", "unlink"}, manifest : Dataset!Manifests,
            kind : {"create", "verify", "created", "unchanged", "manifest_immutable"},
            number : Nat \ {0}, rest : SUBSET Int, seen : SUBSET Entry, clean : BOOLEAN]
Spent == [calls : Nat, writes : Nat, faults : Nat]

DataShapes ==
    /\ data \in [Names -> Contents \cup {Missing}]
    /\ temps \subseteq Int /\ \A n \in temps : n < 0
    /\ manifest \in Dataset!Manifests \cup {Missing}
    /\ reads \in [Callers -> Rested \cup Running]
    /\ begun \in Spent

\* What a scan has read is what is there, but for what it has not come to.
Scanned(v, d) ==
    /\ \A n \in Names : d[n] # Missing /\ n \notin v.rest => <<n, d[n]>> \in v.seen
    /\ \A f \in v.seen : f[1] \in Names => d[f[1]] # Missing /\ f[2] = d[f[1]]

\* Whoever verifies a manifest or was told that one is published has the published one.
TellsPublished(v, m) ==
    /\ v.phase = "idle" /\ v.answer \in {"created", "unchanged"} =>
           v.manifest = m /\ m # Missing
    /\ v.phase # "idle" /\ v.kind \in {"verify", "created", "unchanged"} => v.manifest = m
    /\ v.phase = "unlink" => v.kind \in {"created", "unchanged", "manifest_immutable"}

Agrees(v, d, m) ==
    /\ TellsPublished(v, m)
    /\ v.phase = "scandir" => v.seen = {}
    /\ v.phase = "hash" /\ v.clean => Scanned(v, d)

DataInv == DataShapes /\ \A c \in Callers : Agrees(reads[c], data, manifest)

\* "valid" is said of a manifest that lists the data.
Listed(v) == v.phase # "idle" /\ v.clean =>
                 {f \in manifest.files : f[1] \in Names} = Dataset!DataFiles

LEMMA DataConstants ==
    /\ Missing \notin Dataset!Manifests
    /\ Missing # "created" /\ Missing # "unchanged" /\ Missing # "valid"
    /\ Names \subseteq Nat \ {0}
BY ToolsAssumption DEF Dataset!DatasetAssumption

\* A manifest is published once.
LEMMA PublishedOnce ==
    ASSUME NEW v \in Rested \cup Running, NEW m, NEW n, TellsPublished(v, m),
           n = m \/ m = Missing
    PROVE  TellsPublished(v, n)
<1>1. v.phase # "idle" => v.manifest # Missing
  BY DataConstants DEF Rested, Running
<1> QED BY <1>1 DEF TellsPublished

\* One caller takes a step that leaves the data alone.
LEMMA OneCaller ==
    ASSUME DataInv, NEW c \in Callers, NEW v \in Rested \cup Running,
           reads' = [reads EXCEPT ![c] = v], UNCHANGED data,
           UNCHANGED manifest \/ (manifest = Missing /\ manifest' \in Dataset!Manifests),
           temps' \subseteq Int, \A n \in temps' : n < 0,
           begun' \in Spent,
           Agrees(v, data, manifest'),
           v.phase = "idle" /\ v.answer = "valid" => Listed(reads[c])
    PROVE  DataInv' /\ Dataset!VerifiedIsListed /\ Dataset!ManifestKept
<1>1. /\ reads' \in [Callers -> Rested \cup Running] /\ reads'[c] = v
      /\ \A x \in Callers : x # c => reads'[x] = reads[x]
  BY DEF DataInv, DataShapes
<1>2. /\ Dataset!Manifests' = Dataset!Manifests
      /\ manifest' \in Dataset!Manifests \cup {Missing}
  BY DEF DataInv, DataShapes, Dataset!Manifests
<1>3. DataShapes'
  BY <1>1, <1>2 DEF DataInv, DataShapes, Rested, Running, Entry, Spent
<1>4. ASSUME NEW x \in Callers PROVE Agrees(reads'[x], data, manifest')
  <2>1. CASE x = c
    BY <1>1, <2>1
  <2>2. CASE x # c
    <3>1. Agrees(reads[x], data, manifest) /\ reads[x] \in Rested \cup Running
      BY DEF DataInv, DataShapes
    <3>2. TellsPublished(reads[x], manifest')
      BY <3>1, PublishedOnce DEF Agrees
    <3> QED BY <1>1, <2>2, <3>1, <3>2 DEF Agrees
  <2> QED BY <2>1, <2>2
<1>5. DataInv'
  BY <1>3, <1>4 DEF DataInv
<1>6. Dataset!VerifiedIsListed
  <2> SUFFICES ASSUME NEW x \in Callers, reads[x].phase # "idle", reads[x].clean,
                      reads'[x].phase = "idle", reads'[x].answer = "valid"
               PROVE  {f \in manifest.files : f[1] \in Names} = Dataset!DataFiles
    BY DEF Dataset!VerifiedIsListed, Dataset!At, Dataset!Answered
  <2>1. x = c
    BY <1>1
  <2> QED BY <1>1, <2>1 DEF Listed
<1>7. Dataset!ManifestKept
  BY DEF Dataset!ManifestKept
<1> QED BY <1>5, <1>6, <1>7

\* What the steps read of a call.
LEMMA ReadShape ==
    ASSUME DataInv, NEW c \in Callers
    PROVE  /\ reads[c] \in Rested \cup Running
           /\ Agrees(reads[c], data, manifest)
           /\ reads[c].phase # "idle" => reads[c] \in Running
           /\ reads[c].phase = "idle" => reads[c] \in Rested
           /\ temps \subseteq Int /\ \A n \in temps : n < 0
           /\ begun \in Spent
           /\ data \in [Names -> Contents \cup {Missing}]
           /\ manifest \in Dataset!Manifests \cup {Missing}
BY DEF DataInv, DataShapes, Rested, Running

\* An answer that says neither that the dataset is valid nor that its manifest is published.
LEMMA EndsPlainly ==
    ASSUME DataInv, NEW c \in Callers, NEW answer,
           answer \in {Missing, "filesystem_race_detected", "invalid", "manifest_immutable", "failed"},
           NEW m \in Dataset!Manifests \cup {Missing},
           reads' = [reads EXCEPT ![c] = Dataset!Idle(answer, m)],
           UNCHANGED <<data, manifest>>,
           temps' \subseteq Int, \A n \in temps' : n < 0,
           begun' \in Spent
    PROVE  DataInv' /\ Dataset!VerifiedIsListed /\ Dataset!ManifestKept
<1> DEFINE v == Dataset!Idle(answer, m)
<1>1. v \in Rested /\ v.phase = "idle" /\ v.answer \notin {"created", "unchanged", "valid"}
  BY DataConstants DEF Dataset!Idle, Rested
<1>2. Agrees(v, data, manifest')
  BY <1>1 DEF Agrees, TellsPublished
<1> HIDE DEF v
<1> QED BY <1>1, <1>2, OneCaller DEF v

LEMMA BeginSafe ==
    ASSUME DataInv, NEW c \in Callers, NEW kind \in {"create", "verify"}, NEW m \in Dataset!Manifests,
           kind = "verify" => m = manifest,
           Dataset!Begin(c, kind, m)
    PROVE  DataInv' /\ Dataset!VerifiedIsListed /\ Dataset!ManifestKept
<1> DEFINE v == [phase |-> "scandir", kind |-> kind, manifest |-> m,
                 number |-> begun.calls + 1, rest |-> {}, seen |-> {}, clean |-> TRUE]
<1>1. /\ reads' = [reads EXCEPT ![c] = v] /\ UNCHANGED <<data, temps, manifest>>
      /\ begun' = [begun EXCEPT !.calls = @ + 1]
  BY DEF Dataset!Begin
<1>2. begun.calls \in Nat /\ begun' \in Spent
  BY <1>1, ReadShape DEF Spent
<1>3. v \in Running
  BY <1>2 DEF Running, Entry
<1>4. Agrees(v, data, manifest')
  BY <1>1 DEF Agrees, TellsPublished
<1>5. v.phase # "idle"
  OBVIOUS
<1> HIDE DEF v
<1> QED BY <1>1, <1>2, <1>3, <1>4, <1>5, ReadShape, OneCaller

LEMMA ScandirSafe ==
    ASSUME DataInv, NEW c \in Callers, Dataset!Scandir(c)
    PROVE  DataInv' /\ Dataset!VerifiedIsListed /\ Dataset!ManifestKept
<1> DEFINE v == [reads[c] EXCEPT !.phase = "hash", !.rest = Dataset!Entries(c)]
<1>1. /\ reads[c].phase = "scandir" /\ reads[c] \in Running /\ Agrees(reads[c], data, manifest)
      /\ UNCHANGED <<data, temps, manifest, begun>>
  BY ReadShape DEF Dataset!Scandir, Dataset!At
<1>2. reads' = [reads EXCEPT ![c] = v]
  BY <1>1, ReadShape DEF Dataset!Scandir, DataInv, DataShapes, Running
<1>3. /\ Dataset!Entries(c) \subseteq Int
      /\ \A n \in Names : data[n] # Missing => n \in Dataset!Entries(c)
  <2>1. Dataset!Entries(c) = {n \in Names : data[n] # Missing} \cup temps
    BY DEF Dataset!Entries, Dataset!Present
  <2>2. temps \subseteq Int /\ Names \subseteq Int
    BY ReadShape, DataConstants
  <2> QED BY <2>1, <2>2
<1>4. /\ v \in Running /\ v.phase = "hash" /\ v.rest = Dataset!Entries(c)
      /\ v.seen = reads[c].seen /\ v.kind = reads[c].kind /\ v.manifest = reads[c].manifest
  BY <1>1, <1>3 DEF Running
<1>5. v.seen = {}
  BY <1>1, <1>4 DEF Agrees
<1>6. Agrees(v, data, manifest')
  BY <1>1, <1>3, <1>4, <1>5 DEF Agrees, TellsPublished, Scanned
<1> HIDE DEF v
<1> QED BY <1>1, <1>2, <1>4, <1>6, ReadShape, OneCaller

LEMMA HashEntrySafe ==
    ASSUME DataInv, NEW c \in Callers, Dataset!HashEntry(c)
    PROVE  DataInv' /\ Dataset!VerifiedIsListed /\ Dataset!ManifestKept
<1>1. PICK n : /\ n = Dataset!Smallest(reads[c].rest)
               /\ IF n \notin Dataset!Present THEN Dataset!End(c, "filesystem_race_detected")
                  ELSE reads' = [reads EXCEPT ![c].rest = @ \ {n},
                                              ![c].seen = @ \cup {<<n, Dataset!Bytes(n)>>}]
  BY DEF Dataset!HashEntry
<1>2. /\ reads[c].phase = "hash" /\ reads[c] \in Running /\ Agrees(reads[c], data, manifest)
      /\ UNCHANGED <<data, temps, manifest, begun>>
  BY ReadShape DEF Dataset!HashEntry, Dataset!At
<1>3. CASE n \notin Dataset!Present
  <2>1. reads[c].manifest \in Dataset!Manifests
    BY <1>2 DEF Running
  <2> QED BY <1>1, <1>2, <1>3, <2>1, ReadShape, EndsPlainly DEF Dataset!End
<1>4. CASE n \in Dataset!Present
  <2> DEFINE e == <<n, Dataset!Bytes(n)>>
             v == [reads[c] EXCEPT !.rest = @ \ {n}, !.seen = @ \cup {e}]
  <2>1. reads' = [reads EXCEPT ![c] = v]
    BY <1>1, <1>2, <1>4 DEF DataInv, DataShapes, Running
  <2>2. n \in Int /\ Dataset!Bytes(n) \in Contents \cup {Missing, "temporary"}
    BY <1>4, ReadShape, DataConstants DEF Dataset!Present, Dataset!Bytes
  <2>3. e \in Entry /\ e[1] = n /\ e[2] = Dataset!Bytes(n)
    BY <2>2 DEF Entry
  <2>4. n \in Names => data[n] # Missing /\ e[2] = data[n]
    BY <1>4, <2>3, ReadShape, DataConstants DEF Dataset!Present, Dataset!Bytes
  <2> HIDE DEF e
  <2>5. /\ v \in Running /\ v.phase = "hash" /\ v.clean = reads[c].clean
        /\ v.rest = reads[c].rest \ {n} /\ v.seen = reads[c].seen \cup {e}
        /\ v.kind = reads[c].kind /\ v.manifest = reads[c].manifest
    BY <1>2, <2>3 DEF Running
  <2> HIDE DEF v
  <2>6. ASSUME v.clean PROVE Scanned(v, data)
    <3>1. Scanned(reads[c], data)
      BY <1>2, <2>5, <2>6 DEF Agrees
    <3>2. n \in Names => e = <<n, data[n]>>
      BY <2>4 DEF e
    <3> QED BY <2>3, <2>4, <2>5, <3>1, <3>2 DEF Scanned
  <2>7. Agrees(v, data, manifest')
    BY <1>2, <2>5, <2>6 DEF Agrees, TellsPublished
  <2> QED BY <1>2, <2>1, <2>5, <2>7, ReadShape, OneCaller
<1> QED BY <1>3, <1>4

LEMMA CompareSafe ==
    ASSUME DataInv, NEW c \in Callers, Dataset!Compare(c)
    PROVE  DataInv' /\ Dataset!VerifiedIsListed /\ Dataset!ManifestKept
<1>1. /\ reads[c].phase = "hash" /\ reads[c] \in Running /\ Agrees(reads[c], data, manifest)
      /\ UNCHANGED <<data, temps, manifest, begun>> /\ reads[c].rest = {} /\ reads[c].kind = "verify"
      /\ Dataset!End(c, IF reads[c].seen = reads[c].manifest.files THEN "valid" ELSE "invalid")
  BY ReadShape DEF Dataset!Compare, Dataset!At
<1>2. reads[c].manifest \in Dataset!Manifests /\ reads[c].manifest = manifest
  BY <1>1 DEF Running, Agrees, TellsPublished
<1>3. CASE reads[c].seen # reads[c].manifest.files
  BY <1>1, <1>2, <1>3, ReadShape, EndsPlainly DEF Dataset!End
<1>4. CASE reads[c].seen = reads[c].manifest.files
  <2> DEFINE v == Dataset!Idle("valid", reads[c].manifest)
  <2>1. reads' = [reads EXCEPT ![c] = v]
    BY <1>1, <1>4 DEF Dataset!End
  <2>2. v \in Rested /\ Agrees(v, data, manifest')
    BY <1>2 DEF Dataset!Idle, Rested, Agrees, TellsPublished
  <2>3. ASSUME reads[c].clean
        PROVE  {f \in manifest.files : f[1] \in Names} = Dataset!DataFiles
    <3>1. /\ Scanned(reads[c], data) /\ reads[c].seen \subseteq Entry
          /\ manifest.files = reads[c].seen
      BY <1>1, <1>2, <1>4, <2>3 DEF Agrees, Running
    <3>2. ASSUME NEW f \in reads[c].seen, f[1] \in Names PROVE f \in Dataset!DataFiles
      <4>1. f = <<f[1], f[2]>>
        BY <3>1 DEF Entry
      <4>2. data[f[1]] # Missing /\ f[2] = data[f[1]]
        BY <3>1, <3>2 DEF Scanned
      <4>3. f = <<f[1], data[f[1]]>>
        BY <4>1, <4>2
      <4> QED BY <3>2, <4>2, <4>3 DEF Dataset!DataFiles
    <3>3. ASSUME NEW n \in Names, data[n] # Missing
          PROVE  <<n, data[n]>> \in reads[c].seen /\ <<n, data[n]>>[1] = n
      BY <1>1, <3>1, <3>3 DEF Scanned
    <3>4. Dataset!DataFiles \subseteq {f \in reads[c].seen : f[1] \in Names}
      BY <3>3 DEF Dataset!DataFiles
    <3> QED BY <3>1, <3>2, <3>4
  <2>4. Listed(reads[c])
    BY <2>3 DEF Listed
  <2> HIDE DEF v
  <2> QED BY <1>1, <2>1, <2>2, <2>4, ReadShape, OneCaller
<1> QED BY <1>3, <1>4

LEMMA CheckExistingSafe ==
    ASSUME DataInv, NEW c \in Callers, Dataset!CheckExisting(c)
    PROVE  DataInv' /\ Dataset!VerifiedIsListed /\ Dataset!ManifestKept
<1> DEFINE mine == [reads[c].manifest EXCEPT !.files = reads[c].seen]
<1>1. /\ reads[c].phase = "hash" /\ reads[c] \in Running /\ Agrees(reads[c], data, manifest)
      /\ UNCHANGED <<data, temps, manifest, begun>> /\ reads[c].kind = "create"
      /\ reads' = [reads EXCEPT ![c] =
             IF manifest = Missing THEN [reads[c] EXCEPT !.phase = "write", !.manifest = mine]
             ELSE Dataset!Idle(IF manifest = mine THEN "unchanged" ELSE "manifest_immutable", mine)]
  BY ReadShape DEF Dataset!CheckExisting, Dataset!At
<1>2. mine \in Dataset!Manifests
  BY <1>1 DEF Running, Entry, Dataset!Manifests
<1> HIDE DEF mine
<1>3. CASE manifest = Missing
  <2> DEFINE v == [reads[c] EXCEPT !.phase = "write", !.manifest = mine]
  <2>1. v \in Running /\ v.phase = "write" /\ v.kind = "create"
    BY <1>1, <1>2 DEF Running
  <2>2. Agrees(v, data, manifest')
    BY <2>1 DEF Agrees, TellsPublished
  <2>3. reads' = [reads EXCEPT ![c] = v]
    BY <1>1, <1>3
  <2> HIDE DEF v
  <2> QED BY <1>1, <2>1, <2>2, <2>3, ReadShape, OneCaller
<1>4. CASE manifest # Missing /\ manifest = mine
  <2> DEFINE v == Dataset!Idle("unchanged", mine)
  <2>1. v \in Rested /\ v.phase = "idle" /\ v.answer # "valid"
    BY <1>2 DEF Dataset!Idle, Rested
  <2>2. Agrees(v, data, manifest')
    BY <1>1, <1>4 DEF Agrees, TellsPublished, Dataset!Idle
  <2>3. reads' = [reads EXCEPT ![c] = v]
    BY <1>1, <1>4
  <2> HIDE DEF v
  <2> QED BY <1>1, <2>1, <2>2, <2>3, ReadShape, OneCaller
<1>5. CASE manifest # Missing /\ manifest # mine
  BY <1>1, <1>2, <1>5, ReadShape, EndsPlainly
<1> QED BY <1>3, <1>4, <1>5

\* The names of the temporary files are no names of data.
LEMMA TempNegative ==
    ASSUME DataInv, NEW c \in Callers, reads[c] \in Running
    PROVE  Dataset!TempName(c) \in Int /\ Dataset!TempName(c) < 0
<1>1. reads[c].number \in Nat \ {0}
  BY DEF Running
<1> QED BY <1>1 DEF Dataset!TempName

LEMMA WriteTemporarySafe ==
    ASSUME DataInv, NEW c \in Callers, Dataset!WriteTemporary(c)
    PROVE  DataInv' /\ Dataset!VerifiedIsListed /\ Dataset!ManifestKept
<1> DEFINE v == [reads[c] EXCEPT !.phase = "link"]
<1>1. /\ reads[c].phase = "write" /\ reads[c] \in Running /\ Agrees(reads[c], data, manifest)
      /\ UNCHANGED <<data, manifest, begun>> /\ temps' = temps \cup {Dataset!TempName(c)}
  BY ReadShape DEF Dataset!WriteTemporary, Dataset!At
<1>2. reads' = [reads EXCEPT ![c] = v]
  BY <1>1 DEF Dataset!WriteTemporary, DataInv, DataShapes, Running
<1>3. /\ v \in Running /\ v.phase = "link"
      /\ v.kind = reads[c].kind /\ v.manifest = reads[c].manifest
  BY <1>1 DEF Running
<1>4. Agrees(v, data, manifest')
  BY <1>1, <1>3 DEF Agrees, TellsPublished
<1>5. temps' \subseteq Int /\ \A n \in temps' : n < 0
  BY <1>1, ReadShape, TempNegative
<1> HIDE DEF v
<1> QED BY <1>1, <1>2, <1>3, <1>4, <1>5, ReadShape, OneCaller

LEMMA FaultSpent ==
    ASSUME DataInv, Dataset!Fault
    PROVE  begun' \in Spent
BY DEF Dataset!Fault, DataInv, DataShapes, Spent

LEMMA WriteTemporaryFailsSafe ==
    ASSUME DataInv, NEW c \in Callers, Dataset!WriteTemporaryFails(c)
    PROVE  DataInv' /\ Dataset!VerifiedIsListed /\ Dataset!ManifestKept
<1>1. /\ reads[c].phase = "write" /\ reads[c] \in Running
      /\ UNCHANGED <<data, manifest>> /\ temps' = temps \cup {Dataset!TempName(c)}
      /\ begun' \in Spent /\ Dataset!End(c, "failed")
  BY ReadShape, FaultSpent DEF Dataset!WriteTemporaryFails, Dataset!At
<1>2. temps' \subseteq Int /\ \A n \in temps' : n < 0
  BY <1>1, ReadShape, TempNegative
<1>3. reads[c].manifest \in Dataset!Manifests
  BY <1>1 DEF Running
<1> QED BY <1>1, <1>2, <1>3, EndsPlainly DEF Dataset!End

LEMMA LinkSafe ==
    ASSUME DataInv, NEW c \in Callers, Dataset!Link(c)
    PROVE  DataInv' /\ Dataset!VerifiedIsListed /\ Dataset!ManifestKept
<1> DEFINE mine == reads[c].manifest
           answer == Dataset!LinkAnswer(mine)
           v == [reads[c] EXCEPT !.phase = "unlink", !.kind = answer]
<1>1. /\ reads[c].phase = "link" /\ reads[c] \in Running /\ Agrees(reads[c], data, manifest)
      /\ UNCHANGED <<data, temps, begun>> /\ manifest' = Dataset!Publish(mine)
  BY ReadShape DEF Dataset!Link, Dataset!At
<1>2. reads' = [reads EXCEPT ![c] = v]
  BY <1>1 DEF Dataset!Link, DataInv, DataShapes, Running
<1>3. mine \in Dataset!Manifests
  BY <1>1 DEF Running
<1>4. UNCHANGED manifest \/ (manifest = Missing /\ manifest' \in Dataset!Manifests)
  BY <1>1, <1>3 DEF Dataset!Publish
<1>5. /\ answer \in {"created", "unchanged", "manifest_immutable"}
      /\ answer \in {"created", "unchanged"} => mine = manifest'
  BY <1>1 DEF Dataset!Publish, Dataset!LinkAnswer
<1> HIDE DEF answer
<1>6. v \in Running /\ v.phase = "unlink" /\ v.kind = answer /\ v.manifest = mine
  BY <1>1, <1>5 DEF Running
<1>7. Agrees(v, data, manifest')
  BY <1>5, <1>6 DEF Agrees, TellsPublished
<1> HIDE DEF v, mine
<1> QED BY <1>1, <1>2, <1>4, <1>6, <1>7, ReadShape, OneCaller

LEMMA UnlinkSafe ==
    ASSUME DataInv, NEW c \in Callers, Dataset!Unlink(c)
    PROVE  DataInv' /\ Dataset!VerifiedIsListed /\ Dataset!ManifestKept
<1> DEFINE v == Dataset!Idle(reads[c].kind, reads[c].manifest)
<1>1. /\ reads[c].phase = "unlink" /\ reads[c] \in Running /\ Agrees(reads[c], data, manifest)
      /\ UNCHANGED <<data, manifest, begun>> /\ temps' = temps \ {Dataset!TempName(c)}
      /\ reads' = [reads EXCEPT ![c] = v]
  BY ReadShape DEF Dataset!Unlink, Dataset!At, Dataset!End
<1>2. /\ reads[c].manifest \in Dataset!Manifests
      /\ reads[c].kind \in {"created", "unchanged", "manifest_immutable"}
      /\ reads[c].kind \in {"created", "unchanged"} => reads[c].manifest = manifest
  BY <1>1 DEF Running, Agrees, TellsPublished
<1>3. v \in Rested /\ v.phase = "idle" /\ v.answer # "valid"
  BY <1>2 DEF Dataset!Idle, Rested
<1>4. Agrees(v, data, manifest')
  BY <1>1, <1>2, DataConstants DEF Agrees, TellsPublished, Dataset!Idle
<1>5. temps' \subseteq Int /\ \A n \in temps' : n < 0
  BY <1>1, ReadShape
<1> HIDE DEF v
<1> QED BY <1>1, <1>3, <1>4, <1>5, ReadShape, OneCaller

LEMMA CrashSafe ==
    ASSUME DataInv, NEW c \in Callers, Dataset!Crash(c)
    PROVE  DataInv' /\ Dataset!VerifiedIsListed /\ Dataset!ManifestKept
BY ReadShape, FaultSpent, EndsPlainly DEF Dataset!Crash

\* The author's write spoils the scans that run.
LEMMA WriteDataSafe ==
    ASSUME DataInv, NEW n \in Names, NEW bytes \in Contents \cup {Missing},
           Dataset!WriteData(n, bytes)
    PROVE  DataInv' /\ Dataset!VerifiedIsListed /\ Dataset!ManifestKept
<1> DEFINE Spoilt(x) == IF reads[x].phase = "idle" THEN reads[x]
                        ELSE [reads[x] EXCEPT !.clean = FALSE]
<1>1. /\ data' = [data EXCEPT ![n] = bytes] /\ UNCHANGED <<temps, manifest>>
      /\ begun' = [begun EXCEPT !.writes = @ + 1]
      /\ reads' = [x \in Callers |-> Spoilt(x)]
  BY DEF Dataset!WriteData, Dataset!At
<1>2. data' \in [Names -> Contents \cup {Missing}] /\ begun' \in Spent
  BY <1>1 DEF DataInv, DataShapes, Spent
<1>3. ASSUME NEW x \in Callers
      PROVE  Spoilt(x) \in Rested \cup Running /\ Agrees(Spoilt(x), data', manifest')
  <2>1. CASE reads[x].phase = "idle"
    BY <1>1, <2>1, ReadShape DEF Agrees
  <2>2. CASE reads[x].phase # "idle"
    <3>1. reads[x] \in Running /\ Agrees(reads[x], data, manifest)
      BY <2>2, ReadShape
    <3>2. /\ Spoilt(x) \in Running /\ ~Spoilt(x).clean
          /\ Spoilt(x).phase = reads[x].phase /\ Spoilt(x).kind = reads[x].kind
          /\ Spoilt(x).manifest = reads[x].manifest /\ Spoilt(x).seen = reads[x].seen
      BY <2>2, <3>1 DEF Running
    <3>3. PICK v : v = Spoilt(x)
      OBVIOUS
    <3>4. Agrees(v, data', manifest')
      BY <1>1, <3>1, <3>2, <3>3 DEF Agrees, TellsPublished
    <3> QED BY <3>2, <3>3, <3>4
  <2> QED BY <2>1, <2>2
<1>4. \A x \in Callers : Agrees(reads'[x], data', manifest')
  BY <1>1, <1>3
<1>5. /\ Dataset!Manifests' = Dataset!Manifests
      /\ reads' \in [Callers -> Rested \cup Running]
  BY <1>1, <1>3 DEF Dataset!Manifests
<1>6. DataShapes'
  BY <1>1, <1>2, <1>5 DEF DataInv, DataShapes, Rested, Running, Entry, Spent
<1>7. Dataset!VerifiedIsListed
  <2> SUFFICES ASSUME NEW x \in Callers, reads[x].phase # "idle", reads'[x].phase = "idle"
               PROVE  FALSE
    BY DEF Dataset!VerifiedIsListed, Dataset!At, Dataset!Answered
  <2>1. reads[x] \in Running /\ reads'[x].phase = reads[x].phase
    BY <1>1, ReadShape DEF Running
  <2> QED BY <2>1
<1>8. Dataset!ManifestKept
  BY <1>1 DEF Dataset!ManifestKept
<1> QED BY <1>4, <1>6, <1>7, <1>8 DEF DataInv

LEMMA DataStep ==
    ASSUME DataInv, [Dataset!Next]_(Dataset!vars)
    PROVE  DataInv' /\ Dataset!VerifiedIsListed /\ Dataset!ManifestKept
<1>1. CASE UNCHANGED Dataset!vars
  <2>1. UNCHANGED <<data, temps, manifest, reads, begun>>
    BY <1>1 DEF Dataset!vars
  <2>2. Dataset!Manifests' = Dataset!Manifests
    BY DEF Dataset!Manifests
  <2>3. DataInv'
    BY <2>1, <2>2 DEF DataInv, DataShapes, Rested, Running, Entry, Spent
  <2> QED BY <2>1, <2>3
        DEF Dataset!VerifiedIsListed, Dataset!ManifestKept, Dataset!At, Dataset!Answered
<1>2. ASSUME NEW n \in Names, NEW bytes \in Contents \cup {Missing}, Dataset!WriteData(n, bytes)
      PROVE  DataInv' /\ Dataset!VerifiedIsListed /\ Dataset!ManifestKept
  BY <1>2, WriteDataSafe
<1>3. ASSUME NEW c \in Callers, NEW id \in Versions, Dataset!Create(c, id)
      PROVE  DataInv' /\ Dataset!VerifiedIsListed /\ Dataset!ManifestKept
  <2>1. [id |-> id, files |-> {}] \in Dataset!Manifests
    BY DEF Dataset!Manifests
  <2> QED BY <1>3, <2>1, BeginSafe DEF Dataset!Create
<1>4. ASSUME NEW c \in Callers, Dataset!Verify(c)
      PROVE  DataInv' /\ Dataset!VerifiedIsListed /\ Dataset!ManifestKept
  BY <1>4, BeginSafe, ReadShape DEF Dataset!Verify
<1> QED
  BY <1>1, <1>2, <1>3, <1>4, ScandirSafe, HashEntrySafe, CompareSafe, CheckExistingSafe,
     WriteTemporarySafe, WriteTemporaryFailsSafe, LinkSafe, UnlinkSafe, CrashSafe
     DEF Dataset!Next

\* The dataset server: a dataset that drifted since its manifest was published is not called
\* valid, the manifest stays what it was, and whoever is told that it is published was told
\* of that one, whatever is written and crashes meanwhile.
THEOREM DriftIsDetected == Dataset!Spec => DriftDetected
<1>1. Dataset!Init => DataInv
  <2> SUFFICES ASSUME Dataset!Init PROVE DataInv
    OBVIOUS
  <2>1. \A c \in Callers : /\ reads[c] = Dataset!Idle(Missing, Missing)
                           /\ reads[c] \in Rested /\ Agrees(reads[c], data, manifest)
    BY DataConstants DEF Dataset!Init, Dataset!Idle, Rested, Agrees, TellsPublished
  <2>2. reads \in [Callers -> Rested \cup Running]
    BY <2>1 DEF Dataset!Init
  <2> QED BY <2>1, <2>2 DEF Dataset!Init, DataInv, DataShapes, Spent
<1>2. DataInv /\ [Dataset!Next]_(Dataset!vars) => DataInv'
  BY DataStep
<1>3. DataInv => Dataset!AnswerIsPublished
  <2> SUFFICES ASSUME DataInv PROVE Dataset!AnswerIsPublished
    OBVIOUS
  <2> QED BY ReadShape DEF Dataset!AnswerIsPublished, Dataset!Answered, Dataset!At, Agrees, TellsPublished
<1>4. DataInv' => Dataset!AnswerIsPublished'
  BY <1>3, PTL
<1>5. DataInv /\ [Dataset!Next]_(Dataset!vars)
         => [/\ Dataset!VerifiedIsListed /\ Dataset!ManifestKept
             /\ Dataset!AnswerIsPublished']_<<data, temps, manifest, reads, begun>>
  BY <1>2, <1>4, DataStep
<1> QED BY <1>1, <1>2, <1>5, PTL DEF Dataset!Spec, DriftDetected
-----------------------------------------------------------------------------
(* The workspace executor.                                                 *)

EditCodes ==
    {"effect_refused", "workspace_checkpoint_stale", "effect_denied", "approval_not_expected",
     "approval_refused", "recovery_plan_mismatch", "not_regular_file", "path_already_exists",
     "path_not_found", "recovery_backup_exists", "filesystem_race_detected",
     "atomic_write_failed", "directory_create_failed", "recoverable_delete_failed",
     "partial_effect", "inspection_failed", "workspace_checkpoint_failed", "crashed", "APPLIED"}
EditEntries == [caller : Editors, effect : Edits, code : EditCodes]
UndoneCodes == {"atomic_write_failed", "directory_create_failed", "recoverable_delete_failed"}

\* Before the second checkpoint nothing is known of the workspace; before the target is
\* read nothing of its old contents.
Opening == {"checkpoint", "authorize", "checkpoint_again"}
BeforeReading == Opening \cup {"inspect"}

Sound(k) ==
    /\ Workspace!ValidateAuthority(k.effect)
    /\ k.pc \in BeforeReading => k.job = "target" /\ k.removing = k.effect.target
    /\ k.pc \notin BeforeReading /\ Workspace!Named(k) => k.old \in Texts
    /\ k.job # "target" \/ k.pc \in {"backup_free", "move", "move_sync", "stat_backup"}
          => Workspace!Named(k)

FileShapes ==
    /\ fs \in [Paths -> [data : Texts \cup {Workspace!Dir, Missing}, inode : Editors \cup {Missing}]]
    /\ \A p \in Paths : fs[p].data = Missing => fs[p].inode = Missing
    /\ litter \in Nat
    /\ faults \in 0..MaxFailures

EditShapes ==
    /\ FileShapes
    /\ edits \in [Editors -> {Workspace!Idle} \cup Workspace!CallRecords]
    /\ \A c \in Editors : edits[c].pc # "idle" => Sound(edits[c])
    /\ used \subseteq Edits
    /\ log \in Seq(EditEntries)
    /\ IsFiniteSet(Workspace!Busy)
    /\ Len(log) + Cardinality(Workspace!Busy) <= MaxEdits

-----------------------------------------------------------------------------
(* While one caller works alone: the contents of every path, against those *)
(* of the checkpoint its effect is bound to.                               *)
Held == [p \in Paths |-> fs[p].data]
Bound(k) == k.effect.checkpoint.files
But(k, f, s) == \A p \in Paths \ s : f[p] = Bound(k)[p]
Vacant(k) == Bound(k)[k.effect.target] = Missing
Kept(k) == /\ Workspace!Named(k) /\ Bound(k)[k.effect.backup] = Missing
           /\ k.old = Bound(k)[k.effect.target] /\ k.old \in Texts
Saved(k, f) == Kept(k) /\ f[k.effect.backup] = k.old

Writes(k, f) ==
    /\ k.job = "target" /\ ~Workspace!Named(k) => f = Bound(k) /\ Vacant(k)
    /\ k.job = "target" /\ Workspace!Named(k) => But(k, f, {k.effect.backup}) /\ Saved(k, f)
    /\ k.job \in {"backup", "rewrite"} => f = Bound(k) /\ Kept(k)
    /\ k.job = "undo" => But(k, f, {k.effect.backup, k.effect.target}) /\ Saved(k, f)

Wrote(k, f) ==
    /\ k.job = "target" /\ ~Workspace!Named(k) =>
          But(k, f, {k.effect.target}) /\ Vacant(k) /\ f[k.effect.target] # Missing
    /\ k.job = "target" /\ Workspace!Named(k) =>
          But(k, f, {k.effect.backup, k.effect.target}) /\ Saved(k, f)
    /\ k.job # "target" => But(k, f, {k.effect.backup}) /\ Saved(k, f)

\* Every content of the checkpoint is somewhere.
Swapped(k, f) ==
    \/ But(k, f, {k.effect.backup, k.effect.target}) /\ Saved(k, f)
    \/ \E x \in Paths : Bound(k)[x] = Missing /\ But(k, f, {x})

Fits(k, f) ==
    /\ k.pc = "inspect" => f = Bound(k)
    /\ k.pc = "backup_free" => f = Bound(k) /\ k.old = Bound(k)[k.effect.target]
    /\ k.pc \in {"temporary", "replace"} => Writes(k, f)
    /\ k.pc = "synchronise" => Wrote(k, f)
    /\ k.pc = "stat_backup" => But(k, f, {k.effect.backup}) /\ Saved(k, f)
    /\ k.pc = "mkdir" => /\ f = Bound(k) /\ Vacant(k)
                         /\ k.removing = k.effect.target /\ k.job = "target"
    /\ k.pc = "mkdir_sync" => /\ But(k, f, {k.effect.target}) /\ Vacant(k)
                              /\ f[k.effect.target] # Missing
                              /\ k.removing = k.effect.target /\ k.job = "target"
    /\ k.pc = "move" => f = Bound(k) /\ Kept(k)
    /\ k.pc = "move_sync" => But(k, f, {k.effect.backup, k.effect.target}) /\ Saved(k, f)
    /\ k.pc = "remove" => /\ But(k, f, {k.removing}) /\ Bound(k)[k.removing] = Missing
                          /\ k.job = "undo" => Kept(k) /\ k.removing = k.effect.backup
    /\ k.pc = "remove_sync" => f = Bound(k) /\ (k.job = "undo" => Kept(k))
    /\ k.pc = "compare" => f = Bound(k)
    /\ k.pc = "after" => f # Bound(k) /\ Swapped(k, f)

\* What the workspace counts as until the call ends without having changed it.
Base(k, f) == IF k.pc \in Opening THEN f ELSE Bound(k)

\* The files of the beginning are in some file; what was applied last left its checkpoint.
Safe(f) == \A p \in Paths : Files[p] # Missing => \E q \in Paths : f[q] = Files[p]
MovedOff(f, l) ==
    \A i \in 1..Len(l) :
        l[i].code = "APPLIED" /\ (\A j \in i+1..Len(l) : l[j].code \notin Workspace!Changing)
            => f # l[i].effect.checkpoint.files

AloneHolds ==
    /\ Safe(Held)
    /\ \A c \in Editors : edits[c].pc # "idle" => MovedOff(Base(edits[c], Held), log)
    /\ \A c \in Editors : edits[c].pc \notin Opening \cup {"idle"} =>
           Safe(Bound(edits[c])) /\ Fits(edits[c], Held)
    /\ Workspace!Busy = {} => MovedOff(Held, log)
    /\ Workspace!AppliedOnce

\* An approved call past its authorisation has spent the approval, alone and before any
\* application.
Late(k) == k.pc \notin {"idle", "checkpoint", "authorize"} /\ k.effect.decision = "APPROVAL_REQUIRED"
Consumed ==
    /\ \A c \in Editors : Late(edits[c]) =>
           /\ edits[c].effect \in used
           /\ \A d \in Editors : Late(edits[d]) /\ edits[d].effect = edits[c].effect => d = c
           /\ \A i \in 1..Len(log) :
                 log[i].code = "APPLIED" => log[i].effect # edits[c].effect
    /\ \A i \in 1..Len(log) :
           log[i].code = "APPLIED" /\ log[i].effect.decision = "APPROVAL_REQUIRED"
               => log[i].effect \in used
    /\ Workspace!ApprovalAppliedOnce

ExecutorInv == EditShapes /\ Consumed /\ (Workspace!Alone => AloneHolds)

-----------------------------------------------------------------------------
(* What a step does to the call of its caller.                             *)
Stops(c, code) ==
    /\ edits' = [edits EXCEPT ![c] = Workspace!Idle]
    /\ log' = Append(log, [caller |-> c, effect |-> edits[c].effect, code |-> code])
    /\ UNCHANGED <<fs, used>>
    /\ code = "APPLIED" => edits[c].pc = "after"
    /\ code \in UndoneCodes => edits[c].pc \notin Opening
    /\ Fits(edits[c], Held) /\ code \notin Workspace!Changing => Held = Base(edits[c], Held)

Turns(c, v) ==
    /\ edits' = [edits EXCEPT ![c] = v]
    /\ v.effect = edits[c].effect /\ v.pc \notin Opening
    /\ Sound(v)
    /\ Fits(edits[c], Held) => Fits(v, Held')
    /\ UNCHANGED <<log, used>>

Outcome(c) ==
    /\ FileShapes'
    /\ \/ \E v \in Workspace!CallRecords : Turns(c, v)
       \/ \E code \in EditCodes : Stops(c, code)

LEMMA EditConstants ==
    /\ Missing \notin Texts /\ Missing \notin Paths /\ Missing \notin Editors
    /\ Workspace!Dir \notin Texts /\ Workspace!Dir # Missing
    /\ Files \in [Paths -> Texts \cup {Missing}]
    /\ MaxEdits \in Nat /\ MaxFailures \in Nat
    /\ \A e \in Edits :
          /\ e.operation \in {"WRITE_TEXT", "MAKE_DIRECTORY", "DELETE_FILE"}
          /\ e.decision \in {"ALLOW", "APPROVAL_REQUIRED", "DENY"}
          /\ e.target \in Paths /\ e.backup \in Paths \cup {Missing} /\ e.data \in Texts
          /\ e.checkpoint.files \in [Paths -> Texts \cup {Missing, Workspace!Dir}]
BY ToolsAssumption
   DEF Workspace!WorkspaceAssumption, Workspace!Operations, Workspace!Decisions

\* What the steps read of a call that runs.
LEMMA EditShape ==
    ASSUME EditShapes, NEW c \in Editors, edits[c].pc # "idle"
    PROVE  /\ edits[c] \in Workspace!CallRecords /\ Sound(edits[c])
           /\ edits[c].effect \in Edits
           /\ edits[c].effect.target \in Paths
           /\ Workspace!Named(edits[c]) => edits[c].effect.backup \in Paths
           /\ edits[c].effect.backup # edits[c].effect.target
           /\ edits[c].effect.data \in Texts
           /\ Bound(edits[c]) \in [Paths -> Texts \cup {Missing, Workspace!Dir}]
           /\ FileShapes
           /\ Held \in [Paths -> Texts \cup {Missing, Workspace!Dir}]
<1>1. edits[c] \in Workspace!CallRecords
  BY DEF EditShapes, Workspace!Idle
<1>2. Sound(edits[c]) /\ FileShapes
  BY DEF EditShapes
<1>3. edits[c].effect \in Edits
  BY <1>1 DEF Workspace!CallRecords
<1>4. Held \in [Paths -> Texts \cup {Missing, Workspace!Dir}]
  BY <1>2 DEF FileShapes, Held
<1> QED
  BY <1>1, <1>2, <1>3, <1>4, EditConstants DEF Sound, Workspace!ValidateAuthority, Workspace!Named, Bound

\* Faults are counted up to their bound.
LEMMA FaultCounted ==
    ASSUME FileShapes, NEW n \in Nat, Workspace!Fails(n)
    PROVE  faults' \in 0..MaxFailures
BY EditConstants DEF FileShapes, Workspace!Fails

LEMMA QuietFiles ==
    ASSUME FileShapes, UNCHANGED <<fs, litter>>, faults' \in 0..MaxFailures
    PROVE  FileShapes' /\ Held' = Held
BY DEF FileShapes, Held

\* A call that ends.
LEMMA StoppingSo ==
    ASSUME NEW c \in Editors, NEW code \in EditCodes, Workspace!End(c, code),
           FileShapes', UNCHANGED <<fs, used>>,
           code = "APPLIED" => edits[c].pc = "after",
           code \in UndoneCodes => edits[c].pc \notin Opening,
           Fits(edits[c], Held) /\ code \notin Workspace!Changing => Held = Base(edits[c], Held)
    PROVE  Stops(c, code)
BY DEF Stops, Workspace!End, Workspace!Effect

LEMMA Stopping ==
    ASSUME NEW c \in Editors, NEW code \in EditCodes, Workspace!End(c, code),
           FileShapes', UNCHANGED <<fs, used>>,
           code = "APPLIED" => edits[c].pc = "after",
           code \in UndoneCodes => edits[c].pc \notin Opening,
           Fits(edits[c], Held) /\ code \notin Workspace!Changing => Held = Base(edits[c], Held)
    PROVE  Outcome(c)
<1>1. Stops(c, code)
  BY StoppingSo
<1> QED BY <1>1 DEF Outcome

\* A call that goes on, in its own words.
LEMMA Turning ==
    ASSUME NEW c \in Editors, NEW v \in Workspace!CallRecords,
           edits' = [edits EXCEPT ![c] = v],
           FileShapes', UNCHANGED <<log, used>>,
           v.effect = edits[c].effect, v.pc \notin Opening,
           Sound(v), Fits(edits[c], Held) => Fits(v, Held')
    PROVE  Outcome(c)
<1>1. Turns(c, v)
  BY DEF Turns
<1> QED BY <1>1 DEF Outcome

\* The record a step leaves.
LEMMA TurnedShape ==
    ASSUME EditShapes, NEW c \in Editors, edits[c] \in Workspace!CallRecords,
           NEW pc \in Workspace!Phases
    PROVE  /\ [edits EXCEPT ![c].pc = pc] = [edits EXCEPT ![c] = [edits[c] EXCEPT !.pc = pc]]
           /\ [edits[c] EXCEPT !.pc = pc] \in Workspace!CallRecords
           /\ [edits[c] EXCEPT !.pc = pc].pc = pc
           /\ [edits[c] EXCEPT !.pc = pc].effect = edits[c].effect
           /\ [edits[c] EXCEPT !.pc = pc].job = edits[c].job
           /\ [edits[c] EXCEPT !.pc = pc].removing = edits[c].removing
           /\ [edits[c] EXCEPT !.pc = pc].old = edits[c].old
BY DEF EditShapes, Workspace!CallRecords

\* A call that only moves on to its next step.
LEMMA Going ==
    ASSUME EditShapes, NEW c \in Editors, edits[c].pc \notin Opening \cup {"idle"},
           NEW pc \in Workspace!Phases \ BeforeReading, Workspace!Goto(c, pc),
           FileShapes', UNCHANGED <<log, used>>,
           edits[c].pc = "inspect" => edits[c].old \in Texts \/ ~Workspace!Named(edits[c]),
           pc \in {"backup_free", "move", "move_sync", "stat_backup"} => Workspace!Named(edits[c]),
           NEW v, v = [edits[c] EXCEPT !.pc = pc],
           Fits(edits[c], Held) => Fits(v, Held')
    PROVE  Outcome(c)
<1>1. /\ edits[c] \in Workspace!CallRecords /\ Sound(edits[c])
      /\ v \in Workspace!CallRecords /\ v.pc = pc /\ v.effect = edits[c].effect
      /\ v.job = edits[c].job /\ v.removing = edits[c].removing /\ v.old = edits[c].old
      /\ edits' = [edits EXCEPT ![c] = v]
  BY EditShape, TurnedShape DEF Workspace!Goto
<1>2. Sound(v)
  BY <1>1 DEF Sound, BeforeReading, Opening, Workspace!Named
<1>3. v.pc \notin Opening
  BY <1>1 DEF BeforeReading
<1> QED BY <1>1, <1>2, <1>3, Turning

LEMMA InspectWriteOut ==
    ASSUME EditShapes, NEW c \in Editors, Workspace!InspectWrite(c)
    PROVE  Outcome(c)
<1> DEFINE k == edits[c]
           e == k.effect
           there == fs[e.target].data
<1>1. /\ k.pc = "inspect" /\ e.operation = "WRITE_TEXT"
      /\ UNCHANGED <<fs, litter, faults, used>>
  BY DEF Workspace!InspectWrite, Workspace!Quiet, Workspace!EndQuietly, Workspace!Effect
<1>2. /\ k \in Workspace!CallRecords /\ Sound(k) /\ FileShapes /\ k.job = "target"
      /\ k.removing = e.target /\ e.target \in Paths
      /\ e.mode = "REMOVE_CREATED_PATH" => ~Workspace!Named(k)
      /\ e.mode = "RESTORE_BACKUP" => Workspace!Named(k)
  BY <1>1, EditShape
     DEF Sound, BeforeReading, Workspace!ValidateAuthority, Workspace!ContractHolds, Workspace!Named
<1>3. FileShapes' /\ Held' = Held /\ Held[e.target] = there
  <2>1. faults' \in 0..MaxFailures
    BY <1>1, <1>2 DEF FileShapes
  <2> QED BY <1>1, <1>2, <2>1, QuietFiles DEF Held
<1>4. Fits(k, Held) => Held = Bound(k)
  BY <1>1 DEF Fits
<1>5. CASE there = Missing /\ e.mode = "REMOVE_CREATED_PATH" /\ Workspace!Goto(c, "temporary")
           /\ Workspace!Quiet
  <2> DEFINE v == [k EXCEPT !.pc = "temporary"]
  <2>1. v.pc = "temporary" /\ v.effect = e /\ v.job = "target"
    BY <1>2 DEF Workspace!CallRecords
  <2>2. Fits(k, Held) => Fits(v, Held')
    BY <1>2, <1>3, <1>4, <1>5, <2>1 DEF Fits, Writes, Vacant, Bound, Workspace!Named
  <2>3. "temporary" \in Workspace!Phases \ BeforeReading /\ k.pc \notin Opening \cup {"idle"}
    BY <1>1 DEF Workspace!Phases, BeforeReading, Opening
  <2> HIDE DEF v
  <2> QED BY <1>1, <1>2, <1>3, <1>5, <2>2, <2>3, Going DEF v, Workspace!Quiet
<1>6. CASE there \in Texts /\ e.mode = "RESTORE_BACKUP" /\ Workspace!Read(c, "backup_free")
           /\ Workspace!Quiet
  <2> DEFINE v == [k EXCEPT !.pc = "backup_free", !.old = there]
  <2>1. /\ edits' = [edits EXCEPT ![c] = v] /\ v \in Workspace!CallRecords
        /\ v.pc = "backup_free" /\ v.effect = e /\ v.job = "target" /\ v.old = there
    BY <1>2, <1>6 DEF Workspace!CallRecords, Workspace!Phases, Workspace!Read, Workspace!Effect, EditShapes
  <2> HIDE DEF v
  <2>2. Sound(v) /\ v.pc \notin Opening
    BY <1>2, <1>6, <2>1 DEF Sound, BeforeReading, Opening, Workspace!Named
  <2>3. Fits(k, Held) => Fits(v, Held')
    BY <1>2, <1>3, <1>4, <2>1 DEF Fits, Bound
  <2> QED BY <1>1, <1>3, <1>6, <2>1, <2>2, <2>3, Turning DEF Workspace!Quiet
<1>7. ASSUME NEW code \in {"recovery_plan_mismatch", "not_regular_file"},
             Workspace!EndQuietly(c, code)
      PROVE  Outcome(c)
  <2>1. code \in EditCodes \ (UndoneCodes \cup {"APPLIED"})
    BY DEF EditCodes, UndoneCodes
  <2>2. Fits(k, Held) => Held = Base(k, Held)
    BY <1>1, <1>4 DEF Base, Opening
  <2> QED BY <1>1, <1>3, <1>7, <2>1, <2>2, Stopping DEF Workspace!EndQuietly
<1> QED BY <1>5, <1>6, <1>7 DEF Workspace!InspectWrite, Workspace!Effect

LEMMA InspectMkdirOut ==
    ASSUME EditShapes, NEW c \in Editors, Workspace!InspectMkdir(c)
    PROVE  Outcome(c)
<1> DEFINE k == edits[c]
           e == k.effect
<1>1. /\ k.pc = "inspect" /\ e.operation = "MAKE_DIRECTORY"
      /\ UNCHANGED <<fs, litter, faults, used>>
  BY DEF Workspace!InspectMkdir, Workspace!Quiet, Workspace!EndQuietly, Workspace!Effect
<1>2. /\ k \in Workspace!CallRecords /\ Sound(k) /\ FileShapes /\ k.job = "target"
      /\ k.removing = e.target /\ e.target \in Paths /\ ~Workspace!Named(k)
  BY <1>1, EditShape
     DEF Sound, BeforeReading, Workspace!ValidateAuthority, Workspace!ContractHolds, Workspace!Named
<1>3. FileShapes' /\ Held' = Held /\ Held[e.target] = fs[e.target].data
  <2>1. faults' \in 0..MaxFailures
    BY <1>1, <1>2 DEF FileShapes
  <2> QED BY <1>1, <1>2, <2>1, QuietFiles DEF Held
<1>4. Fits(k, Held) => Held = Bound(k)
  BY <1>1 DEF Fits
<1>5. CASE fs[e.target] = Workspace!Absent /\ Workspace!Goto(c, "mkdir") /\ Workspace!Quiet
  <2> DEFINE v == [k EXCEPT !.pc = "mkdir"]
  <2>1. v.pc = "mkdir" /\ v.effect = e /\ v.job = "target" /\ v.removing = e.target
    BY <1>2 DEF Workspace!CallRecords
  <2>2. fs[e.target].data = Missing
    BY <1>5 DEF Workspace!Absent
  <2>3. Fits(k, Held) => Fits(v, Held')
    BY <1>3, <1>4, <2>1, <2>2 DEF Fits, Vacant, Bound
  <2>4. "mkdir" \in Workspace!Phases \ BeforeReading /\ k.pc \notin Opening \cup {"idle"}
    BY <1>1 DEF Workspace!Phases, BeforeReading, Opening
  <2> HIDE DEF v
  <2> QED BY <1>1, <1>2, <1>3, <1>5, <2>3, <2>4, Going DEF v, Workspace!Quiet
<1>6. CASE Workspace!EndQuietly(c, "path_already_exists")
  <2>1. "path_already_exists" \in EditCodes \ (UndoneCodes \cup {"APPLIED"})
    BY DEF EditCodes, UndoneCodes
  <2>2. Fits(k, Held) => Held = Base(k, Held)
    BY <1>1, <1>4 DEF Base, Opening
  <2> QED BY <1>1, <1>3, <1>6, <2>1, <2>2, Stopping DEF Workspace!EndQuietly
<1> QED BY <1>5, <1>6 DEF Workspace!InspectMkdir, Workspace!Effect

LEMMA InspectDeleteOut ==
    ASSUME EditShapes, NEW c \in Editors, Workspace!InspectDelete(c)
    PROVE  Outcome(c)
<1> DEFINE k == edits[c]
           e == k.effect
           there == fs[e.target].data
<1>1. /\ k.pc = "inspect" /\ e.operation = "DELETE_FILE"
      /\ UNCHANGED <<fs, litter, faults, used>>
  BY DEF Workspace!InspectDelete, Workspace!Quiet, Workspace!EndQuietly, Workspace!Effect
<1>2. /\ k \in Workspace!CallRecords /\ Sound(k) /\ FileShapes /\ k.job = "target"
      /\ k.removing = e.target /\ e.target \in Paths /\ Workspace!Named(k)
  BY <1>1, EditShape
     DEF Sound, BeforeReading, Workspace!ValidateAuthority, Workspace!ContractHolds, Workspace!Named
<1>3. FileShapes' /\ Held' = Held /\ Held[e.target] = there
  <2>1. faults' \in 0..MaxFailures
    BY <1>1, <1>2 DEF FileShapes
  <2> QED BY <1>1, <1>2, <2>1, QuietFiles DEF Held
<1>4. Fits(k, Held) => Held = Bound(k)
  BY <1>1 DEF Fits
<1>5. CASE there \in Texts /\ Workspace!Read(c, "backup_free") /\ Workspace!Quiet
  <2> DEFINE v == [k EXCEPT !.pc = "backup_free", !.old = there]
  <2>1. /\ edits' = [edits EXCEPT ![c] = v] /\ v \in Workspace!CallRecords
        /\ v.pc = "backup_free" /\ v.effect = e /\ v.job = "target" /\ v.old = there
    BY <1>2, <1>5 DEF Workspace!CallRecords, Workspace!Phases, Workspace!Read, Workspace!Effect, EditShapes
  <2> HIDE DEF v
  <2>2. Sound(v) /\ v.pc \notin Opening
    BY <1>2, <1>5, <2>1 DEF Sound, BeforeReading, Opening, Workspace!Named
  <2>3. Fits(k, Held) => Fits(v, Held')
    BY <1>2, <1>3, <1>4, <2>1 DEF Fits, Bound
  <2> QED BY <1>1, <1>3, <1>5, <2>1, <2>2, <2>3, Turning DEF Workspace!Quiet
<1>6. ASSUME NEW code \in {"path_not_found", "not_regular_file"}, Workspace!EndQuietly(c, code)
      PROVE  Outcome(c)
  <2>1. code \in EditCodes \ (UndoneCodes \cup {"APPLIED"})
    BY DEF EditCodes, UndoneCodes
  <2>2. Fits(k, Held) => Held = Base(k, Held)
    BY <1>1, <1>4 DEF Base, Opening
  <2> QED BY <1>1, <1>3, <1>6, <2>1, <2>2, Stopping DEF Workspace!EndQuietly
<1> QED BY <1>5, <1>6 DEF Workspace!InspectDelete, Workspace!Effect

LEMMA BackupFreeOut ==
    ASSUME EditShapes, NEW c \in Editors, Workspace!BackupFree(c)
    PROVE  Outcome(c)
<1> DEFINE k == edits[c]
           e == k.effect
           pc == IF e.operation = "WRITE_TEXT" THEN "temporary" ELSE "move"
           v == [k EXCEPT !.pc = pc, !.job = "backup"]
<1>1. k.pc = "backup_free" /\ UNCHANGED <<fs, litter, faults, used>>
  BY DEF Workspace!BackupFree, Workspace!Quiet, Workspace!EndQuietly, Workspace!Effect
<1>2. /\ k \in Workspace!CallRecords /\ Sound(k) /\ FileShapes
      /\ Workspace!Named(k) /\ e.backup \in Paths /\ k.old \in Texts
  BY <1>1, EditShape DEF Sound, BeforeReading, Opening
<1>3. FileShapes' /\ Held' = Held /\ Held[e.backup] = fs[e.backup].data
  <2>1. faults' \in 0..MaxFailures
    BY <1>1, <1>2 DEF FileShapes
  <2> QED BY <1>1, <1>2, <2>1, QuietFiles DEF Held
<1>4. Fits(k, Held) => Held = Bound(k) /\ k.old = Bound(k)[e.target]
  BY <1>1 DEF Fits
<1>5. CASE fs[e.backup] = Workspace!Absent /\ edits' = [edits EXCEPT ![c].pc = pc, ![c].job = "backup"]
           /\ Workspace!Quiet
  <2>1. /\ edits' = [edits EXCEPT ![c] = v] /\ v \in Workspace!CallRecords
        /\ v.pc = pc /\ v.effect = e /\ v.job = "backup" /\ v.old = k.old
    BY <1>2, <1>5 DEF Workspace!CallRecords, Workspace!Phases, EditShapes
  <2>2. pc \in {"temporary", "move"}
    OBVIOUS
  <2> HIDE DEF v, pc
  <2>3. Sound(v) /\ v.pc \notin Opening
    BY <1>2, <2>1, <2>2 DEF Sound, BeforeReading, Opening, Workspace!Named
  <2>4. fs[e.backup].data = Missing
    BY <1>5 DEF Workspace!Absent
  <2>5. Fits(k, Held) => Held' = Bound(v) /\ Kept(v)
    BY <1>2, <1>3, <1>4, <2>1, <2>4 DEF Kept, Bound, Workspace!Named
  <2>6. Fits(k, Held) => Fits(v, Held')
    BY <2>1, <2>2, <2>5 DEF Fits, Writes
  <2> QED BY <1>1, <1>3, <1>5, <2>1, <2>3, <2>6, Turning DEF Workspace!Quiet
<1>6. CASE Workspace!EndQuietly(c, "recovery_backup_exists")
  <2>1. "recovery_backup_exists" \in EditCodes \ (UndoneCodes \cup {"APPLIED"})
    BY DEF EditCodes, UndoneCodes
  <2>2. Fits(k, Held) => Held = Base(k, Held)
    BY <1>1, <1>4 DEF Base, Opening
  <2> QED BY <1>1, <1>3, <1>6, <2>1, <2>2, Stopping DEF Workspace!EndQuietly
<1> QED BY <1>5, <1>6 DEF Workspace!BackupFree, Workspace!Effect

\* Whether the system call fails or not, faults stay within their bound.
LEMMA FaultBound ==
    ASSUME FileShapes, Workspace!Works \/ Workspace!Fails(1) \/ Workspace!Fails(2)
    PROVE  faults' \in 0..MaxFailures
BY FaultCounted DEF FileShapes, Workspace!Works

\* The effect and the backup of a call that writes.
LEMMA Writing ==
    ASSUME EditShapes, NEW c \in Editors,
           edits[c].pc \in {"temporary", "replace", "synchronise", "stat_backup", "move", "move_sync"}
    PROVE  /\ edits[c] \in Workspace!CallRecords /\ Sound(edits[c]) /\ FileShapes
           /\ edits[c].job \in {"backup", "target", "undo", "rewrite"}
           /\ edits[c].pc \notin BeforeReading /\ edits[c].pc \notin Opening
           /\ Workspace!Named(edits[c]) => edits[c].old \in Texts /\ edits[c].effect.backup \in Paths
           /\ edits[c].job # "target" => Workspace!Named(edits[c])
           /\ edits[c].pc \in {"stat_backup", "move", "move_sync"} => Workspace!Named(edits[c])
           /\ edits[c].effect.target \in Paths
           /\ edits[c].effect.target # edits[c].effect.backup
           /\ edits[c].effect.data \in Texts
           /\ Bound(edits[c]) \in [Paths -> Texts \cup {Missing, Workspace!Dir}]
           /\ Held \in [Paths -> Texts \cup {Missing, Workspace!Dir}]
BY EditShape DEF Sound, BeforeReading, Opening, Workspace!CallRecords

\* A call that goes on to remove what it made.
LEMMA Removing ==
    ASSUME EditShapes, NEW c \in Editors,
           edits[c].pc \in {"temporary", "replace", "synchronise"},
           NEW path \in Paths,
           edits' = [edits EXCEPT ![c].pc = "remove", ![c].removing = path],
           FileShapes', UNCHANGED <<fs, log, used>>,
           Fits(edits[c], Held) =>
               /\ But(edits[c], Held, {path}) /\ Bound(edits[c])[path] = Missing
               /\ edits[c].job = "undo" => Kept(edits[c]) /\ path = edits[c].effect.backup
    PROVE  Outcome(c)
<1> DEFINE k == edits[c]
           v == [k EXCEPT !.pc = "remove", !.removing = path]
<1>1. k \in Workspace!CallRecords /\ Sound(k) /\ k.pc \notin BeforeReading
  BY Writing
<1>2. /\ edits' = [edits EXCEPT ![c] = v] /\ v \in Workspace!CallRecords
      /\ v.pc = "remove" /\ v.effect = k.effect /\ v.job = k.job /\ v.old = k.old
      /\ v.removing = path
  BY <1>1 DEF Workspace!CallRecords, Workspace!Phases, EditShapes
<1> HIDE DEF v
<1>3. Sound(v) /\ v.pc \notin Opening
  BY <1>1, <1>2 DEF Sound, BeforeReading, Opening, Workspace!Named
<1>4. Held' = Held
  BY DEF Held
<1>5. Fits(k, Held) => Fits(v, Held')
  BY <1>2, <1>4 DEF Fits, But, Bound, Kept, Workspace!Named
<1> QED BY <1>2, <1>3, <1>5, Turning

LEMMA NotAppliedOut ==
    ASSUME EditShapes, NEW c \in Editors, edits[c].pc \in {"temporary", "replace"},
           Workspace!NotApplied(c), FileShapes', UNCHANGED <<fs, used>>
    PROVE  Outcome(c)
<1> DEFINE k == edits[c]
<1>1. Fits(k, Held) => Writes(k, Held)
  BY DEF Fits
<1>2. CASE k.job = "target" /\ Workspace!Named(k)
  <2>1. /\ edits' = [edits EXCEPT ![c].pc = "remove", ![c].removing = k.effect.backup]
        /\ UNCHANGED log
    BY <1>2 DEF Workspace!NotApplied
  <2>2. k.effect.backup \in Paths
    BY <1>2, Writing
  <2>3. Fits(k, Held) => /\ But(k, Held, {k.effect.backup})
                         /\ Bound(k)[k.effect.backup] = Missing
    BY <1>1, <1>2 DEF Writes, Saved, Kept
  <2>4. k.job # "undo"
    BY <1>2
  <2> HIDE DEF k
  <2> QED BY <2>1, <2>2, <2>3, <2>4, Removing DEF k
<1>3. CASE k.job = "backup" \/ (k.job = "target" /\ ~Workspace!Named(k))
  <2>1. Workspace!End(c, "atomic_write_failed") /\ "atomic_write_failed" \in EditCodes
    BY <1>3 DEF Workspace!NotApplied, EditCodes
  <2>2. Fits(k, Held) => Held = Base(k, Held)
    BY <1>1, <1>3 DEF Writes, Base, Opening
  <2>3. k.pc \notin Opening
    BY DEF Opening
  <2> HIDE DEF k
  <2> QED BY <2>1, <2>2, <2>3, Stopping DEF k
<1>4. CASE k.job \in {"undo", "rewrite"}
  <2>1. Workspace!End(c, "partial_effect") /\ "partial_effect" \in EditCodes \ UndoneCodes
    BY <1>4 DEF Workspace!NotApplied, EditCodes, UndoneCodes
  <2> QED BY <2>1, Stopping DEF Workspace!Changing
<1> QED BY <1>2, <1>3, <1>4, Writing

LEMMA WriteTemporaryOut ==
    ASSUME EditShapes, NEW c \in Editors, Workspace!WriteTemporary(c)
    PROVE  Outcome(c)
<1> DEFINE k == edits[c]
<1>1. k.pc = "temporary" /\ UNCHANGED <<fs, used>> /\ FileShapes
  BY DEF Workspace!WriteTemporary, EditShapes
<1>2. faults' \in 0..MaxFailures /\ litter' \in Nat
  BY <1>1, FaultBound DEF Workspace!WriteTemporary, FileShapes
<1>3. FileShapes' /\ Held' = Held
  BY <1>1, <1>2 DEF FileShapes, Held
<1>4. CASE Workspace!Goto(c, "replace") /\ UNCHANGED log
  <2> DEFINE v == [k EXCEPT !.pc = "replace"]
  <2>1. /\ v.pc = "replace" /\ v.effect = k.effect /\ v.job = k.job /\ v.old = k.old
    BY <1>1, Writing DEF Workspace!CallRecords
  <2>2. Fits(k, Held) => Fits(v, Held')
    BY <1>1, <1>3, <2>1 DEF Fits, Writes, But, Saved, Kept, Vacant, Bound, Workspace!Named
  <2>3. "replace" \in Workspace!Phases \ BeforeReading /\ k.pc \notin Opening \cup {"idle"}
    BY <1>1 DEF Workspace!Phases, BeforeReading, Opening
  <2> HIDE DEF v
  <2> QED BY <1>1, <1>3, <1>4, <2>2, <2>3, Going DEF v
<1>5. CASE Workspace!NotApplied(c)
  BY <1>1, <1>3, <1>5, NotAppliedOut
<1> QED BY <1>4, <1>5 DEF Workspace!WriteTemporary

LEMMA ReplaceOut ==
    ASSUME EditShapes, NEW c \in Editors, Workspace!Replace(c)
    PROVE  Outcome(c)
<1> DEFINE k == edits[c]
           e == k.effect
           to == Workspace!WritePath(k)
           bytes == Workspace!WriteData(k)
<1>1. k.pc = "replace" /\ UNCHANGED used /\ FileShapes
  BY DEF Workspace!Replace, EditShapes
<1>2. faults' \in 0..MaxFailures /\ litter' \in Nat
  BY <1>1, FaultBound DEF Workspace!Replace, FileShapes
<1>3. CASE /\ fs' = [fs EXCEPT ![to] = [data |-> bytes, inode |-> c]]
           /\ Workspace!Goto(c, "synchronise") /\ UNCHANGED log
  <2> DEFINE v == [k EXCEPT !.pc = "synchronise"]
  <2>1. /\ v.pc = "synchronise" /\ v.effect = e /\ v.job = k.job /\ v.old = k.old
    BY <1>1, Writing DEF Workspace!CallRecords
  <2>2. to \in Paths /\ bytes \in Texts
    BY <1>1, Writing DEF Workspace!WritePath, Workspace!WriteData
  <2>3. fs' \in [Paths -> [data : Texts \cup {Workspace!Dir, Missing}, inode : Editors \cup {Missing}]]
    BY <1>1, <1>3, <2>2 DEF FileShapes
  <2>4. \A p \in Paths : fs'[p].data = Missing => fs'[p].inode = Missing
    BY <1>1, <1>3, <2>2, EditConstants DEF FileShapes
  <2>5. FileShapes'
    BY <1>2, <2>3, <2>4 DEF FileShapes
  <2>6. Held' = [Held EXCEPT ![to] = bytes]
    BY <1>1, <1>3, <2>2 DEF Held, FileShapes
  <2>7. ASSUME Fits(k, Held) PROVE Fits(v, Held')
    <3>1. Writes(k, Held)
      BY <1>1, <2>7 DEF Fits
    <3>2. bytes # Missing
      BY <2>2, EditConstants
    <3>3. /\ e.target \in Paths /\ e.target # e.backup
          /\ Workspace!Named(k) => e.backup \in Paths
          /\ k.job # "target" => Workspace!Named(k)
          /\ k.job \in {"backup", "target", "undo", "rewrite"}
          /\ Held \in [Paths -> Texts \cup {Missing, Workspace!Dir}]
      BY <1>1, Writing
    <3>4. CASE k.job = "target" /\ ~Workspace!Named(k)
      <4>1. to = e.target /\ Held = Bound(k) /\ Vacant(k)
        BY <3>1, <3>4 DEF Workspace!WritePath, Writes
      <4>2. But(k, Held', {e.target}) /\ Held'[e.target] # Missing
        BY <2>6, <3>2, <3>3, <4>1 DEF But
      <4>3. Wrote(k, Held')
        BY <3>4, <4>1, <4>2 DEF Wrote
      <4> QED BY <2>1, <4>3 DEF Fits, Wrote, But, Saved, Kept, Vacant, Bound, Workspace!Named
    <3>5. CASE k.job = "target" /\ Workspace!Named(k)
      <4>1. to = e.target /\ But(k, Held, {e.backup}) /\ Saved(k, Held)
        BY <3>1, <3>5 DEF Workspace!WritePath, Writes
      <4>2. But(k, Held', {e.backup, e.target}) /\ Saved(k, Held')
        BY <2>6, <3>3, <3>5, <4>1 DEF But, Saved
      <4>3. Wrote(k, Held')
        BY <3>5, <4>2 DEF Wrote
      <4> QED BY <2>1, <4>3 DEF Fits, Wrote, But, Saved, Kept, Vacant, Bound, Workspace!Named
    <3>6. CASE k.job \in {"backup", "rewrite"}
      <4>1. to = e.backup /\ Held = Bound(k) /\ Kept(k) /\ bytes = k.old
        BY <3>1, <3>6 DEF Workspace!WritePath, Workspace!WriteData, Writes
      <4>2. But(k, Held', {e.backup}) /\ Saved(k, Held')
        BY <2>6, <3>3, <3>6, <4>1 DEF But, Saved
      <4>3. Wrote(k, Held')
        BY <3>6, <4>2 DEF Wrote
      <4> QED BY <2>1, <4>3 DEF Fits, Wrote, But, Saved, Kept, Vacant, Bound, Workspace!Named
    <3>7. CASE k.job = "undo"
      <4>1. /\ to = e.target /\ bytes = k.old
            /\ But(k, Held, {e.backup, e.target}) /\ Saved(k, Held)
        BY <3>1, <3>7 DEF Workspace!WritePath, Workspace!WriteData, Writes
      <4>2. But(k, Held', {e.backup})
        BY <2>6, <3>3, <4>1 DEF But, Saved, Kept
      <4>3. Saved(k, Held')
        BY <2>6, <3>3, <3>7, <4>1 DEF Saved
      <4>4. Wrote(k, Held')
        BY <3>7, <4>2, <4>3 DEF Wrote
      <4> QED BY <2>1, <4>4 DEF Fits, Wrote, But, Saved, Kept, Vacant, Bound, Workspace!Named
    <3> QED BY <3>3, <3>4, <3>5, <3>6, <3>7
  <2>8. "synchronise" \in Workspace!Phases \ BeforeReading /\ k.pc \notin Opening \cup {"idle"}
    BY <1>1 DEF Workspace!Phases, BeforeReading, Opening
  <2> HIDE DEF v
  <2> QED BY <1>1, <1>3, <2>5, <2>7, <2>8, Going DEF v
<1>4. CASE Workspace!NotApplied(c) /\ UNCHANGED fs
  <2>1. FileShapes'
    BY <1>1, <1>2, <1>4 DEF FileShapes
  <2> QED BY <1>1, <1>4, <2>1, NotAppliedOut
<1> QED BY <1>3, <1>4 DEF Workspace!Replace

\* A call that goes on with another write.
LEMMA WritingNext ==
    ASSUME EditShapes, NEW c \in Editors,
           edits[c].pc \in {"synchronise", "move_sync"}, Workspace!Named(edits[c]),
           edits' = [edits EXCEPT ![c].pc = "temporary", ![c].job = "undo"],
           FileShapes', UNCHANGED <<fs, log, used>>,
           Fits(edits[c], Held) =>
               /\ But(edits[c], Held, {edits[c].effect.backup, edits[c].effect.target})
               /\ Saved(edits[c], Held)
    PROVE  Outcome(c)
<1> DEFINE k == edits[c]
           v == [k EXCEPT !.pc = "temporary", !.job = "undo"]
<1>1. k \in Workspace!CallRecords /\ Sound(k) /\ k.old \in Texts
  BY Writing
<1>2. /\ edits' = [edits EXCEPT ![c] = v] /\ v \in Workspace!CallRecords
      /\ v.pc = "temporary" /\ v.effect = k.effect /\ v.job = "undo" /\ v.old = k.old
  BY <1>1 DEF Workspace!CallRecords, Workspace!Phases, EditShapes
<1> HIDE DEF v
<1>3. Sound(v) /\ v.pc \notin Opening
  BY <1>1, <1>2 DEF Sound, BeforeReading, Opening, Workspace!Named
<1>4. Held' = Held
  BY DEF Held
<1>5. Fits(k, Held) => Fits(v, Held')
  BY <1>2, <1>4 DEF Fits, Writes, But, Bound, Saved, Kept, Workspace!Named
<1> QED BY <1>2, <1>3, <1>5, Turning

LEMMA AppliedOut ==
    ASSUME EditShapes, NEW c \in Editors, edits[c].pc = "synchronise",
           Workspace!Applied(c), FileShapes', UNCHANGED <<fs, used>>
    PROVE  Outcome(c)
<1> DEFINE k == edits[c]
<1>1. Fits(k, Held) => Wrote(k, Held)
  BY DEF Fits
<1>2. CASE k.job = "target" /\ Workspace!Named(k)
  <2>1. /\ edits' = [edits EXCEPT ![c].pc = "temporary", ![c].job = "undo"]
        /\ UNCHANGED log
    BY <1>2 DEF Workspace!Applied
  <2>2. Fits(k, Held) => /\ But(k, Held, {k.effect.backup, k.effect.target})
                         /\ Saved(k, Held)
    BY <1>1, <1>2 DEF Wrote
  <2>3. Workspace!Named(k)
    BY <1>2
  <2> HIDE DEF k
  <2> QED BY <2>1, <2>2, <2>3, WritingNext DEF k
<1>3. CASE k.job = "backup" \/ (k.job = "target" /\ ~Workspace!Named(k))
  <2> DEFINE path == Workspace!WritePath(k)
  <2>1. /\ edits' = [edits EXCEPT ![c].pc = "remove", ![c].removing = path]
        /\ UNCHANGED log
    BY <1>3 DEF Workspace!Applied
  <2>2. path \in Paths /\ k.job # "undo"
    BY <1>3, Writing DEF Workspace!WritePath
  <2>3. Fits(k, Held) => But(k, Held, {path}) /\ Bound(k)[path] = Missing
    BY <1>1, <1>3 DEF Wrote, Saved, Kept, Vacant, Workspace!WritePath
  <2> HIDE DEF k, path
  <2> QED BY <2>1, <2>2, <2>3, Removing DEF k
<1>4. CASE k.job \in {"undo", "rewrite"}
  <2>1. Workspace!End(c, "partial_effect") /\ "partial_effect" \in EditCodes \ UndoneCodes
    BY <1>4 DEF Workspace!Applied, EditCodes, UndoneCodes
  <2> QED BY <2>1, Stopping DEF Workspace!Changing
<1> QED BY <1>2, <1>3, <1>4, Writing

\* What was written differs from the checkpoint.
LEMMA WroteDiffers ==
    ASSUME NEW k, NEW f, Wrote(k, f), k.job = "target", k.effect.target \in Paths
    PROVE  f # Bound(k) /\ Swapped(k, f)
<1>1. CASE Workspace!Named(k)
  BY <1>1, EditConstants DEF Wrote, Swapped, Saved, Kept
<1>2. CASE ~Workspace!Named(k)
  BY <1>2 DEF Wrote, Swapped, Vacant
<1> QED BY <1>1, <1>2

LEMMA SynchroniseOut ==
    ASSUME EditShapes, NEW c \in Editors, Workspace!Synchronise(c)
    PROVE  Outcome(c)
<1> DEFINE k == edits[c]
<1>1. k.pc = "synchronise" /\ UNCHANGED <<fs, litter, used>> /\ FileShapes
  BY DEF Workspace!Synchronise, EditShapes
<1>2. FileShapes' /\ Held' = Held
  <2>1. faults' \in 0..MaxFailures
    BY <1>1, FaultBound DEF Workspace!Synchronise
  <2> QED BY <1>1, <2>1, QuietFiles
<1>3. Fits(k, Held) => Wrote(k, Held)
  BY <1>1 DEF Fits
<1>4. /\ k \in Workspace!CallRecords /\ k.effect.target \in Paths
      /\ k.job \in {"backup", "target", "undo", "rewrite"}
      /\ k.job # "target" => Workspace!Named(k) /\ k.effect.backup \in Paths
      /\ k.pc \notin Opening \cup {"idle", "inspect"}
  BY <1>1, Writing DEF Opening
<1>5. CASE Workspace!Applied(c)
  BY <1>1, <1>2, <1>5, AppliedOut
<1>6. CASE Workspace!Written(c) /\ k.job = "backup"
  <2> DEFINE v == [k EXCEPT !.pc = "stat_backup"]
  <2>1. v.pc = "stat_backup" /\ v.effect = k.effect /\ v.old = k.old
    BY <1>4 DEF Workspace!CallRecords
  <2>2. Fits(k, Held) => Fits(v, Held')
    BY <1>2, <1>3, <1>6, <2>1 DEF Fits, Wrote, But, Saved, Kept, Bound, Workspace!Named
  <2>3. "stat_backup" \in Workspace!Phases \ BeforeReading
    BY DEF Workspace!Phases, BeforeReading, Opening
  <2>4. Workspace!Goto(c, "stat_backup") /\ UNCHANGED log
    BY <1>6 DEF Workspace!Written
  <2> HIDE DEF v
  <2> QED BY <1>1, <1>2, <1>4, <1>6, <2>2, <2>3, <2>4, Going DEF v
<1>7. CASE Workspace!Written(c) /\ k.job = "target"
  <2> DEFINE v == [k EXCEPT !.pc = "after"]
  <2>1. v.pc = "after" /\ v.effect = k.effect /\ v.old = k.old
    BY <1>4 DEF Workspace!CallRecords
  <2>2. ASSUME Fits(k, Held) PROVE Fits(v, Held')
    <3>1. Held # Bound(k) /\ Swapped(k, Held)
      BY <1>3, <1>4, <1>7, <2>2, WroteDiffers
    <3> QED BY <1>2, <2>1, <3>1 DEF Fits, Swapped, But, Saved, Kept, Bound, Workspace!Named
  <2>3. "after" \in Workspace!Phases \ BeforeReading
    BY DEF Workspace!Phases, BeforeReading, Opening
  <2>4. Workspace!Goto(c, "after") /\ UNCHANGED log
    BY <1>7 DEF Workspace!Written
  <2> HIDE DEF v
  <2> QED BY <1>1, <1>2, <1>4, <1>7, <2>2, <2>3, <2>4, Going DEF v
<1>8. CASE Workspace!Written(c) /\ k.job = "undo"
  <2>1. /\ edits' = [edits EXCEPT ![c].pc = "remove", ![c].removing = k.effect.backup]
        /\ UNCHANGED log
    BY <1>8 DEF Workspace!Written
  <2>2. Fits(k, Held) => /\ But(k, Held, {k.effect.backup}) /\ Kept(k)
                         /\ Bound(k)[k.effect.backup] = Missing
    BY <1>3, <1>8 DEF Wrote, Saved, Kept
  <2>3. k.effect.backup \in Paths
    BY <1>4, <1>8
  <2> HIDE DEF k
  <2> QED BY <1>1, <1>2, <2>1, <2>2, <2>3, Removing DEF k
<1>9. CASE Workspace!Written(c) /\ k.job = "rewrite"
  <2>1. Workspace!End(c, "partial_effect") /\ "partial_effect" \in EditCodes \ UndoneCodes
    BY <1>9 DEF Workspace!Written, EditCodes, UndoneCodes
  <2> QED BY <1>1, <1>2, <2>1, Stopping DEF Workspace!Changing
<1> QED BY <1>4, <1>5, <1>6, <1>7, <1>8, <1>9 DEF Workspace!Synchronise

LEMMA StatBackupOut ==
    ASSUME EditShapes, NEW c \in Editors, Workspace!StatBackup(c)
    PROVE  Outcome(c)
<1> DEFINE k == edits[c]
           e == k.effect
<1>1. k.pc = "stat_backup" /\ UNCHANGED <<fs, litter, used, faults>> /\ FileShapes
  BY DEF Workspace!StatBackup, Workspace!Quiet, Workspace!EndQuietly, EditShapes
<1>2. FileShapes' /\ Held' = Held
  <2>1. faults' \in 0..MaxFailures
    BY <1>1 DEF FileShapes
  <2> QED BY <1>1, <2>1, QuietFiles
<1>3. /\ k \in Workspace!CallRecords /\ Sound(k) /\ Workspace!Named(k) /\ e.backup \in Paths
      /\ k.old \in Texts /\ fs[e.backup].inode \in Editors \cup {Missing}
  BY <1>1, Writing DEF FileShapes
<1>4. Fits(k, Held) => But(k, Held, {e.backup}) /\ Saved(k, Held)
  BY <1>1 DEF Fits
<1>5. CASE /\ fs[e.backup].data \in Texts
           /\ edits' = [edits EXCEPT ![c].pc = "temporary", ![c].job = "target",
                                     ![c].inode = fs[e.backup].inode]
           /\ Workspace!Quiet
  <2> DEFINE v == [k EXCEPT !.pc = "temporary", !.job = "target", !.inode = fs[e.backup].inode]
  <2>1. /\ edits' = [edits EXCEPT ![c] = v] /\ v \in Workspace!CallRecords
        /\ v.pc = "temporary" /\ v.effect = e /\ v.job = "target" /\ v.old = k.old
    BY <1>3, <1>5 DEF Workspace!CallRecords, Workspace!Phases, EditShapes
  <2> HIDE DEF v
  <2>2. Sound(v) /\ v.pc \notin Opening
    BY <1>3, <2>1 DEF Sound, BeforeReading, Opening, Workspace!Named
  <2>3. Fits(k, Held) => Fits(v, Held')
    BY <1>2, <1>3, <1>4, <2>1 DEF Fits, Writes, But, Saved, Kept, Bound, Workspace!Named
  <2> QED BY <1>1, <1>2, <1>5, <2>1, <2>2, <2>3, Turning DEF Workspace!Quiet
<1>6. CASE fs[e.backup].data \notin Texts /\ Workspace!EndQuietly(c, "filesystem_race_detected")
  <2>1. "filesystem_race_detected" \in EditCodes \ (UndoneCodes \cup {"APPLIED"})
    BY DEF EditCodes, UndoneCodes
  <2>2. ~Fits(k, Held)
    BY <1>3, <1>4, <1>6 DEF Saved, Held
  <2> QED BY <1>1, <1>2, <1>6, <2>1, <2>2, Stopping DEF Workspace!EndQuietly
<1> QED BY <1>5, <1>6 DEF Workspace!StatBackup, Workspace!Effect

LEMMA InspectionFailsOut ==
    ASSUME EditShapes, NEW c \in Editors, Workspace!InspectionFails(c)
    PROVE  FileShapes' /\ \E code \in EditCodes \ {"APPLIED"} : Stops(c, code)
<1>1. UNCHANGED <<fs, litter, used>> /\ FileShapes /\ Workspace!End(c, "inspection_failed")
  BY DEF Workspace!InspectionFails, EditShapes
<1>2. FileShapes'
  BY <1>1, FaultBound, QuietFiles DEF Workspace!InspectionFails
<1>3. "inspection_failed" \in EditCodes \ (UndoneCodes \cup {"APPLIED"})
  BY DEF EditCodes, UndoneCodes
<1> QED BY <1>1, <1>2, <1>3, StoppingSo DEF Workspace!Changing

LEMMA CrashOut ==
    ASSUME EditShapes, NEW c \in Editors, Workspace!Crash(c)
    PROVE  FileShapes' /\ \E code \in EditCodes \ {"APPLIED"} : Stops(c, code)
<1>1. UNCHANGED <<fs, used>> /\ FileShapes /\ Workspace!End(c, "crashed")
  BY DEF Workspace!Crash, EditShapes
<1>2. faults' \in 0..MaxFailures /\ litter' \in Nat
  BY <1>1, FaultBound DEF Workspace!Crash, FileShapes
<1>3. FileShapes'
  BY <1>1, <1>2 DEF FileShapes
<1>4. "crashed" \in EditCodes \ (UndoneCodes \cup {"APPLIED"})
  BY DEF EditCodes, UndoneCodes
<1> QED BY <1>1, <1>3, <1>4, StoppingSo DEF Workspace!Changing

LEMMA MkdirOut ==
    ASSUME EditShapes, NEW c \in Editors, Workspace!Mkdir(c)
    PROVE  Outcome(c)
<1> DEFINE k == edits[c]
           e == k.effect
<1>1. k.pc = "mkdir" /\ UNCHANGED <<litter, used>> /\ FileShapes
  BY DEF Workspace!Mkdir, EditShapes
<1>2. faults' \in 0..MaxFailures
  BY <1>1, FaultBound DEF Workspace!Mkdir
<1>3. /\ k \in Workspace!CallRecords /\ Sound(k) /\ e.target \in Paths
      /\ Held \in [Paths -> Texts \cup {Missing, Workspace!Dir}]
  BY <1>1, EditShape
<1>4. Fits(k, Held) => /\ Held = Bound(k) /\ Vacant(k)
                       /\ k.removing = e.target /\ k.job = "target"
  BY <1>1 DEF Fits
<1>5. CASE /\ fs' = [fs EXCEPT ![e.target] = [data |-> Workspace!Dir, inode |-> c]]
           /\ Workspace!Goto(c, "mkdir_sync") /\ UNCHANGED log
  <2> DEFINE v == [k EXCEPT !.pc = "mkdir_sync"]
  <2>1. FileShapes'
    <3>1. fs' \in [Paths -> [data : Texts \cup {Workspace!Dir, Missing}, inode : Editors \cup {Missing}]]
      BY <1>1, <1>3, <1>5 DEF FileShapes
    <3>2. \A p \in Paths : fs'[p].data = Missing => fs'[p].inode = Missing
      BY <1>1, <1>3, <1>5, EditConstants DEF FileShapes
    <3> QED BY <1>1, <1>2, <3>1, <3>2 DEF FileShapes
  <2>2. Held' = [Held EXCEPT ![e.target] = Workspace!Dir]
    BY <1>1, <1>3, <1>5 DEF Held, FileShapes
  <2>3. /\ v.pc = "mkdir_sync" /\ v.effect = e /\ v.job = k.job /\ v.removing = k.removing
    BY <1>3 DEF Workspace!CallRecords
  <2>4. ASSUME Fits(k, Held) PROVE Fits(v, Held')
    <3>1. But(k, Held', {e.target}) /\ Held'[e.target] # Missing
      BY <1>3, <1>4, <2>2, <2>4, EditConstants DEF But
    <3> QED BY <1>4, <2>3, <2>4, <3>1 DEF Fits, But, Vacant, Bound
  <2>5. "mkdir_sync" \in Workspace!Phases \ BeforeReading /\ k.pc \notin Opening \cup {"idle", "inspect"}
    BY <1>1 DEF Workspace!Phases, BeforeReading, Opening
  <2> HIDE DEF v
  <2> QED BY <1>1, <1>5, <2>1, <2>4, <2>5, Going DEF v
<1>6. CASE Workspace!End(c, "directory_create_failed") /\ UNCHANGED fs
  <2>1. "directory_create_failed" \in EditCodes /\ k.pc \notin Opening
    BY <1>1 DEF EditCodes, Opening
  <2>2. FileShapes'
    BY <1>1, <1>2, <1>6, QuietFiles
  <2>3. Fits(k, Held) => Held = Base(k, Held)
    BY <1>4, <2>1 DEF Base
  <2> QED BY <1>1, <1>6, <2>1, <2>2, <2>3, Stopping
<1> QED BY <1>5, <1>6 DEF Workspace!Mkdir, Workspace!Effect

LEMMA MkdirSyncOut ==
    ASSUME EditShapes, NEW c \in Editors, Workspace!MkdirSync(c)
    PROVE  Outcome(c)
<1> DEFINE k == edits[c]
           e == k.effect
<1>1. k.pc = "mkdir_sync" /\ UNCHANGED <<fs, litter, used, log>> /\ FileShapes
  BY DEF Workspace!MkdirSync, EditShapes
<1>2. FileShapes' /\ Held' = Held
  <2>1. faults' \in 0..MaxFailures
    BY <1>1, FaultBound DEF Workspace!MkdirSync
  <2> QED BY <1>1, <2>1, QuietFiles
<1>3. k \in Workspace!CallRecords /\ Sound(k) /\ e.target \in Paths
  BY <1>1, EditShape
<1>4. Fits(k, Held) => /\ But(k, Held, {e.target}) /\ Vacant(k) /\ Held[e.target] # Missing
                       /\ k.removing = e.target /\ k.job = "target"
  BY <1>1 DEF Fits
<1>5. ASSUME NEW pc \in {"after", "remove"}, Workspace!Goto(c, pc)
      PROVE  Outcome(c)
  <2> DEFINE v == [k EXCEPT !.pc = pc]
  <2>1. v.pc = pc /\ v.effect = e /\ v.job = k.job /\ v.removing = k.removing
    BY <1>3 DEF Workspace!CallRecords
  <2>2. ASSUME Fits(k, Held) PROVE Fits(v, Held')
    <3>1. Held # Bound(v) /\ Bound(v)[e.target] = Missing /\ But(v, Held, {e.target})
      BY <1>4, <2>1, <2>2 DEF Vacant, But, Bound
    <3>2. Swapped(v, Held)
      BY <1>3, <3>1 DEF Swapped
    <3> QED BY <1>2, <1>4, <2>1, <2>2, <3>1, <3>2 DEF Fits
  <2>3. pc \in Workspace!Phases \ BeforeReading /\ k.pc \notin Opening \cup {"idle", "inspect"}
    BY <1>1 DEF Workspace!Phases, BeforeReading, Opening
  <2> HIDE DEF v
  <2> QED BY <1>1, <1>2, <1>5, <2>2, <2>3, Going DEF v
<1> QED BY <1>5 DEF Workspace!MkdirSync

LEMMA MoveOut ==
    ASSUME EditShapes, NEW c \in Editors, Workspace!Move(c)
    PROVE  Outcome(c)
<1> DEFINE k == edits[c]
           e == k.effect
<1>1. k.pc = "move" /\ UNCHANGED <<litter, used>> /\ FileShapes
  BY DEF Workspace!Move, EditShapes
<1>2. faults' \in 0..MaxFailures
  BY <1>1, FaultBound DEF Workspace!Move
<1>3. /\ k \in Workspace!CallRecords /\ Sound(k) /\ e.target \in Paths /\ e.backup \in Paths
      /\ e.target # e.backup
      /\ Held \in [Paths -> Texts \cup {Missing, Workspace!Dir}]
  BY <1>1, Writing
<1>4. Fits(k, Held) => Held = Bound(k) /\ Kept(k)
  BY <1>1 DEF Fits
<1>5. CASE /\ fs[e.target].data \in Texts
           /\ fs' = [fs EXCEPT ![e.backup] = fs[e.target], ![e.target] = Workspace!Absent]
           /\ Workspace!Goto(c, "move_sync") /\ UNCHANGED log
  <2> DEFINE v == [k EXCEPT !.pc = "move_sync"]
  <2>1. FileShapes'
    <3>1. /\ fs' \in [Paths -> [data : Texts \cup {Workspace!Dir, Missing}, inode : Editors \cup {Missing}]]
          /\ \A p \in Paths : fs'[p].data = Missing => fs'[p].inode = Missing
      BY <1>1, <1>3, <1>5 DEF FileShapes, Workspace!Absent
    <3> QED BY <1>1, <1>2, <3>1 DEF FileShapes
  <2>2. Held' = [Held EXCEPT ![e.backup] = Held[e.target], ![e.target] = Missing]
    BY <1>1, <1>3, <1>5 DEF Held, FileShapes, Workspace!Absent
  <2>3. v.pc = "move_sync" /\ v.effect = e /\ v.old = k.old
    BY <1>3 DEF Workspace!CallRecords
  <2>4. ASSUME Fits(k, Held) PROVE Fits(v, Held')
    <3>1. But(k, Held', {e.backup, e.target}) /\ Saved(k, Held')
      BY <1>3, <1>4, <2>2, <2>4 DEF But, Saved, Kept
    <3> QED BY <2>3, <3>1 DEF Fits, But, Saved, Kept, Bound, Workspace!Named
  <2>5. "move_sync" \in Workspace!Phases \ BeforeReading /\ k.pc \notin Opening \cup {"idle", "inspect"}
    BY <1>1 DEF Workspace!Phases, BeforeReading, Opening
  <2>6. Workspace!Named(k)
    BY <1>1, Writing
  <2> HIDE DEF v
  <2> QED BY <1>1, <1>5, <2>1, <2>4, <2>5, <2>6, Going DEF v
<1>6. CASE Workspace!End(c, "recoverable_delete_failed") /\ UNCHANGED fs
  <2>1. "recoverable_delete_failed" \in EditCodes /\ k.pc \notin Opening
    BY <1>1 DEF EditCodes, Opening
  <2>2. FileShapes'
    BY <1>1, <1>2, <1>6, QuietFiles
  <2>3. Fits(k, Held) => Held = Base(k, Held)
    BY <1>4, <2>1 DEF Base
  <2> QED BY <1>1, <1>6, <2>1, <2>2, <2>3, Stopping
<1> QED BY <1>5, <1>6 DEF Workspace!Move, Workspace!Effect

LEMMA MoveSyncOut ==
    ASSUME EditShapes, NEW c \in Editors, Workspace!MoveSync(c)
    PROVE  Outcome(c)
<1> DEFINE k == edits[c]
           e == k.effect
<1>1. k.pc = "move_sync" /\ UNCHANGED <<fs, litter, used, log>> /\ FileShapes
  BY DEF Workspace!MoveSync, EditShapes
<1>2. FileShapes' /\ Held' = Held
  <2>1. faults' \in 0..MaxFailures
    BY <1>1, FaultBound DEF Workspace!MoveSync
  <2> QED BY <1>1, <2>1, QuietFiles
<1>3. /\ k \in Workspace!CallRecords /\ Workspace!Named(k) /\ e.backup \in Paths
  BY <1>1, Writing
<1>4. Fits(k, Held) => But(k, Held, {e.backup, e.target}) /\ Saved(k, Held)
  BY <1>1 DEF Fits
<1>5. CASE Workspace!Goto(c, "after")
  <2> DEFINE v == [k EXCEPT !.pc = "after"]
  <2>1. v.pc = "after" /\ v.effect = e /\ v.old = k.old
    BY <1>3 DEF Workspace!CallRecords
  <2>2. ASSUME Fits(k, Held) PROVE Fits(v, Held')
    <3>1. Held # Bound(k)
      BY <1>4, <2>2, EditConstants DEF Saved, Kept
    <3>2. Held # Bound(v) /\ Swapped(v, Held)
      BY <1>4, <2>1, <2>2, <3>1 DEF Swapped, But, Saved, Kept, Bound, Workspace!Named
    <3> QED BY <1>2, <2>1, <3>2 DEF Fits
  <2>3. "after" \in Workspace!Phases \ BeforeReading /\ k.pc \notin Opening \cup {"idle", "inspect"}
    BY <1>1 DEF Workspace!Phases, BeforeReading, Opening
  <2> HIDE DEF v
  <2> QED BY <1>1, <1>2, <1>5, <2>2, <2>3, Going DEF v
<1>6. CASE edits' = [edits EXCEPT ![c].pc = "temporary", ![c].job = "undo"]
  BY <1>1, <1>2, <1>3, <1>4, <1>6, WritingNext
<1> QED BY <1>5, <1>6 DEF Workspace!MoveSync

\* A rollback that cannot go on.
LEMMA RollbackFailsOut ==
    ASSUME EditShapes, NEW c \in Editors, edits[c].pc \in {"remove", "remove_sync"},
           Workspace!RollbackFails(c), FileShapes', UNCHANGED <<fs, used>>
    PROVE  Outcome(c)
<1> DEFINE k == edits[c]
           v == [k EXCEPT !.pc = "temporary", !.job = "rewrite"]
<1>1. /\ k \in Workspace!CallRecords /\ Sound(k)
      /\ k.pc \notin BeforeReading /\ Held' = Held
      /\ Workspace!Named(k) => k.effect.backup \in Paths
      /\ Held \in [Paths -> Texts \cup {Missing, Workspace!Dir}]
      /\ Bound(k) \in [Paths -> Texts \cup {Missing, Workspace!Dir}]
  BY EditShape DEF BeforeReading, Opening, Held
<1>2. CASE /\ k.job = "undo" /\ fs'[k.effect.backup] = Workspace!Absent
           /\ edits' = [edits EXCEPT ![c].pc = "temporary", ![c].job = "rewrite"] /\ UNCHANGED log
  <2>1. /\ edits' = [edits EXCEPT ![c] = v] /\ v \in Workspace!CallRecords
        /\ v.pc = "temporary" /\ v.effect = k.effect /\ v.job = "rewrite" /\ v.old = k.old
    BY <1>1, <1>2 DEF Workspace!CallRecords, Workspace!Phases, EditShapes
  <2> HIDE DEF v
  <2>2. Workspace!Named(k) /\ k.old \in Texts
    BY <1>1, <1>2 DEF Sound
  <2>3. Sound(v) /\ v.pc \notin Opening
    BY <1>1, <2>1, <2>2 DEF Sound, BeforeReading, Opening, Workspace!Named
  <2>4. ASSUME Fits(k, Held) PROVE Held = Bound(k) /\ Kept(k)
    <3>1. CASE k.pc = "remove_sync"
      BY <1>2, <2>4, <3>1 DEF Fits
    <3>2. CASE k.pc = "remove"
      <4>1. /\ But(k, Held, {k.effect.backup}) /\ Kept(k)
            /\ Bound(k)[k.effect.backup] = Missing
        BY <1>2, <2>4, <3>2 DEF Fits, Kept
      <4>2. Held[k.effect.backup] = Missing
        BY <1>1, <1>2, <2>2 DEF Held, Workspace!Absent
      <4>3. \A p \in Paths : Held[p] = Bound(k)[p]
        BY <4>1, <4>2 DEF But
      <4> QED BY <1>1, <4>1, <4>3
    <3> QED BY <3>1, <3>2
  <2>5. Fits(k, Held) => Fits(v, Held')
    BY <1>1, <2>1, <2>4 DEF Fits, Writes, Kept, Bound, Workspace!Named
  <2> QED BY <1>2, <2>1, <2>3, <2>5, Turning
<1>3. CASE Workspace!End(c, "partial_effect")
  <2>1. "partial_effect" \in EditCodes \ (UndoneCodes \cup {"APPLIED"})
    BY DEF EditCodes, UndoneCodes
  <2> QED BY <1>3, <2>1, Stopping DEF Workspace!Changing
<1> QED BY <1>2, <1>3 DEF Workspace!RollbackFails, Workspace!Effect

LEMMA RemoveOut ==
    ASSUME EditShapes, NEW c \in Editors, Workspace!Remove(c)
    PROVE  Outcome(c)
<1> DEFINE k == edits[c]
<1>1. k.pc = "remove" /\ UNCHANGED <<litter, used>> /\ FileShapes
  BY DEF Workspace!Remove, EditShapes
<1>2. faults' \in 0..MaxFailures
  BY <1>1, FaultBound DEF Workspace!Remove
<1>3. /\ k \in Workspace!CallRecords /\ Sound(k) /\ k.removing \in Paths
      /\ Held \in [Paths -> Texts \cup {Missing, Workspace!Dir}]
      /\ Bound(k) \in [Paths -> Texts \cup {Missing, Workspace!Dir}]
  BY <1>1, EditShape DEF Workspace!CallRecords
<1>4. CASE Workspace!End(c, "partial_effect") /\ UNCHANGED fs
  <2>1. "partial_effect" \in EditCodes \ (UndoneCodes \cup {"APPLIED"})
    BY DEF EditCodes, UndoneCodes
  <2>2. FileShapes'
    BY <1>1, <1>2, <1>4, QuietFiles
  <2> QED BY <1>1, <1>4, <2>1, <2>2, Stopping DEF Workspace!Changing
<1>5. CASE Workspace!RollbackFails(c) /\ UNCHANGED fs
  <2>1. FileShapes'
    BY <1>1, <1>2, <1>5, QuietFiles
  <2> QED BY <1>1, <1>5, <2>1, RollbackFailsOut
<1>6. CASE /\ fs' = [fs EXCEPT ![k.removing] = Workspace!Absent]
           /\ Workspace!Goto(c, "remove_sync") /\ UNCHANGED log
  <2> DEFINE v == [k EXCEPT !.pc = "remove_sync"]
  <2>1. FileShapes'
    <3>1. /\ fs' \in [Paths -> [data : Texts \cup {Workspace!Dir, Missing}, inode : Editors \cup {Missing}]]
          /\ \A p \in Paths : fs'[p].data = Missing => fs'[p].inode = Missing
      BY <1>1, <1>3, <1>6 DEF FileShapes, Workspace!Absent
    <3> QED BY <1>1, <1>2, <3>1 DEF FileShapes
  <2>2. Held' = [Held EXCEPT ![k.removing] = Missing]
    BY <1>1, <1>3, <1>6 DEF Held, FileShapes, Workspace!Absent
  <2>3. v.pc = "remove_sync" /\ v.effect = k.effect /\ v.old = k.old /\ v.job = k.job
    BY <1>3 DEF Workspace!CallRecords
  <2>4. ASSUME Fits(k, Held) PROVE Fits(v, Held')
    <3>1. /\ But(k, Held, {k.removing}) /\ Bound(k)[k.removing] = Missing
          /\ k.job = "undo" => Kept(k)
      BY <1>1, <2>4 DEF Fits
    <3>2. \A p \in Paths : Held'[p] = Bound(k)[p]
      BY <1>3, <2>2, <3>1 DEF But
    <3>3. Held' = Bound(k)
      BY <1>3, <2>2, <3>2
    <3> QED BY <2>3, <3>1, <3>3 DEF Fits, Kept, Bound, Workspace!Named
  <2>5. "remove_sync" \in Workspace!Phases \ BeforeReading /\ k.pc \notin Opening \cup {"idle", "inspect"}
    BY <1>1 DEF Workspace!Phases, BeforeReading, Opening
  <2> HIDE DEF v
  <2> QED BY <1>1, <1>6, <2>1, <2>4, <2>5, Going DEF v
<1> QED BY <1>4, <1>5, <1>6 DEF Workspace!Remove

LEMMA RemoveSyncOut ==
    ASSUME EditShapes, NEW c \in Editors, Workspace!RemoveSync(c)
    PROVE  Outcome(c)
<1> DEFINE k == edits[c]
<1>1. k.pc = "remove_sync" /\ UNCHANGED <<fs, litter, used>> /\ FileShapes
  BY DEF Workspace!RemoveSync, EditShapes
<1>2. FileShapes' /\ Held' = Held
  <2>1. faults' \in 0..MaxFailures
    BY <1>1, FaultBound DEF Workspace!RemoveSync
  <2> QED BY <1>1, <2>1, QuietFiles
<1>3. CASE Workspace!Goto(c, "compare") /\ UNCHANGED log
  <2> DEFINE v == [k EXCEPT !.pc = "compare"]
  <2>1. v.pc = "compare" /\ v.effect = k.effect
    BY <1>1, EditShape DEF Workspace!CallRecords
  <2>2. Fits(k, Held) => Fits(v, Held')
    BY <1>1, <1>2, <2>1 DEF Fits, Bound
  <2>3. "compare" \in Workspace!Phases \ BeforeReading /\ k.pc \notin Opening \cup {"idle", "inspect"}
    BY <1>1 DEF Workspace!Phases, BeforeReading, Opening
  <2> HIDE DEF v
  <2> QED BY <1>1, <1>2, <1>3, <2>2, <2>3, Going DEF v
<1>4. CASE Workspace!RollbackFails(c)
  BY <1>1, <1>2, <1>4, RollbackFailsOut
<1> QED BY <1>3, <1>4 DEF Workspace!RemoveSync

LEMMA CompareCheckpointOut ==
    ASSUME EditShapes, NEW c \in Editors, Workspace!CompareCheckpoint(c)
    PROVE  Outcome(c)
<1> DEFINE k == edits[c]
<1>1. k.pc = "compare" /\ UNCHANGED <<fs, litter, used>> /\ FileShapes
  BY DEF Workspace!CompareCheckpoint, EditShapes
<1>2. FileShapes' /\ Held' = Held
  <2>1. faults' \in 0..MaxFailures
    BY <1>1, FaultBound DEF Workspace!CompareCheckpoint
  <2> QED BY <1>1, <2>1, QuietFiles
<1>3. Fits(k, Held) => Held = Base(k, Held)
  BY <1>1 DEF Fits, Base, Opening
<1>4. CASE Workspace!End(c, Workspace!FailureCode(k))
  <2>1. k.effect \in Edits
    BY <1>1, EditShape
  <2>2. Workspace!FailureCode(k) \in UndoneCodes
    BY <2>1, EditConstants DEF Workspace!FailureCode, UndoneCodes
  <2>3. PICK code \in UndoneCodes : code = Workspace!FailureCode(k)
    BY <2>2
  <2>4. code \in EditCodes /\ code # "APPLIED" /\ k.pc \notin Opening
    BY <1>1 DEF EditCodes, UndoneCodes, Opening
  <2>5. Workspace!End(c, code)
    BY <1>4, <2>3
  <2> HIDE DEF k
  <2> QED BY <1>1, <1>2, <1>3, <2>4, <2>5, Stopping DEF k
<1>5. CASE Workspace!End(c, "partial_effect")
  <2>1. "partial_effect" \in EditCodes \ (UndoneCodes \cup {"APPLIED"})
    BY DEF EditCodes, UndoneCodes
  <2> QED BY <1>1, <1>2, <1>5, <2>1, Stopping DEF Workspace!Changing
<1> QED BY <1>4, <1>5 DEF Workspace!CompareCheckpoint

LEMMA AfterCheckpointOut ==
    ASSUME EditShapes, NEW c \in Editors, Workspace!AfterCheckpoint(c)
    PROVE  Outcome(c)
<1>1. edits[c].pc = "after" /\ UNCHANGED <<fs, litter, used>> /\ FileShapes
  BY DEF Workspace!AfterCheckpoint, EditShapes
<1>2. FileShapes'
  <2>1. faults' \in 0..MaxFailures
    BY <1>1, FaultBound DEF Workspace!AfterCheckpoint
  <2> QED BY <1>1, <2>1, QuietFiles
<1>3. {"APPLIED", "workspace_checkpoint_failed"} \subseteq EditCodes \ UndoneCodes
  BY DEF EditCodes, UndoneCodes
<1> QED BY <1>1, <1>2, <1>3, Stopping DEF Workspace!AfterCheckpoint, Workspace!Changing

-----------------------------------------------------------------------------
(* The steps, one invariant after the other.                               *)

\* A step of c leaves its call running as v, or ends it with one more entry in the log.
Leaves(c, v) == edits' = [edits EXCEPT ![c] = v] /\ log' = log
Logs(c, v, edit, code) ==
    /\ edits' = [edits EXCEPT ![c] = v]
    /\ log' = Append(log, [caller |-> c, effect |-> edit, code |-> code])

LEMMA Logged ==
    ASSUME EditShapes, NEW c \in Editors, NEW v, NEW edit \in Edits, NEW code \in EditCodes,
           Logs(c, v, edit, code)
    PROVE  /\ log' \in Seq(EditEntries) /\ Len(log) \in Nat /\ Len(log') = Len(log) + 1
           /\ \A i \in 1..Len(log) : log'[i] = log[i]
           /\ log'[Len(log) + 1] = [caller |-> c, effect |-> edit, code |-> code]
<1>1. [caller |-> c, effect |-> edit, code |-> code] \in EditEntries
  BY DEF EditEntries
<1> QED BY <1>1 DEF EditShapes, Logs

LEMMA BusyShape ==
    ASSUME EditShapes, NEW c \in Editors, NEW v \in {Workspace!Idle} \cup Workspace!CallRecords,
           edits' = [edits EXCEPT ![c] = v]
    PROVE  /\ Workspace!Busy' = IF v.pc = "idle" THEN Workspace!Busy \ {c} ELSE Workspace!Busy \cup {c}
           /\ IsFiniteSet(Workspace!Busy) /\ Cardinality(Workspace!Busy) \in Nat
           /\ edits' \in [Editors -> {Workspace!Idle} \cup Workspace!CallRecords]
           /\ edits'[c] = v /\ \A d \in Editors : d # c => edits'[d] = edits[d]
<1>1. IsFiniteSet(Workspace!Busy) /\ Cardinality(Workspace!Busy) \in Nat
  BY FS_CardinalityType DEF EditShapes
<1>2. /\ edits' \in [Editors -> {Workspace!Idle} \cup Workspace!CallRecords]
      /\ edits'[c] = v /\ \A d \in Editors : d # c => edits'[d] = edits[d]
  BY DEF EditShapes
<1>3. Workspace!Busy' = IF v.pc = "idle" THEN Workspace!Busy \ {c} ELSE Workspace!Busy \cup {c}
  BY <1>2 DEF Workspace!Busy
<1> QED BY <1>1, <1>2, <1>3

\* Busy calls and finished ones stay within their bound.
LEMMA ShapesKept ==
    ASSUME EditShapes, FileShapes', used' \subseteq Edits, NEW c \in Editors,
           NEW v \in {Workspace!Idle} \cup Workspace!CallRecords,
           v.pc # "idle" => Sound(v),
           \/ /\ Leaves(c, v) /\ v.pc # "idle"
              /\ edits[c].pc # "idle" \/ Len(log) + Cardinality(Workspace!Busy) < MaxEdits
           \/ /\ v.pc = "idle"
              /\ edits[c].pc # "idle" \/ Len(log) + Cardinality(Workspace!Busy) < MaxEdits
              /\ \E edit \in Edits, code \in EditCodes : Logs(c, v, edit, code)
    PROVE  EditShapes'
<1>1. edits' = [edits EXCEPT ![c] = v]
  BY DEF Leaves, Logs
<1>2. /\ Workspace!Busy' = IF v.pc = "idle" THEN Workspace!Busy \ {c} ELSE Workspace!Busy \cup {c}
      /\ IsFiniteSet(Workspace!Busy) /\ Cardinality(Workspace!Busy) \in Nat
      /\ edits' \in [Editors -> {Workspace!Idle} \cup Workspace!CallRecords]
      /\ edits'[c] = v /\ \A d \in Editors : d # c => edits'[d] = edits[d]
  BY <1>1, BusyShape
<1>3. \A d \in Editors : edits'[d].pc # "idle" => Sound(edits'[d])
  BY <1>2 DEF EditShapes
<1>4. Len(log) \in Nat /\ Len(log) + Cardinality(Workspace!Busy) <= MaxEdits
  BY DEF EditShapes
<1>5. c \in Workspace!Busy <=> edits[c].pc # "idle"
  BY DEF Workspace!Busy
<1>6. Workspace!CallRecords' = Workspace!CallRecords /\ EditEntries' = EditEntries
  BY DEF Workspace!CallRecords, EditEntries
<1>7. CASE Leaves(c, v) /\ v.pc # "idle"
  <2>1. log' = log
    BY <1>7 DEF Leaves
  <2>2. /\ IsFiniteSet(Workspace!Busy')
        /\ Cardinality(Workspace!Busy') = IF c \in Workspace!Busy THEN Cardinality(Workspace!Busy)
                                          ELSE Cardinality(Workspace!Busy) + 1
    BY <1>2, <1>7, FS_AddElement
  <2>3. Len(log') + Cardinality(Workspace!Busy') <= MaxEdits
    BY <1>2, <1>4, <1>5, <1>7, <2>1, <2>2, EditConstants
  <2> QED BY <1>2, <1>3, <1>6, <2>1, <2>2, <2>3 DEF EditShapes, Workspace!Idle
<1>8. ASSUME v.pc = "idle", NEW edit \in Edits, NEW code \in EditCodes, Logs(c, v, edit, code)
      PROVE  EditShapes'
  <2>1. log' \in Seq(EditEntries) /\ Len(log') = Len(log) + 1
    BY <1>8, Logged
  <2>2. /\ IsFiniteSet(Workspace!Busy')
        /\ Cardinality(Workspace!Busy') = IF c \in Workspace!Busy THEN Cardinality(Workspace!Busy) - 1
                                          ELSE Cardinality(Workspace!Busy)
    BY <1>2, <1>8, FS_RemoveElement
  <2>3. Len(log') + Cardinality(Workspace!Busy') <= MaxEdits
    BY <1>2, <1>4, <1>5, <1>8, <2>1, <2>2, EditConstants
  <2> QED BY <1>2, <1>3, <1>6, <2>1, <2>2, <2>3 DEF EditShapes, Workspace!Idle
<1> QED BY <1>7, <1>8, <1>2

\* Approvals: a call that goes on, and one that ends.
LEMMA ConsumedOn ==
    ASSUME EditShapes, Consumed, NEW c \in Editors, NEW v \in Workspace!CallRecords,
           Leaves(c, v), used \subseteq used',
           Late(v) => \/ Late(edits[c]) /\ v.effect = edits[c].effect
                      \/ v.effect \in used' /\ v.effect \notin used
    PROVE  Consumed'
<1>1. edits'[c] = v /\ (\A d \in Editors : d # c => edits'[d] = edits[d]) /\ log' = log
  BY DEF Leaves, EditShapes
<1>2. Workspace!ApprovalAppliedOnce'
  BY <1>1 DEF Consumed, Workspace!ApprovalAppliedOnce
<1>3. ASSUME NEW d \in Editors, Late(edits'[d])
      PROVE  /\ edits'[d].effect \in used'
             /\ \A x \in Editors : Late(edits'[x]) /\ edits'[x].effect = edits'[d].effect => x = d
             /\ \A i \in 1..Len(log) : log[i].code = "APPLIED" => log[i].effect # edits'[d].effect
  <2>1. CASE Late(edits[c]) /\ v.effect = edits[c].effect
    BY <1>1, <1>3, <2>1 DEF Consumed
  <2>2. CASE ~Late(v)
    BY <1>1, <1>3, <2>2 DEF Consumed
  <2>3. CASE Late(v) /\ v.effect \in used' /\ v.effect \notin used
    <3>1. ASSUME NEW i \in 1..Len(log), log[i].code = "APPLIED" PROVE log[i].effect # v.effect
      BY <2>3, <3>1 DEF Consumed, Late
    <3>2. \A x \in Editors : x # c /\ Late(edits[x]) => edits[x].effect \in used
      BY DEF Consumed
    <3> QED BY <1>1, <1>3, <2>3, <3>1, <3>2 DEF Consumed
  <2> QED BY <2>1, <2>2, <2>3
<1>4. \A i \in 1..Len(log) :
          log[i].code = "APPLIED" /\ log[i].effect.decision = "APPROVAL_REQUIRED"
              => log[i].effect \in used'
  BY DEF Consumed
<1> QED BY <1>1, <1>2, <1>3, <1>4 DEF Consumed

LEMMA ConsumedEnd ==
    ASSUME EditShapes, Consumed, NEW c \in Editors, NEW edit \in Edits, NEW code \in EditCodes,
           Logs(c, Workspace!Idle, edit, code), used' = used,
           code = "APPLIED" => edits[c].pc = "after" /\ edit = edits[c].effect
    PROVE  Consumed'
<1>1. /\ edits'[c] = Workspace!Idle /\ Workspace!Idle.pc = "idle"
      /\ \A d \in Editors : d # c => edits'[d] = edits[d]
  BY DEF Logs, EditShapes, Workspace!Idle
<1>2. /\ Len(log) \in Nat /\ Len(log') = Len(log) + 1
      /\ \A i \in 1..Len(log) : log'[i] = log[i]
      /\ log'[Len(log) + 1].effect = edit /\ log'[Len(log) + 1].code = code
  <2>1. /\ Len(log) \in Nat /\ Len(log') = Len(log) + 1
        /\ \A i \in 1..Len(log) : log'[i] = log[i]
        /\ log'[Len(log) + 1] = [caller |-> c, effect |-> edit, code |-> code]
    BY Logged
  <2> QED BY <2>1
<1>3. ASSUME NEW i \in 1..Len(log') PROVE i \in 1..Len(log) \/ i = Len(log) + 1
  BY <1>2
<1>4. code = "APPLIED" /\ edit.decision = "APPROVAL_REQUIRED" => Late(edits[c])
  BY DEF Late
<1>5. ASSUME NEW d \in Editors, Late(edits'[d])
      PROVE  /\ edits'[d].effect \in used'
             /\ \A x \in Editors : Late(edits'[x]) /\ edits'[x].effect = edits'[d].effect => x = d
             /\ \A i \in 1..Len(log') : log'[i].code = "APPLIED" => log'[i].effect # edits'[d].effect
  <2>1. d # c /\ edits'[d] = edits[d] /\ Late(edits[d])
    BY <1>1, <1>5 DEF Late
  <2>2. \A x \in Editors : Late(edits'[x]) => x # c /\ edits'[x] = edits[x]
    BY <1>1 DEF Late
  <2>3. ASSUME NEW i \in 1..Len(log'), log'[i].code = "APPLIED"
        PROVE  log'[i].effect # edits[d].effect
    <3>1. CASE i \in 1..Len(log)
      BY <1>2, <2>1, <2>3, <3>1 DEF Consumed
    <3>2. CASE i = Len(log) + 1 /\ log'[i].effect = edits[d].effect
      <4>1. code = "APPLIED" /\ edit = edits[d].effect /\ edit.decision = "APPROVAL_REQUIRED"
        BY <1>2, <2>1, <2>3, <3>2 DEF Late
      <4>2. Late(edits[c]) /\ edits[c].effect = edits[d].effect
        BY <1>4, <4>1
      <4> QED BY <2>1, <4>2 DEF Consumed
    <3> QED BY <1>3, <3>1, <3>2
  <2> QED BY <2>1, <2>2, <2>3 DEF Consumed
<1>6. ASSUME NEW i \in 1..Len(log'), log'[i].code = "APPLIED",
             log'[i].effect.decision = "APPROVAL_REQUIRED"
      PROVE  log'[i].effect \in used'
  <2>1. CASE i \in 1..Len(log)
    BY <1>2, <1>6, <2>1 DEF Consumed
  <2>2. CASE i = Len(log) + 1
    BY <1>2, <1>4, <1>6, <2>2 DEF Consumed
  <2> QED BY <1>3, <2>1, <2>2
<1>7. Workspace!ApprovalAppliedOnce'
  <2> SUFFICES ASSUME NEW i \in 1..Len(log'), NEW j \in 1..Len(log'),
                      log'[i].code = "APPLIED", log'[j].code = "APPLIED",
                      log'[i].effect = log'[j].effect,
                      log'[i].effect.decision = "APPROVAL_REQUIRED"
               PROVE  i = j
    BY DEF Workspace!ApprovalAppliedOnce
  <2>1. CASE i \in 1..Len(log) /\ j \in 1..Len(log)
    BY <1>2, <2>1 DEF Consumed, Workspace!ApprovalAppliedOnce
  <2>2. ASSUME NEW x \in 1..Len(log), log[x].code = "APPLIED", log[x].effect = edit,
               code = "APPLIED", edit.decision = "APPROVAL_REQUIRED"
        PROVE  FALSE
    BY <1>4, <2>2 DEF Consumed
  <2> QED BY <1>2, <1>3, <2>1, <2>2
<1> QED BY <1>5, <1>6, <1>7 DEF Consumed

\* What fits keeps every file of the beginning.
LEMMA FitsSafe ==
    ASSUME NEW k \in Workspace!CallRecords, NEW f, Fits(k, f), k.pc \notin Opening,
           Safe(Bound(k)), k.effect.target \in Paths, Sound(k),
           Workspace!Named(k) => k.effect.backup \in Paths
    PROVE  Safe(f)
<1>1. f = Bound(k) \/ Swapped(k, f)
  <2>1. /\ k.removing \in Paths
        /\ k.job \in {"backup", "target", "undo", "rewrite"}
        /\ k.pc \in {"inspect", "backup_free", "temporary", "replace", "synchronise",
                     "stat_backup", "mkdir", "mkdir_sync", "move", "move_sync", "remove",
                     "remove_sync", "compare", "after"}
    BY DEF Workspace!CallRecords, Workspace!Phases, Opening
  <2>2. CASE k.pc \in {"inspect", "backup_free", "mkdir", "move", "remove_sync", "compare", "after"}
    BY <2>2 DEF Fits
  <2>3. CASE k.pc \in {"temporary", "replace"}
    BY <2>1, <2>3 DEF Fits, Writes, Swapped, But
  <2>4. CASE k.pc = "synchronise"
    BY <2>1, <2>4 DEF Fits, Wrote, Swapped, But, Vacant
  <2>5. CASE k.pc \in {"stat_backup", "move_sync"}
    BY <2>5 DEF Fits, Swapped, But
  <2>6. CASE k.pc \in {"mkdir_sync", "remove"}
    BY <2>1, <2>6 DEF Fits, Swapped, Vacant
  <2> QED BY <2>1, <2>2, <2>3, <2>4, <2>5, <2>6
<1>2. ASSUME Swapped(k, f) PROVE Safe(f)
  <2> SUFFICES ASSUME NEW p \in Paths, Files[p] # Missing PROVE \E q \in Paths : f[q] = Files[p]
    BY DEF Safe
  <2>1. PICK q \in Paths : Bound(k)[q] = Files[p]
    BY DEF Safe
  <2>2. CASE But(k, f, {k.effect.backup, k.effect.target}) /\ Saved(k, f)
    <3>1. q # k.effect.backup /\ k.effect.backup \in Paths
      BY <2>1, <2>2 DEF Saved, Kept
    <3>2. CASE q = k.effect.target
      BY <2>1, <2>2, <3>1, <3>2 DEF Saved, Kept
    <3>3. CASE q # k.effect.target
      BY <2>1, <2>2, <3>1, <3>3 DEF But
    <3> QED BY <3>2, <3>3
  <2>3. ASSUME NEW x \in Paths, Bound(k)[x] = Missing, But(k, f, {x})
        PROVE  \E r \in Paths : f[r] = Files[p]
    <3>1. q # x
      BY <2>1, <2>3
    <3> QED BY <2>1, <2>3, <3>1 DEF But
  <2> QED BY <1>2, <2>2, <2>3 DEF Swapped
<1> QED BY <1>1, <1>2

\* One more entry in the log.
LEMMA MovedLogged ==
    ASSUME log \in Seq(EditEntries), log' \in Seq(EditEntries), Len(log) \in Nat,
           Len(log') = Len(log) + 1, \A i \in 1..Len(log) : log'[i] = log[i],
           NEW f, NEW last, last = log'[Len(log) + 1],
           \/ last.code \notin Workspace!Changing /\ MovedOff(f, log)
           \/ last.code \in Workspace!Changing \ {"APPLIED"}
           \/ last.code = "APPLIED" /\ f # last.effect.checkpoint.files
    PROVE  MovedOff(f, log')
<1> SUFFICES ASSUME NEW i \in 1..Len(log'), log'[i].code = "APPLIED",
                    \A j \in i+1..Len(log') : log'[j].code \notin Workspace!Changing
             PROVE  f # log'[i].effect.checkpoint.files
  BY DEF MovedOff
<1>1. CASE i \in 1..Len(log)
  <2>1. Len(log) + 1 \in i+1..Len(log')
    BY <1>1
  <2>2. last.code \notin Workspace!Changing
    BY <2>1
  <2>3. MovedOff(f, log)
    BY <2>2 DEF Workspace!Changing
  <2>4. \A j \in i+1..Len(log) : j \in i+1..Len(log') /\ j \in 1..Len(log)
    BY <1>1
  <2>5. \A j \in i+1..Len(log) : log[j].code \notin Workspace!Changing
    BY <2>4
  <2> QED BY <1>1, <2>3, <2>5 DEF MovedOff
<1>2. CASE i = Len(log) + 1
  BY <1>2 DEF Workspace!Changing
<1> QED BY <1>1, <1>2

LEMMA OnceLogged ==
    ASSUME log \in Seq(EditEntries), log' \in Seq(EditEntries), Len(log) \in Nat,
           Len(log') = Len(log) + 1, \A i \in 1..Len(log) : log'[i] = log[i],
           NEW last, last = log'[Len(log) + 1],
           Workspace!AppliedOnce,
           last.code = "APPLIED" => MovedOff(last.effect.checkpoint.files, log)
    PROVE  Workspace!AppliedOnce'
<1> SUFFICES ASSUME NEW i \in 1..Len(log'), NEW j \in 1..Len(log'), i < j,
                    log'[i].code = "APPLIED", log'[j].code = "APPLIED",
                    log'[i].effect = log'[j].effect
             PROVE  \E k \in i+1..j-1 : log'[k].code \in Workspace!Changing
  BY DEF Workspace!AppliedOnce, Workspace!Changing
<1>1. CASE j \in 1..Len(log)
  <2>1. i \in 1..Len(log)
    BY <1>1
  <2>2. PICK k \in i+1..j-1 : log[k].code \in Workspace!Changing
    BY <1>1, <2>1 DEF Workspace!AppliedOnce
  <2>3. k \in 1..Len(log)
    BY <1>1, <2>1
  <2> QED BY <2>2, <2>3
<1>2. CASE j = Len(log) + 1
  <2>1. i \in 1..Len(log) /\ last.code = "APPLIED" /\ log[i].effect = last.effect
    BY <1>2
  <2>2. ~\A k \in i+1..Len(log) : log[k].code \notin Workspace!Changing
    BY <2>1 DEF MovedOff
  <2>3. PICK k \in i+1..Len(log) : log[k].code \in Workspace!Changing
    BY <2>2
  <2>4. k \in i+1..j-1 /\ k \in 1..Len(log)
    BY <1>2, <2>1
  <2> QED BY <2>3, <2>4
<1> QED BY <1>1, <1>2

\* Whoever is alone after a step was alone before it.
LEMMA AloneBack ==
    ASSUME EditShapes, NEW c \in Editors, NEW v \in {Workspace!Idle} \cup Workspace!CallRecords,
           Workspace!Alone',
           \/ Leaves(c, v) /\ v.pc # "idle"
           \/ /\ v.pc = "idle"
              /\ \E edit \in Edits, code \in EditCodes : Logs(c, v, edit, code)
    PROVE  /\ Workspace!Alone
           /\ \A d \in Editors : d # c => edits[d].pc = "idle" /\ edits'[d].pc = "idle"
<1>1. edits' = [edits EXCEPT ![c] = v]
  BY DEF Leaves, Logs
<1>2. /\ Workspace!Busy' = IF v.pc = "idle" THEN Workspace!Busy \ {c} ELSE Workspace!Busy \cup {c}
      /\ \A d \in Editors : d # c => edits'[d] = edits[d]
  BY <1>1, BusyShape
<1>3. PICK x \in Editors : Workspace!Busy' \subseteq {x} /\ \A i \in 1..Len(log') : log'[i].caller = x
  BY DEF Workspace!Alone
<1>4. x = c /\ \A i \in 1..Len(log) : log[i].caller = c
  <2>1. CASE Leaves(c, v) /\ v.pc # "idle"
    BY <1>2, <1>3, <2>1 DEF Leaves
  <2>2. ASSUME NEW edit \in Edits, NEW code \in EditCodes, Logs(c, v, edit, code)
        PROVE  x = c /\ \A i \in 1..Len(log) : log[i].caller = c
    <3>1. /\ Len(log) \in Nat /\ Len(log') = Len(log) + 1
          /\ \A i \in 1..Len(log) : log'[i] = log[i]
          /\ log'[Len(log) + 1] = [caller |-> c, effect |-> edit, code |-> code]
      BY <2>2, Logged
    <3>2. Len(log) + 1 \in 1..Len(log') /\ \A i \in 1..Len(log) : i \in 1..Len(log')
      BY <3>1
    <3>3. log'[Len(log) + 1].caller = c
      BY <3>1
    <3> QED BY <1>3, <3>1, <3>2, <3>3
  <2> QED BY <2>1, <2>2
<1>5. Workspace!Busy \subseteq {c}
  BY <1>2, <1>3, <1>4
<1>6. \A d \in Editors : d # c => edits[d].pc = "idle"
  BY <1>5 DEF Workspace!Busy
<1> QED BY <1>2, <1>4, <1>5, <1>6 DEF Workspace!Alone

OthersIdle(c) == \A d \in Editors : d # c => edits[d].pc = "idle" /\ edits'[d].pc = "idle"

LEMMA AloneTurns ==
    ASSUME EditShapes, AloneHolds, NEW c \in Editors, NEW v \in Workspace!CallRecords,
           Turns(c, v), edits[c].pc \notin Opening \cup {"idle"}, OthersIdle(c), FileShapes'
    PROVE  AloneHolds'
<1> DEFINE k == edits[c]
<1>1. edits'[c] = v /\ v.pc \in Workspace!Phases /\ v.pc # "idle"
  BY DEF Turns, EditShapes, Workspace!CallRecords, Workspace!Phases
<1>2. /\ Safe(Bound(k)) /\ Fits(k, Held) /\ MovedOff(Base(k, Held), log)
  BY DEF AloneHolds
<1>3. /\ v.effect = k.effect /\ v.pc \notin Opening /\ Sound(v) /\ Fits(v, Held') /\ log' = log
  BY <1>2 DEF Turns
<1>4. k.effect.target \in Paths /\ (Workspace!Named(v) => v.effect.backup \in Paths)
  BY <1>3, EditShape DEF Workspace!Named
<1>5. Bound(v) = Bound(k)
  BY <1>3 DEF Bound
<1>6. Safe(Held')
  BY <1>2, <1>3, <1>4, <1>5, FitsSafe
<1>7. Base(v, Held') = Bound(v) /\ Base(k, Held) = Bound(k)
  BY <1>3 DEF Base
<1>8. \A d \in Editors : edits'[d].pc # "idle" => d = c
  BY DEF OthersIdle
<1>9. Workspace!Busy' # {}
  BY <1>1 DEF Workspace!Busy
<1>10. Workspace!AppliedOnce'
  BY <1>3 DEF AloneHolds, Workspace!AppliedOnce, Workspace!Changing
<1> HIDE DEF k
<1> QED BY <1>1, <1>2, <1>3, <1>5, <1>6, <1>7, <1>8, <1>9, <1>10 DEF AloneHolds

\* A call that begins, or goes on to its second checkpoint.
LEMMA AloneOpens ==
    ASSUME EditShapes, AloneHolds, NEW c \in Editors, NEW v \in Workspace!CallRecords,
           Leaves(c, v), UNCHANGED fs, edits[c].pc \in Opening \cup {"idle"}, OthersIdle(c),
           v.pc \in Opening \/ (v.pc = "inspect" /\ Held = Bound(v))
    PROVE  AloneHolds'
<1>1. edits'[c] = v /\ log' = log /\ Held' = Held
  BY DEF Leaves, EditShapes, Held
<1>2. MovedOff(Held, log)
  <2>1. CASE edits[c].pc = "idle"
    <3>1. Workspace!Busy = {}
      BY <2>1 DEF OthersIdle, Workspace!Busy
    <3> QED BY <3>1 DEF AloneHolds
  <2>2. CASE edits[c].pc \in Opening
    <3>1. edits[c].pc # "idle" /\ Base(edits[c], Held) = Held
      BY <2>2 DEF Opening, Base
    <3> QED BY <3>1 DEF AloneHolds
  <2> QED BY <2>1, <2>2
<1>3. Safe(Held) /\ Base(v, Held) = Held
  BY DEF AloneHolds, Base, Opening
<1>4. v.pc \notin Opening => Fits(v, Held) /\ Safe(Bound(v))
  BY <1>3 DEF Fits
<1>5. \A d \in Editors : edits'[d].pc # "idle" => d = c
  BY DEF OthersIdle
<1>6. Workspace!Busy' # {}
  BY <1>1 DEF Workspace!Busy, Opening
<1>7. Workspace!AppliedOnce'
  BY <1>1 DEF AloneHolds, Workspace!AppliedOnce, Workspace!Changing
<1> QED BY <1>1, <1>2, <1>3, <1>4, <1>5, <1>6, <1>7 DEF AloneHolds

\* A call that ends, or is refused.
LEMMA AloneEnds ==
    ASSUME EditShapes, AloneHolds, NEW c \in Editors, NEW edit \in Edits, NEW code \in EditCodes,
           Logs(c, Workspace!Idle, edit, code), UNCHANGED fs, OthersIdle(c),
           MovedOff(Held, log) \/ code \in Workspace!Changing,
           code = "APPLIED" => /\ MovedOff(edit.checkpoint.files, log)
                               /\ Held # edit.checkpoint.files
    PROVE  AloneHolds'
<1>1. Held' = Held
  BY DEF Held
<1>2. /\ log \in Seq(EditEntries) /\ log' \in Seq(EditEntries)
      /\ Len(log) \in Nat /\ Len(log') = Len(log) + 1
      /\ \A i \in 1..Len(log) : log'[i] = log[i]
      /\ log'[Len(log) + 1] = [caller |-> c, effect |-> edit, code |-> code]
  BY Logged DEF EditShapes
<1>3. PICK last : last = log'[Len(log) + 1]
  OBVIOUS
<1>4. last.effect = edit /\ last.code = code
  BY <1>2, <1>3
<1>5. code \notin Workspace!Changing \/ code \in Workspace!Changing \ {"APPLIED"} \/ code = "APPLIED"
  OBVIOUS
<1>6. MovedOff(Held, log')
  BY <1>2, <1>3, <1>4, <1>5, MovedLogged
<1>7. Workspace!AppliedOnce'
  BY <1>2, <1>3, <1>4, OnceLogged DEF AloneHolds
<1>8. \A d \in Editors : edits'[d].pc = "idle"
  BY DEF OthersIdle, Logs, EditShapes, Workspace!Idle
<1> QED BY <1>1, <1>6, <1>7, <1>8 DEF AloneHolds, Opening

\* The end of a call says what it left.
LEMMA AloneStops ==
    ASSUME EditShapes, AloneHolds, NEW c \in Editors, NEW code \in EditCodes,
           Stops(c, code), edits[c].pc # "idle", OthersIdle(c)
    PROVE  /\ AloneHolds'
           /\ code \in UndoneCodes => Held = Bound(edits[c])
<1> DEFINE k == edits[c]
<1>1. MovedOff(Base(k, Held), log)
  BY DEF AloneHolds
<1>2. k.pc \notin Opening => Fits(k, Held)
  BY DEF AloneHolds
<1>3. code \notin Workspace!Changing => Held = Base(k, Held)
  <2>1. CASE k.pc \in Opening
    BY <2>1 DEF Base
  <2>2. CASE k.pc \notin Opening
    BY <1>2, <2>2 DEF Stops
  <2> QED BY <2>1, <2>2
<1>4. code = "APPLIED" => k.pc = "after" /\ Base(k, Held) = Bound(k) /\ Held # Bound(k)
  BY <1>2 DEF Stops, Base, Opening, Fits
<1>5. Logs(c, Workspace!Idle, k.effect, code) /\ UNCHANGED fs /\ k.effect \in Edits
  BY EditShape DEF Stops, Logs
<1>6. MovedOff(Held, log) \/ code \in Workspace!Changing
  BY <1>1, <1>3
<1>7. code = "APPLIED" => MovedOff(Bound(k), log) /\ Held # Bound(k)
  BY <1>1, <1>4
<1>8. AloneHolds'
  BY <1>5, <1>6, <1>7, AloneEnds DEF Bound
<1>9. code \in UndoneCodes => code \notin Workspace!Changing /\ k.pc \notin Opening
  BY DEF UndoneCodes, Workspace!Changing, Stops
<1>10. code \in UndoneCodes => Held = Bound(k)
  BY <1>3, <1>9 DEF Base
<1> QED BY <1>8, <1>10

\* Every step keeps the invariant and, while one caller works alone, undoes what it reports failed.
StepKept == ExecutorInv' /\ (Workspace!Alone' => Workspace!FailureRestores)

\* A step to the second checkpoint at the latest.
Opens(c, v) ==
    /\ Leaves(c, v) /\ UNCHANGED fs
    /\ edits[c].pc \in Opening /\ Sound(v) /\ v.pc # "idle"
    /\ v.pc \in Opening \/ (v.pc = "inspect" /\ Held = Bound(v))
    /\ used \subseteq used' /\ used' \subseteq Edits
    /\ Late(v) => \/ Late(edits[c]) /\ v.effect = edits[c].effect
                  \/ v.effect \in used' /\ v.effect \notin used

OpeningOutcome(c) ==
    /\ FileShapes'
    /\ \/ \E v \in Workspace!CallRecords : Opens(c, v)
       \/ \E code \in EditCodes : Stops(c, code)

LEMMA OpeningEnds ==
    ASSUME EditShapes, NEW c \in Editors, edits[c].pc \in Opening,
           NEW code \in {"workspace_checkpoint_stale", "effect_denied", "approval_not_expected",
                         "approval_refused"},
           Workspace!EndQuietly(c, code)
    PROVE  OpeningOutcome(c)
<1>1. code \in EditCodes \ (UndoneCodes \cup {"APPLIED"})
  BY DEF EditCodes, UndoneCodes
<1>2. FileShapes' /\ UNCHANGED <<fs, used>> /\ Workspace!End(c, code)
  BY DEF Workspace!EndQuietly, EditShapes, FileShapes
<1>3. Held = Base(edits[c], Held)
  BY DEF Base
<1>4. Stops(c, code)
  BY <1>1, <1>2, <1>3, StoppingSo
<1> QED BY <1>1, <1>2, <1>4 DEF OpeningOutcome

LEMMA OpeningGoes ==
    ASSUME EditShapes, NEW c \in Editors, edits[c].pc \in Opening,
           NEW pc \in BeforeReading, Workspace!Goto(c, pc), UNCHANGED <<fs, litter, log, faults>>,
           pc = "inspect" => Held = Bound(edits[c]),
           used \subseteq used', used' \subseteq Edits,
           pc \in {"checkpoint_again", "inspect"} /\ edits[c].effect.decision = "APPROVAL_REQUIRED"
               => \/ edits[c].pc = "checkpoint_again"
                  \/ edits[c].effect \in used' /\ edits[c].effect \notin used
    PROVE  OpeningOutcome(c)
<1> DEFINE k == edits[c]
           v == [k EXCEPT !.pc = pc]
<1>1. k \in Workspace!CallRecords /\ Sound(k) /\ pc \in Workspace!Phases
  BY EditShape DEF Opening, BeforeReading, Workspace!Phases
<1>2. /\ v \in Workspace!CallRecords /\ v.pc = pc /\ v.effect = k.effect /\ v.job = k.job
      /\ v.removing = k.removing /\ v.old = k.old /\ Leaves(c, v)
  BY <1>1, TurnedShape DEF Workspace!Goto, Leaves
<1> HIDE DEF v
<1>3. Sound(v) /\ v.pc # "idle"
  BY <1>1, <1>2 DEF Sound, BeforeReading, Opening, Workspace!Named
<1>4. v.pc \in Opening \/ (v.pc = "inspect" /\ Held = Bound(v))
  BY <1>2 DEF BeforeReading, Bound
<1>5. Late(v) => \/ Late(k) /\ v.effect = k.effect
                 \/ v.effect \in used' /\ v.effect \notin used
  BY <1>2 DEF Late, BeforeReading, Opening
<1>6. Opens(c, v)
  BY <1>2, <1>3, <1>4, <1>5 DEF Opens
<1>7. FileShapes'
  BY DEF EditShapes, FileShapes
<1> QED BY <1>2, <1>6, <1>7 DEF OpeningOutcome

LEMMA VerifyCheckpointOut ==
    ASSUME EditShapes, NEW c \in Editors,
           Workspace!FirstCheckpoint(c) \/ Workspace!SecondCheckpoint(c)
    PROVE  OpeningOutcome(c)
<1>1. edits[c].pc \in Opening
  BY DEF Workspace!FirstCheckpoint, Workspace!SecondCheckpoint, Workspace!VerifyCheckpoint, Opening
<1>2. CASE Workspace!EndQuietly(c, "workspace_checkpoint_stale")
  BY <1>1, <1>2, OpeningEnds
<1>3. ASSUME NEW pc \in {"authorize", "inspect"}, Workspace!Goto(c, pc), Workspace!Quiet,
             Workspace!CheckpointMatches(edits[c].effect),
             pc = "inspect" => edits[c].pc = "checkpoint_again"
      PROVE  OpeningOutcome(c)
  <2>1. UNCHANGED <<fs, litter, used, log, faults>> /\ used \subseteq Edits
    BY <1>3 DEF Workspace!Quiet, EditShapes
  <2>2. Held = Bound(edits[c])
    BY <1>3 DEF Workspace!CheckpointMatches, Workspace!Checkpoint, Bound, Held
  <2>3. pc \in BeforeReading
    BY DEF BeforeReading, Opening
  <2> QED BY <1>1, <1>3, <2>1, <2>2, <2>3, OpeningGoes
<1> QED BY <1>2, <1>3 DEF Workspace!FirstCheckpoint, Workspace!SecondCheckpoint,
                          Workspace!VerifyCheckpoint, Workspace!Effect

LEMMA AuthorizeOut ==
    ASSUME EditShapes, NEW c \in Editors, Workspace!Authorize(c)
    PROVE  OpeningOutcome(c)
<1> DEFINE e == edits[c].effect
<1>1. edits[c].pc \in Opening /\ edits[c].pc = "authorize"
  BY DEF Workspace!Authorize, Opening
<1>2. e \in Edits /\ used \subseteq Edits /\ "checkpoint_again" \in BeforeReading
  BY <1>1, EditShape DEF EditShapes, Opening, BeforeReading
<1>3. ASSUME NEW code \in {"effect_denied", "approval_not_expected", "approval_refused"},
             Workspace!EndQuietly(c, code)
      PROVE  OpeningOutcome(c)
  BY <1>1, <1>3, OpeningEnds
<1>4. CASE e.decision = "ALLOW" /\ Workspace!Goto(c, "checkpoint_again") /\ Workspace!Quiet
  BY <1>1, <1>2, <1>4, OpeningGoes DEF Workspace!Quiet
<1>5. CASE /\ e \notin used /\ used' = used \cup {e} /\ Workspace!Goto(c, "checkpoint_again")
           /\ UNCHANGED <<fs, litter, log, faults>>
  BY <1>1, <1>2, <1>5, OpeningGoes
<1> QED BY <1>3, <1>4, <1>5 DEF Workspace!Authorize, Workspace!Effect

LEMMA OpensKeeps ==
    ASSUME ExecutorInv, NEW c \in Editors, NEW v \in Workspace!CallRecords, Opens(c, v), FileShapes'
    PROVE  StepKept
<1>1. EditShapes /\ Consumed /\ edits[c].pc # "idle"
  BY DEF ExecutorInv, Opens, Opening
<1>2. EditShapes'
  BY <1>1, ShapesKept DEF Opens
<1>3. Consumed'
  BY <1>1, ConsumedOn DEF Opens
<1>4. ASSUME Workspace!Alone' PROVE AloneHolds'
  <2>1. Workspace!Alone /\ OthersIdle(c)
    BY <1>1, <1>4, AloneBack DEF Opens, OthersIdle
  <2> QED BY <1>1, <2>1, AloneOpens DEF Opens, ExecutorInv
<1>5. Workspace!FailureRestores
  BY <1>1 DEF Opens, Leaves, Workspace!FailureRestores, Workspace!Ended, EditShapes
<1> QED BY <1>2, <1>3, <1>4, <1>5 DEF StepKept, ExecutorInv

LEMMA TurnsKeeps ==
    ASSUME ExecutorInv, NEW c \in Editors, NEW v \in Workspace!CallRecords, Turns(c, v),
           FileShapes', edits[c].pc \notin Opening \cup {"idle"}
    PROVE  StepKept
<1>1. EditShapes /\ Consumed /\ Leaves(c, v) /\ used' = used
  BY DEF ExecutorInv, Turns, Leaves
<1>2. v.pc # "idle" /\ Sound(v)
  BY DEF Turns, Workspace!CallRecords, Workspace!Phases
<1>3. used' \subseteq Edits
  BY <1>1 DEF EditShapes
<1>4. EditShapes'
  BY <1>1, <1>2, <1>3, ShapesKept
<1>5. Late(v) => Late(edits[c]) /\ v.effect = edits[c].effect
  BY DEF Turns, Late, Opening
<1>6. Consumed'
  BY <1>1, <1>5, ConsumedOn
<1>7. ASSUME Workspace!Alone' PROVE AloneHolds'
  <2>1. Workspace!Alone /\ OthersIdle(c)
    BY <1>1, <1>2, <1>7, AloneBack DEF OthersIdle
  <2> QED BY <1>1, <2>1, AloneTurns DEF ExecutorInv
<1>8. Workspace!FailureRestores
  BY <1>1 DEF Leaves, Workspace!FailureRestores, Workspace!Ended, EditShapes
<1> QED BY <1>4, <1>6, <1>7, <1>8 DEF StepKept, ExecutorInv

LEMMA StopsKeeps ==
    ASSUME ExecutorInv, NEW c \in Editors, NEW code \in EditCodes, Stops(c, code),
           FileShapes', edits[c].pc # "idle"
    PROVE  StepKept
<1> DEFINE e == edits[c].effect
           v == Workspace!Idle
<1>1. EditShapes /\ Consumed /\ used' = used /\ e \in Edits
  BY EditShape DEF ExecutorInv, Stops
<1>2. Logs(c, v, e, code) /\ v.pc = "idle" /\ UNCHANGED fs
  BY DEF Stops, Logs, Workspace!Idle
<1>3. used' \subseteq Edits
  BY <1>1 DEF EditShapes
<1>4. EditShapes'
  BY <1>1, <1>2, <1>3, ShapesKept
<1>5. Consumed'
  BY <1>1, <1>2, ConsumedEnd DEF Stops
<1>6. ASSUME Workspace!Alone' PROVE AloneHolds' /\ Workspace!FailureRestores
  <2>1. Workspace!Alone /\ OthersIdle(c)
    BY <1>1, <1>2, <1>6, AloneBack DEF OthersIdle
  <2>2. AloneHolds' /\ (code \in UndoneCodes => Held = Bound(edits[c]))
    BY <1>1, <2>1, AloneStops DEF ExecutorInv
  <2>3. /\ Len(log) \in Nat /\ Len(log') = Len(log) + 1
        /\ log'[Len(log) + 1] = [caller |-> c, effect |-> e, code |-> code]
    BY <1>1, <1>2, Logged
  <2>4. log'[Len(log')].effect = e /\ log'[Len(log')].code = code
    BY <2>3
  <2>5. [p \in Paths |-> fs'[p].data] = Held
    BY <1>2 DEF Held
  <2>6. Workspace!FailureRestores
    BY <2>2, <2>4, <2>5 DEF Workspace!FailureRestores, Workspace!Ended, UndoneCodes, Bound
  <2> QED BY <2>2, <2>6
<1> QED BY <1>4, <1>5, <1>6 DEF StepKept, ExecutorInv

\* The executor's count of the busy callers is the count of the library's facts.
LEMMA BusyCounted == Workspace!Cardinality(Workspace!Busy) = Cardinality(Workspace!Busy)
BY Zenon DEF Cardinality, Workspace!Cardinality

LEMMA ExecuteKeeps ==
    ASSUME ExecutorInv, NEW c \in Editors, NEW e \in Edits, NEW receipt \in BOOLEAN,
           Workspace!Execute(c, e, receipt)
    PROVE  StepKept
<1>1. /\ EditShapes /\ Consumed /\ edits[c] = Workspace!Idle /\ edits[c].pc = "idle"
      /\ Len(log) + Cardinality(Workspace!Busy) < MaxEdits
      /\ UNCHANGED <<fs, litter, used, faults>>
  <2>1. /\ edits[c] = Workspace!Idle /\ UNCHANGED <<fs, litter, used, faults>>
        /\ Len(log) + Workspace!Cardinality(Workspace!Busy) < MaxEdits
    BY DEF Workspace!Execute
  <2>2. edits[c].pc = "idle"
    BY <2>1 DEF Workspace!Idle
  <2> QED BY <2>1, <2>2, BusyCounted DEF ExecutorInv
<1>2. FileShapes' /\ used' \subseteq Edits
  BY <1>1 DEF EditShapes, FileShapes
<1>3. CASE /\ Workspace!ValidateAuthority(e)
           /\ edits' = [edits EXCEPT ![c] =
                  [pc |-> "checkpoint", effect |-> e, receipt |-> receipt,
                   old |-> Missing, inode |-> Missing, job |-> "target", removing |-> e.target]]
           /\ UNCHANGED log
  <2> DEFINE v == [pc |-> "checkpoint", effect |-> e, receipt |-> receipt,
                   old |-> Missing, inode |-> Missing, job |-> "target", removing |-> e.target]
  <2>1. v \in Workspace!CallRecords
    BY EditConstants DEF Workspace!CallRecords, Workspace!Phases
  <2>2. v.pc = "checkpoint" /\ Sound(v) /\ Leaves(c, v) /\ ~Late(v)
    BY <1>3 DEF Sound, BeforeReading, Opening, Leaves, Late
  <2> HIDE DEF v
  <2>3. EditShapes'
    BY <1>1, <1>2, <2>1, <2>2, ShapesKept
  <2>4. Consumed'
    BY <1>1, <2>1, <2>2, ConsumedOn
  <2>5. ASSUME Workspace!Alone' PROVE AloneHolds'
    <3>1. Workspace!Alone /\ OthersIdle(c)
      BY <1>1, <2>1, <2>2, <2>5, AloneBack DEF OthersIdle
    <3> QED BY <1>1, <2>1, <2>2, <3>1, AloneOpens DEF ExecutorInv, Opening
  <2>6. Workspace!FailureRestores
    BY <1>1, <1>3 DEF Workspace!FailureRestores, Workspace!Ended, EditShapes
  <2> QED BY <2>3, <2>4, <2>5, <2>6 DEF StepKept, ExecutorInv
<1>4. CASE /\ log' = Append(log, [caller |-> c, effect |-> e, code |-> "effect_refused"])
           /\ UNCHANGED edits
  <2> DEFINE v == Workspace!Idle
  <2>1. edits' = [edits EXCEPT ![c] = v] /\ v.pc = "idle"
    BY <1>1, <1>4 DEF EditShapes, Workspace!Idle
  <2>2. Logs(c, v, e, "effect_refused") /\ "effect_refused" \in EditCodes \ UndoneCodes
    BY <1>4, <2>1 DEF Logs, EditCodes, UndoneCodes
  <2>3. EditShapes'
    BY <1>1, <1>2, <2>1, <2>2, ShapesKept
  <2>4. Consumed'
    BY <1>1, <2>2, ConsumedEnd
  <2>5. ASSUME Workspace!Alone' PROVE AloneHolds'
    <3>1. Workspace!Alone /\ OthersIdle(c)
      BY <1>1, <2>1, <2>2, <2>5, AloneBack DEF OthersIdle
    <3>2. Workspace!Busy = {}
      BY <1>1, <3>1 DEF OthersIdle, Workspace!Busy
    <3>3. MovedOff(Held, log)
      BY <3>1, <3>2 DEF ExecutorInv, AloneHolds
    <3> QED BY <1>1, <2>2, <3>1, <3>3, AloneEnds DEF ExecutorInv
  <2>6. Workspace!FailureRestores
    <3>1. /\ Len(log) \in Nat /\ Len(log') = Len(log) + 1
          /\ log'[Len(log) + 1] = [caller |-> c, effect |-> e, code |-> "effect_refused"]
      BY <1>1, <2>2, Logged
    <3>2. log'[Len(log')].code = "effect_refused"
      BY <3>1
    <3> QED BY <3>2 DEF Workspace!FailureRestores, Workspace!Ended
  <2> QED BY <2>3, <2>4, <2>5, <2>6 DEF StepKept, ExecutorInv
<1> QED BY <1>3, <1>4 DEF Workspace!Execute

\* The steps after the second checkpoint start there.
LEMMA LaterOut ==
    ASSUME EditShapes, NEW c \in Editors, Workspace!Step(c),
           ~Workspace!FirstCheckpoint(c), ~Workspace!SecondCheckpoint(c), ~Workspace!Authorize(c),
           ~Workspace!InspectionFails(c)
    PROVE  Outcome(c) /\ edits[c].pc \notin Opening \cup {"idle"}
<1>1. edits[c].pc \notin Opening \cup {"idle"}
  BY DEF Workspace!Step, Workspace!InspectWrite, Workspace!InspectMkdir, Workspace!InspectDelete,
         Workspace!BackupFree, Workspace!WriteTemporary, Workspace!Replace, Workspace!Synchronise,
         Workspace!StatBackup, Workspace!Mkdir, Workspace!MkdirSync, Workspace!Move,
         Workspace!MoveSync, Workspace!Remove, Workspace!RemoveSync, Workspace!CompareCheckpoint,
         Workspace!AfterCheckpoint, Opening
<1>2. Outcome(c)
  BY InspectWriteOut, InspectMkdirOut, InspectDeleteOut, BackupFreeOut, WriteTemporaryOut,
     ReplaceOut, SynchroniseOut, StatBackupOut, MkdirOut, MkdirSyncOut, MoveOut, MoveSyncOut,
     RemoveOut, RemoveSyncOut, CompareCheckpointOut, AfterCheckpointOut
     DEF Workspace!Step
<1> QED BY <1>1, <1>2

LEMMA ExecutorStep ==
    ASSUME ExecutorInv, [Workspace!Next]_(Workspace!vars)
    PROVE  ExecutorInv' /\ (Workspace!Alone' => [Workspace!FailureRestores]_<<fs, log>>)
<1>1. EditShapes
  BY DEF ExecutorInv
<1>2. CASE UNCHANGED Workspace!vars
  <2>1. UNCHANGED <<fs, litter, edits, used, log, faults>>
    BY <1>2 DEF Workspace!vars
  <2>2. Held' = Held /\ Workspace!Busy' = Workspace!Busy
    BY <2>1 DEF Held, Workspace!Busy
  <2>3. /\ Workspace!CallRecords' = Workspace!CallRecords /\ EditEntries' = EditEntries
        /\ Workspace!Alone' = Workspace!Alone
    BY <2>1, <2>2 DEF Workspace!CallRecords, EditEntries, Workspace!Alone
  <2>4. EditShapes'
    BY <1>1, <2>1, <2>2, <2>3 DEF EditShapes, FileShapes, Workspace!Idle
  <2>5. Consumed'
    BY <2>1 DEF ExecutorInv, Consumed, Workspace!ApprovalAppliedOnce
  <2>6. AloneHolds => AloneHolds'
    BY <2>1, <2>2 DEF AloneHolds, Workspace!AppliedOnce, Workspace!Changing
  <2> QED BY <2>1, <2>3, <2>4, <2>5, <2>6 DEF ExecutorInv
<1>3. ASSUME NEW c \in Editors, NEW e \in Edits, NEW receipt \in BOOLEAN,
             Workspace!Execute(c, e, receipt)
      PROVE  StepKept
  BY <1>3, ExecuteKeeps
<1>4. ASSUME NEW c \in Editors, OpeningOutcome(c), edits[c].pc # "idle"
      PROVE  StepKept
  BY <1>4, OpensKeeps, StopsKeeps DEF OpeningOutcome
<1>5. ASSUME NEW c \in Editors, Outcome(c), edits[c].pc \notin Opening \cup {"idle"}
      PROVE  StepKept
  BY <1>5, TurnsKeeps, StopsKeeps DEF Outcome
<1>6. ASSUME NEW c \in Editors, Workspace!Crash(c) \/ Workspace!InspectionFails(c)
      PROVE  StepKept
  <2>1. edits[c].pc # "idle"
    BY <1>1, <1>6 DEF Workspace!Crash, Workspace!InspectionFails, EditShapes,
                      Workspace!CallRecords, Workspace!Phases
  <2> QED BY <1>1, <1>6, <2>1, CrashOut, InspectionFailsOut, StopsKeeps
<1>7. ASSUME NEW c \in Editors, Workspace!Step(c) PROVE StepKept
  <2>1. CASE Workspace!FirstCheckpoint(c) \/ Workspace!SecondCheckpoint(c) \/ Workspace!Authorize(c)
    <3>1. edits[c].pc # "idle"
      BY <2>1 DEF Workspace!FirstCheckpoint, Workspace!SecondCheckpoint,
                  Workspace!VerifyCheckpoint, Workspace!Authorize
    <3> QED BY <1>1, <1>4, <2>1, <3>1, VerifyCheckpointOut, AuthorizeOut
  <2>2. CASE Workspace!InspectionFails(c)
    BY <1>6, <2>2
  <2> QED BY <1>1, <1>5, <1>7, <2>1, <2>2, LaterOut
<1>8. CASE Workspace!Next
  <2>1. StepKept
    BY <1>3, <1>6, <1>7, <1>8 DEF Workspace!Next
  <2> QED BY <2>1 DEF StepKept
<1> QED BY <1>2, <1>8

LEMMA ExecutorInit ==
    ASSUME Workspace!Init
    PROVE  ExecutorInv
<1>1. /\ \A c \in Editors : edits[c] = Workspace!Idle /\ edits[c].pc = "idle"
      /\ edits \in [Editors -> {Workspace!Idle} \cup Workspace!CallRecords]
      /\ log = <<>> /\ used = {} /\ faults = 0 /\ litter = 0
  BY DEF Workspace!Init, Workspace!Idle
<1>2. \A p \in Paths : fs[p] = [data |-> Files[p], inode |-> Missing]
  BY DEF Workspace!Init
<1>3. fs \in [Paths -> [data : Texts \cup {Workspace!Dir, Missing}, inode : Editors \cup {Missing}]]
  BY EditConstants DEF Workspace!Init
<1>4. FileShapes
  BY <1>1, <1>2, <1>3, EditConstants DEF FileShapes
<1>5. Workspace!Busy = {} /\ Cardinality(Workspace!Busy) = 0 /\ IsFiniteSet(Workspace!Busy)
  BY <1>1, FS_EmptySet DEF Workspace!Busy
<1>6. EditShapes
  BY <1>1, <1>4, <1>5, EditConstants DEF EditShapes
<1>7. Consumed
  BY <1>1 DEF Consumed, Late, Workspace!ApprovalAppliedOnce
<1>8. Safe(Held)
  <2>1. ASSUME NEW p \in Paths PROVE Held[p] = Files[p]
    <3>1. Held[p] = fs[p].data
      BY DEF Held
    <3>2. fs[p] = [data |-> Files[p], inode |-> Missing]
      BY <1>2
    <3> QED BY <3>1, <3>2
  <2> QED BY <2>1 DEF Safe
<1>9. MovedOff(Held, log) /\ Workspace!AppliedOnce
  BY <1>1 DEF MovedOff, Workspace!AppliedOnce
<1> QED BY <1>1, <1>6, <1>7, <1>8, <1>9 DEF ExecutorInv, AloneHolds, Opening

LEMMA ExecutorInvKept ==
    ASSUME ExecutorInv
    PROVE  /\ Workspace!TypeOK /\ Workspace!ApprovalAppliedOnce
           /\ Workspace!Alone => Workspace!Recoverable /\ Workspace!AppliedOnce
<1>1. Workspace!TypeOK
  <2>1. EditShapes /\ FileShapes
    BY DEF ExecutorInv, EditShapes
  <2>2. \A c \in Editors : edits[c] \in {Workspace!Idle} \cup Workspace!CallRecords
    BY <2>1 DEF EditShapes
  <2>3. used \subseteq Edits /\ Len(log) + Workspace!Cardinality(Workspace!Busy) <= MaxEdits
    BY <2>1, BusyCounted DEF EditShapes
  <2> QED BY <2>1, <2>2, <2>3 DEF FileShapes, Workspace!TypeOK
<1>2. Workspace!ApprovalAppliedOnce
  BY DEF ExecutorInv, Consumed
<1>3. ASSUME Workspace!Alone PROVE Workspace!Recoverable /\ Workspace!AppliedOnce
  <2>1. AloneHolds
    BY <1>3 DEF ExecutorInv
  <2> QED BY <2>1 DEF AloneHolds, Safe, Held, Workspace!Recoverable
<1> QED BY <1>1, <1>2, <1>3

\* The workspace executor: an approval is good for one application, however the calls of any
\* number of callers interleave; and while one caller works alone, whatever system calls fail
\* and wherever the server dies, what the workspace held at the beginning is in some file, a
\* failed mutation has put every path back, and an applied effect is not applied again before
\* something else changed the workspace (execute and the rollbacks of its undo journal).
THEOREM ExecutorIsKept == Workspace!Spec => ExecutorKept
<1>1. Workspace!Init => ExecutorInv
  BY ExecutorInit
<1>2. ExecutorInv /\ [Workspace!Next]_(Workspace!vars) => ExecutorInv'
  BY ExecutorStep
<1>3. ExecutorInv => /\ Workspace!TypeOK /\ Workspace!ApprovalAppliedOnce
                     /\ Workspace!Alone => Workspace!Recoverable /\ Workspace!AppliedOnce
  BY ExecutorInvKept
<1>4. ExecutorInv /\ [Workspace!Next]_(Workspace!vars)
         => [Workspace!Alone' => Workspace!FailureRestores]_<<fs, log>>
  BY ExecutorStep
<1> QED BY <1>1, <1>2, <1>3, <1>4, PTL DEF Workspace!Spec, ExecutorKept
=============================================================================
