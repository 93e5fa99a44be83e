-------------------------- MODULE OutboundSendProofs --------------------------
(***************************************************************************)
(* Proofs about OutboundSend, for any handlers, requests, keys and files.  *)
(*                                                                         *)
(* AtMostOneProviderCall is not inductive: it rests on who may call the    *)
(* provider.  IInv adds that                                               *)
(*   - a row is bound to one request and one thread from its insertion on, *)
(*   - a handler past the read-back works on the row of its own request,   *)
(*   - a handler past the claim has its row in sending, and no other       *)
(*     handler is past the claim of the same key,                          *)
(*   - a row that was not claimed has no call, and a handler about to call *)
(*     is the first to do so.                                              *)
(*                                                                         *)
(* Records, over IInv, is what answers, messages, threads, raw objects and *)
(* files rest on; the other properties of the module follow from it.       *)
(***************************************************************************)
EXTENDS OutboundSend, TLAPS

Known(h) == pc[h] # "idle" => req[h] \in Requests /\ thread[h] \in Threads \cup Handlers

RowIsOf(k) ==
  IF sends[k].state = "absent"
  THEN sends[k] = NoRow
  ELSE /\ sends[k].request \in Requests
       /\ KeyOf[sends[k].request] = k
       /\ sends[k].thread \in Threads \cup Handlers

OnOwnRow(h) ==
  pc[h] \in {"claim", "lost", "recover"} \cup Owning =>
    SameRequest(h) /\ Row(h).thread = thread[h]

OwnInserted(h) ==
  pc[h] = "readBack" /\ inserted[h] => SameRequest(h) /\ Row(h).thread = thread[h]

Bookkeeping ==
  /\ \A h \in Handlers : Known(h) /\ OnOwnRow(h) /\ OwnInserted(h)
  /\ \A k \in Keys : RowIsOf(k)

OwnerHolds(h) == pc[h] \in Owning => Row(h).state = "sending"

Ownership ==
  /\ \A h \in Handlers : OwnerHolds(h)
  /\ \A g, h \in Handlers : pc[g] \in Owning /\ pc[h] \in Owning /\ Key(g) = Key(h) => g = h

Called(h) ==
  /\ pc[h] = "deliver" => calls[Key(h)] = 0
  /\ pc[h] \in Owning \ {"deliver"} => calls[Key(h)] = 1 /\ result[h] \in {"sent", "unknown"}

Counting ==
  /\ \A h \in Handlers : Called(h)
  /\ \A k \in Keys : /\ calls[k] \in 0..1
                     /\ sends[k].state \in {"absent", "queued", "failed"} => calls[k] = 0

IInv == TypeOK /\ Bookkeeping /\ Ownership /\ Counting

Acts(h) == (\E r \in Requests : Receive(h, r)) \/ Progress(h) \/ Crash(h)

-------------------------------------------------------------------------------
\* What is the case before anything was submitted.
LEMMA InitIInv == Init => IInv
<1> SUFFICES ASSUME Init PROVE IInv
  OBVIOUS
<1> USE DEF Init
<1>1. TypeOK
  BY FreshNames DEF TypeOK, Rows, NoRow, Steps, Replies, SendStates
<1>2. Bookkeeping
  BY DEF Bookkeeping, Known, OnOwnRow, OwnInserted, RowIsOf, NoRow, Owning
<1>3. Ownership
  BY DEF Ownership, OwnerHolds, Owning
<1>4. Counting
  BY DEF Counting, Called, Owning
<1> QED
  BY <1>1, <1>2, <1>3, <1>4 DEF IInv

\* What the statements write into a row is a row: of the same request and thread.
LEMMA AttemptedRow ==
  ASSUME TypeOK, NEW h \in Handlers, Key(h) \in Keys, NEW state \in SendStates
  PROVE  /\ Attempted(h, state) \in Rows
         /\ Attempted(h, state).request = Row(h).request
         /\ Attempted(h, state).thread = Row(h).thread
         /\ Attempted(h, state).state = state
<1> DEFINE With(n) == [Row(h) EXCEPT !.state = state, !.attempts = n]
<1>1. Row(h) \in Rows /\ Row(h).attempts + 1 \in Nat
  BY DEF TypeOK, Row, Rows
<1>2. ASSUME NEW n \in Nat
      PROVE  With(n) \in Rows /\ With(n).request = Row(h).request
               /\ With(n).thread = Row(h).thread /\ With(n).state = state
  BY <1>1 DEF Rows
<1> HIDE DEF With
<1>3. Attempted(h, state) = With(Row(h).attempts + 1)
  BY DEF Attempted, With
<1> QED
  BY <1>1, <1>2, <1>3

LEMMA RowUpdates ==
  ASSUME TypeOK, NEW h \in Handlers, Key(h) \in Keys
  PROVE  /\ req[h] \in Requests /\ thread[h] \in Threads \cup Handlers =>
              QueuedRow(h) \in Rows
         /\ UnknownRow(h) \in Rows
         /\ result[h] \in {"sent", "unknown"} => FinalRow(h) \in Rows
         /\ UnknownRow(h).request = Row(h).request /\ UnknownRow(h).thread = Row(h).thread
         /\ UnknownRow(h).state = "unknown"
         /\ FinalRow(h).request = Row(h).request /\ FinalRow(h).thread = Row(h).thread
         /\ FinalRow(h).state = result[h]
<1>1. Row(h) \in Rows
  BY DEF TypeOK, Row
<1>2. req[h] \in Requests /\ thread[h] \in Threads \cup Handlers => QueuedRow(h) \in Rows
  BY DEF QueuedRow, Rows, NoRow, SendStates
<1>3. UnknownRow(h) \in Rows
  BY <1>1 DEF UnknownRow, ProviderId, Rows, SendStates
<1>4. result[h] \in {"sent", "unknown"} => FinalRow(h) \in Rows
  BY <1>1 DEF FinalRow, ProviderId, Rows, SendStates
<1>5. /\ UnknownRow(h).request = Row(h).request /\ UnknownRow(h).thread = Row(h).thread
      /\ UnknownRow(h).state = "unknown"
  BY <1>1 DEF UnknownRow, Rows
<1>6. /\ FinalRow(h).request = Row(h).request /\ FinalRow(h).thread = Row(h).thread
      /\ FinalRow(h).state = result[h]
  BY <1>1 DEF FinalRow, Rows
<1> QED
  BY <1>2, <1>3, <1>4, <1>5, <1>6

\* The statements that write a row leave its request and its thread as they were, and
\* never take it back to absent.
RowKept(k) ==
  sends[k].state # "absent" =>
    /\ sends'[k].state # "absent"
    /\ sends'[k].request = sends[k].request
    /\ sends'[k].thread = sends[k].thread

\* A handler writes no row but the one of its key.
LEMMA RowsKept ==
  ASSUME IInv, NEW h \in Handlers, Acts(h)
  PROVE  /\ \A k \in Keys : RowKept(k)
         /\ \A k \in Keys : sends'[k] = sends[k] \/ (k = Key(h) /\ pc[h] # "idle")
<1> USE DEF RowKept, IInv
<1>a. pc[h] # "idle" => Key(h) \in Keys
  BY RequestShape DEF Key, Bookkeeping, Known
<1>b. sends \in [Keys -> Rows]
  BY DEF TypeOK
<1>1. CASE UNCHANGED sends
  BY <1>1
<1>2. CASE Reserve(h)
  BY <1>2, <1>a, <1>b DEF Reserve, KeyFree
<1>3. CASE RelayFails(h)
  BY <1>3, <1>a, <1>b, AttemptedRow DEF RelayFails, Row, SendStates
<1>4. CASE Claim(h)
  BY <1>4, <1>a, <1>b, AttemptedRow DEF Claim, Row, SendStates
<1>5. CASE RecordUnknown(h)
  BY <1>5, <1>a, <1>b, RowUpdates DEF RecordUnknown, Row
<1>6. CASE Project(h)
  BY <1>6, <1>a, <1>b, RowUpdates DEF Project, Row, Counting, Called, Owning
<1> QED
  BY <1>1, <1>2, <1>3, <1>4, <1>5, <1>6
  DEF Acts, Progress, Receive, Reject, Validate, RelayCheck, Conflict, Replay, Proceed,
      LoseClaim, Attach, Deliver, Archive, ArchiveFails, ProjectFails, Recover, Crash, stored

\* A handler touches the step, request and thread of no other handler, and keeps its own
\* request once it has one.
LEMMA OthersKept ==
  ASSUME TypeOK, NEW h \in Handlers, Acts(h)
  PROVE  /\ \A g \in Handlers \ {h} :
              /\ pc'[g] = pc[g] /\ req'[g] = req[g] /\ thread'[g] = thread[g]
              /\ inserted'[g] = inserted[g] /\ result'[g] = result[g]
              /\ nextFile'[g] = nextFile[g]
         /\ pc[h] # "idle" => req'[h] = req[h]
         /\ pc'[h] # "idle"
  BY DEF TypeOK, Acts, Progress, Receive, Reject, Validate, RelayCheck, Reserve, Conflict,
         Replay, Proceed, RelayFails, Claim, LoseClaim, Attach, Deliver, Archive,
         ArchiveFails, RecordUnknown, Project, ProjectFails, Recover, Crash, Goto, Answer,
         locals

\* Types are kept by every step, given what is known of rows and handlers.
LEMMA StepTypeOK ==
  ASSUME IInv, NEW h \in Handlers, Acts(h)
  PROVE  TypeOK'
<1> USE DEF IInv, TypeOK
<1>a. pc[h] # "idle" => req[h] \in Requests /\ thread[h] \in Threads \cup Handlers
  BY DEF Bookkeeping, Known
<1>b. pc[h] # "idle" => Key(h) \in Keys
  BY <1>a, RequestShape DEF Key
<1>c. pc[h] # "idle" /\ SameRequest(h) => StateReply(h) \in Replies /\ Row(h).state \in Replies
  BY <1>a, <1>b, FreshNames
  DEF SameRequest, StateReply, RelayReply, Row, Rows, Replies, SendStates, Bookkeeping, RowIsOf, NoRow
<1>1. ASSUME NEW r \in Requests, Receive(h, r) PROVE TypeOK'
  BY <1>1, RequestShape DEF Receive, Goto, Steps, provider
<1>2. CASE Reject(h)
  BY <1>2 DEF Reject, Answer, Steps, Replies, stored, provider, locals
<1>3. CASE Validate(h)
  BY <1>3 DEF Validate, Goto, Steps, stored, provider, locals
<1>4. CASE RelayCheck(h)
  BY <1>4 DEF RelayCheck, Answer, Goto, Steps, Replies, stored, provider, locals
<1>5. CASE Reserve(h)
  <2>1. sends' \in [Keys -> Rows]
    BY <1>5, <1>a, <1>b, RowUpdates DEF Reserve
  <2>2. QED
    BY <1>5, <1>a, <2>1 DEF Reserve, KeyFree, Goto, Steps, provider
<1>6. CASE Conflict(h)
  BY <1>6 DEF Conflict, Answer, Steps, Replies, stored, provider, locals
<1>7. CASE Replay(h)
  BY <1>7, <1>a, <1>c DEF Replay, Answer, Steps, Replies, stored, provider, locals
<1>8. CASE Proceed(h)
  BY <1>8, <1>a, <1>b DEF Proceed, Goto, Steps, stored, provider, ReservedThread, Row, Rows, SameRequest, Bookkeeping, RowIsOf
<1>9. CASE RelayFails(h)
  <2>1. sends' \in [Keys -> Rows]
    BY <1>9, <1>a, <1>b, AttemptedRow DEF RelayFails, SendStates
  <2>2. QED
    BY <1>9, <2>1 DEF RelayFails, Answer, Steps, Replies, SendStates, provider, locals
<1>10. CASE Claim(h)
  <2>1. sends' \in [Keys -> Rows]
    BY <1>10, <1>a, <1>b, AttemptedRow DEF Claim, SendStates
  <2>2. QED
    BY <1>10, <2>1 DEF Claim, Goto, Steps, provider, locals
<1>11. CASE LoseClaim(h)
  BY <1>11, <1>a, <1>c DEF LoseClaim, Answer, Steps, Replies, stored, provider, locals, Bookkeeping, OnOwnRow
<1>12. CASE Attach(h)
  <2>0. boundTo' \in [Files -> Keys \cup {None}]
    BY <1>12, <1>b DEF Attach
  <2>1. nextFile' \in [Handlers -> Nat \ {0}]
    BY <1>12 DEF Attach
  <2>2. pc' \in [Handlers -> Steps] /\ reply' \in [Handlers -> Replies]
    BY <1>12 DEF Attach, Answer, Steps, Replies
  <2>3. QED
    BY <1>12, <2>0, <2>1, <2>2 DEF Attach, provider
<1>13. CASE Deliver(h)
  BY <1>13, <1>b DEF Deliver, Goto, Steps, stored
<1>14. CASE Archive(h)
  BY <1>14 DEF Archive, Goto, Steps, provider, locals
<1>15. CASE ArchiveFails(h)
  BY <1>15 DEF ArchiveFails, Goto, Steps, stored, provider, locals
<1>16. CASE RecordUnknown(h)
  <2>1. sends' \in [Keys -> Rows]
    BY <1>16, <1>a, <1>b, RowUpdates DEF RecordUnknown
  <2>2. QED
    BY <1>16, <2>1 DEF RecordUnknown, Answer, Steps, Replies, SendStates, provider, locals
<1>17. CASE Project(h)
  <2>0. result[h] \in {"sent", "unknown"}
    BY <1>17 DEF Project, Counting, Called, Owning
  <2>1. sends' \in [Keys -> Rows]
    BY <1>17, <1>a, <1>b, <2>0, RowUpdates DEF Project
  <2>2. QED
    BY <1>17, <1>a, <2>0, <2>1 DEF Project, Answer, Goto, Steps, Replies, SendStates, provider, locals, Messages
<1>18. CASE ProjectFails(h)
  BY <1>18 DEF ProjectFails, Goto, Steps, stored, provider, locals
<1>19. CASE Recover(h)
  <2>1. SameRequest(h)
    BY <1>19 DEF Recover, Bookkeeping, OnOwnRow
  <2>2. QED
    BY <1>19, <1>c, <2>1 DEF Recover, Answer, Steps, Replies, SendStates, stored, provider, locals
<1>20. CASE Crash(h)
  BY <1>20 DEF Crash, Goto, Steps, stored, provider, locals
<1> QED
  BY <1>1, <1>2, <1>3, <1>4, <1>5, <1>6, <1>7, <1>8, <1>9, <1>10, <1>11, <1>12, <1>13, <1>14, <1>15, <1>16, <1>17, <1>18, <1>19, <1>20 DEF Acts, Progress

\* Rows keep their request, and handlers past the read-back keep to their row.
LEMMA StepBookkeeping ==
  ASSUME IInv, NEW h \in Handlers, Acts(h)
  PROVE  Bookkeeping'
<1> USE DEF IInv
<1>a. /\ \A k \in Keys : RowKept(k)
      /\ \A k \in Keys : sends'[k] = sends[k] \/ (k = Key(h) /\ pc[h] # "idle")
  BY RowsKept
<1>b. /\ \A g \in Handlers \ {h} :
           /\ pc'[g] = pc[g] /\ req'[g] = req[g] /\ thread'[g] = thread[g]
           /\ inserted'[g] = inserted[g]
      /\ pc[h] # "idle" => req'[h] = req[h]
      /\ pc'[h] # "idle"
  BY OthersKept
<1>c. TypeOK /\ TypeOK'
  BY StepTypeOK
<1>d. \A g \in Handlers : pc[g] # "idle" => Key(g) \in Keys
  BY RequestShape DEF Key, Bookkeeping, Known
<1>e. \A g \in Handlers : pc[g] # "idle" /\ SameRequest(g) => Row(g).state # "absent"
  BY <1>d, FreshNames DEF Bookkeeping, Known, RowIsOf, SameRequest, Row, NoRow, Key
<1>1. \A g \in Handlers : Known(g)'
  <2>1. \A g \in Handlers \ {h} : Known(g)'
    BY <1>b DEF Bookkeeping, Known
  <2>2. req'[h] \in Requests /\ thread'[h] \in Threads \cup Handlers
    <3>1. CASE \E r \in Requests : Receive(h, r)
      BY <3>1, <1>c, RequestShape DEF Receive, TypeOK
    <3>2. CASE Proceed(h)
      BY <3>2, <1>c, <1>d, <1>e DEF Proceed, ReservedThread, TypeOK, Bookkeeping, Known, RowIsOf, Row
    <3>3. CASE ~(\E r \in Requests : Receive(h, r)) /\ ~Proceed(h)
      BY <3>3 DEF Bookkeeping, Known, Acts, Progress, Reject, Validate, RelayCheck, Reserve,
           Conflict, Replay, RelayFails, Claim, LoseClaim, Attach, Deliver, Archive, ArchiveFails,
           RecordUnknown, Project, ProjectFails, Recover, Crash, locals
    <3> QED
      BY <3>1, <3>2, <3>3
  <2> QED
    BY <2>1, <2>2 DEF Known
<1>2. \A k \in Keys : RowIsOf(k)'
  <2> SUFFICES ASSUME NEW k \in Keys PROVE RowIsOf(k)'
    OBVIOUS
  <2>1. CASE sends[k].state # "absent"
    BY <2>1, <1>a DEF RowKept, RowIsOf, Bookkeeping
  <2>2. CASE sends[k].state = "absent" /\ sends'[k] = sends[k]
    BY <2>2 DEF RowIsOf, Bookkeeping
  <2>3. CASE sends[k].state = "absent" /\ sends'[k] # sends[k]
    <3>1. k = Key(h) /\ pc[h] # "idle"
      BY <2>3, <1>a
    <3>2. ~SameRequest(h)
      BY <2>3, <3>1, <1>e DEF Row
    <3>3. Reserve(h)
      BY <2>3, <3>1, <3>2
      DEF Acts, Progress, Receive, Reject, Validate, RelayCheck, Conflict, Replay, Proceed,
          RelayFails, MayFail, Claim, Claimable, LoseClaim, Attach, Deliver, Archive, ArchiveFails,
          RecordUnknown, MayBecomeUnknown, Project, ClaimHeld, ProjectFails, Recover, Crash, stored
    <3>4. sends'[k] = QueuedRow(h)
      BY <2>3, <3>1, <3>3, <1>c DEF Reserve, KeyFree, TypeOK
    <3> QED
      BY <3>1, <3>4 DEF RowIsOf, QueuedRow, NoRow, Key, Bookkeeping, Known
  <2> QED
    BY <2>1, <2>2, <2>3
<1>3. \A g \in Handlers \ {h} : OnOwnRow(g)' /\ OwnInserted(g)'
  <2> SUFFICES ASSUME NEW g \in Handlers \ {h} PROVE OnOwnRow(g)' /\ OwnInserted(g)'
    OBVIOUS
  <2>1. pc'[g] = pc[g] /\ req'[g] = req[g] /\ thread'[g] = thread[g] /\ inserted'[g] = inserted[g]
    BY <1>b
  <2>2. pc[g] # "idle" /\ SameRequest(g) =>
          SameRequest(g)' /\ Row(g)'.thread = Row(g).thread
    BY <2>1, <1>a, <1>d, <1>e DEF RowKept, SameRequest, Row, Key
  <2> QED
    BY <2>1, <2>2 DEF OnOwnRow, OwnInserted, Bookkeeping, Owning, SameRequest, Row
<1>4. OnOwnRow(h)' /\ OwnInserted(h)'
  <2>1. pc[h] # "idle" /\ SameRequest(h) => SameRequest(h)' /\ Row(h)'.thread = Row(h).thread
    BY <1>a, <1>b, <1>d, <1>e DEF RowKept, SameRequest, Row, Key
  <2>2. CASE Reserve(h)
    <3>1. inserted'[h] => sends'[Key(h)] = QueuedRow(h)
      BY <2>2, <1>c, <1>d DEF Reserve, KeyFree, TypeOK
    <3>2. pc'[h] = "readBack" /\ req'[h] = req[h] /\ thread'[h] = thread[h]
      BY <2>2, <1>c DEF Reserve, Goto, TypeOK
    <3> QED
      BY <3>1, <3>2 DEF OnOwnRow, OwnInserted, SameRequest, Row, Key, QueuedRow, NoRow, Owning
  <2>3. CASE Proceed(h)
    <3>1. pc'[h] = "claim" /\ thread'[h] = ReservedThread(h) /\ SameRequest(h) /\ pc[h] = "readBack"
      BY <2>3, <1>c DEF Proceed, Goto, TypeOK
    <3>2. thread'[h] = Row(h).thread
      BY <3>1 DEF ReservedThread, Bookkeeping, OwnInserted
    <3> QED
      BY <2>1, <3>1, <3>2 DEF OnOwnRow, OwnInserted
  <2>4. CASE ~Reserve(h) /\ ~Proceed(h)
    <3>1. pc'[h] \in {"claim", "lost", "recover"} \cup Owning =>
            pc[h] \in {"claim", "lost", "recover"} \cup Owning /\ thread'[h] = thread[h]
      BY <2>4, <1>c DEF Acts, Progress, Receive, Reject, Validate, RelayCheck, Conflict, Replay,
           RelayFails, Claim, LoseClaim, Attach, Deliver, Archive, ArchiveFails, RecordUnknown,
           Project, ProjectFails, Recover, Crash, Goto, Answer, locals, Owning, TypeOK
    <3>2. pc'[h] # "readBack"
      BY <2>4, <1>c DEF Acts, Progress, Receive, Reject, Validate, RelayCheck, Conflict, Replay,
           RelayFails, Claim, LoseClaim, Attach, Deliver, Archive, ArchiveFails, RecordUnknown,
           Project, ProjectFails, Recover, Crash, Goto, Answer, TypeOK
    <3> QED
      BY <3>1, <3>2, <2>1 DEF OnOwnRow, OwnInserted, Bookkeeping, Owning
  <2> QED
    BY <2>2, <2>3, <2>4
<1> QED
  BY <1>1, <1>2, <1>3, <1>4 DEF Bookkeeping

\* Only the one handler whose claim changed the row gets past the claim.
LEMMA StepOwnership ==
  ASSUME IInv, NEW h \in Handlers, Acts(h)
  PROVE  Ownership'
<1> USE DEF IInv
<1>a. /\ \A k \in Keys : sends'[k] = sends[k] \/ (k = Key(h) /\ pc[h] # "idle")
      /\ \A g \in Handlers \ {h} : pc'[g] = pc[g] /\ req'[g] = req[g]
      /\ pc[h] # "idle" => req'[h] = req[h]
  BY RowsKept, OthersKept
<1>b. \A g \in Handlers : pc[g] # "idle" => Key(g) \in Keys
  BY RequestShape DEF Key, Bookkeeping, Known
<1>c. TypeOK /\ TypeOK'
  BY StepTypeOK
<1>1. CASE Claim(h) /\ Claimable(h)
  <2>1. pc[h] = "claim" /\ pc' = [pc EXCEPT ![h] = "deliver"] /\ Key(h)' = Key(h)
    BY <1>1, <1>a DEF Claim, Goto, Key
  <2>2. sends' = [sends EXCEPT ![Key(h)] = Attempted(h, "sending")]
    BY <1>1 DEF Claim
  <2>3. Row(h).state = "queued" /\ Row(h)'.state = "sending"
    BY <1>1, <1>b, <1>c, <2>1, <2>2, AttemptedRow DEF Claimable, Row, TypeOK, SendStates
  <2>4. \A g \in Handlers : pc[g] \in Owning => Key(g) # Key(h)
    BY <2>3 DEF Ownership, OwnerHolds, Row
  <2> QED
    BY <2>1, <2>2, <2>3, <2>4, <1>a, <1>b, <1>c
    DEF Ownership, OwnerHolds, Row, Key, Owning, TypeOK
<1>2. CASE ~(Claim(h) /\ Claimable(h))
  <2>1. pc'[h] \in Owning => pc[h] \in Owning
    BY <1>2, <1>c DEF Acts, Progress, Receive, Reject, Validate, RelayCheck, Reserve, Conflict,
         Replay, Proceed, RelayFails, Claim, LoseClaim, Attach, Deliver, Archive, ArchiveFails,
         RecordUnknown, Project, ProjectFails, Recover, Crash, Goto, Answer, Owning, TypeOK
  <2>2. \A g \in Handlers : pc'[g] \in Owning => pc[g] \in Owning /\ Key(g)' = Key(g)
    BY <2>1, <1>a DEF Key, Owning
  <2>3. \A g, i \in Handlers : pc'[g] \in Owning /\ pc'[i] \in Owning /\ Key(g)' = Key(i)' => g = i
    BY <2>2 DEF Ownership
  <2>4. pc'[h] \in Owning => sends' = sends
    BY <1>2, <2>1, <1>c DEF Acts, Progress, Receive, Reject, Validate, RelayCheck, Reserve, Conflict,
         Replay, Proceed, RelayFails, Claim, LoseClaim, Attach, Deliver, Archive, ArchiveFails,
         RecordUnknown, Project, ProjectFails, Recover, Crash, Goto, Answer, Owning, TypeOK, stored
  <2>5. CASE pc'[h] \in Owning
    BY <2>2, <2>3, <2>4, <2>5 DEF Ownership, OwnerHolds, Row
  <2>6. CASE pc'[h] \notin Owning /\ sends' = sends
    BY <2>2, <2>3, <2>6 DEF Ownership, OwnerHolds, Row
  <2>7. CASE pc'[h] \notin Owning /\ sends' # sends
    <3>1. Row(h).state \in {"absent", "queued"} \/ pc[h] \in Owning
      BY <2>7, <1>2 DEF Acts, Progress, Receive, Reject, Validate, RelayCheck, Reserve, KeyFree,
         Conflict, Replay, Proceed, RelayFails, MayFail, Claim, LoseClaim, Attach, Deliver, Archive,
         ArchiveFails, RecordUnknown, Project, ProjectFails, Recover, Crash, Owning, Row, stored
    <3>2. \A g \in Handlers \ {h} : pc[g] \in Owning => Key(g) # Key(h)
      BY <3>1 DEF Ownership, OwnerHolds, Row
    <3>3. \A g \in Handlers \ {h} : pc[g] \in Owning => Row(g)' = Row(g)
      BY <3>2, <1>a, <1>b DEF Row, Key, Owning
    <3> QED
      BY <2>2, <2>3, <2>7, <3>3 DEF Ownership, OwnerHolds
  <2> QED
    BY <2>5, <2>6, <2>7
<1> QED
  BY <1>1, <1>2

\* The provider is called by the owner of the claim, and only as its first step.
LEMMA StepCounting ==
  ASSUME IInv, NEW h \in Handlers, Acts(h)
  PROVE  Counting'
<1> USE DEF IInv
<1>a. /\ \A k \in Keys : sends'[k] = sends[k] \/ (k = Key(h) /\ pc[h] # "idle")
      /\ \A g \in Handlers \ {h} : pc'[g] = pc[g] /\ req'[g] = req[g] /\ result'[g] = result[g]
      /\ pc[h] # "idle" => req'[h] = req[h]
  BY RowsKept, OthersKept
<1>b. \A g \in Handlers : pc[g] # "idle" => Key(g) \in Keys
  BY RequestShape DEF Key, Bookkeeping, Known
<1>c. TypeOK /\ TypeOK'
  BY StepTypeOK
<1>1. CASE Deliver(h)
  <2>1. /\ pc[h] = "deliver" /\ Row(h).state = "sending" /\ calls[Key(h)] = 0
        /\ \A g \in Handlers \ {h} : pc[g] \in Owning => Key(g) # Key(h)
    BY <1>1 DEF Deliver, Ownership, OwnerHolds, Owning, Counting, Called
  <2>2. /\ calls'[Key(h)] = 1
        /\ \A k \in Keys \ {Key(h)} : calls'[k] = calls[k]
        /\ sends' = sends
    BY <1>1, <1>b, <1>c, <2>1 DEF Deliver, TypeOK, stored
  <2>3. pc'[h] \in Owning \ {"deliver"} /\ result'[h] \in {"sent", "unknown"} /\ Key(h)' = Key(h)
    BY <1>1, <1>a, <1>c, <2>1 DEF Deliver, Goto, Owning, Key, TypeOK
  <2>4. \A g \in Handlers \ {h} : Called(g)'
    BY <1>a, <1>b, <2>1, <2>2 DEF Called, Counting, Key, Owning
  <2>5. Called(h)'
    BY <2>2, <2>3 DEF Called
  <2>6. \A k \in Keys : /\ calls'[k] \in 0..1
                        /\ sends'[k].state \in {"absent", "queued", "failed"} => calls'[k] = 0
    BY <2>1, <2>2 DEF Counting, Row
  <2> QED
    BY <2>4, <2>5, <2>6 DEF Counting
<1>2. CASE ~Deliver(h)
  <2>1. calls' = calls
    BY <1>2 DEF Acts, Progress, Receive, Reject, Validate, RelayCheck, Reserve, Conflict,
       Replay, Proceed, RelayFails, Claim, LoseClaim, Attach, Archive, ArchiveFails,
       RecordUnknown, Project, ProjectFails, Recover, Crash, provider
  <2>2. \A g \in Handlers \ {h} : Called(g)'
    BY <1>a, <2>1 DEF Called, Counting, Key, Owning
  <2>3. Called(h)'
    <3>1. CASE Claim(h)
      <4>1. /\ pc[h] = "claim"
            /\ pc'[h] = "lost" \/ (pc'[h] = "deliver" /\ Row(h).state = "queued")
        BY <3>1, <1>c DEF Claim, Claimable, Goto, TypeOK
      <4>2. Key(h)' = Key(h) /\ Key(h) \in Keys
        BY <4>1, <1>a, <1>b DEF Key
      <4>3. Row(h).state = "queued" => calls[Key(h)] = 0
        BY <4>2 DEF Counting, Row
      <4> QED
        BY <4>1, <4>2, <4>3, <2>1 DEF Called, Owning
    <3>2. CASE ~Claim(h)
      <4>1. /\ pc'[h] = "deliver" => pc[h] = "deliver"
            /\ pc'[h] \in Owning \ {"deliver"} =>
                 pc[h] \in Owning \ {"deliver"} /\ result'[h] = result[h]
        BY <1>2, <3>2, <1>c DEF Acts, Progress, Receive, Reject, Validate, RelayCheck, Reserve,
           Conflict, Replay, Proceed, RelayFails, LoseClaim, Attach, Archive, ArchiveFails,
           RecordUnknown, Project, ProjectFails, Recover, Crash, Goto, Answer, Owning, TypeOK, locals
      <4> QED
        BY <4>1, <1>a, <2>1 DEF Called, Counting, Key, Owning
    <3> QED
      BY <3>1, <3>2
  <2>4. \A k \in Keys :
          sends'[k].state \in {"absent", "queued", "failed"} =>
            sends[k].state \in {"absent", "queued", "failed"}
    <3>1. CASE sends' = sends
      BY <3>1
    <3>2. CASE Reserve(h)
      BY <3>2, <1>c DEF Reserve, KeyFree, TypeOK
    <3>3. CASE RelayFails(h)
      BY <3>3, <1>c DEF RelayFails, MayFail, Row, TypeOK
    <3>4. CASE Claim(h)
      BY <3>4, <1>c DEF Claim, Claimable, Row, TypeOK
    <3>5. CASE RecordUnknown(h)
      BY <3>5, <1>b, <1>c, RowUpdates DEF RecordUnknown, TypeOK
    <3>6. CASE Project(h)
      BY <3>6, <1>b, <1>c, RowUpdates DEF Project, Called, Counting, Owning, TypeOK
    <3> QED
      BY <3>1, <3>2, <3>3, <3>4, <3>5, <3>6
      DEF Acts, Progress, Receive, Reject, Validate, RelayCheck, Conflict, Replay, Proceed,
          LoseClaim, Attach, Deliver, Archive, ArchiveFails, ProjectFails, Recover, Crash, stored
  <2> QED
    BY <2>1, <2>2, <2>3, <2>4 DEF Counting
<1> QED
  BY <1>1, <1>2

LEMMA StepIInv == IInv /\ [Next]_vars => IInv'
<1> SUFFICES ASSUME IInv, [Next]_vars PROVE IInv'
  OBVIOUS
<1>1. ASSUME NEW h \in Handlers, Acts(h) PROVE IInv'
  BY <1>1, StepTypeOK, StepBookkeeping, StepOwnership, StepCounting DEF IInv
<1>2. CASE UNCHANGED vars
  BY <1>2 DEF vars, stored, provider, locals, IInv, TypeOK, Bookkeeping, Known, OnOwnRow, OwnInserted,
     RowIsOf, Ownership, OwnerHolds, Counting, Called, SameRequest, Row, Key
<1> QED
  BY <1>1, <1>2 DEF Next, Acts

-------------------------------------------------------------------------------
\* The invariant holds in every state of every instance.
THEOREM Invariance == Spec => []IInv
  BY InitIInv, StepIInv, PTL DEF Spec

\* Every variable keeps its type (TypeOK of OutboundSend).
THEOREM TypeCorrect == Spec => []TypeOK
<1>1. IInv => TypeOK
  BY DEF IInv
<1> QED
  BY <1>1, Invariance, PTL

\* However many handlers submit one key, retry it, race for it and stop, the provider is
\* called at most once for it (reserve, claimQueuedSend and EMAIL.send in submitInternalSend
\* and relayReplyAlias).
THEOREM AtMostOnce == Spec => []AtMostOneProviderCall
<1>1. IInv => AtMostOneProviderCall
  BY DEF IInv, Counting, AtMostOneProviderCall
<1> QED
  BY <1>1, Invariance, PTL

\* The claim guard of completeOutboundProjection never turns away the handler that called
\* the provider.
THEOREM CompletionNeverRefused == Spec => []CompletionIsNotRefused
<1>1. IInv => CompletionIsNotRefused
  BY DEF IInv, Bookkeeping, OnOwnRow, Ownership, OwnerHolds, Owning, ClaimHeld,
         CompletionIsNotRefused
<1> QED
  BY <1>1, Invariance, PTL

\* A settled send is never written again: every statement that writes a row of
\* outbound_sends asks for one that is absent, queued or sending.
THEOREM SettledForGood == Spec => SettledIsFinal
<1>1. ASSUME IInv, [Next]_vars
      PROVE  [\A k \in Keys : sends[k].state \in Settled => UNCHANGED sends[k]]_vars
  <2>1. ASSUME NEW h \in Handlers, Acts(h), NEW k \in Keys, sends[k].state \in Settled
        PROVE  sends'[k] = sends[k]
    <3> USE <1>1
    <3>1. sends'[k] = sends[k] \/ (k = Key(h) /\ pc[h] # "idle")
      BY <2>1, RowsKept
    <3>2. CASE k = Key(h) /\ pc[h] # "idle"
      <4>1. Row(h).state \in Settled
        BY <2>1, <3>2 DEF Row
      <4>2. pc[h] \notin Owning
        BY <4>1 DEF IInv, Ownership, OwnerHolds, Settled
      <4> QED
        BY <2>1, <3>2, <4>1, <4>2
        DEF Acts, Progress, Receive, Reject, Validate, RelayCheck, Reserve, KeyFree, Conflict, Replay,
            Proceed, RelayFails, MayFail, Claim, Claimable, LoseClaim, Attach, Deliver, Archive,
            ArchiveFails, RecordUnknown, Project, ProjectFails, Recover, Crash, stored, Owning,
            Settled, Row
    <3> QED
      BY <3>1, <3>2
  <2>2. CASE UNCHANGED vars
    BY <2>2
  <2> QED
    BY <1>1, <2>1, <2>2 DEF Next, Acts
<1> QED
  BY <1>1, Invariance, PTL DEF Spec, SettledIsFinal

-------------------------------------------------------------------------------
(* The send path implements DeliveryContract.                              *)

Phase == [k \in Keys |-> PhaseOf(sends[k].state)]

\* A handler that writes a state into the row of its key moves that key in the contract.
LEMMA PhaseWritten ==
  ASSUME TypeOK, NEW h \in Handlers, Key(h) \in Keys, NEW row \in Rows,
         sends' = [sends EXCEPT ![Key(h)] = row]
  PROVE  Phase' = [Phase EXCEPT ![Key(h)] = PhaseOf(row.state)]
  BY DEF TypeOK, Phase

\* A row that keeps its state is a stutter of the contract.
LEMMA PhaseKept ==
  ASSUME \A k \in Keys : sends'[k].state = sends[k].state
  PROVE  Phase' = Phase
  BY DEF Phase

\* Nothing is accepted, and nothing handed over, before a submission.
LEMMA ContractInit == Init => Contract!Init
  BY DEF Init, Contract!Init, NoRow, PhaseOf

\* Every step of a handler is one step of the contract, or none.
LEMMA ContractStep ==
  ASSUME IInv, NEW h \in Handlers, Acts(h)
  PROVE  Contract!Next \/ (Phase' = Phase /\ calls' = calls)
<1> USE DEF IInv
<1>a. pc[h] # "idle" => Key(h) \in Keys
  BY RequestShape DEF Key, Bookkeeping, Known
<1>b. pc[h] # "idle" => Phase[Key(h)] = PhaseOf(Row(h).state)
  BY <1>a DEF Phase, Row
<1>1. CASE Reserve(h)
  <2>1. CASE KeyFree(Key(h))
    <3>1. QueuedRow(h) \in Rows /\ QueuedRow(h).state = "queued"
      BY <1>1, <1>a, RowUpdates DEF Reserve, Bookkeeping, Known, QueuedRow, NoRow
    <3>2. Phase' = [Phase EXCEPT ![Key(h)] = "accepted"] /\ Phase[Key(h)] = "absent" /\ calls' = calls
      BY <1>1, <1>a, <1>b, <2>1, <3>1, PhaseWritten DEF Reserve, KeyFree, PhaseOf, Row, provider
    <3>3. Contract!Accept(Key(h))
      BY <3>2 DEF Contract!Accept, Contract!Advance, Phase
    <3> QED
      BY <1>1, <1>a, <3>3 DEF Contract!Next, Reserve
  <2>2. CASE ~KeyFree(Key(h))
    BY <1>1, <2>2, PhaseKept DEF Reserve, provider
  <2> QED
    BY <2>1, <2>2
<1>2. CASE RelayFails(h)
  <2>1. CASE MayFail(h)
    <3>1. Attempted(h, "failed") \in Rows /\ Attempted(h, "failed").state = "failed"
      BY <1>2, <1>a, AttemptedRow DEF RelayFails, SendStates
    <3>2. Phase' = [Phase EXCEPT ![Key(h)] = "failed"] /\ Phase[Key(h)] = "accepted" /\ calls' = calls
      BY <1>2, <1>a, <1>b, <2>1, <3>1, PhaseWritten DEF RelayFails, MayFail, PhaseOf, provider
    <3>3. Contract!Refuse(Key(h))
      BY <3>2 DEF Contract!Refuse, Contract!Advance, Phase
    <3> QED
      BY <1>2, <1>a, <3>3 DEF Contract!Next, RelayFails
  <2>2. CASE ~MayFail(h)
    BY <1>2, <2>2, PhaseKept DEF RelayFails, provider
  <2> QED
    BY <2>1, <2>2
<1>3. CASE Claim(h)
  <2>1. CASE Claimable(h)
    <3>1. Attempted(h, "sending") \in Rows /\ Attempted(h, "sending").state = "sending"
      BY <1>3, <1>a, AttemptedRow DEF Claim, SendStates
    <3>2. Phase' = [Phase EXCEPT ![Key(h)] = "claimed"] /\ Phase[Key(h)] = "accepted" /\ calls' = calls
      BY <1>3, <1>a, <1>b, <2>1, <3>1, PhaseWritten DEF Claim, Claimable, PhaseOf, provider
    <3>3. Contract!Claim(Key(h))
      BY <3>2 DEF Contract!Claim, Contract!Advance, Phase
    <3> QED
      BY <1>3, <1>a, <3>3 DEF Contract!Next, Claim
  <2>2. CASE ~Claimable(h)
    BY <1>3, <2>2, PhaseKept DEF Claim, provider
  <2> QED
    BY <2>1, <2>2
<1>4. CASE Deliver(h)
  <2>1. pc[h] = "deliver" /\ Row(h).state = "sending" /\ calls[Key(h)] = 0
    BY <1>4 DEF Deliver, Ownership, OwnerHolds, Owning, Counting, Called
  <2>2. calls' = [calls EXCEPT ![Key(h)] = 1] /\ Phase' = Phase /\ Phase[Key(h)] = "claimed"
    BY <1>4, <1>a, <1>b, <2>1, PhaseKept DEF Deliver, PhaseOf, stored, TypeOK
  <2>3. Contract!HandOver(Key(h))
    BY <2>1, <2>2 DEF Contract!HandOver, Phase
  <2> QED
    BY <1>a, <2>1, <2>3 DEF Contract!Next
<1>5. CASE RecordUnknown(h)
  <2>1. pc[h] = "recordUnknown" /\ Row(h).state = "sending" /\ calls[Key(h)] = 1
    BY <1>5 DEF RecordUnknown, Ownership, OwnerHolds, Owning, Counting, Called
  <2>2. CASE MayBecomeUnknown(h)
    <3>1. UnknownRow(h) \in Rows /\ UnknownRow(h).state = "unknown"
      BY <1>a, <2>1, RowUpdates
    <3>2. Phase' = [Phase EXCEPT ![Key(h)] = "unknown"] /\ Phase[Key(h)] = "claimed" /\ calls' = calls
      BY <1>5, <1>a, <1>b, <2>1, <2>2, <3>1, PhaseWritten DEF RecordUnknown, PhaseOf, provider
    <3>3. Contract!Settle(Key(h))
      BY <2>1, <3>2 DEF Contract!Settle, Contract!Advance, Phase
    <3> QED
      BY <1>a, <2>1, <3>3 DEF Contract!Next
  <2>3. CASE ~MayBecomeUnknown(h)
    BY <1>5, <2>3, PhaseKept DEF RecordUnknown, provider
  <2> QED
    BY <2>2, <2>3
<1>6. CASE Project(h)
  <2>1. pc[h] = "project" /\ Row(h).state = "sending" /\ calls[Key(h)] = 1
          /\ result[h] \in {"sent", "unknown"}
    BY <1>6 DEF Project, Ownership, OwnerHolds, Owning, Counting, Called
  <2>2. FinalRow(h) \in Rows /\ FinalRow(h).state = result[h]
    BY <1>a, <2>1, RowUpdates
  <2>3. Phase' = [Phase EXCEPT ![Key(h)] = result[h]] /\ Phase[Key(h)] = "claimed" /\ calls' = calls
    BY <1>6, <1>a, <1>b, <2>1, <2>2, PhaseWritten DEF Project, PhaseOf, provider
  <2>4. Contract!Settle(Key(h))
    BY <2>1, <2>3 DEF Contract!Settle, Contract!Advance, Phase
  <2> QED
    BY <1>a, <2>1, <2>4 DEF Contract!Next
<1>7. CASE UNCHANGED <<sends, calls>>
  BY <1>7, PhaseKept
<1> QED
  BY <1>1, <1>2, <1>3, <1>4, <1>5, <1>6, <1>7
  DEF Acts, Progress, Receive, Reject, Validate, RelayCheck, Conflict, Replay, Proceed,
      LoseClaim, Attach, Archive, ArchiveFails, ProjectFails, Recover, Crash, stored, provider

\* Whatever handlers do to a key, its holder sees one course of DeliveryContract: accepted,
\* claimed, handed over once, settled (submitInternalSend and relayReplyAlias as a whole).
THEOREM ImplementsContract == Spec => MeetsContract
<1>1. IInv /\ [Next]_vars => [Contract!Next]_(Contract!vars)
  <2> SUFFICES ASSUME IInv, [Next]_vars PROVE [Contract!Next]_(Contract!vars)
    OBVIOUS
  <2>1. ASSUME NEW h \in Handlers, Acts(h) PROVE Contract!Next \/ UNCHANGED Contract!vars
    BY <2>1, ContractStep DEF Contract!vars, Phase
  <2>2. CASE UNCHANGED vars
    BY <2>2 DEF vars, stored, provider, Contract!vars
  <2> QED
    BY <2>1, <2>2 DEF Next, Acts
<1> QED
  BY <1>1, ContractInit, Invariance, PTL DEF Spec, MeetsContract, Contract!Spec

-------------------------------------------------------------------------------
(* What is recorded: answers, messages, threads and files.  Records adds   *)
(* to IInv what each of them rests on.                                     *)

\* Who lost a claim or its answer has a row that is past queued.
Answering(h) ==
  /\ pc[h] = "idle" => reply[h] = None
  /\ pc[h] \in {"lost", "recover"} => Row(h).state # "queued"
  /\ reply[h] # "queued"
  /\ reply[h] \in {"sent", "failed"} => Row(h).state = reply[h]

\* The raw message of whoever projects is stored; what the provider said it took, it took.
Delivering(h) ==
  /\ pc[h] # "idle" /\ IsRelay(h) => h \in archived
  /\ pc[h] = "project" => h \in archived
  /\ pc[h] \in Owning \ {"deliver"} /\ result[h] = "sent" => Key(h) \in accepted
  /\ messages[h] # None => pc[h] # "idle" /\ messages[h].request = req[h]

\* Whose id the message of a send has, was serving the request of that send.
Named(k) ==
  sends[k].state = "sent" =>
    LET m == sends[k].message IN m \in Handlers /\ pc[m] # "idle" /\ req[m] = sends[k].request

Recorded ==
  /\ \A h \in Handlers : Delivering(h)
  /\ \A k \in Keys : Named(k)
  /\ \A k \in accepted : calls[k] = 1
  /\ SentIsReal /\ MessageHasItsSend

\* Until it has reserved, a handler's thread is its own new one or the one it answers in.
Threaded ==
  /\ \A h \in Handlers : pc[h] \in {"validate", "relayCheck", "reserve"} =>
       thread[h] = IF ThreadOf[req[h]] = None THEN h ELSE ThreadOf[req[h]]
  /\ \A t \in Threads : threads[t] # "absent"
  /\ NoOrphanThread

\* The files a handler has passed are bound to its send.
Bound(h) ==
  \A i \in 1 .. nextFile[h] - 1 :
    pc[h] # "idle" /\ (i \in DOMAIN FilesOf[req[h]] => boundTo[FilesOf[req[h]][i]] = Key(h))

Linked == (\A h \in Handlers : Bound(h)) /\ LinksAreBound

Records == (\A h \in Handlers : Answering(h)) /\ Recorded /\ Threaded /\ Linked

LEMMA InitRecords == Init => Records
<1> SUFFICES ASSUME Init PROVE Records
  OBVIOUS
<1>1. \A h \in Handlers : Answering(h)
  BY FreshNames DEF Init, Answering, Replies
<1>2. Recorded
  BY DEF Init, Recorded, Delivering, Named, SentIsReal, MessageHasItsSend, NoRow, Owning
<1>3. Threaded
  BY FreshNames DEF Init, Threaded, NoOrphanThread, NoRow
<1>4. Linked
  BY DEF Init, Linked, Bound, LinksAreBound
<1> QED
  BY <1>1, <1>2, <1>3, <1>4 DEF Records

\* The only ways a row is written, each from the state its statement asks for.
LEMMA RowsWritten ==
  ASSUME IInv, NEW h \in Handlers, Acts(h), NEW k \in Keys, sends'[k] # sends[k]
  PROVE  /\ k = Key(h) /\ pc[h] # "idle"
         /\ \/ Reserve(h) /\ sends[k].state = "absent" /\ sends'[k] = QueuedRow(h)
            \/ RelayFails(h) /\ sends[k].state = "queued" /\ sends'[k].state = "failed"
            \/ Claim(h) /\ sends[k].state = "queued" /\ sends'[k].state = "sending"
            \/ RecordUnknown(h) /\ sends[k].state = "sending" /\ sends'[k].state = "unknown"
            \/ Project(h) /\ sends[k].state = "sending" /\ sends'[k] = FinalRow(h)
<1> USE DEF IInv
<1>1. k = Key(h) /\ pc[h] # "idle" /\ sends \in [Keys -> Rows] /\ Row(h) = sends[k]
  BY RowsKept DEF TypeOK, Row
<1>2. CASE Reserve(h)
  BY <1>1, <1>2 DEF Reserve, KeyFree
<1>3. CASE RelayFails(h)
  BY <1>1, <1>3, AttemptedRow DEF RelayFails, MayFail, SendStates
<1>4. CASE Claim(h)
  BY <1>1, <1>4, AttemptedRow DEF Claim, Claimable, SendStates
<1>5. CASE RecordUnknown(h)
  BY <1>1, <1>5, RowUpdates DEF RecordUnknown, MayBecomeUnknown
<1>6. CASE Project(h)
  BY <1>1, <1>6 DEF Project, ClaimHeld
<1> QED
  BY <1>1, <1>2, <1>3, <1>4, <1>5, <1>6
  DEF Acts, Progress, Receive, Reject, Validate, RelayCheck, Conflict, Replay, Proceed,
      LoseClaim, Attach, Deliver, Archive, ArchiveFails, ProjectFails, Recover, Crash, stored

\* A settled row stays as it is, and no row goes back to queued.
LEMMA RowsMoveOn ==
  ASSUME IInv, NEW h \in Handlers, Acts(h), NEW k \in Keys
  PROVE  /\ sends[k].state \in Settled => sends'[k] = sends[k]
         /\ sends[k].state \notin {"absent", "queued"} => sends'[k].state \notin {"absent", "queued"}
<1>1. CASE sends'[k] = sends[k]
  BY <1>1
<1>2. CASE sends'[k] # sends[k]
  <2>1. Project(h) /\ k = Key(h) => FinalRow(h).state \in {"sent", "unknown"}
    BY RowUpdates DEF IInv, Project, Counting, Called, Owning
  <2> QED
    BY <1>2, <2>1, RowsWritten DEF Settled
<1> QED
  BY <1>1, <1>2

\* An answer of sent or failed is what the row says, and it goes on saying it.
LEMMA StepAnswering ==
  ASSUME IInv, Records, NEW h \in Handlers, Acts(h)
  PROVE  \A g \in Handlers : Answering(g)'
<1> USE DEF IInv
<1>a. \A g \in Handlers : pc[g] # "idle" => Key(g) \in Keys
  BY RequestShape DEF Key, Bookkeeping, Known
<1>b. /\ \A g \in Handlers \ {h} : pc'[g] = pc[g] /\ req'[g] = req[g]
      /\ pc[h] # "idle" => req'[h] = req[h]
      /\ pc'[h] # "idle"
  BY OthersKept
<1>c. \A g \in Handlers \ {h} : reply'[g] = reply[g]
  BY DEF TypeOK, Acts, Progress, Receive, Reject, Validate, RelayCheck, Reserve, Conflict,
         Replay, Proceed, RelayFails, Claim, LoseClaim, Attach, Deliver, Archive,
         ArchiveFails, RecordUnknown, Project, ProjectFails, Recover, Crash, Goto, Answer
<1>d. \A g \in Handlers : Answering(g)
  BY DEF Records
<1>e. ASSUME NEW g \in Handlers, pc[g] # "idle", req'[g] = req[g]
      PROVE  /\ Row(g).state \in Settled => Row(g)'.state = Row(g).state
             /\ Row(g).state \notin {"absent", "queued"} => Row(g)'.state \notin {"absent", "queued"}
  BY <1>a, <1>e, RowsMoveOn DEF Row, Key
<1>f. \A g \in Handlers : pc[g] \in {"claim", "lost", "recover"} \cup Owning => Row(g).state # "absent"
  BY <1>a, FreshNames DEF Bookkeeping, Known, OnOwnRow, RowIsOf, SameRequest, Row, NoRow, Key, Owning
<1>1. \A g \in Handlers \ {h} : Answering(g)'
  BY <1>b, <1>c, <1>d, <1>e, <1>f, FreshNames DEF Answering, Settled
<1>2. Answering(h)'
  <2>a. pc'[h] # "idle" /\ TypeOK
    BY <1>b
  <2>b. ASSUME pc[h] # "idle" PROVE Row(h)' = sends'[Key(h)] /\ Key(h) \in Keys /\ Row(h) = sends[Key(h)]
    BY <1>a, <1>b, <2>b DEF Row, Key
  <2>c. ASSUME NEW what, Answer(h, what), what # "queued", what \in {"sent", "failed"} => Row(h)'.state = what
        PROVE  Answering(h)'
    BY <2>a, <2>c DEF Answering, Answer, TypeOK
  <2>1. ASSUME NEW r \in Requests, Receive(h, r) PROVE Answering(h)'
    BY <2>1, <2>a, <1>d, FreshNames DEF Receive, Answering, Goto, TypeOK
  <2>2. ASSUME NEW step, Goto(h, step), pc[h] # "idle", step \in {"lost", "recover"} => Row(h)'.state # "queued"
        PROVE  Answering(h)'
    <3>1. reply'[h] = reply[h] /\ pc'[h] = step
      BY <2>2, <2>a DEF Goto, TypeOK
    <3>2. reply[h] \in {"sent", "failed"} => Row(h)'.state = reply[h]
      BY <1>b, <1>d, <1>e, <2>2 DEF Answering, Settled
    <3> QED
      BY <1>d, <2>2, <2>a, <3>1, <3>2 DEF Answering
  <2>3. CASE Reject(h) \/ Validate(h) \/ RelayCheck(h) \/ Reserve(h) \/ Conflict(h) \/ Proceed(h)
    BY <2>3, <2>2, <2>c DEF Reject, Validate, RelayCheck, Reserve, Conflict, Proceed
  <2>4. CASE Replay(h)
    <3>1. UNCHANGED sends /\ Row(h).state # "queued" /\ pc[h] # "idle"
      BY <2>4 DEF Replay, stored
    <3>2. Row(h)' = Row(h)
      BY <2>b, <3>1
    <3>3. StateReply(h) # "queued" /\ (StateReply(h) \in {"sent", "failed"} => Row(h).state = StateReply(h))
      BY <3>1 DEF StateReply, RelayReply
    <3> QED
      BY <2>4, <2>c, <3>2, <3>3 DEF Replay
  <2>5. CASE RelayFails(h)
    <3>1. MayFail(h) => Row(h)'.state = "failed"
      BY <2>5, <2>b, AttemptedRow DEF RelayFails, TypeOK, SendStates
    <3> QED
      BY <2>5, <2>c, <3>1 DEF RelayFails
  <2>6. CASE Claim(h)
    <3>1. ~Claimable(h) => Row(h)' = Row(h) /\ Row(h).state # "queued"
      BY <2>6, <2>b DEF Claim, Claimable, Bookkeeping, OnOwnRow
    <3> QED
      BY <2>6, <2>2, <3>1 DEF Claim
  <2>7. CASE LoseClaim(h)
    <3>1. UNCHANGED sends /\ Row(h).state # "queued" /\ pc[h] # "idle"
      BY <2>7, <1>d DEF LoseClaim, stored, Answering
    <3>2. Row(h)' = Row(h)
      BY <2>b, <3>1
    <3>3. StateReply(h) # "queued" /\ (StateReply(h) \in {"sent", "failed"} => Row(h).state = StateReply(h))
      BY <3>1 DEF StateReply, RelayReply
    <3> QED
      BY <2>7, <2>c, <3>2, <3>3 DEF LoseClaim
  <2>8. CASE Attach(h)
    <3>1. CASE UNCHANGED <<pc, reply>>
      BY <2>8, <3>1, <2>2, <1>b, <1>d, <1>e DEF Attach, Answering, Settled
    <3>2. CASE Answer(h, "error")
      BY <3>2, <2>c
    <3> QED
      BY <2>8, <3>1, <3>2 DEF Attach
  <2>9. CASE Deliver(h) \/ Archive(h) \/ ArchiveFails(h) \/ Crash(h)
    BY <2>9, <2>2 DEF Deliver, Archive, ArchiveFails, Crash
  <2>10. CASE RecordUnknown(h)
    BY <2>10, <2>c DEF RecordUnknown
  <2>11. CASE Project(h)
    <3>1. Row(h)'.state = result[h] /\ result[h] \in {"sent", "unknown"} /\ pc[h] # "idle"
      BY <2>11, <2>b, RowUpdates DEF Project, Counting, Called, Owning, TypeOK
    <3> QED
      BY <2>11, <2>2, <2>c, <3>1 DEF Project
  <2>12. CASE ProjectFails(h)
    <3>1. Row(h)' = Row(h) /\ Row(h).state = "sending" /\ pc[h] # "idle"
      BY <2>12, <2>b DEF ProjectFails, stored, Ownership, OwnerHolds, Owning
    <3> QED
      BY <2>12, <2>2, <3>1 DEF ProjectFails
  <2>13. CASE Recover(h)
    <3>1. Row(h)' = Row(h) /\ Row(h).state # "queued" /\ pc[h] # "idle"
      BY <2>13, <2>b, <1>d DEF Recover, stored, Answering
    <3> QED
      BY <2>13, <2>c, <3>1 DEF Recover
  <2> QED
    BY <2>1, <2>3, <2>4, <2>5, <2>6, <2>7, <2>8, <2>9, <2>10, <2>11, <2>12, <2>13 DEF Acts, Progress
<1> QED
  BY <1>1, <1>2

\* Raw message before projection, acceptance before a record of it.
LEMMA StepDelivering ==
  ASSUME IInv, Records, NEW h \in Handlers, Acts(h)
  PROVE  /\ \A g \in Handlers : Delivering(g)'
         /\ \A k \in accepted' : calls'[k] = 1
         /\ archived \subseteq archived' /\ accepted \subseteq accepted'
<1> USE DEF IInv
<1>a. \A g \in Handlers : pc[g] # "idle" => Key(g) \in Keys
  BY RequestShape DEF Key, Bookkeeping, Known
<1>b. /\ \A g \in Handlers \ {h} : pc'[g] = pc[g] /\ req'[g] = req[g] /\ result'[g] = result[g]
      /\ pc[h] # "idle" => req'[h] = req[h]
      /\ pc'[h] # "idle"
  BY OthersKept
<1>c. \A g \in Handlers : Delivering(g)
  BY DEF Records, Recorded
<1>d. archived \subseteq archived'
  BY DEF Acts, Progress, Receive, Reject, Validate, RelayCheck, Reserve, Conflict, Replay, Proceed,
         RelayFails, Claim, LoseClaim, Attach, Deliver, Archive, ArchiveFails, RecordUnknown,
         Project, ProjectFails, Recover, Crash, stored
<1>e. CASE Deliver(h)
  <2>1. /\ pc[h] = "deliver" /\ Key(h) \in Keys /\ calls[Key(h)] = 0
        /\ calls'[Key(h)] = 1 /\ \A k \in Keys \ {Key(h)} : calls'[k] = calls[k]
        /\ accepted \subseteq accepted' /\ accepted' \subseteq accepted \cup {Key(h)}
        /\ result'[h] = "sent" => Key(h) \in accepted'
        /\ pc'[h] = IF IsRelay(h) THEN "project" ELSE "archive"
        /\ req' = req /\ messages' = messages /\ archived' = archived
    BY <1>a, <1>e DEF Deliver, Counting, Called, TypeOK, stored, Goto
  <2>2. \A k \in accepted' : calls'[k] = 1
    BY <2>1 DEF Records, Recorded, TypeOK
  <2>3. \A g \in Handlers \ {h} : Delivering(g)'
    BY <1>b, <1>c, <2>1 DEF Delivering, Key, IsRelay
  <2>4. Delivering(h)'
    BY <1>c, <2>1 DEF Delivering, Key, IsRelay
  <2> QED
    BY <1>d, <2>1, <2>2, <2>3, <2>4
<1>f. CASE ~Deliver(h)
  <2>1. calls' = calls /\ accepted' = accepted
    BY <1>f DEF Acts, Progress, Receive, Reject, Validate, RelayCheck, Reserve, Conflict,
       Replay, Proceed, RelayFails, Claim, LoseClaim, Attach, Archive, ArchiveFails,
       RecordUnknown, Project, ProjectFails, Recover, Crash, provider
  <2>2. \A g \in Handlers \ {h} : messages'[g] = messages[g]
    BY DEF TypeOK, Acts, Progress, Receive, Reject, Validate, RelayCheck, Reserve, Conflict,
       Replay, Proceed, RelayFails, Claim, LoseClaim, Attach, Deliver, Archive, ArchiveFails,
       RecordUnknown, Project, ProjectFails, Recover, Crash, stored
  <2>3. \A g \in Handlers \ {h} : Delivering(g)'
    BY <1>b, <1>c, <1>d, <2>1, <2>2 DEF Delivering, Key, IsRelay
  <2>4. Delivering(h)'
    <3>1. ASSUME NEW r \in Requests, Receive(h, r) PROVE Delivering(h)'
      BY <3>1, <1>c DEF Receive, Goto, Delivering, IsRelay, TypeOK, Owning
    <3>2. CASE ~(\E r \in Requests : Receive(h, r))
      <4>1. pc[h] # "idle" /\ req'[h] = req[h]
        BY <1>b, <1>f, <3>2 DEF Acts, Progress, Reject, Validate, RelayCheck, Reserve, Conflict,
           Replay, Proceed, RelayFails, Claim, LoseClaim, Attach, Archive, ArchiveFails,
           RecordUnknown, Project, ProjectFails, Recover, Crash
      <4>2. pc'[h] = "project" => h \in archived'
        BY <1>c, <1>d, <1>f, <3>2 DEF Acts, Progress, Reject, Validate, RelayCheck, Reserve, Conflict,
           Replay, Proceed, RelayFails, Claim, LoseClaim, Attach, Archive, ArchiveFails,
           RecordUnknown, Project, ProjectFails, Recover, Crash, Goto, Answer, TypeOK, Delivering
      <4>3. pc'[h] \in Owning \ {"deliver"} => pc[h] \in Owning \ {"deliver"} /\ result'[h] = result[h]
        BY <1>f, <3>2 DEF Acts, Progress, Reject, Validate, RelayCheck, Reserve, Conflict,
           Replay, Proceed, RelayFails, Claim, LoseClaim, Attach, Archive, ArchiveFails,
           RecordUnknown, Project, ProjectFails, Recover, Crash, Goto, Answer, TypeOK, Owning, locals
      <4>4. messages'[h] # None => messages'[h].request = req[h]
        <5>1. CASE Project(h)
          BY <5>1 DEF Project, TypeOK
        <5>2. CASE ~Project(h)
          BY <1>c, <1>f, <3>2, <5>2 DEF Acts, Progress, Reject, Validate, RelayCheck, Reserve, Conflict,
             Replay, Proceed, RelayFails, Claim, LoseClaim, Attach, Archive, ArchiveFails,
             RecordUnknown, ProjectFails, Recover, Crash, stored, Delivering
        <5> QED
          BY <5>1, <5>2
      <4> QED
        BY <1>b, <1>c, <1>d, <2>1, <4>1, <4>2, <4>3, <4>4 DEF Delivering, Key, IsRelay
    <3> QED
      BY <3>1, <3>2
  <2> QED
    BY <1>d, <2>1, <2>3, <2>4 DEF Records, Recorded
<1> QED
  BY <1>e, <1>f

\* The batch of completeOutboundProjection writes the message and its send together, and no
\* statement writes either again.
LEMMA StepRecorded ==
  ASSUME IInv, Records, NEW h \in Handlers, Acts(h)
  PROVE  Recorded'
<1> USE DEF IInv
<1>a. \A g \in Handlers : pc[g] # "idle" => Key(g) \in Keys /\ req[g] \in Requests /\ Key(g) = KeyOf[req[g]]
  BY RequestShape DEF Key, Bookkeeping, Known
<1>b. /\ SentIsReal /\ MessageHasItsSend /\ \A g \in Handlers : Delivering(g)
      /\ \A k \in Keys : Named(k)
  BY DEF Records, Recorded
<1>c. /\ \A g \in Handlers : Delivering(g)'
      /\ \A k \in accepted' : calls'[k] = 1
      /\ archived \subseteq archived' /\ accepted \subseteq accepted'
  BY StepDelivering
<1>d. \A k \in Keys : sends[k].state \in Settled => sends'[k] = sends[k]
  BY RowsMoveOn
<1>e. \A g \in Handlers : messages[g] # None =>
        /\ messages[g].request \in Requests /\ messages[g].state \in Settled
        /\ KeyOf[messages[g].request] \in Keys
  BY RequestShape DEF TypeOK, Messages, Settled
<1>f. /\ \A g \in Handlers : pc[g] # "idle" => pc'[g] # "idle" /\ req'[g] = req[g]
      /\ pc'[h] # "idle"
  BY OthersKept
<1>1. CASE Project(h)
  <2>1. /\ pc[h] = "project" /\ ClaimHeld(h) /\ result[h] \in {"sent", "unknown"}
        /\ h \in archived /\ (result[h] = "sent" => Key(h) \in accepted)
        /\ Key(h) \in Keys /\ KeyOf[req[h]] = Key(h)
    BY <1>1, <1>a, <1>b DEF Project, Counting, Called, Delivering, Owning
  <2>2. /\ sends'[Key(h)] = FinalRow(h) /\ \A k \in Keys \ {Key(h)} : sends'[k] = sends[k]
        /\ messages'[h] = [request |-> req[h], thread |-> thread[h], state |-> result[h]]
        /\ \A g \in Handlers \ {h} : messages'[g] = messages[g]
    BY <1>1, <2>1 DEF Project, TypeOK
  <2>3. Row(h) \in Rows /\ Row(h) = sends[Key(h)] /\ Row(h).state = "sending"
        /\ Row(h).request = req[h] /\ Row(h).thread = thread[h]
    BY <2>1 DEF ClaimHeld, SameRequest, Row, TypeOK
  <2>4. /\ FinalRow(h).state = result[h] /\ FinalRow(h).message = h
        /\ FinalRow(h).request = req[h] /\ FinalRow(h).thread = thread[h]
    BY <2>3 DEF FinalRow, Rows
  <2>5. pc'[h] # "idle" /\ req' = req
    BY <1>1, <1>f DEF Project, locals
  <2>6. ASSUME NEW k \in Keys, k = Key(h) PROVE Named(k)'
    BY <2>1, <2>2, <2>4, <2>5, <2>6 DEF Named
  <2>7. \A k \in Keys \ {Key(h)} : Named(k)'
    BY <1>b, <1>f, <2>2, <2>5 DEF Named
  <2>8. \A k \in Keys \ {Key(h)} : sends[k].state = "sent" => sends[k].message # h
    <3> SUFFICES ASSUME NEW k \in Keys \ {Key(h)}, sends[k].state = "sent", sends[k].message = h
                 PROVE  FALSE
      OBVIOUS
    <3>1. req[h] = sends[k].request
      BY <1>b DEF Named
    <3>2. KeyOf[sends[k].request] = k
      BY DEF Bookkeeping, RowIsOf
    <3> QED
      BY <2>1, <3>1, <3>2
  <2>9. SentIsReal'
    BY <1>1, <1>b, <1>c, <2>1, <2>2, <2>4, <2>8 DEF SentIsReal, Project
  <2>10. MessageHasItsSend'
    <3>1. \A g \in Handlers \ {h} : messages[g] # None => KeyOf[messages[g].request] # Key(h)
      BY <1>b, <1>e, <2>3 DEF MessageHasItsSend, Settled
    <3> QED
      BY <1>b, <1>e, <2>1, <2>2, <2>4, <3>1 DEF MessageHasItsSend
  <2> QED
    BY <1>c, <2>6, <2>7, <2>9, <2>10 DEF Recorded
<1>2. CASE ~Project(h)
  <2>1. messages' = messages
    BY <1>2 DEF Acts, Progress, Receive, Reject, Validate, RelayCheck, Reserve, Conflict,
       Replay, Proceed, RelayFails, Claim, LoseClaim, Attach, Deliver, Archive, ArchiveFails,
       RecordUnknown, ProjectFails, Recover, Crash, stored
  <2>2. \A k \in Keys : sends'[k].state = "sent" => sends'[k] = sends[k]
    <3> SUFFICES ASSUME NEW k \in Keys, sends'[k] # sends[k], sends'[k].state = "sent" PROVE FALSE
      OBVIOUS
    <3> QED
      BY <1>2, RowsWritten DEF QueuedRow, NoRow
  <2>3. SentIsReal'
    BY <1>b, <1>c, <2>1, <2>2 DEF SentIsReal
  <2>4. MessageHasItsSend'
    BY <1>b, <1>d, <1>e, <2>1 DEF MessageHasItsSend
  <2>5. \A k \in Keys : Named(k)'
    BY <1>b, <1>f, <2>2 DEF Named
  <2> QED
    BY <1>c, <2>3, <2>4, <2>5 DEF Recorded
<1> QED
  BY <1>1, <1>2

\* The thread a send makes is the one its row names, from the same batch on.
LEMMA StepThreaded ==
  ASSUME IInv, Records, NEW h \in Handlers, Acts(h)
  PROVE  Threaded'
<1> USE DEF IInv
<1>a. \A g \in Handlers : pc[g] # "idle" => Key(g) \in Keys /\ req[g] \in Requests /\ Key(g) = KeyOf[req[g]]
  BY RequestShape DEF Key, Bookkeeping, Known
<1>b. /\ \A g \in Handlers \ {h} : pc'[g] = pc[g] /\ req'[g] = req[g] /\ thread'[g] = thread[g]
      /\ pc[h] # "idle" => req'[h] = req[h]
  BY OthersKept
<1>c. \A k \in Keys : RowKept(k)
  BY RowsKept
<1>d. /\ NoOrphanThread /\ \A t \in Threads : threads[t] # "absent"
      /\ \A g \in Handlers : pc[g] \in {"validate", "relayCheck", "reserve"} =>
           thread[g] = IF ThreadOf[req[g]] = None THEN g ELSE ThreadOf[req[g]]
  BY DEF Records, Threaded
<1>1. \A g \in Handlers : pc'[g] \in {"validate", "relayCheck", "reserve"} =>
        thread'[g] = IF ThreadOf[req'[g]] = None THEN g ELSE ThreadOf[req'[g]]
  <2>1. CASE \E r \in Requests : Receive(h, r)
    BY <1>b, <1>d, <2>1 DEF Receive, TypeOK
  <2>2. CASE ~(\E r \in Requests : Receive(h, r))
    <3>1. pc'[h] \in {"validate", "relayCheck", "reserve"} =>
            /\ pc[h] \in {"validate", "relayCheck", "reserve"}
            /\ thread'[h] = thread[h] /\ req'[h] = req[h]
      BY <2>2 DEF Acts, Progress, Reject, Validate, RelayCheck, Reserve, Conflict,
         Replay, Proceed, RelayFails, Claim, LoseClaim, Attach, Deliver, Archive, ArchiveFails,
         RecordUnknown, Project, ProjectFails, Recover, Crash, Goto, Answer, TypeOK, locals
    <3> QED
      BY <1>b, <1>d, <3>1
  <2> QED
    BY <2>1, <2>2
<1>2. CASE Reserve(h)
  <2>1. /\ pc[h] = "reserve" /\ Key(h) \in Keys /\ req[h] \in Requests /\ Key(h) = KeyOf[req[h]]
        /\ thread[h] = IF ThreadOf[req[h]] = None THEN h ELSE ThreadOf[req[h]]
    BY <1>2, <1>a, <1>d DEF Reserve
  <2>2. CASE KeyFree(Key(h))
    <3>1. /\ sends'[Key(h)] = QueuedRow(h) /\ \A k \in Keys \ {Key(h)} : sends'[k] = sends[k]
          /\ QueuedRow(h).thread = thread[h] /\ sends[Key(h)] = NoRow
      BY <1>2, <2>1, <2>2 DEF Reserve, TypeOK, QueuedRow, NoRow, KeyFree, Bookkeeping, RowIsOf
    <3>2. threads' = IF ThreadOf[req[h]] = None THEN [threads EXCEPT ![h] = "waiting"] ELSE threads
      BY <1>2, <2>1, <2>2 DEF Reserve, CreatesThread
    <3>3. ThreadOf[req[h]] \in Threads \cup {None}
      BY <2>1, RequestShape
    <3>4. \A t \in Threads \cup Handlers : threads[t] # "absent" => threads'[t] # "absent"
      BY <3>2 DEF TypeOK
    <3>5. threads'[thread[h]] # "absent"
      BY <1>d, <2>1, <3>2, <3>3, FreshNames DEF TypeOK
    <3>6. \A g \in Handlers : threads'[g] # "absent" => \E k \in Keys : sends'[k].thread = g
      <4> SUFFICES ASSUME NEW g \in Handlers, threads'[g] # "absent"
                   PROVE  \E k \in Keys : sends'[k].thread = g
        OBVIOUS
      <4>1. CASE threads[g] # "absent"
        <5>1. PICK k \in Keys : sends[k].thread = g
          BY <1>d, <4>1 DEF NoOrphanThread
        <5>2. k # Key(h)
          BY <3>1, <5>1, FreshNames DEF NoRow
        <5> QED
          BY <3>1, <5>1, <5>2
      <4>2. CASE threads[g] = "absent"
        <5>1. g = h /\ ThreadOf[req[h]] = None
          BY <3>2, <4>2 DEF TypeOK
        <5> QED
          BY <2>1, <3>1, <5>1
      <4> QED
        BY <4>1, <4>2
    <3>7. \A k \in Keys : sends'[k].state # "absent" => threads'[sends'[k].thread] # "absent"
      BY <1>d, <2>1, <3>1, <3>4, <3>5 DEF NoOrphanThread, Bookkeeping, RowIsOf
    <3> QED
      BY <1>1, <1>d, <3>4, <3>6, <3>7 DEF Threaded, NoOrphanThread
  <2>3. CASE ~KeyFree(Key(h))
    <3>1. sends' = sends /\ threads' = threads
      BY <1>2, <2>1, <2>3 DEF Reserve, CreatesThread
    <3> QED
      BY <1>1, <1>d, <3>1 DEF Threaded, NoOrphanThread
  <2> QED
    BY <2>2, <2>3
<1>3. CASE ~Reserve(h)
  <2>1. threads' = threads
    BY <1>3 DEF Acts, Progress, Receive, Reject, Validate, RelayCheck, Conflict, Replay, Proceed,
       RelayFails, Claim, LoseClaim, Attach, Deliver, Archive, ArchiveFails, RecordUnknown,
       Project, ProjectFails, Recover, Crash, stored
  <2>2. \A k \in Keys : sends'[k] = sends[k] \/ (sends[k].state # "absent" /\ sends'[k].state # "absent"
                                                  /\ sends'[k].thread = sends[k].thread)
    BY <1>3, <1>c, RowsWritten DEF RowKept
  <2>3. \A k \in Keys : sends'[k].thread = sends[k].thread
    BY <2>2
  <2>4. \A k \in Keys : sends'[k].state # "absent" => sends[k].state # "absent"
    BY <2>2
  <2> QED
    BY <1>1, <1>d, <2>1, <2>3, <2>4 DEF Threaded, NoOrphanThread
<1> QED
  BY <1>2, <1>3

\* A file that is bound stays with its send, and the provider is called with all of them bound.
LEMMA StepLinked ==
  ASSUME IInv, Records, NEW h \in Handlers, Acts(h)
  PROVE  Linked'
<1> USE DEF IInv
<1>a. /\ \A g \in Handlers : pc[g] # "idle" => Key(g) \in Keys /\ req[g] \in Requests /\ Key(g) = KeyOf[req[g]]
      /\ \A r \in Requests : FilesOf[r] \in Seq(Files)
  BY RequestShape DEF Key, Bookkeeping, Known
<1>b. /\ \A g \in Handlers \ {h} : pc'[g] = pc[g] /\ req'[g] = req[g] /\ nextFile'[g] = nextFile[g]
      /\ pc[h] # "idle" => req'[h] = req[h]
      /\ pc'[h] # "idle"
  BY OthersKept
<1>c. LinksAreBound /\ \A g \in Handlers : Bound(g)
  BY DEF Records, Linked
<1>d. ASSUME NEW f \in Files, boundTo[f] \in Keys PROVE boundTo'[f] = boundTo[f]
  <2>1. CASE Attach(h)
    BY <2>1, <1>d, FreshNames DEF Attach, Attachable, TypeOK
  <2>2. CASE ~Attach(h)
    BY <2>2 DEF Acts, Progress, Receive, Reject, Validate, RelayCheck, Reserve, Conflict, Replay, Proceed,
       RelayFails, Claim, LoseClaim, Deliver, Archive, ArchiveFails, RecordUnknown,
       Project, ProjectFails, Recover, Crash, stored
  <2> QED
    BY <2>1, <2>2
<1>e. nextFile \in [Handlers -> Nat \ {0}] /\ \A g \in Handlers : nextFile[g] \in Nat /\ nextFile[g] > 0
  BY DEF TypeOK
<1>f. ASSUME NEW g \in Handlers, pc[g] # "idle", NEW i \in DOMAIN FilesOf[req[g]],
             boundTo[FilesOf[req[g]][i]] = Key(g)
      PROVE  boundTo'[FilesOf[req[g]][i]] = Key(g)
  BY <1>a, <1>d, <1>f
<1>1. \A g \in Handlers \ {h} : Bound(g)'
  BY <1>b, <1>c, <1>f DEF Bound, Key
<1>2. Bound(h)'
  <2>1. CASE nextFile'[h] = nextFile[h]
    BY <1>b, <1>c, <1>f, <2>1 DEF Bound, Key
  <2>2. CASE nextFile'[h] # nextFile[h]
    <3> DEFINE n == nextFile[h]
               files == FilesOf[req[h]]
    <3>1. Attach(h)
      BY <2>2 DEF Acts, Progress, Receive, Reject, Validate, RelayCheck, Reserve, Conflict, Replay, Proceed,
         RelayFails, Claim, LoseClaim, Deliver, Archive, ArchiveFails, RecordUnknown,
         Project, ProjectFails, Recover, Crash, locals
    <3>2. /\ pc[h] = "deliver" /\ nextFile'[h] = n + 1 /\ req'[h] = req[h]
          /\ boundTo' = [boundTo EXCEPT ![files[n]] = Key(h)] /\ n <= Len(files)
      BY <2>2, <3>1, <1>b, <1>e DEF Attach
    <3>3. files \in Seq(Files) /\ n \in Nat \ {0} /\ Key(h) \in Keys
      BY <1>a, <1>e, <3>2
    <3>4. files[n] \in Files
      BY <3>2, <3>3
    <3>5. boundTo'[files[n]] = Key(h)
      BY <3>2, <3>4 DEF TypeOK
    <3> HIDE DEF files
    <3>6. \A i \in 1 .. n - 1 : i \in DOMAIN files => boundTo'[files[i]] = Key(h)
      BY <1>c, <1>f, <3>2 DEF Bound, files
    <3>7. \A i \in 1 .. (n + 1) - 1 : i \in DOMAIN files => boundTo'[files[i]] = Key(h)
      BY <3>3, <3>5, <3>6
    <3>8. Key(h)' = Key(h)
      BY <3>2 DEF Key
    <3> QED
      BY <1>b, <3>2, <3>7, <3>8 DEF Bound, files
  <2> QED
    BY <2>1, <2>2
<1>3. LinksAreBound'
  <2> SUFFICES ASSUME NEW k \in Keys, calls'[k] > 0, NEW i \in DOMAIN FilesOf[sends'[k].request]
               PROVE  boundTo'[FilesOf[sends'[k].request][i]] = k
    BY DEF LinksAreBound
  <2>1. CASE calls[k] > 0
    <3>1. sends[k].state # "absent"
      BY <2>1 DEF Counting
    <3>2. sends'[k].request = sends[k].request /\ sends[k].request \in Requests
      BY <3>1, RowsKept DEF RowKept, Bookkeeping, RowIsOf
    <3>3. boundTo[FilesOf[sends[k].request][i]] = k
      BY <1>c, <2>1, <3>2 DEF LinksAreBound
    <3>4. FilesOf[sends[k].request][i] \in Files
      BY <1>a, <3>2
    <3> QED
      BY <1>d, <3>2, <3>3, <3>4
  <2>2. CASE ~(calls[k] > 0)
    <3>1. Deliver(h)
      BY <2>2 DEF Acts, Progress, Receive, Reject, Validate, RelayCheck, Reserve, Conflict, Replay, Proceed,
         RelayFails, Claim, LoseClaim, Attach, Archive, ArchiveFails, RecordUnknown,
         Project, ProjectFails, Recover, Crash, provider
    <3>2. pc[h] = "deliver" /\ FilesBound(h) /\ k = Key(h) /\ sends' = sends /\ boundTo' = boundTo
      BY <2>2, <3>1 DEF Deliver, TypeOK, stored
    <3>3. sends[k].request = req[h] /\ req[h] \in Requests
      BY <1>a, <3>2 DEF Bookkeeping, OnOwnRow, SameRequest, Row, Owning
    <3>4. FilesOf[req[h]] \in Seq(Files) /\ i \in DOMAIN FilesOf[req[h]]
      BY <1>a, <3>2, <3>3
    <3>5. i \in 1 .. nextFile[h] - 1
      BY <1>e, <3>2, <3>4 DEF FilesBound
    <3> QED
      BY <1>c, <3>2, <3>3, <3>4, <3>5 DEF Bound
  <2> QED
    BY <2>1, <2>2
<1> QED
  BY <1>1, <1>2, <1>3 DEF Linked

LEMMA StepRecords == IInv /\ Records /\ [Next]_vars => Records'
<1> SUFFICES ASSUME IInv, Records, [Next]_vars PROVE Records'
  OBVIOUS
<1>1. ASSUME NEW h \in Handlers, Acts(h) PROVE Records'
  BY <1>1, StepAnswering, StepRecorded, StepThreaded, StepLinked DEF Records
<1>2. CASE UNCHANGED vars
  <2> USE <1>2 DEF vars, stored, provider, locals
  <2>1. \A h \in Handlers : Answering(h)'
    BY DEF Records, Answering, Row, Key
  <2>2. Recorded'
    BY DEF Records, Recorded, Delivering, Named, SentIsReal, MessageHasItsSend, Key, IsRelay
  <2>3. Threaded'
    BY DEF Records, Threaded, NoOrphanThread
  <2>4. Linked'
    BY DEF Records, Linked, Bound, LinksAreBound, Key
  <2> QED
    BY <2>1, <2>2, <2>3, <2>4 DEF Records
<1> QED
  BY <1>1, <1>2 DEF Next, Acts

\* What the answers, messages, threads and files rest on holds in every state.
THEOREM RecordsInvariance == Spec => []Records
<1> QED
  BY InitRecords, StepRecords, Invariance, PTL DEF Spec

\* A send recorded as sent was taken by the provider and has its own message, in its thread
\* and with its raw bytes.
THEOREM SentReal == Spec => []SentIsReal
<1>1. Records => SentIsReal
  BY DEF Records, Recorded
<1> QED
  BY <1>1, RecordsInvariance, PTL

\* A message row has the send that names it, in the same state.
THEOREM MessageHasSend == Spec => []MessageHasItsSend
<1>1. Records => MessageHasItsSend
  BY DEF Records, Recorded
<1> QED
  BY <1>1, RecordsInvariance, PTL

\* A definite failure is recorded only for what the provider never saw.
THEOREM FailedUnsent == Spec => []FailedWasNeverSent
<1>1. IInv /\ Records => FailedWasNeverSent
  BY DEF IInv, Counting, Records, Recorded, FailedWasNeverSent
<1> QED
  BY <1>1, Invariance, RecordsInvariance, PTL

\* What a handler answers is so: no answer for a queued send, and sent or failed as recorded.
THEOREM AnswersTrue == Spec => []AnswersAreTrue
<1>1. Records => AnswersAreTrue
  BY DEF Records, Answering, AnswersAreTrue
<1> QED
  BY <1>1, RecordsInvariance, PTL

\* No race for a key leaves a thread without its send, or a send without its thread.
THEOREM NoThreadOrphaned == Spec => []NoOrphanThread
<1>1. Records => NoOrphanThread
  BY DEF Records, Threaded
<1> QED
  BY <1>1, RecordsInvariance, PTL

\* Every linked file of a message that was handed over is bound to its send.
THEOREM LinksBound == Spec => []LinksAreBound
<1>1. Records => LinksAreBound
  BY DEF Records, Linked
<1> QED
  BY <1>1, RecordsInvariance, PTL
================================================================================
