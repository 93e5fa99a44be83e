----------------------------- MODULE RetentionProofs -----------------------------
(***************************************************************************)
(* Proofs about Retention, for any messages, threads, jobs and leases.     *)
(*                                                                         *)
(* IInv holds for every policy the code accepts.  It adds to the types     *)
(*   - Filed: ids are used once, a key is that of the day of arrival, and  *)
(*     a message is deleted just when its tombstone is completed,          *)
(*   - Conversing: a send has its own message and thread, or none.         *)
(*                                                                         *)
(* Shared adds what depends on the bytes: messages that share an object    *)
(* all have tombstones before one of them is cleared, none joins them      *)
(* then, and the object is not put again.  The key of an object in flight  *)
(* is of this day or the day before, so it needs policies that keep bytes  *)
(* for two days or more (LongEnough).                                      *)
(***************************************************************************)
EXTENDS Retention, TLAPS

Filed(m) ==
  /\ messages[m].state = "absent" => tombstones[m].state = "absent"
  /\ messages[m].state # "absent" =>
       arriving[m] = None /\ messages[m].key = KeyAt(messages[m].createdAt, m)
  /\ m \in put => arriving[m] # None
  /\ messages[m].state = "deleted" <=> tombstones[m].state = "completed"

Conversing ==
  /\ \A s \in Replies : sends[s].message \in {s, None} /\ sends[s].thread \in {ThreadOf[s], None}
  /\ EvidenceIsDetached

IInv ==
  /\ TypeOK
  /\ \A m \in Messages : Filed(m)
  /\ Conversing

-------------------------------------------------------------------------------
\* Nothing has arrived.
LEMMA InitIInv == Init => IInv
<1> SUFFICES ASSUME Init PROVE IInv
  OBVIOUS
<1>1. NoMessage \in [state : {"absent", "stored", "deleted"}, createdAt : Nat,
                     key : Keys \cup {None}, rawDeletedAt : Nat \cup {None}]
  BY DEF NoMessage
<1>2. NoTombstone \in [state : TombstoneStates, rawDue : Nat, applicationDue : Nat,
                       token : Jobs \cup {None}, expiresAt : Nat]
  BY DEF NoTombstone, TombstoneStates
<1>3. TypeOK
  BY <1>1, <1>2 DEF Init, TypeOK, NoSend
<1>4. \A m \in Messages : Filed(m)
  BY DEF Init, Filed, NoMessage, NoTombstone
<1>5. Conversing
  BY DEF Init, Conversing, EvidenceIsDetached, NoSend, NoMessage, Stored, Messages
<1> QED
  BY <1>3, <1>4, <1>5 DEF IInv

-------------------------------------------------------------------------------
(* Steps *)

\* Mail and sends have their days and their keys; LIMIT takes rows there are.
LEMMA Numbers ==
  /\ None \notin Nat /\ None \notin Messages /\ None \notin Threads /\ None \notin Jobs
  /\ \A m \in Messages : ThreadOf[m] \in Threads
  /\ \A day \in Nat, m \in Messages : KeyAt(day, m) \in Keys
  /\ \A p \in Policies : p[1] \in Nat /\ p[2] \in Nat /\ 1 <= p[1]
  /\ Lease \in Nat /\ Replies \subseteq Messages
  /\ \A ids, rank, limit : \A s \in First(ids, rank, limit) : s \subseteq ids
BY RetentionShape DEF RetentionShape, Keys, First, ValidPolicy, Messages

Tombstones == [state : TombstoneStates, rawDue : Nat, applicationDue : Nat,
               token : Jobs \cup {None}, expiresAt : Nat]
Columns == [state : {"absent", "stored", "deleted"}, createdAt : Nat,
            key : Keys \cup {None}, rawDeletedAt : Nat \cup {None}]
Evidence == [state : {"absent", "sending", "sent"}, message : Messages \cup {None},
             thread : Threads \cup {None}]

\* The tables by their rows.
LEMMA RowTypes ==
  ASSUME TypeOK, NEW m \in Messages
  PROVE  /\ messages[m] \in Columns /\ tombstones[m] \in Tombstones
         /\ now \in Nat /\ messages[m].createdAt \in Nat
BY DEF TypeOK, Columns, Tombstones

TaskTypes == [Jobs -> [Messages -> TombstoneStates \cup {"none", "claiming", "cleared"}]]

\* A step of a job moves it on with one message.
LEMMA Moving ==
  ASSUME TypeOK, NEW j \in Jobs, NEW m \in Messages,
         NEW task \in TombstoneStates \cup {"none", "cleared"}, Moves(j, m, task)
  PROVE  /\ tasks' \in TaskTypes /\ tasks'[j][m] = task
         /\ \A i \in Jobs, n \in Messages : (i = j /\ n = m) \/ tasks'[i][n] = tasks[i][n]
BY DEF TypeOK, Moves, TaskTypes

\* A message that is enqueued is there, has no tombstone, and is due on a later day.
LEMMA Enqueued ==
  ASSUME IInv, NEW policy \in Policies, NEW limit \in Batches, Enqueue(policy, limit)
  PROVE  /\ tombstones' \in [Messages -> Tombstones]
         /\ \A m \in Messages :
              \/ tombstones'[m] = tombstones[m]
              \/ /\ m \in Stored /\ tombstones[m].state = "absent"
                 /\ tombstones'[m].state = "raw_pending" /\ tombstones'[m].token = None
                 /\ tombstones'[m].rawDue = messages[m].createdAt + policy[1]
         /\ UNCHANGED <<now, messages, threads, sends, objects, mail, tasks, downloads>>
<1>1. PICK chosen \in First(Eligible(now - policy[1]), [m \in Messages |-> messages[m].createdAt], limit) :
        tombstones' = [m \in Messages |->
          IF m \in chosen
          THEN [NoTombstone EXCEPT !.state = "raw_pending",
                                   !.rawDue = messages[m].createdAt + policy[1],
                                   !.applicationDue = messages[m].createdAt + policy[2]]
          ELSE tombstones[m]]
  BY DEF Enqueue
<1>2. chosen \subseteq Eligible(now - policy[1])
  BY Numbers
<1>3. ASSUME NEW m \in Messages
      PROVE  /\ tombstones'[m] \in Tombstones
             /\ \/ tombstones'[m] = tombstones[m]
                \/ /\ m \in Stored /\ tombstones[m].state = "absent"
                   /\ tombstones'[m].state = "raw_pending" /\ tombstones'[m].token = None
                   /\ tombstones'[m].rawDue = messages[m].createdAt + policy[1]
  <2>1. tombstones[m] \in Tombstones /\ messages[m].createdAt \in Nat
    BY RowTypes DEF IInv
  <2>2. CASE m \in chosen
    <3> DEFINE row == [NoTombstone EXCEPT !.state = "raw_pending",
                                          !.rawDue = messages[m].createdAt + policy[1],
                                          !.applicationDue = messages[m].createdAt + policy[2]]
    <3>1. row \in Tombstones /\ row.state = "raw_pending" /\ row.token = None
          /\ row.rawDue = messages[m].createdAt + policy[1]
      <4>1. messages[m].createdAt + policy[1] \in Nat /\ messages[m].createdAt + policy[2] \in Nat
        BY <2>1, Numbers
      <4> QED
        BY <4>1 DEF NoTombstone, Tombstones, TombstoneStates
    <3>2. tombstones'[m] = row
      BY <1>1, <2>2
    <3>3. m \in Stored /\ tombstones[m].state = "absent"
      BY <1>2, <2>2 DEF Eligible
    <3> HIDE DEF row
    <3> QED
      BY <3>1, <3>2, <3>3
  <2>3. CASE m \notin chosen
    BY <1>1, <2>1, <2>3
  <2> QED
    BY <2>2, <2>3
<1>4. tombstones' = [m \in Messages |-> tombstones'[m]]
  BY <1>1
<1>5. UNCHANGED <<now, messages, threads, sends, objects, mail, tasks, downloads>>
  BY DEF Enqueue
<1> QED
  BY <1>3, <1>4, <1>5

\* A claim is of tombstones that are due, and changes their token and lease.
LEMMA Claimed ==
  ASSUME IInv, NEW j \in Jobs, NEW limit \in Batches, Claim(j, limit)
  PROVE  /\ tombstones' \in [Messages -> Tombstones]
         /\ \A m \in Messages :
              /\ tombstones'[m].state = tombstones[m].state
              /\ tombstones'[m].rawDue = tombstones[m].rawDue
              /\ tombstones'[m].token = tombstones[m].token \/ m \in Claimable
         /\ tasks' \in TaskTypes
         /\ \A i \in Jobs, m \in Messages :
              tasks'[i][m] \in {"raw_pending", "cleared"} => tasks'[i][m] = tasks[i][m]
         /\ UNCHANGED <<now, messages, threads, sends, objects, mail, downloads>>
<1>1. PICK chosen \in First(Claimable, Urgency, limit) :
        /\ tombstones' = [m \in Messages |->
             IF m \in chosen THEN [tombstones[m] EXCEPT !.token = j, !.expiresAt = now + Lease]
             ELSE tombstones[m]]
        /\ tasks' = [tasks EXCEPT ![j] = [m \in Messages |-> IF m \in chosen THEN "claiming" ELSE "none"]]
  BY DEF Claim
<1>2. chosen \subseteq Claimable
  BY Numbers
<1>3. ASSUME NEW m \in Messages
      PROVE  /\ tombstones'[m] \in Tombstones
             /\ tombstones'[m].state = tombstones[m].state
             /\ tombstones'[m].rawDue = tombstones[m].rawDue
             /\ tombstones'[m].token = tombstones[m].token \/ m \in Claimable
  <2>1. tombstones[m] \in Tombstones /\ now + Lease \in Nat
    BY RowTypes, Numbers DEF IInv
  <2> QED
    BY <1>1, <1>2, <2>1 DEF Tombstones
<1>4. tombstones' = [m \in Messages |-> tombstones'[m]]
  BY <1>1
<1>5. /\ tasks' \in TaskTypes
      /\ \A i \in Jobs, m \in Messages :
           tasks'[i][m] \in {"raw_pending", "cleared"} => tasks'[i][m] = tasks[i][m]
  BY <1>1 DEF IInv, TypeOK, TaskTypes
<1>6. UNCHANGED <<now, messages, threads, sends, objects, mail, downloads>>
  BY DEF Claim
<1> QED
  BY <1>3, <1>4, <1>5, <1>6

RowsMarked(m) ==
  /\ messages' \in [Messages -> Columns]
  /\ \A n \in Messages :
       /\ messages'[n].state = messages[n].state /\ messages'[n].key = messages[n].key
       /\ messages'[n].createdAt = messages[n].createdAt
       /\ messages'[n].rawDeletedAt = messages[n].rawDeletedAt
            \/ (n = m /\ tombstones[m].state = "raw_pending")
  /\ tombstones' \in [Messages -> Tombstones]
  /\ \A n \in Messages \ {m} : tombstones'[n] = tombstones[n]
  /\ \/ tombstones'[m] = tombstones[m]
     \/ /\ tombstones[m].state = "raw_pending" /\ tombstones'[m].state = "application_pending"
        /\ tombstones'[m].rawDue = tombstones[m].rawDue

RowsDeleted(m) ==
  \/ UNCHANGED <<messages, tombstones, sends, threads>>
  \/ /\ tombstones[m].state = "application_pending"
     /\ messages' \in [Messages -> Columns] /\ messages'[m].state = "deleted"
     /\ \A n \in Messages :
          /\ messages'[n].key = messages[n].key
          /\ messages'[n].createdAt = messages[n].createdAt
          /\ messages'[n].rawDeletedAt = messages[n].rawDeletedAt
          /\ (n # m => messages'[n].state = messages[n].state)
     /\ tombstones' \in [Messages -> Tombstones]
     /\ \A n \in Messages \ {m} : tombstones'[n] = tombstones[n]
     /\ tombstones'[m].state = "completed" /\ tombstones'[m].rawDue = tombstones[m].rawDue

\* A message is past the clearing when the job that cleared it still holds it.
LEMMA RawMarked ==
  ASSUME IInv, NEW j \in Jobs, NEW m \in Messages, MarkRawDeleted(j, m)
  PROVE  /\ RowsMarked(m)
         /\ tasks[j][m] = "cleared" /\ tasks' \in TaskTypes
         /\ \A i \in Jobs, n \in Messages :
              tasks'[i][n] = tasks[i][n] \/ tasks'[i][n] \in {"application_pending", "none"}
         /\ UNCHANGED <<now, threads, sends, objects, mail, downloads>>
<1>1. now \in Nat /\ messages \in [Messages -> Columns] /\ tombstones \in [Messages -> Tombstones]
  BY DEF IInv, TypeOK, Columns, Tombstones
<1>2. ASSUME Holds(j, m, "raw_pending") PROVE RowsMarked(m)
  <2> DEFINE token == IF tombstones[m].applicationDue <= now THEN tombstones[m].token ELSE None
             row == [tombstones[m] EXCEPT !.state = "application_pending", !.token = token]
             day == IF messages[m].rawDeletedAt = None THEN now ELSE messages[m].rawDeletedAt
  <2>1. /\ messages' = [messages EXCEPT ![m].rawDeletedAt = day]
        /\ tombstones' = [tombstones EXCEPT ![m] = row]
    <3>1. messages' = [messages EXCEPT ![m].rawDeletedAt = day]
      BY <1>2, Zenon DEF MarkRawDeleted
    <3>2. tombstones' = [tombstones EXCEPT ![m] = row]
      BY <1>2, Zenon DEF MarkRawDeleted
    <3> QED
      BY <3>1, <3>2
  <2>2. token \in Jobs \cup {None} /\ day \in Nat \cup {None}
    BY <1>1 DEF Columns, Tombstones
  <2> HIDE DEF token, day
  <2>3. row \in Tombstones /\ row.state = "application_pending" /\ row.rawDue = tombstones[m].rawDue
    BY <1>1, <2>2 DEF Tombstones, TombstoneStates
  <2> HIDE DEF row
  <2>4. tombstones[m].state = "raw_pending"
    BY <1>2 DEF Holds
  <2>5. messages' \in [Messages -> Columns]
    BY <1>1, <2>1, <2>2 DEF Columns
  <2>6. \A n \in Messages :
              /\ messages'[n].state = messages[n].state /\ messages'[n].key = messages[n].key
              /\ messages'[n].createdAt = messages[n].createdAt
              /\ messages'[n].rawDeletedAt = messages[n].rawDeletedAt \/ n = m
    BY <1>1, <2>1 DEF Columns
  <2> QED
    BY <1>1, <2>1, <2>3, <2>4, <2>5, <2>6 DEF RowsMarked
<1>3. ASSUME ~Holds(j, m, "raw_pending") PROVE RowsMarked(m)
  <2>1. messages' = messages /\ tombstones' = tombstones
    BY <1>3 DEF MarkRawDeleted
  <2> QED
    BY <1>1, <2>1, Zenon DEF RowsMarked
<1>4. /\ tasks' \in TaskTypes
      /\ \A i \in Jobs, n \in Messages :
           tasks'[i][n] = tasks[i][n] \/ tasks'[i][n] \in {"application_pending", "none"}
  <2>1. Moves(j, m, "application_pending") \/ Moves(j, m, "none")
    BY DEF MarkRawDeleted
  <2> QED
    BY <2>1, Moving DEF IInv, TombstoneStates
<1>5. tasks[j][m] = "cleared" /\ UNCHANGED <<now, threads, sends, objects, mail, downloads>>
  BY DEF MarkRawDeleted
<1> QED
  BY <1>2, <1>3, <1>4, <1>5

\* Records are deleted by the job that holds them, or not at all.
LEMMA RecordsDeleted ==
  ASSUME IInv, NEW j \in Jobs, NEW m \in Messages, CompleteApplicationDeletion(j, m)
  PROVE  /\ RowsDeleted(m)
         /\ tasks[j][m] = "application_pending" /\ tasks' \in TaskTypes
         /\ \A i \in Jobs, n \in Messages : tasks'[i][n] = tasks[i][n] \/ tasks'[i][n] = "none"
         /\ UNCHANGED <<now, objects, mail, downloads>>
<1>1. messages \in [Messages -> Columns] /\ tombstones \in [Messages -> Tombstones]
  BY DEF IInv, TypeOK, Columns, Tombstones
<1>2. ASSUME Holds(j, m, "application_pending") PROVE RowsDeleted(m)
  <2> DEFINE row == [tombstones[m] EXCEPT !.state = "completed", !.token = None]
  <2>1. /\ messages' = [messages EXCEPT ![m].state = "deleted"]
        /\ tombstones' = [tombstones EXCEPT ![m] = row]
        /\ tombstones[m].state = "application_pending"
    BY <1>2 DEF CompleteApplicationDeletion, Holds
  <2>2. row \in Tombstones /\ row.state = "completed" /\ row.rawDue = tombstones[m].rawDue
    BY <1>1 DEF Tombstones, TombstoneStates
  <2> HIDE DEF row
  <2>3. messages' \in [Messages -> Columns]
    BY <1>1, <2>1 DEF Columns
  <2>4. \A n \in Messages :
                 /\ messages'[n].key = messages[n].key
                 /\ messages'[n].createdAt = messages[n].createdAt
                 /\ messages'[n].rawDeletedAt = messages[n].rawDeletedAt
                 /\ n # m => messages'[n].state = messages[n].state
    BY <1>1, <2>1 DEF Columns
  <2>5. messages'[m].state = "deleted"
    BY <1>1, <2>1 DEF Columns
  <2> QED
    BY <1>1, <2>1, <2>2, <2>3, <2>4, <2>5 DEF RowsDeleted
<1>3. ASSUME ~Holds(j, m, "application_pending") PROVE RowsDeleted(m)
  BY <1>3 DEF CompleteApplicationDeletion, RowsDeleted
<1>4. /\ tasks' \in TaskTypes
      /\ \A i \in Jobs, n \in Messages : tasks'[i][n] = tasks[i][n] \/ tasks'[i][n] = "none"
  <2>1. Moves(j, m, "none")
    BY DEF CompleteApplicationDeletion
  <2> QED
    BY <2>1, Moving DEF IInv
<1>5. tasks[j][m] = "application_pending" /\ UNCHANGED <<now, objects, mail, downloads>>
  BY DEF CompleteApplicationDeletion
<1> QED
  BY <1>2, <1>3, <1>4, <1>5

\* A claim is given back.
LEMMA FailureRecorded ==
  ASSUME IInv, NEW j \in Jobs, NEW m \in Messages, RecordFailure(j, m)
  PROVE  /\ tombstones' \in [Messages -> Tombstones]
         /\ \A n \in Messages :
              /\ tombstones'[n].state = tombstones[n].state
              /\ tombstones'[n].rawDue = tombstones[n].rawDue
              /\ tombstones'[n].token \in {tombstones[n].token, None}
         /\ tasks' \in TaskTypes
         /\ \A i \in Jobs, n \in Messages : tasks'[i][n] = tasks[i][n] \/ tasks'[i][n] = "none"
         /\ UNCHANGED <<now, messages, threads, sends, objects, mail, downloads>>
<1>1. tombstones \in [Messages -> Tombstones]
  BY DEF IInv, TypeOK, Tombstones
<1> DEFINE token == IF tombstones[m].token = j /\ Open(tombstones[m]) THEN None ELSE tombstones[m].token
<1>2. tombstones' = [tombstones EXCEPT ![m].token = token]
  BY DEF RecordFailure
<1>3. token \in Jobs \cup {None} /\ token \in {tombstones[m].token, None}
  BY <1>1 DEF Tombstones
<1> HIDE DEF token
<1>4. /\ tombstones' \in [Messages -> Tombstones]
      /\ \A n \in Messages :
           /\ tombstones'[n].state = tombstones[n].state
           /\ tombstones'[n].rawDue = tombstones[n].rawDue
           /\ tombstones'[n].token \in {tombstones[n].token, None}
  BY <1>1, <1>2, <1>3 DEF Tombstones
<1>5. Moves(j, m, "none") /\ UNCHANGED <<now, messages, threads, sends, objects, mail, downloads>>
  BY DEF RecordFailure
<1> QED
  BY <1>4, <1>5, Moving DEF IInv

\* A send that loses its message or its thread keeps the rest of its evidence.
LEMMA Detaching ==
  ASSUME TypeOK, NEW m \in Messages
  PROVE  /\ Detached(m) \in [Replies -> Evidence]
         /\ \A s \in Replies :
              /\ Detached(m)[s].message = IF s = m THEN None ELSE sends[s].message
              /\ Detached(m)[s].thread =
                   IF sends[s].thread = ThreadOf[m] /\ \A n \in Stored \ {m} : ThreadOf[n] # ThreadOf[m]
                   THEN None ELSE sends[s].thread
<1> DEFINE alone == \A n \in Stored \ {m} : ThreadOf[n] # ThreadOf[m]
           message(s) == IF s = m THEN None ELSE sends[s].message
           thread(s) == IF sends[s].thread = ThreadOf[m] /\ alone THEN None ELSE sends[s].thread
           row(s) == [sends[s] EXCEPT !.message = message(s), !.thread = thread(s)]
<1>1. Detached(m) = [s \in Replies |-> row(s)]
  BY Zenon DEF Detached
<1>2. \A s \in Replies : message(s) \in Messages \cup {None} /\ thread(s) \in Threads \cup {None}
  BY DEF TypeOK
<1>3. \A s \in Replies : sends[s] \in Evidence
  BY DEF TypeOK, Evidence
<1> HIDE DEF message, thread
<1>4. \A s \in Replies : row(s) \in Evidence /\ row(s).message = message(s) /\ row(s).thread = thread(s)
  BY <1>2, <1>3 DEF Evidence
<1> HIDE DEF row
<1> QED
  BY <1>1, <1>4 DEF message, thread

\* A download keeps its columns.
LEMMA Downloaded ==
  ASSUME TypeOK, NEW d \in Reads, NEW step \in {"found", "answered", "failed"},
         NEW m \in Messages \cup {None}, NEW key \in Keys \cup {None}, Download(d, step, m, key)
  PROVE  TypeOK'
<1> DEFINE row == [step |-> step, message |-> m, key |-> key]
<1>1. row \in [step : {"idle", "found", "answered", "failed"},
               message : Messages \cup {None}, key : Keys \cup {None}]
  OBVIOUS
<1>2. downloads' = [downloads EXCEPT ![d] = row]
  BY DEF Download
<1>3. UNCHANGED <<now, messages, threads, sends, objects, jobs, mail>>
  BY DEF Download
<1> HIDE DEF row
<1> QED
  BY <1>1, <1>2, <1>3 DEF TypeOK, jobs, mail

\* Every action keeps the types.
LEMMA StepTypes == IInv /\ [Next]_vars => TypeOK'
<1> SUFFICES ASSUME IInv, [Next]_vars PROVE TypeOK'
  OBVIOUS
<1>0. /\ TypeOK /\ Conversing
      /\ \A m \in Messages : Filed(m)
  BY DEF IInv
<1>1. CASE UNCHANGED vars
  BY <1>0, <1>1 DEF TypeOK, vars, jobs, mail
<1>2. CASE Tick
  BY <1>0, <1>2, Numbers DEF TypeOK, Tick, jobs, mail
<1>3. CASE \E m \in Messages : Begin(m) \/ Put(m)
  <2> PICK m \in Messages : Begin(m) \/ Put(m)
    BY <1>3
  <2>1. /\ arriving' \in [Messages -> Nat \cup {None}] /\ put' \subseteq Messages
        /\ UNCHANGED <<now, messages, threads, sends, jobs, downloads>>
    BY <1>0 DEF TypeOK, Begin, Put
  <2>2. objects' \subseteq Keys
    <3>1. CASE Begin(m)
      BY <1>0, <3>1 DEF TypeOK, Begin
    <3>2. CASE Put(m)
      <4>1. arriving[m] \in Nat /\ objects' = objects \cup {KeyAt(arriving[m], m)}
        BY <1>0, <3>2 DEF TypeOK, Put
      <4> QED
        BY <1>0, <4>1, Numbers DEF TypeOK
    <3> QED
      BY <3>1, <3>2
  <2> QED
    BY <1>0, <2>1, <2>2 DEF TypeOK, jobs
<1>16. CASE \E m \in Messages : Reserve(m)
  <2> PICK m \in Messages : Reserve(m)
    BY <1>16
  <2> DEFINE row == [state |-> "sending", message |-> None, thread |-> ThreadOf[m]]
  <2>1. row \in Evidence
    BY Numbers DEF Evidence
  <2>2. sends' = [sends EXCEPT ![m] = row] /\ UNCHANGED <<now, messages, threads, objects, jobs, mail, downloads>>
    BY DEF Reserve
  <2> HIDE DEF row
  <2> QED
    BY <1>0, <2>1, <2>2 DEF TypeOK, Evidence, jobs, mail
<1>4. CASE \E m \in Messages : Project(m)
  <2> PICK m \in Messages : Project(m)
    BY <1>4
  <2>1. arriving[m] \in Nat /\ KeyAt(arriving[m], m) \in Keys /\ ThreadOf[m] \in Threads
    BY <1>0, Numbers DEF TypeOK, Project, Filed
  <2>2. messages' \in [Messages -> Columns]
    <3> DEFINE row == [state |-> "stored", createdAt |-> arriving[m], key |-> KeyAt(arriving[m], m),
                       rawDeletedAt |-> None]
    <3>1. row \in Columns
      BY <2>1 DEF Columns
    <3>2. messages' = [messages EXCEPT ![m] = row]
      BY DEF Project
    <3> HIDE DEF row
    <3> QED
      BY <1>0, <3>1, <3>2 DEF TypeOK, Columns
  <2>3. sends' \in [Replies -> Evidence]
    <3>1. CASE m \in Mails
      BY <1>0, <3>1 DEF TypeOK, Project, Evidence
    <3>2. CASE m \notin Mails
      <4> DEFINE row == [sends[m] EXCEPT !.state = "sent", !.message = m]
      <4>1. row \in Evidence
        <5>1. sends[m] \in Evidence /\ m \in Messages
          BY <1>0, <3>2 DEF Evidence, TypeOK, Messages
        <5> QED
          BY <5>1 DEF Evidence
      <4>2. sends' = [sends EXCEPT ![m] = row]
        BY <3>2 DEF Project
      <4> HIDE DEF row
      <4> QED
        BY <1>0, <4>1, <4>2 DEF TypeOK, Evidence
    <3> QED
      BY <3>1, <3>2
  <2>4. /\ threads' = threads \cup {ThreadOf[m]}
        /\ arriving' = [arriving EXCEPT ![m] = None] /\ put' = put \ {m}
        /\ UNCHANGED <<now, objects, jobs, downloads>>
    BY DEF Project, Ends
  <2> QED
    BY <1>0, <2>1, <2>2, <2>3, <2>4 DEF TypeOK, Columns, Evidence, jobs, mail
<1>5. CASE \E m \in Messages : Stop(m)
  <2> PICK m \in Messages : Stop(m)
    BY <1>5
  <2> QED
    BY <1>0, Numbers DEF TypeOK, Stop, Ends, jobs
<1>6. CASE \E policy \in Policies, limit \in Batches : Enqueue(policy, limit)
  <2> PICK policy \in Policies, limit \in Batches : Enqueue(policy, limit)
    BY <1>6
  <2> QED
    BY <1>0, Enqueued DEF TypeOK, Tombstones, Columns, TaskTypes, mail
<1>7. CASE \E j \in Jobs, limit \in Batches : Claim(j, limit)
  <2> PICK j \in Jobs, limit \in Batches : Claim(j, limit)
    BY <1>7
  <2> QED
    BY <1>0, Claimed DEF TypeOK, Tombstones, Columns, TaskTypes, mail
<1>8. CASE \E j \in Jobs : ReadClaims(j)
  <2> PICK j \in Jobs : ReadClaims(j)
    BY <1>8
  <2> QED
    BY <1>0, Numbers DEF TypeOK, ReadClaims, jobs, mail
<1>9. CASE \E j \in Jobs : Abandon(j)
  <2> PICK j \in Jobs : Abandon(j)
    BY <1>9
  <2> QED
    BY <1>0, Numbers DEF TypeOK, Abandon, jobs, mail
<1>10. CASE \E j \in Jobs, m \in Messages : Clear(j, m)
  <2> PICK j \in Jobs, m \in Messages : Clear(j, m)
    BY <1>10
  <2> QED
    BY <1>0, Numbers DEF TypeOK, Clear, jobs, mail, Moves, Cleared
<1>11. CASE \E j \in Jobs, m \in Messages : MarkRawDeleted(j, m)
  <2> PICK j \in Jobs, m \in Messages : MarkRawDeleted(j, m)
    BY <1>11
  <2> QED
    BY <1>0, RawMarked DEF TypeOK, mail, RowsMarked, TombstoneStates, Tombstones, Columns,
       TaskTypes
<1>12. CASE \E j \in Jobs, m \in Messages : CompleteApplicationDeletion(j, m)
  <2> PICK j \in Jobs, m \in Messages : CompleteApplicationDeletion(j, m)
    BY <1>12
  <2>1. /\ messages' \in [Messages -> Columns] /\ tombstones' \in [Messages -> Tombstones]
        /\ tasks' \in TaskTypes /\ UNCHANGED <<now, objects, mail, downloads>>
    BY <1>0, RecordsDeleted DEF RowsDeleted, TypeOK, Columns, Tombstones
  <2>2. threads' \subseteq Threads
    BY <1>0 DEF TypeOK, CompleteApplicationDeletion
  <2>3. sends' \in [Replies -> Evidence]
    <3>1. sends \in [Replies -> Evidence]
      BY <1>0 DEF TypeOK, Evidence
    <3>2. Detached(m) \in [Replies -> Evidence]
      BY <1>0, Detaching
    <3>3. sends' = Detached(m) \/ sends' = sends
      BY DEF CompleteApplicationDeletion
    <3> QED
      BY <3>1, <3>2, <3>3
  <2> QED
    BY <1>0, <2>1, <2>2, <2>3 DEF TypeOK, Columns, Tombstones, TaskTypes, Evidence, mail
<1>13. CASE \E j \in Jobs, m \in Messages : RecordFailure(j, m)
  <2> PICK j \in Jobs, m \in Messages : RecordFailure(j, m)
    BY <1>13
  <2> QED
    BY <1>0, FailureRecorded DEF TypeOK, Moves, Tombstones, Columns, TaskTypes, mail
<1>14. CASE \E d \in Reads, m \in Messages : Find(d, m)
  <2> PICK d \in Reads, m \in Messages : Find(d, m)
    BY <1>14
  <2>1. \/ messages[m].key \in Keys \cup {None} /\ Download(d, "found", m, messages[m].key)
        \/ Download(d, "answered", None, None)
    BY <1>0 DEF Find, TypeOK
  <2> QED
    BY <1>0, <2>1, Downloaded
<1>15. CASE \E d \in Reads : Fetch(d)
  <2> PICK d \in Reads : Fetch(d)
    BY <1>15
  <2>1. downloads[d].message \in Messages \cup {None} /\ downloads[d].key \in Keys \cup {None}
    BY <1>0 DEF TypeOK
  <2>2. \/ Download(d, "answered", None, None)
        \/ Download(d, "failed", downloads[d].message, downloads[d].key)
    BY DEF Fetch
  <2> QED
    BY <1>0, <2>1, <2>2, Downloaded
<1> QED
  BY <1>1, <1>2, <1>3, <1>4, <1>5, <1>6, <1>7, <1>8, <1>9, <1>10, <1>11, <1>12, <1>13,
     <1>14, <1>15, <1>16 DEF Next, JobStep

\* Ids are used once.
LEMMA StepFiled == IInv /\ [Next]_vars => \A m \in Messages : Filed(m)'
<1> SUFFICES ASSUME IInv, [Next]_vars PROVE \A m \in Messages : Filed(m)'
  OBVIOUS
<1>0. /\ TypeOK /\ Conversing
      /\ \A m \in Messages : Filed(m)
  BY DEF IInv
<1>1. CASE \/ UNCHANGED vars
           \/ Tick
           \/ \E j \in Jobs : ReadClaims(j) \/ Abandon(j)
           \/ \E j \in Jobs, m \in Messages : Clear(j, m)
           \/ \E d \in Reads, m \in Messages : Find(d, m)
           \/ \E d \in Reads : Fetch(d)
  BY <1>0, <1>1 DEF Tick, ReadClaims, Abandon, Clear, Find, Fetch, Filed, vars, jobs, mail,
     Download, Moves
<1>2. CASE \E m \in Messages : Begin(m) \/ Reserve(m) \/ Put(m)
  <2> PICK m \in Messages : Begin(m) \/ Reserve(m) \/ Put(m)
    BY <1>2
  <2> QED
    BY <1>0, Numbers DEF Filed, TypeOK, Begin, Reserve, Put, jobs, mail
<1>3. CASE \E m \in Messages : Project(m)
  <2> PICK m \in Messages : Project(m)
    BY <1>3
  <2> QED
    BY <1>0, Numbers DEF Filed, TypeOK, Project, Ends, jobs
<1>4. CASE \E m \in Messages : Stop(m)
  <2> PICK m \in Messages : Stop(m)
    BY <1>4
  <2> QED
    BY <1>0, Numbers DEF Filed, TypeOK, Stop, Ends, jobs
<1>5. CASE \E policy \in Policies, limit \in Batches : Enqueue(policy, limit)
  <2> PICK policy \in Policies, limit \in Batches : Enqueue(policy, limit)
    BY <1>5
  <2> QED
    BY <1>0, Enqueued DEF Filed, mail, Stored
<1>6. CASE \E j \in Jobs, limit \in Batches : Claim(j, limit)
  <2> PICK j \in Jobs, limit \in Batches : Claim(j, limit)
    BY <1>6
  <2> QED
    BY <1>0, Claimed DEF Filed, mail
<1>7. CASE \E j \in Jobs, m \in Messages : MarkRawDeleted(j, m)
  <2> PICK j \in Jobs, m \in Messages : MarkRawDeleted(j, m)
    BY <1>7
  <2> QED
    BY <1>0, RawMarked DEF Filed, mail, RowsMarked
<1>8. CASE \E j \in Jobs, m \in Messages : CompleteApplicationDeletion(j, m)
  <2> PICK j \in Jobs, m \in Messages : CompleteApplicationDeletion(j, m)
    BY <1>8
  <2> QED
    BY <1>0, RecordsDeleted DEF Filed, mail, RowsDeleted
<1>9. CASE \E j \in Jobs, m \in Messages : RecordFailure(j, m)
  <2> PICK j \in Jobs, m \in Messages : RecordFailure(j, m)
    BY <1>9
  <2> QED
    BY <1>0, FailureRecorded DEF Filed, mail
<1> QED
  BY <1>1, <1>2, <1>3, <1>4, <1>5, <1>6, <1>7, <1>8, <1>9 DEF Next, JobStep

\* Evidence loses its message and its thread with them.
LEMMA StepConversing == IInv /\ [Next]_vars => Conversing'
<1> SUFFICES ASSUME IInv, [Next]_vars PROVE Conversing'
  OBVIOUS
<1>0. /\ TypeOK /\ Conversing
      /\ \A m \in Messages : Filed(m)
  BY DEF IInv
<1>1. CASE \/ UNCHANGED vars
           \/ Tick
           \/ \E m \in Messages : Begin(m) \/ Put(m) \/ Stop(m)
           \/ \E policy \in Policies, limit \in Batches : Enqueue(policy, limit)
           \/ \E j \in Jobs, limit \in Batches : Claim(j, limit)
           \/ \E j \in Jobs : ReadClaims(j) \/ Abandon(j)
           \/ \E j \in Jobs, m \in Messages : Clear(j, m) \/ RecordFailure(j, m)
           \/ \E d \in Reads, m \in Messages : Find(d, m)
           \/ \E d \in Reads : Fetch(d)
  BY <1>0, <1>1 DEF Tick, Begin, Put, Stop, Enqueue, Claim, ReadClaims, Abandon, Clear, RecordFailure,
     Find, Fetch, Conversing, EvidenceIsDetached, Stored, vars, jobs, mail, Download, Moves
<1>2. CASE \E m \in Messages : Reserve(m)
  <2> PICK m \in Messages : Reserve(m)
    BY <1>2
  <2>1. /\ UNCHANGED <<messages, threads>> /\ ThreadOf[m] \in threads
        /\ sends' = [sends EXCEPT ![m] = [state |-> "sending", message |-> None, thread |-> ThreadOf[m]]]
    BY DEF Reserve
  <2>2. \A s \in Replies : sends'[s] = sends[s]
          \/ (s = m /\ sends'[s].message = None /\ sends'[s].thread = ThreadOf[m])
    BY <1>0, <2>1 DEF TypeOK
  <2> QED
    BY <1>0, <2>1, <2>2 DEF Conversing, EvidenceIsDetached, Stored
<1>3. CASE \E m \in Messages : Project(m)
  <2> PICK m \in Messages : Project(m)
    BY <1>3
  <2> QED
    BY <1>0, Numbers DEF Conversing, EvidenceIsDetached, Stored, TypeOK, Project, jobs, mail,
       Filed
<1>4. CASE \E j \in Jobs, m \in Messages : MarkRawDeleted(j, m)
  <2> PICK j \in Jobs, m \in Messages : MarkRawDeleted(j, m)
    BY <1>4
  <2> QED
    BY <1>0, RawMarked DEF Conversing, EvidenceIsDetached, Stored, RowsMarked
<1>5. CASE \E j \in Jobs, m \in Messages : CompleteApplicationDeletion(j, m)
  <2> PICK j \in Jobs, m \in Messages : CompleteApplicationDeletion(j, m)
    BY <1>5
  <2>1. CASE ~Holds(j, m, "application_pending")
    BY <1>0, <2>1 DEF CompleteApplicationDeletion, Conversing, EvidenceIsDetached, Stored
  <2>2. CASE Holds(j, m, "application_pending")
    <3> DEFINE alone == \A n \in Stored \ {m} : ThreadOf[n] # ThreadOf[m]
    <3>1. sends' = Detached(m) /\ threads' = IF alone THEN threads \ {ThreadOf[m]} ELSE threads
      BY <2>2 DEF CompleteApplicationDeletion
    <3>2. Stored' = Stored \ {m}
      <4>1. messages' = [messages EXCEPT ![m].state = "deleted"]
        BY <2>2 DEF CompleteApplicationDeletion
      <4> QED
        BY <1>0, <4>1 DEF TypeOK, Stored
    <3>3. \A s \in Replies :
            /\ sends'[s].message = IF s = m THEN None ELSE sends[s].message
            /\ sends'[s].thread = IF sends[s].thread = ThreadOf[m] /\ alone THEN None ELSE sends[s].thread
      BY <1>0, <3>1, Detaching
    <3> HIDE DEF alone
    <3>4. \A s \in Replies : sends'[s].message \in {s, None} /\ sends'[s].thread \in {ThreadOf[s], None}
      BY <1>0, <3>3 DEF Conversing
    <3>5. \A s \in Replies : sends'[s].message # None => s \in Stored'
      BY <1>0, <3>2, <3>3 DEF Conversing, EvidenceIsDetached
    <3>6. \A s \in Replies : sends'[s].thread # None => sends'[s].thread \in threads'
      BY <1>0, <3>1, <3>3 DEF Conversing, EvidenceIsDetached
    <3>7. \A n \in Stored' : ThreadOf[n] \in threads'
      BY <1>0, <3>1, <3>2 DEF Conversing, EvidenceIsDetached, alone
    <3> QED
      BY <3>4, <3>5, <3>6, <3>7 DEF Conversing, EvidenceIsDetached
  <2> QED
    BY <2>1, <2>2
<1> QED
  BY <1>1, <1>2, <1>3, <1>4, <1>5 DEF Next, JobStep

-------------------------------------------------------------------------------
(* Bytes, and the messages that share them *)

\* A job may clear the object of m: its day is over, and every message that names it is retired.
Retiring(m) ==
  /\ messages[m].createdAt + 2 <= now /\ tombstones[m].state # "absent"
  /\ \A n \in Stored : messages[n].key = messages[m].key => tombstones[n].state # "absent"

\* An invocation sees one midnight at most, and the bytes it has put stay.
Arrived(m) ==
  /\ arriving[m] # None => arriving[m] <= now /\ now <= arriving[m] + 1
  /\ m \in put => KeyAt(arriving[m], m) \in objects

Retired(m) ==
  /\ tombstones[m].state # "absent" => messages[m].createdAt + 2 <= tombstones[m].rawDue
  /\ messages[m].rawDeletedAt # None => tombstones[m].state # "absent"
  /\ messages[m].state = "stored" /\ tombstones[m].state = "absent" => messages[m].key \in objects

\* What is past the clearing has no bytes, nor will it get any.
Gone(m) ==
  tombstones[m].state \in {"application_pending", "completed"} =>
    messages[m].createdAt + 2 <= now /\ messages[m].key \notin objects

\* A job that cleared an object finds it cleared.
Emptied(j, m) ==
  tasks[j][m] = "cleared" =>
    /\ messages[m].createdAt + 2 <= now /\ tombstones[m].state # "absent"
    /\ messages[m].key \notin objects

Downloading(d) ==
  LET row == downloads[d] IN
  /\ row.step = "found" =>
       /\ row.message \in Messages /\ messages[row.message].state # "absent"
       /\ row.key = messages[row.message].key
  /\ row.step = "failed" => row.message \in Messages /\ tombstones[row.message].state # "absent"

Shared ==
  /\ \A m \in Messages :
       /\ Arrived(m) /\ Retired(m) /\ Gone(m)
       /\ tombstones[m].token # None /\ tombstones[m].state = "raw_pending" => Retiring(m)
  /\ \A j \in Jobs, m \in Messages :
       /\ tasks[j][m] = "raw_pending" => Retiring(m)
       /\ Emptied(j, m)
  /\ \A d \in Reads : Downloading(d)

\* Bytes are kept for more than the day of their arrival.
LongEnough == \A p \in Policies : 2 <= p[1]

Lasting ==
  /\ now <= now'
  /\ \A n \in Messages :
       /\ tombstones[n].state # "absent" => tombstones'[n].state # "absent"
       /\ messages[n].state # "absent" =>
            /\ messages'[n].state # "absent"
            /\ messages'[n].key = messages[n].key /\ messages'[n].createdAt = messages[n].createdAt
       /\ n \in Stored' =>
            n \in Stored \/ (arriving[n] # None /\ messages'[n].key = KeyAt(arriving[n], n))

\* Nothing is forgotten that was there, and what becomes a message had arrived.
LEMMA StepLasting == IInv /\ [Next]_vars => Lasting
<1> SUFFICES ASSUME IInv, [Next]_vars PROVE Lasting
  OBVIOUS
<1>0. /\ TypeOK /\ Conversing
      /\ \A m \in Messages : Filed(m)
  BY DEF IInv
<1>1. CASE \/ UNCHANGED vars
           \/ \E m \in Messages : Begin(m) \/ Reserve(m) \/ Put(m) \/ Stop(m)
           \/ \E j \in Jobs : ReadClaims(j) \/ Abandon(j)
           \/ \E j \in Jobs, m \in Messages : Clear(j, m)
           \/ \E d \in Reads, m \in Messages : Find(d, m)
           \/ \E d \in Reads : Fetch(d)
  BY <1>0, <1>1 DEF Begin, Reserve, Put, Stop, ReadClaims, Abandon, Clear, Find, Fetch, Lasting, Stored,
     vars, jobs, mail, Download, Moves, TypeOK
<1>2. CASE Tick
  BY <1>0, <1>2, Numbers DEF Lasting, Stored, TypeOK, Tick, jobs, mail, TypeOK
<1>3. CASE \E m \in Messages : Project(m)
  <2> PICK m \in Messages : Project(m)
    BY <1>3
  <2> QED
    BY <1>0, Numbers DEF Lasting, Stored, TypeOK, Project, jobs, mail, Filed, TypeOK
<1>4. CASE \E policy \in Policies, limit \in Batches : Enqueue(policy, limit)
  <2> PICK policy \in Policies, limit \in Batches : Enqueue(policy, limit)
    BY <1>4
  <2> QED
    BY <1>0, Enqueued DEF Lasting, Stored, TypeOK, Stored
<1>5. CASE \E j \in Jobs, limit \in Batches : Claim(j, limit)
  <2> PICK j \in Jobs, limit \in Batches : Claim(j, limit)
    BY <1>5
  <2> QED
    BY <1>0, Claimed DEF Lasting, Stored, TypeOK
<1>6. CASE \E j \in Jobs, m \in Messages : MarkRawDeleted(j, m)
  <2> PICK j \in Jobs, m \in Messages : MarkRawDeleted(j, m)
    BY <1>6
  <2> QED
    BY <1>0, RawMarked DEF Lasting, Stored, RowsMarked, TypeOK
<1>7. CASE \E j \in Jobs, m \in Messages : CompleteApplicationDeletion(j, m)
  <2> PICK j \in Jobs, m \in Messages : CompleteApplicationDeletion(j, m)
    BY <1>7
  <2>1. RowsDeleted(m) /\ now' = now /\ now \in Nat
    BY <1>0, RecordsDeleted DEF TypeOK
  <2>2. CASE UNCHANGED <<messages, tombstones>>
    BY <1>0, <2>1, <2>2 DEF Lasting, Stored
  <2>3. CASE /\ messages'[m].state = "deleted" /\ tombstones'[m].state = "completed"
             /\ tombstones[m].state = "application_pending"
             /\ \A n \in Messages \ {m} : messages'[n].state = messages[n].state /\ tombstones'[n] = tombstones[n]
             /\ \A n \in Messages : /\ messages'[n].key = messages[n].key
                                    /\ messages'[n].createdAt = messages[n].createdAt
    BY <2>1, <2>3 DEF Lasting, Stored
  <2> QED
    BY <2>1, <2>2, <2>3 DEF RowsDeleted
<1>8. CASE \E j \in Jobs, m \in Messages : RecordFailure(j, m)
  <2> PICK j \in Jobs, m \in Messages : RecordFailure(j, m)
    BY <1>8
  <2> QED
    BY <1>0, FailureRecorded DEF Lasting, Stored, TypeOK
<1> QED
  BY <1>1, <1>2, <1>3, <1>4, <1>5, <1>6, <1>7, <1>8 DEF Next, JobStep

\* No mail that is still arriving names an object that may be cleared.
LEMMA NoneJoins ==
  ASSUME TypeOK, NEW m \in Messages, NEW n \in Messages, Filed(m), Retiring(m), Arrived(n),
         arriving[n] # None
  PROVE  KeyAt(arriving[n], n) # messages[m].key
<1>1. messages[m].key = KeyAt(messages[m].createdAt, m)
  BY DEF Filed, Retiring
<1>2. arriving[n] \in Nat /\ now \in Nat /\ messages[m].createdAt \in Nat
  BY DEF TypeOK
<1>3. arriving[n] # messages[m].createdAt
  BY <1>2 DEF Arrived, Retiring
<1> QED
  BY <1>1, <1>3 DEF KeyAt

\* What may be cleared may be cleared from then on.
LEMMA RetiringStays ==
  ASSUME IInv, IInv', Shared, Lasting, NEW m \in Messages, Retiring(m)
  PROVE  Retiring(m)'
<1>1. TypeOK /\ TypeOK' /\ Filed(m) /\ \A n \in Messages : Arrived(n)
  BY DEF IInv, Shared
<1>2. messages[m].state # "absent"
  BY <1>1 DEF Filed, Retiring
<1>3. /\ messages'[m].key = messages[m].key /\ messages'[m].createdAt = messages[m].createdAt
      /\ now <= now' /\ tombstones'[m].state # "absent"
  BY <1>2 DEF Lasting, Retiring
<1>4. messages[m].createdAt + 2 <= now'
  <2>1. now \in Nat /\ now' \in Nat /\ messages[m].createdAt \in Nat
    BY <1>1 DEF TypeOK
  <2> QED
    BY <1>3, <2>1 DEF Retiring
<1>5. ASSUME NEW n \in Stored', messages'[n].key = messages[m].key
      PROVE  tombstones'[n].state # "absent"
  <2>1. n \in Messages
    BY DEF Stored
  <2>2. n \in Stored
    BY <1>1, <1>5, <2>1, NoneJoins DEF Lasting
  <2>3. messages'[n].key = messages[n].key
    BY <2>2 DEF Lasting, Stored
  <2> QED
    BY <1>5, <2>1, <2>2, <2>3 DEF Retiring, Lasting
<1> QED
  BY <1>3, <1>4, <1>5 DEF Retiring

\* What has arrived keeps its bytes, for a day at most.
LEMMA StepArrived == IInv /\ Shared /\ [Next]_vars => \A m \in Messages : Arrived(m)'
<1> SUFFICES ASSUME IInv, Shared, [Next]_vars PROVE \A m \in Messages : Arrived(m)'
  OBVIOUS
<1>0. /\ TypeOK
      /\ \A m \in Messages : Filed(m) /\ Arrived(m) /\ Retired(m)
      /\ \A j \in Jobs, m \in Messages : tasks[j][m] = "raw_pending" => Retiring(m)
  BY DEF IInv, Shared
<1>1. CASE \/ UNCHANGED vars
           \/ \E j \in Jobs : ReadClaims(j) \/ Abandon(j)
           \/ \E d \in Reads, m \in Messages : Find(d, m)
           \/ \E d \in Reads : Fetch(d)
  BY <1>0, <1>1 DEF ReadClaims, Abandon, Find, Fetch, Arrived, vars, jobs, mail, Download
<1>2. CASE Tick
  BY <1>0, <1>2, Numbers DEF Arrived, TypeOK, Tick, jobs, mail
<1>3. CASE \E m \in Messages : Begin(m) \/ Reserve(m) \/ Put(m)
  <2> PICK m \in Messages : Begin(m) \/ Reserve(m) \/ Put(m)
    BY <1>3
  <2>1. CASE Begin(m)
    BY <1>0, <2>1, Numbers DEF Arrived, TypeOK, Begin, Filed
  <2>2. CASE Reserve(m)
    BY <1>0, <2>2 DEF Arrived, Reserve, mail
  <2>3. CASE Put(m)
    BY <1>0, <2>3 DEF Arrived, Put
  <2> QED
    BY <2>1, <2>2, <2>3
<1>4. CASE \E m \in Messages : Project(m)
  <2> PICK m \in Messages : Project(m)
    BY <1>4
  <2> QED
    BY <1>0, Numbers DEF Arrived, TypeOK, Project, Ends
<1>5. CASE \E m \in Messages : Stop(m)
  <2> PICK m \in Messages : Stop(m)
    BY <1>5
  <2> QED
    BY <1>0, Numbers DEF Arrived, TypeOK, Stop, Ends
<1>6. CASE \E policy \in Policies, limit \in Batches : Enqueue(policy, limit)
  <2> PICK policy \in Policies, limit \in Batches : Enqueue(policy, limit)
    BY <1>6
  <2> QED
    BY <1>0, Enqueued DEF Arrived, mail
<1>7. CASE \E j \in Jobs, limit \in Batches : Claim(j, limit)
  <2> PICK j \in Jobs, limit \in Batches : Claim(j, limit)
    BY <1>7
  <2> QED
    BY <1>0, Claimed DEF Arrived, mail
<1>8. CASE \E j \in Jobs, m \in Messages : Clear(j, m)
  <2> PICK j \in Jobs, m \in Messages : Clear(j, m)
    BY <1>8
  <2>1. /\ objects' = objects \ {messages[m].key} /\ tasks[j][m] = "raw_pending"
        /\ UNCHANGED <<now, arriving, put>>
    BY DEF Clear, Cleared, mail
  <2>2. ASSUME NEW n \in Messages, arriving[n] # None PROVE KeyAt(arriving[n], n) # messages[m].key
    BY <1>0, <2>1, <2>2, NoneJoins
  <2> QED
    BY <1>0, <2>1, <2>2 DEF Arrived, Filed
<1>9. CASE \E j \in Jobs, m \in Messages : MarkRawDeleted(j, m)
  <2> PICK j \in Jobs, m \in Messages : MarkRawDeleted(j, m)
    BY <1>9
  <2> QED
    BY <1>0, RawMarked DEF Arrived, mail
<1>10. CASE \E j \in Jobs, m \in Messages : CompleteApplicationDeletion(j, m)
  <2> PICK j \in Jobs, m \in Messages : CompleteApplicationDeletion(j, m)
    BY <1>10
  <2> QED
    BY <1>0, RecordsDeleted DEF Arrived, mail
<1>11. CASE \E j \in Jobs, m \in Messages : RecordFailure(j, m)
  <2> PICK j \in Jobs, m \in Messages : RecordFailure(j, m)
    BY <1>11
  <2> QED
    BY <1>0, FailureRecorded DEF Arrived, mail
<1> QED
  BY <1>1, <1>2, <1>3, <1>4, <1>5, <1>6, <1>7, <1>8, <1>9, <1>10, <1>11 DEF Next, JobStep

\* A message without a tombstone keeps its bytes, and has two days from its arrival.
LEMMA StepRetired == IInv /\ Shared /\ LongEnough /\ [Next]_vars => \A m \in Messages : Retired(m)'
<1> SUFFICES ASSUME IInv, Shared, LongEnough, [Next]_vars PROVE \A m \in Messages : Retired(m)'
  OBVIOUS
<1>0. /\ TypeOK
      /\ \A m \in Messages : Filed(m) /\ Arrived(m) /\ Retired(m)
      /\ \A j \in Jobs, m \in Messages : tasks[j][m] = "raw_pending" => Retiring(m)
  BY DEF IInv, Shared
<1>1. CASE \/ UNCHANGED vars
           \/ Tick
           \/ \E m \in Messages : Stop(m)
           \/ \E j \in Jobs : ReadClaims(j) \/ Abandon(j)
           \/ \E d \in Reads, m \in Messages : Find(d, m)
           \/ \E d \in Reads : Fetch(d)
  BY <1>0, <1>1 DEF Tick, Stop, ReadClaims, Abandon, Find, Fetch, Retired, vars, jobs, mail,
     Download, Moves
<1>2. CASE \E m \in Messages : Begin(m) \/ Reserve(m) \/ Put(m)
  <2> PICK m \in Messages : Begin(m) \/ Reserve(m) \/ Put(m)
    BY <1>2
  <2> QED
    BY <1>0 DEF Retired, Begin, Reserve, Put, jobs
<1>3. CASE \E m \in Messages : Project(m)
  <2> PICK m \in Messages : Project(m)
    BY <1>3
  <2>1. /\ m \in put /\ UNCHANGED <<objects, tombstones>>
        /\ messages' = [messages EXCEPT ![m] = [state |-> "stored", createdAt |-> arriving[m],
                                                key |-> KeyAt(arriving[m], m), rawDeletedAt |-> None]]
    BY DEF Project, jobs, mail
  <2>2. tombstones[m].state = "absent"
    BY <1>0, <2>1 DEF Filed
  <2>3. KeyAt(arriving[m], m) \in objects
    BY <1>0, <2>1 DEF Arrived
  <2> QED
    BY <1>0, <2>1, <2>2, <2>3 DEF Retired, TypeOK
<1>4. CASE \E policy \in Policies, limit \in Batches : Enqueue(policy, limit)
  <2> PICK policy \in Policies, limit \in Batches : Enqueue(policy, limit)
    BY <1>4
  <2>1. /\ policy[1] \in Nat /\ 2 <= policy[1] /\ UNCHANGED <<now, messages, objects>>
        /\ \A m \in Messages : messages[m].createdAt \in Nat
    BY <1>0, Numbers, Enqueued, RowTypes DEF LongEnough
  <2>2. ASSUME NEW m \in Messages PROVE Retired(m)'
    <3>1. CASE tombstones'[m] = tombstones[m]
      BY <1>0, <2>1, <3>1 DEF Retired
    <3>2. CASE tombstones'[m].state = "raw_pending" /\ tombstones'[m].rawDue = messages[m].createdAt + policy[1]
      BY <2>1, <3>2 DEF Retired
    <3> QED
      BY <3>1, <3>2, Enqueued
  <2> QED
    BY <2>2
<1>5. CASE \E j \in Jobs, limit \in Batches : Claim(j, limit)
  <2> PICK j \in Jobs, limit \in Batches : Claim(j, limit)
    BY <1>5
  <2> QED
    BY <1>0, Claimed DEF Retired
<1>6. CASE \E j \in Jobs, m \in Messages : Clear(j, m)
  <2> PICK j \in Jobs, m \in Messages : Clear(j, m)
    BY <1>6
  <2>1. /\ objects' = objects \ {messages[m].key} /\ tasks[j][m] = "raw_pending"
        /\ UNCHANGED <<now, messages, tombstones>>
    BY DEF Clear, Cleared
  <2>2. Retiring(m)
    BY <1>0, <2>1
  <2> QED
    BY <1>0, <2>1, <2>2 DEF Retired, Retiring, Stored
<1>7. CASE \E j \in Jobs, m \in Messages : MarkRawDeleted(j, m)
  <2> PICK j \in Jobs, m \in Messages : MarkRawDeleted(j, m)
    BY <1>7
  <2> QED
    BY <1>0, RawMarked DEF Retired, RowsMarked
<1>8. CASE \E j \in Jobs, m \in Messages : CompleteApplicationDeletion(j, m)
  <2> PICK j \in Jobs, m \in Messages : CompleteApplicationDeletion(j, m)
    BY <1>8
  <2> QED
    BY <1>0, RecordsDeleted DEF Retired, RowsDeleted
<1>9. CASE \E j \in Jobs, m \in Messages : RecordFailure(j, m)
  <2> PICK j \in Jobs, m \in Messages : RecordFailure(j, m)
    BY <1>9
  <2> QED
    BY <1>0, FailureRecorded DEF Retired
<1> QED
  BY <1>1, <1>2, <1>3, <1>4, <1>5, <1>6, <1>7, <1>8, <1>9 DEF Next, JobStep

\* A claim of bytes that are due finds every message that shares them retired.
LEMMA ClaimsRetiring ==
  ASSUME IInv, Shared, NEW m \in Claimable, tombstones[m].state = "raw_pending"
  PROVE  Retiring(m)
<1>1. m \in Messages /\ tombstones[m].rawDue <= now
  BY DEF Claimable, Due
<1>2. /\ tombstones[m] \in Tombstones /\ now \in Nat /\ messages[m].createdAt \in Nat
      /\ messages[m].createdAt + 2 <= tombstones[m].rawDue
  BY <1>1, RowTypes DEF IInv, Shared, Retired
<1>3. messages[m].createdAt + 2 <= now
  BY <1>1, <1>2 DEF Tombstones
<1>4. ASSUME NEW n \in Stored, messages[n].key = messages[m].key PROVE tombstones[n].state # "absent"
  BY <1>4 DEF Claimable, Shared, Retired, Stored
<1> QED
  BY <1>3, <1>4 DEF Retiring

\* Bytes that were cleared do not come back: what is still put is of another day.
LEMMA StepGone == IInv /\ Shared /\ [Next]_vars => \A m \in Messages : Gone(m)'
<1> SUFFICES ASSUME IInv, Shared, [Next]_vars PROVE \A m \in Messages : Gone(m)'
  OBVIOUS
<1>0. /\ TypeOK
      /\ \A m \in Messages : Filed(m) /\ Arrived(m) /\ Gone(m)
      /\ \A j \in Jobs, m \in Messages : Emptied(j, m)
  BY DEF IInv, Shared
<1>1. CASE \/ UNCHANGED vars
           \/ \E m \in Messages : Begin(m) \/ Reserve(m) \/ Stop(m)
           \/ \E j \in Jobs : ReadClaims(j) \/ Abandon(j)
           \/ \E d \in Reads, m \in Messages : Find(d, m)
           \/ \E d \in Reads : Fetch(d)
  BY <1>0, <1>1 DEF Begin, Reserve, Stop, ReadClaims, Abandon, Find, Fetch, Gone, vars, jobs, Download
<1>2. CASE Tick
  BY <1>0, <1>2, Numbers DEF Gone, TypeOK, Tick, jobs
<1>3. CASE \E m \in Messages : Put(m)
  <2> PICK m \in Messages : Put(m)
    BY <1>3
  <2>1. /\ arriving[m] # None /\ objects' = objects \cup {KeyAt(arriving[m], m)}
        /\ UNCHANGED <<now, messages, tombstones, tasks>>
    BY DEF Put, jobs
  <2>2. ASSUME NEW n \in Messages, tombstones[n].state # "absent", messages[n].createdAt + 2 <= now
        PROVE  KeyAt(arriving[m], m) # messages[n].key
    <3>1. messages[n].key = KeyAt(messages[n].createdAt, n)
      BY <1>0, <2>2 DEF Filed
    <3>2. arriving[m] \in Nat /\ now <= arriving[m] + 1 /\ now \in Nat /\ messages[n].createdAt \in Nat
      BY <1>0, <2>1 DEF Arrived, TypeOK
    <3>3. arriving[m] # messages[n].createdAt
      BY <2>2, <3>2
    <3> QED
      BY <3>1, <3>3 DEF KeyAt
  <2> QED
    BY <1>0, <2>1, <2>2 DEF Gone
<1>4. CASE \E m \in Messages : Project(m)
  <2> PICK m \in Messages : Project(m)
    BY <1>4
  <2> QED
    BY <1>0, Numbers DEF Gone, TypeOK, Project, jobs, Filed
<1>5. CASE \E policy \in Policies, limit \in Batches : Enqueue(policy, limit)
  <2> PICK policy \in Policies, limit \in Batches : Enqueue(policy, limit)
    BY <1>5
  <2> QED
    BY <1>0, Enqueued DEF Gone
<1>6. CASE \E j \in Jobs, limit \in Batches : Claim(j, limit)
  <2> PICK j \in Jobs, limit \in Batches : Claim(j, limit)
    BY <1>6
  <2> QED
    BY <1>0, Claimed DEF Gone
<1>7. CASE \E j \in Jobs, m \in Messages : Clear(j, m)
  <2> PICK j \in Jobs, m \in Messages : Clear(j, m)
    BY <1>7
  <2> QED
    BY <1>0 DEF Gone, TypeOK, Clear, jobs, Cleared
<1>8. CASE \E j \in Jobs, m \in Messages : MarkRawDeleted(j, m)
  <2> PICK j \in Jobs, m \in Messages : MarkRawDeleted(j, m)
    BY <1>8
  <2> QED
    BY <1>0, RawMarked DEF Gone, RowsMarked, Emptied
<1>9. CASE \E j \in Jobs, m \in Messages : CompleteApplicationDeletion(j, m)
  <2> PICK j \in Jobs, m \in Messages : CompleteApplicationDeletion(j, m)
    BY <1>9
  <2> QED
    BY <1>0, RecordsDeleted DEF Gone, RowsDeleted
<1>10. CASE \E j \in Jobs, m \in Messages : RecordFailure(j, m)
  <2> PICK j \in Jobs, m \in Messages : RecordFailure(j, m)
    BY <1>10
  <2> QED
    BY <1>0, FailureRecorded DEF Gone
<1> QED
  BY <1>1, <1>2, <1>3, <1>4, <1>5, <1>6, <1>7, <1>8, <1>9, <1>10 DEF Next, JobStep

\* What a job cleared stays cleared while it works on.
LEMMA StepEmptied == IInv /\ Shared /\ [Next]_vars => \A j \in Jobs, m \in Messages : Emptied(j, m)'
<1> SUFFICES ASSUME IInv, Shared, [Next]_vars PROVE \A j \in Jobs, m \in Messages : Emptied(j, m)'
  OBVIOUS
<1>0. /\ TypeOK
      /\ \A m \in Messages : Filed(m) /\ Arrived(m)
      /\ \A j \in Jobs, m \in Messages :
           Emptied(j, m) /\ (tasks[j][m] = "raw_pending" => Retiring(m))
  BY DEF IInv, Shared
<1>1. CASE \/ UNCHANGED vars
           \/ \E m \in Messages : Begin(m) \/ Reserve(m) \/ Stop(m)
           \/ \E d \in Reads, m \in Messages : Find(d, m)
           \/ \E d \in Reads : Fetch(d)
  BY <1>0, <1>1 DEF Begin, Reserve, Stop, Find, Fetch, Emptied, vars, jobs, Download
<1>2. CASE Tick
  BY <1>0, <1>2, Numbers DEF Emptied, TypeOK, Tick, jobs
<1>3. CASE \E m \in Messages : Put(m)
  <2> PICK m \in Messages : Put(m)
    BY <1>3
  <2>1. /\ arriving[m] # None /\ objects' = objects \cup {KeyAt(arriving[m], m)}
        /\ UNCHANGED <<now, messages, tombstones, tasks>>
    BY DEF Put, jobs
  <2>2. ASSUME NEW n \in Messages, tombstones[n].state # "absent", messages[n].createdAt + 2 <= now
        PROVE  KeyAt(arriving[m], m) # messages[n].key
    <3>1. messages[n].key = KeyAt(messages[n].createdAt, n)
      BY <1>0, <2>2 DEF Filed
    <3>2. arriving[m] \in Nat /\ now <= arriving[m] + 1 /\ now \in Nat /\ messages[n].createdAt \in Nat
      BY <1>0, <2>1 DEF Arrived, TypeOK
    <3>3. arriving[m] # messages[n].createdAt
      BY <2>2, <3>2
    <3> QED
      BY <3>1, <3>3 DEF KeyAt
  <2> QED
    BY <1>0, <2>1, <2>2 DEF Emptied
<1>4. CASE \E m \in Messages : Project(m)
  <2> PICK m \in Messages : Project(m)
    BY <1>4
  <2> QED
    BY <1>0, Numbers DEF Emptied, TypeOK, Project, jobs, Filed
<1>5. CASE \E policy \in Policies, limit \in Batches : Enqueue(policy, limit)
  <2> PICK policy \in Policies, limit \in Batches : Enqueue(policy, limit)
    BY <1>5
  <2> QED
    BY <1>0, Enqueued DEF Emptied
<1>6. CASE \E j \in Jobs, limit \in Batches : Claim(j, limit)
  <2> PICK j \in Jobs, limit \in Batches : Claim(j, limit)
    BY <1>6
  <2> QED
    BY <1>0, Claimed DEF Emptied
<1>7. CASE \E j \in Jobs : ReadClaims(j)
  <2> PICK j \in Jobs : ReadClaims(j)
    BY <1>7
  <2>1. /\ tasks' = [tasks EXCEPT ![j] = [m \in Messages |->
             IF tombstones[m].token = j THEN tombstones[m].state ELSE "none"]]
        /\ UNCHANGED <<now, messages, objects, tombstones>>
    BY DEF ReadClaims
  <2>2. ASSUME NEW m \in Messages PROVE tasks'[j][m] # "cleared"
    BY <1>0, <2>1, RowTypes DEF TypeOK, Tombstones, TombstoneStates
  <2>3. \A i \in Jobs \ {j} : tasks'[i] = tasks[i]
    BY <1>0, <2>1 DEF TypeOK
  <2> QED
    BY <1>0, <2>1, <2>2, <2>3 DEF Emptied
<1>8. CASE \E j \in Jobs : Abandon(j)
  <2> PICK j \in Jobs : Abandon(j)
    BY <1>8
  <2> QED
    BY <1>0 DEF Emptied, TypeOK, Abandon
<1>9. CASE \E j \in Jobs, m \in Messages : Clear(j, m)
  <2> PICK j \in Jobs, m \in Messages : Clear(j, m)
    BY <1>9
  <2> QED
    BY <1>0 DEF Emptied, Retiring, TypeOK, Clear, Cleared, Moves
<1>10. CASE \E j \in Jobs, m \in Messages : MarkRawDeleted(j, m)
  <2> PICK j \in Jobs, m \in Messages : MarkRawDeleted(j, m)
    BY <1>10
  <2> QED
    BY <1>0, RawMarked DEF Emptied, RowsMarked
<1>11. CASE \E j \in Jobs, m \in Messages : CompleteApplicationDeletion(j, m)
  <2> PICK j \in Jobs, m \in Messages : CompleteApplicationDeletion(j, m)
    BY <1>11
  <2> QED
    BY <1>0, RecordsDeleted DEF Emptied, RowsDeleted
<1>12. CASE \E j \in Jobs, m \in Messages : RecordFailure(j, m)
  <2> PICK j \in Jobs, m \in Messages : RecordFailure(j, m)
    BY <1>12
  <2> QED
    BY <1>0, FailureRecorded DEF Emptied, Moves
<1> QED
  BY <1>1, <1>2, <1>3, <1>4, <1>5, <1>6, <1>7, <1>8, <1>9, <1>10, <1>11, <1>12 DEF Next,
     JobStep

\* Who holds a claim of bytes, or works on it, may clear them.
LEMMA StepClaimed ==
  ASSUME IInv, IInv', Shared, Lasting, [Next]_vars
  PROVE  /\ \A m \in Messages :
              tombstones'[m].token # None /\ tombstones'[m].state = "raw_pending" => Retiring(m)'
         /\ \A j \in Jobs, m \in Messages : tasks'[j][m] = "raw_pending" => Retiring(m)'
<1> DEFINE Due1(m) == tombstones'[m].token # None /\ tombstones'[m].state = "raw_pending" => Retiring(m)
           Due2(j, m) == tasks'[j][m] = "raw_pending" => Retiring(m)
           Dues == (\A m \in Messages : Due1(m)) /\ \A j \in Jobs, m \in Messages : Due2(j, m)
<1>0. /\ TypeOK
      /\ \A m \in Messages :
           tombstones[m].token # None /\ tombstones[m].state = "raw_pending" => Retiring(m)
      /\ \A j \in Jobs, m \in Messages : tasks[j][m] = "raw_pending" => Retiring(m)
  BY DEF IInv, Shared
<1> SUFFICES Dues
  BY RetiringStays
<1>1. CASE UNCHANGED <<tombstones, tasks>>
  BY <1>0, <1>1
<1>2. CASE \E policy \in Policies, limit \in Batches : Enqueue(policy, limit)
  BY <1>0, <1>2, Enqueued
<1>3. CASE \E j \in Jobs, limit \in Batches : Claim(j, limit)
  BY <1>0, <1>3, Claimed, ClaimsRetiring
<1>4. ASSUME NEW j \in Jobs, ReadClaims(j) PROVE Dues
  <2>1. /\ tasks' = [tasks EXCEPT ![j] = [m \in Messages |->
             IF tombstones[m].token = j THEN tombstones[m].state ELSE "none"]]
        /\ UNCHANGED tombstones
    BY <1>4 DEF ReadClaims
  <2>2. ASSUME NEW i \in Jobs, NEW m \in Messages PROVE Due2(i, m)
    <3>1. CASE i # j
      BY <1>0, <2>1, <3>1 DEF TypeOK
    <3>2. CASE i = j
      BY <1>0, <2>1, <3>2, Numbers DEF TypeOK
    <3> QED
      BY <3>1, <3>2
  <2> QED
    BY <1>0, <2>1, <2>2
<1>5. CASE \E j \in Jobs : Abandon(j)
  BY <1>0, <1>5 DEF Abandon, TypeOK
<1>6. CASE \E j \in Jobs, m \in Messages : Clear(j, m)
  BY <1>0, <1>6 DEF Clear, Moves, TypeOK
<1>7. CASE \E j \in Jobs, m \in Messages : MarkRawDeleted(j, m)
  BY <1>0, <1>7, RawMarked DEF RowsMarked
<1>8. CASE \E j \in Jobs, m \in Messages : CompleteApplicationDeletion(j, m)
  BY <1>0, <1>8, RecordsDeleted DEF RowsDeleted
<1>9. CASE \E j \in Jobs, m \in Messages : RecordFailure(j, m)
  BY <1>0, <1>9, FailureRecorded
<1> QED
  BY <1>1, <1>2, <1>3, <1>4, <1>5, <1>6, <1>7, <1>8, <1>9
     DEF Next, JobStep, Tick, Begin, Reserve, Put, Project, Stop, Find, Fetch, Download, jobs, mail, vars

\* A download looks for bytes where the row of a message said they are.
LEMMA StepDownloading ==
  ASSUME IInv, Shared, Lasting, [Next]_vars
  PROVE  \A d \in Reads : Downloading(d)'
<1>0. /\ TypeOK
      /\ \A m \in Messages : Filed(m) /\ Retired(m)
      /\ \A d \in Reads : Downloading(d)
  BY DEF IInv, Shared
<1>1. ASSUME NEW d \in Reads, UNCHANGED downloads[d] PROVE Downloading(d)'
  BY <1>0, <1>1 DEF Downloading, Lasting
<1>2. ASSUME NEW d \in Reads, NEW m \in Messages, Find(d, m) PROVE Downloading(d)'
  <2>1. UNCHANGED messages
    BY <1>2 DEF Find, Download
  <2>2. CASE messages[m].state = "stored" /\ Download(d, "found", m, messages[m].key)
    BY <1>0, <2>1, <2>2 DEF Download, Downloading, TypeOK
  <2>3. CASE Download(d, "answered", None, None)
    BY <1>0, <2>3 DEF Download, Downloading, TypeOK
  <2> QED
    BY <1>2, <2>2, <2>3 DEF Find
<1>3. ASSUME NEW d \in Reads, Fetch(d) PROVE Downloading(d)'
  <2> DEFINE row == downloads[d]
  <2>1. row.step = "found" /\ UNCHANGED <<messages, tombstones>>
    BY <1>3 DEF Fetch, Download, jobs, mail
  <2>2. /\ row.message \in Messages /\ messages[row.message].state # "absent"
        /\ row.key = messages[row.message].key
    BY <1>0, <2>1 DEF Downloading
  <2>3. CASE Matches(row.key, row.message)
    BY <1>0, <1>3, <2>3 DEF Fetch, Download, Downloading, TypeOK
  <2>4. CASE ~Matches(row.key, row.message)
    <3>1. row.key \notin objects
      BY <1>0, <2>2, <2>4 DEF Matches, Filed, KeyAt
    <3>2. tombstones[row.message].state # "absent"
      BY <1>0, <2>2, <3>1 DEF Filed, Retired, TypeOK
    <3>3. downloads' = [downloads EXCEPT ![d] = [step |-> "failed", message |-> row.message, key |-> row.key]]
      BY <1>3, <2>4 DEF Fetch, Download
    <3> QED
      BY <1>0, <2>1, <2>2, <3>2, <3>3 DEF Downloading, TypeOK
  <2> QED
    BY <2>3, <2>4
<1>4. CASE UNCHANGED downloads
  BY <1>1, <1>4
<1>5. CASE \E e \in Reads, m \in Messages : Find(e, m)
  BY <1>0, <1>1, <1>2, <1>5 DEF Find, Download, TypeOK
<1>6. CASE \E e \in Reads : Fetch(e)
  BY <1>0, <1>1, <1>3, <1>6 DEF Fetch, Download, TypeOK
<1> QED
  BY <1>4, <1>5, <1>6 DEF Next, JobStep, Tick, Begin, Reserve, Put, Project, Stop, Enqueue, Claim, ReadClaims, Abandon,
     Clear, MarkRawDeleted, CompleteApplicationDeletion, RecordFailure, vars

\* Nothing is shared before mail arrives.
LEMMA InitShared == Init => Shared
BY Numbers DEF Init, Shared, Arrived, Retired, Retiring, Gone, Emptied, Downloading, NoMessage, NoTombstone

-------------------------------------------------------------------------------
\* The invariant holds in every reachable state, for any policy the code accepts.
THEOREM Invariance == Spec => []IInv
<1>1. IInv /\ [Next]_vars => IInv'
  <2> SUFFICES ASSUME IInv, [Next]_vars PROVE IInv'
    OBVIOUS
  <2> QED
    BY StepTypes, StepFiled, StepConversing DEF IInv
<1> QED
  BY InitIInv, <1>1, PTL DEF Spec

\* While bytes are kept for two days or more, no message loses its bytes to another, and no
\* bytes that were cleared are put again, in every reachable state.
THEOREM SharedInvariance ==
  ASSUME LongEnough
  PROVE  Spec => []Shared
<1>1. IInv /\ IInv' /\ Shared /\ [Next]_vars => Shared'
  <2> SUFFICES ASSUME IInv, IInv', Shared, [Next]_vars PROVE Shared'
    OBVIOUS
  <2>1. Lasting
    BY StepLasting
  <2> QED
    BY <2>1, StepArrived, StepRetired, StepGone, StepEmptied, StepClaimed, StepDownloading DEF Shared
<1> QED
  BY InitShared, Invariance, <1>1, PTL DEF Spec

\* The tables, the objects and the tasks of the jobs keep their types.
THEOREM TypeCorrect == Spec => []TypeOK
<1>1. IInv => TypeOK
  BY DEF IInv
<1> QED
  BY <1>1, Invariance, PTL

\* While bytes are kept for two days or more: however jobs overlap, stop and work on without
\* their lease, and however late mail with the same bytes puts them, a message is past the
\* clearing of its bytes only when R2 does not hold them, and its rows go after that.
THEOREM BytesFirst ==
  ASSUME LongEnough
  PROVE  Spec => []BytesGoFirst
<1>1. IInv /\ Shared => BytesGoFirst
  BY DEF IInv, Shared, BytesGoFirst, Filed, Gone
<1> QED
  BY <1>1, Invariance, SharedInvariance, PTL

\* A send outlives its message and its thread, and points at neither when they are deleted.
THEOREM EvidenceDetached == Spec => []EvidenceIsDetached
<1>1. IInv => EvidenceIsDetached
  BY DEF IInv, Conversing
<1> QED
  BY <1>1, Invariance, PTL

\* While the bytes of a message are kept for two days or more, a download whose row was there
\* fails only when retention has taken the message up, although messages share their objects
\* and mail may arrive that shares one that is about to be cleared.
THEOREM DownloadsHold ==
  ASSUME LongEnough
  PROVE  Spec => []DownloadsFailOnlyForRetired
<1>1. Shared => DownloadsFailOnlyForRetired
  BY DEF Shared, Downloading, DownloadsFailOnlyForRetired
<1> QED
  BY SharedInvariance, <1>1, PTL
================================================================================
