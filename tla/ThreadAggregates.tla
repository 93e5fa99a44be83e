--------------------------- MODULE ThreadAggregates ---------------------------
(***************************************************************************)
(* The rows of threads and messages of one mailbox, as every batch that    *)
(* touches them leaves them: a captured mail, a reserved and a completed   *)
(* send, the owner's marks on messages, a forward that a rule suppresses   *)
(* and the deletion of an expired message.                                 *)
(*                                                                         *)
(* Each batch is one transaction and so one step; what can go wrong is     *)
(* that they keep the columns of a thread in different ways.  Projections  *)
(* add to the counts and compare with the latest message, patches count    *)
(* again, marking as read writes zero, deletion looks for the latest       *)
(* again, and suppression leaves the thread alone.                         *)
(*                                                                         *)
(* Identifiers and times are numbers, since the columns are ordered by     *)
(* both; 0 is SQL NULL.  The preview, direction and sender of the latest   *)
(* message follow latest_message_id.  Stars and delivery states matter to  *)
(* no column modelled here.                                                *)
(***************************************************************************)
EXTENDS Naturals, FiniteSets

CONSTANTS
  Messages,   \* the ids of messages
  Threads,    \* the ids of threads
  SentAt,     \* sent_at of a message; for mail, the Date its sender wrote
  Times       \* the times a new thread row may start with

ASSUME IdShape ==
  /\ Messages \subseteq Nat \ {0} /\ IsFiniteSet(Messages)
  /\ Threads \subseteq Nat \ {0}
  /\ Times \subseteq Nat
  /\ SentAt \in [Messages -> Nat]

VARIABLES
  messages,   \* the messages table
  threads     \* the threads table

vars == <<messages, threads>>

\* Columns of a message that are set.  "pending" is a forward that nobody has attempted.
Marks == {"inbox", "spam", "trash", "read", "pending"}

\* "absent" is an id that is not generated yet, "deleted" one that never comes back.
RowStates == {"absent", "stored", "deleted"}

MessageRow == [state: RowStates, thread: Threads \cup {0},
               direction: {"inbound", "outbound"}, marks: SUBSET Marks]
ThreadRow == [state: RowStates, latest: Messages \cup {0}, lastAt: Nat,
              count: Nat, unread: Nat, archived: {"no", "yes"}]

NoMessage == [state |-> "absent", thread |-> 0, direction |-> "inbound", marks |-> {}]
NoThread  == [state |-> "absent", latest |-> 0, lastAt |-> 0,
              count |-> 0, unread |-> 0, archived |-> "no"]

Init ==
  /\ messages = [m \in Messages |-> NoMessage]
  /\ threads = [t \in Threads |-> NoThread]

-----------------------------------------------------------------------------
(* What the statements select, from the messages table ms. *)

Of(ms, t)       == {m \in Messages : ms[m].state = "stored" /\ ms[m].thread = t}
UnreadOf(ms, t) == {m \in Of(ms, t) : ms[m].direction = "inbound" /\ "read" \notin ms[m].marks}
InInbox(row)    == "inbox" \in row.marks /\ row.marks \cap {"spam", "trash"} = {}
InboxOf(ms, t)  == {m \in Of(ms, t) : InInbox(ms[m])}

\* ORDER BY sent_at, id
Before(m, n) == SentAt[m] < SentAt[n] \/ (SentAt[m] = SentAt[n] /\ m < n)
Newest(ids)  == CHOOSE m \in ids : \A n \in ids \ {m} : Before(n, m)

-----------------------------------------------------------------------------
(* Projections *)

OvertakesInTime(m, row) == row.lastAt < SentAt[m] \/ (row.lastAt = SentAt[m] /\ row.latest < m)
Overtakes(m, row) ==
  \/ row.count = 0
  \/ row.lastAt < SentAt[m]
  \/ row.lastAt = SentAt[m] /\ row.latest < m

Counted(row, m, unread) ==
  [state    |-> "stored",
   latest   |-> IF Overtakes(m, row) THEN m ELSE row.latest,
   lastAt   |-> IF Overtakes(m, row) THEN SentAt[m] ELSE row.lastAt,
   count    |-> row.count + 1,
   unread   |-> row.unread + unread,
   archived |-> row.archived]

NewRow(t, direction, marks) ==
  [state |-> "stored", thread |-> t, direction |-> direction, marks |-> marks]

StaysArchived(row, marks) == row

\* Mail takes its thread out of the archive, unless a rule makes it spam.
Reopened(row, marks) == [row EXCEPT !.archived = IF "spam" \in marks THEN row.archived ELSE "no"]

\* The batch of insertInboundProjection; an absent thread is the newThread of its input.
\* A deleted thread fails the foreign key of the message, and the batch with it.
ProjectInbound(m, t, marks) ==
  /\ messages[m].state = "absent"
  /\ threads[t].state # "deleted"
  /\ messages' = [messages EXCEPT ![m] = NewRow(t, "inbound", marks)]
  /\ threads' = [threads EXCEPT ![t] = Reopened(Counted(threads[t], m, 1), marks)]

\* The thread row that a send reserves is empty until the send completes.
ReserveThread(t, now) ==
  /\ threads[t].state = "absent"
  /\ threads' = [threads EXCEPT ![t] = [NoThread EXCEPT !.state = "stored", !.lastAt = now]]
  /\ UNCHANGED messages

\* The batch of completeOutboundProjection, past its guard.
ProjectOutbound(m, t) ==
  /\ messages[m].state = "absent"
  /\ threads[t].state = "stored"
  /\ messages' = [messages EXCEPT ![m] = NewRow(t, "outbound", {})]
  /\ threads' = [threads EXCEPT ![t] = Counted(threads[t], m, 0)]

-----------------------------------------------------------------------------
(* The owner's marks *)

Patches == [location: {"none", "archive", "inbox", "spam", "trash", "restore", "not_spam"},
            read: {"none", "yes", "no"}]

Put(patch) ==
  CASE patch.location \in {"inbox", "not_spam"} -> {"inbox"}
    [] patch.location = "spam"  -> {"spam"}
    [] patch.location = "trash" -> {"trash"}
    [] OTHER -> {}

Taken(patch) ==
  CASE patch.location = "archive" -> {"inbox"}
    [] patch.location = "inbox"   -> {"trash", "spam"}
    [] patch.location \in {"spam", "restore"} -> {"trash"}
    [] patch.location = "not_spam" -> {"spam"}
    [] OTHER -> {}

ReadPut(patch, row) == IF patch.read = "yes" /\ row.direction = "inbound" THEN {"read"} ELSE {}
ReadTaken(patch)    == IF patch.read = "no" THEN {"read"} ELSE {}

Patched(patch, row) ==
  [row EXCEPT !.marks = (@ \ (Taken(patch) \cup ReadTaken(patch)))
                        \cup Put(patch) \cup ReadPut(patch, row)]

Recounted(row, ms, t) ==
  [row EXCEPT !.count = Cardinality(Of(ms, t)),
              !.unread = Cardinality(UnreadOf(ms, t)),
              !.archived = IF InboxOf(ms, t) # {} THEN "no" ELSE "yes"]

\* patchMessageState on the whole thread or on the selected messages of it.  The thread is
\* counted again even when no message was selected and the answer is not found.
PatchMessages(t, selected, patch) ==
  /\ threads[t].state = "stored"
  /\ selected \subseteq Of(messages, t)
  /\ messages' = [m \in Messages |->
       IF m \in selected THEN Patched(patch, messages[m]) ELSE messages[m]]
  /\ threads' = [threads EXCEPT ![t] = Recounted(threads[t], messages', t)]

MarkThreadRead(t) ==
  /\ threads[t].state = "stored"
  /\ messages' = [m \in Messages |->
       IF m \in UnreadOf(messages, t) THEN [messages[m] EXCEPT !.marks = @ \cup {"read"}]
                                      ELSE messages[m]]
  /\ threads' = [threads EXCEPT ![t].unread = 0]

-----------------------------------------------------------------------------
(* The mail service and retention *)

\* suppressForward: the mailbox or a rule forbids a forward that is still pending.
SuppressForward(m) ==
  /\ messages[m].state = "stored" /\ "pending" \in messages[m].marks
  /\ messages' = [messages EXCEPT ![m].marks = (@ \ {"inbox", "pending"}) \cup {"spam"}]
  /\ UNCHANGED threads

\* claimPendingForward, or a failure that updateForwardResult records instead.
AttemptForward(m) ==
  /\ messages[m].state = "stored" /\ "pending" \in messages[m].marks
  /\ messages' = [messages EXCEPT ![m].marks = @ \ {"pending"}]
  /\ UNCHANGED threads

Repaired(row, ms, t) ==
  IF Of(ms, t) = {}
    THEN [row EXCEPT !.state = "deleted"]
    ELSE [row EXCEPT !.latest = Newest(Of(ms, t)),
                     !.lastAt = SentAt[Newest(Of(ms, t))],
                     !.count = Cardinality(Of(ms, t)),
                     !.unread = Cardinality(UnreadOf(ms, t))]

\* completeApplicationDeletion under its claim.
DeleteMessage(m) ==
  /\ messages[m].state = "stored"
  /\ messages' = [messages EXCEPT ![m].state = "deleted"]
  /\ LET t == messages[m].thread
     IN  threads' = [threads EXCEPT ![t] = Repaired(threads[t], messages', t)]

-----------------------------------------------------------------------------
Captured == {{"inbox"}, {"inbox", "pending"}, {"spam"}}

Arrive == \E m \in Messages, t \in Threads, marks \in Captured : ProjectInbound(m, t, marks)
Send   == \E t \in Threads : \/ \E now \in Times : ReserveThread(t, now)
                             \/ \E m \in Messages : ProjectOutbound(m, t)
Organise ==
  \E t \in Threads :
    \/ MarkThreadRead(t)
    \/ \E selected \in SUBSET Of(messages, t), patch \in Patches : PatchMessages(t, selected, patch)
Forward == \E m \in Messages : SuppressForward(m) \/ AttemptForward(m)
Expire  == \E m \in Messages : DeleteMessage(m)

Next == Arrive \/ Send \/ Organise \/ Forward \/ Expire
Spec == Init /\ [][Next]_vars

-----------------------------------------------------------------------------
\* The rows have their columns' types, and no message of the owner's has been read: a batch
\* that sets read_at on one fails messages_read_state_check.
TypeOK ==
  /\ messages \in [Messages -> MessageRow]
  /\ threads \in [Threads -> ThreadRow]
  /\ \A m \in Messages : messages[m].direction = "outbound" => "read" \notin messages[m].marks

Stored == {t \in Threads : threads[t].state = "stored"}

\* Whichever batches made it, a thread's counts are those of its messages, and its latest
\* message and time are those of the newest one by the order that lists and cursors use.
SummaryIsTrue ==
  \A t \in Stored :
    /\ threads[t].count = Cardinality(Of(messages, t))
    /\ threads[t].unread = Cardinality(UnreadOf(messages, t))
    /\ Of(messages, t) # {} =>
         /\ threads[t].latest = Newest(Of(messages, t))
         /\ threads[t].lastAt = SentAt[threads[t].latest]

\* A thread that has a message in the inbox does not say it is archived: the web client
\* counts the unread mail of a thread only while archivedAt is null.
InboxIsOpen == \A t \in Stored : InboxOf(messages, t) # {} => threads[t].archived = "no"
=============================================================================
