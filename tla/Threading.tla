-------------------------------- MODULE Threading --------------------------------
(***************************************************************************)
(* How mail finds its conversation.  Customers write mail that answers     *)
(* what they received; captures of that mail look the messages it names up *)
(* one query at a time, then threads of the same subject with the same     *)
(* participants; and the owner sends new messages and replies, whose       *)
(* headers carry on the references of the message they answer.             *)
(*                                                                         *)
(* Captures overlap with each other and with sends, and every query is a   *)
(* step.  Which threads lie in the window of a mail depends on the dates   *)
(* its senders write, and is left open; digests, claims and copies to the  *)
(* owner are in InboundForward and OutboundSend.                           *)
(***************************************************************************)
EXTENDS Naturals, Sequences, FiniteSets, SequencesExt

CONSTANTS
  Mails,         \* mail to the mailbox
  Replies,       \* sends of the owner
  From,          \* the sender of a message
  Forwarded,     \* mail of which a copy goes to the owner
  Addressed,     \* the message_recipients rows: message, kind, position and address
  Ignored,       \* the addresses of the mailbox, the owner and the destination
  SubjectOf,     \* the subject for threading, None when nothing is left of it
  Size,          \* the bytes of a message id
  InboundLimit,  \* references kept of a mail
  InboundBytes,  \* and their bytes
  LookupLimit,   \* ids that a capture looks up
  RowLimit,      \* rows that a query for the people of a thread reads
  PeopleLimit,   \* people kept of them
  ReplyLimit,    \* references kept in a reply
  InnerBytes,    \* bytes of references kept before the answered message is added
  OuterBytes,    \* bytes of references kept after
  None           \* null

Messages == Mails \cup Replies
CopyOf(m) == <<m, "copy">> \* the provider id of the copy that goes to the owner
Ids == Messages \cup {CopyOf(m) : m \in Mails}

\* The addresses of the recipients of a message.
Recipients == [n \in Messages |-> {row.address : row \in {each \in Addressed : each.message = n}}]

ASSUME ThreadingShape ==
  /\ Mails \cap Replies = {} /\ None \notin Ids /\ \A m \in Mails : CopyOf(m) \notin Messages
  /\ Forwarded \subseteq Mails /\ Size \in [Ids -> Nat]
  /\ InboundLimit \in Nat \ {0, 1} /\ ReplyLimit \in Nat \ {0} /\ InnerBytes \in Nat
  /\ LookupLimit \in Nat /\ InboundLimit <= LookupLimit
  /\ IsFiniteSet(Mails) /\ IsFiniteSet(Replies) /\ IsFiniteSet(Addressed)
  /\ RowLimit \in Nat /\ PeopleLimit \in Nat
  /\ OuterBytes \in Nat /\ \A id \in Ids : Size[id] <= OuterBytes
  /\ InboundBytes \in Nat /\ \A id, next \in Ids : Size[id] + Size[next] + 1 <= InboundBytes

VARIABLES
  letters,  \* the headers of a mail, once it is written
  sends,    \* the sends of the owner and their headers
  messages, \* the messages table: thread, and the ids a message is found by
  threads,  \* the threads table: a thread has the id of the message it was made for
  tasks,    \* where the capture of a mail stands
  known     \* the messages the mailbox held when the capture began (history)

vars == <<letters, sends, messages, threads, tasks, known>>

NoHeaders == [parent |-> None, inReplyTo |-> None, references |-> <<>>]
NotWritten == [NoHeaders EXCEPT !.parent = "unwritten"]
NoSend == [step |-> "none", target |-> None, thread |-> None, references |-> <<>>]
NoMessage == [thread |-> None, ids |-> {}]
NoTask == [step |-> "none", names |-> <<>>, candidates |-> {}, reading |-> None,
           senders |-> None, recipients |-> None, matching |-> {}, found |-> None, via |-> None]

Init ==
  /\ letters = [m \in Mails |-> NotWritten]
  /\ sends = [r \in Replies |-> NoSend]
  /\ messages = [n \in Messages |-> NoMessage]
  /\ threads = {}
  /\ tasks = [m \in Mails |-> NoTask]
  /\ known = [m \in Mails |-> {}]

Stored == {n \in Messages : messages[n].thread # None}
Found(id) == {n \in Stored : id \in messages[n].ids}
RowIn(thread, ids) == [thread |-> thread, ids |-> ids]

-------------------------------------------------------------------------------
(* headers.ts *)

\* The elements at some positions of a sequence, in its order.
Kept(ids, at) ==
  [k \in 1..Cardinality(at) |->
     ids[CHOOSE i \in at : Cardinality({j \in at : j < i}) = k - 1]]

\* Of an id that occurs again, the last occurrence is kept; by new Set, the first.
Unique(ids) == Kept(ids, {i \in DOMAIN ids : \A j \in DOMAIN ids : ids[j] = ids[i] => j <= i})
NewSet(ids) == Kept(ids, {i \in DOMAIN ids : \A j \in DOMAIN ids : ids[j] = ids[i] => i <= j})

\* The ids of a sequence in bytes, with a space between two of them.
Bytes(ids) ==
  LET sum[n \in 0..Len(ids)] == IF n = 0 THEN 0 ELSE sum[n - 1] + Size[ids[n]]
  IN  sum[Len(ids)] + Len(ids) - 1

\* How many of the newest ids fit.
Fitting(ids, count, bytes) ==
  Max({n \in 0..Len(ids) :
         n <= count /\ (n > 0 => Bytes(SubSeq(ids, Len(ids) - n + 1, Len(ids))) <= bytes)})

\* The newest that fit, each once.
NormalizedReferences(ids, count, bytes) ==
  LET unique == Unique(ids)
  IN SubSeq(unique, Len(unique) - Fitting(unique, count, bytes) + 1, Len(unique))

AppendedReference(references, id, bytes) ==
  NormalizedReferences(IF id = None THEN references ELSE Append(references, id), ReplyLimit, bytes)

-------------------------------------------------------------------------------
(* Customers *)

Wrote(person, n) ==
  \/ n \in Mails /\ letters[n] # NotWritten /\ (From[n] = person \/ person \in Recipients[n])
  \/ n \in Replies /\ sends[n].step \in {"delivered", "recorded"} /\ person \in Recipients[n]

\* A mail of its own; an answer whose program keeps references, as it was handed them; one
\* that only says what it replies to.
ReferencesOf(n) == IF n \in Mails THEN letters[n].references ELSE sends[n].references

HeadersFor(person) ==
  LET received == {n \in Messages : Wrote(person, n)} IN
  {NoHeaders} \cup
  {[parent |-> n, inReplyTo |-> n, references |-> Append(ReferencesOf(n), n)] : n \in received} \cup
  {[parent |-> n, inReplyTo |-> n, references |-> <<>>] : n \in received}

Write(m) ==
  /\ letters[m] = NotWritten
  /\ \E headers \in HeadersFor(From[m]) : letters' = [letters EXCEPT ![m] = headers]
  /\ UNCHANGED <<sends, messages, threads, tasks, known>>

-------------------------------------------------------------------------------
(* The capture of a mail *)

Becomes(m, task) ==
  /\ tasks' = [tasks EXCEPT ![m] = task]
  /\ UNCHANGED <<letters, sends, messages, threads>>

\* parseInboundMime keeps the newest references.
Parsed(m) == NormalizedReferences(letters[m].references, InboundLimit, InboundBytes)

\* In-Reply-To, then References from the newest; from the oldest, which no action uses.
Sought(m, references) ==
  (IF letters[m].inReplyTo = None THEN <<>> ELSE <<letters[m].inReplyTo>>) \o references
LookedUp(ids) ==
  LET once == NewSet(ids)
  IN SubSeq(once, 1, IF Len(once) > LookupLimit THEN LookupLimit ELSE Len(once))
NamesAsWritten(m) == LookedUp(Sought(m, Parsed(m)))
Names(m) == LookedUp(Sought(m, Reverse(Parsed(m))))

Begin(m) ==
  /\ letters[m] # NotWritten /\ tasks[m].step = "none" /\ messages[m].thread = None
  /\ Becomes(m, [NoTask EXCEPT !.step = "naming", !.names = Names(m)])
  /\ known' = [known EXCEPT ![m] = Stored]

\* One query of findThreadByMessageIds.
Look(m) ==
  LET id == Head(tasks[m].names) IN
  /\ tasks[m].step = "naming" /\ tasks[m].names # <<>>
  /\ IF Found(id) = {}
     THEN Becomes(m, [tasks[m] EXCEPT !.names = Tail(@)])
     ELSE \E n \in Found(id) :
            Becomes(m, [NoTask EXCEPT !.step = "decided", !.found = messages[n].thread, !.via = "named"])
  /\ UNCHANGED known

\* listSubjectThreadCandidates: threads of the subject whose latest message is in the window.
Candidates(m) == {t \in threads : SubjectOf[m] # None /\ SubjectOf[t] = SubjectOf[m]}

\* Once no candidate is left to read, the latest of those that match is taken.
Resolves(m, candidates, matching) ==
  IF candidates # {}
  THEN Becomes(m, [NoTask EXCEPT !.step = "reading", !.candidates = candidates, !.matching = matching])
  ELSE IF matching = {}
       THEN Becomes(m, [NoTask EXCEPT !.step = "decided", !.via = "new"])
       ELSE \E t \in matching :
              Becomes(m, [NoTask EXCEPT !.step = "decided", !.found = t, !.via = "subject"])

List(m) ==
  /\ tasks[m].step = "naming" /\ tasks[m].names = <<>>
  /\ \E inWindow \in SUBSET Candidates(m) : Resolves(m, inWindow, {})
  /\ UNCHANGED known

\* What a limit leaves of rows, in no order: all, or as many as it admits.
LimitedTo(limit, rows) == IF Cardinality(rows) <= limit THEN {rows} ELSE kSubset(limit, rows)

\* Two queries for each of them, sent together and answered in either order: the answers that
\* the rows of the thread admit.  Of the people in them the first are kept, by the alphabet.
In(t) == {n \in Stored : messages[n].thread = t}
RowsOf(t) == {row \in Addressed : row.message \in In(t)}
Senders(t) == {{From[n] : n \in read} : read \in LimitedTo(RowLimit, In(t))}
AddressesIn(rows) == {{row.address : row \in read} : read \in LimitedTo(RowLimit, rows)}
Addressees(t) == AddressesIn(RowsOf(t))
KeptOf(senders, recipients) == LimitedTo(PeopleLimit, senders \cup recipients)

ReadFirst(m) ==
  /\ tasks[m].step = "reading" /\ tasks[m].reading = None
  /\ \E t \in tasks[m].candidates :
       \/ \E senders \in Senders(t) :
            Becomes(m, [tasks[m] EXCEPT !.reading = t, !.senders = senders])
       \/ \E recipients \in Addressees(t) :
            Becomes(m, [tasks[m] EXCEPT !.reading = t, !.recipients = recipients])
  /\ UNCHANGED known

\* Among the same participants, of whom there has to be one; or among any that include
\* those of the mail, which no action uses.
PeopleOf(n) == ({From[n]} \cup Recipients[n]) \ Ignored
AmongMore(m, people) == PeopleOf(m) \subseteq people /\ people # {}
Among(m, people) == PeopleOf(m) = people /\ people # {}

ReadSecond(m) ==
  LET task == tasks[m]
      t    == task.reading
  IN /\ t # None
     /\ \E senders \in IF task.senders = None THEN Senders(t) ELSE {task.senders},
           recipients \in IF task.recipients = None THEN Addressees(t) ELSE {task.recipients} :
          \E people \in KeptOf(senders, recipients) :
            Resolves(m, task.candidates \ {t},
                     task.matching \cup IF Among(m, people \ Ignored) THEN {t} ELSE {})
     /\ UNCHANGED known

\* insertInboundProjection: a thread where none was found, and the message in it.
Project(m) ==
  LET thread == IF tasks[m].found = None THEN m ELSE tasks[m].found IN
  /\ tasks[m].step = "decided"
  /\ threads' = threads \cup {thread}
  /\ messages' = [messages EXCEPT ![m] = RowIn(thread, {m})]
  /\ tasks' = [tasks EXCEPT ![m] = [NoTask EXCEPT !.step = "stored", !.via = tasks[m].via]]
  /\ UNCHANGED <<letters, sends, known>>

\* The invocation is cut off, or a query fails; the mail is delivered again.
Abandon(m) ==
  /\ tasks[m].step \in {"naming", "reading", "decided"}
  /\ Becomes(m, NoTask)
  /\ known' = [known EXCEPT ![m] = {}]

\* The copy of a mail that goes to the owner has an alias to answer to.
HasAlias(m) == m \in Stored \cap Forwarded

\* The copy that went to the owner has an id of its own, on the row of the mail.
RecordCopy(m) ==
  /\ HasAlias(m) /\ CopyOf(m) \notin messages[m].ids
  /\ messages' = [messages EXCEPT ![m].ids = @ \cup {CopyOf(m)}]
  /\ UNCHANGED <<letters, sends, threads, tasks, known>>

-------------------------------------------------------------------------------
(* The owner *)

Sends(r, send) ==
  /\ sends' = [sends EXCEPT ![r] = send]
  /\ UNCHANGED <<letters, tasks, known>>

\* The provider takes it, so that its recipients have it from here on, or does not.
Outcomes == {"delivered", "refused"}

\* A new message reserves a thread that has no message yet.
Compose(r) ==
  /\ sends[r].step = "none"
  /\ threads' = threads \cup {r}
  /\ \E outcome \in Outcomes :
       Sends(r, [step |-> outcome, target |-> None, thread |-> r, references |-> <<>>])
  /\ UNCHANGED messages

\* The references stored with a mail.
OnRecord(m) == Parsed(m)

\* The answered message comes last; the copy the owner has of it, if sent mail is copied to
\* the owner as well, before it.  Without the answered message: no action uses it.
AnsweredLeftOut(m, copy) == AppendedReference(OnRecord(m), copy, InnerBytes)
ReplyReferences(m, copy) ==
  AppendedReference(AppendedReference(OnRecord(m), copy, InnerBytes), m, OuterBytes)

Reply(r, m) ==
  /\ sends[r].step = "none" /\ m \in Stored
  /\ \E copy \in {None} \cup (messages[m].ids \ {m}), outcome \in Outcomes :
       Sends(r, [step |-> outcome, target |-> m, thread |-> messages[m].thread,
                 references |-> ReplyReferences(m, copy)])
  /\ UNCHANGED <<messages, threads>>

\* The owner answers the copy of a mail from a mail program: the answer goes to the alias of
\* that copy and is relayed to the sender of the mail, and besides to whoever takes part in
\* the thread and is not a blind recipient, as far as two more queries with those limits say.
AllowedDestinations(t) ==
  {people \ Ignored :
     people \in UNION {KeptOf(senders, recipients) :
       senders \in Senders(t),
       recipients \in AddressesIn({row \in RowsOf(t) : row.kind # "bcc"})}}

Relay(r, m) ==
  /\ sends[r].step = "none" /\ HasAlias(m)
  /\ From[m] \in Recipients[r]
  /\ \E allowed \in AllowedDestinations(messages[m].thread) :
       Recipients[r] \subseteq {From[m]} \cup allowed
  /\ \E outcome \in Outcomes :
       Sends(r, [step |-> outcome, target |-> m, thread |-> messages[m].thread,
                 references |-> AppendedReference(OnRecord(m), m, InnerBytes)])
  /\ UNCHANGED <<messages, threads>>

\* completeOutboundProjection, with the id the provider gave, or without when its answer
\* was an error or lost.
Record(r) ==
  /\ sends[r].step \in Outcomes
  /\ \E ids \in {{}} \cup (IF sends[r].step = "delivered" THEN {{r}} ELSE {}) :
       messages' = [messages EXCEPT ![r] = RowIn(sends[r].thread, ids)]
  /\ Sends(r, [sends[r] EXCEPT !.step = IF @ = "delivered" THEN "recorded" ELSE "failed"])
  /\ UNCHANGED threads

-------------------------------------------------------------------------------
Next ==
  \/ \E m \in Mails :
       \/ Write(m) \/ Begin(m) \/ Look(m) \/ List(m) \/ ReadFirst(m) \/ ReadSecond(m)
       \/ Project(m) \/ Abandon(m) \/ RecordCopy(m)
  \/ \E r \in Replies : Compose(r) \/ Record(r) \/ \E m \in Mails : Reply(r, m) \/ Relay(r, m)

Spec == Init /\ [][Next]_vars

-------------------------------------------------------------------------------
(* Properties *)

Captured == Stored \cap Mails

\* A mail that names messages the mailbox held when its capture began joins a thread of one
\* it names, and of none that is further from the mail than one of those: whatever is
\* captured, forwarded or recorded while it looks.
NamedIsJoined ==
  \A m \in Captured :
    LET chain == Append(Parsed(m), letters[m].inReplyTo) IN
    \A i \in DOMAIN chain :
      chain[i] \in known[m] /\ chain[i] \in messages[chain[i]].ids =>
        \E j \in i..Len(chain), n \in Stored \ {m} :
          chain[j] \in messages[n].ids /\ messages[n].thread = messages[m].thread

\* An answer to a reply comes home, also while the reply is not yet recorded, or never is,
\* or is recorded without its id, and although capture split the conversation before: the
\* references the reply was sent with lead to the message it answered.
AnswersComeHome ==
  \A m \in Captured :
    LET reply == letters[m].parent IN
    reply \in Replies /\ letters[m].references # <<>> /\ sends[reply].target # None =>
      messages[m].thread = sends[reply].thread

\* The queries for the people of a thread read all of them.
Fits(t) ==
  /\ Cardinality(In(t)) <= RowLimit /\ Cardinality(RowsOf(t)) <= RowLimit
  /\ Cardinality({From[n] : n \in In(t)} \cup {row.address : row \in RowsOf(t)}) <= PeopleLimit

\* A mail that names nothing known joins a conversation by its subject only if it leaves
\* nobody out: all who took part in what the mailbox held of it take part in the mail.  Not
\* in a thread of more messages or recipients than the limits of those queries, which leave
\* people out themselves.
SubjectLeavesNobodyOut ==
  \A m \in Captured : tasks[m].via = "subject" /\ Fits(messages[m].thread) =>
    \A n \in known[m] :
      messages[n].thread = messages[m].thread =>
        PeopleOf(n) \subseteq PeopleOf(m)
================================================================================
