-------------------------------- MODULE Retention --------------------------------
(***************************************************************************)
(* The retention workflow of RetentionRepository, and the downloads it     *)
(* takes messages away from.  A message is a row of messages, its bytes an *)
(* object of R2 that messages with the same bytes and the same day share.  *)
(* A tombstone takes the message from raw_pending, when R2 is cleared,     *)
(* through application_pending to completed, when its rows are gone.       *)
(*                                                                         *)
(* The repository is called by scheduled jobs, which claim tombstones with *)
(* a token and a lease, may stop at any point, and may work on when their  *)
(* lease has run out.  Columns of a thread other than its existence are in *)
(* ThreadAggregates; attempt counts, failure codes and timestamps that no  *)
(* statement reads are left out.                                           *)
(***************************************************************************)
EXTENDS Naturals, FiniteSets, FiniteSetsExt

CONSTANTS
  Mails,     \* inbound messages
  Replies,   \* outbound messages, one send each
  Threads,   \* threads
  ThreadOf,  \* the thread of a message
  Digest,    \* the SHA-256 of its bytes
  Jobs,      \* claim tokens; a job claims once
  Reads,     \* downloads of a message
  Policies,  \* <<raw days, application days>> a job may be configured with
  Batches,   \* the limits a job may pass
  Lease,     \* days a claim is held
  LastDay,   \* bound on the days on which mail arrives
  MaxTime,   \* bound on the clock, in days
  None       \* SQL NULL

Messages == Mails \cup Replies

\* Bytes go no later than the records that name them.
ValidPolicy(rawDays, applicationDays) == 1 <= rawDays /\ rawDays <= applicationDays

ASSUME RetentionShape ==
  /\ Mails \cap Replies = {} /\ None \notin Messages \cup Threads \cup Jobs \cup Nat
  /\ ThreadOf \in [Messages -> Threads]
  /\ Policies \subseteq Nat \X Nat /\ \A p \in Policies : ValidPolicy(p[1], p[2])
  /\ Batches \subseteq Nat \ {0} /\ Lease \in Nat \ {0} /\ MaxTime \in Nat

VARIABLES
  now,        \* Date.now(), in days
  messages,   \* the messages table
  threads,    \* the ids of the threads table
  sends,      \* the outbound_sends table
  objects,    \* the keys R2 holds
  tombstones, \* the retention_tombstones table
  arriving,   \* receivedAt of the invocation that captures or sends a message
  put,        \* the messages whose bytes their invocation has put
  tasks,      \* where a job stands with a message
  downloads   \* where a download stands

jobs == <<tombstones, tasks>>
mail == <<arriving, put>>
vars == <<now, messages, threads, sends, objects, tombstones, mail, tasks, downloads>>

-------------------------------------------------------------------------------
\* "absent" is an id nobody made yet, "deleted" one that never comes back.
NoMessage == [state |-> "absent", createdAt |-> 0, key |-> None, rawDeletedAt |-> None]

NoSend == [state |-> "absent", message |-> None, thread |-> None]

TombstoneStates == {"absent", "raw_pending", "application_pending", "completed"}
NoTombstone == [state |-> "absent", rawDue |-> 0, applicationDue |-> 0, token |-> None,
                expiresAt |-> 0]

Init ==
  /\ now = 0
  /\ messages = [m \in Messages |-> NoMessage]
  /\ threads = {}
  /\ sends = [m \in Replies |-> NoSend]
  /\ objects = {}
  /\ tombstones = [m \in Messages |-> NoTombstone]
  /\ arriving = [m \in Messages |-> None] /\ put = {}
  /\ tasks = [j \in Jobs |-> [m \in Messages |-> "none"]]
  /\ downloads = [d \in Reads |-> [step |-> "idle", message |-> None, key |-> None]]

Stored == {m \in Messages : messages[m].state = "stored"}

\* raw/<direction>/<day>/<digest or id>.eml
KeyAt(day, m) == <<day, Digest[m]>>

-------------------------------------------------------------------------------
(* Mail and sends, as far as retention depends on them *)

\* The clock is read once: the key and created_at are of that day, whenever they are used.
Begin(m) ==
  /\ arriving[m] = None /\ messages[m].state = "absent" /\ now <= LastDay
  /\ arriving' = [arriving EXCEPT ![m] = now]
  /\ UNCHANGED <<now, messages, threads, sends, objects, jobs, put, downloads>>

\* A reply is reserved in its thread before the provider is called.
Reserve(m) ==
  /\ arriving[m] # None /\ m \in Replies
  /\ sends[m].state = "absent" /\ ThreadOf[m] \in threads
  /\ sends' = [sends EXCEPT ![m] = [state |-> "sending", message |-> None, thread |-> ThreadOf[m]]]
  /\ UNCHANGED <<now, messages, threads, objects, jobs, mail, downloads>>

\* The bytes are put before the message is written to D1.
Put(m) ==
  /\ arriving[m] # None /\ m \notin put
  /\ m \in Replies => sends[m].state = "sending"
  /\ put' = put \cup {m}
  /\ objects' = objects \cup {KeyAt(arriving[m], m)}
  /\ UNCHANGED <<now, messages, threads, sends, jobs, arriving, downloads>>

Ends(m) == arriving' = [arriving EXCEPT ![m] = None] /\ put' = put \ {m}

Project(m) ==
  /\ m \in put
  /\ m \in Replies => sends[m].thread # None \* the claim guard of the completing batch
  /\ messages' = [messages EXCEPT ![m] =
       [state |-> "stored", createdAt |-> arriving[m], key |-> KeyAt(arriving[m], m), rawDeletedAt |-> None]]
  /\ threads' = threads \cup {ThreadOf[m]}
  /\ sends' = IF m \in Mails THEN sends
              ELSE [sends EXCEPT ![m] = [@ EXCEPT !.state = "sent", !.message = m]]
  /\ Ends(m)
  /\ UNCHANGED <<now, objects, jobs, downloads>>

\* An invocation ends, or is cut off, before a day is over.
Stop(m) ==
  /\ arriving[m] # None
  /\ Ends(m)
  /\ UNCHANGED <<now, messages, threads, sends, objects, jobs, downloads>>

Tick ==
  /\ now < MaxTime
  /\ \A m \in Messages : arriving[m] # None => arriving[m] = now
  /\ now' = now + 1
  /\ UNCHANGED <<messages, threads, sends, objects, jobs, mail, downloads>>

-------------------------------------------------------------------------------
(* enqueueEligible *)

\* ORDER BY ... LIMIT: the first of ids by rank, ties in the order of their ids.
First(ids, rank, limit) ==
  {s \in SUBSET ids :
     /\ Cardinality(s) = IF Cardinality(ids) < limit THEN Cardinality(ids) ELSE limit
     /\ \A a \in s, b \in ids \ s : rank[a] <= rank[b]}

SharersOf(m) == {n \in Stored : messages[n].key = messages[m].key /\ messages[n].rawDeletedAt = None}

Eligible(cutoff) ==
  {m \in Stored :
     /\ messages[m].createdAt <= cutoff /\ messages[m].rawDeletedAt = None
     /\ \A n \in SharersOf(m) : messages[n].createdAt <= cutoff
     /\ tombstones[m].state = "absent"}

Enqueue(policy, limit) ==
  LET created == [m \in Messages |-> messages[m].createdAt] IN
  /\ now >= policy[1]
  /\ \E chosen \in First(Eligible(now - policy[1]), created, limit) :
       tombstones' = [m \in Messages |->
         IF m \in chosen
         THEN [NoTombstone EXCEPT !.state = "raw_pending",
                                  !.rawDue = messages[m].createdAt + policy[1],
                                  !.applicationDue = messages[m].createdAt + policy[2]]
         ELSE tombstones[m]]
  /\ UNCHANGED <<now, messages, threads, sends, objects, mail, tasks, downloads>>

-------------------------------------------------------------------------------
(* claimEligible: an UPDATE, then a SELECT by token *)

Due(t) == IF t.state = "raw_pending" THEN t.rawDue ELSE t.applicationDue

Open(t) == t.state \in {"raw_pending", "application_pending"}

\* The claim without its second look at the sharers.  No action uses it.
ClaimableAlone ==
  {m \in Messages :
     /\ Open(tombstones[m]) /\ Due(tombstones[m]) <= now
     /\ tombstones[m].token = None \/ tombstones[m].expiresAt <= now}
Claimable ==
  {m \in Messages :
     /\ Open(tombstones[m]) /\ Due(tombstones[m]) <= now
     /\ tombstones[m].token = None \/ tombstones[m].expiresAt <= now
     /\ tombstones[m].state = "raw_pending" =>
          \A n \in {s \in Stored : /\ messages[s].rawDeletedAt = None
                                   /\ messages[s].key = messages[m].key} :
            tombstones[n].state # "absent"}

\* Records to forget come before bytes to clear, then the longest due.
Urgency ==
  [m \in Messages |-> Due(tombstones[m]) +
     (IF tombstones[m].state = "application_pending" THEN 0 ELSE 2 * MaxTime + 2)]

Unused(j) == \A m \in Messages : tasks[j][m] = "none" /\ tombstones[m].token # j

Claim(j, limit) ==
  /\ Unused(j)
  /\ \E chosen \in First(Claimable, Urgency, limit) :
       /\ chosen # {}
       /\ tombstones' = [m \in Messages |->
            IF m \in chosen THEN [tombstones[m] EXCEPT !.token = j, !.expiresAt = now + Lease]
            ELSE tombstones[m]]
       /\ tasks' = [tasks EXCEPT ![j] = [m \in Messages |-> IF m \in chosen THEN "claiming" ELSE "none"]]
  /\ UNCHANGED <<now, messages, threads, sends, objects, mail, downloads>>

\* The rows that still carry the token are the claims.
ReadClaims(j) ==
  /\ \E m \in Messages : tasks[j][m] = "claiming"
  /\ tasks' = [tasks EXCEPT ![j] = [m \in Messages |->
       IF tombstones[m].token = j THEN tombstones[m].state ELSE "none"]]
  /\ UNCHANGED <<now, messages, threads, sends, objects, tombstones, mail, downloads>>

-------------------------------------------------------------------------------
(* One claim, by the job that holds it *)

Moves(j, m, task) == tasks' = [tasks EXCEPT ![j][m] = task]

\* The call that nobody awaits.  No action uses it.
ClearedLater(key) == objects
Cleared(key) == objects \ {key}

\* R2.delete: a key that is not there is deleted as well.
Clear(j, m) ==
  /\ tasks[j][m] = "raw_pending"
  /\ objects' = Cleared(messages[m].key)
  /\ Moves(j, m, "cleared")
  /\ UNCHANGED <<now, messages, threads, sends, tombstones, mail, downloads>>

Holds(j, m, state) == tombstones[m].token = j /\ tombstones[m].state = state

\* The claim is kept for a message whose records are due as well.
MarkRawDeleted(j, m) ==
  LET keeps  == tombstones[m].applicationDue <= now
      marked == [tombstones[m] EXCEPT !.state = "application_pending",
                                      !.token = IF keeps THEN @ ELSE None]
  IN
  /\ tasks[j][m] = "cleared"
  /\ IF Holds(j, m, "raw_pending")
     THEN /\ messages' = [messages EXCEPT ![m].rawDeletedAt = IF @ = None THEN now ELSE @]
          /\ tombstones' = [tombstones EXCEPT ![m] = marked]
          /\ Moves(j, m, IF keeps THEN "application_pending" ELSE "none")
     ELSE /\ Moves(j, m, "none")
          /\ UNCHANGED <<messages, tombstones>>
  /\ UNCHANGED <<now, threads, sends, objects, mail, downloads>>

\* Evidence is detached from what is deleted, and a thread goes with its last message.
DetachedKeepingThread(m) ==
  [s \in Replies |-> IF s = m THEN [sends[s] EXCEPT !.message = None] ELSE sends[s]]
Detached(m) ==
  [s \in Replies |->
     [sends[s] EXCEPT !.message = IF s = m THEN None ELSE @,
                      !.thread = IF @ = ThreadOf[m] /\ \A n \in Stored \ {m} : ThreadOf[n] # ThreadOf[m]
                                 THEN None ELSE @]]

CompleteApplicationDeletion(j, m) ==
  /\ tasks[j][m] = "application_pending"
  /\ IF Holds(j, m, "application_pending")
     THEN /\ sends' = Detached(m)
          /\ messages' = [messages EXCEPT ![m].state = "deleted"]
          /\ threads' = IF \A n \in Stored \ {m} : ThreadOf[n] # ThreadOf[m]
                        THEN threads \ {ThreadOf[m]} ELSE threads
          /\ tombstones' = [tombstones EXCEPT ![m] = [@ EXCEPT !.state = "completed", !.token = None]]
     ELSE UNCHANGED <<messages, threads, sends, tombstones>>
  /\ Moves(j, m, "none")
  /\ UNCHANGED <<now, objects, mail, downloads>>

\* A step of the job threw: the claim is given back, if it is still its own.
RecordFailure(j, m) ==
  /\ tasks[j][m] \in {"raw_pending", "cleared", "application_pending"}
  /\ tombstones' = [tombstones EXCEPT ![m].token = IF @ = j /\ Open(tombstones[m]) THEN None ELSE @]
  /\ Moves(j, m, "none")
  /\ UNCHANGED <<now, messages, threads, sends, objects, mail, downloads>>

\* A job that is cut off leaves its claims to their lease.
Abandon(j) ==
  /\ \E m \in Messages : tasks[j][m] # "none"
  /\ tasks' = [tasks EXCEPT ![j] = [m \in Messages |-> "none"]]
  /\ UNCHANGED <<now, messages, threads, sends, objects, tombstones, mail, downloads>>

-------------------------------------------------------------------------------
(* GET of a raw message, an attachment or the HTML of a message *)

Download(d, step, m, key) ==
  /\ downloads' = [downloads EXCEPT ![d] = [step |-> step, message |-> m, key |-> key]]
  /\ UNCHANGED <<now, messages, threads, sends, objects, jobs, mail>>

\* The row says whether the bytes are there, and where; a client that brings the ETag of
\* bytes it has is not sent them again.
Find(d, m) ==
  /\ downloads[d].step = "idle"
  /\ IF messages[m].state = "stored" /\ messages[m].rawDeletedAt = None
     THEN Download(d, "found", m, messages[m].key) \/ Download(d, "answered", None, None)
     ELSE Download(d, "answered", None, None)

\* The object has to have the size and the digest of the row.
Matches(key, m) == key \in objects /\ key[2] = Digest[m]

Fetch(d) ==
  LET row == downloads[d] IN
  /\ row.step = "found"
  /\ IF Matches(row.key, row.message)
     THEN Download(d, "answered", None, None)
     ELSE Download(d, "failed", row.message, row.key)

-------------------------------------------------------------------------------
JobStep(j) ==
  \/ \E limit \in Batches : Claim(j, limit)
  \/ ReadClaims(j) \/ Abandon(j)
  \/ \E m \in Messages : \/ Clear(j, m) \/ MarkRawDeleted(j, m)
                         \/ CompleteApplicationDeletion(j, m) \/ RecordFailure(j, m)

Next ==
  \/ Tick
  \/ \E m \in Messages : Begin(m) \/ Reserve(m) \/ Put(m) \/ Project(m) \/ Stop(m)
  \/ \E policy \in Policies, limit \in Batches : Enqueue(policy, limit)
  \/ \E j \in Jobs : JobStep(j)
  \/ \E d \in Reads : Fetch(d) \/ \E m \in Messages : Find(d, m)

Spec == Init /\ [][Next]_vars

-------------------------------------------------------------------------------
(* Properties *)

Keys == {KeyAt(day, m) : day \in Nat, m \in Messages}

\* The tables and the objects keep their columns, and the jobs their claims.
TypeOK ==
  /\ now \in Nat
  /\ messages \in [Messages -> [state : {"absent", "stored", "deleted"}, createdAt : Nat,
                                key : Keys \cup {None}, rawDeletedAt : Nat \cup {None}]]
  /\ threads \subseteq Threads
  /\ sends \in [Replies -> [state : {"absent", "sending", "sent"}, message : Messages \cup {None},
                            thread : Threads \cup {None}]]
  /\ objects \subseteq Keys
  /\ tombstones \in [Messages -> [state : TombstoneStates, rawDue : Nat, applicationDue : Nat,
                                  token : Jobs \cup {None}, expiresAt : Nat]]
  /\ arriving \in [Messages -> Nat \cup {None}] /\ put \subseteq Messages
  /\ tasks \in [Jobs -> [Messages -> TombstoneStates \cup {"none", "claiming", "cleared"}]]
  /\ downloads \in [Reads -> [step : {"idle", "found", "answered", "failed"},
                              message : Messages \cup {None}, key : Keys \cup {None}]]

\* Bytes go before records: while a message is past the clearing of its bytes, R2 does not
\* hold them, whoever claimed what and stopped where, and although mail with the same bytes
\* may be put long after the day of its key was read.  For policies of two raw days or more.
BytesGoFirst ==
  \A m \in Messages :
    /\ tombstones[m].state \in {"application_pending", "completed"} => messages[m].key \notin objects
    /\ messages[m].state = "deleted" <=> tombstones[m].state = "completed"

\* The evidence of a send outlives its message and its thread, and points at neither then.
EvidenceIsDetached ==
  /\ \A s \in Replies :
       /\ sends[s].message # None => s \in Stored
       /\ sends[s].thread # None => sends[s].thread \in threads
  /\ \A m \in Stored : ThreadOf[m] \in threads

\* A download that fails, although its row was there, is of a message retention had taken up.
DownloadsFailOnlyForRetired ==
  \A d \in Reads :
    downloads[d].step = "failed" => tombstones[downloads[d].message].state # "absent"
================================================================================
