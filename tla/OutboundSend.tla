----------------------------- MODULE OutboundSend -----------------------------
(***************************************************************************)
(* The outbound send path of the mail service: submitInternalSend (a send  *)
(* or reply submitted through the API) and relayReplyAlias (the owner's    *)
(* reply to a forwarded copy, received as mail), over the shared D1 tables *)
(* outbound_sends, threads, messages and uploaded_files, the R2 archive    *)
(* and the email provider.                                                 *)
(*                                                                         *)
(* A handler is one invocation of the Worker.  It takes one step per       *)
(* awaited call, so other handlers run between any two of its steps; it    *)
(* may stop for good after any of them.  A client that lost its answer, or *)
(* an email server that redelivers, is another handler with the same       *)
(* request.  Identifiers a handler generates (thread, message) are named   *)
(* by the handler itself, since generateId never repeats.                  *)
(***************************************************************************)
EXTENDS Naturals, Sequences

CONSTANTS
  Handlers,   \* invocations of the Worker
  Requests,   \* (actor, mailbox, key, digest) tuples that are submitted
  Relays,     \* the requests that arrive as mail to a reply alias
  Keys,       \* idempotency keys
  Threads,    \* conversations that exist at the start
  Files,      \* completed uploads
  Raws,       \* SHA-256 digests of the raw messages of a mailbox
  None,       \* SQL NULL
  KeyOf,      \* the idempotency key of a request
  ThreadOf,   \* the thread a request replies to, None for a new message
  FilesOf,    \* the linked attachments of a request, in order
  RawOf       \* the digest of the raw message a request leads to

ASSUME RequestShape ==
  /\ Relays \subseteq Requests
  /\ KeyOf \in [Requests -> Keys]
  /\ ThreadOf \in [Requests -> Threads \cup {None}]
  /\ FilesOf \in [Requests -> Seq(Files)]
  /\ RawOf \in [Requests -> Raws]
  /\ \A r \in Relays : ThreadOf[r] \in Threads /\ FilesOf[r] = <<>>

ASSUME FreshNames ==
  /\ Handlers \cap Threads = {}
  /\ None \notin Handlers \cup Threads \cup Requests \cup Keys \cup {"queued", "sent", "failed"}

VARIABLES
  sends,      \* outbound_sends, by idempotency key
  threads,    \* the workflow state of each thread row
  messages,   \* outbound messages, by the handler that generated the id
  boundTo,    \* uploaded_files.outbound_send_id, as the key of that send
  archived,   \* handlers whose raw message is in R2
  calls,      \* how often EMAIL.send was called for a key
  accepted,   \* keys whose message the provider took
  pc,         \* where each handler stands
  req,        \* the request it serves
  thread,     \* its proposedThreadId
  inserted,   \* whether its reservation inserted the row
  nextFile,   \* the linked file its attach loop is at
  result,     \* what the provider told it
  reply       \* what it answered

stored   == <<sends, threads, messages, boundTo, archived>>
provider == <<calls, accepted>>
locals   == <<req, thread, inserted, nextFile, result>>
vars     == <<stored, provider, pc, locals, reply>>

-------------------------------------------------------------------------------
SendStates == {"absent", "queued", "sending", "sent", "unknown", "failed"}
Settled    == {"sent", "unknown", "failed"}

Rows == [request : Requests \cup {None}, state : SendStates,
         thread : Threads \cup Handlers \cup {None},
         message : Handlers \cup {None},
         providerId : Handlers \cup {None}, attempts : Nat]

NoRow == [request |-> None, state |-> "absent", thread |-> None,
          message |-> None, providerId |-> None, attempts |-> 0]

Messages == [request : Requests, thread : Threads \cup Handlers,
             state : {"sent", "unknown"}]

Steps == {"idle", "validate", "relayCheck", "reserve", "readBack", "claim", "lost",
          "deliver", "archive", "recordUnknown", "project", "recover", "done", "crashed"}

\* A handler at one of these steps has won the claim of its send.
Owning == {"deliver", "archive", "recordUnknown", "project"}

Replies == {None, "rejected", "conflict", "duplicate", "error"} \cup (SendStates \ {"absent"})

Init ==
  /\ sends = [k \in Keys |-> NoRow]
  /\ threads = [t \in Threads \cup Handlers |-> IF t \in Threads THEN "needs_reply" ELSE "absent"]
  /\ messages = [h \in Handlers |-> None]
  /\ boundTo = [f \in Files |-> None]
  /\ archived = {}
  /\ calls = [k \in Keys |-> 0]
  /\ accepted = {}
  /\ pc = [h \in Handlers |-> "idle"]
  /\ req = [h \in Handlers |-> None]
  /\ thread = [h \in Handlers |-> None]
  /\ inserted = [h \in Handlers |-> FALSE]
  /\ nextFile = [h \in Handlers |-> 1]
  /\ result = [h \in Handlers |-> None]
  /\ reply = [h \in Handlers |-> None]

Key(h) == KeyOf[req[h]]
Row(h) == sends[Key(h)]
IsRelay(h) == req[h] \in Relays

Goto(h, step) == pc' = [pc EXCEPT ![h] = step] /\ UNCHANGED reply
Answer(h, what) == pc' = [pc EXCEPT ![h] = "done"] /\ reply' = [reply EXCEPT ![h] = what]

\* What a relay answers for a send it did not carry out itself.
RelayReply(state) == IF state \in {"sent", "failed"} THEN state ELSE "unknown"
StateReply(h) == IF IsRelay(h) THEN RelayReply(Row(h).state) ELSE Row(h).state

-------------------------------------------------------------------------------
(* The guards of the SQL statements, each with a variant that lacks part   *)
(* of it.  The variants are used by no action.                             *)

\* ON CONFLICT(idempotency_key) DO NOTHING
KeyFree(k) == sends[k].state = "absent"

\* The NOT EXISTS of the thread insert.
CreatesThreadAlways(r) == ThreadOf[r] = None
CreatesThread(r) == ThreadOf[r] = None /\ KeyFree(KeyOf[r])

SameRequest(h) == Row(h).request = req[h]

\* The thread a reserved or replayed send is projected into.
ReservedThreadOwn(h) == thread[h]
ReservedThread(h) == IF inserted[h] THEN thread[h] ELSE Row(h).thread

ClaimableInAnyState(h) == SameRequest(h)
ClaimableByInserter(h) == SameRequest(h) /\ Row(h).state = "queued" /\ inserted[h]
Claimable(h) == SameRequest(h) /\ Row(h).state = "queued"

MayFailLate(h) == SameRequest(h) /\ Row(h).state \in {"queued", "sending"}
MayFail(h) == SameRequest(h) /\ Row(h).state = "queued"

MayBecomeUnknown(h) == SameRequest(h) /\ Row(h).state = "sending"

Attachable(f, k) == boundTo[f] \in {None, k}

ClaimHeld(h) == SameRequest(h) /\ Row(h).state = "sending" /\ Row(h).thread = thread[h]

-------------------------------------------------------------------------------
(* What the statements write into the row of the send.                     *)

QueuedRow(h) == [NoRow EXCEPT !.request = req[h], !.state = "queued", !.thread = thread[h]]

\* The id of an accepted call, named by the handler that made it.
ProviderId(h) == IF result[h] = "sent" THEN h ELSE None

Attempted(h, state) == [Row(h) EXCEPT !.state = state, !.attempts = @ + 1]

UnknownRow(h) == [Row(h) EXCEPT !.state = "unknown", !.providerId = ProviderId(h)]

FinalRowAlwaysSent(h) == [Row(h) EXCEPT !.state = "sent", !.message = h, !.providerId = h]
FinalRowKeepsState(h) == [Row(h) EXCEPT !.message = h, !.providerId = ProviderId(h)]
FinalRow(h) == [Row(h) EXCEPT !.state = result[h], !.message = h,
                              !.providerId = ProviderId(h)]

-------------------------------------------------------------------------------
(* A request arrives.  captureInboundEmail stores the raw message of a     *)
(* relay before it looks at anything else.                                 *)
Receive(h, r) ==
  /\ pc[h] = "idle"
  /\ req' = [req EXCEPT ![h] = r]
  /\ thread' = [thread EXCEPT ![h] = IF ThreadOf[r] = None THEN h ELSE ThreadOf[r]]
  /\ Goto(h, IF r \in Relays THEN "relayCheck" ELSE "validate")
  /\ archived' = IF r \in Relays THEN archived \cup {h} ELSE archived
  /\ UNCHANGED <<sends, threads, messages, boundTo, provider, inserted, nextFile, result>>

\* Scope, digest, mailbox, thread, target, linked files, rendering, limits.
Reject(h) ==
  /\ pc[h] = "validate"
  /\ Answer(h, "rejected")
  /\ UNCHANGED <<stored, provider, locals>>

Validate(h) ==
  /\ pc[h] = "validate"
  /\ Goto(h, "reserve")
  /\ UNCHANGED <<stored, provider, locals>>

\* hasRawProjection looks for the digest, not for the request.
RawProjected(raw) == \E m \in Handlers : messages[m] # None /\ RawOf[messages[m].request] = raw

RelayCheck(h) ==
  /\ pc[h] = "relayCheck"
  /\ IF RawProjected(RawOf[req[h]]) THEN Answer(h, "duplicate") ELSE Goto(h, "reserve")
  /\ UNCHANGED <<stored, provider, locals>>

(* One D1 batch: the new thread, unless the key is taken, and the queued   *)
(* send, unless the key is taken.                                          *)
Reserve(h) ==
  LET k == Key(h) IN
  /\ pc[h] = "reserve"
  /\ threads' = IF CreatesThread(req[h]) THEN [threads EXCEPT ![h] = "waiting"] ELSE threads
  /\ sends' = IF KeyFree(k)
              THEN [sends EXCEPT ![k] = QueuedRow(h)]
              ELSE sends
  /\ inserted' = [inserted EXCEPT ![h] = KeyFree(k)]
  /\ Goto(h, "readBack")
  /\ UNCHANGED <<messages, boundTo, archived, provider, req, thread, nextFile, result>>

(* The row is read back by a second statement: by then another handler     *)
(* may have claimed or finished it.                                        *)
Conflict(h) ==
  /\ pc[h] = "readBack"
  /\ ~SameRequest(h)
  /\ Answer(h, IF IsRelay(h) THEN "duplicate" ELSE "conflict")
  /\ UNCHANGED <<stored, provider, locals>>

Replay(h) ==
  /\ pc[h] = "readBack"
  /\ SameRequest(h)
  /\ Row(h).state # "queued"
  /\ IsRelay(h) \/ ~inserted[h]
  /\ Answer(h, StateReply(h))
  /\ UNCHANGED <<stored, provider, locals>>

Proceed(h) ==
  /\ pc[h] = "readBack"
  /\ SameRequest(h)
  /\ Row(h).state = "queued" \/ (~IsRelay(h) /\ inserted[h])
  /\ thread' = [thread EXCEPT ![h] = ReservedThread(h)]
  /\ Goto(h, "claim")
  /\ UNCHANGED <<stored, provider, req, inserted, nextFile, result>>

\* A relay that cannot be parsed, has no target or exceeds the limits.
RelayFails(h) ==
  /\ pc[h] = "claim"
  /\ IsRelay(h)
  /\ IF MayFail(h)
     THEN /\ sends' = [sends EXCEPT ![Key(h)] = Attempted(h, "failed")]
          /\ Answer(h, "failed")
     ELSE /\ UNCHANGED sends
          /\ Answer(h, "error")
  /\ UNCHANGED <<threads, messages, boundTo, archived, provider, locals>>

Claim(h) ==
  /\ pc[h] = "claim"
  /\ IF Claimable(h)
     THEN /\ sends' = [sends EXCEPT ![Key(h)] = Attempted(h, "sending")]
          /\ Goto(h, "deliver")
     ELSE UNCHANGED sends /\ Goto(h, "lost")
  /\ UNCHANGED <<threads, messages, boundTo, archived, provider, locals>>

\* The row is read again, by its key, for the answer.
LoseClaim(h) ==
  /\ pc[h] = "lost"
  /\ Answer(h, StateReply(h))
  /\ UNCHANGED <<stored, provider, locals>>

(* UploadedFileRepository.attach for the next linked file; it throws when  *)
(* the file belongs to another send, which nothing catches.                *)
Attach(h) ==
  LET files == FilesOf[req[h]]
      f == files[nextFile[h]]
  IN /\ pc[h] = "deliver"
     /\ nextFile[h] <= Len(files)
     /\ IF Attachable(f, Key(h))
        THEN /\ boundTo' = [boundTo EXCEPT ![f] = Key(h)]
             /\ nextFile' = [nextFile EXCEPT ![h] = @ + 1]
             /\ UNCHANGED <<pc, reply>>
        ELSE /\ UNCHANGED <<boundTo, nextFile>>
             /\ Answer(h, "error")
     /\ UNCHANGED <<sends, threads, messages, archived, provider, req, thread, inserted, result>>

FilesBoundLate(h) == TRUE
FilesBound(h) == nextFile[h] > Len(FilesOf[req[h]])

(* EMAIL.send returns an id, or throws: then the provider may or may not   *)
(* have taken the message.                                                 *)
Deliver(h) ==
  /\ pc[h] = "deliver"
  /\ FilesBound(h)
  /\ calls' = [calls EXCEPT ![Key(h)] = @ + 1]
  /\ \/ /\ result' = [result EXCEPT ![h] = "sent"]
        /\ accepted' = accepted \cup {Key(h)}
     \/ /\ result' = [result EXCEPT ![h] = "unknown"]
        /\ accepted' \in {accepted, accepted \cup {Key(h)}}
  /\ Goto(h, IF IsRelay(h) THEN "project" ELSE "archive")
  /\ UNCHANGED <<stored, req, thread, inserted, nextFile>>

\* generateCanonicalOutboundEml and putRawMessage.
Archive(h) ==
  /\ pc[h] = "archive"
  /\ archived' = archived \cup {h}
  /\ Goto(h, "project")
  /\ UNCHANGED <<sends, threads, messages, boundTo, provider, locals>>

ArchiveFails(h) ==
  /\ pc[h] = "archive"
  /\ Goto(h, "recordUnknown")
  /\ UNCHANGED <<stored, provider, locals>>

RecordUnknown(h) ==
  /\ pc[h] = "recordUnknown"
  /\ IF MayBecomeUnknown(h)
     THEN /\ sends' = [sends EXCEPT ![Key(h)] = UnknownRow(h)]
          /\ Answer(h, "unknown")
     ELSE UNCHANGED sends /\ Answer(h, "error")
  /\ UNCHANGED <<threads, messages, boundTo, archived, provider, locals>>

(* completeOutboundProjection: one D1 batch behind the claim guard.  The   *)
(* answer of a committed batch may be lost.  No statement of the batch     *)
(* writes threads.workflow_state.                                          *)
Project(h) ==
  /\ pc[h] = "project"
  /\ ClaimHeld(h)
  /\ sends' = [sends EXCEPT ![Key(h)] = FinalRow(h)]
  /\ messages' = [messages EXCEPT ![h] = [request |-> req[h], thread |-> thread[h],
                                          state |-> result[h]]]
  /\ Answer(h, result[h]) \/ Goto(h, "recover")
  /\ UNCHANGED <<threads, boundTo, archived, provider, locals>>

\* D1 failed, or the guard raised the constraint error: nothing is committed.
ProjectFails(h) ==
  /\ pc[h] = "project"
  /\ Goto(h, "recover")
  /\ UNCHANGED <<stored, provider, locals>>

Recover(h) ==
  /\ pc[h] = "recover"
  /\ Answer(h, IF IsRelay(h) THEN "unknown" ELSE Row(h).state)
  /\ UNCHANGED <<stored, provider, locals>>

(* The invocation is cut off, or a call that nothing catches throws: a     *)
(* call that took effect and then threw is that call and then this step.   *)
Crash(h) ==
  /\ pc[h] \notin {"idle", "done", "crashed"}
  /\ Goto(h, "crashed")
  /\ UNCHANGED <<stored, provider, locals>>

-------------------------------------------------------------------------------
Progress(h) ==
  \/ Reject(h) \/ Validate(h) \/ RelayCheck(h)
  \/ Reserve(h) \/ Conflict(h) \/ Replay(h) \/ Proceed(h)
  \/ RelayFails(h) \/ Claim(h) \/ LoseClaim(h)
  \/ Attach(h) \/ Deliver(h) \/ Archive(h) \/ ArchiveFails(h) \/ RecordUnknown(h)
  \/ Project(h) \/ ProjectFails(h) \/ Recover(h)

Next == \E h \in Handlers : (\E r \in Requests : Receive(h, r)) \/ Progress(h) \/ Crash(h)

Spec == Init /\ [][Next]_vars

\* The runtime keeps running an invocation it has started.
FairSpec == Spec /\ \A h \in Handlers : WF_vars(Progress(h))

-------------------------------------------------------------------------------
(* Properties *)

\* Every variable keeps the shape the tables and the handlers give it.
TypeOK ==
  /\ sends \in [Keys -> Rows]
  /\ threads \in [Threads \cup Handlers -> {"absent", "needs_reply", "waiting"}]
  /\ messages \in [Handlers -> Messages \cup {None}]
  /\ boundTo \in [Files -> Keys \cup {None}]
  /\ archived \subseteq Handlers
  /\ calls \in [Keys -> Nat]
  /\ accepted \subseteq Keys
  /\ pc \in [Handlers -> Steps]
  /\ req \in [Handlers -> Requests \cup {None}]
  /\ thread \in [Handlers -> Threads \cup Handlers \cup {None}]
  /\ inserted \in [Handlers -> BOOLEAN]
  /\ nextFile \in [Handlers -> Nat \ {0}]
  /\ result \in [Handlers -> {None, "sent", "unknown"}]
  /\ reply \in [Handlers -> Replies]

\* The provider is called at most once for an idempotency key, however many handlers
\* retry it and wherever they stop (claimQueuedSend before EMAIL.send).
AtMostOneProviderCall == \A k \in Keys : calls[k] <= 1

\* A send recorded as sent was taken by the provider and has exactly its own message:
\* in the thread of the send, marked sent, with its raw message in R2.
SentIsReal ==
  \A k \in Keys : sends[k].state = "sent" =>
    LET m == sends[k].message IN
    /\ k \in accepted
    /\ m \in archived
    /\ messages[m] = [request |-> sends[k].request, thread |-> sends[k].thread, state |-> "sent"]

\* Messages and finished sends come and go together: a message row belongs to the send
\* that names it, and to no other (the batch of completeOutboundProjection).
MessageHasItsSend ==
  \A h \in Handlers : messages[h] # None =>
    LET row == sends[KeyOf[messages[h].request]] IN
    row.message = h /\ row.request = messages[h].request /\ row.state = messages[h].state

\* A definite failure is only recorded for a send the provider never saw.
FailedWasNeverSent ==
  \A k \in Keys : sends[k].state = "failed" => calls[k] = 0 /\ k \notin accepted

\* A thread row made by a send is the thread of some send: losing the race for a key
\* leaves no empty conversation behind; and no send points at a missing thread.
NoOrphanThread ==
  /\ \A h \in Handlers : threads[h] # "absent" => \E k \in Keys : sends[k].thread = h
  /\ \A k \in Keys : sends[k].state # "absent" => threads[sends[k].thread] # "absent"

\* Once the provider was called, every linked file of the request belongs to that send,
\* so the links in the delivered mail stay downloadable.
LinksAreBound ==
  \A k \in Keys : calls[k] > 0 =>
    \A i \in DOMAIN FilesOf[sends[k].request] : boundTo[FilesOf[sends[k].request][i]] = k

\* The handler that called the provider always passes the claim guard of the completion:
\* no retry can have moved its send or its thread meanwhile, so what was delivered is not
\* refused a message row.
CompletionIsNotRefused == \A h \in Handlers : pc[h] = "project" => ClaimHeld(h)

\* No handler answers for a send that is still queued, and an answer of sent or failed
\* is what is recorded: whoever got an answer need not submit again.
AnswersAreTrue ==
  \A h \in Handlers :
    /\ reply[h] # "queued"
    /\ reply[h] \in {"sent", "failed"} => Row(h).state = reply[h]

\* A settled send is never written again, by no handler and no retry.
SettledIsFinal ==
  [][\A k \in Keys : sends[k].state \in Settled => UNCHANGED sends[k]]_vars

\* A send that an interrupted handler left queued is carried on by whichever handler
\* submits the same request next, unless that one is interrupted too.
MetQueued(h)    == IF pc[h] = "readBack" THEN SameRequest(h) /\ Row(h).state = "queued" ELSE FALSE
NoLongerQueued(h) == IF req[h] = None THEN FALSE ELSE Row(h).state # "queued"
QueuedIsResumed ==
  \A h \in Handlers : MetQueued(h) ~> (NoLongerQueued(h) \/ pc[h] = "crashed")

\* What the row of a key tells its holder, in the words of the contract.
PhaseOf(state) == CASE state = "queued" -> "accepted"
                    [] state = "sending" -> "claimed"
                    [] OTHER -> state

Contract == INSTANCE DeliveryContract WITH
  phase <- [k \in Keys |-> PhaseOf(sends[k].state)], handedOver <- calls

\* The send path does what the contract says: it hands a message over at most once,
\* after a durable claim, and settles only what was handed over.
MeetsContract == Contract!Spec
===============================================================================
