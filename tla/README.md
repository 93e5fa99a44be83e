# Simple Inbox: a TLA+ model

Simple Inbox is a single-owner mail inbox in one Cloudflare Worker. It receives mail through Email
Routing, keeps the raw message in R2 and its projection in D1, forwards a copy to the owner, and
sends mail through the Email Sending binding. Invocations of the Worker run concurrently and share
nothing but those stores; D1 statements, and batches of them, are atomic, and nothing else is. The
web client works over an API whose answers come late, out of order or never.

This directory models the parts of the program where that matters, checks them with TLC on small
instances and proves the central properties with TLAPS for any number of handlers and messages.

## The system

| component | state | operations | what is hard | what makes it correct |
| --- | --- | --- | --- | --- |
| Outbound send (`mail/src/services/outbound.ts`, `db/.../outbound-send.ts`) | `outbound_sends`, new `threads` rows, R2 archive | reserve, replay, claim, attach, call the provider, archive, project, record | retries and rivals under one idempotency key; a stop at any await; ambiguous provider results | at most one provider call for a key; the record never says more than happened |
| Reply-alias relay (`relayReplyAlias` in `inbound.ts`) | the same rows | the owner's answer to a forwarded copy is sent on from the mailbox | the same key race by redelivery; a definite failure racing a claim | failed only when never sent |
| Inbound capture (`captureInboundEmail`) | `messages`, `mailboxes`, R2 raw | raw write, digest lookup, mailbox discovery, spam rules, projection | duplicate and overlapping deliveries; a stop between R2 and D1 | an acknowledged mail is captured |
| Owner forwarding (`deliverPendingOwnerForward`, `forwardToOwner`) | `messages.forward_state`, `reply_aliases` | re-check rules, issue alias, find the earlier copy, claim, send, record | rules and settings changing meanwhile; a result written over another | at most one copy; only where permitted; replies find their thread |
| Mailbox settings and rules (`inbox.ts`, `mailbox-settings-dialog.tsx`) | `mailboxes`, `spam_rules`, the draft of a dialog | load, edit, save, block, create | answers, loads and other tabs between opening and saving | what is sent is what was entered |
| Uploads (`uploads.ts`, `uploaded-files.ts`, `attachment-upload.ts`) | `uploaded_files`, R2 | create, store parts, complete, attach | a completion whose answer is lost | a post names complete files only |
| Composer (`reply-composer.tsx`, `new-message-dialog.tsx`) | draft, idempotency key, attachments, selected mailbox | edit, attach, switch, post, retry | an unknown outcome, then a change or a retry; a draft kept across mailboxes | one content for a key; a draft is sent once |
| Message organisation (`scoped-inbox.ts`, `mail-projection.ts`) | per-message state, thread aggregates | read, spam, trash, archive, bulk changes, projection, deletion | batches keep the same columns by different rules | aggregates equal what the messages say |
| Lists (`scoped-inbox.ts`, `cursor.ts`, `inbox-model.ts`) | a walk of pages | list, search | threads move between two pages | nothing that stayed is missed or repeated |
| Thread resolution (`threading.ts`, `mail-store.ts`, `inbound.ts`) | `threads`, references, message ids | look up named messages, match the subject, trim references | related mails captured at once; an answer before the reply it answers is recorded | an answer joins the conversation it names |
| Authentication (`auth-repository.ts`, `routes/auth.ts`) | `users`, `magic_links`, `sessions` | request, consume, find, revoke | double consumption, cooldown and expiry under stale clocks | one session for a link, for the owner |
| Installation (`installation.ts`, `routes/setup.ts`) | `installations`, first owner and mailbox | status, complete | concurrent setups, replays | settings are chosen once |
| Retention (`retention.ts`) | `retention_tombstones`, R2 raw | enqueue, claim, clear, delete, fail | expired leases, shared objects, a stop between R2 and D1 | bytes go before records, and only those that are due |
| Inbox page (`inbox.tsx`, `use-thread-detail.ts`, `thread-list-pane.tsx`) | selection, loaded rows, requests in flight | select, refresh, mark read, move, undo | late answers, writes that take effect after they were given up | what is shown belongs to what is selected; a move can be undone |

The API authenticates a request, reads its body and passes it to the mail service through an
in-process binding (`mail-client.ts`); the mail service calls repositories of `packages/db`, the
`STORAGE` bucket and the `EMAIL` binding. Inbound mail enters the mail service directly. A capture
whose recipient is a reply alias of the owner becomes a relay, that is, an outbound send.

## Modules

| module | models |
| --- | --- |
| `DeliveryContract` | what a send promises: accepted, claimed, handed over at most once, and settled as sent, unknown or failed, failed only before the hand-over |
| `OutboundSend` | `submitInternalSend` and `relayReplyAlias` over the shared rows, the archive and the provider; `MeetsContract` maps it to `DeliveryContract` |
| `Compose` | a composer and its uploads over `DeliveryContract` as its server |
| `InboundForward` | `captureInboundEmail` with mailbox discovery, spam rules, aliases and forwarding, beside an owner who edits |
| `Threading` | how captures find the thread of a mail, and what references a reply carries |
| `ThreadAggregates` | the rows of threads and messages as every batch that writes them leaves them |
| `ThreadListing` | a client that walks the pages of a folder or a search over `ThreadAggregates` |
| `SetOnce` | what an installation promises: a value chosen once, and true answers about it |
| `Installation` | first-run setup and the gate in front of the API; `SettingsAreSetOnce` maps it to `SetOnce` |
| `SignIn` | magic links and sessions, over `Installation` |
| `Retention` | tombstones, claims with leases, and downloads |
| `InboxView` | the inbox page: conversation loads, refreshes, read marks and bulk moves |
| `Settings` | the settings dialog, the page behind it, blocking and creation |
| `OutboundSendProofs`, `InboundForwardProofs`, `ThreadingProofs`, `ThreadListingProofs`, `SignInProofs`, `RetentionProofs`, `InboxViewProofs` | the inductive invariants and the theorems that follow |
| `FormsProofs` | the same for the two forms of the client, `Compose` and `Settings` |
| `MC...` | the constants of the TLC instances |

`OutboundSend` is composed with `Compose` through `DeliveryContract`: the first is shown to implement
it, the second is checked and proved over it. `SignIn` extends `Installation`, `ThreadListing` extends
`ThreadAggregates`, so that a request or a walk meets every step of what it depends on.

An operator that no action uses (`OvertakesInTime`, `StaysArchived`, `FromCursor`,
`NamesAsWritten`, `ClearedLater`, ...) is a faulty variant of the one defined after it: `PROJECT.json` lists, for each
property, a variant that breaks it.

### OutboundSend

A handler is one invocation. Its step `pc[h]` names the awaited call it is at, so that other
handlers run between any two of its steps, and `req`, `thread`, `inserted`, `nextFile` and `result`
are its local variables. `sends[k]` is the row of `outbound_sends` with idempotency key `k`, `threads`
the workflow state of thread rows,
`messages[h]` the outbound message whose id handler `h` generated, `boundTo[f]` the
`outbound_send_id` of an uploaded file and `archived` the raw objects in R2. `calls` and `accepted`
are the provider's side: how often it was called for a key, and what it took.

An action is one await. `Reserve` is the batch of `OutboundSendRepository.reserve`: the thread insert
with its `NOT EXISTS`, the send insert with `ON CONFLICT DO NOTHING`. The row is read back by a later
statement (`Conflict`, `Replay`, `Proceed`), and may have moved on by then. `Claim` is the
conditional update of `claimQueuedSend`, `Attach` one `UploadedFileRepository.attach`, `Deliver` the
call of `EMAIL.send`, which returns an id or throws with the message taken or not. `Project` is the
batch of `completeOutboundProjection` behind its claim guard, whose committed answer may be lost.
`Crash` is an invocation that is cut off and a throw that nothing catches.

Names that `generateId` makes are the handler itself. A request stands for actor, mailbox, key and
digest, so equal requests are what `reserve` compares. Validation is a choice between `Reject` and
`Validate`; membership of the mailbox does not change (no code removes it); why a relay fails before
its claim is left open. Recipients, bodies, search text and thread aggregates are left out.

### Compose

One composer, its picker and the API. `status`, `key`, `draft`, `posted` and `items` are the state of
`NewMessageDialog`, and of `ReplyComposer`, whose mailbox does not change while it is mounted: that is the
machine without `SwitchMailbox`. `mailbox` is the selected one, or none; the dialog stays mounted
when it changes, and posts to the mailbox of the moment. `uploads[u]` is how far an upload is in R2 and
in D1. A post is a record of key, mailbox, draft and upload ids; it stays in `arriving` until the server
takes it, which may be after the composer gave up, or never. The server is `DeliveryContract` with
`requestOf`, the row a key stands for, and answers another request under that key, also the same draft
from another mailbox, with a conflict. `StartsOver`, `Uncertain` and `KeepKey` are the rules that decide
when a key is kept: changing the draft may take a new one, switching the mailbox does not.
The parts of an upload are stored as one step. Left out: downloads, the parts' own retries, recipients,
and what the dialogs show while they are locked.

### InboundForward

A handler is one delivery of a mail. `rows[m]` is the row of `messages` of mail `m` (its forward
state, its spam and trash marks, the provider's id and its raw key), `mailbox` the row of the one
mailbox of an instance, `rules` the spam rules, `aliases[m]` the reply alias of the mail, `replyTo`
the address answers to its copy go to. `barred` is history: for each delivery, what has forbidden
forwarding its mail at every moment since it began.

`PutRaw` to `Project` follow `captureInboundEmail`; `Resume` is the branch of a mail that is already
there. `Recheck` to `RecordUnknown` follow `deliverPendingOwnerForward` and `forwardToOwner`.
`ResultRow` is `updateForwardResult`, which overwrites whatever it finds. The owner's `Organise`,
`EditRules`, `EditMailbox`, `CreateMailbox` and `ConfigureMailbox` are the API's writes; the last two
are the two calls of one request.

Left out or abstracted: the parse of a mail is an outcome, also when a forward is resumed; raw keys
contain the day, so two deliveries of one mail may store two objects, and the model always keeps
them apart; five alias tokens in a row that are in use is one outcome; `forward_attempted_at` is
null exactly while the state is pending or not applicable and is not kept apart; the select and the
update of `updateForwardResult` are one step, since what it reads is only ever extended; which of
several earlier copies is the latest is left open; reading, starring and archiving have no part in
forwarding.

### Threading

`letters[m]` holds the headers of a mail, `sends[r]` those of a send of the owner, `messages` the thread
of a stored message and the ids it is found by, `tasks[m]` where the capture of a mail stands. A
customer answers any message that reached him, also a reply that is not yet recorded or was
recorded without the id the provider gave it, and also the owner does, through a reply alias.
Captures look the named ids up one query at a time, from the nearest, then threads of the same
subject, whose participants are read in two queries; other captures and sends run between any two.
Both queries stop at `RowLimit` rows in no order (`LimitedTo`), and of the addresses in them `PeopleLimit`
are kept, as the alphabet says; `Senders(t)`, `Addressees(t)` and `KeptOf` are the sets of possible
answers. The destinations a relay may have are found by the same limits. `Addressed` are the rows of
`message_recipients` with kind and position, so that one person may take several of them.
References are trimmed as the code trims them, by number and by bytes, on arrival and on sending.

`Kept` picks positions of a list, so that `Unique` (the last of equal ids, `normalizeReferences`) and
`NewSet` (the first, `new Set`) differ only in the positions they name. `LookupLimit` is the `slice(0, 100)`
of `findThreadByMessageIds`, no less than the number of references a parsed mail keeps.

Ids, subjects and people are names; which threads lie in the window of dates of a subject is an
arbitrary subset, which also stands for its limit of 20 threads. `SubjectLeavesNobodyOut` is about threads
that `Fits` describes: their messages, their recipient rows and their people are within the limits, so
that the queries read them whole. Beside them the instance has threads that are not. An id has up to 502
characters, which is less than the 900 bytes of a reply's references as long as they are ASCII; the
ids of the instance fit.

### ThreadAggregates and ThreadListing

`threads[t]` is the row of a thread with its denormalised columns (latest message, time of the latest
message, message and unread counts, `archived_at`), `messages[m]` the row of a message: its thread,
direction and the columns that are set (inbox, spam, trash, read, and a forward still pending). Every
writer is one D1 batch and so one action: `ProjectInbound`, `ReserveThread`, `ProjectOutbound`,
`PatchMessages`, `MarkThreadRead`, `SuppressForward`, `AttemptForward`, `DeleteMessage`. No batch can
be seen half done. What is hard is that the batches keep the columns by different rules: projections
add one and compare with the latest message (`Counted`), patches count again (`Recounted`), reading
writes zero, deletion looks for the latest message again (`Repaired`) and suppression does not touch
the thread. `SummaryIsTrue` says that they agree. `archived_at` is weaker: suppression may leave an
open thread with nothing in the inbox, and only `InboxIsOpen` holds.

Ids and times are numbers because lists, cursors and the latest message are ordered by both, and 0 is
NULL. Left out: stars, tags, the legacy workflow state, previews and participants (they follow the
latest message). `DeleteMessage` is the repository's batch, which only tests reach at this commit.

`ThreadListing` adds one client: `walk` is its request, `shown` the ids of the list it has built with
`appendThreadPage`. The rows a statement returns are ids with the places (time and id) they were
ordered by: `First` is the `LIMIT`, `Lowest` the last row of a page, and `picked` what the first statement
of a search returned, with the places the threads had then. The cursor is the place of the last row as it
was read. `ListPage` is `listThreads`, one statement; `PickPage` and `HydratePage` are the two
statements of `searchThreads`, and any batch may commit between them. Folders are `folderSql`; the
unread, starred and sent filters, search words and the encoding of cursors are left out. `steady`,
`again` and `expired` are history: the threads that have stayed where they were since the walk began,
those a page held for the second time, and whether a message expired.

### Installation and SignIn

A request is one HTTP request: `kind` and `asked` say what it wants, `pc` which statement it is at,
`answer` how it ended. `installation` is the singleton row, `users`, `mailboxes` and `owners` the rows a
setup inserts. `ReadRow` and `ReadCounts` are the two statements of a status, between which a setup may
complete; `CompleteBatch` is the batch of `complete`, and `Confirm` the read that tells whose
settings stand. A Worker that is configured with mailboxes adds them in `FindMailbox` to
`CheckMailbox`.

`SignIn` names a link by the request that asked for it and a session by the request that consumed it.
Each request reads `now` into `at[r]` before its statement, which may commit after a request that read
the clock later. `CreateLink` is the guarded insert with its cooldown, `DeliverLink` the call of
`EMAIL.send`, `Consume` the batch of `consumeMagicLink`, `FindNew` the read that follows it, and `SetCookie`
the answer, which may be lost. `dismissed` is history. Left out: API tokens, cookie attributes and the
touch of `last_seen_at`.

### Retention

`messages`, `threads`, `sends`, `tombstones` are the tables, `objects` the keys of R2. A raw key is a day
and a digest, so messages captured on one day with the same bytes share an object. `Enqueue`,
`Claim`, `ReadClaims`, `MarkRawDeleted`, `CompleteApplicationDeletion` and `RecordFailure` are the
repository's statements and batches, `Clear` the deletion in R2 between them, `Abandon` a job that is cut
off. `tasks[j][m]` is what job `j` believes of message `m`, which may be out of date when its lease has run
out. `Begin`, `Reserve`, `Put`, `Project` and `Stop` are the mail and the sends retention depends on: an
invocation reads the clock once (`arriving`), and its key and `created_at` are of that day, although
it puts the bytes (`put`) and projects them later. `Find` and `Fetch` are a download, by row and then by
object. `runRetention` does nothing at this commit and only tests call the
repository: the job's order of calls is that of the tests, and a clock in days is enough because the
policy is in days. `Tick` lets an invocation that has read the clock go on for no more than a day.

### InboxView

`place`, `arrived` and `read` are what D1 holds of the conversations; the rest is one page: `list` and
`thread` its URL, `shown` and `details` the state and the requests of `useThreadDetail`, `rows` and `snapshots`
the list and the two kinds of refresh that share one lane of `LatestRequestCoordinator`, `marks` the read
marks of displayed messages, `checked`, `offer` and `move` the bulk move with its Undo. A request is
served at one step and answered at a later one, or fails, before or after it was served; a write that
was given up stays in `strays` and may be served at any later time. `seen` and `moved` are history. Left
out: pages beyond the first, the optimism of a single archive, operations that end in a refresh of their
own, the redirect of a 401 and the unread counts in the rows. With the latter, the answer to a read mark
makes the rows in view a snapshot of their own (`commitThreadState`, `inbox.tsx:217-231`), which `Replace`
does not.

### Settings

`rows` and `rules` are D1, `view` what the page knows, `loads` the refresh and the loader's load in flight,
`dialog` the state and the refs of `MailboxSettingsDialog`, `saving` the save it awaits. Another tab or an API
client writes (`strays` are the writes this client gave up). `Differing` and `Effect` are the comparison
that makes a patch and the effect that takes over what the page learnt. The four settings that are
copied from an answer are one. The answer of a save is put into the list of mailboxes the page has when
it comes; the code may put it into that of the render that asked (`inbox.tsx:456`), an older one. Left out:
the list of rules and the spam dialog's own form, and wording.

## Runs

| run | instance | shows |
| --- | --- | --- |
| `outbound_one_key` | 3 handlers, 2 rival requests, 1 key, 1 file, fairness | one provider call for a key, truthful answers and records, no orphan thread, the completion is never refused, a queued send is resumed, the contract is met |
| `outbound_mixed` | 3 handlers, 4 requests under 4 keys, 2 files linked in opposite orders, one mail to two aliases | messages and settled sends go together, failed was never sent, links stay bound |
| `compose` | 3 keys, 2 mailboxes, 2 files, 2 uploads, 2 edits, 1 switch | a key has one content and one set of files, a draft is taken once, posted files are complete |
| `inbound_redelivered` | 2 deliveries of 2 mails, 2 edits, fairness | one copy, captured when acknowledged, honest states, rules and settings respected, replies resolve, references name delivered copies, pending forwards are resumed |
| `threading` | 2 mails of a customer, 1 of a colleague, 1 send, also by a relay; limits of 3 and 2 references, 2 rows, 3 people | a named message is joined, answers come home, a subject leaves nobody out |
| `thread_list` | 3 messages, 2 threads, pages of 1, inbox and archive, 1 change | aggregates equal the messages, an open message has an open thread, paging misses no steady thread and repeats none |
| `account` | 4 requests, 2 people, 2 addresses, cooldown and lifetimes of 1, time up to 2 | settings are set once, only the owner signs in, a link is spent once, links are spaced, an invalid link stays invalid |
| `retention` | 2 mails with the same bytes, 1 reply, 2 threads, 2 jobs, 1 download; policy of 2 and 3 days, lease of 1, 3 days | bytes go first, evidence is detached, a download fails only for what retention took up |
| `inbox_view` | 2 conversations, 2 messages each, 3 events, fairness | the unseen stays unread, moves are accounted for, the selected conversation settles |
| `settings` | 1 inbox, 1 hidden mailbox, 1 destination, 2 preferences, 2 events | forwarding goes only where it was asked to, a first save sends what was entered |
| `inbound_overwritten` | 2 deliveries of 1 mail | counterexample: `failed` written over a claimed forward |
| `inbound_same_id` | 2 mails with one Message-ID | counterexample: the second is never projected |

**Bounds.** The races are between handlers that meet at one row. Three of them give a holder of the
claim, a replay that read before it and one that reads after it, with a crash in any place; more only
repeat a role, and the proofs hold for any number. Two deliveries give every pair of roles in
`InboundForward`; `MaxEdits` bounds what the owner does: two are an edit and its reversal, or an edit
of a setting and one of a message. In `compose`, three keys allow for a second content of a draft
that was posted and a third after that, and two uploads for two files to be attached, or for one
to start over; one switch takes a draft to another mailbox, or to none. In
`threading`, one more reference than a reply may carry reaches every branch of the trimming, and three
mails split a conversation and then name both halves. One mail and an answer to it are within the
limits of 2 rows and 3 people, and all messages in one thread exceed each of them, so that a cut can
take a participant away: without `Fits`, `SubjectLeavesNobodyOut` fails in this instance. The mails have one
subject and the owner's own messages none, so a thread the owner started is joined by name only, while
the proofs hold for any subjects. In `thread_list` the three messages have two at
the same `sent_at` and one earlier than the first, so that a tie is broken by id and a late mail is
older than the latest message; a page of one row puts a page boundary between any two threads.
`MaxChanges` counts patches, forwards and expiries, while mail and sends are bounded by the messages
there are. In `account`, four requests are two setups or two openings of a link beside what they need,
and lifetimes of one let each of them lapse at a boundary. In `retention`, a day after the first
arrivals a second one may name another object, both jobs outlive a lease, and records are due within
the time there is. In `inbox_view` and `settings` an event is an arrival or an act that sends a request;
all answers are free. Symmetry is used on names that no formula tells apart, in runs without liveness.
`CHECK_DEADLOCK FALSE`: a system whose finite supply of handlers or events is used up may stop.

**Fairness.** `FairSpec` of `OutboundSend` and `InboundForward` has weak fairness of a handler's own steps:
the runtime runs an invocation it has started. Nothing makes a request or redelivery arrive, and nothing
makes or prevents a crash, so `QueuedIsResumed` and `PendingIsResumed` begin with a handler that has met
the row, and allow for its interruption. `FairSpec` of `InboxView` has weak fairness of the answers: React
runs an effect, and a request is answered or fails; acts of the owner are not fair.

## What is proved

Every theorem is of the specification with all constants arbitrary, under the named assumptions of the
module (shapes and freshness of names). Each proof module states an inductive invariant `IInv`, proves
`InitIInv`, one lemma per part and step, and the theorem `Invariance`; the listed properties follow.

`OutboundSendProofs`. `AtMostOneProviderCall` is not inductive: that a queued row was never called for
has to be known, and that the handler between claim and call is the only one there. `IInv` consists of
`TypeOK`, the bookkeeping of a handler's request and thread, the ownership of a claim (a handler at
an owning step is the only one for its key, the row is `sending` and carries its request and thread),
and the counting of calls. `ImplementsContract` maps the row's state to a phase of `DeliveryContract`
and the provider's calls to hand-overs: under `IInv` every action is an action of the contract for one
key or leaves that key's phase alone (`PhaseWritten`, `PhaseKept`). A second invariant over the first says
what answers, messages, threads, raw objects and files rest on (`RecordsInvariance`); every other safety
property of the module follows from it.

`FormsProofs` has an invariant for each form. That of the composer, `ComposeInv`, rests on what it may still
change while a post of its draft is about: `Uploading`, `Keyed`, `Served` and `Drafted`. The mailbox is
in none of them: posts under a key may differ in it, and the server takes the first. With
`ImplementsContract` this gives at most one mail for a draft from the composer to the provider. A save of
the settings is right when it is sent and nothing changes it then, so `SettingsInv` is about the dialog: a
destination that counts as edited is the one entered (`Destined`), the draft of an open dialog is what the
page shows with what was entered put over it (`Based`), and only a submitted dialog keeps its draft when
the page changes (`Guarded`).

`InboundForwardProofs`. `ForwardedAtMostOnce` needs to know that a row which can still be claimed was
never sent, and that nobody else is between claim and call. `IInv` has `TypeOK`; `Attending` (a handler
past the capture has a row to attend to); `Claiming` (the claimed row says `sending` until its only
claimant is done); `Counting` (copies against forward states); `Capturing` (raw object before row before
acknowledgement); `Answering` (aliases before the reply addresses that name them); `Delivering` (a
reference names a copy that was taken); `Barring` (a handler that passed the re-check did so at a
moment when the mail was not barred). The owner's actions leave handlers, aliases and copies alone
(`OwnerFrame`), so that only types and `Barring` need a step for them.

`ThreadingProofs` begins with the lists of `headers.ts`. A recursive function adds up the bytes, but what is
needed of it is only that one id alone has its own size, and that two have the sum and a space; that a
trimmed list is the end of the list without repetitions (`KeptInOrder`, `UniqueEnds`, `NormalizedEnds`) needs
finite sets and their ranks (`Ranks`), not induction. From this, the ids a capture looks up are those its
mail names, nearest first and each once (`NamesOfChain`), and a reply's references end with the id of the
message it answers, if that one fits at all (`ReplyEnds`). The invariant says of a stored row which ids it
has (`RowsOK`), of a send what its target is (`SendsOK`), of a mail whom it can have answered (`LettersOK`),
and of a capture (`CaptureOK`) that the ids it has put behind it were not found among what the mailbox held
(`NamingOK`), that what it has read of a candidate is of that thread and, if the thread `Fits`, covers what was
there when it began (`ReadingOK`), and that its decision joins the nearest named message or leaves nobody
out of a thread that fits (`DecisionOK`). A thread only grows, so one that fits has fitted at every
earlier query (`FitsBefore`); this counts finite sets, for which mails and recipient rows are assumed to
be finitely many. No step takes back a row, a
header or an id that was looked for in time (`StepGrows`), so the captures that are not at a step keep their
parts (`OthersKeep`), and each action has one lemma for the capture that takes it. `AnswersAreHome` needs one
more fact, that a send cites the message it answers (`SendsCite`), and a hypothesis that the other theorems
do not: any one id fits the 900 bytes of a relayed reply's references. An id with characters outside
ASCII can have up to 1502 bytes, and a relay of an answer to it is sent without references
(`inbound.ts`, `headers.ts:93`); an answer to that relay then starts from its In-Reply-To alone.

`ThreadListingProofs`, for the rows. `IInv` is `TypeOK`, `Housed` (a stored message is in a stored thread) and, for
each thread, `True`: what its columns say of its messages, with the whole tables as parameters. A batch
touches the messages of one thread, so `OneThread` reduces a step to the thread it writes, where one
lemma per batch shows `True` again. The incremental rules need that comparing with the latest message is
comparing with all (`NewestOfMore`), and the recounting ones that a newest message exists (`LastExists`).

`ThreadListingProofs`, for the walk. Every step of `ThreadListing` is one of `ThreadAggregates` or leaves the
tables alone (`ListImplementsAggregates`), so `IInv` holds of it too and `last_message_at` is that of a
message. Hence a thread's place only rises unless a message expires, and a thread that stays has the place
it had. `WalkInv` says that a steady thread is shown or still ahead of the cursor (`Reaching`), that what a
search has picked covers the steady threads between the old cursor and the next (`Picking`), and that
everything shown is at or above the cursor (`Passed`). That a page is a beginning of what is behind the cursor
in the order of places, whatever ties there are, is proved by counting the rows above a row, for any size
of a page.

`SignInProofs`. A request past the gate has found an installation and none is replaced; a link is mailed
after it was inserted for the owner; a session belongs to a request past the consumption of its link; a
link that was called invalid is spent, or expired for every clock a later request can read. `SpentOnce`,
`Spaced`, `OwnerOnly` and `InvalidForGood` follow for any lifetimes, and `ImplementsSetOnce` is the refinement.

`InboxViewProofs`. What the pane shows, and what a read mark names, was displayed (`Reading`); a move knows
what it was for and an Undo is of the last move (`Moving`); the counts are awaited once (`Counting`); a
write that is served or still can be is the only one about for a conversation without an earlier one
(`Fresh`); no write of the last move can take effect unless its conversation is still checked (`Kept`).

`RetentionProofs`. `IInv` holds for any policy the code accepts: types; that the key of a message is that of
the day its invocation began, and that it is deleted exactly when its tombstone is completed (`Filed`); what
a send points at (`Conversing`). `EvidenceDetached` follows. `BytesFirst` and `DownloadsHold` need a second
invariant, `Shared`: an invocation under way read the clock today or yesterday (`Arrived`), every message
that names an object has a tombstone, due two days after its arrival or later, before somebody may
clear the object (`Retired`, `Retiring`), so that no invocation under way names it, and once cleared it stays
away, however long jobs outlive their leases (`Gone`, `Emptied`). It assumes that bytes are kept for two days
or more (`LongEnough`); see below.

Only model-checked: liveness (`QueuedIsResumed`, `PendingIsResumed`, `DetailSettles`), which is out of the
prover's reach, as is `ENABLED`. Every invariant that a run checks is a theorem. What `Bytes` computes of a
list of any length would need induction over data; no theorem needs it.

## Disagreements with documents and comments

Two runs end in a counterexample to a sentence of the repository; `PROJECT.json` quotes each. A forward
result is written without a look at the state it replaces. A second mail with a known Message-ID is not
projected.

The models also contain the following, which no run judges.

Mail:

- A send whose invocation stops after its claim stays `sending`; `docs/architecture.md:242-244` say it
  remains `unknown`. It is retried by neither, and the API reports both as needing confirmation.
- The completion of a send does not advance `workflow_state` (`mail-projection.ts:465`).
- A mailbox is created with the owner's destination before the requested one is written
  (`inbox.ts:92`); mail in between is forwarded to the owner.
- One mail of the owner to two reply aliases has one digest: the second relay is a duplicate
  (`inbound.ts:637`).
- Two related mails captured at once each make a thread. An answer to a new message that arrives before
  that message is recorded starts a thread of its own.
- With one raw day, the shared object of a mail may be cleared while a late delivery of the same bytes
  is still to be projected (`retention.ts:85`), and a delivery that took its day before midnight
  (`inbound.ts:98`) may put back bytes that were just cleared; two days are enough.
- In a thread with more than 100 messages, recipient rows or people, the queries for its participants
  (`mail-store.ts:201-218`) may miss somebody, and a mail that leaves him out may join it by the subject; one
  that leaves out nobody may start a thread of its own.
- A send reserved in a thread whose last message is deleted loses its thread and cannot be completed
  (`retention.ts:447`).

Accounts:

- The two statements of an installation status may straddle a setup and find it inconsistent.
- A verification that is served but not answered has consumed its link, while the page says "Your
  original link was not consumed" (`auth.verify.tsx:95`).

Client:

- The counts of a bulk move supersede a visible refresh, whose `finally` then leaves `refreshing` set
  (`inbox.tsx:361-380` against `179-181`).
- A refresh that was read before an archive commits undoes it in the view (`docs/visual-parity.md:29`).
- Undo after switching the mailbox adds a row of the other one.
- A write of a move that had been given up may take effect after a later move of the same conversation
  was undone; `MovesAreAccounted` leaves such a conversation out.
- After an error answer, a new message that is submitted again from another mailbox goes out under the
  same key (`new-message-dialog.tsx:77-86`). If the first post was reserved, it is answered with a conflict
  (`outbound-send.ts:142-149`) until the draft is changed or the mailbox selected again.
- After an error answer a draft the provider took stays editable under a new key
  (`docs/visual-parity.md:26-28`).
- The answer to a save of one mailbox that comes when the dialog was reopened for another puts the copied
  settings into its draft, and the next save writes them (`mailbox-settings-dialog.tsx:98-100` say
  otherwise). `whitelisted` is not taken from an answer, so an old checkbox may be written back. After a
  save, an old draft is kept and later changes made elsewhere are patched back; before one, unsaved edits
  are dropped when the page learns of such changes. `FirstSaveIsWhatWasEntered` is about first saves for
  these reasons.
- "No changes were applied" (`inbox.tsx:479`) is untrue when only the answer was lost. The alias dialog,
  closed while saving and reopened, is closed by the late success.

## Not modelled

Rendering, MIME, address and header syntax are text processing: their outcome is a choice where a model
uses it. Schemas of requests are validation, and the inputs of the models pass it. The setup wizard, the
spam dialog and the styles and layout of the client, the HTTP shape of the API, rate-limit windows,
API tokens, the encoding of cursors and of ids, deployment scripts, migrations and generated files are
left out; `PROJECT.json` says for each component what of it is modelled. A mail with 100 references and an
In-Reply-To that is not among them has 101 ids to look up, of which the code takes 100, so its oldest
reference is not looked up; `LookupLimit` allows for that, and the instance, where an In-Reply-To is among
the references if there are any, does not reach it.

What a next step could add: the pages of a list under bulk moves, API tokens and their scopes, the
retries of single upload parts, and the rate limiter's windows.
