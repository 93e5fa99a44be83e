-------------------------------- MODULE Compose --------------------------------
(***************************************************************************)
(* A composer of the web client (ReplyComposer, NewMessageDialog), its     *)
(* attachment uploads, the upload routes and the sends it posts.  What the *)
(* server does with a post is DeliveryContract, which OutboundSend is      *)
(* shown to implement.  A post can arrive after the composer gave it up,   *)
(* or never.  The dialog for new messages posts to the mailbox that is     *)
(* selected by then; a reply is the case in which that never changes.      *)
(***************************************************************************)
EXTENDS DeliveryContract, FiniteSets

CONSTANTS
  Inboxes,     \* mailboxes the owner can send from
  Files,       \* files the owner may attach
  Uploads,     \* upload sessions, rows of uploaded_files
  None,        \* nothing
  MaxEdits,    \* bound on the owner's changes to the draft
  MaxSwitches  \* bound on the owner's changes of the mailbox

ASSUME ComposeShape == None \notin Keys \cup Uploads \cup Inboxes /\ MaxEdits \in Nat /\ MaxSwitches \in Nat

VARIABLES
  requestOf,  \* what the row of outbound_sends with a key stands for
  taken,      \* the keys whose mail the provider took
  uploads,    \* how far an upload is, in R2 and D1
  completing, \* the uploads a completion request is being served for
  arriving,   \* posts on their way
  mailbox,    \* the selected mailbox, None for all of them
  switches,   \* how often it changed
  status,     \* what the composer shows
  key,        \* its idempotency key
  generated,  \* the keys it has generated
  draft,      \* the version of its content, 0 when empty
  edits,      \* the last version
  posted,     \* the post it waits for
  items,      \* where a file stands in the picker
  session,    \* the upload of a file
  posts       \* everything posted (history)

server   == <<phase, handedOver, requestOf, taken>>
storage  == <<uploads, completing>>
selected == <<mailbox, switches>>
composer == <<selected, status, key, generated, draft, edits, posted>>
picker   == <<items, session>>
allVars  == <<server, storage, arriving, composer, picker, posts>>

-------------------------------------------------------------------------------
Statuses == {"idle", "sending", "accepted", "uncertain", "error"}

\* Row and multipart upload made, parts stored, object assembled in R2, ETag in D1.
UploadStates == {"absent", "open", "filled", "stored", "complete"}

ItemStates == {"out", "creating", "putting", "completing", "ready", "failed"}

Posts == [key : Keys, mailbox : Inboxes, draft : 1..MaxEdits, ids : SUBSET Uploads]

Locked == status \in {"sending", "uncertain"}

Blocked == \E f \in Files : items[f] \notin {"out", "ready"}

Ids == {session[f] : f \in {g \in Files : items[g] = "ready"}}

ComposeInit ==
  /\ Init
  /\ requestOf = [k \in Keys |-> None]
  /\ taken = {}
  /\ uploads = [u \in Uploads |-> "absent"]
  /\ completing = {}
  /\ arriving = {}
  /\ mailbox \in Inboxes \cup {None} /\ switches = 0
  /\ status = "idle"
  /\ key \in Keys /\ generated = {key}
  /\ draft = 0 /\ edits = 0
  /\ posted = None
  /\ items = [f \in Files |-> "out"]
  /\ session = [f \in Files |-> None]
  /\ posts = {}

NewKey ==
  \E k \in Keys \ generated : key' = k /\ generated' = generated \cup {k}
KeepKey == UNCHANGED <<key, generated>>

-------------------------------------------------------------------------------
(* The draft *)

\* draftChanged that only starts over after an accepted draft.  No action uses it.
StartsOverAccepted == status = "accepted"
StartsOver == status \in {"accepted", "error"}

DraftChanged ==
  /\ ~Locked
  /\ edits < MaxEdits
  /\ edits' = edits + 1 /\ draft' = edits + 1
  /\ IF StartsOver THEN NewKey ELSE KeepKey
  /\ status' = "idle"
  /\ UNCHANGED <<selected, posted>>

Edit == DraftChanged /\ UNCHANGED <<server, storage, arriving, picker, posts>>

AddFile(f) ==
  /\ items[f] = "out"
  /\ items' = [items EXCEPT ![f] = "creating"]
  /\ DraftChanged
  /\ UNCHANGED <<server, storage, arriving, session, posts>>

\* The upload is aborted; what it has stored stays.
RemoveFile(f) ==
  /\ items[f] # "out"
  /\ items' = [items EXCEPT ![f] = "out"]
  /\ session' = [session EXCEPT ![f] = None]
  /\ DraftChanged
  /\ UNCHANGED <<server, storage, arriving, posts>>

\* A retry starts from a new session and is no change of the draft.
RetryFile(f) ==
  /\ ~Locked
  /\ items[f] = "failed"
  /\ items' = [items EXCEPT ![f] = "creating"]
  /\ session' = [session EXCEPT ![f] = None]
  /\ UNCHANGED <<server, storage, arriving, composer, posts>>

\* uploads.clear and the cleared fields.
Cleared ==
  /\ draft' = 0
  /\ items' = [f \in Files |-> "out"] /\ session' = [f \in Files |-> None]
  /\ UNCHANGED edits

\* Another mailbox, or none, is selected by a link or the history of the browser.  The
\* dialog stays mounted, and this is no change of its draft.
SwitchMailbox ==
  /\ switches < MaxSwitches /\ switches' = switches + 1
  /\ \E m \in (Inboxes \cup {None}) \ {mailbox} : mailbox' = m
  /\ UNCHANGED <<server, storage, arriving, status, key, generated, draft, edits, posted>>
  /\ UNCHANGED <<picker, posts>>

\* The composer is unmounted: another conversation, another folder, a reload.
Unmount ==
  /\ Cleared /\ NewKey
  /\ status' = "idle" /\ posted' = None
  /\ UNCHANGED <<server, storage, arriving, selected, posts>>

-------------------------------------------------------------------------------
(* uploadAttachment, and the routes it calls *)

Item(f, state) == items' = [items EXCEPT ![f] = state]

\* POST /v1/uploads.  An empty file is complete at once.
CreateSession(f) ==
  /\ items[f] = "creating"
  /\ \E u \in Uploads :
       /\ uploads[u] = "absent"
       /\ \/ uploads' = [uploads EXCEPT ![u] = "open"] /\ Item(f, "putting")
          \/ uploads' = [uploads EXCEPT ![u] = "complete"] /\ Item(f, "ready")
       /\ session' = [session EXCEPT ![f] = u]
  /\ UNCHANGED <<server, completing, arriving, composer, posts>>

\* Every part in turn, each tried three times; then POST .../complete.
PutParts(f) ==
  /\ items[f] = "putting"
  /\ uploads' = [uploads EXCEPT ![session[f]] = "filled"]
  /\ completing' = completing \cup {session[f]}
  /\ Item(f, "completing")
  /\ UNCHANGED <<server, arriving, composer, session, posts>>

\* HEAD found no object: the multipart upload is completed.
StoreObject(u) ==
  /\ u \in completing /\ uploads[u] = "filled"
  /\ uploads' = [uploads EXCEPT ![u] = "stored"]
  /\ UNCHANGED <<server, completing, arriving, composer, picker, posts>>

RecordObject(u) ==
  /\ u \in completing /\ uploads[u] = "stored"
  /\ uploads' = [uploads EXCEPT ![u] = "complete"]
  /\ UNCHANGED <<server, completing, arriving, composer, picker, posts>>

StopCompleting(u) ==
  /\ u \in completing
  /\ completing' = completing \ {u}
  /\ UNCHANGED <<server, uploads, arriving, composer, picker, posts>>

\* The completion called ready when the object is assembled.  No action uses it.
CompletedWhenStored(u) == uploads[u] \in {"stored", "complete"}
Completed(u) == uploads[u] = "complete"

FinishUpload(f) ==
  /\ items[f] = "completing" /\ Completed(session[f]) /\ session[f] \in completing
  /\ completing' = completing \ {session[f]}
  /\ Item(f, "ready")
  /\ UNCHANGED <<server, uploads, arriving, composer, session, posts>>

\* A request fails, or its answer is lost: an object may be open, stored or complete by then.
FailUpload(f) ==
  /\ items[f] \in {"creating", "putting", "completing"}
  /\ Item(f, "failed")
  /\ UNCHANGED <<server, storage, arriving, composer, session, posts>>

\* The session is made and its answer lost.
LoseSession(f) ==
  /\ items[f] = "creating"
  /\ \E u \in Uploads : uploads[u] = "absent" /\ uploads' = [uploads EXCEPT ![u] = "open"]
  /\ Item(f, "failed")
  /\ UNCHANGED <<server, completing, arriving, composer, session, posts>>

-------------------------------------------------------------------------------
(* The post and its answers *)

Submit ==
  LET post == [key |-> key, mailbox |-> mailbox, draft |-> draft, ids |-> Ids] IN
  /\ mailbox # None
  /\ ~Locked /\ ~Blocked /\ draft # 0
  /\ status' = "sending"
  /\ posted' = post
  /\ posts' = posts \cup {post}
  /\ arriving' = arriving \cup {post}
  /\ UNCHANGED <<server, storage, selected, key, generated, draft, edits, picker>>

\* The send is reserved under its key unless the key has one.
Arrive(p) ==
  /\ p \in arriving
  /\ arriving' = arriving \ {p}
  /\ IF phase[p.key] = "absent"
     THEN Accept(p.key) /\ requestOf' = [requestOf EXCEPT ![p.key] = p]
     ELSE UNCHANGED <<phase, handedOver, requestOf>>
  /\ UNCHANGED <<taken, storage, composer, picker, posts>>

Drop(p) ==
  /\ p \in arriving
  /\ arriving' = arriving \ {p}
  /\ UNCHANGED <<server, storage, composer, picker, posts>>

Deliver(k) ==
  /\ \/ (Refuse(k) \/ Claim(k)) /\ UNCHANGED taken
     \/ HandOver(k) /\ taken' \in {taken, taken \cup {k}}
     \/ Settle(k) /\ (phase'[k] = "sent" => k \in taken) /\ UNCHANGED taken
  /\ UNCHANGED <<requestOf, storage, arriving, composer, picker, posts>>

\* The state in the answer to the post; a send that is only accepted is not answered.
Answer(state) ==
  /\ status = "sending" /\ posted \notin arriving
  /\ phase[posted.key] = state
  /\ UNCHANGED <<server, storage, arriving, selected, posts>>

\* Sent, or still being sent.
AnswerAccepted ==
  /\ Answer("sent") \/ Answer("claimed")
  /\ requestOf[posted.key] = posted
  /\ status' = "accepted" /\ posted' = None
  /\ Cleared /\ NewKey

\* An unknown outcome treated like a failure: no action uses it.
UncertainAsFailed == status' = "error" /\ NewKey
Uncertain == status' = "uncertain" /\ KeepKey

AnswerUnknown ==
  /\ Answer("unknown")
  /\ requestOf[posted.key] = posted
  /\ Uncertain
  /\ UNCHANGED <<draft, edits, posted, picker>>

AnswerFailed ==
  /\ Answer("failed")
  /\ requestOf[posted.key] = posted
  /\ status' = "error" /\ posted' = None
  /\ NewKey
  /\ UNCHANGED <<draft, edits, picker>>

\* Anything else throws: a refusal, a conflict (the key is that of a send from another
\* mailbox), an error, a network failure.
AnswerError ==
  /\ status = "sending"
  /\ status' = "error"
  /\ KeepKey
  /\ UNCHANGED <<server, storage, arriving, selected, draft, edits, posted, picker, posts>>

-------------------------------------------------------------------------------
ComposeNext ==
  \/ Edit \/ SwitchMailbox \/ Unmount
  \/ \E f \in Files : AddFile(f) \/ RemoveFile(f) \/ RetryFile(f)
  \/ \E f \in Files : CreateSession(f) \/ PutParts(f) \/ FinishUpload(f)
  \/ \E f \in Files : FailUpload(f) \/ LoseSession(f)
  \/ \E u \in Uploads : StoreObject(u) \/ RecordObject(u) \/ StopCompleting(u)
  \/ Submit
  \/ \E p \in arriving : Arrive(p) \/ Drop(p)
  \/ \E k \in Keys : Deliver(k)
  \/ AnswerAccepted \/ AnswerUnknown \/ AnswerFailed \/ AnswerError

ComposeSpec == ComposeInit /\ [][ComposeNext]_allVars

-------------------------------------------------------------------------------
(* Properties *)

\* Every variable keeps the shape the components and the tables give it.
ComposeTypeOK ==
  /\ TypeOK
  /\ requestOf \in [Keys -> Posts \cup {None}]
  /\ taken \subseteq Keys
  /\ uploads \in [Uploads -> UploadStates] /\ completing \subseteq Uploads
  /\ arriving \subseteq posts /\ posts \subseteq Posts
  /\ mailbox \in Inboxes \cup {None} /\ switches \in 0..MaxSwitches
  /\ status \in Statuses
  /\ key \in generated /\ generated \subseteq Keys
  /\ draft \in 0..edits /\ edits \in 0..MaxEdits
  /\ posted \in posts \cup {None}
  /\ items \in [Files -> ItemStates]
  /\ session \in [Files -> Uploads \cup {None}]

\* Every post under a key carries one content and the same files: whatever changes a draft
\* that was posted gives it a new key.  Only the mailbox can differ, when another is selected
\* after an error; such a retry never sends anything but what the key was first posted with.
KeyNamesOneDraft ==
  \A p, q \in posts : p.key = q.key => p.draft = q.draft /\ p.ids = q.ids

\* However often an unchanged draft is submitted, whatever was lost on the way and
\* whatever the composer was told, the provider takes it at most once; also when another
\* mailbox was selected in between, so it never goes out from two of them.
DraftIsTakenOnce ==
  \A k, l \in taken : k # l => requestOf[k].draft # requestOf[l].draft

\* A post names only files whose objects are complete in R2 and recorded in D1, whichever
\* answers of their uploads were lost.
PostedFilesAreComplete == \A p \in posts : \A u \in p.ids : uploads[u] = "complete"
================================================================================
