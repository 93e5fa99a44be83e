------------------------------- MODULE FormsProofs -------------------------------
(***************************************************************************)
(* Proofs about the two forms of the web client that send what the owner   *)
(* put in: the composer (Compose) and the settings dialog (Settings).      *)
(*                                                                         *)
(* Compose, for any mailboxes, files, uploads and keys, and any number of  *)
(* edits and changes of the mailbox.  That a draft is taken once rests on  *)
(* what the composer may still change while a post of it is about.         *)
(* ComposeInv adds to the types that                                       *)
(*   - Uploading: files have sessions of their own, and one that is ready  *)
(*     is complete,                                                        *)
(*   - Keyed: a post under the current key has the content and the files   *)
(*     the composer shows now, whichever mailbox it went to, and they can  *)
(*     neither change nor be forgotten without a new key,                  *)
(*   - Served: a send stands for a post, and only a claimed one is taken,  *)
(*   - Drafted: of two posts of one draft, one has failed before it was    *)
(*     handed to the provider.                                             *)
(*                                                                         *)
(* Settings, for any mailboxes, destinations and preferences, and any      *)
(* number of refreshes, loads, saves and edits.  A save is right when it   *)
(* is sent, and nothing changes it then, so SettingsInv adds what the      *)
(* dialog holds:                                                           *)
(*   - Destined: a destination that counts as edited is the one entered,   *)
(*   - Based: until Save is pressed, the draft of an open dialog is what   *)
(*     the page shows now, with what was entered put over it,              *)
(*   - Guarded: only a dialog that was submitted keeps its draft when the  *)
(*     page changes.                                                       *)
(***************************************************************************)
EXTENDS Compose, Settings, TLAPS

-------------------------------------------------------------------------------
(* The composer *)

Attached(f) ==
  /\ items[f] \in {"putting", "completing", "ready"} => session[f] # None
  /\ session[f] # None => uploads[session[f]] # "absent"
  /\ items[f] = "putting" => uploads[session[f]] = "open"
  /\ items[f] = "ready" => uploads[session[f]] = "complete"

Uploading ==
  /\ \A f \in Files : Attached(f)
  /\ \A f, g \in Files : session[f] = session[g] /\ session[f] # None => f = g
  /\ PostedFilesAreComplete

Current(p) ==
  /\ p.key = key /\ p.draft = draft /\ p.ids = Ids
  /\ status \in {"sending", "uncertain", "error"}
  /\ ~Blocked

Keyed ==
  /\ \A p \in posts : p.key \in generated /\ (p.key = key => Current(p))
  /\ status = "sending" => posted \in posts /\ posted.key = key
  /\ KeyNamesOneDraft

Served ==
  /\ \A k \in Keys : phase[k] # "absent" => requestOf[k] \in posts /\ requestOf[k].key = k
  /\ \A k \in taken : phase[k] \notin {"absent", "accepted", "failed"}

Drafted ==
  /\ \A p \in posts : p.draft <= edits
  /\ \A p \in posts : p.key # key /\ p.draft = draft => phase[p.key] = "failed"
  /\ \A p, q \in posts :
       p.key # q.key /\ p.draft = q.draft => "failed" \in {phase[p.key], phase[q.key]}

ComposeInv == ComposeTypeOK /\ Uploading /\ Keyed /\ Served /\ Drafted

-------------------------------------------------------------------------------
LEMMA ComposeInvInit == ComposeInit => ComposeInv
<1> SUFFICES ASSUME ComposeInit PROVE ComposeInv
  OBVIOUS
<1>1. ComposeTypeOK
  BY ComposeShape DEF ComposeInit, Init, ComposeTypeOK, TypeOK, Phases, UploadStates, Statuses, ItemStates
<1>2. Uploading
  BY DEF ComposeInit, Uploading, Attached, PostedFilesAreComplete
<1>3. Keyed
  BY DEF ComposeInit, Keyed, KeyNamesOneDraft
<1>4. Served
  BY DEF ComposeInit, Init, Served
<1>5. Drafted
  BY DEF ComposeInit, Drafted
<1> QED
  BY <1>1, <1>2, <1>3, <1>4, <1>5 DEF ComposeInv

-------------------------------------------------------------------------------
(* What steps have in common *)

\* A file that is ready has a session.
LEMMA IdsAreUploads ==
  ASSUME ComposeTypeOK, Uploading
  PROVE  Ids \subseteq Uploads
BY DEF ComposeTypeOK, Uploading, Attached, Ids

\* A file that is being uploaded, or failed to be, keeps the draft from being posted.
LEMMA NothingIsCurrent ==
  ASSUME Keyed, NEW f \in Files, items[f] \notin {"out", "ready"}
  PROVE  \A p \in posts : p.key # key
BY DEF Keyed, Current, Blocked

\* A change of the draft: the new version is no post's, and the key is not either.
LEMMA DraftIsNew ==
  ASSUME ComposeTypeOK, Keyed, Drafted, DraftChanged
  PROVE  /\ \A p \in posts : p.key \in generated' /\ p.key # key' /\ p.draft # draft'
         /\ key' \in generated' /\ generated' \subseteq Keys
         /\ draft' \in 0..edits' /\ edits' \in 0..MaxEdits
         /\ status' = "idle"
<1>1. /\ edits \in 0..MaxEdits /\ draft \in 0..edits /\ MaxEdits \in Nat
      /\ status \in Statuses /\ posts \subseteq Posts
      /\ key \in generated /\ generated \subseteq Keys
  BY ComposeShape DEF ComposeTypeOK
<1>2. edits < MaxEdits /\ edits' = edits + 1 /\ draft' = edits + 1 /\ status' = "idle"
  BY DEF DraftChanged
<1>3. \A p \in posts : p.key \in generated' /\ p.key # key'
  <2>1. CASE StartsOver
    BY <2>1, <1>1 DEF DraftChanged, NewKey, Keyed
  <2>2. CASE ~StartsOver
    <3>1. status = "idle"
      BY <2>2, <1>1 DEF DraftChanged, StartsOver, Locked, Statuses
    <3> QED
      BY <2>2, <3>1 DEF DraftChanged, KeepKey, Keyed, Current
  <2> QED
    BY <2>1, <2>2
<1>4. key' \in generated' /\ generated' \subseteq Keys
  BY <1>1 DEF DraftChanged, NewKey, KeepKey
<1>5. \A p \in posts : p.draft # draft'
  BY <1>1, <1>2 DEF Drafted, Posts
<1>6. draft' \in 0..edits' /\ edits' \in 0..MaxEdits
  BY <1>1, <1>2
<1> QED
  BY <1>2, <1>3, <1>4, <1>5, <1>6

\* A new key is nobody's.
LEMMA KeyIsNew ==
  ASSUME ComposeTypeOK, Keyed, NewKey
  PROVE  /\ \A p \in posts : p.key \in generated' /\ p.key # key'
         /\ key' \in generated' /\ generated' \subseteq Keys
BY DEF ComposeTypeOK, Keyed, NewKey

-------------------------------------------------------------------------------
(* Types *)

\* Everything keeps its shape.
LEMMA TypeStep == ComposeTypeOK /\ Uploading /\ Keyed /\ Drafted /\ ComposeNext => ComposeTypeOK'
<1> SUFFICES ASSUME ComposeTypeOK, Uploading, Keyed, Drafted, ComposeNext PROVE ComposeTypeOK'
  OBVIOUS
<1> USE DEF ComposeTypeOK
<1>1. ASSUME Edit \/ (\E f \in Files : AddFile(f) \/ RemoveFile(f)) PROVE ComposeTypeOK'
  <2>1. DraftChanged /\ UNCHANGED <<selected, posted>>
    BY <1>1 DEF Edit, AddFile, RemoveFile, DraftChanged
  <2>2. /\ items' \in [Files -> ItemStates] /\ session' \in [Files -> Uploads \cup {None}]
        /\ UNCHANGED <<phase, handedOver, requestOf, taken, uploads, completing, arriving, posts>>
    BY <1>1 DEF Edit, AddFile, RemoveFile, ItemStates, server, storage, picker
  <2> QED
    BY <2>1, <2>2, DraftIsNew DEF TypeOK, Statuses, selected
<1>2. ASSUME Unmount \/ AnswerAccepted \/ AnswerFailed PROVE ComposeTypeOK'
  <2>1. NewKey /\ status' \in Statuses /\ posted' = None /\ draft' \in {0, draft} /\ edits' = edits
        /\ UNCHANGED selected
    BY <1>2 DEF Unmount, AnswerAccepted, AnswerFailed, Answer, Cleared, Statuses
  <2>2. /\ items' \in [Files -> ItemStates] /\ session' \in [Files -> Uploads \cup {None}]
        /\ UNCHANGED <<phase, handedOver, requestOf, taken, uploads, completing, arriving, posts>>
    BY <1>2 DEF Unmount, AnswerAccepted, AnswerFailed, Answer, Cleared, ItemStates, server, storage, picker
  <2> QED
    BY <2>1, <2>2, KeyIsNew DEF TypeOK, selected
<1>3. ASSUME AnswerUnknown \/ AnswerError PROVE ComposeTypeOK'
  BY <1>3 DEF AnswerUnknown, AnswerError, Answer, Uncertain, KeepKey, Statuses, server, storage, selected, picker, TypeOK
<1>4. ASSUME NEW f \in Files, RetryFile(f) \/ PutParts(f) \/ FinishUpload(f) \/ FailUpload(f)
      PROVE ComposeTypeOK'
  <2>1. /\ items' \in [Files -> ItemStates] /\ session' \in [Files -> Uploads \cup {None}]
    BY <1>4 DEF RetryFile, PutParts, FinishUpload, FailUpload, Item, ItemStates, picker
  <2>2. uploads' \in [Uploads -> UploadStates] /\ completing' \subseteq Uploads
    BY <1>4 DEF RetryFile, PutParts, FinishUpload, FailUpload, storage, UploadStates, Uploading, Attached
  <2>3. UNCHANGED <<server, arriving, composer, posts>>
    BY <1>4 DEF RetryFile, PutParts, FinishUpload, FailUpload
  <2> QED
    BY <2>1, <2>2, <2>3 DEF server, composer, selected, TypeOK
<1>5. ASSUME NEW f \in Files, CreateSession(f) \/ LoseSession(f) PROVE ComposeTypeOK'
  <2>1. /\ items' \in [Files -> ItemStates] /\ session' \in [Files -> Uploads \cup {None}]
    BY <1>5 DEF CreateSession, LoseSession, Item, ItemStates
  <2>2. uploads' \in [Uploads -> UploadStates]
    BY <1>5 DEF CreateSession, LoseSession, UploadStates
  <2>3. UNCHANGED <<server, completing, arriving, composer, posts>>
    BY <1>5 DEF CreateSession, LoseSession
  <2> QED
    BY <2>1, <2>2, <2>3 DEF server, composer, selected, TypeOK
<1>6. ASSUME NEW u \in Uploads, StoreObject(u) \/ RecordObject(u) \/ StopCompleting(u) PROVE ComposeTypeOK'
  <2>1. uploads' \in [Uploads -> UploadStates] /\ completing' \subseteq Uploads
    BY <1>6 DEF StoreObject, RecordObject, StopCompleting, UploadStates
  <2>2. UNCHANGED <<server, arriving, composer, picker, posts>>
    BY <1>6 DEF StoreObject, RecordObject, StopCompleting
  <2> QED
    BY <2>1, <2>2 DEF server, composer, selected, picker, TypeOK
<1>7. ASSUME Submit PROVE ComposeTypeOK'
  <2> DEFINE post == [key |-> key, mailbox |-> mailbox, draft |-> draft, ids |-> Ids]
  <2>1. key \in Keys /\ mailbox \in Inboxes /\ draft \in 1..MaxEdits /\ Ids \subseteq Uploads
    BY <1>7, IdsAreUploads, ComposeShape DEF Submit
  <2>2. post \in Posts
    BY <2>1 DEF Posts
  <2>3. posts' = posts \cup {post} /\ arriving' = arriving \cup {post} /\ posted' = post
        /\ status' \in Statuses
        /\ UNCHANGED <<server, storage, selected, key, generated, draft, edits, picker>>
    BY <1>7 DEF Submit, Statuses
  <2> HIDE DEF post
  <2> QED
    BY <2>2, <2>3 DEF server, storage, selected, picker, TypeOK
<1>8. ASSUME NEW p \in arriving, Arrive(p) \/ Drop(p) PROVE ComposeTypeOK'
  <2>1. p \in Posts /\ p.key \in Keys
    BY DEF Posts
  <2>2. TypeOK' /\ requestOf' \in [Keys -> Posts \cup {None}]
    BY <1>8, <2>1 DEF Arrive, Drop, server, TypeOK, Accept, Advance, Phases
  <2>3. arriving' \subseteq arriving /\ UNCHANGED <<taken, storage, composer, picker, posts>>
    BY <1>8 DEF Arrive, Drop, server
  <2> QED
    BY <2>2, <2>3 DEF storage, composer, selected, picker
<1>9. ASSUME NEW k \in Keys, Deliver(k) PROVE ComposeTypeOK'
  <2>1. TypeOK'
    BY <1>9 DEF Deliver, Refuse, Claim, HandOver, Settle, Advance, TypeOK, Phases
  <2>2. taken' \subseteq Keys /\ UNCHANGED <<requestOf, storage, arriving, composer, picker, posts>>
    BY <1>9 DEF Deliver
  <2> QED
    BY <2>1, <2>2 DEF storage, composer, selected, picker
<1>10. ASSUME SwitchMailbox PROVE ComposeTypeOK'
  BY <1>10, ComposeShape DEF SwitchMailbox, server, storage, picker, TypeOK
<1> QED
  BY <1>1, <1>2, <1>3, <1>4, <1>5, <1>6, <1>7, <1>8, <1>9, <1>10 DEF ComposeNext

-------------------------------------------------------------------------------
(* Uploads *)

\* Files keep their sessions apart, and what is complete stays so.
LEMMA UploadingStep == ComposeTypeOK /\ Uploading /\ ComposeNext => Uploading'
<1> SUFFICES ASSUME ComposeTypeOK, Uploading, ComposeNext PROVE Uploading'
  OBVIOUS
<1>1. /\ items \in [Files -> ItemStates] /\ session \in [Files -> Uploads \cup {None}]
      /\ uploads \in [Uploads -> UploadStates] /\ None \notin Uploads
      /\ posts \subseteq Posts
  BY ComposeShape DEF ComposeTypeOK
<1>2. /\ \A f \in Files : Attached(f)
      /\ \A f, g \in Files : session[f] = session[g] /\ session[f] # None => f = g
      /\ \A p \in posts : \A u \in p.ids : u \in Uploads /\ uploads[u] = "complete"
  BY <1>1 DEF Uploading, PostedFilesAreComplete, Posts
<1> USE DEF Uploading, Attached, PostedFilesAreComplete
<1>3. ASSUME NEW f \in Files, AddFile(f) \/ RemoveFile(f) \/ RetryFile(f) PROVE Uploading'
  <2>1. UNCHANGED <<uploads, posts>>
    BY <1>3 DEF AddFile, RemoveFile, RetryFile, storage
  <2>2. \A g \in Files \ {f} : items'[g] = items[g] /\ session'[g] = session[g]
    BY <1>1, <1>3 DEF AddFile, RemoveFile, RetryFile
  <2>3. items'[f] \in {"creating", "out"} /\ session'[f] \in {session[f], None}
    BY <1>1, <1>3 DEF AddFile, RemoveFile, RetryFile
  <2> QED
    BY <1>2, <2>1, <2>2, <2>3
<1>4. ASSUME Unmount \/ AnswerAccepted PROVE Uploading'
  <2>1. UNCHANGED <<uploads, posts>> /\ \A f \in Files : items'[f] = "out" /\ session'[f] = None
    BY <1>4 DEF Unmount, AnswerAccepted, Answer, Cleared, storage
  <2> QED
    BY <1>2, <2>1
<1>5. ASSUME Edit \/ SwitchMailbox \/ AnswerUnknown \/ AnswerFailed \/ AnswerError PROVE Uploading'
  <2>1. UNCHANGED <<uploads, posts, items, session>>
    BY <1>5 DEF Edit, SwitchMailbox, AnswerUnknown, AnswerFailed, AnswerError, Answer, storage, picker
  <2> QED
    BY <1>2, <2>1
<1>6. ASSUME (\E p \in arriving : Arrive(p) \/ Drop(p)) \/ (\E k \in Keys : Deliver(k)) PROVE Uploading'
  <2>1. UNCHANGED <<uploads, posts, items, session>>
    BY <1>6 DEF Arrive, Drop, Deliver, storage, picker
  <2> QED
    BY <1>2, <2>1
<1>7. ASSUME NEW f \in Files, CreateSession(f) PROVE Uploading'
  <2>1. PICK u \in Uploads : /\ uploads[u] = "absent" /\ session' = [session EXCEPT ![f] = u]
                           /\ \/ uploads' = [uploads EXCEPT ![u] = "open"] /\ Item(f, "putting")
                              \/ uploads' = [uploads EXCEPT ![u] = "complete"] /\ Item(f, "ready")
    BY <1>7 DEF CreateSession
  <2>2. /\ \A v \in Uploads \ {u} : uploads'[v] = uploads[v]
        /\ uploads'[u] \in {"open", "complete"}
        /\ \/ items'[f] = "putting" /\ uploads'[u] = "open"
           \/ items'[f] = "ready" /\ uploads'[u] = "complete"
        /\ \A g \in Files \ {f} : items'[g] = items[g] /\ session'[g] = session[g]
        /\ session'[f] = u /\ posts' = posts
    <3>1. posts' = posts /\ session'[f] = u /\ \A g \in Files \ {f} : session'[g] = session[g]
      BY <1>1, <1>7, <2>1 DEF CreateSession
    <3>2. CASE uploads' = [uploads EXCEPT ![u] = "open"] /\ Item(f, "putting")
      BY <1>1, <2>1, <3>1, <3>2 DEF Item
    <3>3. CASE uploads' = [uploads EXCEPT ![u] = "complete"] /\ Item(f, "ready")
      BY <1>1, <2>1, <3>1, <3>3 DEF Item
    <3> QED
      BY <2>1, <3>2, <3>3
  <2>3. \A g \in Files : session[g] # u
    BY <1>1, <1>2, <2>1
  <2> QED
    BY <1>1, <1>2, <2>1, <2>2, <2>3
<1>8. ASSUME NEW f \in Files, LoseSession(f) PROVE Uploading'
  <2>1. PICK u \in Uploads : uploads[u] = "absent" /\ uploads' = [uploads EXCEPT ![u] = "open"]
    BY <1>8 DEF LoseSession
  <2>2. /\ \A v \in Uploads \ {u} : uploads'[v] = uploads[v]
        /\ items'[f] = "failed" /\ \A g \in Files \ {f} : items'[g] = items[g]
        /\ UNCHANGED <<session, posts>>
    BY <1>1, <1>8, <2>1 DEF Item, LoseSession
  <2>3. \A g \in Files : session[g] # u
    BY <1>1, <1>2, <2>1
  <2> QED
    BY <1>1, <1>2, <2>1, <2>2, <2>3
<1>9. ASSUME NEW f \in Files, PutParts(f) PROVE Uploading'
  <2> DEFINE u == session[f]
  <2>1. u \in Uploads /\ uploads[u] = "open"
    BY <1>1, <1>2, <1>9 DEF PutParts
  <2>2. /\ \A v \in Uploads \ {u} : uploads'[v] = uploads[v]
        /\ uploads'[u] = "filled"
        /\ items'[f] = "completing" /\ \A g \in Files \ {f} : items'[g] = items[g]
        /\ UNCHANGED <<session, posts>>
    BY <1>1, <1>9, <2>1 DEF Item, PutParts
  <2> QED
    BY <1>1, <1>2, <2>1, <2>2
<1>10. ASSUME NEW f \in Files, FinishUpload(f) \/ FailUpload(f) PROVE Uploading'
  <2>1. /\ \/ items'[f] = "failed"
           \/ items'[f] = "ready" /\ uploads[session[f]] = "complete" /\ session[f] # None
        /\ \A g \in Files \ {f} : items'[g] = items[g]
        /\ UNCHANGED <<uploads, session, posts>>
    <3>1. CASE FinishUpload(f)
      BY <1>1, <1>2, <3>1 DEF FinishUpload, Item, Completed
    <3>2. CASE FailUpload(f)
      BY <1>1, <3>2 DEF FailUpload, Item, storage
    <3> QED
      BY <1>10, <3>1, <3>2
  <2> QED
    BY <1>2, <2>1
<1>11. ASSUME NEW u \in Uploads, StoreObject(u) \/ RecordObject(u) \/ StopCompleting(u) PROVE Uploading'
  <2>1. /\ \A v \in Uploads \ {u} : uploads'[v] = uploads[v]
        /\ \/ uploads'[u] = uploads[u]
           \/ uploads[u] \in {"filled", "stored"} /\ uploads'[u] # "absent"
        /\ UNCHANGED <<items, session, posts>>
    <3>1. CASE StoreObject(u) \/ RecordObject(u)
      BY <1>1, <3>1 DEF StoreObject, RecordObject, picker
    <3>2. CASE StopCompleting(u)
      BY <3>2 DEF StopCompleting, picker
    <3> QED
      BY <1>11, <3>1, <3>2
  <2> QED
    BY <1>1, <1>2, <2>1
<1>12. ASSUME Submit PROVE Uploading'
  <2>1. /\ posts' = posts \cup {[key |-> key, mailbox |-> mailbox, draft |-> draft, ids |-> Ids]}
        /\ UNCHANGED <<uploads, items, session>>
    BY <1>12 DEF Submit, storage, picker
  <2>2. \A u \in Ids : uploads[u] = "complete"
    BY <1>2 DEF Ids
  <2> QED
    BY <1>2, <2>1, <2>2
<1> QED
  BY <1>3, <1>4, <1>5, <1>6, <1>7, <1>8, <1>9, <1>10, <1>11, <1>12 DEF ComposeNext

-------------------------------------------------------------------------------
(* The key *)

\* A post under the current key stays what is shown.
LEMMA KeyedStep == ComposeTypeOK /\ Keyed /\ Drafted /\ ComposeNext => Keyed'
<1> SUFFICES ASSUME ComposeTypeOK, Keyed, Drafted, ComposeNext PROVE Keyed'
  OBVIOUS
<1>1. ASSUME \A p \in posts : p.key \in generated' /\ p.key # key', posts' = posts, status' # "sending"
      PROVE  Keyed'
  BY <1>1 DEF Keyed, KeyNamesOneDraft
<1>2. ASSUME Edit \/ (\E f \in Files : AddFile(f) \/ RemoveFile(f)) PROVE Keyed'
  BY <1>1, <1>2, DraftIsNew DEF Edit, AddFile, RemoveFile
<1>3. ASSUME Unmount \/ AnswerAccepted \/ AnswerFailed PROVE Keyed'
  BY <1>1, <1>3, KeyIsNew DEF Unmount, AnswerAccepted, AnswerFailed, Answer
<1>4. ASSUME AnswerUnknown \/ AnswerError PROVE Keyed'
  <2>1. /\ UNCHANGED <<posts, key, generated, draft, items, session>>
        /\ status' \in {"uncertain", "error"}
    BY <1>4 DEF AnswerUnknown, AnswerError, Answer, Uncertain, KeepKey, picker
  <2> QED
    BY <2>1 DEF Keyed, Current, KeyNamesOneDraft, Ids, Blocked
<1>5. ASSUME NEW f \in Files,
             RetryFile(f) \/ CreateSession(f) \/ PutParts(f) \/ FinishUpload(f) \/ FailUpload(f) \/ LoseSession(f)
      PROVE  Keyed'
  <2>1. items[f] \notin {"out", "ready"}
    BY <1>5 DEF RetryFile, CreateSession, PutParts, FinishUpload, FailUpload, LoseSession
  <2>2. \A p \in posts : p.key # key
    BY <2>1, NothingIsCurrent
  <2>3. UNCHANGED <<composer, posts>>
    BY <1>5 DEF RetryFile, CreateSession, PutParts, FinishUpload, FailUpload, LoseSession
  <2> QED
    BY <2>2, <2>3 DEF Keyed, KeyNamesOneDraft, composer
<1>6. ASSUME UNCHANGED <<status, key, generated, draft, posted, picker, posts>> PROVE Keyed'
  BY <1>6 DEF Keyed, Current, KeyNamesOneDraft, Ids, Blocked, picker
<1>7. ASSUME Submit PROVE Keyed'
  <2> DEFINE post == [key |-> key, mailbox |-> mailbox, draft |-> draft, ids |-> Ids]
  <2>1. /\ posts' = posts \cup {post} /\ posted' = post /\ status' = "sending"
        /\ UNCHANGED <<key, generated, draft, items, session>> /\ ~Blocked
    BY <1>7 DEF Submit, picker
  <2>2. post.key = key /\ post.draft = draft /\ post.ids = Ids /\ key \in generated
    BY DEF ComposeTypeOK
  <2> HIDE DEF post
  <2>3. \A p \in posts : p.key = key => p.draft = draft /\ p.ids = Ids
    BY DEF Keyed, Current
  <2>4. Ids' = Ids /\ ~Blocked'
    BY <2>1 DEF Ids, Blocked
  <2>5. \A p \in posts' : p.key \in generated' /\ (p.key = key' => p.draft = draft' /\ p.ids = Ids')
    BY <2>1, <2>2, <2>3, <2>4 DEF Keyed
  <2>6. KeyNamesOneDraft'
    BY <2>1, <2>2, <2>3 DEF Keyed, KeyNamesOneDraft
  <2> QED
    BY <2>1, <2>2, <2>4, <2>5, <2>6 DEF Keyed, Current
<1>8. ASSUME SwitchMailbox \/ (\E u \in Uploads : StoreObject(u) \/ RecordObject(u) \/ StopCompleting(u)) \/
             (\E p \in arriving : Arrive(p) \/ Drop(p)) \/ (\E k \in Keys : Deliver(k))
      PROVE  Keyed'
  BY <1>6, <1>8 DEF SwitchMailbox, StoreObject, RecordObject, StopCompleting, Arrive, Drop, Deliver, composer
<1> QED
  BY <1>2, <1>3, <1>4, <1>5, <1>7, <1>8 DEF ComposeNext

-------------------------------------------------------------------------------
(* The sends *)

\* What a phase may become, and that a message is taken only once it is claimed.
LEMMA PhasesMove ==
  ASSUME ComposeTypeOK, NEW k \in Keys, Deliver(k)
  PROVE  /\ \A l \in Keys \ {k} : phase'[l] = phase[l]
         /\ phase'[k] = "failed" => phase[k] \in {"accepted", "failed"}
         /\ phase[k] = "failed" => phase'[k] = "failed"
         /\ phase[k] = "absent" <=> phase'[k] = "absent"
         /\ phase'[k] = "accepted" => phase[k] = "accepted"
         /\ taken' = taken \/ (taken' = taken \cup {k} /\ phase'[k] = "claimed")
<1>1. phase \in [Keys -> Phases]
  BY DEF ComposeTypeOK, TypeOK
<1>2. CASE (Refuse(k) \/ Claim(k)) /\ UNCHANGED taken
  BY <1>1, <1>2 DEF Refuse, Claim, Advance
<1>3. CASE HandOver(k) /\ taken' \in {taken, taken \cup {k}}
  BY <1>1, <1>3 DEF HandOver
<1>4. CASE Settle(k) /\ UNCHANGED taken
  BY <1>1, <1>4 DEF Settle, Advance
<1> QED
  BY <1>2, <1>3, <1>4 DEF Deliver

\* A post that arrives first under its key is what the send stands for.
LEMMA ArrivalAccepts ==
  ASSUME ComposeTypeOK, NEW p \in arriving, Arrive(p)
  PROVE  /\ p \in posts /\ p.key \in Keys /\ posts' = posts /\ taken' = taken
         /\ \A l \in Keys \ {p.key} : phase'[l] = phase[l] /\ requestOf'[l] = requestOf[l]
         /\ \/ phase[p.key] = "absent" /\ phase'[p.key] = "accepted" /\ requestOf'[p.key] = p
            \/ phase[p.key] # "absent" /\ phase' = phase /\ requestOf' = requestOf
<1>1. p \in posts /\ p.key \in Keys /\ phase \in [Keys -> Phases] /\ requestOf \in [Keys -> Posts \cup {None}]
  BY DEF ComposeTypeOK, TypeOK, Posts
<1>2. posts' = posts /\ taken' = taken
  BY DEF Arrive
<1>3. CASE phase[p.key] = "absent"
  BY <1>1, <1>2, <1>3 DEF Arrive, Accept, Advance
<1>4. CASE phase[p.key] # "absent"
  BY <1>1, <1>2, <1>4 DEF Arrive
<1> QED
  BY <1>3, <1>4

LEMMA ServedStep == ComposeTypeOK /\ Served /\ ComposeNext => Served'
<1> SUFFICES ASSUME ComposeTypeOK, Served, ComposeNext PROVE Served'
  OBVIOUS
<1>1. ASSUME UNCHANGED server, posts \subseteq posts' PROVE Served'
  BY <1>1 DEF Served, server
<1>2. ASSUME NEW p \in arriving, Arrive(p) PROVE Served'
  BY <1>2, ArrivalAccepts DEF Served, ComposeTypeOK
<1>3. ASSUME NEW k \in Keys, Deliver(k) PROVE Served'
  <2>1. requestOf' = requestOf /\ posts' = posts
    BY <1>3 DEF Deliver
  <2> QED
    BY <1>3, <2>1, PhasesMove DEF Served, ComposeTypeOK
<1>4. ASSUME NEW f \in Files, AddFile(f) \/ RemoveFile(f) \/ RetryFile(f) PROVE Served'
  BY <1>1, <1>4 DEF AddFile, RemoveFile, RetryFile
<1>5. ASSUME NEW f \in Files,
             CreateSession(f) \/ PutParts(f) \/ FinishUpload(f) \/ FailUpload(f) \/ LoseSession(f)
      PROVE  Served'
  BY <1>1, <1>5 DEF CreateSession, PutParts, FinishUpload, FailUpload, LoseSession
<1>6. ASSUME NEW u \in Uploads, StoreObject(u) \/ RecordObject(u) \/ StopCompleting(u) PROVE Served'
  BY <1>1, <1>6 DEF StoreObject, RecordObject, StopCompleting
<1>7. ASSUME Edit \/ SwitchMailbox \/ Unmount \/ Submit \/ (\E p \in arriving : Drop(p)) PROVE Served'
  BY <1>1, <1>7 DEF Edit, SwitchMailbox, Unmount, Submit, Drop
<1>8. ASSUME AnswerAccepted \/ AnswerUnknown \/ AnswerFailed \/ AnswerError PROVE Served'
  BY <1>1, <1>8 DEF AnswerAccepted, AnswerUnknown, AnswerFailed, AnswerError, Answer
<1> QED
  BY <1>2, <1>3, <1>4, <1>5, <1>6, <1>7, <1>8 DEF ComposeNext

-------------------------------------------------------------------------------
(* The drafts *)

\* A send that failed stays failed.
LEMMA FailedIsFinal ==
  ASSUME ComposeTypeOK, ComposeNext, NEW k \in Keys, phase[k] = "failed"
  PROVE  phase'[k] = "failed"
<1>1. ASSUME NEW p \in arriving, Arrive(p) PROVE phase'[k] = "failed"
  BY <1>1, ArrivalAccepts
<1>2. ASSUME NEW l \in Keys, Deliver(l) PROVE phase'[k] = "failed"
  BY <1>2, PhasesMove
<1>3. ASSUME UNCHANGED server PROVE phase'[k] = "failed"
  BY <1>3 DEF server
<1>4. ASSUME NEW f \in Files, AddFile(f) \/ RemoveFile(f) \/ RetryFile(f) PROVE UNCHANGED server
  BY <1>4 DEF AddFile, RemoveFile, RetryFile
<1>5. ASSUME NEW f \in Files,
             CreateSession(f) \/ PutParts(f) \/ FinishUpload(f) \/ FailUpload(f) \/ LoseSession(f)
      PROVE  UNCHANGED server
  BY <1>5 DEF CreateSession, PutParts, FinishUpload, FailUpload, LoseSession
<1>6. ASSUME NEW u \in Uploads, StoreObject(u) \/ RecordObject(u) \/ StopCompleting(u)
      PROVE  UNCHANGED server
  BY <1>6 DEF StoreObject, RecordObject, StopCompleting
<1>7. ASSUME Edit \/ SwitchMailbox \/ Unmount \/ Submit \/ (\E p \in arriving : Drop(p))
      PROVE  UNCHANGED server
  BY <1>7 DEF Edit, SwitchMailbox, Unmount, Submit, Drop
<1>8. ASSUME AnswerAccepted \/ AnswerUnknown \/ AnswerFailed \/ AnswerError PROVE UNCHANGED server
  BY <1>8 DEF AnswerAccepted, AnswerUnknown, AnswerFailed, AnswerError, Answer
<1> QED
  BY <1>1, <1>2, <1>3, <1>4, <1>5, <1>6, <1>7, <1>8 DEF ComposeNext

\* A draft is posted under another key only when the one before has failed.
LEMMA DraftedStep == ComposeTypeOK /\ Keyed /\ Drafted /\ ComposeNext => Drafted'
<1> SUFFICES ASSUME ComposeTypeOK, Keyed, Drafted, ComposeNext PROVE Drafted'
  OBVIOUS
<1>1. /\ \A p \in posts : p.key \in Keys /\ p.draft \in 1..MaxEdits
      /\ \A k \in Keys : phase[k] = "failed" => phase'[k] = "failed"
      /\ edits \in 0..MaxEdits /\ draft \in 0..edits /\ MaxEdits \in Nat
  BY ComposeShape, FailedIsFinal DEF ComposeTypeOK, Posts
<1>2. ASSUME posts' = posts, edits' = edits,
             \A p \in posts : p.key # key' /\ p.draft = draft' => phase'[p.key] = "failed"
      PROVE  Drafted'
  BY <1>1, <1>2 DEF Drafted
<1>3. ASSUME Edit \/ (\E f \in Files : AddFile(f) \/ RemoveFile(f)) PROVE Drafted'
  <2>1. posts' = posts /\ DraftChanged
    BY <1>3 DEF Edit, AddFile, RemoveFile
  <2>2. edits' = edits + 1
    BY <2>1 DEF DraftChanged
  <2> QED
    BY <1>1, <2>1, <2>2, DraftIsNew DEF Drafted
<1>4. ASSUME Unmount \/ AnswerAccepted PROVE Drafted'
  BY <1>1, <1>2, <1>4 DEF Unmount, AnswerAccepted, Answer, Cleared
<1>5. ASSUME AnswerFailed PROVE Drafted'
  <2>1. /\ posted.key = key /\ phase[key] = "failed"
        /\ posts' = posts /\ edits' = edits /\ draft' = draft /\ phase' = phase
    BY <1>5 DEF AnswerFailed, Answer, Keyed, server
  <2> QED
    BY <1>2, <2>1 DEF Drafted
<1>6. ASSUME UNCHANGED <<posts, edits, draft, key>> PROVE Drafted'
  BY <1>1, <1>2, <1>6 DEF Drafted
<1>7. ASSUME SwitchMailbox \/ AnswerUnknown \/ AnswerError PROVE Drafted'
  BY <1>6, <1>7 DEF SwitchMailbox, AnswerUnknown, AnswerError, Answer, Uncertain, KeepKey
<1>8. ASSUME NEW f \in Files,
             RetryFile(f) \/ CreateSession(f) \/ PutParts(f) \/ FinishUpload(f) \/ FailUpload(f) \/ LoseSession(f)
      PROVE  Drafted'
  BY <1>6, <1>8 DEF RetryFile, CreateSession, PutParts, FinishUpload, FailUpload, LoseSession, composer
<1>9. ASSUME (\E u \in Uploads : StoreObject(u) \/ RecordObject(u) \/ StopCompleting(u)) \/
             (\E p \in arriving : Arrive(p) \/ Drop(p)) \/ (\E k \in Keys : Deliver(k))
      PROVE  Drafted'
  BY <1>6, <1>9 DEF StoreObject, RecordObject, StopCompleting, Arrive, Drop, Deliver, composer
<1>10. ASSUME Submit PROVE Drafted'
  <2> DEFINE post == [key |-> key, mailbox |-> mailbox, draft |-> draft, ids |-> Ids]
  <2>1. posts' = posts \cup {post} /\ UNCHANGED <<edits, draft, key, phase>>
    BY <1>10 DEF Submit, server
  <2>2. post.key = key /\ post.draft = draft
    OBVIOUS
  <2> HIDE DEF post
  <2> QED
    BY <1>1, <2>1, <2>2 DEF Drafted
<1> QED
  BY <1>3, <1>4, <1>5, <1>7, <1>8, <1>9, <1>10 DEF ComposeNext

-------------------------------------------------------------------------------
LEMMA ComposeInvStep == ComposeInv /\ [ComposeNext]_allVars => ComposeInv'
<1> SUFFICES ASSUME ComposeInv, [ComposeNext]_allVars PROVE ComposeInv'
  OBVIOUS
<1>1. CASE ComposeNext
  BY <1>1, TypeStep, UploadingStep, KeyedStep, ServedStep, DraftedStep DEF ComposeInv
<1>2. CASE UNCHANGED allVars
  <2> USE <1>2 DEF allVars, server, storage, composer, selected, picker
  <2>1. ComposeTypeOK'
    BY DEF ComposeInv, ComposeTypeOK, TypeOK
  <2>2. Uploading'
    BY DEF ComposeInv, Uploading, Attached, PostedFilesAreComplete
  <2>3. Keyed'
    BY DEF ComposeInv, Keyed, Current, KeyNamesOneDraft, Ids, Blocked
  <2>4. Served'
    BY DEF ComposeInv, Served
  <2>5. Drafted'
    BY DEF ComposeInv, Drafted
  <2> QED
    BY <2>1, <2>2, <2>3, <2>4, <2>5 DEF ComposeInv
<1> QED
  BY <1>1, <1>2

-------------------------------------------------------------------------------
\* ComposeInv holds in every state.
THEOREM ComposeInvariance == ComposeSpec => []ComposeInv
<1> QED
  BY ComposeInvInit, ComposeInvStep, PTL DEF ComposeSpec

\* Composer, network, uploads and sends have their types.
THEOREM ComposeTypeCorrect == ComposeSpec => []ComposeTypeOK
<1>1. ComposeInv => ComposeTypeOK
  BY DEF ComposeInv
<1> QED
  BY <1>1, ComposeInvariance, PTL

\* Whatever a composer does, whatever answers it gets and whichever mailboxes are selected
\* meanwhile, the posts under one key carry one content and the same files.
THEOREM OneDraftPerKey == ComposeSpec => []KeyNamesOneDraft
<1>1. ComposeInv => KeyNamesOneDraft
  BY DEF ComposeInv, Keyed
<1> QED
  BY <1>1, ComposeInvariance, PTL

\* The provider takes an unchanged draft at most once, however often it is submitted, and
\* from whichever mailboxes.
THEOREM TakenOnce == ComposeSpec => []DraftIsTakenOnce
<1>1. ComposeInv => DraftIsTakenOnce
  <2> SUFFICES ASSUME ComposeInv, NEW k \in taken, NEW l \in taken, k # l
               PROVE  requestOf[k].draft # requestOf[l].draft
    BY DEF DraftIsTakenOnce
  <2>1. k \in Keys /\ l \in Keys
    BY DEF ComposeInv, ComposeTypeOK
  <2>2. /\ requestOf[k] \in posts /\ requestOf[k].key = k /\ phase[k] # "failed"
        /\ requestOf[l] \in posts /\ requestOf[l].key = l /\ phase[l] # "failed"
    BY <2>1 DEF ComposeInv, Served
  <2> QED
    BY <2>2 DEF ComposeInv, Drafted
<1> QED
  BY <1>1, ComposeInvariance, PTL

\* The files a post names are complete, whichever answers of their uploads were lost.
THEOREM PostedFilesComplete == ComposeSpec => []PostedFilesAreComplete
<1>1. ComposeInv => PostedFilesAreComplete
  BY DEF ComposeInv, Uploading
<1> QED
  BY <1>1, ComposeInvariance, PTL

-------------------------------------------------------------------------------
(* The settings dialog *)

Data    == UNION {Values(f) : f \in Fields}
Drafts  == [Fields -> Data]
Entries == UNION {[entered -> Data] : entered \in SUBSET Fields}
Shown   == [row : Drafts, blocked : BOOLEAN]
Pages   == [Mailboxes -> Shown]

Dialogs == [mailbox : Mailboxes \cup {Null}, draft : Drafts, edited : BOOLEAN, preserve : BOOLEAN,
            entered : Entries, unsubmitted : BOOLEAN]
Saves   == [mailbox : Mailboxes, patch : Entries, step : {"sent", "written", "read"},
            got : Shown \cup {Null}, entered : Entries, first : BOOLEAN]
Loads   == [step : {"none", "asked", "read"}, got : Pages \cup {Null}]

SaveOK  == saving # Null => saving \in Saves /\ (saving.step = "read" => saving.got \in Shown)
LoadsOK == loads \in [Lanes -> Loads] /\ \A l \in Lanes : loads[l].step = "read" => loads[l].got \in Pages
StrayOK == \A s \in strays : s.mailbox \in Mailboxes /\ s.patch \in Entries
MakeOK  == creating # Null => creating.mailbox \in Mailboxes /\ creating.forwardTo \in Data

SettingsTypeOK ==
  /\ rows \in [Mailboxes -> Drafts]
  /\ view \in Pages
  /\ open \in Mailboxes \cup {Null}
  /\ dialog \in Dialogs
  /\ SaveOK /\ LoadsOK /\ StrayOK /\ MakeOK

Destined(d) ==
  d.edited => "forwardTo" \in DOMAIN d.entered /\ d.draft["forwardTo"] = d.entered["forwardTo"]

Based(d, m, shown) ==
  m # Null /\ d.unsubmitted =>
    \A f \in Fields :
      d.draft[f] = IF f \in DOMAIN d.entered THEN d.entered[f] ELSE shown[m].row[f]

Guarded(d) == d.preserve => ~d.unsubmitted

Sound(d, m, shown) == d \in Dialogs /\ Destined(d) /\ Based(d, m, shown) /\ Guarded(d)

Sent == ForwardingIsAsked /\ FirstSaveIsWhatWasEntered

SettingsInv == SettingsTypeOK /\ Sound(dialog, open, view) /\ Sent

-------------------------------------------------------------------------------
(* What the dialog takes over *)

\* The values of the fields are data.
LEMMA DataHolds ==
  /\ Destinations \cup {Null} \subseteq Data /\ BOOLEAN \subseteq Data
  /\ \A f \in Fields : Values(f) \subseteq Data
  /\ Rows \subseteq Drafts
<1>1. \A f \in Fields : Values(f) \subseteq Data
  BY DEF Data
<1>2. Values("forwardTo") = Destinations \cup {Null} /\ Values("whitelisted") = BOOLEAN
  BY DEF Values
<1>3. Rows \subseteq Drafts
  BY DEF Rows, Drafts, Data
<1> QED
  BY <1>1, <1>2, <1>3 DEF Fields

\* A fresh draft is what is shown, and nothing was entered.
LEMMA FreshIsSound ==
  ASSUME NEW m \in Mailboxes, NEW shown \in Pages
  PROVE  Sound(Fresh(m, shown), m, shown)
<1> DEFINE d == Fresh(m, shown)
<1>1. d.entered = [f \in {} |-> Null] /\ d.draft = shown[m].row /\ ~d.edited /\ ~d.preserve
  BY DEF Fresh
<1>2. shown[m].row \in Drafts
  BY DEF Pages, Shown
<1>3. DOMAIN d.entered = {}
  BY <1>1
<1>4. d.entered \in [{} -> Data]
  BY <1>1
<1>5. d.entered \in Entries
  BY <1>4 DEF Entries
<1>6. d \in Dialogs
  BY <1>2, <1>5 DEF Fresh, Dialogs
<1> QED
  BY <1>1, <1>3, <1>6 DEF Sound, Destined, Based, Guarded

\* The effect leaves a sound dialog sound, over what is shown then.
LEMMA EffectIsSound ==
  ASSUME SettingsTypeOK, NEW d, NEW m \in Mailboxes \cup {Null}, NEW shown \in Pages, Sound(d, open, view)
  PROVE  Sound(Effect(d, m, shown), m, shown)
<1>1. CASE m = open /\ (m # Null => shown[m].row = view[m].row)
  BY <1>1 DEF Effect, Sound, Based
<1>2. CASE ~(m = open /\ (m # Null => shown[m].row = view[m].row)) /\ m = Null
  <2> DEFINE e == [d EXCEPT !.preserve = FALSE]
  <2>1. Effect(d, m, shown) = e
    BY <1>2 DEF Effect
  <2>2. /\ e \in Dialogs /\ ~e.preserve /\ e.edited = d.edited
        /\ e.entered = d.entered /\ e.draft = d.draft
    BY DEF Sound, Dialogs
  <2> QED
    BY <1>2, <2>1, <2>2 DEF Sound, Destined, Based, Guarded
<1>3. CASE ~(m = open /\ (m # Null => shown[m].row = view[m].row)) /\ m # Null
  <2>1. CASE d.mailbox = m /\ d.preserve
    BY <1>3, <2>1 DEF Effect, Sound, Based, Guarded
  <2>2. CASE ~(d.mailbox = m /\ d.preserve)
    BY <1>3, <2>2, FreshIsSound DEF Effect
  <2> QED
    BY <2>1, <2>2
<1> QED
  BY <1>1, <1>2, <1>3

-------------------------------------------------------------------------------
\* What the API returns of a mailbox can be shown.
LEMMA ListedIsShown ==
  ASSUME rows \in [Mailboxes -> Drafts], NEW m \in Mailboxes
  PROVE  Listed(m) \in Shown
<1> DEFINE b == m \in rules
<1>1. b \in BOOLEAN /\ rows[m] \in Drafts
  OBVIOUS
<1>2. Listed(m) = [row |-> rows[m], blocked |-> b]
  BY DEF Listed
<1> HIDE DEF b
<1> QED
  BY <1>1, <1>2 DEF Shown

\* A patch of some fields leaves a row a row.
LEMMA PatchedIsDraft ==
  ASSUME NEW row \in Drafts, NEW patch \in Entries
  PROVE  Patched(row, patch) \in Drafts
BY DEF Patched, Drafts, Entries

\* A draft with some fields of its own put in a patch.
LEMMA EntriesOf ==
  ASSUME NEW D \in SUBSET Fields, NEW e \in [D -> Data]
  PROVE  e \in Entries /\ DOMAIN e = D
BY DEF Entries

-------------------------------------------------------------------------------
LEMMA SettingsInvInit == SettingsInit => SettingsInv
<1> SUFFICES ASSUME SettingsInit PROVE SettingsInv
  OBVIOUS
<1>1. rows \in [Mailboxes -> Drafts]
  BY InitialShape, DataHolds DEF SettingsInit
<1>2. view \in Pages
  BY <1>1, ListedIsShown DEF SettingsInit, Pages
<1> DEFINE m == CHOOSE n \in Mailboxes : TRUE
<1>3. m \in Mailboxes
  BY SettingsShape
<1>4. Sound(Fresh(m, view), m, view)
  BY <1>2, <1>3, FreshIsSound
<1>5. Sound(dialog, open, view)
  <2> DEFINE d == Fresh(m, view)
  <2>1. dialog = [d EXCEPT !.mailbox = Null] /\ open = Null
    BY DEF SettingsInit
  <2> HIDE DEF d, m
  <2> QED
    BY <1>4, <2>1 DEF Sound, Dialogs, Destined, Based, Guarded, d
<1>6. LoadsOK
  <2>1. NoLoad \in Loads /\ NoLoad.step # "read"
    BY DEF NoLoad, Loads
  <2> QED
    BY <2>1 DEF SettingsInit, LoadsOK
<1>7. SaveOK /\ StrayOK /\ MakeOK /\ Sent /\ open = Null
  BY DEF SettingsInit, SaveOK, StrayOK, MakeOK, Sent, ForwardingIsAsked, FirstSaveIsWhatWasEntered
<1> QED
  BY <1>1, <1>2, <1>5, <1>6, <1>7 DEF SettingsInv, SettingsTypeOK, Sound

-------------------------------------------------------------------------------
(* The dialog *)

\* Opening the dialog, for a mailbox, and closing it.
LEMMA TurnHolds ==
  ASSUME SettingsInv, NEW m \in Mailboxes \cup {Null}, Turn(m)
  PROVE  SettingsInv'
<1>1. Sound(Effect(dialog, m, view), m, view)
  BY EffectIsSound DEF SettingsInv, SettingsTypeOK
<1>2. Sound(dialog, open, view)'
  BY <1>1 DEF Turn, Sound, Based, Destined, Guarded, Dialogs
<1>3. SettingsTypeOK'
  BY <1>2 DEF SettingsInv, SettingsTypeOK, Turn, Sound, SaveOK, LoadsOK, StrayOK, MakeOK, database
<1>4. Sent'
  BY DEF SettingsInv, Sent, ForwardingIsAsked, FirstSaveIsWhatWasEntered, Turn
<1> QED
  BY <1>2, <1>3, <1>4 DEF SettingsInv

\* A change of the draft that leaves it sound.
LEMMA ChangeHolds ==
  ASSUME SettingsInv, NEW d, Changes(d), Sound(d, open, view)
  PROVE  SettingsInv'
<1>1. Sound(dialog, open, view)'
  BY DEF Changes, Sound, Based, Destined, Guarded, Dialogs
<1>2. SettingsTypeOK'
  BY <1>1 DEF SettingsInv, SettingsTypeOK, Changes, Sound, SaveOK, LoadsOK, StrayOK, MakeOK, database
<1>3. Sent'
  BY DEF SettingsInv, Sent, ForwardingIsAsked, FirstSaveIsWhatWasEntered, Changes
<1> QED
  BY <1>1, <1>2, <1>3 DEF SettingsInv

\* What the owner puts in is in the draft and among what was entered.
LEMMA EditHolds ==
  ASSUME SettingsInv, NEW f \in Fields, NEW value \in Values(f), EditField(f, value)
  PROVE  SettingsInv'
<1> DEFINE E == [g \in DOMAIN dialog.entered \cup {f} |-> IF g = f THEN value ELSE dialog.entered[g]]
           D == [dialog.draft EXCEPT ![f] = value]
           d == [dialog EXCEPT !.draft = D, !.edited = @ \/ f = "forwardTo", !.entered = E]
<1>1. value \in Data
  BY DataHolds
<1>2. /\ dialog \in Dialogs /\ Destined(dialog) /\ Based(dialog, open, view) /\ Guarded(dialog)
  BY DEF SettingsInv, Sound
<1>3. dialog.draft \in Drafts /\ dialog.entered \in Entries /\ dialog.edited \in BOOLEAN
  BY <1>2 DEF Dialogs
<1>4. D \in Drafts /\ \A g \in Fields : D[g] = IF g = f THEN value ELSE dialog.draft[g]
  BY <1>1, <1>3 DEF Drafts
<1>5. /\ E \in Entries /\ DOMAIN E = DOMAIN dialog.entered \cup {f}
      /\ \A g \in DOMAIN E : E[g] = IF g = f THEN value ELSE dialog.entered[g]
  <2>1. /\ DOMAIN dialog.entered \cup {f} \in SUBSET Fields
        /\ \A g \in DOMAIN dialog.entered : dialog.entered[g] \in Data
    BY <1>3 DEF Entries
  <2>2. E \in [DOMAIN dialog.entered \cup {f} -> Data]
    BY <1>1, <2>1
  <2> QED
    BY <2>1, <2>2, EntriesOf
<1>6. Changes(d)
  BY DEF EditField
<1> HIDE DEF D, E
<1>7. /\ d \in Dialogs /\ d.draft = D /\ d.entered = E
      /\ d.preserve = dialog.preserve /\ d.unsubmitted = dialog.unsubmitted
      /\ d.edited = (dialog.edited \/ f = "forwardTo")
  <2> DEFINE b == dialog.edited \/ f = "forwardTo"
  <2>1. b \in BOOLEAN
    OBVIOUS
  <2>2. d = [dialog EXCEPT !.draft = D, !.edited = b, !.entered = E]
    BY <1>2 DEF Dialogs
  <2>3. d.edited = b
    BY <1>2, <2>2 DEF Dialogs
  <2> HIDE DEF b, d
  <2>4. d \in Dialogs
    BY <1>2, <1>4, <1>5, <2>1, <2>2 DEF Dialogs
  <2>5. /\ d.draft = D /\ d.entered = E
        /\ d.preserve = dialog.preserve /\ d.unsubmitted = dialog.unsubmitted
    BY <1>2, <2>2 DEF Dialogs
  <2> QED
    BY <2>3, <2>4, <2>5 DEF b
<1> HIDE DEF d
<1>8. Destined(d)
  BY <1>2, <1>4, <1>5, <1>7 DEF Destined, Fields
<1>9. Based(d, open, view)
  BY <1>2, <1>4, <1>5, <1>7 DEF Based
<1>10. Guarded(d)
  BY <1>2, <1>7 DEF Guarded
<1> QED
  BY <1>6, <1>7, <1>8, <1>9, <1>10, ChangeHolds DEF Sound

\* Keeping the current destination takes the entry back.
LEMMA KeepHolds ==
  ASSUME SettingsInv, KeepCurrent
  PROVE  SettingsInv'
<1> DEFINE E == [g \in DOMAIN dialog.entered \ {"forwardTo"} |-> dialog.entered[g]]
           D == [dialog.draft EXCEPT !["forwardTo"] = view[open].row["forwardTo"]]
           d == [dialog EXCEPT !.draft = D, !.edited = FALSE, !.entered = E]
<1>1. open \in Mailboxes /\ view[open].row \in Drafts
  BY DEF KeepCurrent, Editing, SettingsInv, SettingsTypeOK, Pages, Shown
<1>2. /\ dialog \in Dialogs /\ Based(dialog, open, view) /\ Guarded(dialog)
  BY DEF SettingsInv, Sound
<1>3. dialog.draft \in Drafts /\ dialog.entered \in Entries
  BY <1>2 DEF Dialogs
<1>4. /\ D \in Drafts
      /\ \A g \in Fields : D[g] = IF g = "forwardTo" THEN view[open].row[g] ELSE dialog.draft[g]
  BY <1>1, <1>3 DEF Drafts, Fields
<1>5. /\ E \in Entries /\ DOMAIN E = DOMAIN dialog.entered \ {"forwardTo"}
      /\ \A g \in DOMAIN E : E[g] = dialog.entered[g]
  <2>1. /\ DOMAIN dialog.entered \ {"forwardTo"} \in SUBSET Fields
        /\ \A g \in DOMAIN dialog.entered : dialog.entered[g] \in Data
    BY <1>3 DEF Entries
  <2>2. E \in [DOMAIN dialog.entered \ {"forwardTo"} -> Data]
    BY <2>1
  <2> QED
    BY <2>1, <2>2, EntriesOf
<1>6. Changes(d)
  BY DEF KeepCurrent
<1> HIDE DEF D, E
<1>7. /\ d \in Dialogs /\ d.draft = D /\ d.entered = E /\ d.edited = FALSE
      /\ d.preserve = dialog.preserve /\ d.unsubmitted = dialog.unsubmitted
  BY <1>2, <1>4, <1>5 DEF Dialogs
<1> HIDE DEF d
<1>8. Destined(d)
  BY <1>7 DEF Destined
<1>9. Based(d, open, view)
  BY <1>1, <1>2, <1>4, <1>5, <1>7 DEF Based
<1>10. Guarded(d)
  BY <1>2, <1>7 DEF Guarded
<1> QED
  BY <1>6, <1>7, <1>8, <1>9, <1>10, ChangeHolds DEF Sound

\* Save sends what differs: a destination only as it was entered, and before the draft
\* was submitted or answered nothing but entries.
LEMMA SubmitHolds ==
  ASSUME SettingsInv, SubmitSettings
  PROVE  SettingsInv'
<1> DEFINE P == [f \in Differing |-> dialog.draft[f]]
           s == [mailbox |-> open, patch |-> P, step |-> "sent", got |-> Null,
                 entered |-> dialog.entered, first |-> dialog.unsubmitted]
           d == [dialog EXCEPT !.preserve = TRUE, !.unsubmitted = FALSE]
<1>1. /\ dialog \in Dialogs /\ Destined(dialog) /\ Based(dialog, open, view)
  BY DEF SettingsInv, Sound
<1>2. open \in Mailboxes /\ open # Null
  BY DEF SubmitSettings, Editing, SettingsInv, SettingsTypeOK
<1>3. dialog.draft \in Drafts /\ dialog.entered \in Entries /\ dialog.unsubmitted \in BOOLEAN
  BY <1>1 DEF Dialogs
<1>4. Differing \in SUBSET Fields
  BY DEF Differing, Fields
<1>5. P \in Entries /\ DOMAIN P = Differing /\ \A f \in Differing : P[f] = dialog.draft[f]
  <2>1. P \in [Differing -> Data]
    BY <1>3, <1>4 DEF Drafts
  <2> QED
    BY <1>4, <2>1, EntriesOf
<1>6. "forwardTo" \in Differing =>
        "forwardTo" \in DOMAIN dialog.entered /\ P["forwardTo"] = dialog.entered["forwardTo"]
  BY <1>1, <1>5 DEF Differing, Destined
<1>7. dialog.unsubmitted =>
        \A f \in Differing : f \in DOMAIN dialog.entered /\ P[f] = dialog.entered[f]
  <2> SUFFICES ASSUME dialog.unsubmitted, NEW f \in Differing
               PROVE  f \in DOMAIN dialog.entered /\ P[f] = dialog.entered[f]
    OBVIOUS
  <2>1. CASE f = "forwardTo"
    BY <1>6, <2>1
  <2>2. CASE f # "forwardTo"
    <3>1. f \in Fields /\ dialog.draft[f] # view[open].row[f]
      BY <1>4, <2>2 DEF Differing
    <3> QED
      BY <1>1, <1>2, <1>5, <3>1 DEF Based
  <2> QED
    BY <2>1, <2>2
<1>8. saving' = Null \/ saving' = s
  BY DEF SubmitSettings
<1> HIDE DEF P
<1>9. s \in Saves
  BY <1>2, <1>3, <1>5 DEF Saves
<1>10. SaveOK'
  BY <1>8, <1>9 DEF SaveOK
<1>11. Sent'
  BY <1>5, <1>6, <1>7, <1>8 DEF Sent, ForwardingIsAsked, FirstSaveIsWhatWasEntered
<1>12. dialog' = d /\ UNCHANGED <<rows, view, loads, open, strays, creating>>
  BY DEF SubmitSettings, database
<1>13. /\ d \in Dialogs /\ d.edited = dialog.edited /\ d.entered = dialog.entered
       /\ d.draft = dialog.draft /\ ~d.unsubmitted
  BY <1>1 DEF Dialogs
<1> HIDE DEF d, s
<1>14. Sound(d, open, view)
  BY <1>1, <1>13 DEF Sound, Destined, Based, Guarded
<1>15. Sound(dialog, open, view)'
  BY <1>12, <1>14 DEF Sound, Destined, Based, Guarded, Dialogs
<1>16. SettingsTypeOK'
  BY <1>10, <1>12, <1>15 DEF SettingsInv, SettingsTypeOK, Sound, LoadsOK, StrayOK, MakeOK
<1> QED
  BY <1>11, <1>15, <1>16 DEF SettingsInv

-------------------------------------------------------------------------------
(* A save *)

\* A save that goes on keeps its patch and what it remembers.
LEMMA SaveGoesOn ==
  ASSUME SettingsInv, NEW r, saving # Null,
         saving' = r, r \in Saves, r.step = "read" => r.got \in Shown,
         r.patch = saving.patch, r.entered = saving.entered, r.first = saving.first,
         rows' \in [Mailboxes -> Drafts],
         UNCHANGED <<view, loads, open, dialog, strays, creating>>
  PROVE  SettingsInv'
<1>1. Sound(dialog, open, view)'
  BY DEF SettingsInv, Sound, Destined, Based, Guarded, Dialogs
<1>2. SettingsTypeOK'
  BY <1>1 DEF SettingsInv, SettingsTypeOK, Sound, SaveOK, LoadsOK, StrayOK, MakeOK
<1>3. Sent'
  BY DEF SettingsInv, Sent, ForwardingIsAsked, FirstSaveIsWhatWasEntered
<1> QED
  BY <1>1, <1>2, <1>3 DEF SettingsInv

LEMMA ServeSaveHolds == SettingsInv /\ ServeSave => SettingsInv'
<1> SUFFICES ASSUME SettingsInv, ServeSave PROVE SettingsInv'
  OBVIOUS
<1> DEFINE r == [saving EXCEPT !.step = "written"]
<1>1. saving # Null /\ saving \in Saves
  BY DEF ServeSave, SettingsInv, SettingsTypeOK, SaveOK
<1>2. /\ r \in Saves /\ r.step = "written"
      /\ r.patch = saving.patch /\ r.entered = saving.entered /\ r.first = saving.first
  BY <1>1 DEF Saves
<1>3. saving.mailbox \in Mailboxes /\ saving.patch \in Entries
  BY <1>1 DEF Saves
<1>4. rows' \in [Mailboxes -> Drafts]
  BY <1>3, PatchedIsDraft DEF ServeSave, SettingsInv, SettingsTypeOK
<1>5. saving' = r /\ UNCHANGED <<view, loads, open, dialog, strays, creating>>
  BY DEF ServeSave
<1> HIDE DEF r
<1> QED
  BY <1>1, <1>2, <1>4, <1>5, SaveGoesOn

LEMMA ReadSavedHolds == SettingsInv /\ ReadSaved => SettingsInv'
<1> SUFFICES ASSUME SettingsInv, ReadSaved PROVE SettingsInv'
  OBVIOUS
<1> DEFINE got == Listed(saving.mailbox)
           r   == [saving EXCEPT !.step = "read", !.got = got]
<1>1. saving # Null /\ saving \in Saves
  BY DEF ReadSaved, SettingsInv, SettingsTypeOK, SaveOK
<1>2. got \in Shown
  BY <1>1, ListedIsShown DEF SettingsInv, SettingsTypeOK, Saves
<1> HIDE DEF got
<1>3. /\ r \in Saves /\ r.got = got
      /\ r.patch = saving.patch /\ r.entered = saving.entered /\ r.first = saving.first
  BY <1>1, <1>2 DEF Saves
<1>4. rows' \in [Mailboxes -> Drafts]
  BY DEF ReadSaved, SettingsInv, SettingsTypeOK, database
<1>5. saving' = r /\ UNCHANGED <<view, loads, open, dialog, strays, creating>>
  BY DEF ReadSaved, got
<1> HIDE DEF r
<1> QED
  BY <1>1, <1>2, <1>3, <1>4, <1>5, SaveGoesOn

\* The answer ends the save, and what the dialog takes from it was not entered.
LEMMA AnswerSaveHolds == SettingsInv /\ AnswerSave => SettingsInv'
<1> SUFFICES ASSUME SettingsInv, AnswerSave PROVE SettingsInv'
  OBVIOUS
<1> DEFINE saved == saving.got.row
           a     == Answered(dialog, saved)
<1>1. saving \in Saves /\ saving.got \in Shown
  BY DEF AnswerSave, SettingsInv, SettingsTypeOK, SaveOK
<1>2. saving.mailbox \in Mailboxes /\ saved \in Drafts
  BY <1>1 DEF Saves, Shown
<1>3. view' \in Pages
  BY <1>1, <1>2 DEF AnswerSave, SettingsInv, SettingsTypeOK, Pages
<1>4. dialog \in Dialogs
  BY DEF SettingsInv, SettingsTypeOK
<1> HIDE DEF saved
<1>5. Sound(a, open, view)
  <2> DEFINE D == [[dialog.draft EXCEPT !["forwardTo"] = saved["forwardTo"]]
                     EXCEPT !["preference"] = saved["preference"]]
             e == [dialog EXCEPT !.draft = D, !.edited = FALSE, !.unsubmitted = FALSE]
  <2>1. dialog.draft \in Drafts
    BY <1>4 DEF Dialogs
  <2>2. D \in Drafts
    BY <1>2, <2>1 DEF Drafts, Fields
  <2>3. a = e
    BY <1>4 DEF Answered, Dialogs
  <2> HIDE DEF a, D
  <2>4. e \in Dialogs /\ ~e.edited /\ ~e.unsubmitted
    BY <1>4, <2>2 DEF Dialogs
  <2> QED
    BY <2>3, <2>4 DEF Sound, Destined, Based, Guarded
<1> HIDE DEF a
<1>6. Sound(Effect(a, open, view'), open, view')
  BY <1>3, <1>5, EffectIsSound DEF SettingsInv, SettingsTypeOK
<1>7. /\ dialog' = Effect(a, open, view') /\ saving' = Null
      /\ UNCHANGED <<rows, loads, open, strays, creating>>
  BY DEF AnswerSave, database, a, saved
<1>8. Sound(dialog, open, view)'
  BY <1>6, <1>7 DEF Sound, Destined, Based, Guarded, Dialogs
<1>9. SettingsTypeOK'
  BY <1>3, <1>7, <1>8 DEF SettingsInv, SettingsTypeOK, Sound, SaveOK, LoadsOK, StrayOK, MakeOK
<1>10. Sent'
  BY <1>7 DEF Sent, ForwardingIsAsked, FirstSaveIsWhatWasEntered
<1> QED
  BY <1>8, <1>9, <1>10 DEF SettingsInv

\* A save given up leaves its patch on the way.
LEMMA FailSaveHolds == SettingsInv /\ FailSave => SettingsInv'
<1> SUFFICES ASSUME SettingsInv, FailSave PROVE SettingsInv'
  OBVIOUS
<1>1. saving.mailbox \in Mailboxes /\ saving.patch \in Entries
  BY DEF FailSave, SettingsInv, SettingsTypeOK, SaveOK, Saves
<1>2. StrayOK'
  <2> DEFINE s == [mailbox |-> saving.mailbox, patch |-> saving.patch]
  <2>1. s.mailbox \in Mailboxes /\ s.patch \in Entries
    BY <1>1
  <2>2. strays' = strays \cup {s} \/ strays' = strays
    BY DEF FailSave
  <2> HIDE DEF s
  <2> QED
    BY <2>1, <2>2 DEF SettingsInv, SettingsTypeOK, StrayOK
<1>3. saving' = Null /\ UNCHANGED <<rows, view, loads, open, dialog, creating>>
  BY DEF FailSave, database
<1>4. Sound(dialog, open, view)'
  BY <1>3 DEF SettingsInv, Sound, Destined, Based, Guarded, Dialogs
<1>5. SettingsTypeOK'
  BY <1>2, <1>3, <1>4 DEF SettingsInv, SettingsTypeOK, Sound, SaveOK, LoadsOK, MakeOK
<1>6. Sent'
  BY <1>3 DEF Sent, ForwardingIsAsked, FirstSaveIsWhatWasEntered
<1> QED
  BY <1>4, <1>5, <1>6 DEF SettingsInv

-------------------------------------------------------------------------------
(* What the dialog has no part in *)

\* Writes to the database, rules and creations, and loads that are started or given up.
LEMMA ElsewhereHolds ==
  ASSUME SettingsInv, UNCHANGED <<view, open, dialog, saving>>,
         rows' \in [Mailboxes -> Drafts], LoadsOK', StrayOK', MakeOK'
  PROVE  SettingsInv'
<1>1. Sound(dialog, open, view)'
  BY DEF SettingsInv, Sound, Destined, Based, Guarded, Dialogs
<1>2. SettingsTypeOK'
  BY <1>1 DEF SettingsInv, SettingsTypeOK, Sound, SaveOK
<1>3. Sent'
  BY DEF SettingsInv, Sent, ForwardingIsAsked, FirstSaveIsWhatWasEntered
<1> QED
  BY <1>1, <1>2, <1>3 DEF SettingsInv

\* A load that was asked for, or is over, has nothing to show.
LEMMA LoadHolds ==
  ASSUME LoadsOK, NEW lane \in Lanes, NEW value \in {Asked, NoLoad},
         loads' = [loads EXCEPT ![lane] = value]
  PROVE  LoadsOK'
<1>1. value \in Loads /\ value.step # "read"
  BY DEF Asked, NoLoad, Loads
<1> QED
  BY <1>1 DEF LoadsOK

\* A field of a row set to a value of its own.
LEMMA FieldHolds ==
  ASSUME NEW row \in Drafts, NEW f \in Fields, NEW value \in Data
  PROVE  [row EXCEPT ![f] = value] \in Drafts
BY DEF Drafts

LEMMA WritesHold ==
  ASSUME SettingsInv, NEW m \in Mailboxes,
         ServeStray \/ ConfigureInbox \/ EndCreation \/ CreateInbox(m) \/ WriteElsewhere(m)
  PROVE  SettingsInv'
<1>1. rows \in [Mailboxes -> Drafts] /\ LoadsOK /\ StrayOK /\ MakeOK
  BY DEF SettingsInv, SettingsTypeOK
<1>2. TRUE \in Data /\ Destinations \cup {Null} \subseteq Data
  BY DataHolds
<1>3. CASE ServeStray
  <2>1. PICK s \in strays : rows' = [rows EXCEPT ![s.mailbox] = Patched(@, s.patch)]
                           /\ strays' = strays \ {s}
    BY <1>3 DEF ServeStray
  <2>2. s.mailbox \in Mailboxes /\ s.patch \in Entries
    BY <1>1 DEF StrayOK
  <2>3. rows' \in [Mailboxes -> Drafts]
    BY <1>1, <2>1, <2>2, PatchedIsDraft
  <2>4. UNCHANGED <<view, open, dialog, saving, loads, creating>>
    BY <1>3 DEF ServeStray
  <2> QED
    BY <1>1, <2>1, <2>3, <2>4, ElsewhereHolds DEF LoadsOK, StrayOK, MakeOK
<1>4. CASE ConfigureInbox
  <2> DEFINE row == [rows[creating.mailbox] EXCEPT !["whitelisted"] = TRUE]
             new == [row EXCEPT !["forwardTo"] = creating.forwardTo]
  <2>1. creating.mailbox \in Mailboxes /\ creating.forwardTo \in Data
    BY <1>1, <1>4 DEF ConfigureInbox, MakeOK
  <2>2. row \in Drafts
    BY <1>1, <1>2, <2>1, FieldHolds DEF Fields
  <2>3. new \in Drafts
    BY <2>1, <2>2, FieldHolds DEF Fields
  <2>4. rows' = [rows EXCEPT ![creating.mailbox] = new]
    BY <1>4 DEF ConfigureInbox
  <2> HIDE DEF new
  <2>5. rows' \in [Mailboxes -> Drafts]
    BY <1>1, <2>1, <2>3, <2>4
  <2>6. UNCHANGED <<view, open, dialog, saving, strays>> /\ creating' = Null
    BY <1>4 DEF ConfigureInbox
  <2>7. LoadsOK'
    <3>1. CASE Load("loader")
      BY <1>1, <3>1, LoadHolds DEF Load, Lanes
    <3>2. CASE UNCHANGED loads
      BY <1>1, <3>2 DEF LoadsOK
    <3> QED
      BY <1>4, <3>1, <3>2 DEF ConfigureInbox
  <2> QED
    BY <1>1, <2>5, <2>6, <2>7, ElsewhereHolds DEF StrayOK, MakeOK
<1>5. CASE EndCreation
  BY <1>1, <1>5, ElsewhereHolds DEF EndCreation, database, LoadsOK, StrayOK, MakeOK
<1>6. CASE CreateInbox(m)
  <2> DEFINE new == [rows[m] EXCEPT !["whitelisted"] = TRUE]
  <2>1. new \in Drafts
    BY <1>1, <1>2, FieldHolds DEF Fields
  <2>2. rows' = [rows EXCEPT ![m] = new]
    BY <1>6 DEF CreateInbox
  <2> HIDE DEF new
  <2>3. rows' \in [Mailboxes -> Drafts]
    BY <1>1, <2>1, <2>2
  <2>4. PICK d \in Destinations \cup {Null} : creating' = [mailbox |-> m, forwardTo |-> d]
    BY <1>6 DEF CreateInbox
  <2>5. MakeOK'
    BY <1>2, <2>4 DEF MakeOK
  <2>6. UNCHANGED <<view, open, dialog, saving, loads, strays>>
    BY <1>6 DEF CreateInbox
  <2> QED
    BY <1>1, <2>3, <2>5, <2>6, ElsewhereHolds DEF LoadsOK, StrayOK
<1>7. CASE WriteElsewhere(m)
  <2>1. PICK f \in Fields, value \in Data : rows' = [rows EXCEPT ![m] = [@ EXCEPT ![f] = value]]
    BY <1>7, DataHolds DEF WriteElsewhere
  <2> DEFINE new == [rows[m] EXCEPT ![f] = value]
  <2>2. new \in Drafts
    BY <1>1, FieldHolds
  <2>3. rows' = [rows EXCEPT ![m] = new]
    BY <2>1
  <2> HIDE DEF new
  <2>4. rows' \in [Mailboxes -> Drafts]
    BY <1>1, <2>2, <2>3
  <2>5. UNCHANGED <<view, open, dialog, saving, loads, strays, creating>>
    BY <1>7 DEF WriteElsewhere
  <2> QED
    BY <1>1, <2>4, <2>5, ElsewhereHolds DEF LoadsOK, StrayOK, MakeOK
<1> QED
  BY <1>3, <1>4, <1>5, <1>6, <1>7

\* Rules, and the loads they start.
LEMMA RulesHold ==
  ASSUME SettingsInv, NEW m \in Mailboxes, Block \/ ServeBlock \/ EndBlock \/ ChangeRule(m)
  PROVE  SettingsInv'
<1>1. rows \in [Mailboxes -> Drafts] /\ LoadsOK /\ StrayOK /\ MakeOK
  BY DEF SettingsInv, SettingsTypeOK
<1>2. UNCHANGED <<rows, view, open, dialog, saving, strays, creating>>
  BY DEF Block, ServeBlock, EndBlock, ChangeRule, database
<1>3. LoadsOK'
  <2>1. CASE Load("loader")
    BY <1>1, <2>1, LoadHolds DEF Load, Lanes
  <2>2. CASE UNCHANGED loads
    BY <1>1, <2>2 DEF LoadsOK
  <2> QED
    BY <2>1, <2>2 DEF Block, ServeBlock, EndBlock, ChangeRule
<1> QED
  BY <1>1, <1>2, <1>3, ElsewhereHolds DEF StrayOK, MakeOK

-------------------------------------------------------------------------------
(* What the page shows *)

LEMMA ServeLoadHolds ==
  ASSUME SettingsInv, NEW lane \in Lanes, ServeLoad(lane)
  PROVE  SettingsInv'
<1> DEFINE got == [m \in Mailboxes |-> Listed(m)]
           new == [step |-> "read", got |-> got]
<1>1. rows \in [Mailboxes -> Drafts] /\ LoadsOK /\ StrayOK /\ MakeOK
  BY DEF SettingsInv, SettingsTypeOK
<1>2. got \in Pages
  BY <1>1, ListedIsShown DEF Pages
<1> HIDE DEF got
<1>3. new \in Loads /\ new.got \in Pages
  BY <1>2 DEF Loads
<1>4. loads' = [loads EXCEPT ![lane] = new]
  BY DEF ServeLoad, got
<1> HIDE DEF new
<1>5. LoadsOK'
  BY <1>1, <1>3, <1>4 DEF LoadsOK
<1> QED
  BY <1>1, <1>5, ElsewhereHolds DEF ServeLoad, database, StrayOK, MakeOK

\* The page changes to what was read, and the dialog follows.
LEMMA AnswerLoadHolds ==
  ASSUME SettingsInv, NEW lane \in Lanes, AnswerLoad(lane)
  PROVE  SettingsInv'
<1>1. view' \in Pages
  BY DEF AnswerLoad, SettingsInv, SettingsTypeOK, LoadsOK
<1>2. Sound(Effect(dialog, open, view'), open, view')
  BY <1>1, EffectIsSound DEF SettingsInv, SettingsTypeOK
<1>3. LoadsOK'
  BY LoadHolds DEF AnswerLoad, SettingsInv, SettingsTypeOK
<1>4. /\ dialog' = Effect(dialog, open, view')
      /\ UNCHANGED <<rows, open, saving, strays, creating>>
  BY DEF AnswerLoad, database
<1>5. Sound(dialog, open, view)'
  BY <1>2, <1>4 DEF Sound, Destined, Based, Guarded, Dialogs
<1>6. SettingsTypeOK'
  BY <1>1, <1>3, <1>4, <1>5 DEF SettingsInv, SettingsTypeOK, Sound, SaveOK, StrayOK, MakeOK
<1>7. Sent'
  BY <1>4 DEF SettingsInv, Sent, ForwardingIsAsked, FirstSaveIsWhatWasEntered
<1> QED
  BY <1>5, <1>6, <1>7 DEF SettingsInv

\* A refresh that starts, and a load that fails.
LEMMA LoadsHold ==
  ASSUME SettingsInv, NEW lane \in Lanes, Refresh \/ FailLoad(lane)
  PROVE  SettingsInv'
<1>1. rows \in [Mailboxes -> Drafts] /\ LoadsOK /\ StrayOK /\ MakeOK
  BY DEF SettingsInv, SettingsTypeOK
<1>2. LoadsOK'
  <2>1. CASE Refresh
    BY <1>1, <2>1, LoadHolds DEF Refresh, Load, Lanes
  <2>2. CASE FailLoad(lane)
    BY <1>1, <2>2, LoadHolds DEF FailLoad
  <2> QED
    BY <2>1, <2>2
<1>3. UNCHANGED <<rows, view, open, dialog, saving, strays, creating>>
  BY DEF Refresh, FailLoad, database
<1> QED
  BY <1>1, <1>2, <1>3, ElsewhereHolds DEF StrayOK, MakeOK

-------------------------------------------------------------------------------
\* Every step keeps SettingsInv.
LEMMA SettingsInvStep == SettingsInv /\ [SettingsNext]_settingsVars => SettingsInv'
<1> SUFFICES ASSUME SettingsInv, [SettingsNext]_settingsVars PROVE SettingsInv'
  OBVIOUS
<1>1. ASSUME NEW m \in Mailboxes, OpenSettings(m) PROVE SettingsInv'
  BY <1>1, TurnHolds DEF OpenSettings
<1>2. ASSUME NEW m \in Mailboxes, ChangeRule(m) PROVE SettingsInv'
  BY <1>2, RulesHold
<1>3. ASSUME NEW m \in Mailboxes, CreateInbox(m) \/ WriteElsewhere(m) PROVE SettingsInv'
  BY <1>3, WritesHold
<1>4. ASSUME NEW f \in Fields, NEW value \in Values(f), EditField(f, value) PROVE SettingsInv'
  BY <1>4, EditHolds
<1>5. CASE CloseSettings
  BY <1>5, TurnHolds DEF CloseSettings
<1>6. CASE KeepCurrent \/ SubmitSettings
  BY <1>6, KeepHolds, SubmitHolds
<1>7. CASE ServeSave \/ ReadSaved \/ AnswerSave \/ FailSave
  BY <1>7, ServeSaveHolds, ReadSavedHolds, AnswerSaveHolds, FailSaveHolds
<1>8. CASE ServeStray \/ ConfigureInbox \/ EndCreation
  BY <1>8, SettingsShape, WritesHold
<1>9. CASE Block \/ ServeBlock \/ EndBlock
  BY <1>9, SettingsShape, RulesHold
<1>10. CASE Refresh
  BY <1>10, LoadsHold DEF Lanes
<1>11. ASSUME NEW lane \in Lanes, ServeLoad(lane) \/ AnswerLoad(lane) \/ FailLoad(lane) PROVE SettingsInv'
  BY <1>11, ServeLoadHolds, AnswerLoadHolds, LoadsHold
<1>12. CASE UNCHANGED settingsVars
  <2>1. Sound(dialog, open, view)'
    BY <1>12 DEF settingsVars, database, SettingsInv, Sound, Destined, Based, Guarded, Dialogs
  <2>2. SettingsTypeOK'
    BY <1>12, <2>1 DEF settingsVars, database, SettingsInv, SettingsTypeOK, Sound, SaveOK, LoadsOK, StrayOK, MakeOK
  <2>3. Sent'
    BY <1>12 DEF settingsVars, SettingsInv, Sent, ForwardingIsAsked, FirstSaveIsWhatWasEntered
  <2> QED
    BY <2>1, <2>2, <2>3 DEF SettingsInv
<1> QED
  BY <1>1, <1>2, <1>3, <1>4, <1>5, <1>6, <1>7, <1>8, <1>9, <1>10, <1>11, <1>12 DEF SettingsNext

-------------------------------------------------------------------------------
\* SettingsInv holds in every state.
THEOREM SettingsInvariance == SettingsSpec => []SettingsInv
<1> QED
  BY SettingsInvInit, SettingsInvStep, PTL DEF SettingsSpec

\* The dialog, the page and what is on the way between them have their types.
THEOREM SettingsTypeCorrect == SettingsSpec => []SettingsTypeOK
<1>1. SettingsInv => SettingsTypeOK
  BY DEF SettingsInv
<1> QED
  BY <1>1, SettingsInvariance, PTL

\* A save sends no destination but the one the owner entered in the dialog of that mailbox.
THEOREM ForwardingAsked == SettingsSpec => []ForwardingIsAsked
<1>1. SettingsInv => ForwardingIsAsked
  BY DEF SettingsInv, Sent
<1> QED
  BY <1>1, SettingsInvariance, PTL

\* The first save of a draft sends nothing the owner did not enter, whatever the page
\* learnt since it was taken.
THEOREM FirstSaveEntered == SettingsSpec => []FirstSaveIsWhatWasEntered
<1>1. SettingsInv => FirstSaveIsWhatWasEntered
  BY DEF SettingsInv, Sent
<1> QED
  BY <1>1, SettingsInvariance, PTL
================================================================================
