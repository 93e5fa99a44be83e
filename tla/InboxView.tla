-------------------------------- MODULE InboxView --------------------------------
(***************************************************************************)
(* The inbox page of the web client over the API: the list of the folder   *)
(* in the URL, the conversation it selects (useThreadDetail), refreshes,   *)
(* the read marks of opened messages and bulk moves with their Undo.  The  *)
(* API answers a request with what it read some time before, and a write   *)
(* can take effect after the client gave it up.  A list is a folder of one *)
(* mailbox; pages, archiving and the operations that end in a refresh of   *)
(* their own are left out.                                                 *)
(***************************************************************************)
EXTENDS Naturals, FiniteSets

CONSTANTS
  Threads,     \* conversations
  None,        \* null
  MaxMessages, \* bound on the messages of a conversation
  MaxEvents    \* bound on mail that arrives and events that send a request

ASSUME Bounds == MaxMessages \in Nat \ {0} /\ MaxEvents \in Nat

VARIABLES
  place,      \* D1: the list a conversation is in
  arrived,    \* D1: how many messages it has
  read,       \* D1: those marked read
  list,       \* the URL: the list
  thread,     \* the URL: the conversation selected, None when none is
  shown,      \* the state of useThreadDetail
  due,        \* its effect is to run: key, version or revision changed
  details,    \* its requests in flight
  rows,       \* the messages a row counts, 0 when the conversation has none
  refreshed,  \* rows come from a refresh or a change of the loader's
  snapshots,  \* refreshes in flight
  refreshing, \* the Refresh button waits for one, which may have been superseded
  attempted,  \* messages whose read mark was sent since the conversation opened
  marks,      \* read marks on their way
  checked,    \* checked rows
  offer,      \* the conversations Undo is offered for, and where it takes them
  move,       \* the bulk move or Undo being served
  strays,     \* how many writes of each kind were given up that may still be served
  seen,       \* messages the owner was shown (history)
  moved,      \* what the last bulk move took where (history)
  events      \* such events so far

server  == <<place, arrived, read>>
url     == <<list, thread>>
hook    == <<shown, due, details>>
lists   == <<rows, refreshed, snapshots, refreshing>>
reading == <<attempted, marks>>
pane    == <<checked, offer, move, strays>>
vars    == <<server, url, hook, lists, reading, pane, seen, moved, events>>

-------------------------------------------------------------------------------
Lists == {"inbox", "trash"}

\* Trash in the inbox, Restore in the trash, and the Undo of either.
Other(l) == IF l = "inbox" THEN "trash" ELSE "inbox"

Messages == 1..MaxMessages

\* mailboxId, threadId and folder.
Key == <<list, thread>>
Keys == Lists \X (Threads \cup {None})

\* What GET /threads/:id answers.
Detail(t) == [count |-> arrived[t], read |-> read[t]]
Details == [count : Messages, read : SUBSET Messages]

\* The messages each row of the list counts.
RowCounts == [Threads -> 0..MaxMessages]
Rows(l) == [t \in Threads |-> IF place[t] = l THEN arrived[t] ELSE 0]

\* What bulkMove keeps of the move it serves, and the pane of one it can undo.
Moves == [ids : SUBSET Threads, to : Lists, undo : BOOLEAN, list : Lists, source : RowCounts,
          todo : SUBSET Threads, served : SUBSET Threads, ok : SUBSET Threads,
          step : {"patch", "counts"}, alone : SUBSET Threads]
Offers == [ids : SUBSET Threads, back : Lists]

ASSUME ViewShape == None \notin Threads \cup Moves \cup Offers

\* begin and invalidate of LatestRequestCoordinator.
Stale(lane) == {[q EXCEPT !.latest = FALSE] : q \in lane}

\* The answer to a refresh that is no longer the latest has no effect; the counts are
\* awaited in any case.
Superseded == Stale({q \in snapshots : q.purpose = "counts"})

\* Without the guards.  No action uses it.
CurrentAny(q) == TRUE

\* A late answer is dropped: isLatest, and the key it was asked for is active.
Current(q) == q.latest /\ q.key = Key

\* The conversation in view, and whether it is being loaded.
Displayed == shown # None /\ shown.key = Key /\ shown.detail # None
Loading == thread # None /\ ~(shown # None /\ shown.key = Key)

\* The rows change; a new version of the selected one makes the hook load again.
ShowRows(new) ==
  /\ rows' = new
  /\ due' = (due \/ (thread # None /\ new[thread] # rows[thread]))

\* reload: an error shown is cleared, and the conversation loaded again.
Reload ==
  /\ details' = Stale(details)
  /\ shown' = IF shown # None /\ shown.detail = None THEN None ELSE shown
  /\ due' = TRUE

Event == events < MaxEvents /\ events' = events + 1

Init ==
  /\ place = [t \in Threads |-> "inbox"] /\ arrived = [t \in Threads |-> 1]
  /\ read = [t \in Threads |-> {}]
  /\ list = "inbox" /\ thread = None
  /\ shown = None /\ due = FALSE /\ details = {}
  /\ rows = Rows("inbox") /\ refreshed = FALSE /\ snapshots = {} /\ refreshing = FALSE
  /\ attempted = {} /\ marks = {}
  /\ checked = {} /\ offer = None /\ move = None
  /\ strays = [w \in Threads \X Lists |-> 0]
  /\ seen = [t \in Threads |-> {}]
  /\ moved = None
  /\ events = 0

Arrive(t) ==
  /\ arrived[t] < MaxMessages
  /\ Event
  /\ arrived' = [arrived EXCEPT ![t] = @ + 1]
  /\ UNCHANGED <<place, read, url, hook, lists, reading, pane, seen, moved>>

-------------------------------------------------------------------------------
(* Navigation *)

\* The URL changes, and with it the lanes of the old one end.
GoTo(l, t) ==
  /\ list' = l /\ thread' = t
  /\ due' = TRUE
  /\ snapshots' = Superseded /\ refreshing' = FALSE
  /\ attempted' = {}

Select(t) ==
  /\ thread # t /\ (t \in Threads => rows[t] > 0)
  /\ Event
  /\ GoTo(list, t)
  /\ UNCHANGED <<server, shown, details, rows, refreshed, marks, pane, seen, moved>>

\* Another folder: the loader has answered.  The pane forgets what was checked and moved.
OpenList ==
  /\ Event
  /\ GoTo(Other(list), None)
  /\ rows' = Rows(Other(list)) /\ refreshed' = FALSE
  /\ checked' = {} /\ offer' = None /\ moved' = None
  /\ UNCHANGED <<server, shown, details, marks, move, strays, seen>>

-------------------------------------------------------------------------------
(* useThreadDetail *)

LoadDetail ==
  /\ due /\ due' = FALSE
  /\ details' = Stale(details) \cup
       (IF thread = None THEN {} ELSE {[key |-> Key, latest |-> TRUE, got |-> None]})
  /\ UNCHANGED <<server, url, shown, lists, reading, pane, seen, moved, events>>

ServeDetail(q) ==
  /\ q \in details /\ q.got = None
  /\ details' = (details \ {q}) \cup {[q EXCEPT !.got = Detail(q.key[2])]}
  /\ UNCHANGED <<server, url, shown, due, lists, reading, pane, seen, moved, events>>

Show(key, detail) ==
  /\ shown' = [key |-> key, detail |-> detail]
  /\ seen' = [seen EXCEPT ![key[2]] = @ \cup 1..detail.count]

AnswerDetail(q) ==
  /\ q \in details /\ q.got # None
  /\ details' = details \ {q}
  /\ IF Current(q) THEN Show(q.key, q.got) ELSE UNCHANGED <<shown, seen>>
  /\ UNCHANGED <<server, url, due, lists, reading, pane, moved, events>>

\* The pane shows the error in place of the messages.
FailDetail(q) ==
  /\ q \in details
  /\ details' = details \ {q}
  /\ IF Current(q) THEN shown' = [key |-> q.key, detail |-> None] /\ attempted' = {}
                   ELSE UNCHANGED <<shown, attempted>>
  /\ UNCHANGED <<server, url, due, lists, marks, pane, seen, moved, events>>

RetryDetail ==
  /\ shown # None /\ shown.key = Key /\ shown.detail = None
  /\ Event
  /\ Reload
  /\ UNCHANGED <<server, url, lists, reading, pane, seen, moved>>

-------------------------------------------------------------------------------
(* Read marks: each expanded unread message patches, loads and replaces *)

SendMark(m) ==
  /\ Displayed
  /\ m <= shown.detail.count /\ m \notin shown.detail.read \cup attempted
  /\ attempted' = attempted \cup {m}
  /\ marks' = marks \cup {[thread |-> thread, message |-> m, step |-> "patch", got |-> None]}
  /\ UNCHANGED <<server, url, hook, lists, pane, seen, moved, events>>

\* The patch without its message ids.  No action uses it.
MarkedThread(k) == 1..arrived[k.thread]
Marked(k) == {k.message}

ServeMark(k) ==
  /\ k \in marks /\ k.step = "patch"
  /\ read' = [read EXCEPT ![k.thread] = @ \cup Marked(k)]
  /\ marks' = (marks \ {k}) \cup {[k EXCEPT !.step = "load"]}
  /\ UNCHANGED <<place, arrived, url, hook, lists, attempted, pane, seen, moved, events>>

ServeMarkDetail(k) ==
  /\ k \in marks /\ k.step = "load"
  /\ marks' = (marks \ {k}) \cup {[k EXCEPT !.step = "replace", !.got = Detail(k.thread)]}
  /\ UNCHANGED <<server, url, hook, lists, attempted, pane, seen, moved, events>>

\* replace: only over the same conversation with as many messages or fewer.
Replace(k) ==
  /\ k \in marks /\ k.step = "replace"
  /\ marks' = marks \ {k}
  /\ IF Displayed /\ thread = k.thread /\ k.got.count >= shown.detail.count
     THEN Show(Key, k.got) ELSE UNCHANGED <<shown, seen>>
  /\ UNCHANGED <<server, url, due, details, lists, attempted, pane, moved, events>>

\* The write may have been served; it is not repeated while the message is open.
FailMark(k) ==
  /\ k \in marks
  /\ marks' = marks \ {k}
  /\ UNCHANGED <<server, url, hook, lists, attempted, pane, seen, moved, events>>

-------------------------------------------------------------------------------
(* fetchSnapshot and refreshFolderCounts share a lane *)

Begin(purpose) ==
  snapshots' = Superseded \cup
    {[key |-> Key, latest |-> TRUE, purpose |-> purpose, got |-> None]}

Refresh ==
  /\ ~refreshing
  /\ Event
  /\ Begin("rows") /\ refreshing' = TRUE
  /\ Reload
  /\ UNCHANGED <<server, url, rows, refreshed, reading, pane, seen, moved>>

ServeSnapshot(q) ==
  /\ q \in snapshots /\ q.got = None /\ q.purpose = "rows"
  /\ snapshots' = (snapshots \ {q}) \cup {[q EXCEPT !.got = Rows(q.key[1])]}
  /\ UNCHANGED <<server, url, hook, rows, refreshed, refreshing, reading, pane, seen, moved, events>>

EndSnapshot(q) == snapshots' = snapshots \ {q} /\ refreshing' = FALSE

AnswerSnapshot(q) ==
  /\ q \in snapshots /\ q.got # None /\ q.purpose = "rows"
  /\ EndSnapshot(q)
  /\ IF Current(q) THEN ShowRows(q.got) /\ refreshed' = TRUE
                   ELSE UNCHANGED <<rows, refreshed, due>>
  /\ UNCHANGED <<server, url, shown, details, reading, pane, seen, moved, events>>

FailSnapshot(q) ==
  /\ q \in snapshots /\ q.purpose = "rows"
  /\ EndSnapshot(q)
  /\ UNCHANGED <<server, url, hook, rows, refreshed, reading, pane, seen, moved, events>>

-------------------------------------------------------------------------------
(* moveChecked and undoLastMove, over bulkMove and patchThreadStates *)

Check(t) ==
  /\ move = None /\ rows[t] > 0 /\ t \notin checked
  /\ checked' = checked \cup {t}
  /\ UNCHANGED <<server, url, hook, lists, reading, offer, move, strays, seen, moved, events>>

\* A box, Clear or Escape, which works during a move too.
Uncheck ==
  /\ checked # {}
  /\ checked' = {}
  /\ moved' = None
  /\ UNCHANGED <<server, url, hook, lists, reading, offer, move, strays, seen, events>>

\* The eight seconds are over, or the owner dismisses the offer.
Dismiss ==
  /\ offer # None
  /\ offer' = None
  /\ moved' = None
  /\ UNCHANGED <<server, url, hook, lists, reading, checked, move, strays, seen, events>>

Start(ids, to, undo) ==
  /\ move = None
  /\ Event
  /\ move' = [ids |-> ids, to |-> to, undo |-> undo, list |-> list, source |-> rows,
              todo |-> ids, served |-> {}, ok |-> {}, step |-> "patch",
              alone |-> {t \in ids : \A l \in Lists : strays[<<t, l>>] = 0}]
  /\ UNCHANGED <<server, url, hook, lists, reading, checked, offer, strays, seen, moved>>

MoveChecked ==
  LET ids == {t \in checked : rows[t] > 0} IN ids # {} /\ Start(ids, Other(list), FALSE)

UndoLastMove == offer # None /\ Start(offer.ids, offer.back, TRUE)

Patching(t) == move # None /\ t \in move.todo

ServePatch(t) ==
  /\ Patching(t) /\ t \notin move.served
  /\ place' = [place EXCEPT ![t] = move.to]
  /\ move' = [move EXCEPT !.served = @ \cup {t}]
  /\ UNCHANGED <<arrived, read, url, hook, lists, reading, checked, offer, strays, seen, moved, events>>

AnswerPatch(t) ==
  /\ Patching(t) /\ t \in move.served
  /\ move' = [move EXCEPT !.todo = @ \ {t}, !.ok = @ \cup {t}]
  /\ UNCHANGED <<server, url, hook, lists, reading, checked, offer, strays, seen, moved, events>>

\* A write that was not served stays on its way.
FailPatch(t) ==
  /\ Patching(t)
  /\ move' = [move EXCEPT !.todo = @ \ {t}]
  /\ strays' = IF t \in move.served THEN strays ELSE [strays EXCEPT ![<<t, move.to>>] = @ + 1]
  /\ UNCHANGED <<server, url, hook, lists, reading, checked, offer, seen, moved, events>>

\* It is served late, or never.
ServeStray(t, l) ==
  /\ strays[<<t, l>>] > 0
  /\ strays' = [strays EXCEPT ![<<t, l>>] = @ - 1]
  /\ place' = [place EXCEPT ![t] = l]
  /\ UNCHANGED <<arrived, read, url, hook, lists, reading, checked, offer, move, seen, moved, events>>

\* applyBulkMove over the rows of the list the move began in: moved rows go, and of those an
\* Undo brought back, the ones that load and belong there return.
Reconciled(back) ==
  LET base == IF refreshed THEN rows ELSE move.source
  IN [t \in Threads |->
       CASE t \in back /\ base[t] = 0     -> Rows(list)[t]
         [] t \in move.ok /\ ~move.undo   -> 0
         [] OTHER                         -> base[t]]

\* At least one write succeeded.  If the list is still open it is reconciled; the counts of
\* the folders are loaded, and the conversation again.
ReconcileMove ==
  /\ move # None /\ move.step = "patch" /\ move.todo = {} /\ move.ok # {}
  /\ IF list = move.list
     THEN /\ \E back \in SUBSET (IF move.undo THEN move.ok ELSE {}) : rows' = Reconciled(back)
          /\ refreshed' = TRUE
     ELSE UNCHANGED <<rows, refreshed>>
  /\ Begin("counts") /\ UNCHANGED refreshing
  /\ Reload
  /\ move' = [move EXCEPT !.step = "counts"]
  /\ UNCHANGED <<server, url, reading, checked, offer, strays, seen, moved, events>>

Failed == move.ids \ move.ok

\* The rows moved, taken from the list as it is after the move.  No action uses it.
OfferedShown == {t \in move.ok : rows[t] > 0}
Offered == move.ok

\* The pane takes the result, wherever the owner is by now.
Settle ==
  /\ IF move.undo
     THEN /\ offer' = IF Failed = {} THEN None ELSE [ids |-> Failed, back |-> move.to]
          /\ UNCHANGED <<checked, moved>>
     ELSE /\ checked' = Failed
          /\ offer' = IF Offered = {} THEN None ELSE [ids |-> Offered, back |-> Other(move.to)]
          /\ moved' = [ids |-> move.alone, to |-> move.to]
  /\ move' = None
  /\ UNCHANGED <<server, url, hook, rows, refreshed, refreshing, reading, strays, seen, events>>

SettleFailed ==
  /\ move # None /\ move.step = "patch" /\ move.todo = {} /\ move.ok = {}
  /\ Settle /\ UNCHANGED snapshots

\* The counts arrive, or fail to; they are no rows.
SettleMove(q) ==
  /\ q \in snapshots /\ q.purpose = "counts"
  /\ snapshots' = snapshots \ {q}
  /\ Settle

-------------------------------------------------------------------------------
Answers ==
  \/ LoadDetail
  \/ \E q \in details : ServeDetail(q) \/ AnswerDetail(q)
  \/ \E q \in snapshots : ServeSnapshot(q) \/ AnswerSnapshot(q) \/ SettleMove(q)

Next ==
  \/ Answers
  \/ \E t \in Threads : Arrive(t) \/ Select(t) \/ Check(t) \/ ServePatch(t) \/ AnswerPatch(t) \/ FailPatch(t)
  \/ Select(None) \/ OpenList \/ RetryDetail \/ Refresh
  \/ \E q \in details : FailDetail(q)
  \/ \E q \in snapshots : FailSnapshot(q)
  \/ \E m \in Messages : SendMark(m)
  \/ \E k \in marks : ServeMark(k) \/ ServeMarkDetail(k) \/ Replace(k) \/ FailMark(k)
  \/ Uncheck \/ Dismiss \/ MoveChecked \/ UndoLastMove
  \/ \E t \in Threads, l \in Lists : ServeStray(t, l)
  \/ ReconcileMove \/ SettleFailed

Spec == Init /\ [][Next]_vars

\* Effects run, and the API answers.
FairSpec == Spec /\ WF_vars(Answers)

-------------------------------------------------------------------------------
(* Properties *)

Snapshots == [key : Keys, latest : BOOLEAN, purpose : {"rows", "counts"},
              got : RowCounts \cup {None}]

\* Every variable keeps the shape the components and the tables give it.
TypeOK ==
  /\ place \in [Threads -> Lists] /\ arrived \in [Threads -> Messages]
  /\ read \in [Threads -> SUBSET Messages]
  /\ Key \in Keys
  /\ shown = None \/ shown \in [key : Keys, detail : Details \cup {None}]
  /\ due \in BOOLEAN /\ refreshed \in BOOLEAN /\ refreshing \in BOOLEAN
  /\ details \subseteq [key : Keys, latest : BOOLEAN, got : Details \cup {None}]
  /\ rows \in RowCounts
  /\ \A q \in snapshots : q \in Snapshots
  /\ attempted \subseteq Messages
  /\ marks \subseteq [thread : Threads, message : Messages, step : {"patch", "load", "replace"},
                      got : Details \cup {None}]
  /\ checked \subseteq Threads
  /\ offer = None \/ offer \in Offers
  /\ move = None \/ (move \in Moves /\ move.ok \subseteq move.served /\ move.served \subseteq move.ids)
  /\ strays \in [Threads \X Lists -> Nat]
  /\ events \in 0..MaxEvents

\* Whichever answers come late, the conversation selected last is eventually shown or
\* reported as unavailable: no older response takes the place of a newer one.
DetailSettles == Loading ~> ~Loading

\* A message the owner was never shown stays unread, however the loads and the read marks of
\* its conversation interleave with its arrival.
UnseenStaysUnread == \A t \in Threads : read[t] \subseteq seen[t]

\* A conversation that a bulk move took away is offered back or still checked, whether its
\* own write succeeded, failed or took effect after it was given up, and wherever the owner
\* went meanwhile, until the owner lets go of it.  Not so one that an earlier move had given
\* up: that move's write may still take effect, after this one was undone.
MovesAreAccounted ==
  (move = None /\ moved # None) =>
    \A t \in moved.ids :
      place[t] = moved.to => t \in checked \/ (offer # None /\ t \in offer.ids)
================================================================================
