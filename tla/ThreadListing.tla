---------------------------- MODULE ThreadListing -----------------------------
(***************************************************************************)
(* A client walks the list of threads page by page while mail arrives, the *)
(* owner organises and messages expire.  A page starts strictly after the  *)
(* cursor, the place of the last thread of the page before; listThreads    *)
(* reads a page in one statement, searchThreads picks the threads in one   *)
(* and reads their rows in another, and the web client appends what it     *)
(* does not show yet.  The words a search looks for are left out: every    *)
(* message matches.                                                        *)
(***************************************************************************)
EXTENDS ThreadAggregates, Functions

CONSTANTS
  PageSize,    \* the clamped limit
  Folders,     \* the folders that are walked
  MaxChanges   \* bound on what the owner, the forwards and retention do

ASSUME PageShape ==
  /\ PageSize \in Nat \ {0}
  /\ Folders \subseteq {"inbox", "all", "archive", "spam", "trash"}
  /\ MaxChanges \in Nat

VARIABLES
  walk,      \* what the client is doing: how it lists, in which folder, and its next request
  shown,     \* the ids of the list it shows
  picked,    \* what the first statement of searchThreads returned: ids, with their places then
  steady,    \* threads in the folder since the walk began, whose latest message is the same
  again,     \* threads that a page held though they were shown already
  expired,   \* whether retention deleted a message during the walk
  changes    \* how much the owner, the forwards and retention have done

client   == <<walk, shown, picked, again>>
listVars == <<vars, client, steady, expired, changes>>

NoWalk == [at |-> "idle", how |-> "list", folder |-> "all", cursor |-> <<>>]

ListInit ==
  /\ Init
  /\ walk = NoWalk
  /\ shown = {} /\ picked = <<>>
  /\ steady = {} /\ again = {} /\ expired = FALSE /\ changes = 0

-----------------------------------------------------------------------------
\* folderSql, of a message and of a thread.
Normal(row) == row.marks \cap {"spam", "trash"} = {}
Holds(folder, row) ==
  CASE folder = "inbox"   -> InInbox(row)
    [] folder = "all"     -> Normal(row)
    [] folder = "archive" -> Normal(row) /\ "inbox" \notin row.marks
    [] folder = "spam"    -> "spam" \in row.marks /\ "trash" \notin row.marks
    [] folder = "trash"   -> "trash" \in row.marks

Listed(folder) ==
  {t \in Stored :
     /\ \E m \in Of(messages, t) : Holds(folder, messages[m])
     /\ folder = "archive" => InboxOf(messages, t) = {}}

\* ORDER BY last_message_at DESC, id DESC
Place(t) == <<threads[t].lastAt, t>>
Above(p, q) == p[1] > q[1] \/ (p[1] = q[1] /\ p[2] > q[2])

\* LIMIT n: of rows with these places, those with fewer than n above them.
Over(place, t)  == {u \in DOMAIN place : Above(place[u], place[t])}
First(place, n) == {t \in DOMAIN place : Cardinality(Over(place, t)) < n}
Lowest(place, ids) == CHOOSE t \in ids : \A u \in ids \ {t} : Above(place[u], place[t])

FromCursor(t, cursor)  == cursor = <<>> \/ ~Above(Place(t), cursor)
AfterCursor(t, cursor) == cursor = <<>> \/ Above(cursor, Place(t))

\* The rows of a statement are ids with their places.  One row more than the page tells
\* whether there is another page.
Behind   == [t \in {u \in Listed(walk.folder) : AfterCursor(u, walk.cursor)} |-> Place(t)]
Selected == [t \in First(Behind, PageSize + 1) |-> Place(t)]

\* toThreadPage
Items(rows) == First(rows, PageSize)
NextCursorBeyond(rows) ==
  IF Items(rows) = DOMAIN rows THEN <<>> ELSE Place(Lowest(rows, DOMAIN rows))
NextCursor(rows) ==
  IF Items(rows) = DOMAIN rows THEN <<>> ELSE Place(Lowest(rows, Items(rows)))

\* appendThreadPage
ShowPage(rows) ==
  /\ shown' = shown \cup Items(rows)
  /\ again' = again \cup (Items(rows) \cap shown)
  /\ walk' = [walk EXCEPT !.cursor = NextCursor(rows),
                          !.at = IF NextCursor(rows) = <<>> THEN "done" ELSE "asking"]

-----------------------------------------------------------------------------
\* The client opens a folder or a search; what it showed before is replaced.
Open(how, folder) ==
  /\ walk.at = "idle"
  /\ walk' = [at |-> "asking", how |-> how, folder |-> folder, cursor |-> <<>>]
  /\ steady' = Listed(folder)
  /\ UNCHANGED <<shown, picked, again, expired>>

ListPage ==
  /\ walk.at = "asking" /\ walk.how = "list"
  /\ ShowPage(Selected)
  /\ UNCHANGED <<picked, steady, expired>>

PickPage ==
  /\ walk.at = "asking" /\ walk.how = "search"
  /\ picked' = Selected
  /\ walk' = [walk EXCEPT !.at = "hydrating"]
  /\ UNCHANGED <<shown, again, steady, expired>>

\* The rows as they are now, in the order in which they were picked.
HydratePage ==
  /\ walk.at = "hydrating"
  /\ ShowPage(Restrict(picked, DOMAIN picked \cap Stored))
  /\ picked' = <<>>
  /\ UNCHANGED <<steady, expired>>

Walk == (\E how \in {"list", "search"}, folder \in Folders : Open(how, folder))
        \/ ListPage \/ PickPage \/ HydratePage

Watch == steady' = {t \in steady : t \in Listed(walk.folder)' /\ threads'[t].lastAt = threads[t].lastAt}

ListNext ==
  \/ Walk /\ UNCHANGED <<vars, changes>>
  \/ /\ Arrive \/ Send
     /\ UNCHANGED <<client, expired, changes>> /\ Watch
  \/ /\ changes < MaxChanges /\ changes' = changes + 1
     /\ \/ (Organise \/ Forward) /\ UNCHANGED expired
        \/ Expire /\ expired' = (walk.at # "idle")
     /\ UNCHANGED client /\ Watch

ListSpec == ListInit /\ [][ListNext]_listVars

-----------------------------------------------------------------------------
\* A walk that reached the end has shown every thread that stayed where it was.  Threads that
\* moved up belong to a list opened anew.  A search may lose some when a message expires
\* between its two statements: the cursor is then taken from a place the page did not have.
NothingSteadyIsMissed ==
  walk.at = "done" /\ (walk.how = "list" \/ ~expired) => steady \subseteq shown

\* A list never holds a thread twice, whatever arrives meanwhile: threads only move up, and
\* the cursor only down.  Expiry alone moves a thread down.
ListRepeatsNothing == walk.how = "list" /\ ~expired => again = {}
=============================================================================
