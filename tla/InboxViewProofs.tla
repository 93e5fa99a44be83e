---------------------------- MODULE InboxViewProofs ----------------------------
(***************************************************************************)
(* Proofs about InboxView, for any conversations, messages and events.     *)
(*                                                                         *)
(* Both properties rest on what is under way.  IInv adds to the types that *)
(*   - Reading: what the pane shows, and what a read mark names, the owner *)
(*     has been shown,                                                     *)
(*   - Moving: a move knows what it was for; an Undo is one of the offer   *)
(*     for the last move,                                                  *)
(*   - Counting: the counts are awaited for a move that was reconciled,    *)
(*   - Fresh: a write that was served, or still can be, is the only one    *)
(*     about for a conversation without an earlier one,                    *)
(*   - Kept: no write of the last move can take effect unless its          *)
(*     conversation is checked still.                                      *)
(***************************************************************************)
EXTENDS InboxView, TLAPS

Reading ==
  /\ \A q \in details : q.key[2] \in Threads
  /\ shown # None =>
       /\ shown.key[2] \in Threads
       /\ shown.detail # None => 1..shown.detail.count \subseteq seen[shown.key[2]]
  /\ \A k \in marks : /\ k.message \in seen[k.thread]
                      /\ k.step = "replace" => k.got \in Details
  /\ seen \in [Threads -> SUBSET Messages]
  /\ UnseenStaysUnread

OfferedIds == IF offer = None THEN {} ELSE offer.ids

\* The last move is settled, or about to be undone.
Over == moved # None /\ (move = None \/ move.undo)

Moving ==
  /\ move # None =>
       move.todo \subseteq move.ids /\ move.alone \subseteq move.ids
  /\ moved # None => moved.ids \subseteq Threads /\ moved.to \in Lists
  /\ Over /\ offer # None => offer.back = Other(moved.to)
  /\ Over /\ move # None => offer # None /\ move.ids = offer.ids /\ move.to = Other(moved.to)

Counted == {q \in snapshots : q.purpose = "counts"}

Counting ==
  /\ Counted # {} => move # None /\ move.step = "counts"
  /\ \A p, q \in Counted : p = q

Fresh ==
  move # None /\ ~move.undo =>
    \A t \in move.alone, l \in Lists : t \in move.todo \cup move.served => strays[<<t, l>>] = 0

KeptAway(t) ==
  /\ strays[<<t, moved.to>>] = 0
  /\ t \in OfferedIds \/ place[t] # moved.to
  /\ move # None /\ t \in move.served => place[t] # moved.to

Kept == Over => \A t \in moved.ids : t \in checked \/ KeptAway(t)

IInv == TypeOK /\ Reading /\ Moving /\ Counting /\ Fresh /\ Kept

-------------------------------------------------------------------------------
(* At the beginning *)

\* Nothing was shown, marked or moved.
LEMMA InitIInv == Init => IInv
<1> SUFFICES ASSUME Init PROVE IInv
  OBVIOUS
<1> USE ViewShape, Bounds DEF ViewShape, Bounds
<1>1. 1 \in Messages /\ {} \subseteq Messages
  BY DEF Messages
<1>2. /\ place \in [Threads -> Lists] /\ arrived \in [Threads -> Messages]
      /\ read \in [Threads -> SUBSET Messages] /\ strays \in [Threads \X Lists -> Nat]
      /\ seen \in [Threads -> SUBSET Messages]
  BY <1>1 DEF Init, Lists
<1>3. rows \in RowCounts
  BY <1>2 DEF Init, Rows, RowCounts, Messages
<1>6. Key \in Keys
  BY DEF Init, Key, Keys, Lists
<1>7. events \in 0..MaxEvents
  BY DEF Init
<1>4. TypeOK
  <2> HIDE DEF ViewShape, Bounds
  <2> QED
    BY <1>2, <1>3, <1>6, <1>7 DEF Init, TypeOK, RowCounts
<1>5. Reading /\ Moving /\ Counting /\ Fresh /\ Kept
  BY <1>2 DEF Init, Reading, Moving, Counting, Counted, Fresh, Kept, Over, UnseenStaysUnread
<1> QED
  BY <1>4, <1>5 DEF IInv

-------------------------------------------------------------------------------
(* The fields of a move *)

LEMMA Starts ==
  ASSUME IInv, NEW ids \in SUBSET Threads, NEW to \in Lists, NEW undo \in BOOLEAN,
         Start(ids, to, undo)
  PROVE  /\ move = None /\ move' \in Moves /\ move' # None
         /\ move'.ids = ids /\ move'.to = to /\ move'.undo = undo /\ move'.step = "patch"
         /\ move'.todo = ids /\ move'.served = {} /\ move'.ok = {}
         /\ move'.alone = {t \in ids : \A l \in Lists : strays[<<t, l>>] = 0}
<1> DEFINE mv == [ids |-> ids, to |-> to, undo |-> undo, list |-> list, source |-> rows,
                  todo |-> ids, served |-> {}, ok |-> {}, step |-> "patch",
                  alone |-> {t \in ids : \A l \in Lists : strays[<<t, l>>] = 0}]
<1>1. list \in Lists /\ rows \in RowCounts
  BY DEF IInv, TypeOK, Key, Keys
<1>2. mv \in Moves
  BY <1>1 DEF Moves
<1> QED
  BY <1>2, ViewShape DEF Start, ViewShape

LEMMA MoveStarts ==
  ASSUME IInv, MoveChecked
  PROVE  /\ move = None /\ move' \in Moves /\ move' # None /\ ~move'.undo
         /\ move'.todo = move'.ids /\ move'.served = {} /\ move'.ok = {}
         /\ move'.alone = {t \in move'.ids : \A l \in Lists : strays[<<t, l>>] = 0}
         /\ UNCHANGED <<offer, strays, moved>>
<1> DEFINE ids == {t \in checked : rows[t] > 0}
<1>1. ids \in SUBSET Threads /\ Other(list) \in Lists
  BY DEF IInv, TypeOK, Other, Lists
<1>2. Start(ids, Other(list), FALSE)
  BY DEF MoveChecked
<1> HIDE DEF ids
<1> QED
  BY <1>1, <1>2, Starts DEF Start, pane

LEMMA UndoStarts ==
  ASSUME IInv, UndoLastMove
  PROVE  /\ move = None /\ move' \in Moves /\ move' # None /\ move'.undo
         /\ offer # None /\ move'.ids = offer.ids /\ move'.to = offer.back
         /\ move'.todo = move'.ids /\ move'.served = {} /\ move'.ok = {}
         /\ move'.alone \subseteq move'.ids
         /\ UNCHANGED <<place, checked, offer, strays, moved>>
<1>1. offer # None /\ offer.ids \in SUBSET Threads /\ offer.back \in Lists
  BY DEF IInv, TypeOK, UndoLastMove, Offers
<1>2. Start(offer.ids, offer.back, TRUE)
  BY DEF UndoLastMove
<1> QED
  BY <1>1, <1>2, Starts DEF Start, pane, server

\* What the progress of a write, or of the whole, leaves of the move.
SameMove ==
  /\ move # None /\ move' # None /\ move' \in Moves
  /\ move'.ids = move.ids /\ move'.to = move.to /\ move'.undo = move.undo
  /\ move'.alone = move.alone

LEMMA Serves ==
  ASSUME IInv, NEW t \in Threads, ServePatch(t)
  PROVE  /\ SameMove /\ move'.step = move.step /\ t \in move.todo
         /\ move'.todo = move.todo /\ move'.served = move.served \cup {t} /\ move'.ok = move.ok
<1>1. move # None /\ move \in Moves /\ move' = [move EXCEPT !.served = @ \cup {t}] /\ t \in move.todo
  BY DEF IInv, TypeOK, ServePatch, Patching
<1>2. move' \in Moves
  BY <1>1 DEF Moves
<1> QED
  BY <1>1, <1>2, ViewShape DEF SameMove, Moves, ViewShape

LEMMA AnswersOne ==
  ASSUME IInv, NEW t \in Threads, AnswerPatch(t)
  PROVE  /\ SameMove /\ move'.step = move.step /\ t \in move.served
         /\ move'.todo = move.todo \ {t} /\ move'.served = move.served /\ move'.ok = move.ok \cup {t}
<1>1. /\ move # None /\ move \in Moves /\ t \in move.served
      /\ move' = [move EXCEPT !.todo = @ \ {t}, !.ok = @ \cup {t}]
  BY DEF IInv, TypeOK, AnswerPatch, Patching
<1>2. move' \in Moves
  BY <1>1 DEF Moves
<1> QED
  BY <1>1, <1>2, ViewShape DEF SameMove, Moves, ViewShape

LEMMA Fails ==
  ASSUME IInv, NEW t \in Threads, FailPatch(t)
  PROVE  /\ SameMove /\ move'.step = move.step /\ t \in move.todo
         /\ move'.todo = move.todo \ {t} /\ move'.served = move.served /\ move'.ok = move.ok
<1>1. move # None /\ move \in Moves /\ move' = [move EXCEPT !.todo = @ \ {t}] /\ t \in move.todo
  BY DEF IInv, TypeOK, FailPatch, Patching
<1>2. move' \in Moves
  BY <1>1 DEF Moves
<1> QED
  BY <1>1, <1>2, ViewShape DEF SameMove, Moves, ViewShape

LEMMA Reconciles ==
  ASSUME IInv, ReconcileMove
  PROVE  /\ SameMove /\ move.step = "patch" /\ move'.step = "counts"
         /\ move'.todo = move.todo /\ move'.served = move.served /\ move'.ok = move.ok
<1>1. /\ move # None /\ move \in Moves /\ move.step = "patch"
      /\ move' = [move EXCEPT !.step = "counts"]
  BY DEF IInv, TypeOK, ReconcileMove
<1>2. move' \in Moves
  BY <1>1 DEF Moves
<1> QED
  BY <1>1, <1>2, ViewShape DEF SameMove, Moves, ViewShape

\* The pane is told what failed and offers to undo what did not.
LEMMA Settles ==
  ASSUME IInv, SettleFailed \/ \E q \in snapshots : SettleMove(q)
  PROVE  /\ move # None /\ move' = None /\ UNCHANGED <<place, strays>>
         /\ offer' = None \/ offer' \in Offers
         /\ move.undo => /\ UNCHANGED <<checked, moved>>
                         /\ OfferedIds' = move.ids \ move.ok
                         /\ offer' # None => offer'.back = move.to
         /\ ~move.undo => /\ checked' = move.ids \ move.ok
                          /\ OfferedIds' = move.ok
                          /\ offer' # None => offer'.back = Other(move.to)
                          /\ moved'.ids = move.alone /\ moved'.to = move.to
<1>1. move # None /\ Settle
  BY DEF IInv, Counting, Counted, SettleFailed, SettleMove
<1>2. move \in Moves /\ Other(move.to) \in Lists
  BY <1>1 DEF IInv, TypeOK, Moves, Other, Lists
<1>3. UNCHANGED <<place, strays>>
  BY <1>1 DEF Settle, server
<1>4. CASE move.undo
  BY <1>1, <1>2, <1>3, <1>4, ViewShape DEF Settle, Failed, OfferedIds, Offers, Moves, ViewShape
<1>5. CASE ~move.undo
  <2>1. [ids |-> move.ok, back |-> Other(move.to)] \in Offers
    BY <1>2 DEF Offers, Moves
  <2> QED
    BY <1>1, <1>2, <1>3, <1>5, <2>1, ViewShape DEF Settle, Failed, Offered, OfferedIds, ViewShape
<1> QED
  BY <1>4, <1>5

-------------------------------------------------------------------------------
(* Types *)

\* What the server answers, and what the operators over lanes and rows keep.
LEMMA Answered ==
  ASSUME TypeOK
  PROVE  /\ \A t \in Threads : Detail(t) \in Details
         /\ \A l \in Lists : Rows(l) \in RowCounts
         /\ Stale(details) \subseteq [key : Keys, latest : BOOLEAN, got : Details \cup {None}]
         /\ \A q \in Superseded : q \in Snapshots /\ q.purpose = "counts"
<1>1. \A t \in Threads : Detail(t) \in Details
  BY DEF TypeOK, Detail, Details
<1>2. \A l \in Lists : Rows(l) \in RowCounts
  BY Bounds DEF TypeOK, Rows, RowCounts, Messages, Bounds
<1>3. Stale(details) \subseteq [key : Keys, latest : BOOLEAN, got : Details \cup {None}]
  <2> SUFFICES ASSUME NEW q \in details
               PROVE  [q EXCEPT !.latest = FALSE] \in [key : Keys, latest : BOOLEAN, got : Details \cup {None}]
    BY DEF Stale
  <2>1. q \in [key : Keys, latest : BOOLEAN, got : Details \cup {None}]
    BY DEF TypeOK
  <2> QED
    BY <2>1
<1>4. \A q \in Superseded : q \in Snapshots /\ q.purpose = "counts"
  <2> SUFFICES ASSUME NEW q \in snapshots, q.purpose = "counts"
               PROVE  LET late == [q EXCEPT !.latest = FALSE] IN late \in Snapshots /\ late.purpose = "counts"
    BY DEF Superseded, Stale
  <2> QED
    BY DEF TypeOK, Snapshots
<1> QED
  BY <1>1, <1>2, <1>3, <1>4

\* Every action keeps the types.
LEMMA StepTypes == IInv /\ [Next]_vars => TypeOK'
<1> SUFFICES ASSUME IInv, [Next]_vars PROVE TypeOK'
  OBVIOUS
<1> USE ViewShape, Bounds, Answered
    DEF Bounds, IInv, TypeOK, vars, server, url, hook, lists, reading, pane, Event, Keys, Key, ViewShape
<1>1. CASE UNCHANGED vars
  BY <1>1
<1>2. CASE \E t \in Threads : Arrive(t)
  BY <1>2 DEF Arrive, Messages
<1>3. CASE \E t \in Threads \cup {None} : Select(t)
  <2> PICK t \in Threads \cup {None} : Select(t)
    BY <1>3
  <2>1. Key' \in Keys
    BY DEF Select, GoTo
  <2>2. \A q \in snapshots' : q \in Snapshots
    BY DEF Select, GoTo
  <2>3. /\ UNCHANGED <<place, arrived, read, shown, details, rows, refreshed, marks, checked, offer, move, strays>>
        /\ due' \in BOOLEAN /\ refreshing' \in BOOLEAN /\ attempted' \subseteq Messages
    BY DEF Select, GoTo
  <2>4. events' \in 0..MaxEvents
    BY DEF Select
  <2> HIDE DEF Key, Keys, Event
  <2> QED
    BY <2>1, <2>2, <2>3, <2>4
<1>4. CASE OpenList
  <2>1. Key' \in Keys /\ Other(list) \in Lists
    BY <1>4 DEF OpenList, GoTo, Other, Lists
  <2>2. \A q \in snapshots' : q \in Snapshots
    BY <1>4 DEF OpenList, GoTo
  <2>3. rows' \in RowCounts
    BY <1>4, <2>1 DEF OpenList
  <2>4. /\ UNCHANGED <<place, arrived, read, shown, details, marks, move, strays>>
        /\ due' \in BOOLEAN /\ refreshing' \in BOOLEAN /\ attempted' \subseteq Messages
        /\ refreshed' \in BOOLEAN /\ checked' \subseteq Threads /\ offer' = None
    BY <1>4 DEF OpenList, GoTo
  <2>5. events' \in 0..MaxEvents
    BY <1>4 DEF OpenList
  <2> HIDE DEF Key, Keys, Event
  <2> QED
    BY <2>1, <2>2, <2>3, <2>4, <2>5 DEF RowCounts
<1>5. CASE LoadDetail
  <2>1. thread # None =>
          [key |-> Key, latest |-> TRUE, got |-> None]
            \in [key : Keys, latest : BOOLEAN, got : Details \cup {None}]
    OBVIOUS
  <2>2. details' \subseteq [key : Keys, latest : BOOLEAN, got : Details \cup {None}]
    BY <1>5, <2>1 DEF LoadDetail
  <2> QED
    BY <1>5, <2>2 DEF LoadDetail
<1>6. CASE \E q \in details : ServeDetail(q)
  <2> PICK q \in details : ServeDetail(q)
    BY <1>6
  <2> DEFINE Types == [key : Keys, latest : BOOLEAN, got : Details \cup {None}]
  <2>1. q \in Types /\ Detail(q.key[2]) \in Details
    BY DEF Reading
  <2>2. [q EXCEPT !.got = Detail(q.key[2])] \in Types
    BY <2>1
  <2> QED
    BY <2>2 DEF ServeDetail
<1>7. CASE \E q \in details : AnswerDetail(q)
  BY <1>7 DEF AnswerDetail, Show
<1>8. CASE \E q \in details : FailDetail(q)
  BY <1>8 DEF FailDetail
<1>9. CASE RetryDetail
  BY <1>9 DEF RetryDetail, Reload
<1>10. CASE \E m \in Messages : SendMark(m)
  BY <1>10 DEF SendMark, Displayed, Reading
<1>11. CASE \E k \in marks : ServeMark(k)
  BY <1>11 DEF ServeMark, Marked
<1>12. CASE \E k \in marks : ServeMarkDetail(k)
  <2> PICK k \in marks : ServeMarkDetail(k)
    BY <1>12
  <2> DEFINE Types == [thread : Threads, message : Messages, step : {"patch", "load", "replace"},
                      got : Details \cup {None}]
  <2>1. k \in Types
    OBVIOUS
  <2>2. Detail(k.thread) \in Details
    BY <2>1
  <2>3. [k EXCEPT !.step = "replace", !.got = Detail(k.thread)] \in Types
    BY <2>1, <2>2
  <2> QED
    BY <2>3 DEF ServeMarkDetail
<1>13. CASE \E k \in marks : Replace(k)
  BY <1>13 DEF Replace, Show
<1>14. CASE \E k \in marks : FailMark(k)
  BY <1>14 DEF FailMark
<1>15. CASE Refresh
  <2>1. [key |-> Key, latest |-> TRUE, purpose |-> "rows", got |-> None] \in Snapshots
    BY DEF Snapshots
  <2>2. \A q \in snapshots' : q \in Snapshots
    BY <1>15, <2>1 DEF Refresh, Begin
  <2> QED
    BY <1>15, <2>2 DEF Refresh, Reload
<1>16. CASE \E q \in snapshots : ServeSnapshot(q)
  <2> PICK q \in snapshots : ServeSnapshot(q)
    BY <1>16
  <2>1. q \in Snapshots /\ q.key[1] \in Lists
    BY DEF Snapshots
  <2>2. Rows(q.key[1]) \in RowCounts
    BY <2>1
  <2>3. [q EXCEPT !.got = Rows(q.key[1])] \in Snapshots
    BY <2>1, <2>2 DEF Snapshots, RowCounts
  <2> QED
    BY <2>3 DEF ServeSnapshot
<1>17. CASE \E q \in snapshots : AnswerSnapshot(q) \/ FailSnapshot(q)
  <2> PICK q \in snapshots : AnswerSnapshot(q) \/ FailSnapshot(q)
    BY <1>17
  <2>1. q.got # None => q.got \in RowCounts
    BY DEF Snapshots, RowCounts
  <2> QED
    BY <2>1 DEF AnswerSnapshot, FailSnapshot, EndSnapshot, ShowRows, RowCounts
<1>18. CASE \E t \in Threads : Check(t)
  BY <1>18 DEF Check
<1>19. CASE Uncheck \/ Dismiss
  BY <1>19 DEF Uncheck, Dismiss
<1>20. CASE MoveChecked \/ UndoLastMove
  <2>1. move' \in Moves /\ move'.ok = {} /\ move'.served = {}
    BY <1>20, MoveStarts, UndoStarts
  <2> QED
    BY <1>20, <2>1 DEF MoveChecked, UndoLastMove, Start
<1>21. CASE \E t \in Threads : ServePatch(t) \/ AnswerPatch(t)
  <2> PICK t \in Threads : ServePatch(t) \/ AnswerPatch(t)
    BY <1>21
  <2>1. /\ move \in Moves /\ move' \in Moves /\ move'.ids = move.ids
        /\ t \in move.ids /\ move'.ok \subseteq move'.served /\ move'.served \subseteq move.ids
    BY Serves, AnswersOne DEF SameMove, Moving
  <2>2. place' \in [Threads -> Lists]
    BY <2>1 DEF ServePatch, AnswerPatch, Moves
  <2> QED
    BY <2>1, <2>2 DEF ServePatch, AnswerPatch
<1>22. CASE \E t \in Threads : FailPatch(t)
  <2> PICK t \in Threads : FailPatch(t)
    BY <1>22
  <2>1. /\ move \in Moves /\ move' \in Moves /\ move'.ids = move.ids
        /\ move'.ok \subseteq move'.served /\ move'.served \subseteq move.ids
    BY Fails DEF SameMove
  <2>2. strays' \in [Threads \X Lists -> Nat]
    BY <2>1 DEF FailPatch, Moves
  <2> QED
    BY <2>1, <2>2 DEF FailPatch
<1>23. CASE \E t \in Threads, l \in Lists : ServeStray(t, l)
  BY <1>23 DEF ServeStray
<1>24. CASE ReconcileMove
  <2>1. [key |-> Key, latest |-> TRUE, purpose |-> "counts", got |-> None] \in Snapshots
    BY DEF Snapshots
  <2>2. \A q \in snapshots' : q \in Snapshots
    BY <1>24, <2>1 DEF ReconcileMove, Begin
  <2>3. \A back : Reconciled(back) \in RowCounts
    BY <1>24 DEF ReconcileMove, Reconciled, Moving, Moves, RowCounts
  <2>4. rows' \in RowCounts /\ refreshed' \in BOOLEAN
    <3> HIDE Answered
    <3>1. rows \in RowCounts
      BY DEF RowCounts
    <3>2. CASE list = move.list
      BY <1>24, <2>3, <3>1, <3>2 DEF ReconcileMove
    <3>3. CASE list # move.list
      BY <1>24, <3>1, <3>3 DEF ReconcileMove
    <3> QED
      BY <3>2, <3>3
  <2> QED
    BY <1>24, <2>2, <2>4, Reconciles DEF ReconcileMove, Reload, SameMove
<1>25. CASE SettleFailed \/ \E q \in snapshots : SettleMove(q)
  <2>1. /\ move' = None /\ (offer' = None \/ offer' \in Offers)
        /\ checked' \subseteq Threads
    BY <1>25, Settles DEF Moves
  <2>2. /\ UNCHANGED <<place, arrived, read, list, thread, shown, due, details, rows, refreshed,
                      refreshing, attempted, marks, strays, events>>
        /\ snapshots' \subseteq snapshots
    BY <1>25 DEF SettleFailed, SettleMove, Settle
  <2> HIDE DEF Key, Keys
  <2>3. Key' = Key
    BY <2>2 DEF Key
  <2> QED
    BY <2>1, <2>2, <2>3
<1> QED
  BY <1>1, <1>2, <1>3, <1>4, <1>5, <1>6, <1>7, <1>8, <1>9, <1>10, <1>11, <1>12, <1>13, <1>14,
     <1>15, <1>16, <1>17, <1>18, <1>19, <1>20, <1>21, <1>22, <1>23, <1>24, <1>25 DEF Next,
     Answers

-------------------------------------------------------------------------------
(* What the owner was shown *)

\* What is shown was answered, and read marks are of what is shown.
LEMMA StepReading == IInv /\ [Next]_vars => Reading'
<1> SUFFICES ASSUME IInv, [Next]_vars PROVE Reading'
  OBVIOUS
<1> USE ViewShape DEF IInv, vars, server, url, hook, lists, reading, pane, Reading, UnseenStaysUnread, TypeOK
<1>1. CASE \/ UNCHANGED vars
           \/ \E t \in Threads : Arrive(t) \/ Check(t) \/ ServePatch(t) \/ AnswerPatch(t) \/ FailPatch(t)
           \/ \E t \in Threads \cup {None} : Select(t)
           \/ OpenList \/ Uncheck \/ Dismiss \/ MoveChecked \/ UndoLastMove \/ SettleFailed
           \/ \E q \in snapshots : ServeSnapshot(q) \/ AnswerSnapshot(q) \/ FailSnapshot(q) \/ SettleMove(q)
           \/ \E t \in Threads, l \in Lists : ServeStray(t, l)
  <2>1. UNCHANGED <<details, shown, marks, seen, read>>
    <3> HIDE ViewShape DEF IInv, TypeOK, Reading, UnseenStaysUnread
    <3> QED
      BY <1>1 DEF Arrive, Select, OpenList, ServeSnapshot, AnswerSnapshot, FailSnapshot, Check,
         Uncheck, Dismiss, MoveChecked, UndoLastMove, ServePatch, AnswerPatch, FailPatch,
         ServeStray, SettleFailed, SettleMove,
            GoTo, Start, Settle
  <2> QED
    BY <2>1
<1>2. CASE LoadDetail
  BY <1>2 DEF LoadDetail, Stale, Key, Keys
<1>3. CASE \E q \in details : ServeDetail(q)
  BY <1>3 DEF ServeDetail
<1>4. CASE \E q \in details : AnswerDetail(q)
  <2> PICK q \in details : AnswerDetail(q)
    BY <1>4
  <2>1. q.key[2] \in Threads /\ (q.got # None => q.got \in Details)
    OBVIOUS
  <2>2. q.got # None => 1..q.got.count \subseteq Messages
    BY <2>1, Bounds DEF Details, Messages, Bounds
  <2> QED
    BY <2>1, <2>2 DEF AnswerDetail, Show
<1>5. CASE \E q \in details : FailDetail(q)
  BY <1>5 DEF FailDetail
<1>6. CASE RetryDetail \/ Refresh \/ ReconcileMove
  BY <1>6 DEF RetryDetail, Refresh, ReconcileMove, Reload, Stale
<1>7. CASE \E m \in Messages : SendMark(m)
  BY <1>7 DEF SendMark, Displayed, Key, Details, Messages
<1>8. CASE \E k \in marks : ServeMark(k)
  BY <1>8 DEF ServeMark, Marked
<1>9. CASE \E k \in marks : ServeMarkDetail(k)
  <2> PICK k \in marks : ServeMarkDetail(k)
    BY <1>9
  <2>1. k.thread \in Threads /\ Detail(k.thread) \in Details
    BY Answered
  <2> DEFINE loaded == [k EXCEPT !.step = "replace", !.got = Detail(k.thread)]
  <2>2. loaded.message = k.message /\ loaded.thread = k.thread /\ loaded.got = Detail(k.thread)
    OBVIOUS
  <2> HIDE DEF loaded
  <2>3. marks' \subseteq marks \cup {loaded} /\ UNCHANGED <<details, shown, seen, read>>
    BY DEF ServeMarkDetail, loaded
  <2> QED
    BY <2>1, <2>2, <2>3
<1>10. CASE \E k \in marks : Replace(k)
  <2> PICK k \in marks : Replace(k)
    BY <1>10
  <2>1. k.got \in Details /\ 1..k.got.count \subseteq Messages
    BY Bounds DEF Replace, Details, Messages, Bounds
  <2>2. Displayed => Key[2] \in Threads
    BY DEF Displayed
  <2> QED
    BY <2>1, <2>2 DEF Replace, Show
<1>11. CASE \E k \in marks : FailMark(k)
  BY <1>11 DEF FailMark
<1> QED
  BY <1>1, <1>2, <1>3, <1>4, <1>5, <1>6, <1>7, <1>8, <1>9, <1>10, <1>11 DEF Next, Answers

-------------------------------------------------------------------------------
(* What was moved *)

\* A move takes its conversations from the boxes, an Undo from the offer.
LEMMA StepMoving == IInv /\ [Next]_vars => Moving'
<1> SUFFICES ASSUME IInv, [Next]_vars PROVE Moving'
  OBVIOUS
<1> USE ViewShape DEF IInv, vars, server, url, hook, lists, reading, pane, Moving, Over
<1>1. CASE \/ UNCHANGED vars
           \/ \E t \in Threads : Arrive(t) \/ Check(t)
           \/ \E t \in Threads \cup {None} : Select(t)
           \/ LoadDetail \/ RetryDetail \/ Refresh
           \/ \E q \in details : ServeDetail(q) \/ AnswerDetail(q) \/ FailDetail(q)
           \/ \E m \in Messages : SendMark(m)
           \/ \E k \in marks : ServeMark(k) \/ ServeMarkDetail(k) \/ Replace(k) \/ FailMark(k)
           \/ \E q \in snapshots : ServeSnapshot(q) \/ AnswerSnapshot(q) \/ FailSnapshot(q)
           \/ \E t \in Threads, l \in Lists : ServeStray(t, l)
  BY <1>1 DEF Arrive, Select, LoadDetail, ServeDetail, AnswerDetail, FailDetail,
     RetryDetail, SendMark, ServeMark, ServeMarkDetail, Replace, FailMark, Refresh,
     ServeSnapshot, AnswerSnapshot, FailSnapshot, Check, ServeStray, GoTo
<1>2. CASE OpenList
  BY <1>2 DEF OpenList
<1>3. CASE Uncheck
  BY <1>3 DEF Uncheck
<1>4. CASE Dismiss
  BY <1>4 DEF Dismiss
<1>5. CASE MoveChecked
  BY <1>5, MoveStarts
<1>6. CASE UndoLastMove
  BY <1>6, UndoStarts
<1>7. CASE \E t \in Threads : ServePatch(t)
  BY <1>7, Serves DEF ServePatch, SameMove
<1>8. CASE \E t \in Threads : AnswerPatch(t)
  BY <1>8, AnswersOne DEF AnswerPatch, SameMove
<1>9. CASE \E t \in Threads : FailPatch(t)
  BY <1>9, Fails DEF FailPatch, SameMove
<1>10. CASE ReconcileMove
  BY <1>10, Reconciles DEF ReconcileMove, SameMove
<1>11. CASE \/ SettleFailed
           \/ \E q \in snapshots : SettleMove(q)
  BY <1>11, Settles DEF TypeOK, Moves, Other, Lists, Offers
<1> QED
  BY <1>1, <1>2, <1>3, <1>4, <1>5, <1>6, <1>7, <1>8, <1>9, <1>10, <1>11 DEF Next, Answers

\* The counts are awaited for the one move that was reconciled.
LEMMA StepCounting == IInv /\ [Next]_vars => Counting'
<1> SUFFICES ASSUME IInv, [Next]_vars PROVE Counting'
  OBVIOUS
<1> USE ViewShape DEF IInv, vars, server, url, hook, lists, reading, pane, Counting, Counted
<1>1. CASE \/ UNCHANGED vars
           \/ \E t \in Threads : Arrive(t) \/ Check(t)
           \/ LoadDetail \/ RetryDetail \/ Uncheck \/ Dismiss
           \/ \E q \in details : ServeDetail(q) \/ AnswerDetail(q) \/ FailDetail(q)
           \/ \E m \in Messages : SendMark(m)
           \/ \E k \in marks : ServeMark(k) \/ ServeMarkDetail(k) \/ Replace(k) \/ FailMark(k)
           \/ \E t \in Threads, l \in Lists : ServeStray(t, l)
  BY <1>1 DEF Arrive, LoadDetail, ServeDetail, AnswerDetail, FailDetail, RetryDetail,
     SendMark, ServeMark, ServeMarkDetail, Replace, FailMark, Check, Uncheck, Dismiss,
     ServeStray
<1>2. CASE \/ \E t \in Threads \cup {None} : Select(t)
           \/ OpenList
  BY <1>2 DEF Select, OpenList, GoTo, Superseded, Stale
<1>3. CASE Refresh
  <2>1. \A q \in Superseded : \E p \in Counted : q = [p EXCEPT !.latest = FALSE]
    BY DEF Superseded, Stale
  <2>2. \A q \in snapshots' : q \in Superseded \/ q.purpose = "rows"
    BY <1>3 DEF Refresh, Begin
  <2>3. UNCHANGED move
    BY <1>3 DEF Refresh
  <2> QED
    BY <2>1, <2>2, <2>3
<1>4. CASE \E q \in snapshots : ServeSnapshot(q)
  <2> PICK q \in snapshots : ServeSnapshot(q)
    BY <1>4
  <2>1. [q EXCEPT !.got = Rows(q.key[1])].purpose = "rows"
    BY DEF ServeSnapshot, TypeOK, Snapshots
  <2> QED
    BY <2>1 DEF ServeSnapshot
<1>5. CASE \E q \in snapshots : AnswerSnapshot(q) \/ FailSnapshot(q)
  BY <1>5 DEF AnswerSnapshot, FailSnapshot, EndSnapshot
<1>6. CASE MoveChecked \/ UndoLastMove
  BY <1>6 DEF MoveChecked, UndoLastMove, Start
<1>7. CASE \E t \in Threads : ServePatch(t)
  BY <1>7, Serves DEF ServePatch, SameMove
<1>8. CASE \E t \in Threads : AnswerPatch(t)
  BY <1>8, AnswersOne DEF AnswerPatch, SameMove
<1>9. CASE \E t \in Threads : FailPatch(t)
  BY <1>9, Fails DEF FailPatch, SameMove
<1>10. CASE ReconcileMove
  BY <1>10, Reconciles DEF ReconcileMove, Begin, Superseded, Stale, SameMove
<1>11. CASE SettleFailed
  BY <1>11 DEF SettleFailed
<1>12. CASE \E q \in snapshots : SettleMove(q)
  BY <1>12 DEF SettleMove, Settle
<1> QED
  BY <1>1, <1>2, <1>3, <1>4, <1>5, <1>6, <1>7, <1>8, <1>9, <1>10, <1>11, <1>12 DEF Next, Answers

\* A write is only given up once, and then it is no longer to be served.
LEMMA StepFresh == IInv /\ [Next]_vars => Fresh'
<1> SUFFICES ASSUME IInv, [Next]_vars PROVE Fresh'
  OBVIOUS
<1> USE ViewShape DEF IInv, vars, server, url, hook, lists, reading, pane, Fresh
<1>1. CASE \/ UNCHANGED vars
           \/ \E t \in Threads : Arrive(t) \/ Check(t)
           \/ \E t \in Threads \cup {None} : Select(t)
           \/ OpenList \/ LoadDetail \/ RetryDetail \/ Refresh \/ Uncheck \/ Dismiss
           \/ \E q \in details : ServeDetail(q) \/ AnswerDetail(q) \/ FailDetail(q)
           \/ \E m \in Messages : SendMark(m)
           \/ \E k \in marks : ServeMark(k) \/ ServeMarkDetail(k) \/ Replace(k) \/ FailMark(k)
           \/ \E q \in snapshots : ServeSnapshot(q) \/ AnswerSnapshot(q) \/ FailSnapshot(q)
  BY <1>1 DEF Arrive, Select, OpenList, LoadDetail, ServeDetail, AnswerDetail, FailDetail,
     RetryDetail, SendMark, ServeMark, ServeMarkDetail, Replace, FailMark, Refresh,
     ServeSnapshot, AnswerSnapshot, FailSnapshot, Check, Uncheck, Dismiss, GoTo
<1>2. CASE MoveChecked
  BY <1>2, MoveStarts
<1>3. CASE UndoLastMove
  BY <1>3, UndoStarts
<1>4. CASE \E t \in Threads : ServePatch(t)
  <2> PICK t \in Threads : ServePatch(t)
    BY <1>4
  <2> QED
    BY Serves DEF ServePatch, SameMove
<1>5. CASE \E t \in Threads : AnswerPatch(t)
  <2> PICK t \in Threads : AnswerPatch(t)
    BY <1>5
  <2>1. SameMove /\ move'.todo \cup move'.served \subseteq move.todo \cup move.served
    BY AnswersOne
  <2>2. UNCHANGED strays
    BY DEF AnswerPatch
  <2> QED
    BY <2>1, <2>2 DEF SameMove
<1>6. CASE \E t \in Threads : FailPatch(t)
  <2> PICK t \in Threads : FailPatch(t)
    BY <1>6
  <2>1. /\ SameMove /\ t \in move.todo
        /\ move'.todo \cup move'.served \subseteq move.todo \cup move.served
    BY Fails
  <2>2. t \notin move.served => t \notin move'.todo \cup move'.served
    BY Fails
  <2>3. \A u \in Threads, l \in Lists :
          u # t \/ t \in move.served => strays'[<<u, l>>] = strays[<<u, l>>]
    BY <2>1 DEF FailPatch, TypeOK
  <2>4. move.alone \subseteq Threads
    BY <2>1 DEF SameMove, TypeOK, Moves
  <2> QED
    BY <2>1, <2>2, <2>3, <2>4 DEF SameMove
<1>7. CASE \E t \in Threads, l \in Lists : ServeStray(t, l)
  BY <1>7 DEF ServeStray, TypeOK
<1>8. CASE ReconcileMove
  BY <1>8, Reconciles DEF ReconcileMove, SameMove
<1>9. CASE \/ SettleFailed
           \/ \E q \in snapshots : SettleMove(q)
  BY <1>9, Settles
<1> QED
  BY <1>1, <1>2, <1>3, <1>4, <1>5, <1>6, <1>7, <1>8, <1>9 DEF Next, Answers

\* What was moved stays offered or checked, or is brought back for good.
LEMMA StepKept == IInv /\ [Next]_vars => Kept'
<1> SUFFICES ASSUME IInv, [Next]_vars PROVE Kept'
  OBVIOUS
<1> USE ViewShape DEF IInv, vars, server, url, hook, lists, reading, pane, Kept, KeptAway, Over
<1>1. CASE \/ UNCHANGED vars
           \/ \E t \in Threads : Arrive(t)
           \/ \E t \in Threads \cup {None} : Select(t)
           \/ LoadDetail \/ RetryDetail \/ Refresh
           \/ \E q \in details : ServeDetail(q) \/ AnswerDetail(q) \/ FailDetail(q)
           \/ \E m \in Messages : SendMark(m)
           \/ \E k \in marks : ServeMark(k) \/ ServeMarkDetail(k) \/ Replace(k) \/ FailMark(k)
           \/ \E q \in snapshots : ServeSnapshot(q) \/ AnswerSnapshot(q) \/ FailSnapshot(q)
  BY <1>1 DEF Arrive, Select, LoadDetail, ServeDetail, AnswerDetail, FailDetail,
     RetryDetail, SendMark, ServeMark, ServeMarkDetail, Replace, FailMark, Refresh,
     ServeSnapshot, AnswerSnapshot, FailSnapshot, GoTo, OfferedIds
<1>2. CASE OpenList
  BY <1>2 DEF OpenList
<1>3. CASE Uncheck
  BY <1>3 DEF Uncheck
<1>4. CASE Dismiss
  BY <1>4 DEF Dismiss
<1>5. CASE \E t \in Threads : Check(t)
  BY <1>5 DEF Check, OfferedIds
<1>6. CASE MoveChecked
  BY <1>6, MoveStarts
<1>7. CASE UndoLastMove
  BY <1>7, UndoStarts DEF Moving, OfferedIds
<1>8. CASE \E t \in Threads : ServePatch(t)
  <2> PICK t \in Threads : ServePatch(t)
    BY <1>8
  <2>1. SameMove /\ move'.served = move.served \cup {t}
    BY Serves
  <2>2. UNCHANGED <<moved, offer, checked, strays>>
    BY DEF ServePatch
  <2>3. Over => /\ place'[t] # moved.to
                /\ \A u \in Threads \ {t} : place'[u] = place[u]
                /\ moved.ids \subseteq Threads
    <3>1. place'[t] = move.to /\ \A u \in Threads \ {t} : place'[u] = place[u]
      BY DEF ServePatch, TypeOK
    <3>2. Over => move.to # moved.to /\ moved.ids \subseteq Threads
      BY <2>1 DEF Moving, SameMove, Other, Lists
    <3> QED
      BY <3>1, <3>2
  <2> QED
    BY <2>1, <2>2, <2>3 DEF SameMove, OfferedIds
<1>9. CASE \E t \in Threads : AnswerPatch(t)
  <2> PICK t \in Threads : AnswerPatch(t)
    BY <1>9
  <2> QED
    BY AnswersOne DEF AnswerPatch, SameMove, OfferedIds
<1>10. CASE \E t \in Threads : FailPatch(t)
  <2> PICK t \in Threads : FailPatch(t)
    BY <1>10
  <2> QED
    BY Fails DEF FailPatch, SameMove, Moving, TypeOK, Other, Lists, OfferedIds
<1>11. CASE \E t \in Threads, l \in Lists : ServeStray(t, l)
  BY <1>11 DEF ServeStray, TypeOK, Moving, OfferedIds
<1>12. CASE ReconcileMove
  BY <1>12, Reconciles DEF ReconcileMove, SameMove, OfferedIds
<1>13. CASE SettleFailed \/ \E q \in snapshots : SettleMove(q)
  <2>1. /\ move # None /\ move' = None /\ UNCHANGED <<place, strays>>
        /\ move \in Moves /\ move.ok \subseteq move.served /\ move.served \subseteq move.ids
    BY <1>13, Settles DEF TypeOK
  <2>2. CASE move.undo
    <3>1. UNCHANGED <<checked, moved>> /\ OfferedIds' = move.ids \ move.ok
      BY <1>13, <2>2, Settles
    <3>2. Over => OfferedIds = move.ids
      BY <2>1, <2>2 DEF Moving, OfferedIds
    <3> QED
      BY <2>1, <2>2, <3>1, <3>2
  <2>3. CASE ~move.undo
    <3>1. /\ checked' = move.ids \ move.ok /\ OfferedIds' = move.ok
          /\ moved'.ids = move.alone /\ moved'.to = move.to
      BY <1>13, <2>3, Settles
    <3>2. \A t \in move.alone : t \in move.ok => strays[<<t, move.to>>] = 0
      BY <2>1, <2>3 DEF Fresh, Moves
    <3>3. move.alone \subseteq move.ids
      BY <2>1 DEF Moving
    <3> QED
      BY <2>1, <3>1, <3>2, <3>3
  <2> QED
    BY <2>2, <2>3
<1> QED
  BY <1>1, <1>2, <1>3, <1>4, <1>5, <1>6, <1>7, <1>8, <1>9, <1>10, <1>11, <1>12, <1>13 DEF Next, Answers

-------------------------------------------------------------------------------
(* Theorems *)

\* The invariant holds in every state, whatever the owner, the mail and the network do.
THEOREM Invariance == Spec => []IInv
<1>1. IInv /\ [Next]_vars => IInv'
  BY StepTypes, StepReading, StepMoving, StepCounting, StepFresh, StepKept DEF IInv
<1> QED
  BY InitIInv, <1>1, PTL DEF Spec

\* The state of the page and the tables behind it keep their shape.
THEOREM TypeCorrect == Spec => []TypeOK
<1>1. IInv => TypeOK
  BY DEF IInv
<1> QED
  BY Invariance, <1>1, PTL

\* A message is read only after a load of its conversation brought it to the pane: read marks
\* name messages that were shown, and the write marks no other.
THEOREM UnseenUnread == Spec => []UnseenStaysUnread
<1>1. IInv => UnseenStaysUnread
  BY DEF IInv, Reading
<1> QED
  BY Invariance, <1>1, PTL

\* What a bulk move took away is offered back or checked: its late writes are those of
\* conversations the pane was told had failed.
THEOREM MovesAccounted == Spec => []MovesAreAccounted
<1>1. IInv => MovesAreAccounted
  BY DEF IInv, Kept, KeptAway, Over, OfferedIds, MovesAreAccounted
<1> QED
  BY Invariance, <1>1, PTL
================================================================================
