-------------------------- MODULE ThreadListingProofs --------------------------
(***************************************************************************)
(* What the columns of a thread say of its messages, and what a client     *)
(* sees that walks the list of threads, for any number of messages and     *)
(* threads, any size of a page, and whatever arrives during the walk.      *)
(***************************************************************************)
EXTENDS ThreadListing, FiniteSetTheorems, WellFoundedInduction, TLAPS

-----------------------------------------------------------------------------
(* The order of messages *)

\* The order that ORDER BY sent_at, id puts messages in is total and strict.
LEMMA BeforeIsTotal ==
  /\ \A m \in Messages : ~Before(m, m)
  /\ \A m, n \in Messages : m = n \/ Before(m, n) \/ Before(n, m)
  /\ \A m, n, o \in Messages : Before(m, n) /\ Before(n, o) => Before(m, o)
BY IdShape DEF Before, IdShape

\* The message after which fewest come is the last one: the maximum that Newest chooses.
LEMMA LastExists ==
  ASSUME NEW S \in SUBSET Messages, S # {}
  PROVE  \E m \in S : \A n \in S \ {m} : Before(n, m)
<1> DEFINE Later(m) == {n \in S : Before(m, n)}
           Sizes == {Cardinality(Later(m)) : m \in S}
           Less == OpToRel(<, Nat)
<1>1. IsFiniteSet(S)
  BY FS_Subset, IdShape DEF IdShape
<1>2. \A m \in S : IsFiniteSet(Later(m)) /\ Cardinality(Later(m)) \in Nat
  BY <1>1, FS_Subset, FS_CardinalityType
<1>3. Sizes \subseteq Nat /\ Sizes # {}
  BY <1>2
<1>4. PICK k \in Sizes : \A l \in Sizes : ~(<<l, k>> \in Less)
  <2>1. IsWellFoundedOn(Less, Nat)
    BY NatLessThanWellFounded
  <2> QED
    BY <1>3, <2>1, WFMin
<1>5. PICK m \in S : k = Cardinality(Later(m))
  OBVIOUS
<1>6. ASSUME NEW n \in S, Before(m, n) PROVE FALSE
  <2>1. Later(n) \subseteq Later(m) /\ n \in Later(m) /\ n \notin Later(n)
    BY <1>6, BeforeIsTotal
  <2>2. Cardinality(Later(n)) < Cardinality(Later(m))
    <3> HIDE DEF Later
    <3> QED
      BY <2>1, <1>2, FS_Subset
  <2>3. <<Cardinality(Later(n)), k>> \in Less
    BY <2>2, <1>2, <1>5 DEF OpToRel
  <2> QED
    BY <2>3, <1>4
<1> QED
  BY <1>6, BeforeIsTotal

LEMMA NewestIsLast ==
  ASSUME NEW S \in SUBSET Messages, S # {}
  PROVE  /\ Newest(S) \in S
         /\ \A n \in S \ {Newest(S)} : Before(n, Newest(S))
BY LastExists DEF Newest

\* Adding a message moves the newest to it exactly if it comes after.
LEMMA NewestOfMore ==
  ASSUME NEW S \in SUBSET Messages, NEW m \in Messages \ S
  PROVE  Newest(S \cup {m}) = IF S = {} \/ Before(Newest(S), m) THEN m ELSE Newest(S)
<1> DEFINE T == S \cup {m}
<1>1. Newest(T) \in T /\ \A n \in T \ {Newest(T)} : Before(n, Newest(T))
  BY NewestIsLast
<1>2. CASE S = {}
  BY <1>1, <1>2
<1>3. CASE S # {}
  <2>1. Newest(S) \in S /\ \A n \in S \ {Newest(S)} : Before(n, Newest(S))
    BY <1>3, NewestIsLast
  <2>2. CASE Before(Newest(S), m)
    <3>1. SUFFICES ASSUME Newest(T) # m PROVE FALSE
      BY <1>3, <2>2
    <3>2. Newest(T) \in S /\ Before(m, Newest(T))
      BY <1>1, <3>1
    <3> QED
      BY <3>2, <2>1, <2>2, BeforeIsTotal
  <2>3. CASE ~Before(Newest(S), m)
    <3>1. Before(m, Newest(S))
      BY <2>1, <2>3, BeforeIsTotal
    <3>2. SUFFICES ASSUME Newest(T) # Newest(S) PROVE FALSE
      BY <1>3, <2>3
    <3>3. Before(Newest(S), Newest(T))
      BY <1>1, <2>1, <3>2
    <3> QED
      BY <1>1, <2>1, <3>1, <3>2, <3>3, BeforeIsTotal
  <2> QED
    BY <2>2, <2>3
<1> QED
  BY <1>2, <1>3

-----------------------------------------------------------------------------
(* The inductive invariant *)

\* What a thread row says, of the messages table ms.  Only a thread that is stored has
\* messages, and one that is not made yet starts from nothing.
True(ms, row, t) ==
  /\ row.state = "absent" => row = NoThread
  /\ row.state # "stored" => Of(ms, t) = {}
  /\ row.state = "stored" =>
       /\ row.count = Cardinality(Of(ms, t))
       /\ row.unread = Cardinality(UnreadOf(ms, t))
  /\ Of(ms, t) # {} => row.latest = Newest(Of(ms, t)) /\ row.lastAt = SentAt[row.latest]
  /\ InboxOf(ms, t) # {} => row.archived = "no"

Housed == \A m \in Messages : messages[m].state = "stored" => messages[m].thread \in Threads

IInv == TypeOK /\ Housed /\ \A t \in Threads : True(messages, threads[t], t)

LEMMA InitIInv == Init => IInv
<1> SUFFICES ASSUME Init PROVE IInv
  OBVIOUS
<1>1. TypeOK
  BY IdShape DEF Init, TypeOK, NoMessage, NoThread, MessageRow, ThreadRow, RowStates, Marks, IdShape
<1>2. \A t \in Threads : Of(messages, t) = {} /\ InboxOf(messages, t) = {}
  BY DEF Init, Of, InboxOf, NoMessage
<1>3. \A t \in Threads : threads[t] = NoThread /\ NoThread.state = "absent"
  BY DEF Init, NoThread
<1> QED
  BY <1>1, <1>2, <1>3 DEF IInv, Housed, True, Init, NoMessage

\* The sets that counts count are finite.
LEMMA Countable ==
  ASSUME NEW ms, NEW t
  PROVE  /\ IsFiniteSet(Of(ms, t)) /\ Cardinality(Of(ms, t)) \in Nat
         /\ IsFiniteSet(UnreadOf(ms, t)) /\ Cardinality(UnreadOf(ms, t)) \in Nat
<1>1. Of(ms, t) \in SUBSET Messages /\ UnreadOf(ms, t) \in SUBSET Messages
  BY DEF Of, UnreadOf
<1> QED
  BY <1>1, IdShape, FS_Subset, FS_CardinalityType DEF IdShape

\* A step that touches the messages and the row of one thread leaves what the other threads
\* say as true as it was.
LEMMA OneThread ==
  ASSUME IInv, TypeOK', NEW t \in Threads,
         \A m \in Messages : messages'[m].state = "stored" => messages'[m].thread \in Threads,
         \A m \in Messages : \/ messages'[m] = messages[m]
                             \/ /\ messages[m].state = "stored" => messages[m].thread = t
                                /\ messages'[m].state = "stored" => messages'[m].thread = t,
         \A u \in Threads \ {t} : threads'[u] = threads[u],
         True(messages', threads'[t], t)
  PROVE  IInv'
<1>1. ASSUME NEW u \in Threads \ {t}
      PROVE  True(messages', threads'[u], u)
  <2>1. Of(messages', u) = Of(messages, u)
    BY DEF Of
  <2>2. \A m \in Of(messages, u) : messages'[m] = messages[m]
    BY DEF Of
  <2>3. UnreadOf(messages', u) = UnreadOf(messages, u) /\ InboxOf(messages', u) = InboxOf(messages, u)
    BY <2>1, <2>2 DEF UnreadOf, InboxOf
  <2> QED
    BY <2>1, <2>3 DEF IInv, True
<1>2. \A u \in Threads : True(messages', threads'[u], u)
  BY <1>1
<1> QED
  BY <1>2 DEF IInv, Housed

-----------------------------------------------------------------------------
(* Projections *)

\* The row of thread t after a message with these marks was added to it.
Sums(row, t, marks) ==
  /\ row \in ThreadRow /\ row.state = "stored" /\ row.archived = threads[t].archived
  /\ row.count = Cardinality(Of(messages', t))
  /\ row.unread = Cardinality(UnreadOf(messages', t))
  /\ row.latest = Newest(Of(messages', t))
  /\ row.lastAt = SentAt[row.latest]
  /\ InboxOf(messages', t) # {} =>
       InboxOf(messages, t) # {} \/ ("inbox" \in marks /\ "spam" \notin marks)

\* Adding one to the count and comparing with the latest message is enough.
LEMMA CountedIsTrue ==
  ASSUME IInv, NEW t \in Threads, NEW m \in Messages, messages[m].state = "absent",
         threads[t].state # "deleted",
         NEW direction \in {"inbound", "outbound"}, NEW marks \in SUBSET Marks,
         "read" \notin marks,
         messages'[m] = NewRow(t, direction, marks),
         \A n \in Messages \ {m} : messages'[n] = messages[n],
         NEW unread \in Nat, direction = "inbound" => unread = 1, direction # "inbound" => unread = 0,
         NEW row, row = Counted(threads[t], m, unread)
  PROVE  Sums(row, t, marks)
<1> DEFINE S == Of(messages, t)
           U == UnreadOf(messages, t)
<1>1. TypeOK /\ True(messages, threads[t], t) /\ threads[t] \in ThreadRow
  BY DEF IInv, TypeOK
<1>2. /\ messages'[m].state = "stored" /\ messages'[m].thread = t
      /\ messages'[m].direction = direction /\ messages'[m].marks = marks
      /\ \A n \in Messages \ {m} : messages'[n] = messages[n]
  BY DEF NewRow
<1>3. m \notin S /\ Of(messages', t) = S \cup {m}
  BY <1>2 DEF Of
<1>4. m \notin U /\ UnreadOf(messages', t) = IF direction = "inbound" THEN U \cup {m} ELSE U
  <2>1. \A n \in S : messages'[n] = messages[n]
    BY <1>2, <1>3 DEF Of
  <2>2. UnreadOf(messages', t) = {n \in S \cup {m} : messages'[n].direction = "inbound" /\ "read" \notin messages'[n].marks}
    BY <1>3 DEF UnreadOf
  <2>3. m \notin U
    BY <1>3 DEF UnreadOf
  <2>4. CASE direction = "inbound"
    BY <2>1, <2>2, <2>3, <2>4, <1>2, <1>3 DEF UnreadOf
  <2>5. CASE direction # "inbound"
    BY <2>1, <2>2, <2>3, <2>5, <1>2, <1>3 DEF UnreadOf
  <2> QED
    BY <2>3, <2>4, <2>5
<1>5. threads[t].count = Cardinality(S) /\ threads[t].unread = Cardinality(U)
  <2>1. CASE threads[t].state = "absent"
    <3>1. S = {} /\ U = {} /\ threads[t] = NoThread
      BY <1>1, <2>1 DEF True, UnreadOf
    <3> QED
      BY <3>1, FS_EmptySet DEF NoThread
  <2>2. CASE threads[t].state = "stored"
    BY <1>1, <2>2 DEF True
  <2> QED
    BY <2>1, <2>2, <1>1 DEF ThreadRow, RowStates
<1>6. row.count = Cardinality(Of(messages', t))
  <2>1. Cardinality(S \cup {m}) = Cardinality(S) + 1
    BY <1>3, Countable, FS_AddElement
  <2> QED
    BY <2>1, <1>3, <1>5 DEF Counted
<1>7. row.unread = Cardinality(UnreadOf(messages', t))
  <2>1. Cardinality(U \cup {m}) = Cardinality(U) + 1
    BY <1>4, Countable, FS_AddElement
  <2>2. Cardinality(U) + 0 = Cardinality(U)
    BY Countable
  <2> QED
    BY <2>1, <2>2, <1>4, <1>5 DEF Counted
<1>8. S \in SUBSET Messages /\ m \in Messages \ S
  BY <1>3 DEF Of
<1>9. Newest(S \cup {m}) = IF Overtakes(m, threads[t]) THEN m ELSE threads[t].latest
  <2>1. Newest(S \cup {m}) = IF S = {} \/ Before(Newest(S), m) THEN m ELSE Newest(S)
    BY <1>8, NewestOfMore
  <2>2. CASE S = {}
    BY <2>1, <2>2, <1>5, FS_EmptySet DEF Overtakes
  <2>3. CASE S # {}
    <3>1. threads[t].latest = Newest(S) /\ threads[t].lastAt = SentAt[Newest(S)]
      BY <1>1, <2>3 DEF True
    <3>2. threads[t].count # 0
      BY <1>5, <2>3, Countable, FS_EmptySet
    <3>3. Overtakes(m, threads[t]) <=> Before(Newest(S), m)
      BY <3>1, <3>2 DEF Overtakes, Before
    <3> QED
      BY <2>1, <2>3, <3>1, <3>3
  <2> QED
    BY <2>2, <2>3
<1>10. row.latest = Newest(Of(messages', t)) /\ row.lastAt = SentAt[row.latest]
  <2>1. CASE Overtakes(m, threads[t])
    BY <2>1, <1>3, <1>9 DEF Counted
  <2>2. CASE ~Overtakes(m, threads[t])
    <3>1. S # {}
      BY <2>2, <1>5, FS_EmptySet DEF Overtakes
    <3>2. threads[t].lastAt = SentAt[threads[t].latest]
      BY <3>1, <1>1 DEF True
    <3> QED
      BY <2>2, <3>2, <1>3, <1>9 DEF Counted
  <2> QED
    BY <2>1, <2>2
<1>11. row \in ThreadRow
  BY <1>1, IdShape DEF Counted, ThreadRow, RowStates, IdShape
<1>12. InboxOf(messages', t) # {} => InboxOf(messages, t) # {} \/ ("inbox" \in marks /\ "spam" \notin marks)
  <2>1. \A n \in S : messages'[n] = messages[n]
    BY <1>2, <1>3 DEF Of
  <2>2. SUFFICES ASSUME NEW n \in InboxOf(messages', t)
                 PROVE  n \in InboxOf(messages, t) \/ ("inbox" \in marks /\ "spam" \notin marks)
    OBVIOUS
  <2>3. CASE n = m
    BY <2>3, <1>2 DEF InboxOf, InInbox
  <2>4. CASE n \in S
    BY <2>1, <2>4 DEF InboxOf
  <2> QED
    BY <2>3, <2>4, <1>3 DEF InboxOf
<1> QED
  BY <1>6, <1>7, <1>10, <1>11, <1>12 DEF Counted, Sums

LEMMA InboundKeeps ==
  ASSUME IInv, NEW m \in Messages, NEW t \in Threads, NEW marks \in Captured,
         ProjectInbound(m, t, marks)
  PROVE  IInv'
<1> DEFINE row == Counted(threads[t], m, 1)
<1>1. marks \in SUBSET Marks /\ "read" \notin marks /\ ("inbox" \in marks => "spam" \notin marks)
  BY DEF Captured, Marks
<1>2. /\ messages[m].state = "absent" /\ threads[t].state # "deleted"
      /\ messages' = [messages EXCEPT ![m] = NewRow(t, "inbound", marks)]
      /\ threads' = [threads EXCEPT ![t] = Reopened(row, marks)]
  BY DEF ProjectInbound
<1>3. Sums(row, t, marks)
  <2> SUFFICES ASSUME NEW direction \in {"inbound", "outbound"}, direction = "inbound",
                      NEW unread \in Nat, unread = 1
               PROVE  Sums(row, t, marks)
    OBVIOUS
  <2>1. row = Counted(threads[t], m, unread)
    OBVIOUS
  <2>2. messages'[m] = NewRow(t, direction, marks) /\ \A n \in Messages \ {m} : messages'[n] = messages[n]
    BY <1>2 DEF IInv, TypeOK
  <2> HIDE DEF row
  <2> QED
    BY <2>1, <2>2, <1>1, <1>2, CountedIsTrue
<1> HIDE DEF row
<1>4. TypeOK /\ True(messages, threads[t], t)
  BY DEF IInv
<1>5. threads'[t] = [row EXCEPT !.archived = IF "spam" \in marks THEN row.archived ELSE "no"]
  BY <1>2, <1>4 DEF TypeOK, Reopened
<1>6. messages'[m] = NewRow(t, "inbound", marks) /\ \A n \in Messages \ {m} : messages'[n] = messages[n]
  BY <1>2, <1>4 DEF TypeOK
<1>7. NewRow(t, "inbound", marks) \in MessageRow
  BY <1>1 DEF NewRow, MessageRow, RowStates
<1>8. threads'[t] \in ThreadRow
  BY <1>3, <1>5 DEF ThreadRow, Sums
<1>9. TypeOK'
  BY <1>1, <1>2, <1>4, <1>5, <1>6, <1>7, <1>8 DEF TypeOK, NewRow
<1>10. True(messages', threads'[t], t)
  <2>1. InboxOf(messages', t) # {} => threads'[t].archived = "no"
    BY <1>1, <1>3, <1>4, <1>5 DEF True, ThreadRow, Sums
  <2> QED
    BY <2>1, <1>3, <1>5 DEF True, ThreadRow, Sums
<1>11. \A n \in Messages : messages'[n].state = "stored" => messages'[n].thread \in Threads
  BY <1>6 DEF IInv, Housed, NewRow
<1>12. \A n \in Messages : \/ messages'[n] = messages[n]
                           \/ /\ messages[n].state = "stored" => messages[n].thread = t
                              /\ messages'[n].state = "stored" => messages'[n].thread = t
  BY <1>2, <1>6 DEF NewRow
<1>13. \A u \in Threads \ {t} : threads'[u] = threads[u]
  BY <1>2, <1>4 DEF TypeOK
<1> QED
  BY <1>9, <1>10, <1>11, <1>12, <1>13, OneThread

LEMMA ReserveKeeps ==
  ASSUME IInv, NEW t \in Threads, NEW now \in Times, ReserveThread(t, now)
  PROVE  IInv'
<1> DEFINE row == [NoThread EXCEPT !.state = "stored", !.lastAt = now]
<1>1. TypeOK /\ True(messages, threads[t], t)
  BY DEF IInv
<1>2. threads[t].state = "absent" /\ messages' = messages /\ threads' = [threads EXCEPT ![t] = row]
  BY DEF ReserveThread
<1>3. row \in ThreadRow /\ row.state = "stored" /\ row.count = 0 /\ row.unread = 0
  BY IdShape DEF NoThread, ThreadRow, RowStates, IdShape
<1>4. threads'[t] = row /\ \A u \in Threads \ {t} : threads'[u] = threads[u]
  BY <1>1, <1>2 DEF TypeOK
<1> HIDE DEF row
<1>5. TypeOK'
  BY <1>1, <1>2, <1>3 DEF TypeOK
<1>6. Of(messages, t) = {} /\ UnreadOf(messages, t) = {} /\ InboxOf(messages, t) = {}
  BY <1>1, <1>2 DEF True, UnreadOf, InboxOf
<1>7. True(messages', threads'[t], t)
  BY <1>2, <1>3, <1>4, <1>6, FS_EmptySet DEF True
<1> QED
  BY <1>2, <1>4, <1>5, <1>7, OneThread DEF IInv, Housed

LEMMA OutboundKeeps ==
  ASSUME IInv, NEW m \in Messages, NEW t \in Threads, ProjectOutbound(m, t)
  PROVE  IInv'
<1> DEFINE row == Counted(threads[t], m, 0)
<1>1. /\ messages[m].state = "absent" /\ threads[t].state = "stored"
      /\ messages' = [messages EXCEPT ![m] = NewRow(t, "outbound", {})]
      /\ threads' = [threads EXCEPT ![t] = row]
  BY DEF ProjectOutbound
<1>2. Sums(row, t, {})
  <2> SUFFICES ASSUME NEW direction \in {"inbound", "outbound"}, direction = "outbound",
                      NEW unread \in Nat, unread = 0,
                      NEW marks \in SUBSET Marks, marks = {}
               PROVE  Sums(row, t, marks)
    OBVIOUS
  <2>1. row = Counted(threads[t], m, unread) /\ threads[t].state # "deleted"
    BY <1>1
  <2>2. messages'[m] = NewRow(t, direction, marks) /\ \A n \in Messages \ {m} : messages'[n] = messages[n]
    BY <1>1 DEF IInv, TypeOK
  <2> HIDE DEF row
  <2> QED
    BY <2>1, <2>2, <1>1, CountedIsTrue
<1> HIDE DEF row
<1>3. TypeOK /\ True(messages, threads[t], t)
  BY DEF IInv
<1>4. threads'[t] = row /\ \A u \in Threads \ {t} : threads'[u] = threads[u]
  BY <1>1, <1>3 DEF TypeOK
<1>5. messages'[m] = NewRow(t, "outbound", {}) /\ \A n \in Messages \ {m} : messages'[n] = messages[n]
  BY <1>1, <1>3 DEF TypeOK
<1>6. NewRow(t, "outbound", {}) \in MessageRow
  BY DEF NewRow, MessageRow, RowStates
<1>7. TypeOK'
  BY <1>1, <1>2, <1>3, <1>5, <1>6 DEF TypeOK, Sums, NewRow
<1>8. True(messages', threads'[t], t)
  BY <1>2, <1>3, <1>4 DEF True, Sums
<1>9. \A n \in Messages : messages'[n].state = "stored" => messages'[n].thread \in Threads
  BY <1>5 DEF IInv, Housed, NewRow
<1>10. \A n \in Messages : \/ messages'[n] = messages[n]
                           \/ /\ messages[n].state = "stored" => messages[n].thread = t
                              /\ messages'[n].state = "stored" => messages'[n].thread = t
  BY <1>1, <1>5 DEF NewRow
<1> QED
  BY <1>4, <1>7, <1>8, <1>9, <1>10, OneThread

-----------------------------------------------------------------------------
(* The owner's marks *)

LEMMA PatchedIsARow ==
  ASSUME NEW row \in MessageRow, NEW patch \in Patches
  PROVE  /\ Patched(patch, row) \in MessageRow
         /\ Patched(patch, row).state = row.state /\ Patched(patch, row).thread = row.thread
         /\ Patched(patch, row).direction = row.direction
         /\ row.direction = "outbound" /\ "read" \notin row.marks => "read" \notin Patched(patch, row).marks
<1> DEFINE marks == (row.marks \ (Taken(patch) \cup ReadTaken(patch))) \cup Put(patch) \cup ReadPut(patch, row)
<1>1. Put(patch) \in SUBSET Marks /\ ReadPut(patch, row) \in SUBSET Marks
  BY DEF Put, ReadPut, Marks
<1>2. row.marks \in SUBSET Marks
  BY DEF MessageRow
<1>3. marks \in SUBSET Marks
  BY <1>1, <1>2
<1>4. Patched(patch, row) = [row EXCEPT !.marks = marks]
  BY DEF Patched
<1>5. row.direction = "outbound" /\ "read" \notin row.marks => "read" \notin marks
  BY DEF Put, ReadPut
<1> HIDE DEF marks
<1> QED
  BY <1>3, <1>4, <1>5 DEF MessageRow

\* Counting again makes a row true, whatever it said before.
LEMMA RecountedIsTrue ==
  ASSUME IInv, NEW t \in Threads, threads[t].state = "stored",
         Of(messages', t) = Of(messages, t)
  PROVE  /\ Recounted(threads[t], messages', t) \in ThreadRow
         /\ True(messages', Recounted(threads[t], messages', t), t)
<1> DEFINE row == Recounted(threads[t], messages', t)
<1>1. threads[t] \in ThreadRow /\ True(messages, threads[t], t)
  BY DEF IInv, TypeOK
<1>2. Cardinality(Of(messages', t)) \in Nat /\ Cardinality(UnreadOf(messages', t)) \in Nat
  BY Countable
<1>3. row = [threads[t] EXCEPT !.count = Cardinality(Of(messages', t)),
                               !.unread = Cardinality(UnreadOf(messages', t)),
                               !.archived = IF InboxOf(messages', t) # {} THEN "no" ELSE "yes"]
  BY DEF Recounted
<1>4. row \in ThreadRow
  BY <1>1, <1>2, <1>3 DEF ThreadRow
<1>5. /\ row.state = "stored" /\ row.latest = threads[t].latest /\ row.lastAt = threads[t].lastAt
      /\ row.count = Cardinality(Of(messages', t)) /\ row.unread = Cardinality(UnreadOf(messages', t))
      /\ row.archived = IF InboxOf(messages', t) # {} THEN "no" ELSE "yes"
  BY <1>1, <1>3 DEF ThreadRow
<1> HIDE DEF row
<1>6. True(messages', row, t)
  BY <1>1, <1>5 DEF True
<1> QED
  BY <1>4, <1>6 DEF row

LEMMA PatchKeeps ==
  ASSUME IInv, NEW t \in Threads, NEW selected \in SUBSET Of(messages, t), NEW patch \in Patches,
         PatchMessages(t, selected, patch)
  PROVE  IInv'
<1>1. TypeOK
  BY DEF IInv
<1>2. /\ threads[t].state = "stored"
      /\ messages' = [m \in Messages |->
           IF m \in selected THEN Patched(patch, messages[m]) ELSE messages[m]]
      /\ threads' = [threads EXCEPT ![t] = Recounted(threads[t], messages', t)]
  BY DEF PatchMessages
<1>3. ASSUME NEW m \in Messages
      PROVE  /\ messages'[m] \in MessageRow
             /\ messages'[m].state = messages[m].state /\ messages'[m].thread = messages[m].thread
             /\ m \notin selected => messages'[m] = messages[m]
             /\ messages'[m].direction = "outbound" => "read" \notin messages'[m].marks
  <2>1. messages[m] \in MessageRow /\ (messages[m].direction = "outbound" => "read" \notin messages[m].marks)
    BY <1>1 DEF TypeOK
  <2>2. messages'[m] = IF m \in selected THEN Patched(patch, messages[m]) ELSE messages[m]
    BY <1>2
  <2> QED
    BY <2>1, <2>2, PatchedIsARow
<1>4. Of(messages', t) = Of(messages, t)
  BY <1>3 DEF Of
<1>5. Recounted(threads[t], messages', t) \in ThreadRow /\ True(messages', Recounted(threads[t], messages', t), t)
  BY <1>2, <1>4, RecountedIsTrue
<1>6. threads'[t] = Recounted(threads[t], messages', t) /\ \A u \in Threads \ {t} : threads'[u] = threads[u]
  BY <1>1, <1>2 DEF TypeOK
<1>7. TypeOK'
  <2>1. messages' \in [Messages -> MessageRow]
    BY <1>2, <1>3
  <2>2. threads' \in [Threads -> ThreadRow]
    BY <1>1, <1>2, <1>5 DEF TypeOK
  <2> QED
    BY <2>1, <2>2, <1>3 DEF TypeOK
<1>8. \A m \in Messages : messages'[m].state = "stored" => messages'[m].thread \in Threads
  BY <1>3 DEF IInv, Housed
<1>9. \A m \in Messages : \/ messages'[m] = messages[m]
                          \/ /\ messages[m].state = "stored" => messages[m].thread = t
                             /\ messages'[m].state = "stored" => messages'[m].thread = t
  BY <1>3 DEF Of
<1> QED
  BY <1>5, <1>6, <1>7, <1>8, <1>9, OneThread

\* Writing zero is right because the same batch marks every unread message.
LEMMA MarkReadKeeps ==
  ASSUME IInv, NEW t \in Threads, MarkThreadRead(t)
  PROVE  IInv'
<1>1. TypeOK /\ threads[t] \in ThreadRow /\ True(messages, threads[t], t)
  BY DEF IInv, TypeOK
<1>2. /\ threads[t].state = "stored"
      /\ messages' = [m \in Messages |->
           IF m \in UnreadOf(messages, t) THEN [messages[m] EXCEPT !.marks = @ \cup {"read"}]
                                          ELSE messages[m]]
      /\ threads' = [threads EXCEPT ![t].unread = 0]
  BY DEF MarkThreadRead
<1>3. ASSUME NEW m \in Messages
      PROVE  /\ messages'[m] \in MessageRow
             /\ messages'[m].state = messages[m].state /\ messages'[m].thread = messages[m].thread
             /\ messages'[m].direction = messages[m].direction
             /\ messages'[m].marks = IF m \in UnreadOf(messages, t) THEN messages[m].marks \cup {"read"}
                                                                   ELSE messages[m].marks
             /\ m \notin UnreadOf(messages, t) => messages'[m] = messages[m]
  <2>1. messages[m] \in MessageRow
    BY <1>1 DEF TypeOK
  <2>2. messages'[m] = IF m \in UnreadOf(messages, t) THEN [messages[m] EXCEPT !.marks = messages[m].marks \cup {"read"}]
                                                       ELSE messages[m]
    BY <1>2
  <2> QED
    BY <2>1, <2>2 DEF MessageRow, Marks
<1>4. Of(messages', t) = Of(messages, t)
  BY <1>3 DEF Of
<1>5. UnreadOf(messages', t) = {}
  <2>1. ASSUME NEW m \in UnreadOf(messages', t) PROVE FALSE
    <3>1. m \in Of(messages, t) /\ messages'[m].direction = "inbound" /\ "read" \notin messages'[m].marks
      BY <1>4 DEF UnreadOf
    <3>2. m \in UnreadOf(messages, t)
      BY <3>1, <1>3 DEF UnreadOf, Of
    <3> QED
      BY <3>1, <3>2, <1>3 DEF UnreadOf, Of
  <2> QED
    BY <2>1
<1>6. InboxOf(messages', t) = InboxOf(messages, t)
  <2>1. ASSUME NEW m \in Of(messages, t) PROVE InInbox(messages'[m]) <=> InInbox(messages[m])
    <3>1. m \in Messages
      BY DEF Of
    <3>2. CASE m \in UnreadOf(messages, t)
      <4>1. messages'[m].marks = messages[m].marks \cup {"read"}
        BY <3>1, <3>2, <1>3
      <4> QED
        BY <4>1 DEF InInbox
    <3>3. CASE m \notin UnreadOf(messages, t)
      BY <3>1, <3>3, <1>3
    <3> QED
      BY <3>2, <3>3
  <2> QED
    BY <2>1, <1>4 DEF InboxOf
<1>7. /\ threads'[t] = [threads[t] EXCEPT !.unread = 0]
      /\ \A u \in Threads \ {t} : threads'[u] = threads[u]
  BY <1>1, <1>2 DEF TypeOK
<1>8. threads'[t] \in ThreadRow
  BY <1>1, <1>7 DEF ThreadRow
<1>9. TypeOK'
  <2>1. messages' \in [Messages -> MessageRow]
    BY <1>2, <1>3
  <2>2. threads' \in [Threads -> ThreadRow]
    BY <1>1, <1>2, <1>7, <1>8 DEF TypeOK
  <2>3. ASSUME NEW m \in Messages, messages'[m].direction = "outbound" PROVE "read" \notin messages'[m].marks
    BY <2>3, <1>1, <1>3 DEF TypeOK, UnreadOf
  <2> QED
    BY <2>1, <2>2, <2>3 DEF TypeOK
<1>10. True(messages', threads'[t], t)
  <2>1. /\ threads'[t].state = "stored" /\ threads'[t].unread = 0 /\ threads'[t].count = threads[t].count
        /\ threads'[t].latest = threads[t].latest /\ threads'[t].lastAt = threads[t].lastAt
        /\ threads'[t].archived = threads[t].archived
    BY <1>1, <1>2, <1>7 DEF ThreadRow
  <2> QED
    BY <2>1, <1>1, <1>2, <1>4, <1>5, <1>6, FS_EmptySet DEF True
<1>11. \A m \in Messages : messages'[m].state = "stored" => messages'[m].thread \in Threads
  BY <1>3 DEF IInv, Housed
<1>12. \A m \in Messages : \/ messages'[m] = messages[m]
                           \/ /\ messages[m].state = "stored" => messages[m].thread = t
                              /\ messages'[m].state = "stored" => messages'[m].thread = t
  BY <1>3 DEF UnreadOf, Of
<1> QED
  BY <1>7, <1>9, <1>10, <1>11, <1>12, OneThread

-----------------------------------------------------------------------------
(* The mail service and retention *)

\* A forward leaves the thread row alone, which is right: it makes nothing unread or read,
\* and puts nothing into the inbox.
LEMMA ForwardKeeps ==
  ASSUME IInv, NEW m \in Messages, SuppressForward(m) \/ AttemptForward(m)
  PROVE  IInv'
<1>1. TypeOK /\ Housed /\ \A u \in Threads : True(messages, threads[u], u)
  BY DEF IInv
<1>2. messages[m] \in MessageRow /\ threads' = threads
  BY <1>1 DEF TypeOK, SuppressForward, AttemptForward
<1>3. PICK marks \in SUBSET Marks :
        /\ messages' = [messages EXCEPT ![m].marks = marks]
        /\ "read" \in marks <=> "read" \in messages[m].marks
        /\ "inbox" \in marks => "inbox" \in messages[m].marks
        /\ messages[m].marks \cap {"spam", "trash"} \subseteq marks
  <2>1. CASE SuppressForward(m)
    <3> DEFINE marks == (messages[m].marks \ {"inbox", "pending"}) \cup {"spam"}
    <3>1. marks \in SUBSET Marks
      BY <1>2 DEF MessageRow, Marks
    <3>2. messages' = [messages EXCEPT ![m].marks = marks]
      BY <2>1 DEF SuppressForward
    <3> QED
      BY <3>1, <3>2
  <2>2. CASE AttemptForward(m)
    <3> DEFINE marks == messages[m].marks \ {"pending"}
    <3>1. marks \in SUBSET Marks
      BY <1>2 DEF MessageRow
    <3>2. messages' = [messages EXCEPT ![m].marks = marks]
      BY <2>2 DEF AttemptForward
    <3> QED
      BY <3>1, <3>2
  <2> QED
    BY <2>1, <2>2
<1>4. /\ messages'[m] = [messages[m] EXCEPT !.marks = marks]
      /\ \A n \in Messages \ {m} : messages'[n] = messages[n]
  BY <1>1, <1>3 DEF TypeOK
<1>5. /\ messages'[m].state = messages[m].state /\ messages'[m].thread = messages[m].thread
      /\ messages'[m].direction = messages[m].direction /\ messages'[m].marks = marks
      /\ messages'[m] \in MessageRow
  BY <1>2, <1>4 DEF MessageRow
<1>6. TypeOK'
  BY <1>1, <1>2, <1>3, <1>4, <1>5 DEF TypeOK
<1>7. ASSUME NEW t \in Threads PROVE True(messages', threads'[t], t)
  <2>1. Of(messages', t) = Of(messages, t)
    BY <1>4, <1>5 DEF Of
  <2>2. UnreadOf(messages', t) = UnreadOf(messages, t)
    <3>1. ASSUME NEW n \in Of(messages, t)
          PROVE  /\ messages'[n].direction = messages[n].direction
                 /\ "read" \in messages'[n].marks <=> "read" \in messages[n].marks
      BY <1>3, <1>4, <1>5 DEF Of
    <3> QED
      BY <2>1, <3>1 DEF UnreadOf
  <2>3. InboxOf(messages', t) \subseteq InboxOf(messages, t)
    <3>1. ASSUME NEW n \in Of(messages, t), InInbox(messages'[n]) PROVE InInbox(messages[n])
      <4>1. CASE n = m
        BY <4>1, <3>1, <1>3, <1>5 DEF InInbox
      <4>2. CASE n # m
        BY <4>2, <3>1, <1>4 DEF Of
      <4> QED
        BY <4>1, <4>2
    <3> QED
      BY <2>1, <3>1 DEF InboxOf
  <2> QED
    BY <1>1, <1>2, <2>1, <2>2, <2>3 DEF True
<1>8. Housed'
  BY <1>1, <1>4, <1>5 DEF Housed
<1> QED
  BY <1>6, <1>7, <1>8 DEF IInv

LEMMA DeleteKeeps ==
  ASSUME IInv, NEW m \in Messages, DeleteMessage(m)
  PROVE  IInv'
<1> DEFINE t == messages[m].thread
           left == Of(messages', t)
<1>1. TypeOK /\ Housed /\ messages[m].state = "stored"
  BY DEF IInv, DeleteMessage
<1>2. t \in Threads
  BY <1>1 DEF Housed
<1>3. /\ messages' = [messages EXCEPT ![m].state = "deleted"]
      /\ threads' = [threads EXCEPT ![t] = Repaired(threads[t], messages', t)]
  BY DEF DeleteMessage
<1>4. /\ messages'[m] = [messages[m] EXCEPT !.state = "deleted"]
      /\ \A n \in Messages \ {m} : messages'[n] = messages[n]
  BY <1>1, <1>3 DEF TypeOK
<1>5. /\ messages[m] \in MessageRow /\ messages'[m] \in MessageRow /\ messages'[m].state = "deleted"
      /\ messages'[m].direction = messages[m].direction /\ messages'[m].marks = messages[m].marks
  BY <1>1, <1>4 DEF TypeOK, MessageRow, RowStates
<1> HIDE DEF t
<1>6. threads[t] \in ThreadRow /\ True(messages, threads[t], t)
  BY <1>2 DEF IInv, TypeOK
<1>7. /\ threads'[t] = Repaired(threads[t], messages', t)
      /\ \A u \in Threads \ {t} : threads'[u] = threads[u]
  BY <1>1, <1>2, <1>3 DEF TypeOK
<1>8. threads[t].state = "stored"
  BY <1>1, <1>6 DEF True, Of, t
<1>9. InboxOf(messages', t) \subseteq InboxOf(messages, t)
  <2>1. \A n \in left : n # m /\ n \in Of(messages, t) /\ messages'[n] = messages[n]
    BY <1>4, <1>5 DEF Of
  <2> QED
    BY <2>1 DEF InboxOf
<1>10. threads'[t] \in ThreadRow /\ True(messages', threads'[t], t)
  <2>1. CASE left = {}
    <3>1. threads'[t] = [threads[t] EXCEPT !.state = "deleted"]
      BY <2>1, <1>7 DEF Repaired
    <3>2. threads'[t] \in ThreadRow /\ threads'[t].state = "deleted"
      BY <3>1, <1>6 DEF ThreadRow, RowStates
    <3> QED
      BY <3>2, <2>1 DEF True, InboxOf
  <2>2. CASE left # {}
    <3> DEFINE count == Cardinality(left)
               unread == Cardinality(UnreadOf(messages', t))
    <3>1. threads'[t] = [threads[t] EXCEPT !.latest = Newest(left), !.lastAt = SentAt[Newest(left)],
                                           !.count = count, !.unread = unread]
      BY <2>2, <1>7 DEF Repaired
    <3>2. left \in SUBSET Messages
      BY DEF Of
    <3>3. Newest(left) \in Messages /\ SentAt[Newest(left)] \in Nat
      BY <3>2, <2>2, NewestIsLast, IdShape DEF IdShape
    <3>4. count \in Nat /\ unread \in Nat
      BY Countable
    <3> HIDE DEF count, unread, left
    <3>5. threads'[t] \in ThreadRow
      BY <3>1, <3>3, <3>4, <1>6 DEF ThreadRow
    <3>6. /\ threads'[t].state = "stored" /\ threads'[t].archived = threads[t].archived
          /\ threads'[t].latest = Newest(left) /\ threads'[t].lastAt = SentAt[Newest(left)]
          /\ threads'[t].count = count /\ threads'[t].unread = unread
      BY <3>1, <1>6, <1>8 DEF ThreadRow
    <3> QED
      BY <3>5, <3>6, <1>6, <1>9 DEF True, count, unread, left
  <2> QED
    BY <2>1, <2>2
<1>11. TypeOK'
  BY <1>1, <1>3, <1>4, <1>5, <1>7, <1>10 DEF TypeOK
<1>12. \A n \in Messages : messages'[n].state = "stored" => messages'[n].thread \in Threads
  BY <1>1, <1>4, <1>5 DEF Housed
<1>13. \A n \in Messages : \/ messages'[n] = messages[n]
                           \/ /\ messages[n].state = "stored" => messages[n].thread = t
                              /\ messages'[n].state = "stored" => messages'[n].thread = t
  BY <1>4, <1>5 DEF t
<1> QED
  BY <1>2, <1>7, <1>10, <1>11, <1>12, <1>13, OneThread

-----------------------------------------------------------------------------
(* The theorems *)

LEMMA StepIInv == IInv /\ [Next]_vars => IInv'
<1> SUFFICES ASSUME IInv, [Next]_vars PROVE IInv'
  OBVIOUS
<1>1. CASE Arrive
  BY <1>1, InboundKeeps DEF Arrive
<1>2. CASE Send
  BY <1>2, ReserveKeeps, OutboundKeeps DEF Send
<1>3. CASE Organise
  BY <1>3, MarkReadKeeps, PatchKeeps DEF Organise
<1>4. CASE Forward
  BY <1>4, ForwardKeeps DEF Forward
<1>5. CASE Expire
  BY <1>5, DeleteKeeps DEF Expire
<1>6. CASE UNCHANGED vars
  <2>1. messages' = messages /\ threads' = threads
    BY <1>6 DEF vars
  <2> QED
    BY <2>1 DEF IInv, TypeOK, Housed
<1> QED
  BY <1>1, <1>2, <1>3, <1>4, <1>5, <1>6 DEF Next

\* In every reachable state each thread row says what its messages are, and messages and
\* threads are well typed and housed.
THEOREM Invariance == Spec => []IInv
BY InitIInv, StepIInv, PTL DEF Spec

\* The rows of both tables stay well typed under every batch.
THEOREM TypeCorrect == Spec => []TypeOK
<1>1. IInv => TypeOK
  BY DEF IInv
<1> QED
  BY <1>1, Invariance, PTL

\* Counts and latest message of a thread are true after any sequence of the batches of the
\* repositories, incremental and recounting ones.
THEOREM SummariesStayTrue == Spec => []SummaryIsTrue
<1>1. IInv => SummaryIsTrue
  BY DEF IInv, True, SummaryIsTrue, Stored
<1> QED
  BY <1>1, Invariance, PTL

\* No batch leaves a thread archived that has a message in the inbox.
THEOREM InboxStaysOpen == Spec => []InboxIsOpen
<1>1. IInv => InboxIsOpen
  BY DEF IInv, True, InboxIsOpen, Stored
<1> QED
  BY <1>1, Invariance, PTL

-----------------------------------------------------------------------------
(* Pages *)

\* Rows with places of their own: finitely many, each with its id for the second part.
Ordered(place) ==
  /\ IsFiniteSet(DOMAIN place)
  /\ \A t \in DOMAIN place : place[t][1] \in Nat /\ place[t][2] = t /\ t \in Nat

LEMMA AboveIsTotal ==
  ASSUME NEW place, Ordered(place), NEW t \in DOMAIN place, NEW u \in DOMAIN place,
         NEW v \in DOMAIN place
  PROVE  /\ ~Above(place[t], place[t])
         /\ t = u \/ Above(place[t], place[u]) \/ Above(place[u], place[t])
         /\ Above(place[t], place[u]) /\ Above(place[u], place[v]) => Above(place[t], place[v])
BY DEF Ordered, Above

\* The number of rows above a row is a number below that of all rows.
LEMMA OverCounts ==
  ASSUME NEW place, Ordered(place), NEW t \in DOMAIN place
  PROVE  /\ IsFiniteSet(Over(place, t)) /\ t \notin Over(place, t)
         /\ Cardinality(Over(place, t)) \in 0..(Cardinality(DOMAIN place) - 1)
<1>1. Over(place, t) \subseteq DOMAIN place /\ t \notin Over(place, t)
  BY AboveIsTotal DEF Over
<1>2. IsFiniteSet(DOMAIN place)
  BY DEF Ordered
<1>3. IsFiniteSet(Over(place, t)) /\ Cardinality(Over(place, t)) \in Nat /\ Cardinality(DOMAIN place) \in Nat
  BY <1>1, <1>2, FS_Subset, FS_CardinalityType
<1>4. Cardinality(Over(place, t)) < Cardinality(DOMAIN place)
  <2>1. Over(place, t) \in SUBSET DOMAIN place /\ Over(place, t) # DOMAIN place
    BY <1>1
  <2> QED
    BY <2>1, <1>2, <1>3, FS_Subset
<1> QED
  BY <1>1, <1>3, <1>4

\* What is above a row is above whatever is below the row.
LEMMA OverGrows ==
  ASSUME NEW place, Ordered(place), NEW t \in DOMAIN place, NEW u \in DOMAIN place,
         Above(place[t], place[u])
  PROVE  Cardinality(Over(place, t)) < Cardinality(Over(place, u))
<1>1. Over(place, t) \subseteq Over(place, u) /\ t \in Over(place, u) /\ t \notin Over(place, t)
  BY AboveIsTotal DEF Over
<1> QED
  BY <1>1, OverCounts, FS_Subset

\* Of n rows, one has k above it, for every k below n: each has its own number of rows above.
LEMMA Ranks ==
  ASSUME NEW place, Ordered(place), NEW k \in Nat, k < Cardinality(DOMAIN place)
  PROVE  \E t \in DOMAIN place : Cardinality(Over(place, t)) = k
<1> DEFINE D == DOMAIN place
           n == Cardinality(D)
           rank == [t \in D |-> Cardinality(Over(place, t))]
<1>1. IsFiniteSet(D) /\ n \in Nat
  BY FS_CardinalityType DEF Ordered
<1>2. rank \in [D -> 0..(n - 1)]
  BY OverCounts
<1>3. ASSUME NEW t \in D, NEW u \in D, rank[t] = rank[u] PROVE t = u
  <2>1. SUFFICES ASSUME t # u PROVE FALSE
    OBVIOUS
  <2>2. Above(place[t], place[u]) \/ Above(place[u], place[t])
    BY <2>1, AboveIsTotal
  <2>3. rank[t] < rank[u] \/ rank[u] < rank[t]
    BY <2>2, OverGrows
  <2> QED
    BY <1>2, <1>3, <2>3
<1>4. rank \in Injection(D, 0..(n - 1))
  BY <1>2, <1>3 DEF Injection, IsInjective
<1>5. IsFiniteSet(0..(n - 1)) /\ Cardinality(0..(n - 1)) = n
  <2>1. n - 1 \in Int /\ 0 \in Int
    BY <1>1
  <2>2. /\ IsFiniteSet(0..(n - 1))
        /\ Cardinality(0..(n - 1)) = IF 0 > n - 1 THEN 0 ELSE n - 1 - 0 + 1
    BY <2>1, FS_Interval
  <2> QED
    BY <2>2, <1>1
<1>6. rank \in Surjection(D, 0..(n - 1))
  BY <1>4, <1>5, FS_Injection
<1>7. k \in 0..(n - 1)
  BY <1>1
<1> QED
  BY <1>6, <1>7 DEF Surjection

LEMMA LowestIsLast ==
  ASSUME NEW place, Ordered(place), NEW ids \in SUBSET DOMAIN place, ids # {}
  PROVE  /\ Lowest(place, ids) \in ids
         /\ \A u \in ids \ {Lowest(place, ids)} : Above(place[u], place[Lowest(place, ids)])
<1> DEFINE some == [t \in ids |-> place[t]]
           n == Cardinality(ids)
<1>1. Ordered(some) /\ DOMAIN some = ids
  BY FS_Subset DEF Ordered
<1>2. IsFiniteSet(ids) /\ n \in Nat \ {0}
  BY <1>1, FS_CardinalityType, FS_EmptySet DEF Ordered
<1>3. n - 1 \in Nat /\ n - 1 < Cardinality(DOMAIN some)
  BY <1>1, <1>2
<1>4. PICK t \in ids : Cardinality(Over(some, t)) = n - 1
  <2> HIDE DEF some
  <2> QED
    BY <1>1, <1>3, Ranks
<1>5. Over(some, t) = ids \ {t}
  <2>1. Over(some, t) \subseteq ids \ {t}
    BY <1>1, OverCounts DEF Over
  <2>2. IsFiniteSet(ids \ {t}) /\ Cardinality(ids \ {t}) = n - 1
    BY <1>2, FS_RemoveElement
  <2> QED
    BY <2>1, <2>2, <1>4, FS_Subset
<1>6. \A u \in ids \ {t} : Above(place[u], place[t])
  BY <1>5 DEF Over
<1> QED
  BY <1>6 DEF Lowest

\* The first rows are above the others.
LEMMA FirstIsAbove ==
  ASSUME NEW place, Ordered(place), NEW n \in Nat,
         NEW t \in First(place, n), NEW u \in DOMAIN place \ First(place, n)
  PROVE  t \in DOMAIN place /\ Above(place[t], place[u])
<1>1. t \in DOMAIN place /\ Cardinality(Over(place, t)) < n /\ ~(Cardinality(Over(place, u)) < n)
  BY DEF First
<1>2. SUFFICES ASSUME ~Above(place[t], place[u]) PROVE FALSE
  BY <1>1
<1>3. Above(place[u], place[t])
  BY <1>1, <1>2, AboveIsTotal
<1>4. Cardinality(Over(place, u)) < Cardinality(Over(place, t))
  BY <1>1, <1>3, OverGrows
<1>5. Cardinality(Over(place, u)) \in Int /\ Cardinality(Over(place, t)) \in Int
  BY <1>1, OverCounts
<1> QED
  BY <1>1, <1>4, <1>5

\* When there is another page, the cursor is that of the lowest item: no item is below it, and
\* the row the page leaves out is.
LEMMA PageEnds ==
  ASSUME NEW rows, Ordered(rows), Items(rows) # DOMAIN rows
  PROVE  LET last == Lowest(rows, Items(rows)) IN
         /\ last \in Items(rows)
         /\ \A t \in Items(rows) : t = last \/ Above(rows[t], rows[last])
         /\ \A t \in DOMAIN rows \ Items(rows) : Above(rows[last], rows[t])
<1>1. PageSize \in Nat \ {0}
  BY PageShape DEF PageShape
<1>2. Items(rows) \subseteq DOMAIN rows
  BY DEF Items, First
<1>3. Items(rows) # {}
  <2>1. DOMAIN rows # {} /\ IsFiniteSet(DOMAIN rows)
    BY <1>2 DEF Ordered
  <2>2. 0 < Cardinality(DOMAIN rows)
    BY <2>1, FS_EmptySet, FS_CardinalityType
  <2>3. PICK t \in DOMAIN rows : Cardinality(Over(rows, t)) = 0
    BY <2>2, Ranks
  <2> QED
    BY <2>3, <1>1 DEF Items, First
<1>4. \A t \in Items(rows), u \in DOMAIN rows \ Items(rows) : Above(rows[t], rows[u])
  BY <1>1, FirstIsAbove DEF Items
<1> QED
  BY <1>2, <1>3, <1>4, LowestIsLast

\* A row that the limit leaves out is below all that are read, and then the page tells that
\* there is another one: one row more than the page was read.
LEMMA LimitLeavesOut ==
  ASSUME NEW place, Ordered(place), NEW t \in DOMAIN place \ First(place, PageSize + 1),
         NEW rows, rows = [u \in First(place, PageSize + 1) |-> place[u]]
  PROVE  /\ Items(rows) # DOMAIN rows
         /\ \A u \in DOMAIN rows : Above(rows[u], place[t])
<1>1. PageSize \in Nat \ {0} /\ PageSize + 1 \in Nat
  BY PageShape DEF PageShape
<1>2. \A u \in DOMAIN rows : rows[u] = place[u] /\ Above(place[u], place[t])
  BY <1>1, FirstIsAbove
<1>3. PICK u \in DOMAIN place : Cardinality(Over(place, u)) = PageSize
  <2>1. PageSize < Cardinality(DOMAIN place)
    <3>1. ~(Cardinality(Over(place, t)) < PageSize + 1)
      BY DEF First
    <3>2. Cardinality(Over(place, t)) \in 0..(Cardinality(DOMAIN place) - 1)
      BY OverCounts
    <3>3. Cardinality(DOMAIN place) \in Nat
      BY FS_CardinalityType DEF Ordered
    <3> QED
      BY <3>1, <3>2, <3>3, <1>1
  <2> QED
    BY <2>1, <1>1, Ranks
<1>4. u \in DOMAIN rows
  BY <1>1, <1>3 DEF First
<1>5. Over(rows, u) = Over(place, u)
  <2>1. ASSUME NEW v \in Over(place, u) PROVE v \in DOMAIN rows
    <3>1. v \in DOMAIN place /\ Above(place[v], place[u])
      BY <2>1 DEF Over
    <3>2. Cardinality(Over(place, v)) < PageSize
      BY <3>1, <1>3, OverGrows
    <3>3. Cardinality(Over(place, v)) \in Int
      BY <3>1, OverCounts
    <3> QED
      BY <3>1, <3>2, <3>3, <1>1 DEF First
  <2>2. DOMAIN rows \subseteq DOMAIN place
    BY DEF First
  <2> QED
    BY <2>1, <2>2, <1>2, <1>4 DEF Over
<1>6. u \notin Items(rows)
  BY <1>1, <1>3, <1>5 DEF Items, First
<1> QED
  BY <1>2, <1>4, <1>6

-----------------------------------------------------------------------------
(* The walk *)

HasMail(t) == Of(messages, t) # {}

Steps == {"idle", "asking", "hydrating", "done"}

Cursors == {<<>>} \cup (Nat \X Nat)

\* Places of threads that were read at some time.
Read(rows) == Ordered(rows) /\ DOMAIN rows \subseteq Threads

WalkOK ==
  /\ walk.at \in Steps /\ walk.how \in {"list", "search"} /\ walk.cursor \in Cursors
  /\ walk = [at |-> walk.at, how |-> walk.how, folder |-> walk.folder, cursor |-> walk.cursor]
  /\ shown \subseteq Threads /\ Read(picked) /\ steady \subseteq Listed(walk.folder)
  /\ walk.at = "hydrating" => walk.how = "search"
  /\ walk.at = "idle" => shown = {} /\ again = {} /\ walk.cursor = <<>> /\ ~expired

\* What the walk is sure to show, unless the search was disturbed.
Reaching ==
  walk.how = "list" \/ ~expired =>
    /\ walk.at = "asking" => \A t \in steady \ shown : AfterCursor(t, walk.cursor)
    /\ walk.at = "done" => steady \subseteq shown

\* Between the statements of a search, what was picked is still there, no lower than it was;
\* what stays is picked or below all that is.
Picking ==
  walk.at = "hydrating" /\ ~expired =>
    /\ \A t \in DOMAIN picked :
         HasMail(t) /\ (Place(t) = picked[t] \/ Above(Place(t), picked[t]))
    /\ \A t \in steady \ shown :
         \/ t \in DOMAIN picked /\ picked[t] = Place(t)
         \/ /\ Items(picked) # DOMAIN picked
            /\ \A u \in DOMAIN picked : Above(picked[u], Place(t))

\* What is shown is not below the cursor.
Passed ==
  walk.how = "list" /\ ~expired =>
    /\ again = {}
    /\ walk.at = "asking" =>
         \A t \in shown : HasMail(t) /\ walk.cursor # <<>> /\ ~Above(walk.cursor, Place(t))

WalkInv == WalkOK /\ Reaching /\ Picking /\ Passed

\* The walk is one of the sources of change among others: what holds of the tables whatever
\* the batches do holds while a client lists.
LEMMA ListNextIsNext == [ListNext]_listVars => [Next]_vars
BY DEF ListNext, Next, listVars, vars

\* Listed threads are stored, and finitely many.
LEMMA ListedIsFinite ==
  ASSUME IInv, NEW folder
  PROVE  /\ IsFiniteSet(Listed(folder))
         /\ \A t \in Listed(folder) : t \in Stored /\ HasMail(t)
<1> DEFINE threadOf == [m \in Messages |-> messages[m].thread]
           T == {threadOf[m] : m \in Messages}
<1>1. threadOf \in Surjection(Messages, T)
  BY DEF Surjection
<1>2. IsFiniteSet(T)
  BY <1>1, IdShape, FS_Surjection DEF IdShape
<1>3. \A t \in Listed(folder) : t \in Stored /\ Of(messages, t) # {} /\ t \in T
  BY DEF Listed, Of
<1>4. Listed(folder) \in SUBSET T
  BY <1>3
<1> QED
  BY <1>2, <1>3, <1>4, FS_Subset DEF HasMail

\* A thread with mail is stored; its place is that of its newest message.
LEMMA PlaceOfNewest ==
  ASSUME IInv, NEW t \in Threads, HasMail(t)
  PROVE  /\ t \in Stored
         /\ threads[t].lastAt = SentAt[Newest(Of(messages, t))]
         /\ threads[t].lastAt \in Nat /\ t \in Nat
         /\ Newest(Of(messages, t)) \in Messages
<1>1. True(messages, threads[t], t) /\ threads[t] \in ThreadRow
  BY DEF IInv, TypeOK
<1>2. Of(messages, t) \in SUBSET Messages
  BY DEF Of
<1>3. Newest(Of(messages, t)) \in Of(messages, t)
  BY <1>2, NewestIsLast DEF HasMail
<1> QED
  BY <1>1, <1>2, <1>3, IdShape DEF True, HasMail, Stored, ThreadRow, IdShape

\* Without expiry a thread keeps its messages, and so it only moves up.
LEMMA PlaceRises ==
  ASSUME IInv, IInv', NEW t \in Threads, HasMail(t), Of(messages, t) \subseteq Of(messages', t)
  PROVE  HasMail(t)' /\ (Place(t)' = Place(t) \/ Above(Place(t)', Place(t)))
<1> DEFINE new == Newest(Of(messages', t))
           old == Newest(Of(messages, t))
<1>1. HasMail(t)'
  BY DEF HasMail
<1>2. threads[t].lastAt = SentAt[old] /\ threads'[t].lastAt = SentAt[new]
  <2>1. threads[t].lastAt = SentAt[old]
    BY PlaceOfNewest
  <2>2. True(messages', threads'[t], t)
    BY DEF IInv
  <2> QED
    BY <1>1, <2>1, <2>2 DEF True, HasMail
<1>3. old \in Of(messages', t) /\ Of(messages', t) \in SUBSET Messages
  <2>1. Of(messages, t) \in SUBSET Messages /\ Of(messages', t) \in SUBSET Messages
    BY DEF Of
  <2> QED
    BY <2>1, NewestIsLast DEF HasMail
<1>4. new \in Messages /\ old \in Messages /\ (old = new \/ Before(old, new))
  BY <1>3, NewestIsLast
<1> HIDE DEF old, new
<1>5. SentAt[old] \in Nat /\ SentAt[new] \in Nat /\ SentAt[old] <= SentAt[new]
  BY <1>4, IdShape DEF Before, IdShape
<1>6. Place(t)' = <<SentAt[new], t>> /\ Place(t) = <<SentAt[old], t>>
  BY <1>2 DEF Place
<1>7. SentAt[old] = SentAt[new] \/ Above(<<SentAt[new], t>>, <<SentAt[old], t>>)
  BY <1>5 DEF Above
<1> QED
  BY <1>1, <1>6, <1>7

\* Only expiry takes a message from its thread.
LEMMA MailStays ==
  ASSUME IInv, Arrive \/ Send \/ Organise \/ Forward, NEW t \in Threads
  PROVE  Of(messages, t) \subseteq Of(messages', t)
<1> SUFFICES ASSUME NEW m \in Messages, messages[m].state = "stored"
             PROVE  messages'[m].state = "stored" /\ messages'[m].thread = messages[m].thread
  BY DEF Of
<1>1. messages \in [Messages -> MessageRow] /\ messages[m] \in MessageRow
  BY DEF IInv, TypeOK
<1>2. CASE Arrive
  BY <1>1, <1>2 DEF Arrive, ProjectInbound
<1>3. CASE Send
  BY <1>1, <1>3 DEF Send, ReserveThread, ProjectOutbound
<1>4. CASE Organise
  <2>1. PICK u \in Threads : \/ MarkThreadRead(u)
                             \/ \E selected \in SUBSET Of(messages, u), patch \in Patches :
                                  PatchMessages(u, selected, patch)
    BY <1>4 DEF Organise
  <2>2. CASE MarkThreadRead(u)
    BY <1>1, <2>2 DEF MarkThreadRead, MessageRow
  <2>3. ASSUME NEW selected \in SUBSET Of(messages, u), NEW patch \in Patches,
               PatchMessages(u, selected, patch)
        PROVE  messages'[m].state = "stored" /\ messages'[m].thread = messages[m].thread
    <3>1. messages'[m] = IF m \in selected THEN Patched(patch, messages[m]) ELSE messages[m]
      BY <2>3 DEF PatchMessages
    <3> QED
      BY <3>1, <1>1, PatchedIsARow
  <2> QED
    BY <2>1, <2>2, <2>3
<1>5. CASE Forward
  BY <1>1, <1>5 DEF Forward, SuppressForward, AttemptForward, MessageRow
<1> QED
  BY <1>2, <1>3, <1>4, <1>5

LEMMA InitWalk == ListInit => WalkInv
<1> SUFFICES ASSUME ListInit PROVE WalkInv
  OBVIOUS
<1>1. Read(picked)
  BY FS_EmptySet DEF ListInit, Read, Ordered
<1> QED
  BY <1>1 DEF ListInit, NoWalk, WalkInv, WalkOK, Reaching, Picking, Passed, Steps, Cursors

LEMMA OpenKeeps ==
  ASSUME IInv, WalkInv, NEW how \in {"list", "search"}, NEW folder \in Folders, Open(how, folder),
         UNCHANGED vars
  PROVE  WalkInv'
<1>1. /\ walk' = [at |-> "asking", how |-> how, folder |-> folder, cursor |-> <<>>]
      /\ steady' = Listed(folder) /\ shown' = shown /\ picked' = picked /\ again' = again
      /\ shown = {} /\ again = {}
  BY DEF Open, WalkInv, WalkOK
<1>2. Listed(folder)' = Listed(folder)
  BY DEF vars, Listed, Stored, Of, InboxOf
<1>3. WalkOK'
  BY <1>1, <1>2 DEF WalkInv, WalkOK, Steps, Cursors, Read, Ordered
<1>4. Reaching'
  BY <1>1 DEF Reaching, AfterCursor
<1> QED
  BY <1>1, <1>3, <1>4 DEF WalkInv, Picking, Passed

\* The candidates of a statement are rows with places of their own.
LEMMA BehindIsRead ==
  ASSUME IInv
  PROVE  /\ Read(Behind) /\ Read(Selected)
         /\ DOMAIN Behind = {t \in Listed(walk.folder) : AfterCursor(t, walk.cursor)}
         /\ \A t \in DOMAIN Behind : Behind[t] = Place(t) /\ HasMail(t)
         /\ DOMAIN Selected = First(Behind, PageSize + 1)
         /\ DOMAIN Selected \subseteq DOMAIN Behind
         /\ Selected = [t \in First(Behind, PageSize + 1) |-> Behind[t]]
<1>1. IsFiniteSet(Listed(walk.folder)) /\ \A t \in Listed(walk.folder) : t \in Threads /\ HasMail(t)
  BY ListedIsFinite DEF Stored
<1>2. /\ DOMAIN Behind = {t \in Listed(walk.folder) : AfterCursor(t, walk.cursor)}
      /\ \A t \in DOMAIN Behind : Behind[t] = Place(t)
  BY DEF Behind
<1>3. DOMAIN Behind \subseteq Threads /\ \A t \in DOMAIN Behind : HasMail(t)
  BY <1>1, <1>2
<1>4. /\ DOMAIN Selected = First(Behind, PageSize + 1)
      /\ DOMAIN Selected \subseteq DOMAIN Behind
      /\ \A t \in DOMAIN Selected : Selected[t] = Place(t)
  BY DEF Selected, First
<1>5. DOMAIN Behind \in SUBSET Listed(walk.folder) /\ DOMAIN Selected \in SUBSET Listed(walk.folder)
  BY <1>2, <1>4
<1>6. IsFiniteSet(DOMAIN Behind) /\ IsFiniteSet(DOMAIN Selected)
  BY <1>1, <1>5, FS_Subset
<1>7. \A t \in DOMAIN Behind : Place(t)[1] \in Nat /\ Place(t)[2] = t /\ t \in Nat
  BY <1>3, PlaceOfNewest DEF Place
<1>8. Selected = [t \in First(Behind, PageSize + 1) |-> Behind[t]]
  BY <1>2, <1>4 DEF Selected
<1> QED
  BY <1>2, <1>3, <1>4, <1>6, <1>7, <1>8 DEF Read, Ordered

\* The places of the stored threads are compared as numbers.
LEMMA PlacesCompare ==
  ASSUME NEW p, NEW q, NEW r, p[1] \in Nat, p[2] \in Nat, q[1] \in Nat, q[2] \in Nat,
         r[1] \in Nat, r[2] \in Nat
  PROVE  /\ Above(p, q) /\ Above(q, r) => Above(p, r)
         /\ Above(p, q) => ~Above(q, p)
         /\ ~Above(p, q) /\ Above(p, r) => Above(q, r)
BY DEF Above

\* What showing a page of rows does to the list and the request.
LEMMA Shows ==
  ASSUME WalkOK, NEW rows, Read(rows), ShowPage(rows),
         \A t \in Items(rows) : threads[t].lastAt \in Nat
  PROVE  /\ shown' = shown \cup Items(rows) /\ shown' \subseteq Threads
         /\ again' = again \cup (Items(rows) \cap shown)
         /\ walk'.how = walk.how /\ walk'.folder = walk.folder
         /\ walk'.cursor = NextCursor(rows) /\ walk'.cursor \in Cursors
         /\ walk' = [at |-> walk'.at, how |-> walk.how, folder |-> walk.folder, cursor |-> walk'.cursor]
         /\ IF Items(rows) = DOMAIN rows
              THEN walk'.at = "done"
              ELSE walk'.at = "asking" /\ walk'.cursor = Place(Lowest(rows, Items(rows)))
<1>1. /\ shown' = shown \cup Items(rows)
      /\ again' = again \cup (Items(rows) \cap shown)
      /\ walk' = [walk EXCEPT !.cursor = NextCursor(rows),
                              !.at = IF NextCursor(rows) = <<>> THEN "done" ELSE "asking"]
  BY DEF ShowPage
<1>2. Items(rows) \subseteq DOMAIN rows /\ DOMAIN rows \subseteq Threads
  BY DEF Items, First, Read
<1>3. CASE Items(rows) = DOMAIN rows
  <2>1. NextCursor(rows) = <<>>
    BY <1>3 DEF NextCursor
  <2> QED
    BY <1>1, <1>2, <1>3, <2>1 DEF WalkOK, Cursors
<1>4. CASE Items(rows) # DOMAIN rows
  <2> DEFINE last == Lowest(rows, Items(rows))
  <2>1. last \in Items(rows)
    BY <1>4, PageEnds DEF Read
  <2>2. last \in Nat /\ threads[last].lastAt \in Nat
    BY <1>2, <2>1, IdShape DEF IdShape
  <2>3. NextCursor(rows) = Place(last)
    BY <1>4 DEF NextCursor
  <2> HIDE DEF last
  <2>4. Place(last) # <<>> /\ Place(last) \in Nat \X Nat
    BY <2>2 DEF Place
  <2> QED
    BY <1>1, <1>2, <1>4, <2>3, <2>4 DEF WalkOK, Cursors, last
<1> QED
  BY <1>3, <1>4

\* While the tables stay as they are, so does what is read of them.
LEMMA SameTables ==
  ASSUME UNCHANGED vars
  PROVE  \A t : Place(t)' = Place(t) /\ (HasMail(t)' <=> HasMail(t))
BY DEF vars, Of, Place, HasMail

LEMMA ListPageKeeps ==
  ASSUME IInv, WalkInv, ListPage, UNCHANGED vars
  PROVE  WalkInv'
<1> DEFINE rows == Selected
           last == Lowest(rows, Items(rows))
<1>1. /\ walk.at = "asking" /\ walk.how = "list" /\ ShowPage(rows)
      /\ picked' = picked /\ steady' = steady /\ expired' = expired
  BY DEF ListPage
<1>2. WalkOK /\ Reaching /\ Passed
  BY DEF WalkInv
<1>3. /\ Read(rows) /\ Ordered(rows)
      /\ \A t \in DOMAIN rows : rows[t] = Place(t) /\ HasMail(t) /\ t \in Listed(walk.folder)
                                /\ AfterCursor(t, walk.cursor) /\ t \in Threads
  BY BehindIsRead DEF Read
<1>4. Items(rows) \subseteq DOMAIN rows
  BY DEF Items, First
<1>5. \A t \in DOMAIN rows : threads[t].lastAt \in Nat
  BY <1>3, PlaceOfNewest
<1>6. /\ shown' = shown \cup Items(rows) /\ shown' \subseteq Threads
      /\ again' = again \cup (Items(rows) \cap shown)
      /\ walk'.how = "list" /\ walk'.folder = walk.folder /\ walk'.cursor \in Cursors
      /\ walk' = [at |-> walk'.at, how |-> walk.how, folder |-> walk.folder, cursor |-> walk'.cursor]
      /\ IF Items(rows) = DOMAIN rows
           THEN walk'.at = "done"
           ELSE walk'.at = "asking" /\ walk'.cursor = Place(last)
  <2> HIDE DEF rows
  <2> QED
    BY <1>1, <1>2, <1>3, <1>4, <1>5, Shows
<1>7. /\ Listed(walk.folder)' = Listed(walk.folder)
      /\ \A t : Place(t)' = Place(t) /\ (HasMail(t)' <=> HasMail(t))
  BY <1>6, SameTables DEF vars, Listed, Stored, Of, InboxOf
<1>8. WalkOK'
  BY <1>1, <1>2, <1>6, <1>7 DEF WalkOK, Steps, Read, Ordered
<1>9. Items(rows) # DOMAIN rows =>
        /\ last \in Items(rows)
        /\ \A t \in Items(rows) : t = last \/ Above(Place(t), Place(last))
        /\ \A t \in DOMAIN rows \ Items(rows) : Above(Place(last), Place(t))
  BY <1>3, <1>4, PageEnds
<1>10. \A t \in steady \ shown : t \in DOMAIN Behind /\ Behind[t] = Place(t)
  BY <1>1, <1>2, BehindIsRead DEF Reaching, WalkOK
<1>11. ASSUME NEW t \in (steady \ shown) \ DOMAIN rows
       PROVE  Items(rows) # DOMAIN rows /\ \A u \in DOMAIN rows : Above(Place(u), Place(t))
  <2>1. /\ Ordered(Behind) /\ rows = [u \in First(Behind, PageSize + 1) |-> Behind[u]]
        /\ t \in DOMAIN Behind \ First(Behind, PageSize + 1)
    BY <1>10, <1>11, BehindIsRead DEF Read
  <2> HIDE DEF rows
  <2>2. Items(rows) # DOMAIN rows /\ \A u \in DOMAIN rows : Above(rows[u], Behind[t])
    BY <2>1, LimitLeavesOut
  <2> QED
    BY <2>2, <1>3, <1>10
<1>12. Reaching'
  <2>1. ASSUME NEW t \in steady' \ shown'
        PROVE  Items(rows) # DOMAIN rows /\ Above(Place(last), Place(t))
    <3>1. t \in steady \ shown /\ t \notin Items(rows)
      BY <1>1, <1>6, <2>1
    <3>2. CASE t \in DOMAIN rows
      BY <3>1, <3>2, <1>9
    <3>3. CASE t \notin DOMAIN rows
      BY <3>1, <3>3, <1>4, <1>9, <1>11
    <3> QED
      BY <3>2, <3>3
  <2> HIDE DEF rows, last
  <2>2. CASE Items(rows) = DOMAIN rows
    BY <2>1, <2>2, <1>6 DEF Reaching
  <2>3. CASE Items(rows) # DOMAIN rows
    BY <2>1, <2>3, <1>6, <1>7 DEF Reaching, AfterCursor
  <2> QED
    BY <2>2, <2>3
<1>13. Passed'
  <2>1. SUFFICES ASSUME ~expired
                 PROVE  /\ again' = {}
                        /\ Items(rows) # DOMAIN rows =>
                             \A t \in shown' : /\ HasMail(t)' /\ walk'.cursor # <<>>
                                               /\ ~Above(walk'.cursor, Place(t)')
    BY <1>1, <1>6 DEF Passed
  <2>2. \A t \in shown : HasMail(t) /\ walk.cursor # <<>> /\ ~Above(walk.cursor, Place(t))
    BY <2>1, <1>1, <1>2 DEF Passed
  <2>3. \A t \in Items(rows) : t \notin shown
    BY <2>2, <1>3, <1>4 DEF AfterCursor
  <2>4. again' = {}
    BY <2>1, <2>3, <1>1, <1>2, <1>6 DEF Passed
  <2>5. ASSUME Items(rows) # DOMAIN rows, NEW t \in shown'
        PROVE  HasMail(t) /\ walk'.cursor # <<>> /\ ~Above(walk'.cursor, Place(t))
    <3>1. walk'.cursor = Place(last) /\ last \in Items(rows) /\ last \in DOMAIN rows
      BY <2>5, <1>4, <1>6, <1>9
    <3>2. /\ Place(last)[1] \in Nat /\ Place(last)[2] \in Nat
          /\ Place(last) # <<>>
      BY <3>1, <1>3, <1>5, IdShape DEF Place, IdShape
    <3>3. t \in Threads
      BY <1>6
    <3>4. CASE t \in Items(rows)
      <4>1. HasMail(t) /\ Place(t)[1] \in Nat /\ Place(t)[2] \in Nat
        BY <3>3, <3>4, <1>3, <1>4, <1>5, IdShape DEF Place, IdShape
      <4>2. t = last \/ Above(Place(t), Place(last))
        BY <2>5, <3>4, <1>9
      <4>3. ~Above(Place(last), Place(t))
        BY <4>1, <4>2, <3>2 DEF Above
      <4> QED
        BY <4>1, <4>3, <3>1, <3>2
    <3>5. CASE t \in shown
      <4>1. HasMail(t) /\ walk.cursor # <<>> /\ ~Above(walk.cursor, Place(t))
        BY <3>5, <2>2
      <4>2. Place(t)[1] \in Nat /\ Place(t)[2] \in Nat
        BY <4>1, <3>3, PlaceOfNewest DEF Place
      <4>3. walk.cursor[1] \in Nat /\ walk.cursor[2] \in Nat
        BY <4>1, <1>2 DEF WalkOK, Cursors
      <4>4. Above(walk.cursor, Place(last))
        BY <4>1, <3>1, <1>3 DEF AfterCursor
      <4>5. Above(Place(t), Place(last))
        BY <4>1, <4>2, <4>3, <4>4, <3>2, PlacesCompare
      <4>6. ~Above(Place(last), Place(t))
        BY <4>2, <4>5, <3>2, PlacesCompare
      <4> QED
        BY <4>1, <4>6, <3>1, <3>2
    <3> QED
      BY <3>4, <3>5, <1>6
  <2> HIDE DEF rows, last
  <2> QED
    BY <2>4, <2>5, <1>7
<1>14. Picking'
  <2>1. walk'.at # "hydrating"
    BY <1>6
  <2> QED
    BY <2>1 DEF Picking
<1> QED
  BY <1>8, <1>12, <1>13, <1>14 DEF WalkInv

LEMMA PickPageKeeps ==
  ASSUME IInv, WalkInv, PickPage, UNCHANGED vars
  PROVE  WalkInv'
<1>1. /\ walk.at = "asking" /\ walk.how = "search" /\ picked' = Selected
      /\ walk' = [walk EXCEPT !.at = "hydrating"]
      /\ shown' = shown /\ again' = again /\ steady' = steady /\ expired' = expired
  BY DEF PickPage
<1>2. WalkOK /\ Reaching
  BY DEF WalkInv
<1>3. /\ walk'.at = "hydrating" /\ walk'.how = "search" /\ walk'.folder = walk.folder
      /\ walk'.cursor = walk.cursor
      /\ walk' = [at |-> walk'.at, how |-> walk'.how, folder |-> walk'.folder, cursor |-> walk'.cursor]
  BY <1>1, <1>2 DEF WalkOK
<1>4. /\ Listed(walk.folder)' = Listed(walk.folder)
      /\ \A t : Place(t)' = Place(t) /\ (HasMail(t)' <=> HasMail(t))
  BY <1>3, SameTables DEF vars, Listed, Stored, Of, InboxOf
<1>5. Read(picked')
  BY <1>1, BehindIsRead
<1>6. WalkOK'
  BY <1>1, <1>2, <1>3, <1>4, <1>5 DEF WalkOK, Steps, Read, Ordered
<1>7. Picking'
  <2>1. SUFFICES ASSUME ~expired PROVE Picking'
    BY <1>1 DEF Picking
  <2>2. \A t \in DOMAIN Selected : HasMail(t) /\ Selected[t] = Place(t)
    BY BehindIsRead
  <2>3. ASSUME NEW t \in steady \ shown
        PROVE  \/ t \in DOMAIN Selected
               \/ /\ Items(Selected) # DOMAIN Selected
                  /\ \A u \in DOMAIN Selected : Above(Selected[u], Place(t))
    <3>1. t \in DOMAIN Behind /\ Behind[t] = Place(t)
      BY <2>1, <1>1, <1>2, BehindIsRead DEF Reaching, WalkOK
    <3>2. ASSUME t \notin First(Behind, PageSize + 1), NEW rows, rows = Selected
          PROVE  Items(rows) # DOMAIN rows /\ \A u \in DOMAIN rows : Above(rows[u], Behind[t])
      <4>1. /\ Ordered(Behind) /\ rows = [u \in First(Behind, PageSize + 1) |-> Behind[u]]
            /\ t \in DOMAIN Behind \ First(Behind, PageSize + 1)
        BY <3>1, <3>2, BehindIsRead DEF Read
      <4> QED
        BY <4>1, LimitLeavesOut
    <3> QED
      BY <3>1, <3>2, BehindIsRead
  <2>4. Items(picked)' = Items(Selected)
    BY <1>1 DEF Items, First, Over, Above
  <2>5. \A t \in steady' \ shown' :
          \/ t \in DOMAIN picked' /\ picked'[t] = Place(t)'
          \/ /\ Items(picked)' # DOMAIN picked'
             /\ \A u \in DOMAIN picked' : Above(picked'[u], Place(t)')
    BY <2>2, <2>3, <2>4, <1>1, <1>4
  <2>6. \A t \in DOMAIN picked' : HasMail(t)' /\ Place(t)' = picked'[t]
    BY <2>2, <1>1, <1>4
  <2> QED
    BY <2>5, <2>6 DEF Picking
<1>8. Reaching' /\ Passed'
  BY <1>3 DEF Reaching, Passed
<1> QED
  BY <1>6, <1>7, <1>8 DEF WalkInv

LEMMA HydratePageKeeps ==
  ASSUME IInv, WalkInv, HydratePage, UNCHANGED vars
  PROVE  WalkInv'
<1> DEFINE rows == Restrict(picked, DOMAIN picked \cap Stored)
           last == Lowest(rows, Items(rows))
<1>1. /\ walk.at = "hydrating" /\ ShowPage(rows) /\ picked' = <<>>
      /\ steady' = steady /\ expired' = expired
  BY DEF HydratePage
<1>2. WalkOK /\ Picking /\ walk.how = "search"
  BY <1>1 DEF WalkInv, WalkOK
<1>3. DOMAIN rows = DOMAIN picked \cap Stored /\ \A t \in DOMAIN rows : rows[t] = picked[t]
  BY DEF Restrict
<1> HIDE DEF rows
<1>4. Read(rows)
  <2>1. DOMAIN rows \in SUBSET DOMAIN picked
    BY <1>3
  <2> QED
    BY <2>1, <1>2, <1>3, FS_Subset DEF WalkOK, Read, Ordered
<1>5. Items(rows) \subseteq DOMAIN rows /\ DOMAIN rows \subseteq Threads
  BY <1>4 DEF Items, First, Read
<1>6. \A t \in Threads : threads[t].lastAt \in Nat /\ t \in Nat
  BY IdShape DEF IInv, TypeOK, ThreadRow, IdShape
<1>7. /\ shown' = shown \cup Items(rows) /\ shown' \subseteq Threads
      /\ walk'.how = "search" /\ walk'.folder = walk.folder /\ walk'.cursor \in Cursors
      /\ walk' = [at |-> walk'.at, how |-> walk.how, folder |-> walk.folder, cursor |-> walk'.cursor]
      /\ IF Items(rows) = DOMAIN rows
           THEN walk'.at = "done"
           ELSE walk'.at = "asking" /\ walk'.cursor = Place(last)
  <2> HIDE DEF last
  <2>1. \A t \in Items(rows) : threads[t].lastAt \in Nat
    BY <1>5, <1>6
  <2> QED
    BY <2>1, <1>1, <1>2, <1>4, Shows DEF last
<1>8. /\ Listed(walk.folder)' = Listed(walk.folder)
      /\ \A t : Place(t)' = Place(t)
  BY <1>7, SameTables DEF vars, Listed, Stored, Of, InboxOf
<1>9. WalkOK'
  <2>1. Read(picked')
    BY <1>1, FS_EmptySet DEF Read, Ordered
  <2> QED
    BY <2>1, <1>1, <1>2, <1>7, <1>8 DEF WalkOK, Steps, Read, Ordered
<1>10. Reaching'
  <2>1. SUFFICES ASSUME ~expired PROVE Reaching'
    BY <1>1, <1>7 DEF Reaching
  <2>2. /\ \A t \in DOMAIN picked :
             HasMail(t) /\ (Place(t) = picked[t] \/ Above(Place(t), picked[t]))
        /\ \A t \in steady \ shown :
             \/ t \in DOMAIN picked /\ picked[t] = Place(t)
             \/ /\ Items(picked) # DOMAIN picked
                /\ \A u \in DOMAIN picked : Above(picked[u], Place(t))
    BY <2>1, <1>1, <1>2 DEF Picking
  <2>3. DOMAIN rows = DOMAIN picked
    BY <2>2, <1>2, <1>3, PlaceOfNewest DEF WalkOK, Read
  <2>4. Items(rows) = Items(picked)
    BY <2>3, <1>3 DEF Items, First, Over
  <2>5. ASSUME NEW t \in steady' \ shown'
        PROVE  Items(rows) # DOMAIN rows /\ Above(Place(last), Place(t))
    <3>1. t \in steady \ shown /\ t \notin Items(rows)
      BY <1>1, <1>7, <2>5
    <3>2. Items(rows) # DOMAIN rows
      BY <3>1, <2>2, <2>3, <2>4
    <3>3. /\ last \in Items(rows) /\ last \in DOMAIN picked
          /\ \A u \in DOMAIN rows \ Items(rows) : Above(rows[last], rows[u])
      BY <3>2, <1>4, <1>5, <2>3, PageEnds DEF Read
    <3> HIDE DEF last
    <3>4. Above(picked[last], Place(t))
      BY <3>1, <3>3, <2>2, <2>3, <1>3
    <3>5. Place(last) = picked[last] \/ Above(Place(last), picked[last])
      BY <3>3, <2>2
    <3>6. t \in Threads /\ last \in Threads
      BY <3>1, <3>3, <1>2 DEF WalkOK, Read, Listed, Stored
    <3>7. /\ Place(t)[1] \in Nat /\ Place(t)[2] \in Nat
          /\ Place(last)[1] \in Nat /\ Place(last)[2] \in Nat
          /\ picked[last][1] \in Nat /\ picked[last][2] \in Nat
      BY <3>3, <3>6, <1>2, <1>6 DEF Place, WalkOK, Read, Ordered
    <3>8. Above(Place(last), Place(t))
      BY <3>4, <3>5, <3>7, PlacesCompare
    <3> QED
      BY <3>2, <3>8
  <2> HIDE DEF last
  <2>6. CASE Items(rows) = DOMAIN rows
    BY <2>5, <2>6, <1>7 DEF Reaching
  <2>7. CASE Items(rows) # DOMAIN rows
    BY <2>5, <2>7, <1>7, <1>8 DEF Reaching, AfterCursor
  <2> QED
    BY <2>6, <2>7
<1>11. Picking' /\ Passed'
  BY <1>7 DEF Picking, Passed
<1> QED
  BY <1>9, <1>10, <1>11 DEF WalkInv

\* A batch of the repositories moves threads up, or a message expires and the walk is
\* disturbed; what leaves the folder or gets a newer message is no longer steady.
LEMMA BatchKeeps ==
  ASSUME IInv, IInv', WalkInv, UNCHANGED client, Watch,
         \/ (Arrive \/ Send \/ Organise \/ Forward) /\ expired' = expired
         \/ Expire /\ expired' = (walk.at # "idle")
  PROVE  WalkInv'
<1>1. walk' = walk /\ shown' = shown /\ picked' = picked /\ again' = again
  BY DEF client
<1>2. WalkOK /\ Reaching /\ Picking /\ Passed
  BY DEF WalkInv
<1>3. /\ steady' \subseteq steady /\ steady' \subseteq Listed(walk.folder)'
      /\ \A t \in steady' : Place(t)' = Place(t)
  BY DEF Watch, Place
<1>4. WalkOK'
  <2>1. walk.at = "idle" => ~expired'
    BY <1>2 DEF WalkOK
  <2>2. Read(picked)'
    BY <1>1, <1>2 DEF WalkOK, Read, Ordered
  <2> QED
    BY <2>1, <2>2, <1>1, <1>2, <1>3 DEF WalkOK
<1>5. ASSUME walk.how = "list" \/ ~expired PROVE Reaching'
  BY <1>1, <1>2, <1>3, <1>5 DEF Reaching, AfterCursor
<1>6. CASE walk.at = "idle"
  BY <1>1, <1>2, <1>4, <1>6 DEF WalkInv, WalkOK, Reaching, Picking, Passed
<1>7. CASE expired' = TRUE /\ walk.at # "idle"
  <2>1. expired'
    BY <1>7
  <2>2. Reaching' /\ Picking' /\ Passed'
    BY <2>1, <1>1, <1>5 DEF Reaching, Picking, Passed
  <2> QED
    BY <2>2, <1>4 DEF WalkInv
<1>8. CASE (Arrive \/ Send \/ Organise \/ Forward) /\ expired' = expired
  <2>1. ASSUME NEW t \in Threads, HasMail(t)
        PROVE  /\ HasMail(t)' /\ (Place(t)' = Place(t) \/ Above(Place(t)', Place(t)))
               /\ Place(t)[1] \in Nat /\ Place(t)[2] \in Nat
               /\ Place(t)'[1] \in Nat /\ Place(t)'[2] \in Nat
    <3>1. HasMail(t)' /\ (Place(t)' = Place(t) \/ Above(Place(t)', Place(t)))
      BY <2>1, <1>8, MailStays, PlaceRises
    <3>2. threads[t].lastAt \in Nat /\ threads'[t].lastAt \in Nat /\ t \in Nat
      BY IdShape DEF IInv, TypeOK, ThreadRow, IdShape
    <3> QED
      BY <3>1, <3>2 DEF Place
  <2>2. Reaching'
    <3>1. CASE walk.how = "list" \/ ~expired
      BY <3>1, <1>5
    <3>2. CASE ~(walk.how = "list" \/ ~expired)
      BY <3>2, <1>1, <1>8 DEF Reaching
    <3> QED
      BY <3>1, <3>2
  <2>3. Picking'
    <3>1. SUFFICES ASSUME walk.at = "hydrating", ~expired PROVE Picking'
      BY <1>1, <1>8 DEF Picking
    <3>2. /\ \A t \in DOMAIN picked :
               HasMail(t) /\ (Place(t) = picked[t] \/ Above(Place(t), picked[t]))
          /\ \A t \in steady \ shown :
               \/ t \in DOMAIN picked /\ picked[t] = Place(t)
               \/ /\ Items(picked) # DOMAIN picked
                  /\ \A u \in DOMAIN picked : Above(picked[u], Place(t))
      BY <3>1, <1>2 DEF Picking
    <3>3. ASSUME NEW t \in DOMAIN picked
          PROVE  HasMail(t)' /\ (Place(t)' = picked[t] \/ Above(Place(t)', picked[t]))
      <4>1. t \in Threads /\ picked[t][1] \in Nat /\ picked[t][2] \in Nat
        BY <1>2, IdShape DEF WalkOK, Read, Ordered, IdShape
      <4>2. HasMail(t) /\ (Place(t) = picked[t] \/ Above(Place(t), picked[t]))
        BY <3>2
      <4> QED
        BY <4>1, <4>2, <2>1, PlacesCompare
    <3>4. Items(picked)' = Items(picked)
      BY <1>1 DEF Items, First, Over, Above
    <3>5. \A t \in steady' \ shown' :
            \/ t \in DOMAIN picked' /\ picked'[t] = Place(t)'
            \/ /\ Items(picked)' # DOMAIN picked'
               /\ \A u \in DOMAIN picked' : Above(picked'[u], Place(t)')
      BY <3>2, <3>4, <1>1, <1>3
    <3> QED
      BY <3>3, <3>5, <1>1 DEF Picking
  <2>4. Passed'
    <3>1. SUFFICES ASSUME walk.how = "list", ~expired PROVE Passed'
      BY <1>1, <1>8 DEF Passed
    <3>2. /\ again = {}
          /\ walk.at = "asking" =>
               \A t \in shown : HasMail(t) /\ walk.cursor # <<>> /\ ~Above(walk.cursor, Place(t))
      BY <3>1, <1>2 DEF Passed
    <3>3. ASSUME walk.at = "asking", NEW t \in shown
          PROVE  HasMail(t)' /\ walk.cursor # <<>> /\ ~Above(walk.cursor, Place(t)')
      <4>1. HasMail(t) /\ walk.cursor # <<>> /\ ~Above(walk.cursor, Place(t))
        BY <3>2, <3>3
      <4>2. t \in Threads /\ walk.cursor[1] \in Nat /\ walk.cursor[2] \in Nat
        BY <4>1, <1>2 DEF WalkOK, Cursors
      <4> QED
        BY <4>1, <4>2, <2>1, PlacesCompare
    <3> QED
      BY <3>2, <3>3, <1>1 DEF Passed
  <2> QED
    BY <2>2, <2>3, <2>4, <1>4 DEF WalkInv
<1> QED
  BY <1>6, <1>7, <1>8

LEMMA StepWalk == IInv /\ WalkInv /\ [ListNext]_listVars => WalkInv'
<1> SUFFICES ASSUME IInv, WalkInv, [ListNext]_listVars PROVE WalkInv'
  OBVIOUS
<1>1. IInv'
  BY ListNextIsNext, StepIInv
<1>2. CASE Walk /\ UNCHANGED <<vars, changes>>
  <2>1. UNCHANGED vars
    BY <1>2
  <2> QED
    BY <2>1, <1>2, OpenKeeps, ListPageKeeps, PickPageKeeps, HydratePageKeeps DEF Walk
<1>3. CASE (Arrive \/ Send) /\ UNCHANGED <<client, expired, changes>> /\ Watch
  BY <1>1, <1>3, BatchKeeps
<1>4. CASE /\ \/ (Organise \/ Forward) /\ UNCHANGED expired
              \/ Expire /\ expired' = (walk.at # "idle")
           /\ UNCHANGED client /\ Watch
  BY <1>1, <1>4, BatchKeeps
<1>5. CASE UNCHANGED listVars
  <2>1. /\ walk' = walk /\ shown' = shown /\ picked' = picked /\ again' = again
        /\ steady' = steady /\ expired' = expired
        /\ messages' = messages /\ threads' = threads
    BY <1>5 DEF listVars, client, vars
  <2>2. /\ Listed(walk.folder)' = Listed(walk.folder)
        /\ Items(picked)' = Items(picked)
        /\ \A t : Place(t)' = Place(t) /\ (HasMail(t)' <=> HasMail(t))
    BY <2>1 DEF Listed, Stored, Of, InboxOf, Items, First, Over, Above, Place, HasMail
  <2> QED
    BY <2>1, <2>2 DEF WalkInv, WalkOK, Reaching, Picking, Passed, Read, Ordered, AfterCursor
<1> QED
  BY <1>2, <1>3, <1>4, <1>5 DEF ListNext

\* Whoever lists meets the tables as their batches leave them: the composed system implements
\* the tables' own specification.
THEOREM ListImplementsAggregates == ListSpec => Spec
<1>1. ListInit => Init
  BY DEF ListInit
<1> QED
  BY <1>1, ListNextIsNext, PTL DEF ListSpec, Spec

\* What a walk relies on between any two statements.
THEOREM WalkInvariance == ListSpec => [](IInv /\ WalkInv)
<1>1. IInv /\ WalkInv /\ [ListNext]_listVars => IInv' /\ WalkInv'
  BY ListNextIsNext, StepIInv, StepWalk
<1>2. ListInit => IInv /\ WalkInv
  BY InitIInv, InitWalk DEF ListInit
<1> QED
  BY <1>1, <1>2, PTL DEF ListSpec

\* A walk to the end shows every thread that stayed in its folder with the same latest message,
\* whatever arrives, is sent, organised or forwarded meanwhile, whatever the size of a page;
\* a walk through listThreads even when messages expire.
THEOREM NothingMissed == ListSpec => []NothingSteadyIsMissed
<1>1. WalkInv => NothingSteadyIsMissed
  BY DEF WalkInv, Reaching, NothingSteadyIsMissed
<1> QED
  BY <1>1, WalkInvariance, PTL

\* No page of listThreads holds a thread that an earlier page held, unless a message expired.
THEOREM NothingRepeated == ListSpec => []ListRepeatsNothing
<1>1. WalkInv => ListRepeatsNothing
  BY DEF WalkInv, Passed, ListRepeatsNothing
<1> QED
  BY <1>1, WalkInvariance, PTL
=============================================================================
