------------------------- MODULE InboundForwardProofs -------------------------
(***************************************************************************)
(* Proofs about InboundForward, for any handlers, mails, rules, addresses  *)
(* and number of edits.                                                    *)
(*                                                                         *)
(* None of the properties is inductive.  IInv adds to them                 *)
(*   - that a handler works on a mail, and on the same one to its end,     *)
(*   - that a claimed row never becomes pending again, so that one handler *)
(*     at most is between the claim and the result of a mail,              *)
(*   - what is known at each step of the row, the raw object and the alias *)
(*     of the mail, and of what the owner has forbidden since.             *)
(***************************************************************************)
EXTENDS InboundForward, TLAPS

Unclaimed == {"absent", "not_applicable", "pending"}

\* From the claim to the result of the provider call.
Handing == {"send", "record", "recordUnknown"}

\* The steps before the mail of a handler is known to have a row.
Unprojected == {"idle", "put", "lookup", "mailbox", "readMailbox", "rules", "project"}

\* The steps behind the second look at the rules.
Rechecked == {"alias", "issue", "readAlias", "bridge", "claim", "send"}

Attends(h) == /\ pc[h] # "idle" => mail[h] \in Mails
              /\ pc[h] = "idle" => token[h] = None /\ reply[h] = None
              /\ pc[h] \notin {"done", "crashed"} => reply[h] = None

Attending == \A h \in Handlers : Attends(h)

Holds(h) == pc[h] \in Handing => Row(h).forward \notin Unclaimed

Claiming ==
  /\ \A h \in Handlers : Holds(h)
  /\ \A g, h \in Handlers : pc[g] \in Handing /\ pc[h] \in Handing /\ mail[g] = mail[h] => g = h

Counting ==
  /\ \A h \in Handlers : pc[h] = "send" => calls[mail[h]] = 0
  /\ \A m \in Mails : /\ calls[m] \in 0..1
                      /\ rows[m].forward \in Unclaimed => calls[m] = 0

HasRow(h) == /\ pc[h] \notin Unprojected \cup {"done", "crashed"} => Row(h).forward # "absent"
             /\ reply[h] = "acknowledged" => Row(h).forward # "absent"

HasRaw(h) == pc[h] \in {"lookup", "mailbox", "readMailbox", "rules", "project"} => h \in raw

Capturing ==
  /\ \A h \in Handlers : HasRow(h) /\ HasRaw(h)
  /\ \A m \in Mails : rows[m].forward # "absent" => rows[m].rawKey \in raw

Answering ==
  /\ \A h \in Handlers : token[h] # None => aliases[mail[h]] = token[h]
  /\ ReplyToResolves

Delivering ==
  /\ \A h \in Handlers : pc[h] = "record" => mail[h] \in accepted
  /\ \A m \in Mails : rows[m].forward = "forwarded" => m \in accepted /\ rows[m].providerId # None
  /\ BridgeWasDelivered

Bars(h) == /\ barred[h] \subseteq Causes
           /\ pc[h] # "idle" => barred[h] \subseteq Forbids(mail[h], rules, mailbox)
           /\ pc[h] \in Rechecked => "rule" \notin barred[h]
           /\ pc[h] = "send" => "mailbox" \notin barred[h]

Barring == \A h \in Handlers : Bars(h)

IInv == TypeOK /\ Attending /\ Claiming /\ Counting /\ Capturing /\ Answering /\ Delivering /\ Barring

Acts(h) == (\E m \in Mails : Receive(h, m)) \/ Progress(h) \/ Crash(h)

-------------------------------------------------------------------------------
\* What is the case before any mail arrives.
LEMMA InitIInv == Init => IInv
<1> SUFFICES ASSUME Init PROVE IInv
  OBVIOUS
<1> USE DEF Init
<1>1. TypeOK
  <2>1. mailbox \in Mailboxes
    BY MailShape DEF InitialMailboxes, Mailboxes, MailboxKinds
  <2>3. NoRow \in Rows
    BY DEF NoRow, Rows, ForwardStates
  <2> QED
    BY <2>1, <2>3, MailShape DEF TypeOK, Steps, Causes
<1>2. Attending
  BY DEF Attending, Attends
<1>3. Claiming /\ Counting
  BY DEF Claiming, Holds, Counting, Handing
<1>4. Capturing
  BY MailShape DEF Capturing, HasRow, HasRaw, Unprojected, NoRow
<1>5. Answering
  BY DEF Answering, ReplyToResolves
<1>6. Delivering
  BY DEF Delivering, BridgeWasDelivered, NoRow
<1>7. Barring
  BY DEF Barring, Bars, Rechecked, Causes
<1> QED
  BY <1>1, <1>2, <1>3, <1>4, <1>5, <1>6, <1>7 DEF IInv

\* What the statements write into the row of a mail is a row that keeps its raw key.
LEMMA RowUpdates ==
  ASSUME TypeOK, NEW h \in Handlers, mail[h] \in Mails
  PROVE  /\ CapturedRow(h) \in Rows /\ CapturedRow(h).rawKey = h
         /\ CapturedRow(h).forward = InitialForward(h)
         /\ InitialForward(h) \in {"not_applicable", "pending", "failed"}
         /\ SuppressedRow(h) \in Rows /\ SuppressedRow(h).rawKey = Row(h).rawKey
         /\ SuppressedRow(h).forward = "not_applicable"
         /\ ClaimedRow(h) \in Rows /\ ClaimedRow(h).rawKey = Row(h).rawKey
         /\ ClaimedRow(h).forward = "unknown"
<1>1. Row(h) \in Rows
  BY DEF TypeOK, Row
<1>2. InitialForward(h) \in {"not_applicable", "pending", "failed"}
  BY DEF InitialForward
<1>3. CapturedRow(h) \in Rows /\ CapturedRow(h).rawKey = h /\ CapturedRow(h).forward = InitialForward(h)
  BY <1>2 DEF CapturedRow, Rows, ForwardStates
<1>4. /\ SuppressedRow(h) \in Rows /\ SuppressedRow(h).rawKey = Row(h).rawKey
      /\ SuppressedRow(h).forward = "not_applicable"
  BY <1>1 DEF SuppressedRow, Rows, ForwardStates
<1>5. /\ ClaimedRow(h) \in Rows /\ ClaimedRow(h).rawKey = Row(h).rawKey
      /\ ClaimedRow(h).forward = "unknown"
  BY <1>1 DEF ClaimedRow, Rows, ForwardStates
<1> QED
  BY <1>2, <1>3, <1>4, <1>5

LEMMA ResultUpdates ==
  ASSUME TypeOK, NEW h \in Handlers, mail[h] \in Mails,
         NEW state \in {"failed", "unknown", "forwarded"}, NEW id \in Handlers \cup {None}
  PROVE  /\ ResultRow(h, state, id) \in Rows
         /\ ResultRow(h, state, id).rawKey = Row(h).rawKey
         /\ ResultRow(h, state, id).forward = state
         /\ id # None => ResultRow(h, state, id).providerId = id
<1>1. Row(h) \in Rows
  BY DEF TypeOK, Row
<1> QED
  BY <1>1 DEF ResultRow, Rows, ForwardStates

\* A handler touches no other handler, and only the row and the alias of its mail.
LEMMA HandlerFrame ==
  ASSUME TypeOK, NEW h \in Handlers, Acts(h)
  PROVE  /\ \A g \in Handlers \ {h} :
              /\ pc'[g] = pc[g] /\ mail'[g] = mail[g] /\ token'[g] = token[g]
              /\ bridge'[g] = bridge[g] /\ reply'[g] = reply[g] /\ barred'[g] = barred[g]
         /\ pc[h] # "idle" => mail'[h] = mail[h] /\ barred'[h] = barred[h]
         /\ pc'[h] # "idle"
         /\ \A m \in Mails : rows'[m] = rows[m] \/ (m = mail[h] /\ pc[h] # "idle")
         /\ rules' = rules
         /\ accepted \subseteq accepted' /\ raw \subseteq raw'
<1>1. /\ \A g \in Handlers \ {h} :
              /\ pc'[g] = pc[g] /\ mail'[g] = mail[g] /\ token'[g] = token[g]
              /\ bridge'[g] = bridge[g] /\ reply'[g] = reply[g] /\ barred'[g] = barred[g]
      /\ pc[h] # "idle" => mail'[h] = mail[h] /\ barred'[h] = barred[h]
      /\ pc'[h] # "idle"
  BY DEF TypeOK, Acts, Progress, Capture, Forward, Receive, Reject, PutRaw, FindByDigest,
         EnsureMailbox, ReadMailbox, ReadRules, Project, Resume, Recheck, Suppress, FindAlias,
         IssueAlias, ReadAlias, FailForward, FindBridge, Claim, Send, RecordForwarded,
         RecordUnknown, Crash, Goto, Answer, locals
<1>2. \A m \in Mails : rows'[m] = rows[m] \/ (m = mail[h] /\ pc[h] # "idle")
  BY DEF TypeOK, Acts, Progress, Capture, Forward, Receive, Reject, PutRaw, FindByDigest,
         EnsureMailbox, ReadMailbox, ReadRules, Project, Resume, Recheck, Suppress, FindAlias,
         IssueAlias, ReadAlias, FailForward, FindBridge, Claim, Send, RecordForwarded,
         RecordUnknown, Crash, tables, Write
<1>3. rules' = rules /\ accepted \subseteq accepted' /\ raw \subseteq raw'
  BY DEF Acts, Progress, Capture, Forward, Receive, Reject, PutRaw, FindByDigest,
         EnsureMailbox, ReadMailbox, ReadRules, Project, Resume, Recheck, Suppress, FindAlias,
         IssueAlias, ReadAlias, FailForward, FindBridge, Claim, Send, RecordForwarded,
         RecordUnknown, Crash, tables, provider, StoredRaw
<1> QED
  BY <1>1, <1>2, <1>3

\* Once a row exists it stays, with its raw object, and once it was claimed, failed or
\* forwarded it is never pending or suppressed again.
LEMMA RowsAdvance ==
  ASSUME IInv, NEW h \in Handlers, Acts(h)
  PROVE  \A m \in Mails :
           /\ rows[m].forward # "absent" =>
                rows'[m].forward # "absent" /\ rows'[m].rawKey = rows[m].rawKey
           /\ rows[m].forward \notin Unclaimed => rows'[m].forward \notin Unclaimed
<1> USE DEF IInv
<1>a. pc[h] # "idle" => mail[h] \in Mails
  BY DEF Attending, Attends
<1>b. rows \in [Mails -> Rows]
  BY DEF TypeOK
<1>1. CASE UNCHANGED rows
  BY <1>1
<1>2. CASE Project(h)
  BY <1>2, <1>a, <1>b DEF Project, Insertable, Write, Unclaimed
<1>3. CASE Suppress(h)
  BY <1>3, <1>a, <1>b, RowUpdates DEF Suppress, Write, Row, Unclaimed
<1>4. CASE Claim(h)
  BY <1>4, <1>a, <1>b, RowUpdates DEF Claim, Write, Row, Unclaimed
<1>5. CASE FailForward(h)
  BY <1>5, <1>a, <1>b, ResultUpdates DEF FailForward, Write, Row, Unclaimed
<1>6. CASE RecordForwarded(h)
  BY <1>6, <1>a, <1>b, ResultUpdates DEF RecordForwarded, Write, Row, Unclaimed
<1>7. CASE RecordUnknown(h)
  BY <1>7, <1>a, <1>b, ResultUpdates DEF RecordUnknown, Write, Row, Unclaimed
<1> QED
  BY <1>1, <1>2, <1>3, <1>4, <1>5, <1>6, <1>7
  DEF Acts, Progress, Capture, Forward, Receive, Reject, PutRaw, FindByDigest, EnsureMailbox,
      ReadMailbox, ReadRules, Resume, Recheck, FindAlias, IssueAlias, ReadAlias, FindBridge, Send,
      Crash, tables

\* A handler keeps the types.
LEMMA StepTypeOK ==
  ASSUME IInv, NEW h \in Handlers, Acts(h)
  PROVE  TypeOK'
<1> USE DEF IInv, TypeOK
<1>a. pc[h] # "idle" => mail[h] \in Mails
  BY DEF Attending, Attends
<1>b. Effective(mailbox) \in Addresses \cup {None}
  BY DEF Effective, Mailboxes
<1>1. ASSUME NEW m \in Mails, Receive(h, m) PROVE TypeOK'
  <2>1. Forbids(m, rules, mailbox) \in SUBSET Causes
    BY DEF Forbids, Causes
  <2> QED
    BY <1>1, <2>1 DEF Receive, Goto, Steps, tables, provider, owner
<1>2. CASE Reject(h)
  BY <1>2 DEF Reject, Answer, Steps, tables, provider, owner, locals
<1>3. CASE PutRaw(h)
  BY <1>3 DEF PutRaw, StoredRaw, Goto, Steps, tables, provider, owner, locals
<1>4. CASE FindByDigest(h)
  BY <1>4 DEF FindByDigest, Goto, Steps, tables, provider, owner, locals
<1>5. CASE EnsureMailbox(h)
  <2>1. mailbox' \in Mailboxes
    BY <1>5 DEF EnsureMailbox, Mailboxes, MailboxKinds
  <2> QED
    BY <1>5, <2>1 DEF EnsureMailbox, Goto, Steps, provider, owner, locals
<1>6. CASE ReadMailbox(h)
  BY <1>6, <1>b DEF ReadMailbox, Goto, Steps, tables, provider, owner
<1>7. CASE ReadRules(h)
  <2>1. Blocked(mail[h], rules) \in BOOLEAN
    BY DEF Blocked
  <2> QED
    BY <1>7, <2>1 DEF ReadRules, Goto, Steps, tables, provider, owner
<1>8. CASE Project(h)
  BY <1>8, <1>a, RowUpdates DEF Project, Write, Goto, Answer, Steps, provider, owner, locals
<1>9. CASE Resume(h)
  BY <1>9, <1>b DEF Resume, Goto, Answer, Steps, tables, provider, owner
<1>10. CASE Recheck(h)
  BY <1>10 DEF Recheck, Goto, Steps, tables, provider, owner, locals
<1>11. CASE Suppress(h)
  BY <1>11, <1>a, RowUpdates DEF Suppress, Write, Answer, Steps, provider, owner, locals
<1>12. CASE FindAlias(h)
  BY <1>12, <1>a DEF FindAlias, Goto, Steps, tables, provider, owner
<1>13. CASE IssueAlias(h)
  BY <1>13, <1>a DEF IssueAlias, Goto, Steps, provider, owner, locals
<1>14. CASE ReadAlias(h)
  BY <1>14, <1>a DEF ReadAlias, IssuedToken, Goto, Steps, tables, provider, owner
<1>15. CASE FailForward(h)
  BY <1>15, <1>a, ResultUpdates DEF FailForward, Write, Answer, Steps, provider, owner, locals
<1>16. CASE FindBridge(h)
  BY <1>16, <1>a DEF FindBridge, Bridges, Goto, Steps, tables, provider, owner
<1>17. CASE Claim(h)
  BY <1>17, <1>a, RowUpdates DEF Claim, Write, Goto, Answer, Steps, provider, owner, locals
<1>18. CASE Send(h)
  BY <1>18, <1>a DEF Send, Goto, Steps, tables, owner, locals
<1>19. CASE RecordForwarded(h)
  <2>1. ResultRow(h, "forwarded", h) \in Rows
    BY <1>19, <1>a, ResultUpdates DEF RecordForwarded
  <2>2. rows' \in [Mails -> Rows]
    BY <1>19, <2>1 DEF RecordForwarded, Write
  <2>3. pc' \in [Handlers -> Steps] /\ reply' \in [Handlers -> {None, "rejected", "acknowledged", "error"}]
    BY <1>19 DEF RecordForwarded, Goto, Answer, Steps
  <2> QED
    BY <1>19, <2>2, <2>3 DEF RecordForwarded, provider, owner, locals
<1>20. CASE RecordUnknown(h)
  BY <1>20, <1>a, ResultUpdates DEF RecordUnknown, Write, Answer, Steps, provider, owner, locals
<1>21. CASE Crash(h)
  BY <1>21 DEF Crash, Goto, Steps, tables, provider, owner, locals
<1> QED
  BY <1>1, <1>2, <1>3, <1>4, <1>5, <1>6, <1>7, <1>8, <1>9, <1>10, <1>11, <1>12, <1>13, <1>14,
     <1>15, <1>16, <1>17, <1>18, <1>19, <1>20, <1>21
  DEF Acts, Progress, Capture, Forward

\* A handler works on one mail, and has no answer before it is done.
LEMMA StepAttending ==
  ASSUME IInv, NEW h \in Handlers, Acts(h)
  PROVE  Attending'
<1> USE DEF IInv, TypeOK
<1>1. \A g \in Handlers \ {h} : Attends(g)'
  BY HandlerFrame DEF Attending, Attends
<1>2. Attends(h)'
  <2>1. mail'[h] \in Mails /\ pc'[h] # "idle"
    <3>1. CASE \E m \in Mails : Receive(h, m)
      BY <3>1, HandlerFrame DEF Receive
    <3>2. CASE ~(\E m \in Mails : Receive(h, m))
      BY <3>2, HandlerFrame DEF Acts, Progress, Capture, Forward, Reject, PutRaw, FindByDigest,
         EnsureMailbox, ReadMailbox, ReadRules, Project, Resume, Recheck, Suppress, FindAlias,
         IssueAlias, ReadAlias, FailForward, FindBridge, Claim, Send, RecordForwarded,
         RecordUnknown, Crash, Attending, Attends
    <3> QED
      BY <3>1, <3>2
  <2>2. pc'[h] \notin {"done", "crashed"} => reply'[h] = None
    BY DEF Acts, Progress, Capture, Forward, Receive, Reject, PutRaw, FindByDigest,
         EnsureMailbox, ReadMailbox, ReadRules, Project, Resume, Recheck, Suppress, FindAlias,
         IssueAlias, ReadAlias, FailForward, FindBridge, Claim, Send, RecordForwarded,
         RecordUnknown, Crash, Goto, Answer, Attending, Attends
  <2> QED
    BY <2>1, <2>2 DEF Attends
<1> QED
  BY <1>1, <1>2 DEF Attending

\* The claim of a mail is won once, and its winner is alone with the provider.
LEMMA StepClaiming ==
  ASSUME IInv, NEW h \in Handlers, Acts(h)
  PROVE  Claiming'
<1> USE DEF IInv
<1>a. /\ \A g \in Handlers \ {h} : pc'[g] = pc[g] /\ mail'[g] = mail[g]
      /\ pc[h] # "idle" => mail'[h] = mail[h]
  BY HandlerFrame
<1>b. \A g \in Handlers : pc[g] # "idle" => mail[g] \in Mails
  BY DEF Attending, Attends
<1>c. \A m \in Mails : rows[m].forward \notin Unclaimed => rows'[m].forward \notin Unclaimed
  BY RowsAdvance
<1>1. \A g \in Handlers : pc'[g] \in Handing /\ pc[g] \in Handing => Holds(g)' /\ mail'[g] = mail[g]
  BY <1>a, <1>b, <1>c DEF Claiming, Holds, Row, Handing
<1>2. CASE Claim(h) /\ Claimable(h)
  <2>1. pc[h] = "claim" /\ Row(h).forward = "pending" /\ mail[h] \in Mails /\ mail'[h] = mail[h]
    BY <1>2, <1>a, <1>b DEF Claim, Claimable
  <2>2. rows'[mail[h]].forward = "unknown"
    BY <1>2, <2>1, RowUpdates DEF Claim, Write, TypeOK
  <2>3. \A g \in Handlers : pc[g] \in Handing => mail[g] # mail[h]
    BY <2>1 DEF Claiming, Holds, Row, Unclaimed
  <2>4. Holds(h)'
    BY <2>1, <2>2 DEF Holds, Row, Unclaimed
  <2> QED
    BY <1>1, <1>a, <2>1, <2>3, <2>4 DEF Claiming, Holds
<1>3. CASE ~(Claim(h) /\ Claimable(h))
  <2>1. pc'[h] \in Handing => pc[h] \in Handing
    BY <1>3 DEF Acts, Progress, Capture, Forward, Receive, Reject, PutRaw, FindByDigest,
       EnsureMailbox, ReadMailbox, ReadRules, Project, Resume, Recheck, Suppress, FindAlias,
       IssueAlias, ReadAlias, FailForward, FindBridge, Claim, Send, RecordForwarded,
       RecordUnknown, Crash, Goto, Answer, Handing, TypeOK
  <2> QED
    BY <1>1, <1>a, <2>1 DEF Claiming, Holds
<1> QED
  BY <1>2, <1>3

\* The provider is called by the winner of the claim, once.
LEMMA StepCounting ==
  ASSUME IInv, NEW h \in Handlers, Acts(h)
  PROVE  Counting'
<1> USE DEF IInv
<1>a. /\ \A g \in Handlers \ {h} : pc'[g] = pc[g] /\ mail'[g] = mail[g]
      /\ pc[h] # "idle" => mail'[h] = mail[h]
  BY HandlerFrame
<1>b. \A g \in Handlers : pc[g] # "idle" => mail[g] \in Mails
  BY DEF Attending, Attends
<1>1. CASE Send(h)
  <2>1. /\ pc[h] = "send" /\ mail[h] \in Mails /\ calls[mail[h]] = 0
        /\ Row(h).forward \notin Unclaimed
        /\ \A g \in Handlers \ {h} : pc[g] = "send" => mail[g] # mail[h]
    BY <1>1, <1>b DEF Send, Counting, Claiming, Holds, Handing
  <2>2. /\ calls'[mail[h]] = 1
        /\ \A m \in Mails \ {mail[h]} : calls'[m] = calls[m]
        /\ rows' = rows /\ pc'[h] # "send"
    BY <1>1, <2>1 DEF Send, Goto, TypeOK, tables
  <2>3. \A g \in Handlers : pc'[g] = "send" => calls'[mail'[g]] = 0
    BY <1>a, <1>b, <2>1, <2>2 DEF Counting
  <2> QED
    BY <2>1, <2>2, <2>3 DEF Counting, Row
<1>2. CASE ~Send(h)
  <2>1. calls' = calls
    BY <1>2 DEF Acts, Progress, Capture, Forward, Receive, Reject, PutRaw, FindByDigest,
       EnsureMailbox, ReadMailbox, ReadRules, Project, Resume, Recheck, Suppress, FindAlias,
       IssueAlias, ReadAlias, FailForward, FindBridge, Claim, RecordForwarded,
       RecordUnknown, Crash, provider
  <2>2. \A m \in Mails : rows'[m].forward \in Unclaimed => rows[m].forward \in Unclaimed
    BY RowsAdvance
  <2>3. pc'[h] = "send" => calls'[mail'[h]] = 0
    <3>1. CASE Claim(h) /\ Claimable(h)
      BY <3>1, <1>a, <1>b, <2>1 DEF Claim, Claimable, Counting, Row, Unclaimed
    <3>2. CASE ~(Claim(h) /\ Claimable(h))
      BY <1>2, <3>2 DEF Acts, Progress, Capture, Forward, Receive, Reject, PutRaw, FindByDigest,
         EnsureMailbox, ReadMailbox, ReadRules, Project, Resume, Recheck, Suppress, FindAlias,
         IssueAlias, ReadAlias, FailForward, FindBridge, Claim, RecordForwarded,
         RecordUnknown, Crash, Goto, Answer, TypeOK
    <3> QED
      BY <3>1, <3>2
  <2> QED
    BY <1>a, <2>1, <2>2, <2>3 DEF Counting
<1> QED
  BY <1>1, <1>2

\* A row is only written for a mail whose raw object was stored, and a delivery that goes
\* on to forward, or answers, has seen or written the row.
LEMMA StepCapturing ==
  ASSUME IInv, NEW h \in Handlers, Acts(h)
  PROVE  Capturing'
<1> USE DEF IInv
<1>a. /\ \A g \in Handlers \ {h} : pc'[g] = pc[g] /\ mail'[g] = mail[g] /\ reply'[g] = reply[g]
      /\ pc[h] # "idle" => mail'[h] = mail[h]
      /\ raw \subseteq raw'
      /\ \A m \in Mails : rows'[m] = rows[m] \/ (m = mail[h] /\ pc[h] # "idle")
  BY HandlerFrame
<1>b. /\ \A g \in Handlers : pc[g] # "idle" => mail[g] \in Mails
      /\ \A g \in Handlers : pc[g] \notin {"done", "crashed"} => reply[g] = None
  BY DEF Attending, Attends
<1>c. \A m \in Mails : rows[m].forward # "absent" =>
        rows'[m].forward # "absent" /\ rows'[m].rawKey = rows[m].rawKey
  BY RowsAdvance
<1>d. TypeOK /\ TypeOK'
  BY StepTypeOK
<1>1. \A m \in Mails : rows'[m].forward # "absent" => rows'[m].rawKey \in raw'
  <2>1. CASE Project(h)
    <3>1. pc[h] = "project" /\ mail[h] \in Mails /\ h \in raw
      BY <2>1, <1>b DEF Project, Capturing, HasRaw
    <3>2. rows'[mail[h]] = rows[mail[h]] \/ rows'[mail[h]].rawKey = h
      BY <2>1, <3>1, <1>d, RowUpdates DEF Project, Write, TypeOK
    <3> QED
      BY <3>1, <3>2, <1>a DEF Capturing
  <2>2. CASE ~Project(h)
    <3>1. \A m \in Mails : rows'[m] # rows[m] => rows[m].forward # "absent"
      BY <2>2, <1>a, <1>b DEF Acts, Progress, Capture, Forward, Receive, Reject, PutRaw, FindByDigest,
         EnsureMailbox, ReadMailbox, ReadRules, Project, Resume, Recheck, Suppress, FindAlias,
         IssueAlias, ReadAlias, FailForward, FindBridge, Claim, Send, RecordForwarded,
         RecordUnknown, Crash, Capturing, HasRow, Unprojected, Row, tables
    <3> QED
      BY <3>1, <1>a, <1>c DEF Capturing
  <2> QED
    BY <2>1, <2>2
<1>2. \A g \in Handlers \ {h} : HasRow(g)' /\ HasRaw(g)'
  <2> SUFFICES ASSUME NEW g \in Handlers \ {h} PROVE HasRow(g)' /\ HasRaw(g)'
    OBVIOUS
  <2>1. pc'[g] = pc[g] /\ mail'[g] = mail[g] /\ reply'[g] = reply[g]
    BY <1>a
  <2>2. pc[g] # "idle" /\ Row(g).forward # "absent" => Row(g)'.forward # "absent"
    BY <2>1, <1>b, <1>c DEF Row
  <2>3. pc[g] = "idle" => reply[g] # "acknowledged"
    BY <1>b, MailShape
  <2> QED
    BY <2>1, <2>2, <2>3, <1>a DEF Capturing, HasRow, HasRaw, Unprojected
<1>3. HasRaw(h)'
  <2>1. CASE PutRaw(h)
    BY <2>1, <1>d DEF PutRaw, StoredRaw, HasRaw
  <2>2. CASE ~PutRaw(h)
    <3>1. pc'[h] \in {"lookup", "mailbox", "readMailbox", "rules", "project"} =>
            pc[h] \in {"lookup", "mailbox", "readMailbox", "rules", "project"}
      BY <2>2, <1>d DEF Acts, Progress, Capture, Forward, Receive, Reject, PutRaw, FindByDigest,
         EnsureMailbox, ReadMailbox, ReadRules, Project, Resume, Recheck, Suppress, FindAlias,
         IssueAlias, ReadAlias, FailForward, FindBridge, Claim, Send, RecordForwarded,
         RecordUnknown, Crash, Goto, Answer, TypeOK
    <3> QED
      BY <3>1, <1>a DEF Capturing, HasRaw
  <2> QED
    BY <2>1, <2>2
<1>4. HasRow(h)'
  <2>1. CASE FindByDigest(h)
    BY <2>1, <1>a, <1>b, <1>d, MailShape DEF FindByDigest, Goto, HasRow, Unprojected, Row, tables, TypeOK
  <2>2. CASE Project(h)
    <3>1. pc[h] = "project" /\ mail[h] \in Mails /\ mail'[h] = mail[h] /\ reply[h] = None
      BY <2>2, <1>a, <1>b DEF Project
    <3>2. CASE Insertable(mail[h])
      <4>1. rows'[mail[h]].forward # "absent"
        BY <2>2, <3>1, <3>2, <1>d, RowUpdates DEF Project, Write, TypeOK
      <4> QED
        BY <4>1, <3>1 DEF HasRow, Row
    <3>3. CASE ~Insertable(mail[h])
      BY <2>2, <3>3, <1>d DEF Project, Answer, HasRow, TypeOK
    <3> QED
      BY <3>2, <3>3
  <2>3. CASE ~FindByDigest(h) /\ ~Project(h)
    <3>1. /\ pc'[h] \notin Unprojected \cup {"done", "crashed"} =>
               pc[h] \notin Unprojected \cup {"done", "crashed"}
          /\ reply'[h] = "acknowledged" =>
               pc[h] \notin Unprojected \cup {"done", "crashed"} \/ reply[h] = "acknowledged"
      BY <2>3, <1>d DEF Acts, Progress, Capture, Forward, Receive, Reject, PutRaw, FindByDigest,
         EnsureMailbox, ReadMailbox, ReadRules, Project, Resume, Recheck, Suppress, FindAlias,
         IssueAlias, ReadAlias, FailForward, FindBridge, Claim, Send, RecordForwarded,
         RecordUnknown, Crash, Goto, Answer, Unprojected, TypeOK
    <3>2. pc[h] \notin Unprojected => mail'[h] = mail[h] /\ mail[h] \in Mails
      BY <1>a, <1>b DEF Unprojected
    <3>3. reply[h] = "acknowledged" => mail'[h] = mail[h] /\ mail[h] \in Mails
      BY <1>a, <1>b, MailShape
    <3> QED
      BY <3>1, <3>2, <3>3, <1>c DEF Capturing, HasRow, Unprojected, Row
  <2> QED
    BY <2>1, <2>2, <2>3
<1> QED
  BY <1>1, <1>2, <1>3, <1>4 DEF Capturing

\* An alias on record is never replaced, and a handler only uses one it has read.
LEMMA StepAnswering ==
  ASSUME IInv, NEW h \in Handlers, Acts(h)
  PROVE  Answering'
<1> USE DEF IInv
<1>a. /\ \A g \in Handlers \ {h} : pc'[g] = pc[g] /\ mail'[g] = mail[g] /\ token'[g] = token[g]
      /\ pc[h] # "idle" => mail'[h] = mail[h]
  BY HandlerFrame
<1>b. /\ \A g \in Handlers : pc[g] # "idle" => mail[g] \in Mails
      /\ \A g \in Handlers : pc[g] = "idle" => token[g] = None
  BY DEF Attending, Attends
<1>d. TypeOK /\ TypeOK'
  BY StepTypeOK
<1>1. \A m \in Mails : aliases[m] # None => aliases'[m] = aliases[m]
  BY <1>b, <1>d DEF Acts, Progress, Capture, Forward, Receive, Reject, PutRaw, FindByDigest,
         EnsureMailbox, ReadMailbox, ReadRules, Project, Resume, Recheck, Suppress, FindAlias,
         IssueAlias, ReadAlias, FailForward, FindBridge, Claim, Send, RecordForwarded,
         RecordUnknown, Crash, tables, TypeOK
<1>2. \A g \in Handlers \ {h} : token'[g] # None => aliases'[mail'[g]] = token'[g]
  BY <1>1, <1>a, <1>b DEF Answering
<1>3. token'[h] # None => aliases'[mail'[h]] = token'[h]
  <2>1. CASE FindAlias(h)
    BY <2>1, <1>b, <1>d DEF FindAlias, tables, TypeOK
  <2>2. CASE ReadAlias(h)
    BY <2>2, <1>b, <1>d DEF ReadAlias, IssuedToken, tables, TypeOK
  <2>3. CASE ~FindAlias(h) /\ ~ReadAlias(h)
    <3>1. token'[h] = token[h]
      BY <2>3 DEF Acts, Progress, Capture, Forward, Receive, Reject, PutRaw, FindByDigest,
         EnsureMailbox, ReadMailbox, ReadRules, Project, Resume, Recheck, Suppress, FindAlias,
         IssueAlias, ReadAlias, FailForward, FindBridge, Claim, Send, RecordForwarded,
         RecordUnknown, Crash, locals
    <3> QED
      BY <3>1, <1>1, <1>a, <1>b DEF Answering
  <2> QED
    BY <2>1, <2>2, <2>3
<1>4. ReplyToResolves'
  <2>1. CASE Send(h)
    BY <2>1, <1>1, <1>b, <1>d DEF Send, Answering, ReplyToResolves, tables, TypeOK
  <2>2. CASE ~Send(h)
    <3>1. replyTo' = replyTo
      BY <2>2 DEF Acts, Progress, Capture, Forward, Receive, Reject, PutRaw, FindByDigest,
         EnsureMailbox, ReadMailbox, ReadRules, Project, Resume, Recheck, Suppress, FindAlias,
         IssueAlias, ReadAlias, FailForward, FindBridge, Claim, Send, RecordForwarded,
         RecordUnknown, Crash, provider
    <3> QED
      BY <3>1, <1>1 DEF Answering, ReplyToResolves
  <2> QED
    BY <2>1, <2>2
<1> QED
  BY <1>2, <1>3, <1>4 DEF Answering

\* Forwarded is only written for what the provider took, and with its id.
LEMMA StepDelivering ==
  ASSUME IInv, NEW h \in Handlers, Acts(h)
  PROVE  Delivering'
<1> USE DEF IInv
<1>a. /\ \A g \in Handlers \ {h} : pc'[g] = pc[g] /\ mail'[g] = mail[g] /\ bridge'[g] = bridge[g]
      /\ pc[h] # "idle" => mail'[h] = mail[h]
      /\ accepted \subseteq accepted'
      /\ \A m \in Mails : rows'[m] = rows[m] \/ (m = mail[h] /\ pc[h] # "idle")
  BY HandlerFrame
<1>b. \A g \in Handlers : pc[g] # "idle" => mail[g] \in Mails
  BY DEF Attending, Attends
<1>d. TypeOK /\ TypeOK'
  BY StepTypeOK
<1>1. \A g \in Handlers : pc'[g] = "record" => mail'[g] \in accepted'
  <2>1. pc'[h] = "record" => mail'[h] \in accepted'
    BY <1>b, <1>d DEF Acts, Progress, Capture, Forward, Receive, Reject, PutRaw, FindByDigest,
         EnsureMailbox, ReadMailbox, ReadRules, Project, Resume, Recheck, Suppress, FindAlias,
         IssueAlias, ReadAlias, FailForward, FindBridge, Claim, Send, RecordForwarded,
         RecordUnknown, Crash, Goto, Answer, locals, TypeOK
  <2> QED
    BY <2>1, <1>a, <1>b DEF Delivering
<1>2. \A m \in Mails : rows'[m].forward = "forwarded" => m \in accepted' /\ rows'[m].providerId # None
  <2>1. CASE RecordForwarded(h)
    <3>1. mail[h] \in accepted /\ mail[h] \in Mails
      BY <2>1, <1>b DEF RecordForwarded, Delivering
    <3>2. ResultRow(h, "forwarded", h).providerId # None
      BY <3>1, <1>d, ResultUpdates, MailShape
    <3>3. rows'[mail[h]] = rows[mail[h]] \/ rows'[mail[h]] = ResultRow(h, "forwarded", h)
      BY <2>1, <3>1, <1>d DEF RecordForwarded, Write, TypeOK
    <3> QED
      BY <3>1, <3>2, <3>3, <1>a DEF Delivering
  <2>2. CASE ~RecordForwarded(h)
    <3>1. \A m \in Mails : rows'[m] # rows[m] => rows'[m].forward # "forwarded"
      <4>1. CASE UNCHANGED rows
        BY <4>1
      <4>2. CASE Project(h)
        BY <4>2, <1>b, <1>d, RowUpdates DEF Project, Write, TypeOK
      <4>3. CASE Suppress(h)
        BY <4>3, <1>b, <1>d, RowUpdates DEF Suppress, Write, TypeOK
      <4>4. CASE Claim(h)
        BY <4>4, <1>b, <1>d, RowUpdates DEF Claim, Write, TypeOK
      <4>5. CASE FailForward(h)
        BY <4>5, <1>b, <1>d, ResultUpdates DEF FailForward, Write, TypeOK
      <4>6. CASE RecordUnknown(h)
        BY <4>6, <1>b, <1>d, ResultUpdates DEF RecordUnknown, Write, TypeOK
      <4> QED
        BY <2>2, <4>1, <4>2, <4>3, <4>4, <4>5, <4>6
        DEF Acts, Progress, Capture, Forward, Receive, Reject, PutRaw, FindByDigest, EnsureMailbox,
            ReadMailbox, ReadRules, Resume, Recheck, FindAlias, IssueAlias, ReadAlias, FindBridge,
            Send, Crash, tables
    <3> QED
      BY <3>1, <1>a DEF Delivering
  <2> QED
    BY <2>1, <2>2
<1>3. BridgeWasDelivered'
  <2>1. bridge'[h] # None => bridge'[h] \in accepted'
    <3>1. CASE FindBridge(h)
      BY <3>1, <1>d DEF FindBridge, Bridges, Delivering, provider, TypeOK
    <3>2. CASE ~FindBridge(h)
      <4>1. bridge'[h] = bridge[h]
        BY <3>2 DEF Acts, Progress, Capture, Forward, Receive, Reject, PutRaw, FindByDigest,
         EnsureMailbox, ReadMailbox, ReadRules, Project, Resume, Recheck, Suppress, FindAlias,
         IssueAlias, ReadAlias, FailForward, FindBridge, Claim, Send, RecordForwarded,
         RecordUnknown, Crash, locals
      <4> QED
        BY <4>1, <1>a DEF Delivering, BridgeWasDelivered
    <3> QED
      BY <3>1, <3>2
  <2> QED
    BY <2>1, <1>a DEF Delivering, BridgeWasDelivered
<1> QED
  BY <1>1, <1>2, <1>3 DEF Delivering

\* What has forbidden a delivery ever since it began is seen by it before the claim.
LEMMA StepBarring ==
  ASSUME IInv, NEW h \in Handlers, Acts(h)
  PROVE  Barring'
<1> USE DEF IInv
<1>a. /\ \A g \in Handlers \ {h} : pc'[g] = pc[g] /\ mail'[g] = mail[g] /\ barred'[g] = barred[g]
      /\ pc[h] # "idle" => mail'[h] = mail[h] /\ barred'[h] = barred[h]
      /\ rules' = rules /\ pc'[h] # "idle"
  BY HandlerFrame
<1>d. TypeOK /\ TypeOK'
  BY StepTypeOK
<1>1. mailbox' = mailbox \/ (Effective(mailbox) = None /\ Effective(mailbox') = None)
  BY DEF Acts, Progress, Capture, Forward, Receive, Reject, PutRaw, FindByDigest,
         EnsureMailbox, ReadMailbox, ReadRules, Project, Resume, Recheck, Suppress, FindAlias,
         IssueAlias, ReadAlias, FailForward, FindBridge, Claim, Send, RecordForwarded,
         RecordUnknown, Crash, Effective, tables
<1>2. \A m : Forbids(m, rules, mailbox)' = Forbids(m, rules, mailbox)
  BY <1>1, <1>a DEF Forbids
<1>3. \A g \in Handlers \ {h} : Bars(g)'
  BY <1>1, <1>a DEF Barring, Bars, Forbids, Blocked
<1>4. Bars(h)'
  <2>1. CASE \E m \in Mails : Receive(h, m)
    BY <2>1, <1>d DEF Receive, Goto, Bars, Forbids, Causes, Rechecked, tables, TypeOK
  <2>2. CASE Recheck(h)
    BY <2>2, <1>a, <1>d DEF Recheck, BlockedNow, Goto, Barring, Bars, Forbids, Rechecked, tables, TypeOK
  <2>3. CASE Claim(h)
    <3>1. pc[h] = "claim" /\ mailbox' = mailbox
      BY <2>3 DEF Claim
    <3>2. pc'[h] = "send" => "mailbox" \notin Forbids(mail[h], rules, mailbox)
      BY <2>3, <1>d DEF Claim, Claimable, Goto, Answer, Forbids, TypeOK
    <3>3. pc'[h] \in {"send", "done"}
      BY <2>3, <1>d DEF Claim, Goto, Answer, TypeOK
    <3> QED
      BY <3>1, <3>2, <3>3, <1>a DEF Barring, Bars, Forbids, Blocked, Rechecked
  <2>4. CASE ~(\E m \in Mails : Receive(h, m)) /\ ~Recheck(h) /\ ~Claim(h)
    <3>1. /\ pc'[h] \in Rechecked => pc[h] \in Rechecked
          /\ pc'[h] # "send" /\ pc[h] # "idle"
      BY <2>4, <1>d DEF Acts, Progress, Capture, Forward, Receive, Reject, PutRaw, FindByDigest,
         EnsureMailbox, ReadMailbox, ReadRules, Project, Resume, Recheck, Suppress, FindAlias,
         IssueAlias, ReadAlias, FailForward, FindBridge, Claim, Send, RecordForwarded,
         RecordUnknown, Crash, Goto, Answer, Rechecked, TypeOK
    <3> QED
      BY <3>1, <1>1, <1>a DEF Barring, Bars, Forbids, Blocked
  <2> QED
    BY <2>1, <2>2, <2>3, <2>4
<1> QED
  BY <1>3, <1>4 DEF Barring

\* The owner writes the bins of a message, the rules and the mailbox, and nothing else.
LEMMA OwnerFrame ==
  ASSUME TypeOK, OwnerActs
  PROVE  /\ UNCHANGED <<aliases, raw, provider, pc, locals, reply>>
         /\ \A m \in Mails : /\ rows'[m].forward = rows[m].forward
                            /\ rows'[m].providerId = rows[m].providerId
                            /\ rows'[m].rawKey = rows[m].rawKey
<1>1. CASE \E m \in Mails : Organise(m)
  <2>1. PICK m \in Mails : Organise(m)
    BY <1>1
  <2>2. PICK bins : rows' = [rows EXCEPT ![m].bins = bins]
    BY <2>1 DEF Organise
  <2> QED
    BY <2>1, <2>2 DEF Organise, TypeOK, Rows
<1>2. CASE EditRules \/ EditMailbox \/ CreateMailbox \/ ConfigureMailbox
  BY <1>2 DEF EditRules, EditMailbox, CreateMailbox, ConfigureMailbox
<1> QED
  BY <1>1, <1>2 DEF OwnerActs

\* The owner keeps the types.
LEMMA OwnerTypeOK ==
  ASSUME TypeOK, OwnerActs
  PROVE  TypeOK'
<1> USE DEF TypeOK
<1>1. rows' \in [Mails -> Rows]
  <2>1. CASE \E m \in Mails : Organise(m)
    <3>1. PICK m \in Mails : Organise(m)
      BY <2>1
    <3>2. PICK bins \in SUBSET {"spam", "trash"} : rows' = [rows EXCEPT ![m].bins = bins]
      BY <3>1 DEF Organise, Rows
    <3>3. ASSUME NEW row \in Rows PROVE [row EXCEPT !.bins = bins] \in Rows
      BY DEF Rows
    <3> QED
      BY <3>2, <3>3
  <2>2. CASE ~(\E m \in Mails : Organise(m))
    BY <2>2 DEF OwnerActs, EditRules, EditMailbox, CreateMailbox, ConfigureMailbox
  <2> QED
    BY <2>1, <2>2
<1>2. mailbox' \in Mailboxes
  <2>1. CASE EditMailbox
    BY <2>1 DEF EditMailbox, Mailboxes, MailboxKinds
  <2>2. CASE CreateMailbox
    BY <2>2, MailShape DEF CreateMailbox, Mailboxes, MailboxKinds
  <2>3. CASE ConfigureMailbox
    BY <2>3 DEF ConfigureMailbox, Mailboxes, MailboxKinds
  <2>4. CASE ~EditMailbox /\ ~CreateMailbox /\ ~ConfigureMailbox
    BY <2>4 DEF OwnerActs, Organise, EditRules
  <2> QED
    BY <2>1, <2>2, <2>3, <2>4
<1>3. rules' \subseteq Rules
  BY DEF OwnerActs, Organise, EditRules, EditMailbox, CreateMailbox, ConfigureMailbox
<1>4. edits' \in 0..MaxEdits /\ creating' \in Addresses \cup {None, "no"}
  BY MailShape DEF OwnerActs, Organise, EditRules, EditMailbox, CreateMailbox, ConfigureMailbox, Edit
<1>5. barred' \in [Handlers -> SUBSET Causes]
  BY DEF OwnerActs, Organise, EditRules, EditMailbox, CreateMailbox, ConfigureMailbox, StillBarred
<1> QED
  BY <1>1, <1>2, <1>3, <1>4, <1>5, OwnerFrame DEF provider, locals

\* Nothing the owner does ends a bar that still holds, or starts one.
LEMMA OwnerBarring ==
  ASSUME IInv, OwnerActs
  PROVE  Barring'
<1> USE DEF IInv
<1>1. pc' = pc /\ mail' = mail
  BY OwnerFrame DEF locals
<1>2. CASE UNCHANGED <<rules, mailbox, barred>>
  BY <1>1, <1>2 DEF Barring, Bars, Forbids, Blocked, Effective
<1>3. CASE StillBarred
  <2>1. ASSUME NEW h \in Handlers PROVE Bars(h)'
    <3>1. Bars(h) /\ (pc[h] # "idle" => mail[h] \in Mails)
      BY DEF Barring, Attending, Attends
    <3>2. Forbids(mail[h], rules, mailbox)' = Forbids(mail[h], rules', mailbox')
      BY <1>1 DEF Forbids, Blocked, Effective
    <3>3. barred'[h] \subseteq barred[h]
      BY <1>3 DEF StillBarred
    <3>4. pc[h] # "idle" => barred'[h] \subseteq Forbids(mail[h], rules, mailbox)'
      BY <1>3, <3>1, <3>2, MailShape DEF StillBarred
    <3> QED
      BY <1>1, <3>1, <3>3, <3>4 DEF Bars
  <2> QED
    BY <2>1 DEF Barring
<1> QED
  BY <1>2, <1>3 DEF OwnerActs, Organise, EditRules, EditMailbox, CreateMailbox, ConfigureMailbox

LEMMA StepIInv == IInv /\ [Next]_vars => IInv'
<1> SUFFICES ASSUME IInv, [Next]_vars PROVE IInv'
  OBVIOUS
<1>1. ASSUME NEW h \in Handlers, Acts(h) PROVE IInv'
  BY <1>1, StepTypeOK, StepAttending, StepClaiming, StepCounting, StepCapturing, StepAnswering,
     StepDelivering, StepBarring DEF IInv
<1>2. CASE OwnerActs
  <2>1. TypeOK' /\ Barring'
    BY <1>2, OwnerTypeOK, OwnerBarring DEF IInv
  <2>2. /\ UNCHANGED <<aliases, raw, provider, pc, locals, reply>>
        /\ \A m \in Mails : /\ rows'[m].forward = rows[m].forward
                           /\ rows'[m].providerId = rows[m].providerId
                           /\ rows'[m].rawKey = rows[m].rawKey
    BY <1>2, OwnerFrame DEF IInv
  <2>3. \A h \in Handlers : pc[h] # "idle" => mail[h] \in Mails
    BY DEF IInv, Attending, Attends
  <2>4. Attending' /\ Answering'
    BY <2>2 DEF IInv, Attending, Attends, Answering, ReplyToResolves, provider, locals
  <2>5. Claiming' /\ Counting'
    BY <2>2, <2>3 DEF IInv, Claiming, Holds, Counting, Row, Handing, provider, locals
  <2>6. Capturing'
    <3>1. \A h \in Handlers : reply[h] = "acknowledged" => pc[h] # "idle"
      BY MailShape DEF IInv, Attending, Attends
    <3> QED
      BY <2>2, <2>3, <3>1 DEF IInv, Capturing, HasRow, HasRaw, Row, Unprojected, provider, locals
  <2>7. Delivering'
    BY <2>2, <2>3 DEF IInv, Delivering, BridgeWasDelivered, provider, locals
  <2> QED
    BY <2>1, <2>4, <2>5, <2>6, <2>7 DEF IInv
<1>3. CASE UNCHANGED vars
  BY <1>3 DEF vars, tables, provider, locals, owner, IInv, TypeOK, Attending, Attends, Claiming,
     Holds, Counting, Capturing, HasRow, HasRaw, Answering, ReplyToResolves, Delivering,
     BridgeWasDelivered, Barring, Bars, Row
<1> QED
  BY <1>1, <1>2, <1>3 DEF Next, Acts

-------------------------------------------------------------------------------
\* The invariant holds in every state of every instance.
THEOREM Invariance == Spec => []IInv
  BY InitIInv, StepIInv, PTL DEF Spec

\* Every variable keeps its type (TypeOK of InboundForward).
THEOREM TypeCorrect == Spec => []TypeOK
<1>1. IInv => TypeOK
  BY DEF IInv
<1> QED
  BY <1>1, Invariance, PTL

\* However often a mail is delivered, its copy is handed to the provider at most once
\* (claimPendingForward and EMAIL.send in forwardToOwner).
THEOREM AtMostOneCopy == Spec => []ForwardedAtMostOnce
<1>1. IInv => ForwardedAtMostOnce
  BY DEF IInv, Counting, ForwardedAtMostOnce
<1> QED
  BY <1>1, Invariance, PTL

\* A delivery is only acknowledged when its mail has a row and the row a raw object
\* (putInboundRaw before insertInboundProjection in captureInboundEmail).
THEOREM NothingAcknowledgedIsLost == Spec => []AcknowledgedIsCaptured
<1>1. IInv => AcknowledgedIsCaptured
  <2> SUFFICES ASSUME IInv, NEW h \in Handlers, reply[h] = "acknowledged"
               PROVE  Row(h).rawKey \in raw
    BY DEF AcknowledgedIsCaptured
  <2>1. mail[h] \in Mails
    BY MailShape DEF IInv, Attending, Attends
  <2> QED
    BY <2>1 DEF IInv, Capturing, HasRow, Row
<1> QED
  BY <1>1, Invariance, PTL

\* The forward state of a row never claims what did not happen, nor hides what did
\* (claimPendingForward, updateForwardResult, suppressForward).
THEOREM HonestForwardState == Spec => []ForwardStateIsHonest
<1>1. IInv => ForwardStateIsHonest
  BY DEF IInv, Counting, Delivering, Unclaimed, ForwardStateIsHonest
<1> QED
  BY <1>1, Invariance, PTL

\* What has forbidden a delivery from its beginning on stops it before the provider
\* (the second matchBlacklist and the conditions of claimPendingForward).
THEOREM NothingBarredIsForwarded == Spec => []BarredIsNotForwarded
<1>1. IInv => BarredIsNotForwarded
  BY DEF IInv, Barring, Bars, Rechecked, Causes, BarredIsNotForwarded
<1> QED
  BY <1>1, Invariance, PTL

\* The Reply-To of a copy resolves to the mail it is a copy of (ensureReplyAlias).
THEOREM RepliesResolve == Spec => []ReplyToResolves
<1>1. IInv => ReplyToResolves
  BY DEF IInv, Answering
<1> QED
  BY <1>1, Invariance, PTL

\* A copy refers only to copies the provider took (findLatestOwnerForward).
THEOREM BridgesWereDelivered == Spec => []BridgeWasDelivered
<1>1. IInv => BridgeWasDelivered
  BY DEF IInv, Delivering
<1> QED
  BY <1>1, Invariance, PTL
===============================================================================
