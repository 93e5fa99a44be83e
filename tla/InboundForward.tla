---------------------------- MODULE InboundForward ----------------------------
(***************************************************************************)
(* Capture of inbound mail and its forwarding to the owner:                *)
(* captureInboundEmail for mail that is not addressed to a reply alias,    *)
(* over the D1 tables messages, mailboxes, spam_rules and reply_aliases,   *)
(* the R2 archive and the email provider, while the owner edits settings,  *)
(* spam rules and messages.                                                *)
(*                                                                         *)
(* A handler is one delivery of a mail to the Worker.  It takes one step   *)
(* per awaited call and may stop for good after any of them; the routing   *)
(* service then delivers the same mail again, to another handler.  The     *)
(* mails of an instance share one mailbox and one thread.  Identifiers a   *)
(* handler generates (alias token, provider id, raw key) are named by it.  *)
(***************************************************************************)
EXTENDS Naturals, FiniteSets

CONSTANTS
  Handlers,    \* deliveries, which are invocations of email()
  Mails,       \* distinct mails, by ingest digest
  Rules,       \* blacklist rules
  Addresses,   \* forwarding destinations
  Owner,       \* the address of the owner
  MessageIds,  \* Message-ID headers
  None,        \* SQL NULL
  Matches,     \* the mails a rule matches
  MessageIdOf, \* the Message-ID of a mail, None without one
  MaxEdits     \* bound on what the owner does

ASSUME MailShape ==
  /\ Matches \in [Rules -> SUBSET Mails]
  /\ MessageIdOf \in [Mails -> MessageIds \cup {None}]
  /\ Owner \in Addresses
  /\ None \notin Handlers \cup Mails \cup Addresses \cup MessageIds
  /\ None \notin {"rejected", "acknowledged", "error"}
  /\ MaxEdits \in Nat

VARIABLES
  rows,      \* inbound rows of messages, by mail
  mailbox,   \* the row of mailboxes
  rules,     \* the rows of spam_rules
  aliases,   \* the token of the reply alias of a mail
  raw,       \* handlers whose raw object is in R2
  calls,     \* how often EMAIL.send was called with the copy of a mail
  accepted,  \* mails whose copy the provider took
  replyTo,   \* the alias token the copy carries
  pc,        \* where each handler stands
  mail,      \* the mail it was given
  forwardTo, \* the destination it read
  spam,      \* whether a rule matched when it read the rules
  parsed,    \* whether it could parse the mail
  token,     \* the alias it read back
  bridge,    \* the mail whose forwarded copy it refers to
  reply,     \* how it ended
  edits,     \* how much the owner has done
  creating,  \* the destination of a mailbox creation in progress
  barred     \* what has forbidden forwarding ever since a handler began (history)

tables   == <<rows, mailbox, rules, aliases>>
provider == <<calls, accepted, replyTo>>
locals   == <<mail, forwardTo, spam, parsed, token, bridge>>
owner    == <<edits, creating>>
vars     == <<tables, raw, provider, pc, locals, reply, owner, barred>>

-------------------------------------------------------------------------------
ForwardStates == {"absent", "not_applicable", "pending", "failed", "unknown", "forwarded"}

Rows == [forward : ForwardStates, bins : SUBSET {"spam", "trash"},
         providerId : Handlers \cup {None}, rawKey : Handlers \cup {None}]

NoRow == [forward |-> "absent", bins |-> {}, providerId |-> None, rawKey |-> None]

MailboxKinds == {"absent", "hidden", "listed"}
Mailboxes == [kind : MailboxKinds, forwardTo : Addresses \cup {None}]

Steps == {"idle", "put", "lookup", "resume", "mailbox", "readMailbox", "rules", "project",
          "recheck", "suppress", "alias", "issue", "readAlias", "fail", "bridge", "claim",
          "send", "record", "recordUnknown", "done", "crashed"}

Causes == {"rule", "mailbox"}

Blocked(m, rs) == \E r \in rs : m \in Matches[r]

\* mailboxRecord: a mailbox that is not whitelisted has no effective destination.
Effective(box) == IF box.kind = "listed" THEN box.forwardTo ELSE None

Forbids(m, rs, box) ==
  (IF Blocked(m, rs) THEN {"rule"} ELSE {}) \cup (IF Effective(box) = None THEN {"mailbox"} ELSE {})

InitialMailboxes == {[kind |-> "absent", forwardTo |-> None], [kind |-> "hidden", forwardTo |-> None],
                     [kind |-> "listed", forwardTo |-> Owner]}

Init ==
  /\ rows = [m \in Mails |-> NoRow]
  /\ mailbox \in InitialMailboxes
  /\ rules = {}
  /\ aliases = [m \in Mails |-> None]
  /\ raw = {}
  /\ calls = [m \in Mails |-> 0]
  /\ accepted = {}
  /\ replyTo = [m \in Mails |-> None]
  /\ pc = [h \in Handlers |-> "idle"]
  /\ mail = [h \in Handlers |-> None]
  /\ forwardTo = [h \in Handlers |-> None]
  /\ spam = [h \in Handlers |-> FALSE]
  /\ parsed = [h \in Handlers |-> TRUE]
  /\ token = [h \in Handlers |-> None]
  /\ bridge = [h \in Handlers |-> None]
  /\ reply = [h \in Handlers |-> None]
  /\ edits = 0
  /\ creating = "no"
  /\ barred = [h \in Handlers |-> {}]

Goto(h, step) == pc' = [pc EXCEPT ![h] = step] /\ UNCHANGED reply
Answer(h, what) == pc' = [pc EXCEPT ![h] = "done"] /\ reply' = [reply EXCEPT ![h] = what]

Row(h) == rows[mail[h]]
Write(h, row) == rows' = [rows EXCEPT ![mail[h]] = row]

-------------------------------------------------------------------------------
(* The decisions of the code and the guards of its SQL statements, some    *)
(* with a variant that lacks part of it.  No action uses a variant.        *)

StoredRawLost(h) == raw
StoredRaw(h) == raw \cup {h}

\* The unique indexes on ingest_digest and on (mailbox_id, internet_message_id).
Insertable(m) ==
  /\ rows[m].forward = "absent"
  /\ MessageIdOf[m] # None =>
       \A n \in Mails : rows[n].forward # "absent" => MessageIdOf[n] # MessageIdOf[m]

ResumableNever(h) == FALSE
Resumable(h) == Row(h).forward = "pending" /\ Effective(mailbox) # None

BlockedAtCapture(h) == spam[h]
BlockedNow(h) == Blocked(mail[h], rules)

ClaimableAgain(h) == Row(h).bins = {} /\ Effective(mailbox) # None
Claimable(h) == Row(h).forward = "pending" /\ Row(h).bins = {} /\ Effective(mailbox) # None

\* The alias is read back: another handler may have issued it.
IssuedTokenOwn(h) == h
IssuedToken(h) == aliases[mail[h]]

BridgesAttempted == {m \in Mails : rows[m].forward \in {"unknown", "forwarded"}}
Bridges == {m \in Mails : rows[m].forward = "forwarded" /\ rows[m].providerId # None}

InitialForward(h) == IF forwardTo[h] = None \/ spam[h] THEN "not_applicable"
                     ELSE IF parsed[h] THEN "pending" ELSE "failed"

CapturedRow(h) == [forward |-> InitialForward(h), bins |-> IF spam[h] THEN {"spam"} ELSE {},
                   providerId |-> None, rawKey |-> h]

SuppressedRow(h) == [Row(h) EXCEPT !.forward = "not_applicable", !.bins = @ \cup {"spam"}]

ClaimedRowPending(h) == Row(h)
ClaimedRow(h) == [Row(h) EXCEPT !.forward = "unknown"]

\* updateForwardResult, which does not look at the state it overwrites.
ResultRow(h, state, id) ==
  [Row(h) EXCEPT !.forward = state, !.providerId = IF id = None THEN @ ELSE id]

-------------------------------------------------------------------------------
(* Capture                                                                 *)

Receive(h, m) ==
  /\ pc[h] = "idle"
  /\ mail' = [mail EXCEPT ![h] = m]
  /\ barred' = [barred EXCEPT ![h] = Forbids(m, rules, mailbox)]
  /\ Goto(h, "put")
  /\ UNCHANGED <<tables, raw, provider, forwardTo, spam, parsed, token, bridge, owner>>

\* The envelope is invalid or the message too large: setReject.
Reject(h) ==
  /\ pc[h] = "put"
  /\ Answer(h, "rejected")
  /\ UNCHANGED <<tables, raw, provider, locals, owner, barred>>

PutRaw(h) ==
  /\ pc[h] = "put"
  /\ raw' = StoredRaw(h)
  /\ Goto(h, "lookup")
  /\ UNCHANGED <<tables, provider, locals, owner, barred>>

FindByDigest(h) ==
  /\ pc[h] = "lookup"
  /\ Goto(h, IF Row(h).forward = "absent" THEN "mailbox" ELSE "resume")
  /\ UNCHANGED <<tables, raw, provider, locals, owner, barred>>

\* bootstrapOwner with whitelisted = false: an unknown recipient gets a quiet mailbox.
EnsureMailbox(h) ==
  /\ pc[h] = "mailbox"
  /\ mailbox' = IF mailbox.kind = "absent" THEN [kind |-> "hidden", forwardTo |-> None] ELSE mailbox
  /\ Goto(h, "readMailbox")
  /\ UNCHANGED <<rows, rules, aliases, raw, provider, locals, owner, barred>>

\* The mailbox is read back, and the mail parsed; parsing is not awaited on anything shared.
ReadMailbox(h) ==
  /\ pc[h] = "readMailbox"
  /\ forwardTo' = [forwardTo EXCEPT ![h] = Effective(mailbox)]
  /\ \E ok \in BOOLEAN : parsed' = [parsed EXCEPT ![h] = ok]
  /\ Goto(h, "rules")
  /\ UNCHANGED <<tables, raw, provider, mail, spam, token, bridge, owner, barred>>

ReadRules(h) ==
  /\ pc[h] = "rules"
  /\ spam' = [spam EXCEPT ![h] = Blocked(mail[h], rules)]
  /\ Goto(h, "project")
  /\ UNCHANGED <<tables, raw, provider, mail, forwardTo, parsed, token, bridge, owner, barred>>

\* insertInboundProjection is one batch; the loser of a race gets a constraint error,
\* which is thrown on.
Project(h) ==
  /\ pc[h] = "project"
  /\ IF Insertable(mail[h])
     THEN /\ Write(h, CapturedRow(h))
          /\ IF InitialForward(h) = "pending" THEN Goto(h, "recheck") ELSE Answer(h, "acknowledged")
     ELSE UNCHANGED rows /\ Answer(h, "error")
  /\ UNCHANGED <<mailbox, rules, aliases, raw, provider, locals, owner, barred>>

\* The mail was captured before: resumePendingOwnerForward.
Resume(h) ==
  /\ pc[h] = "resume"
  /\ IF Resumable(h)
     THEN /\ forwardTo' = [forwardTo EXCEPT ![h] = Effective(mailbox)]
          /\ Goto(h, "recheck") \/ Goto(h, "fail")
     ELSE UNCHANGED forwardTo /\ Answer(h, "acknowledged")
  /\ UNCHANGED <<tables, raw, provider, mail, spam, parsed, token, bridge, owner, barred>>
-------------------------------------------------------------------------------
(* Forwarding                                                              *)

Recheck(h) ==
  /\ pc[h] = "recheck"
  /\ Goto(h, IF BlockedNow(h) THEN "suppress" ELSE "alias")
  /\ UNCHANGED <<tables, raw, provider, locals, owner, barred>>

Suppress(h) ==
  /\ pc[h] = "suppress"
  /\ IF Row(h).forward = "pending" THEN Write(h, SuppressedRow(h)) ELSE UNCHANGED rows
  /\ Answer(h, "acknowledged")
  /\ UNCHANGED <<mailbox, rules, aliases, raw, provider, locals, owner, barred>>

FindAlias(h) ==
  /\ pc[h] = "alias"
  /\ token' = [token EXCEPT ![h] = aliases[mail[h]]]
  /\ Goto(h, IF aliases[mail[h]] = None THEN "issue" ELSE "bridge")
  /\ UNCHANGED <<tables, raw, provider, mail, forwardTo, spam, parsed, bridge, owner, barred>>

\* INSERT ... ON CONFLICT DO NOTHING; the second outcome is five tokens in a row that
\* are in use elsewhere.
IssueAlias(h) ==
  /\ pc[h] = "issue"
  /\ aliases' \in {IF aliases[mail[h]] = None THEN [aliases EXCEPT ![mail[h]] = h] ELSE aliases,
                   aliases}
  /\ Goto(h, "readAlias")
  /\ UNCHANGED <<rows, mailbox, rules, raw, provider, locals, owner, barred>>

ReadAlias(h) ==
  /\ pc[h] = "readAlias"
  /\ token' = [token EXCEPT ![h] = IF aliases[mail[h]] = None THEN None ELSE IssuedToken(h)]
  /\ Goto(h, IF aliases[mail[h]] = None THEN "fail" ELSE "bridge")
  /\ UNCHANGED <<tables, raw, provider, mail, forwardTo, spam, parsed, bridge, owner, barred>>

\* updateForwardResult('failed'): no alias, or a mail that no longer parses the same way.
FailForward(h) ==
  /\ pc[h] = "fail"
  /\ Write(h, ResultRow(h, "failed", None))
  /\ Answer(h, "acknowledged")
  /\ UNCHANGED <<mailbox, rules, aliases, raw, provider, locals, owner, barred>>

\* findLatestOwnerForward; which of several is the latest is left open.
FindBridge(h) ==
  /\ pc[h] = "bridge"
  /\ \E m \in IF Bridges = {} THEN {None} ELSE Bridges : bridge' = [bridge EXCEPT ![h] = m]
  /\ Goto(h, "claim")
  /\ UNCHANGED <<tables, raw, provider, mail, forwardTo, spam, parsed, token, owner, barred>>

Claim(h) ==
  /\ pc[h] = "claim"
  /\ IF Claimable(h)
     THEN Write(h, ClaimedRow(h)) /\ Goto(h, "send")
     ELSE UNCHANGED rows /\ Answer(h, "acknowledged")
  /\ UNCHANGED <<mailbox, rules, aliases, raw, provider, locals, owner, barred>>

\* EMAIL.send to the destination read earlier.  When it throws, the provider may or may
\* not have taken the copy.
Send(h) ==
  LET m == mail[h] IN
  /\ pc[h] = "send"
  /\ calls' = [calls EXCEPT ![m] = @ + 1]
  /\ replyTo' = [replyTo EXCEPT ![m] = token[h]]
  /\ \/ accepted' = accepted \cup {m} /\ Goto(h, "record")
     \/ accepted' \in {accepted, accepted \cup {m}} /\ Goto(h, "recordUnknown")
  /\ UNCHANGED <<tables, raw, locals, owner, barred>>

\* The write of the result is inside the try of the call: a write that fails, and one
\* that took effect without an answer, end in the catch.
RecordForwarded(h) ==
  /\ pc[h] = "record"
  /\ \/ Write(h, ResultRow(h, "forwarded", h)) /\ (Answer(h, "acknowledged") \/ Goto(h, "recordUnknown"))
     \/ UNCHANGED rows /\ Goto(h, "recordUnknown")
  /\ UNCHANGED <<mailbox, rules, aliases, raw, provider, locals, owner, barred>>

RecordUnknown(h) ==
  /\ pc[h] = "recordUnknown"
  /\ Write(h, ResultRow(h, "unknown", None))
  /\ Answer(h, "acknowledged")
  /\ UNCHANGED <<mailbox, rules, aliases, raw, provider, locals, owner, barred>>

\* The invocation is cut off, or a call that nothing catches throws.
Crash(h) ==
  /\ pc[h] \notin {"idle", "done", "crashed"}
  /\ Goto(h, "crashed")
  /\ UNCHANGED <<tables, raw, provider, locals, owner, barred>>

-------------------------------------------------------------------------------
(* The owner                                                               *)

Edit == edits < MaxEdits /\ edits' = edits + 1

\* Whatever has forbidden a handler's mail so far still does after this edit.
StillBarred ==
  barred' = [h \in Handlers |-> IF mail[h] = None THEN {}
                                ELSE barred[h] \cap Forbids(mail[h], rules', mailbox')]

\* patchMessageState; archive and inbox move no mail into or out of spam or trash alone.
Organise(m) ==
  /\ Edit
  /\ rows[m].forward # "absent"
  /\ \E bins \in {{"spam"}, {"trash"} \cup rows[m].bins, rows[m].bins \ {"trash"},
                  rows[m].bins \ {"spam"}, {}} : rows' = [rows EXCEPT ![m].bins = bins]
  /\ UNCHANGED <<mailbox, rules, aliases, raw, provider, pc, locals, reply, creating, barred>>

EditRules ==
  /\ Edit
  /\ \E r \in Rules : rules' \in {rules \cup {r}, rules \ {r}}
  /\ UNCHANGED <<rows, mailbox, aliases, raw, provider, pc, locals, reply, creating>>
  /\ StillBarred

\* updateMailboxSettings with a new visibility, a new destination, or both.
EditMailbox ==
  /\ Edit
  /\ mailbox.kind # "absent"
  /\ \E kind \in {"hidden", "listed"}, to \in Addresses \cup {None} :
       mailbox' = [kind |-> kind, forwardTo |-> to]
  /\ UNCHANGED <<rows, rules, aliases, raw, provider, pc, locals, reply, creating>>
  /\ StillBarred

\* POST /v1/mailboxes, first call: bootstrapOwner with whitelisted = true.
CreateMailbox ==
  /\ Edit
  /\ creating = "no"
  /\ creating' \in Addresses \cup {None}
  /\ mailbox' = IF mailbox.kind = "absent" THEN [kind |-> "listed", forwardTo |-> Owner] ELSE mailbox
  /\ UNCHANGED <<rows, rules, aliases, raw, provider, pc, locals, reply>>
  /\ StillBarred

\* Second call: updateMailboxSettings with the destination asked for.
ConfigureMailbox ==
  /\ creating # "no"
  /\ mailbox' = [kind |-> "listed", forwardTo |-> creating]
  /\ creating' = "no"
  /\ UNCHANGED <<rows, rules, aliases, raw, provider, pc, locals, reply, edits>>
  /\ StillBarred

-------------------------------------------------------------------------------
Capture(h) ==
  \/ Reject(h) \/ PutRaw(h) \/ FindByDigest(h) \/ EnsureMailbox(h)
  \/ ReadMailbox(h) \/ ReadRules(h) \/ Project(h) \/ Resume(h)

Forward(h) ==
  \/ Recheck(h) \/ Suppress(h) \/ FindAlias(h) \/ IssueAlias(h) \/ ReadAlias(h)
  \/ FailForward(h) \/ FindBridge(h) \/ Claim(h) \/ Send(h)
  \/ RecordForwarded(h) \/ RecordUnknown(h)

Progress(h) == Capture(h) \/ Forward(h)

OwnerActs == (\E m \in Mails : Organise(m)) \/ EditRules \/ EditMailbox \/ CreateMailbox \/ ConfigureMailbox

Next == OwnerActs \/ \E h \in Handlers : (\E m \in Mails : Receive(h, m)) \/ Progress(h) \/ Crash(h)

Spec == Init /\ [][Next]_vars

\* The runtime keeps running an invocation it has started.
FairSpec == Spec /\ \A h \in Handlers : WF_vars(Progress(h))

-------------------------------------------------------------------------------
(* Properties *)

\* Every variable keeps the shape the tables and the handlers give it.
TypeOK ==
  /\ rows \in [Mails -> Rows]
  /\ mailbox \in Mailboxes
  /\ rules \subseteq Rules
  /\ aliases \in [Mails -> Handlers \cup {None}]
  /\ raw \subseteq Handlers
  /\ calls \in [Mails -> Nat]
  /\ accepted \subseteq Mails
  /\ replyTo \in [Mails -> Handlers \cup {None}]
  /\ pc \in [Handlers -> Steps]
  /\ mail \in [Handlers -> Mails \cup {None}]
  /\ forwardTo \in [Handlers -> Addresses \cup {None}]
  /\ spam \in [Handlers -> BOOLEAN]
  /\ parsed \in [Handlers -> BOOLEAN]
  /\ token \in [Handlers -> Handlers \cup {None}]
  /\ bridge \in [Handlers -> Mails \cup {None}]
  /\ reply \in [Handlers -> {None, "rejected", "acknowledged", "error"}]
  /\ edits \in 0..MaxEdits
  /\ creating \in Addresses \cup {None, "no"}
  /\ barred \in [Handlers -> SUBSET Causes]

\* However often a mail is delivered, and wherever the deliveries stop or overlap, its
\* copy is handed to the provider at most once (claimPendingForward before EMAIL.send).
ForwardedAtMostOnce == \A m \in Mails : calls[m] <= 1

\* A delivery that was acknowledged left a message row whose raw object is in R2, so the
\* routing service may forget the mail.
AcknowledgedIsCaptured ==
  \A h \in Handlers : reply[h] = "acknowledged" => Row(h).rawKey \in raw

\* A row that may still be forwarded, or was suppressed, was never handed over; one that
\* says forwarded was taken by the provider, whose id it holds.
ForwardStateIsHonest ==
  \A m \in Mails :
    /\ rows[m].forward \in {"pending", "not_applicable"} => calls[m] = 0
    /\ rows[m].forward = "forwarded" => m \in accepted /\ rows[m].providerId # None

\* A delivery does not hand over a mail that a rule has matched, or whose mailbox has been
\* hidden or without destination, ever since the delivery began: neither a redelivery nor
\* a resumed forward acts on what the first delivery knew.
BarredIsNotForwarded == \A h \in Handlers : pc[h] = "send" => barred[h] = {}

\* The Reply-To of a copy that was handed over is the alias on record for its mail, even
\* when two deliveries issued aliases at once: the owner's answer reaches the thread.
ReplyToResolves == \A m \in Mails : replyTo[m] # None => aliases[m] = replyTo[m]

\* The copy a forward refers to is one the provider took: the owner can have received it.
BridgeWasDelivered == \A h \in Handlers : bridge[h] # None => bridge[h] \in accepted

\* A pending forward that a redelivery meets is settled, unless the redelivery is
\* interrupted too or the mail is put into spam or trash or forwarding switched off.
MetPending(h) == IF pc[h] = "resume" THEN Row(h).forward = "pending" ELSE FALSE
Settled(h) == IF mail[h] = None THEN FALSE ELSE Row(h).forward # "pending"
Withheld(h) == IF mail[h] = None THEN FALSE ELSE Row(h).bins # {} \/ Effective(mailbox) = None
PendingIsResumed == \A h \in Handlers : MetPending(h) ~> (Settled(h) \/ Withheld(h) \/ pc[h] = "crashed")

\* retryability.ts says a claimed forward requires manual confirmation because the
\* provider may have accepted it: what was handed over is unknown or forwarded.
ClaimedNeedsConfirmation ==
  \A m \in Mails : calls[m] > 0 => rows[m].forward \in {"unknown", "forwarded"}

\* docs/architecture.md says every message delivered to the Worker is captured: a delivery
\* that ran to its end without rejecting the mail left a row for it.
EveryDeliveryIsCaptured ==
  \A h \in Handlers : pc[h] = "done" /\ reply[h] # "rejected" => Row(h).forward # "absent"
===============================================================================
