------------------------------ MODULE SignInProofs ------------------------------
(***************************************************************************)
(* Proofs about SignIn and the Installation under it, for any requests,    *)
(* people, mailboxes and lifetimes.                                        *)
(*                                                                         *)
(* The properties rest on who may be where.  IInv adds that                *)
(*   - a request past the gate found an installation, and no installation  *)
(*     is ever replaced or removed,                                        *)
(*   - a link is mailed only after it was inserted, for the owner, by a    *)
(*     request that is past its insertion, so nobody inserts it again,     *)
(*   - a session belongs to a request past the consumption of the link     *)
(*     that request brought,                                               *)
(*   - a link somebody was told is invalid is spent, or expired for every  *)
(*     reading of the clock a later request can take.                      *)
(***************************************************************************)
EXTENDS SignIn, TLAPS

Inside == {"entered", "insert", "inserted", "create", "deliver", "consume", "find", "principal",
           "lookup", "revoke"}

Stage(r) ==
  /\ pc[r] = "idle" <=> kind[r] = None
  /\ answer[r] # None => pc[r] = "done"
  /\ pc[r] \in {"batch", "confirm"} => kind[r] = "setup"
  /\ pc[r] \in {"insert", "inserted"} => kind[r] = "mailbox"
  /\ pc[r] \in {"create", "deliver"} => kind[r] = "ask"
  /\ pc[r] \in {"consume", "find", "principal"} => kind[r] = "verify"
  /\ pc[r] \in {"lookup", "revoke"} => kind[r] \in {"use", "logout"}
  /\ pc[r] \in Inside => installation # None
  /\ kind[r] = "setup" /\ answer[r] \in {"created", "already"} =>
       installation # None /\ asked[r] = installation

Staged == \A r \in Requests : Stage(r)

LinkHeld(l) ==
  /\ pc[l] = "deliver" => links[l].user # None
  /\ links[l].user # None =>
       /\ pc[l] \in {"deliver", "done"} /\ kind[l] = "ask"
       /\ installation # None /\ links[l].user = installation.owner

SessionHeld(s) ==
  /\ kind[s] = "verify" => asked[s] \in mailed
  /\ pc[s] \in {"find", "principal"} => sessions[s].link = asked[s]
  /\ sessions[s].link # None =>
       /\ pc[s] \in {"find", "principal", "done"} /\ kind[s] = "verify"
       /\ sessions[s].link = asked[s] /\ sessions[s].user = links[asked[s]].user

Held ==
  /\ \A l \in Requests : LinkHeld(l)
  /\ \A l \in mailed : links[l].user # None
  /\ \A s \in Requests : SessionHeld(s)

Dead(l, time) == links[l].usedAt # None \/ links[l].expiresAt <= time

Barred(r) ==
  /\ at[r] <= now
  /\ kind[r] = "verify" /\ answer[r] = "invalid" => Dead(asked[r], now)
  /\ \A l \in dismissed[r] : l \in mailed /\ Dead(l, now)
  /\ pc[r] = "consume" /\ asked[r] \in dismissed[r] => Dead(asked[r], at[r])
  /\ pc[r] \in {"find", "principal"} => asked[r] \notin dismissed[r]
  /\ kind[r] = "verify" /\ answer[r] = "verified" => asked[r] \notin dismissed[r]
  /\ answer[r] = "verified" => kind[r] = "verify"

Dismissal == \A r \in Requests : Barred(r)

IInv ==
  /\ TypeOK /\ Staged /\ OnlyTheOwnerHasAccount /\ Held /\ LinkIsSpentOnce /\ LinksAreSpaced
  /\ Dismissal

-------------------------------------------------------------------------------
LEMMA InitIInv == Init => IInv
<1> SUFFICES ASSUME Init PROVE IInv
  OBVIOUS
<1> USE NoneIsNoValue, NoneIsNoWord, Lifetimes DEF Init, InstallationInit, Kinds, Answers, NoLink, NoSession
<1>1. TypeOK
  <2>1. NoLink \in Links /\ NoSession \in Sessions /\ Cooldown \in Times
    BY DEF Links, Sessions, Times
  <2>2. \A r \in Requests : Fits(kind[r], asked[r])
    BY DEF Fits
  <2> QED
    BY <2>1, <2>2 DEF TypeOK, Steps
<1>2. Staged
  BY DEF Staged, Stage, Inside
<1>3. OnlyTheOwnerHasAccount
  BY DEF OnlyTheOwnerHasAccount, NoAccounts
<1>4. Held
  BY DEF Held, LinkHeld, SessionHeld
<1>5. LinkIsSpentOnce /\ LinksAreSpaced
  BY DEF LinkIsSpentOnce, LinksAreSpaced
<1>6. Dismissal
  BY DEF Dismissal, Barred, Times
<1> QED
  BY <1>1, <1>2, <1>3, <1>4, <1>5, <1>6 DEF IInv

-------------------------------------------------------------------------------
(* What a step leaves alone.                                               *)

\* A request touches no other, and keeps what it asked for.
LEMMA OthersKept ==
  ASSUME TypeOK, NEW r \in Requests, Step(r)
  PROVE  /\ \A q \in Requests \ {r} :
              /\ pc'[q] = pc[q] /\ kind'[q] = kind[q] /\ asked'[q] = asked[q]
              /\ answer'[q] = answer[q] /\ at'[q] = at[q] /\ dismissed'[q] = dismissed[q]
         /\ pc[r] # "idle" => kind'[r] = kind[r] /\ asked'[r] = asked[r] /\ dismissed'[r] = dismissed[r]
         /\ pc[r] # "done" /\ pc'[r] # "idle"
         /\ now' = now
<1> USE DEF TypeOK, Steps
<1>1. CASE InstallationStep(r) /\ UNCHANGED <<links, sessions, mailed, now, at, dismissed>>
  BY <1>1 DEF InstallationStep, Receive, ReadRow, ReadCounts, RefuseSetup, CompleteBatch, Confirm,
              FindMailbox, InsertMailbox, CheckMailbox, Fail, Proceed, Goto, Reply
<1>2. CASE ReceiveSignIn(r)
  BY <1>2 DEF ReceiveSignIn, Receive
<1>3. CASE Ask(r) \/ CreateLink(r) \/ DeliverLink(r) \/ Verify(r) \/ Consume(r) \/ FindNew(r)
           \/ SetCookie(r) \/ Authenticate(r) \/ FindSession(r) \/ Revoke(r)
  BY <1>3 DEF Ask, CreateLink, DeliverLink, Verify, Consume, FindNew, SetCookie, Authenticate,
              FindSession, Revoke, Entered, ReadClock, Ends, Goto, Reply
<1> QED
  BY <1>1, <1>2, <1>3 DEF Step

\* Nothing but first-run setup and the addition of mailboxes writes accounts.
SignInStep(r) ==
  \/ ReceiveSignIn(r) \/ Ask(r) \/ CreateLink(r) \/ DeliverLink(r) \/ Verify(r) \/ Consume(r)
  \/ FindNew(r) \/ SetCookie(r) \/ Authenticate(r) \/ FindSession(r) \/ Revoke(r)

LEMMA TablesKept ==
  ASSUME NEW r \in Requests, SignInStep(r)
  PROVE  UNCHANGED tables
  BY DEF SignInStep, ReceiveSignIn, Receive, Ask, CreateLink, DeliverLink, Verify, Consume, FindNew,
         SetCookie, Authenticate, FindSession, Revoke, ReadClock, Ends

-------------------------------------------------------------------------------
(* Accounts.                                                               *)

\* Setup's batch installs where nothing is, or changes nothing.
LEMMA BatchInstalls ==
  ASSUME IInv, NEW r \in Requests, CompleteBatch(r)
  PROVE  /\ installation # None => UNCHANGED tables
         /\ installation = None =>
              /\ asked[r] \in Settings /\ installation' = asked[r]
              /\ users' = {asked[r].owner} /\ mailboxes' = {asked[r].mailbox}
              /\ owners' = {<<asked[r].mailbox, asked[r].owner>>}
<1> USE DEF CompleteBatch
<1>1. asked[r] \in Settings
  BY DEF IInv, Staged, Stage, TypeOK, Fits
<1>2. CASE installation # None
  BY <1>2 DEF Absent, NewUser, NewMailbox, NewOwner, Installed, tables
<1>3. CASE installation = None
  <2>1. users = {} /\ mailboxes = {} /\ owners = {}
    BY <1>3 DEF IInv, OnlyTheOwnerHasAccount, NoAccounts
  <2>2. asked[r].owner \in Emails /\ asked[r].mailbox \in Addresses
    BY <1>1 DEF Settings
  <2>3. NewOwner(asked[r]) = {<<asked[r].mailbox, asked[r].owner>>}
    BY <1>3, <2>1 DEF NewOwner, Absent
  <2>4. ({} \cup {<<asked[r].mailbox, asked[r].owner>>}) \cap ({asked[r].mailbox} \X Emails)
          = {<<asked[r].mailbox, asked[r].owner>>}
    BY <2>2
  <2>5. Installed(asked[r]) = asked[r]
    BY <1>3, <2>1, <2>3, <2>4 DEF Installed, Absent
  <2> QED
    BY <1>1, <1>3, <2>1, <2>3, <2>5 DEF NewUser, NewMailbox, Absent
<1> QED
  BY <1>2, <1>3

\* An added mailbox gets the installed owner.
LEMMA MailboxAdded ==
  ASSUME IInv, NEW r \in Requests, InsertMailbox(r)
  PROVE  /\ installation \in Settings /\ installation' = installation /\ asked[r] \in Addresses
         /\ users' = users /\ mailboxes' = mailboxes \cup {asked[r]}
         /\ owners' = mailboxes' \X users
<1> USE DEF InsertMailbox
<1>1. installation # None /\ kind[r] = "mailbox"
  BY DEF IInv, Staged, Stage, Inside
<1>2. installation \in Settings /\ installation.owner \in Emails /\ asked[r] \in Addresses
  BY <1>1 DEF IInv, TypeOK, Settings, Fits
<1>3. users = {installation.owner} /\ owners = mailboxes \X users
  BY <1>1 DEF IInv, OnlyTheOwnerHasAccount
<1>4. \A u \in Emails : <<asked[r], u>> \in owners => u = installation.owner
  BY <1>3
<1>5. owners' = owners \cup {<<asked[r], installation.owner>>}
  BY <1>4
<1>6. owners \cup {<<asked[r], installation.owner>>} = (mailboxes \cup {asked[r]}) \X users
  BY <1>3
<1> QED
  BY <1>2, <1>3, <1>5, <1>6

LEMMA AccountsStep ==
  ASSUME IInv, NEW r \in Requests, Step(r)
  PROVE  /\ OnlyTheOwnerHasAccount'
         /\ installation # None => installation' = installation
         /\ users \subseteq users' /\ users' \subseteq Emails
         /\ mailboxes' \subseteq Addresses /\ owners' \subseteq Addresses \X Emails
         /\ installation' \in Settings \cup {None}
<1>a. /\ OnlyTheOwnerHasAccount /\ TypeOK
  BY DEF IInv
<1>1. CASE UNCHANGED tables
  BY <1>1, <1>a DEF tables, OnlyTheOwnerHasAccount, NoAccounts, TypeOK
<1>2. CASE CompleteBatch(r) /\ installation = None
  <2>1. /\ asked[r] \in Settings /\ installation' = asked[r]
        /\ users' = {asked[r].owner} /\ mailboxes' = {asked[r].mailbox}
        /\ owners' = {<<asked[r].mailbox, asked[r].owner>>}
    BY <1>2, BatchInstalls
  <2>2. asked[r].owner \in Emails /\ asked[r].mailbox \in Addresses
    BY <2>1 DEF Settings
  <2>3. installation' # None
    BY <2>1, NoneIsNoValue
  <2>4. {<<asked[r].mailbox, asked[r].owner>>} = {asked[r].mailbox} \X {asked[r].owner}
    OBVIOUS
  <2>5. users = {}
    BY <1>2, <1>a DEF OnlyTheOwnerHasAccount, NoAccounts
  <2> QED
    BY <1>2, <2>1, <2>2, <2>3, <2>4, <2>5 DEF OnlyTheOwnerHasAccount
<1>3. CASE InsertMailbox(r)
  <2>1. /\ installation \in Settings /\ installation' = installation /\ asked[r] \in Addresses
        /\ users' = users /\ mailboxes' = mailboxes \cup {asked[r]}
        /\ owners' = mailboxes' \X users
    BY <1>3, MailboxAdded
  <2>2. installation # None
    BY <2>1, NoneIsNoValue
  <2> QED
    BY <1>a, <2>1, <2>2 DEF OnlyTheOwnerHasAccount, TypeOK
<1> QED
  BY <1>1, <1>2, <1>3, BatchInstalls, TablesKept
  DEF Step, SignInStep, InstallationStep, Receive, ReadRow, ReadCounts, RefuseSetup, Confirm,
      FindMailbox, CheckMailbox, Fail

-------------------------------------------------------------------------------
(* Links and sessions.                                                     *)

\* What the batch of consumeMagicLink and a logout write into a row.
LEMMA SpentRow ==
  ASSUME TypeOK, NEW l \in Requests, NEW t \in Times
  PROVE  /\ Spent(l, t) \in [Requests -> Links]
         /\ Spent(l, t)[l].usedAt = t
         /\ Spent(l, t)[l].user = links[l].user
         /\ Spent(l, t)[l].requestedAt = links[l].requestedAt
         /\ Spent(l, t)[l].expiresAt = links[l].expiresAt
         /\ \A k \in Requests \ {l} : Spent(l, t)[k] = links[k]
<1> DEFINE row == [links[l] EXCEPT !.usedAt = t]
<1>1. links[l] \in Links
  BY DEF TypeOK
<1>2. /\ row \in Links /\ row.usedAt = t /\ row.user = links[l].user
      /\ row.requestedAt = links[l].requestedAt /\ row.expiresAt = links[l].expiresAt
  BY <1>1 DEF Links
<1>3. Spent(l, t) = [links EXCEPT ![l] = row]
  BY DEF Spent
<1> HIDE DEF row
<1> QED
  BY <1>2, <1>3 DEF TypeOK

LEMMA RevokedRow ==
  ASSUME TypeOK, NEW s \in Requests, NEW t \in Times,
         sessions' = [sessions EXCEPT ![s].revokedAt = t]
  PROVE  /\ sessions' \in [Requests -> Sessions]
         /\ \A q \in Requests : sessions'[q].link = sessions[q].link /\ sessions'[q].user = sessions[q].user
<1> DEFINE row == [sessions[s] EXCEPT !.revokedAt = t]
<1>1. sessions[s] \in Sessions
  BY DEF TypeOK
<1>2. row \in Sessions /\ row.user = sessions[s].user /\ row.link = sessions[s].link
  BY <1>1 DEF Sessions
<1>3. sessions' = [sessions EXCEPT ![s] = row]
  OBVIOUS
<1> HIDE DEF row
<1> QED
  BY <1>2, <1>3 DEF TypeOK

\* Only CreateLink and Consume write a link, and nothing but its use is written twice.
LEMMA LinksWritten ==
  ASSUME IInv, NEW r \in Requests, Step(r)
  PROVE  \/ /\ CreateLink(r) /\ asked[r] \in users /\ Cooled(asked[r], at[r])
            /\ links'[r].user = asked[r] /\ links'[r].requestedAt = at[r] /\ links'[r].usedAt = None
            /\ \A l \in Requests \ {r} : links'[l] = links[l]
         \/ /\ Consume(r) /\ asked[r] \in Requests /\ Consumable(asked[r], at[r]) /\ Unclaimed(asked[r])
            /\ links'[asked[r]].user = links[asked[r]].user
            /\ links'[asked[r]].requestedAt = links[asked[r]].requestedAt
            /\ links'[asked[r]].expiresAt = links[asked[r]].expiresAt
            /\ links'[asked[r]].usedAt = at[r]
            /\ \A l \in Requests \ {asked[r]} : links'[l] = links[l]
         \/ links' = links
<1>a. TypeOK /\ at[r] \in Times
  BY DEF IInv, TypeOK
<1>1. CASE CreateLink(r)
  BY <1>1, <1>a DEF CreateLink, TypeOK
<1>2. CASE Consume(r)
  <2>1. asked[r] \in Requests
    BY <1>2 DEF Consume, IInv, Staged, Stage, TypeOK, Fits
  <2>2. CASE Consumable(asked[r], at[r]) /\ Unclaimed(asked[r])
    <3>1. links' = Spent(asked[r], at[r])
      BY <1>2, <2>2 DEF Consume
    <3> QED
      BY <1>2, <1>a, <2>1, <2>2, <3>1, SpentRow
  <2>3. CASE ~(Consumable(asked[r], at[r]) /\ Unclaimed(asked[r]))
    BY <1>2, <2>3 DEF Consume
  <2> QED
    BY <2>2, <2>3
<1> QED
  BY <1>1, <1>2 DEF Step, InstallationStep, ReceiveSignIn, Ask, DeliverLink, Verify, FindNew, SetCookie,
     Authenticate, FindSession, Revoke, ReadClock, Ends

\* Only Consume opens a session; a logout leaves its link and user.
LEMMA SessionsWritten ==
  ASSUME IInv, NEW r \in Requests, Step(r)
  PROVE  \/ /\ Consume(r) /\ asked[r] \in Requests /\ Consumable(asked[r], at[r]) /\ Unclaimed(asked[r])
            /\ sessions'[r].link = asked[r] /\ sessions'[r].user = links[asked[r]].user
            /\ links'[asked[r]].usedAt = at[r]
            /\ pc'[r] = "find"
            /\ \A q \in Requests \ {r} : sessions'[q] = sessions[q]
         \/ /\ \A q \in Requests : /\ sessions'[q].link = sessions[q].link
                                   /\ sessions'[q].user = sessions[q].user
            /\ ~(Consume(r) /\ Consumable(asked[r], at[r]) /\ Unclaimed(asked[r]))
<1>a. TypeOK /\ at[r] \in Times
  BY DEF IInv, TypeOK
<1>1. CASE Consume(r)
  <2>1. asked[r] \in Requests
    BY <1>1 DEF Consume, IInv, Staged, Stage, TypeOK, Fits
  <2>2. CASE Consumable(asked[r], at[r]) /\ Unclaimed(asked[r])
    <3>1. links'[asked[r]].usedAt = at[r]
      BY <1>1, <1>a, <2>1, <2>2, SpentRow DEF Consume
    <3> QED
      BY <1>1, <1>a, <2>1, <2>2, <3>1 DEF Consume, Goto, TypeOK
  <2>3. CASE ~(Consumable(asked[r], at[r]) /\ Unclaimed(asked[r]))
    BY <1>1, <2>3 DEF Consume
  <2> QED
    BY <2>2, <2>3
<1>2. CASE Revoke(r)
  <2>1. ~Consume(r)
    BY <1>2 DEF Revoke, Consume
  <2>2. asked[r] \in Requests
    BY <1>2, NoneIsNoWord DEF Revoke, IInv, Staged, Stage, TypeOK, Fits
  <2>3. CASE sessions' = sessions
    BY <2>1, <2>3
  <2>4. CASE sessions' = [sessions EXCEPT ![asked[r]].revokedAt = at[r]]
    BY <1>a, <2>1, <2>2, <2>4, RevokedRow
  <2> QED
    BY <1>2, <2>3, <2>4 DEF Revoke
<1>3. CASE sessions' = sessions /\ ~Consume(r)
  BY <1>3
<1>4. Step(r) /\ ~Consume(r) /\ ~Revoke(r) => sessions' = sessions
  BY DEF Step, InstallationStep, ReceiveSignIn, Ask, CreateLink, DeliverLink, Verify, FindNew, SetCookie,
     Authenticate, FindSession, ReadClock, Ends
<1> QED
  BY <1>1, <1>2, <1>3, <1>4

-------------------------------------------------------------------------------
(* Each part of IInv is kept by a step.                                    *)

LEMMA StepTypeOK ==
  ASSUME IInv, NEW r \in Requests, Step(r)
  PROVE  TypeOK'
<1> USE DEF TypeOK
<1>a. TypeOK /\ at[r] \in Times /\ now \in Times
  BY DEF IInv
<1>b. /\ users' \subseteq Emails /\ mailboxes' \subseteq Addresses /\ owners' \subseteq Addresses \X Emails
      /\ installation' \in Settings \cup {None}
  BY AccountsStep
<1> USE <1>a
<1>1. CASE InstallationStep(r) /\ UNCHANGED <<links, sessions, mailed, now, at, dismissed>>
  <2>1. ASSUME NEW k \in {"setup", "status", "mailbox"}, NEW what, Receive(r, k, what), Fits(k, what)
        PROVE  TypeOK'
    BY <1>1, <1>b, <2>1, NoneIsNoWord DEF Receive, Fits, Steps, Kinds
  <2>2. CASE UNCHANGED <<kind, asked>>
    <3>1. pc' \in [Requests -> Steps] /\ answer' \in [Requests -> Answers \cup {None}]
      BY <1>1, <2>2, NoneIsNoWord DEF InstallationStep, Receive, ReadRow, ReadCounts, RefuseSetup,
         CompleteBatch, Confirm, Confirmed, FindMailbox, InsertMailbox, CheckMailbox, Fail, Proceed, Goto, Reply, Steps,
         Answers
    <3> QED
      BY <1>1, <1>b, <2>2, <3>1
  <2> QED
    BY <1>1, <2>1, <2>2 DEF InstallationStep, ReadRow, ReadCounts, RefuseSetup, CompleteBatch, Confirm,
       FindMailbox, InsertMailbox, CheckMailbox, Fail, Proceed, Goto, Reply, Fits
<1>2. CASE ReceiveSignIn(r)
  <2>1. dismissed' \in [Requests -> SUBSET Requests]
    <3>1. \A q \in Requests : kind[q] = "verify" => asked[q] \in Requests
      BY DEF Fits
    <3> QED
      BY <1>2, <3>1 DEF ReceiveSignIn
  <2>2. ASSUME NEW k \in {"ask", "verify", "use", "logout"}, NEW what, Receive(r, k, what), Fits(k, what)
        PROVE  TypeOK'
    BY <1>2, <1>b, <2>1, <2>2 DEF ReceiveSignIn, Receive, Fits, Steps, Kinds
  <2> QED
    BY <1>2, <2>2 DEF ReceiveSignIn, Fits
<1>3. CASE CreateLink(r)
  <2>1. asked[r] \in Emails
    BY <1>3 DEF CreateLink, IInv, Staged, Stage, Fits
  <2>2. at[r] + LinkLifetime \in Nat
    BY Lifetimes DEF Times
  <2>3. links' \in [Requests -> Links]
    BY <1>3, <2>1, <2>2 DEF CreateLink, Links
  <2> QED
    BY <1>3, <1>b, <2>3 DEF CreateLink, Goto, Reply, Steps, Answers
<1>4. CASE Consume(r)
  <2>1. asked[r] \in Requests
    BY <1>4 DEF Consume, IInv, Staged, Stage, Fits
  <2>2. at[r] + SessionLifetime \in Nat
    BY Lifetimes DEF Times
  <2>3. links[asked[r]].user \in Emails \cup {None}
    BY <2>1 DEF Links
  <2>4. links' \in [Requests -> Links]
    BY <1>4, <2>1, SpentRow DEF Consume
  <2>5. sessions' \in [Requests -> Sessions]
    BY <1>4, <2>1, <2>2, <2>3 DEF Consume, Sessions
  <2> QED
    BY <1>4, <1>b, <2>4, <2>5 DEF Consume, Goto, Reply, Steps, Answers
<1>5. CASE Revoke(r)
  <2>1. asked[r] \in Requests
    BY <1>5, NoneIsNoWord DEF Revoke, IInv, Staged, Stage, Fits
  <2>2. sessions' \in [Requests -> Sessions]
    BY <1>5, <2>1, RevokedRow DEF Revoke
  <2> QED
    BY <1>5, <1>b, <2>2 DEF Revoke, Reply, Steps, Answers
<1>6. CASE Ask(r) \/ DeliverLink(r) \/ Verify(r) \/ FindNew(r) \/ SetCookie(r)
           \/ Authenticate(r) \/ FindSession(r)
  BY <1>6, <1>b DEF Ask, DeliverLink, Verify, Refused, FindNew, SetCookie, Authenticate, FindSession,
                    ReadClock, Ends, Goto, Reply, Steps, Answers
<1> QED
  BY <1>1, <1>2, <1>3, <1>4, <1>5, <1>6 DEF Step

LEMMA StepStaged ==
  ASSUME IInv, NEW r \in Requests, Step(r)
  PROVE  Staged'
<1> USE DEF Stage
<1>a. /\ TypeOK /\ Stage(r)
      /\ installation # None => installation' = installation
      /\ installation' \in Settings \cup {None}
  BY AccountsStep DEF IInv, Staged
<1>b. Parses => installation # None
  BY DEF Parses
<1>c. pc[r] # "done" => answer[r] = None
  BY <1>a
<1>1. ASSUME NEW q \in Requests \ {r} PROVE Stage(q)'
  BY <1>1, <1>a, OthersKept DEF IInv, Staged
<1>2. Stage(r)'
  <2> USE <1>a, <1>b, <1>c, NoneIsNoWord DEF TypeOK, Steps, Inside, Kinds, Answers
  <2>1. CASE \E k, what : k \in Kinds /\ Receive(r, k, what)
    BY <2>1 DEF Receive
  <2>2. CASE ReadRow(r) \/ ReadCounts(r) \/ RefuseSetup(r)
    BY <2>2 DEF ReadRow, ReadCounts, RefuseSetup, Proceed, Same, Setup, Goto, Reply, tables
  <2>3. CASE CompleteBatch(r)
    BY <2>3 DEF CompleteBatch, Goto
  <2>4. CASE Confirm(r)
    BY <2>4 DEF Confirm, Confirmed, Same, Reply, tables
  <2>5. CASE FindMailbox(r) \/ InsertMailbox(r) \/ CheckMailbox(r) \/ Fail(r)
    BY <2>5 DEF FindMailbox, InsertMailbox, CheckMailbox, Fail, Goto, Reply, tables
  <2>6. CASE Ask(r) \/ CreateLink(r) \/ DeliverLink(r)
    BY <2>6 DEF Ask, CreateLink, DeliverLink, Entered, ReadClock, Ends, Goto, Reply
  <2>7. CASE Verify(r) \/ Consume(r) \/ FindNew(r) \/ SetCookie(r)
    BY <2>7 DEF Verify, Refused, Consume, FindNew, SetCookie, Entered, ReadClock, Ends, Goto, Reply
  <2>8. CASE Authenticate(r) \/ FindSession(r) \/ Revoke(r)
    BY <2>8 DEF Authenticate, FindSession, Revoke, Entered, ReadClock, Ends, Goto, Reply
  <2> QED
    BY <2>1, <2>2, <2>3, <2>4, <2>5, <2>6, <2>7, <2>8 DEF Step, InstallationStep, ReceiveSignIn
<1> QED
  BY <1>1, <1>2 DEF Staged

\* A mailed link was inserted before, and nobody unsends it.
LEMMA MailedGrows ==
  ASSUME IInv, NEW r \in Requests, Step(r)
  PROVE  /\ mailed \subseteq mailed'
         /\ \A l \in mailed' : l \in Requests /\ (l \in mailed \/ (l = r /\ DeliverLink(r)))
  BY DEF IInv, TypeOK, Step, InstallationStep, ReceiveSignIn, Ask, CreateLink, DeliverLink, Verify, Consume,
     FindNew, SetCookie, Authenticate, FindSession, Revoke, ReadClock, Ends

\* Who holds a link, who a session: a link past its insertion keeps its user, and so does a
\* session, of whom the link names one.
LEMMA StepHeld ==
  ASSUME IInv, NEW r \in Requests, Step(r)
  PROVE  Held'
<1> USE NoneIsNoValue, NoneIsNoWord DEF Kinds
<1>a. TypeOK /\ Stage(r) /\ Staged' /\ TypeOK'
  BY StepStaged, StepTypeOK DEF IInv, Staged
<1>b. \A l \in Requests : LinkHeld(l) /\ SessionHeld(l)
  BY DEF IInv, Held
<1>c. \A l \in mailed : links[l].user # None /\ l \in Requests
  BY DEF IInv, Held, TypeOK
<1>d. installation # None => installation' = installation
  BY AccountsStep
<1>e. \A u \in users : installation # None /\ u = installation.owner /\ u # None
  BY DEF IInv, OnlyTheOwnerHasAccount, NoAccounts, TypeOK
<1>f. \A l \in Requests : links[l].user # None => links'[l].user = links[l].user
  <2>1. CASE CreateLink(r)
    <3>1. links[r].user = None
      BY <2>1, <1>b DEF CreateLink, LinkHeld
    <3> QED
      BY <2>1, <3>1, LinksWritten DEF CreateLink, Consume
  <2>2. CASE ~CreateLink(r)
    BY <2>2, LinksWritten
  <2> QED
    BY <2>1, <2>2
<1>g. ~(pc[r] = "deliver" /\ pc'[r] = "deliver")
  BY <1>a DEF Step, InstallationStep, Receive, ReadRow, ReadCounts, RefuseSetup, CompleteBatch, Confirm,
     FindMailbox, InsertMailbox, CheckMailbox, Fail, ReceiveSignIn, Ask, CreateLink, DeliverLink, Verify,
     Consume, FindNew, SetCookie, Authenticate, FindSession, Revoke, Entered, ReadClock, Ends, Goto, Reply,
     TypeOK
<1>h. pc'[r] = "deliver" => CreateLink(r) /\ asked[r] \in users /\ links'[r].user = asked[r]
  BY <1>a, <1>g DEF Step, InstallationStep, Receive, ReadRow, ReadCounts, RefuseSetup, CompleteBatch, Confirm,
     FindMailbox, InsertMailbox, CheckMailbox, Fail, Proceed, ReceiveSignIn, Ask, CreateLink, DeliverLink, Verify,
     Consume, FindNew, SetCookie, Authenticate, FindSession, Revoke, Entered, ReadClock, Ends, Goto, Reply,
     TypeOK
<1>1. ASSUME NEW l \in Requests PROVE LinkHeld(l)'
  <2>1. pc'[l] = "deliver" => links'[l].user # None
    <3>1. CASE l = r
      BY <3>1, <1>e, <1>h
    <3>2. CASE l # r
      BY <3>2, <1>a, <1>b, <1>f, OthersKept DEF LinkHeld
    <3> QED
      BY <3>1, <3>2
  <2>2. CASE links'[l].user = None
    BY <2>1, <2>2 DEF LinkHeld
  <2>3. CASE links[l].user # None
    <3>1. pc'[l] \in {"deliver", "done"} /\ kind'[l] = "ask"
      <4>1. CASE l # r
        BY <2>3, <4>1, <1>a, <1>b, OthersKept DEF LinkHeld
      <4>2. CASE l = r
        <5>1. pc[r] = "deliver" /\ kind[r] = "ask" /\ kind'[r] = "ask"
          BY <2>3, <4>2, <1>a, <1>b, OthersKept DEF LinkHeld
        <5>2. pc'[r] = "done"
          BY <5>1, <1>a DEF Step, InstallationStep, Receive, ReadRow, ReadCounts, RefuseSetup, CompleteBatch,
             Confirm, FindMailbox, InsertMailbox, CheckMailbox, Fail, ReceiveSignIn, Ask, CreateLink, DeliverLink,
             Verify, Consume, FindNew, SetCookie, Authenticate, FindSession, Revoke, Entered, ReadClock, Ends,
             Goto, Reply, TypeOK
        <5> QED
          BY <4>2, <5>1, <5>2
      <4> QED
        BY <4>1, <4>2
    <3> QED
      BY <2>1, <2>3, <1>b, <1>d, <1>f, <3>1 DEF LinkHeld
  <2>4. CASE links[l].user = None /\ links'[l].user # None
    <3>1. CreateLink(r) /\ l = r /\ asked[r] \in users /\ Cooled(asked[r], at[r]) /\ links'[r].user = asked[r]
      BY <2>4, LinksWritten
    <3>2. pc[r] = "create" /\ kind[r] = "ask" /\ pc'[r] = "deliver" /\ kind'[r] = "ask"
      BY <1>a, <3>1 DEF CreateLink, Goto, Stage, TypeOK
    <3> QED
      BY <2>1, <1>d, <1>e, <3>1, <3>2 DEF LinkHeld
  <2> QED
    BY <2>2, <2>3, <2>4
<1>2. ASSUME NEW l \in mailed' PROVE links'[l].user # None
  <2>1. CASE l \in mailed
    BY <2>1, <1>c, <1>f
  <2>2. CASE l = r /\ DeliverLink(r)
    BY <2>2, <1>a, <1>b, <1>f DEF DeliverLink, LinkHeld
  <2> QED
    BY <2>1, <2>2, MailedGrows
<1>3. ASSUME NEW s \in Requests PROVE SessionHeld(s)'
  <2>1. kind'[s] = "verify" => asked'[s] \in mailed'
    <3>1. CASE kind[s] = "verify"
      <4>1. kind'[s] = kind[s] /\ asked'[s] = asked[s]
        BY <3>1, <1>a, OthersKept DEF Stage
      <4> QED
        BY <3>1, <4>1, <1>b, MailedGrows DEF SessionHeld
    <3>2. CASE kind[s] # "verify" /\ kind'[s] = "verify"
      <4>1. s = r /\ pc[r] = "idle"
        BY <3>2, <1>a, OthersKept DEF Stage
      <4>2. ReceiveSignIn(r) /\ kind'[r] = "verify" => asked'[r] \in mailed'
        BY <4>1, <1>a DEF ReceiveSignIn, Receive, TypeOK
      <4>3. InstallationStep(r) => kind'[r] # "verify"
        BY <4>1, <1>a DEF InstallationStep, Receive, ReadRow, ReadCounts, RefuseSetup, CompleteBatch,
             Confirm, FindMailbox, InsertMailbox, CheckMailbox, Fail, TypeOK
      <4>4. ReceiveSignIn(r) \/ InstallationStep(r)
        BY <4>1 DEF Step, Ask, CreateLink, DeliverLink, Verify, Consume, FindNew, SetCookie, Authenticate,
             FindSession, Revoke, Entered
      <4> QED
        BY <3>2, <4>1, <4>2, <4>3, <4>4
    <3> QED
      BY <3>1, <3>2
  <2>2. CASE s # r
    <3>1. /\ pc'[s] = pc[s] /\ kind'[s] = kind[s] /\ asked'[s] = asked[s]
          /\ sessions'[s].link = sessions[s].link /\ sessions'[s].user = sessions[s].user
      BY <2>2, <1>a, OthersKept, SessionsWritten
    <3>2. sessions[s].link # None => links'[asked[s]].user = links[asked[s]].user
      BY <1>b, <1>c, <1>f DEF SessionHeld
    <3> QED
      BY <2>1, <3>1, <3>2, <1>b DEF SessionHeld
  <2>3. CASE s = r /\ pc'[r] = "find" /\ sessions'[r].link = asked[r] /\ sessions'[r].user = links[asked[r]].user
               /\ Consume(r)
    <3>1. pc[r] = "consume" /\ kind'[r] = "verify" /\ kind[r] = "verify" /\ asked'[r] = asked[r]
      BY <2>3, <1>a, OthersKept DEF Consume, Stage
    <3>2. links'[asked[r]].user = links[asked[r]].user
      BY <3>1, <1>b, <1>c, <1>f DEF SessionHeld
    <3> QED
      BY <2>1, <2>3, <3>1, <3>2 DEF SessionHeld
  <2>4. CASE /\ s = r /\ sessions'[r].link = sessions[r].link /\ sessions'[r].user = sessions[r].user
             /\ ~(Consume(r) /\ Consumable(asked[r], at[r]) /\ Unclaimed(asked[r]))
    <3>1. /\ pc'[r] \in {"find", "principal"} => pc[r] \in {"find", "principal"}
          /\ pc[r] \in {"find", "principal"} => pc'[r] \in {"principal", "done"}
      BY <2>4, <1>a DEF Step, InstallationStep, Receive, ReadRow, ReadCounts, RefuseSetup, CompleteBatch, Confirm,
         FindMailbox, InsertMailbox, CheckMailbox, Fail, Proceed, ReceiveSignIn, Ask, CreateLink, DeliverLink,
         Verify, Consume, FindNew, SetCookie, Authenticate, FindSession, Revoke, Entered, ReadClock, Ends, Goto,
         Reply, TypeOK
    <3>2. sessions[r].link # None =>
            /\ pc[r] \in {"find", "principal"} /\ kind'[r] = "verify" /\ asked'[r] = asked[r]
            /\ links'[asked[r]].user = links[asked[r]].user
      BY <1>a, <1>b, <1>c, <1>f, OthersKept DEF SessionHeld, Stage
    <3>3. pc[r] \in {"find", "principal"} => asked'[r] = asked[r]
      BY <1>a, OthersKept
    <3> QED
      BY <2>1, <2>4, <3>1, <3>2, <3>3, <1>b DEF SessionHeld
  <2> QED
    BY <2>2, <2>3, <2>4, SessionsWritten
<1> QED
  BY <1>1, <1>2, <1>3 DEF Held

\* A link is spent exactly when a session claims it, and by one session.
LEMMA StepSpent ==
  ASSUME IInv, NEW r \in Requests, Step(r)
  PROVE  LinkIsSpentOnce'
<1> USE NoneIsNoValue, Lifetimes
<1>a. TypeOK /\ LinkIsSpentOnce /\ at[r] \in Times /\ None \notin Times
  BY DEF IInv, TypeOK, Times
<1>b. \A s \in Requests : sessions[s].link # None => links[sessions[s].link].user # None
  BY DEF IInv, Held, SessionHeld
<1>1. CASE Consume(r) /\ asked[r] \in Requests /\ Consumable(asked[r], at[r]) /\ Unclaimed(asked[r])
  <2>1. /\ sessions'[r].link = asked[r] /\ \A q \in Requests \ {r} : sessions'[q] = sessions[q]
        /\ links'[asked[r]].usedAt = at[r] /\ \A l \in Requests \ {asked[r]} : links'[l] = links[l]
    <3>1. ~CreateLink(r) /\ links' # links
      <4>1. links' = Spent(asked[r], at[r]) /\ links[asked[r]].usedAt = None /\ pc[r] = "consume"
        BY <1>1 DEF Consume, Consumable
      <4> QED
        BY <4>1, <1>1, <1>a, SpentRow DEF CreateLink
    <3> QED
      BY <1>1, <3>1, LinksWritten, SessionsWritten
  <2>2. sessions[r].link = None
    BY <1>1 DEF Consume, IInv, Held, SessionHeld
  <2>3. \A q \in Requests : sessions[q].link # asked[r]
    BY <1>1 DEF Unclaimed
  <2>4. \A l \in Requests : (links'[l].usedAt # None) <=> \E s \in Requests : sessions'[s].link = l
    BY <1>1, <1>a, <2>1, <2>2, <2>3 DEF LinkIsSpentOnce
  <2>5. \A l, s, t \in Requests : sessions'[s].link = l /\ sessions'[t].link = l => s = t
    BY <1>a, <2>1, <2>3 DEF LinkIsSpentOnce
  <2> QED
    BY <2>4, <2>5 DEF LinkIsSpentOnce
<1>2. CASE \A q \in Requests : sessions'[q].link = sessions[q].link
  <2>1. CASE CreateLink(r) /\ links'[r].usedAt = None /\ \A l \in Requests \ {r} : links'[l] = links[l]
    <3>1. links[r].user = None
      BY <2>1 DEF CreateLink, IInv, Held, LinkHeld
    <3>2. \A s \in Requests : sessions[s].link # r
      BY <3>1, <1>b
    <3> QED
      BY <1>2, <1>a, <2>1, <3>2 DEF LinkIsSpentOnce
  <2>2. CASE links' = links
    BY <1>2, <1>a, <2>2 DEF LinkIsSpentOnce
  <2>3. ~(Consume(r) /\ asked[r] \in Requests /\ Consumable(asked[r], at[r]) /\ Unclaimed(asked[r]))
    <3> SUFFICES ASSUME Consume(r), asked[r] \in Requests, Consumable(asked[r], at[r]), Unclaimed(asked[r])
                 PROVE  FALSE
      OBVIOUS
    <3>1. sessions'[r].link = asked[r]
      BY SessionsWritten
    <3> QED
      BY <1>2, <3>1 DEF Unclaimed
  <2> QED
    BY <2>1, <2>2, <2>3, LinksWritten
<1> QED
  BY <1>1, <1>2, SessionsWritten

\* A link is inserted a cooldown after every other of its user.
LEMMA StepSpaced ==
  ASSUME IInv, NEW r \in Requests, Step(r)
  PROVE  LinksAreSpaced'
<1> USE DEF LinksAreSpaced
<1>a. /\ TypeOK /\ LinksAreSpaced /\ at[r] \in Times
      /\ \A l \in Requests : links[l].requestedAt \in Times
  BY DEF IInv, TypeOK, Links
<1>1. CASE /\ CreateLink(r) /\ asked[r] \in users /\ Cooled(asked[r], at[r])
           /\ links'[r].user = asked[r] /\ links'[r].requestedAt = at[r]
           /\ \A l \in Requests \ {r} : links'[l] = links[l]
  <2>1. \A l \in Requests \ {r} : links'[l].user = asked[r] => links[l].requestedAt + Cooldown <= at[r]
    BY <1>1, <1>a, Lifetimes DEF Cooled, Times
  <2> QED
    BY <1>1, <1>a, <2>1
<1>2. CASE \A l \in Requests : links'[l].user = links[l].user /\ links'[l].requestedAt = links[l].requestedAt
  BY <1>2, <1>a
<1> QED
  BY <1>1, <1>2, LinksWritten

\* A link that is dead at a time is dead ever after.
LEMMA DeadStays ==
  ASSUME IInv, NEW r \in Requests, Step(r), NEW l \in Requests, links[l].user # None,
         NEW t \in Times, Dead(l, t)
  PROVE  Dead(l, t)'
<1> USE NoneIsNoValue, Lifetimes DEF Dead
<1>1. at[r] \in Times /\ None \notin Times
  BY DEF IInv, TypeOK, Times
<1>2. CreateLink(r) => l # r
  BY DEF CreateLink, IInv, Held, LinkHeld
<1>3. links'[l].expiresAt = links[l].expiresAt \/ links'[l].usedAt # None
  BY <1>1, <1>2, LinksWritten
<1>4. links[l].usedAt # None => links'[l].usedAt # None
  BY <1>1, <1>2, LinksWritten DEF Consumable
<1> QED
  BY <1>3, <1>4

\* Whoever arrives after a link was called invalid finds it so.
LEMMA StepDismissal ==
  ASSUME IInv, NEW r \in Requests, Step(r)
  PROVE  Dismissal'
<1> USE NoneIsNoWord, NoneIsNoValue DEF Kinds, Answers
<1>a. TypeOK /\ Stage(r) /\ now \in Times /\ now' = now /\ at[r] \in Times
  BY OthersKept DEF IInv, Staged, TypeOK
<1>b. \A q \in Requests : Barred(q) /\ SessionHeld(q)
  BY DEF IInv, Dismissal, Held
<1>c. \A l \in mailed : l \in Requests /\ links[l].user # None /\ l \in mailed'
  BY MailedGrows DEF IInv, TypeOK, Held
<1>d. \A l \in mailed : Dead(l, now) => Dead(l, now)'
  BY <1>a, <1>c, DeadStays DEF Dead
<1>1. ASSUME NEW q \in Requests \ {r} PROVE Barred(q)'
  <2>1. /\ pc'[q] = pc[q] /\ kind'[q] = kind[q] /\ asked'[q] = asked[q]
        /\ answer'[q] = answer[q] /\ at'[q] = at[q] /\ dismissed'[q] = dismissed[q]
    BY <1>1, <1>a, OthersKept
  <2>2. kind[q] = "verify" => asked[q] \in mailed
    BY <1>b DEF SessionHeld
  <2>3. pc[q] = "consume" => kind[q] = "verify"
    BY DEF IInv, Staged, Stage
  <2>4. at[q] \in Times
    BY <1>a DEF TypeOK
  <2>5. asked[q] \in mailed /\ Dead(asked[q], at[q]) => Dead(asked[q], at[q])'
    BY <1>c, <2>1, <2>4, DeadStays DEF Dead
  <2> QED
    BY <1>a, <1>b, <1>c, <1>d, <2>1, <2>2, <2>3, <2>5 DEF Barred
<1>2. Barred(r)'
  <2>a. at'[r] = at[r] \/ at'[r] = now
    BY <1>a DEF Step, InstallationStep, ReceiveSignIn, Ask, CreateLink, DeliverLink, Verify, Consume,
       FindNew, SetCookie, Authenticate, FindSession, Revoke, ReadClock, Ends, TypeOK
  <2>b. kind[r] = "verify" => asked[r] \in mailed
    BY <1>b DEF SessionHeld
  <2>1. at'[r] <= now'
    BY <1>a, <1>b, <2>a, Lifetimes DEF Barred, Times
  <2>2. CASE pc[r] = "idle"
    <3>1. InstallationStep(r) \/ ReceiveSignIn(r)
      BY <2>2 DEF Step, Ask, CreateLink, DeliverLink, Verify, Consume, FindNew, SetCookie, Authenticate,
           FindSession, Revoke, Entered
    <3>2. pc'[r] = "row" /\ answer'[r] = None
      BY <2>2, <3>1, <1>a DEF InstallationStep, Receive, ReadRow, ReadCounts, RefuseSetup, CompleteBatch, Confirm,
         FindMailbox, InsertMailbox, CheckMailbox, Fail, ReceiveSignIn, Stage, TypeOK
    <3>3. \A l \in dismissed'[r] :
            l \in dismissed[r] \/ \E q \in Requests : kind[q] = "verify" /\ answer[q] = "invalid" /\ l = asked[q]
      BY <2>2, <3>1, <1>a DEF Step, InstallationStep, ReceiveSignIn, TypeOK, Ask, CreateLink, DeliverLink,
         Verify, Consume, FindNew, SetCookie, Authenticate, FindSession, Revoke, Entered
    <3>4. \A l \in dismissed'[r] : l \in mailed /\ Dead(l, now)
      BY <3>3, <1>b DEF Barred, SessionHeld
    <3> QED
      BY <2>1, <3>2, <3>4, <1>c, <1>d DEF Barred
  <2>3. CASE pc[r] # "idle"
    <3>1. /\ kind'[r] = kind[r] /\ asked'[r] = asked[r] /\ dismissed'[r] = dismissed[r]
          /\ answer[r] = None
      BY <2>3, <1>a, OthersKept DEF Stage
    <3>2. \A l \in dismissed'[r] : l \in mailed' /\ Dead(l, now)'
      BY <3>1, <1>b, <1>c, <1>d DEF Barred
    <3>3. pc'[r] = "consume" => Verify(r) /\ at'[r] = now
      BY <2>3, <1>a DEF Step, InstallationStep, Receive, ReadRow, ReadCounts, RefuseSetup, CompleteBatch,
         Confirm, FindMailbox, InsertMailbox, CheckMailbox, Fail, Proceed, ReceiveSignIn, Ask, CreateLink,
         DeliverLink, Verify, Consume, FindNew, SetCookie, Authenticate, FindSession, Revoke, Entered, ReadClock,
         Ends, Goto, Reply, TypeOK
    <3>4. pc'[r] = "consume" /\ asked'[r] \in dismissed'[r] => Dead(asked[r], at[r])'
      BY <1>a, <3>1, <3>2, <3>3 DEF Dead
    <3>5. pc'[r] \in {"find", "principal"} => asked'[r] \notin dismissed'[r]
      <4>1. pc'[r] = "principal" => pc[r] = "find"
        BY <2>3, <1>a DEF Step, InstallationStep, Receive, ReadRow, ReadCounts, RefuseSetup, CompleteBatch,
           Confirm, FindMailbox, InsertMailbox, CheckMailbox, Fail, Proceed, ReceiveSignIn, Ask, CreateLink,
           DeliverLink, Verify, Consume, FindNew, SetCookie, Authenticate, FindSession, Revoke, Entered, ReadClock,
           Ends, Goto, Reply, TypeOK
      <4>2. pc'[r] = "find" => Consume(r) /\ Consumable(asked[r], at[r])
        BY <2>3, <1>a DEF Step, InstallationStep, Receive, ReadRow, ReadCounts, RefuseSetup, CompleteBatch,
           Confirm, FindMailbox, InsertMailbox, CheckMailbox, Fail, Proceed, ReceiveSignIn, Ask, CreateLink,
           DeliverLink, Verify, Consume, FindNew, SetCookie, Authenticate, FindSession, Revoke, Entered, ReadClock,
           Ends, Goto, Reply, TypeOK
      <4>3. Consume(r) /\ Consumable(asked[r], at[r]) => asked[r] \notin dismissed[r]
        <5> SUFFICES ASSUME Consume(r), Consumable(asked[r], at[r]), asked[r] \in dismissed[r]
                     PROVE  FALSE
          OBVIOUS
        <5>1. pc[r] = "consume" /\ asked[r] \in Requests
          BY <1>b, <1>c DEF Consume, Barred
        <5>2. Dead(asked[r], at[r])
          BY <5>1, <1>b DEF Barred
        <5>3. links[asked[r]].expiresAt \in Nat /\ at[r] \in Nat
          BY <5>1, <1>a, Lifetimes DEF TypeOK, Links, Times
        <5> QED
          BY <5>2, <5>3 DEF Dead, Consumable
      <4> QED
        BY <3>1, <4>1, <4>2, <4>3, <1>b DEF Barred
    <3>6. answer'[r] = "verified" => kind[r] = "verify" /\ asked'[r] \notin dismissed'[r]
      <4>1. answer'[r] = "verified" => pc[r] = "principal"
        BY <3>1, <1>a DEF Step, InstallationStep, Receive, ReadRow, ReadCounts, RefuseSetup, CompleteBatch,
           Confirm, Confirmed, FindMailbox, InsertMailbox, CheckMailbox, Fail, Proceed, ReceiveSignIn, Ask, CreateLink,
           DeliverLink, Verify, Refused, Consume, FindNew, SetCookie, Authenticate, FindSession, Revoke, Entered,
           ReadClock, Ends, Goto, Reply, TypeOK
      <4> QED
        BY <3>1, <4>1, <1>a, <1>b DEF Barred, Stage
    <3>7. kind[r] = "verify" /\ answer'[r] = "invalid" => Dead(asked[r], now)'
      <4> SUFFICES ASSUME kind[r] = "verify", answer'[r] = "invalid" PROVE Dead(asked[r], now)'
        OBVIOUS
      <4>0. asked[r] \in mailed /\ asked[r] \in Requests /\ links[asked[r]].user # None /\ asked'[r] = asked[r]
        BY <3>1, <2>b, <1>c
      <4>1. \/ Consume(r) /\ ~Consumable(asked[r], at[r])
            \/ pc[r] = "find"
        BY <3>1, <1>a DEF Step, InstallationStep, Receive, ReadRow, ReadCounts, RefuseSetup, CompleteBatch,
           Confirm, Confirmed, FindMailbox, InsertMailbox, CheckMailbox, Fail, Proceed, ReceiveSignIn, Ask, CreateLink,
           DeliverLink, Verify, Refused, Consume, FindNew, SetCookie, Authenticate, FindSession, Revoke, Entered,
           ReadClock, Ends, Goto, Reply, TypeOK
      <4>2. CASE Consume(r) /\ ~Consumable(asked[r], at[r])
        <5>1. links[asked[r]].user \in users
          BY <4>0 DEF IInv, Held, LinkHeld, OnlyTheOwnerHasAccount
        <5>2. links[asked[r]].expiresAt \in Nat /\ at[r] \in Nat /\ now \in Nat /\ at[r] <= now
          BY <4>0, <1>a, <1>b, Lifetimes DEF TypeOK, Links, Times, Barred
        <5>3. Dead(asked[r], now)
          BY <4>2, <5>1, <5>2 DEF Dead, Consumable
        <5> QED
          BY <4>0, <5>3, <1>d DEF Dead
      <4>3. CASE pc[r] = "find"
        <5>1. sessions[r].link = asked[r]
          BY <4>3, <1>b DEF SessionHeld
        <5>2. Dead(asked[r], now)
          BY <4>0, <5>1 DEF Dead, IInv, LinkIsSpentOnce
        <5> QED
          BY <4>0, <5>2, <1>d DEF Dead
      <4> QED
        BY <4>1, <4>2, <4>3
    <3> QED
      BY <2>1, <3>1, <3>2, <3>4, <3>5, <3>6, <3>7 DEF Barred, Dead
  <2> QED
    BY <2>2, <2>3
<1> QED
  BY <1>1, <1>2 DEF Dismissal

LEMMA StepTick ==
  ASSUME IInv, Tick
  PROVE  IInv'
<1> USE DEF Tick, tables, requests
<1>a. now \in Times /\ now' \in Times /\ now < now'
  BY DEF IInv, TypeOK
<1>1. TypeOK'
  BY DEF IInv, TypeOK, Fits
<1>2. Staged' /\ OnlyTheOwnerHasAccount' /\ Held' /\ LinkIsSpentOnce' /\ LinksAreSpaced'
  BY DEF IInv, Staged, Stage, OnlyTheOwnerHasAccount, NoAccounts, Held, LinkHeld, SessionHeld,
         LinkIsSpentOnce, LinksAreSpaced
<1>3. \A l \in Requests : Dead(l, now) => Dead(l, now)'
  <2> SUFFICES ASSUME NEW l \in Requests, Dead(l, now) PROVE Dead(l, now)'
    OBVIOUS
  <2>1. links' = links /\ links[l].expiresAt \in Nat /\ now \in Nat /\ now' \in Nat
    BY <1>a, Lifetimes DEF IInv, TypeOK, Links, Times
  <2> QED
    BY <1>a, <2>1 DEF Dead
<1>4. ASSUME NEW r \in Requests PROVE Barred(r)'
  <2>1. Barred(r) /\ at[r] \in Times /\ mailed \subseteq Requests
    BY DEF IInv, Dismissal, TypeOK
  <2>2. kind[r] = "verify" => asked[r] \in Requests
    BY <2>1 DEF IInv, Held, SessionHeld
  <2>3. at'[r] <= now'
    BY <1>a, <2>1, Lifetimes DEF Barred, Times
  <2> QED
    BY <1>3, <2>1, <2>2, <2>3 DEF Barred, Dead
<1> QED
  BY <1>1, <1>2, <1>4 DEF IInv, Dismissal

LEMMA StepIInv == IInv /\ [Next]_vars => IInv'
<1> SUFFICES ASSUME IInv, [Next]_vars PROVE IInv'
  OBVIOUS
<1>1. ASSUME NEW r \in Requests, Step(r) PROVE IInv'
  BY <1>1, StepTypeOK, StepStaged, AccountsStep, StepHeld, StepSpent, StepSpaced, StepDismissal DEF IInv
<1>2. CASE UNCHANGED vars
  BY <1>2 DEF vars, tables, requests, IInv, TypeOK, Fits, Staged, Stage, OnlyTheOwnerHasAccount, NoAccounts,
     Held, LinkHeld, SessionHeld, LinkIsSpentOnce, LinksAreSpaced, Dismissal, Barred, Dead
<1> QED
  BY <1>1, <1>2, StepTick DEF Next

-------------------------------------------------------------------------------
\* The invariant holds in every state of every instance.
THEOREM Invariance == Spec => []IInv
  BY InitIInv, StepIInv, PTL DEF Spec

\* Every variable keeps its type (TypeOK of SignIn).
THEOREM TypeCorrect == Spec => []TypeOK
<1>1. IInv => TypeOK
  BY DEF IInv
<1> QED
  BY <1>1, Invariance, PTL

\* Whatever setups competed, only the installed owner has an account or a session
\* (complete and bootstrapOwner of InstallationRepository, consumeMagicLink).
THEOREM OwnerOnly == Spec => []OnlyTheOwnerSignsIn
<1>1. IInv => OnlyTheOwnerSignsIn
  BY DEF IInv, OnlyTheOwnerSignsIn, Held, LinkHeld, SessionHeld, TypeOK
<1> QED
  BY <1>1, Invariance, PTL

\* Of the requests that bring one link at most one opens a session, and the link is used
\* exactly when one did (the batch of consumeMagicLink).
THEOREM SpentOnce == Spec => []LinkIsSpentOnce
<1>1. IInv => LinkIsSpentOnce
  BY DEF IInv
<1> QED
  BY <1>1, Invariance, PTL

\* Two links of a user are a cooldown apart, in whatever order requests read the clock and
\* inserted (the conditional insert of createMagicLink).
THEOREM Spaced == Spec => []LinksAreSpaced
<1>1. IInv => LinksAreSpaced
  BY DEF IInv
<1> QED
  BY <1>1, Invariance, PTL

\* A link the verify page called invalid signs nobody in who opens it later
\* (verifyMagicLink and the statements it calls).
THEOREM InvalidForGood == Spec => []InvalidIsFinal
<1>1. IInv => InvalidIsFinal
  BY DEF IInv, Dismissal, Barred, InvalidIsFinal
<1> QED
  BY <1>1, Invariance, PTL

-------------------------------------------------------------------------------
(* Setup implements SetOnce.                                               *)

Told   == AskedWith({"created", "already"})
Denied == AskedWith({"conflict"})

\* A step that answers nothing of setup tells nobody anything.
LEMMA AnswersKept ==
  ASSUME IInv, NEW r \in Requests, Step(r),
         ~(Setup(r) /\ answer'[r] \in {"created", "already", "conflict"})
  PROVE  Told' = Told /\ Denied' = Denied
<1>a. TypeOK /\ Stage(r)
  BY DEF IInv, Staged
<1>1. \A q \in Requests \ {r} : asked'[q] = asked[q] /\ kind'[q] = kind[q] /\ answer'[q] = answer[q]
  BY <1>a, OthersKept
<1>2. ~(kind[r] = "setup" /\ answer[r] \in {"created", "already", "conflict"})
  BY <1>a, NoneIsNoWord, OthersKept DEF Stage, Answers
<1>3. ~(kind'[r] = "setup" /\ answer'[r] \in {"created", "already", "conflict"})
  <2>1. CASE pc[r] = "idle"
    <3>1. answer'[r] = None
      <4>1. InstallationStep(r) \/ ReceiveSignIn(r)
        BY <2>1 DEF Step, Ask, CreateLink, DeliverLink, Verify, Consume, FindNew, SetCookie, Authenticate,
             FindSession, Revoke, Entered
      <4> QED
        BY <2>1, <4>1, <1>a, NoneIsNoWord DEF InstallationStep, Receive, ReadRow, ReadCounts, RefuseSetup, CompleteBatch,
           Confirm, FindMailbox, InsertMailbox, CheckMailbox, Fail, ReceiveSignIn, Stage, TypeOK
    <3> QED
      BY <3>1, NoneIsNoWord DEF Answers
  <2>2. CASE pc[r] # "idle"
    BY <2>2, <1>a, OthersKept DEF Setup
  <2> QED
    BY <2>1, <2>2
<1>4. ASSUME NEW A \in SUBSET {"created", "already", "conflict"}
      PROVE  AskedWith(A)' = AskedWith(A)
  BY <1>1, <1>2, <1>3 DEF AskedWith, Setup
<1> QED
  BY <1>4 DEF Told, Denied

\* Nothing of setup is answered but from the row that is installed.
LEMMA SetupAnswers ==
  ASSUME IInv, NEW r \in Requests, Step(r), Setup(r), answer'[r] \in {"created", "already", "conflict"}
  PROVE  /\ installation # None /\ installation' = installation /\ asked[r] \in Settings
         /\ asked'[r] = asked[r] /\ kind'[r] = "setup" /\ answer[r] = None
         /\ answer'[r] \in {"created", "already"} => asked[r] = installation
         /\ answer'[r] = "conflict" => asked[r] # installation
<1> USE NoneIsNoWord DEF Answers, Kinds
<1>a. TypeOK /\ Stage(r) /\ pc[r] # "idle"
  BY DEF IInv, Staged, Setup, Stage
<1>1. asked[r] \in Settings /\ asked'[r] = asked[r] /\ kind'[r] = "setup" /\ answer[r] = None
  BY <1>a, OthersKept DEF TypeOK, Fits, Setup, Stage
<1>2. \/ /\ ReadRow(r) /\ installation # None /\ Parses
         /\ answer'[r] = IF installation = asked[r] THEN "already" ELSE "conflict"
      \/ Confirm(r) /\ answer'[r] = Confirmed(r)
  <2>1. ~SignInStep(r)
    BY <1>a DEF SignInStep, ReceiveSignIn, Receive, Ask, CreateLink, DeliverLink, Verify, Consume, FindNew,
       SetCookie, Authenticate, FindSession, Revoke, Entered, Setup, Stage, Inside, TypeOK, Steps
  <2>2. InstallationStep(r)
    BY <2>1 DEF Step, SignInStep
  <2> QED
    BY <2>2, <1>1, <1>a DEF InstallationStep, Receive, ReadRow, ReadCounts, RefuseSetup, CompleteBatch, Confirm,
       FindMailbox, InsertMailbox, CheckMailbox, Fail, Proceed, Same, Setup, Goto, Reply, TypeOK
<1>3. CASE ReadRow(r)
  BY <1>1, <1>2, <1>3 DEF ReadRow, Confirm, tables
<1>4. CASE Confirm(r) /\ answer'[r] = Confirmed(r)
  BY <1>1, <1>4 DEF Confirm, Confirmed, Parses, Same, tables
<1> QED
  BY <1>2, <1>3, <1>4

LEMMA ContractStep ==
  ASSUME IInv, NEW r \in Requests, Step(r)
  PROVE  Contract!Next \/ (installation' = installation /\ Told' = Told /\ Denied' = Denied)
<1>1. CASE Setup(r) /\ answer'[r] \in {"created", "already", "conflict"}
  <2>1. /\ installation # None /\ installation' = installation /\ asked[r] \in Settings
        /\ asked'[r] = asked[r] /\ kind'[r] = "setup" /\ answer[r] = None
        /\ answer'[r] \in {"created", "already"} => asked[r] = installation
        /\ answer'[r] = "conflict" => asked[r] # installation
    BY <1>1, SetupAnswers
  <2>2. \A q \in Requests \ {r} : asked'[q] = asked[q] /\ kind'[q] = kind[q] /\ answer'[q] = answer[q]
    BY OthersKept DEF IInv
  <2>3. answer[r] \notin {"created", "already", "conflict"}
    BY <2>1, NoneIsNoWord DEF Answers
  <2>4. \A v \in Told : v = installation
    BY DEF Told, AskedWith, Setup, IInv, Staged, Stage
  <2>5. CASE answer'[r] \in {"created", "already"}
    <3>1. Told' = Told \cup {asked[r]} /\ Denied' = Denied
      BY <2>1, <2>2, <2>3, <2>5 DEF Told, Denied, AskedWith, Setup
    <3>2. Told' = {installation}
      BY <2>1, <2>4, <2>5, <3>1
    <3> QED
      BY <2>1, <3>1, <3>2 DEF Contract!Next, Contract!Tell, Told, Denied
  <2>6. CASE answer'[r] = "conflict"
    <3>1. Denied' = Denied \cup {asked[r]} /\ Told' = Told
      BY <2>1, <2>2, <2>3, <2>6 DEF Told, Denied, AskedWith, Setup
    <3>2. Contract!Deny(asked[r])
      BY <2>1, <2>6, <3>1 DEF Contract!Deny, Told, Denied
    <3> QED
      BY <2>1, <3>2 DEF Contract!Next
  <2> QED
    BY <1>1, <2>5, <2>6
<1>2. CASE ~(Setup(r) /\ answer'[r] \in {"created", "already", "conflict"})
  <2>1. Told' = Told /\ Denied' = Denied
    BY <1>2, AnswersKept
  <2>2. CASE installation' = installation
    BY <2>1, <2>2
  <2>3. CASE installation' # installation
    <3>1. CompleteBatch(r)
      BY <2>3, TablesKept, MailboxAdded DEF Step, SignInStep, InstallationStep, Receive, ReadRow, ReadCounts,
         RefuseSetup, Confirm, FindMailbox, CheckMailbox, Fail, tables
    <3>2. installation = None /\ installation' \in Settings
      BY <2>3, <3>1, BatchInstalls DEF tables
    <3> QED
      BY <2>1, <3>2 DEF Contract!Next, Contract!Choose, Told, Denied
  <2> QED
    BY <2>2, <2>3
<1> QED
  BY <1>1, <1>2

LEMMA ContractInit == Init => Contract!Init
  BY NoneIsNoWord DEF Init, InstallationInit, Contract!Init, AskedWith, Setup, Kinds

\* One of the settings that compete is installed and stays; success is answered to those who
\* asked for it and a conflict to those who asked for another (complete() as a whole).
THEOREM ImplementsSetOnce == Spec => SettingsAreSetOnce
<1>1. IInv /\ [Next]_vars => [Contract!Next]_<<installation, Told, Denied>>
  <2> SUFFICES ASSUME IInv, [Next]_vars
               PROVE  Contract!Next \/ UNCHANGED <<installation, Told, Denied>>
    OBVIOUS
  <2>1. ASSUME NEW r \in Requests, Step(r)
        PROVE  Contract!Next \/ UNCHANGED <<installation, Told, Denied>>
    BY <2>1, ContractStep
  <2>2. CASE Tick \/ UNCHANGED vars
    BY <2>2 DEF Tick, vars, tables, requests, Told, Denied, AskedWith, Setup
  <2> QED
    BY <2>1, <2>2 DEF Next
<1>2. [Contract!Next]_<<installation, Told, Denied>>
        <=> [Contract!Next]_<<installation, AskedWith({"created", "already"}), AskedWith({"conflict"})>>
  BY DEF Told, Denied
<1> QED
  BY <1>1, <1>2, ContractInit, Invariance, PTL DEF Spec, SettingsAreSetOnce, Contract!Spec
================================================================================
