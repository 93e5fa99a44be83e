------------------------------ MODULE Installation ------------------------------
(***************************************************************************)
(* First-run setup and the gate in front of the API: the statements of     *)
(* InstallationRepository over the D1 tables users, mailboxes,             *)
(* mailbox_members and installations, one step per awaited call, by HTTP   *)
(* requests that interleave.  A request is used once.  What requests of    *)
(* other kinds do once the gate let them in is in SignIn.                  *)
(***************************************************************************)
EXTENDS Naturals, FiniteSets

CONSTANTS
  Requests,  \* HTTP requests the Worker receives
  Emails,    \* addresses of people
  Addresses, \* addresses of mailboxes
  None       \* SQL NULL, and no request, no answer

VARIABLES
  users,        \* emails in users
  mailboxes,    \* addresses in mailboxes
  owners,       \* <<address, email>> of the members with role owner
  installation, \* the singleton row, by the settings it stands for
  pc,           \* where a request stands
  kind,         \* what it asks for
  asked,        \* with what argument
  answer        \* how it ended

tables   == <<users, mailboxes, owners, installation>>
requests == <<pc, kind, asked, answer>>

-------------------------------------------------------------------------------
\* The other settings are compared and stored the way these two are.
Settings == [owner : Emails, mailbox : Addresses]

ASSUME NoneIsNoValue ==
  None \notin Requests \cup Emails \cup Addresses \cup Settings \cup Nat

Same(stored, requested) == stored = requested

Setup(r) == kind[r] = "setup"

Goto(r, step) == pc' = [pc EXCEPT ![r] = step] /\ UNCHANGED <<kind, asked, answer>>
Reply(r, what) ==
  /\ pc' = [pc EXCEPT ![r] = "done"]
  /\ answer' = [answer EXCEPT ![r] = what]
  /\ UNCHANGED <<kind, asked>>

InstallationInit ==
  /\ users = {} /\ mailboxes = {} /\ owners = {}
  /\ installation = None
  /\ pc = [r \in Requests |-> "idle"]
  /\ kind = [r \in Requests |-> None]
  /\ asked = [r \in Requests |-> None]
  /\ answer = [r \in Requests |-> None]

Receive(r, k, what) ==
  /\ pc[r] = "idle"
  /\ pc' = [pc EXCEPT ![r] = "row"]
  /\ kind' = [kind EXCEPT ![r] = k]
  /\ asked' = [asked EXCEPT ![r] = what]
  /\ UNCHANGED <<answer, tables>>

\* Rate limit, origin, setup token and body are checked before D1 is read.
RefuseSetup(r) == pc[r] = "row" /\ Setup(r) /\ Reply(r, "refused") /\ UNCHANGED tables

-------------------------------------------------------------------------------
(* getStatus *)

OwnersOf(box) == {u \in Emails : <<box, u>> \in owners}

\* parseInstallationRow: the row joins its mailbox and its one owner.
Parses ==
  /\ installation # None
  /\ installation.mailbox \in mailboxes
  /\ OwnersOf(installation.mailbox) = {installation.owner}

NoAccounts == users = {} /\ mailboxes = {} /\ owners = {}

\* What a request does with the status: setup completes or compares, GET /setup
\* and the pages answer it, and the gate lets any other in when it is complete.
Proceed(r, status) ==
  CASE Setup(r) /\ status = "required"     -> Goto(r, "batch")
    [] Setup(r) /\ status = "complete"     ->
         Reply(r, IF Same(installation, asked[r]) THEN "already" ELSE "conflict")
    [] Setup(r) /\ status = "inconsistent" -> Reply(r, "error")
    [] kind[r] = "status"                  -> Reply(r, status)
    [] OTHER -> IF status = "complete" THEN Goto(r, "entered") ELSE Reply(r, "unavailable")

ReadRow(r) ==
  /\ pc[r] = "row"
  /\ IF installation = None THEN Goto(r, "counts")
                            ELSE Proceed(r, IF Parses THEN "complete" ELSE "inconsistent")
  /\ UNCHANGED tables

\* A second statement: a setup may have completed since the first.
ReadCounts(r) ==
  /\ pc[r] = "counts"
  /\ Proceed(r, IF NoAccounts THEN "required" ELSE "inconsistent")
  /\ UNCHANGED tables

-------------------------------------------------------------------------------
(* complete: each statement of the batch repeats that no installation is there *)

Absent == installation = None

\* The batch without the condition in its first statement.  No action uses it.
NewUserAnyway(s) == {s.owner}
NewUser(s) == IF Absent THEN {s.owner} ELSE {}
NewMailbox(s) == IF Absent THEN {s.mailbox} ELSE {}

NewOwner(s) ==
  IF Absent /\ \A u \in Emails : <<s.mailbox, u>> \in owners => u = s.owner
  THEN {<<s.mailbox, s.owner>>} ELSE {}

\* The installation inserted over the one that is there.  No action uses it.
InstalledOver(s) == s
Installed(s) ==
  IF Absent /\ (owners \cup NewOwner(s)) \cap ({s.mailbox} \X Emails) = {<<s.mailbox, s.owner>>}
  THEN s ELSE installation

CompleteBatch(r) ==
  /\ pc[r] = "batch"
  /\ users' = users \cup NewUser(asked[r])
  /\ mailboxes' = mailboxes \cup NewMailbox(asked[r])
  /\ owners' = owners \cup NewOwner(asked[r])
  /\ installation' = Installed(asked[r])
  /\ Goto(r, "confirm")

Confirmed(r) ==
  IF ~Parses THEN "error" ELSE IF Same(installation, asked[r]) THEN "created" ELSE "conflict"

Confirm(r) == pc[r] = "confirm" /\ Reply(r, Confirmed(r)) /\ UNCHANGED tables

-------------------------------------------------------------------------------
(* bootstrapOwner, by which a configured Worker adds a mailbox: for an address *)
(* mail came to, or one the owner created.                                     *)

FindMailbox(r) ==
  /\ pc[r] = "entered" /\ kind[r] = "mailbox"
  /\ IF asked[r] \notin mailboxes THEN Goto(r, "insert")
     ELSE Reply(r, IF OwnersOf(asked[r]) = {installation.owner} THEN "added" ELSE "error")
  /\ UNCHANGED tables

InsertMailbox(r) ==
  /\ pc[r] = "insert"
  /\ users' = users \cup {installation.owner}
  /\ mailboxes' = mailboxes \cup {asked[r]}
  /\ owners' = owners \cup
       (IF \A u \in Emails : <<asked[r], u>> \in owners => u = installation.owner
        THEN {<<asked[r], installation.owner>>} ELSE {})
  /\ Goto(r, "inserted")
  /\ UNCHANGED installation

CheckMailbox(r) ==
  /\ pc[r] = "inserted"
  /\ Reply(r, IF OwnersOf(asked[r]) = {installation.owner} THEN "added" ELSE "error")
  /\ UNCHANGED tables

\* A call that throws, or an invocation that is cut off: no answer the client can use.
Fail(r) == pc[r] \notin {"idle", "done"} /\ Reply(r, "error") /\ UNCHANGED tables

InstallationStep(r) ==
  \/ \E s \in Settings : Receive(r, "setup", s)
  \/ \E box \in Addresses : Receive(r, "mailbox", box)
  \/ Receive(r, "status", None)
  \/ ReadRow(r) \/ ReadCounts(r) \/ RefuseSetup(r) \/ CompleteBatch(r) \/ Confirm(r)
  \/ FindMailbox(r) \/ InsertMailbox(r) \/ CheckMailbox(r) \/ Fail(r)

-------------------------------------------------------------------------------
(* Properties *)

\* Exactly one of the settings that compete is installed, it stays, every setup that is
\* answered with success asked for it and every setup answered with a conflict asked for
\* another: complete() implements SetOnce.
AskedWith(answers) == {asked[r] : r \in {q \in Requests : Setup(q) /\ answer[q] \in answers}}
Contract ==
  INSTANCE SetOnce WITH Values <- Settings, value <- installation,
    told <- AskedWith({"created", "already"}), denied <- AskedWith({"conflict"})
SettingsAreSetOnce == Contract!Spec

\* Whatever competed, D1 holds the accounts of the installation and nobody else's: the
\* owner is the only user, and owns every mailbox.
OnlyTheOwnerHasAccount ==
  IF installation = None THEN NoAccounts
  ELSE users = {installation.owner} /\ owners = mailboxes \X users
================================================================================
