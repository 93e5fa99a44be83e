--------------------------------- MODULE SignIn ---------------------------------
(***************************************************************************)
(* Sign-in over an installation: magic links, sessions and the requests    *)
(* they authenticate, behind the gate of Installation.  A magic link is    *)
(* named by the request that asked for it, a session by the request that   *)
(* consumed the link.  Every request reads the clock before its statement, *)
(* which may commit later, after another request with a later reading.     *)
(***************************************************************************)
EXTENDS Installation

CONSTANTS
  Cooldown,        \* MAGIC_LINK_COOLDOWN_MS
  LinkLifetime,    \* MAGIC_LINK_LIFETIME_MS
  SessionLifetime, \* SESSION_LIFETIME_MS
  MaxTime          \* bound on the clock

ASSUME Lifetimes ==
  /\ Cooldown \in Nat \ {0} /\ LinkLifetime \in Nat \ {0} /\ SessionLifetime \in Nat \ {0}
  /\ MaxTime \in Nat /\ Cooldown <= MaxTime

Kinds == {"setup", "status", "mailbox", "ask", "verify", "use", "logout"}
Answers == {"refused", "error", "required", "complete", "inconsistent", "unavailable", "created",
            "already", "conflict", "added", "accepted", "invalid", "verified", "expired", "served",
            "loggedOut"}

ASSUME NoneIsNoWord == None \notin Kinds \cup Answers

VARIABLES
  links,    \* the rows of magic_links
  sessions, \* the rows of sessions
  mailed,   \* the links EMAIL.send took
  now,      \* Date.now()
  at,       \* the reading of the clock a request uses
  dismissed \* links that had been answered invalid when a request came in (history)

vars == <<tables, requests, links, sessions, mailed, now, at, dismissed>>

-------------------------------------------------------------------------------
\* Far enough from the epoch for a cooldown to fit before it.
Times == Cooldown .. MaxTime

Links == [user : Emails \cup {None}, requestedAt : Times, expiresAt : Nat,
          usedAt : Times \cup {None}]
NoLink == [user |-> None, requestedAt |-> Cooldown, expiresAt |-> 0, usedAt |-> None]

Sessions == [user : Emails \cup {None}, link : Requests \cup {None}, expiresAt : Nat,
             revokedAt : Times \cup {None}]
NoSession == [user |-> None, link |-> None, expiresAt |-> 0, revokedAt |-> None]

Init ==
  /\ InstallationInit
  /\ links = [r \in Requests |-> NoLink]
  /\ sessions = [r \in Requests |-> NoSession]
  /\ mailed = {}
  /\ now = Cooldown
  /\ at = [r \in Requests |-> Cooldown]
  /\ dismissed = [r \in Requests |-> {}]

Entered(r, k) == pc[r] = "entered" /\ kind[r] = k

ReadClock(r, step) ==
  /\ at' = [at EXCEPT ![r] = now]
  /\ Goto(r, step)
  /\ UNCHANGED <<tables, links, sessions, mailed, now, dismissed>>

Ends(r, what) ==
  Reply(r, what) /\ UNCHANGED <<tables, links, sessions, mailed, now, at, dismissed>>

-------------------------------------------------------------------------------
(* POST /v1/auth/magic-links answers 202 whatever happens. *)

\* The cooldown counted from the links of the user that are unused.  No action uses it.
CooledUnused(user, time) ==
  \A l \in Requests : links[l].user = user /\ links[l].usedAt = None
                        => links[l].requestedAt <= time - Cooldown
Cooled(user, time) ==
  \A l \in Requests : links[l].user = user => links[l].requestedAt <= time - Cooldown

Ask(r) == Entered(r, "ask") /\ (ReadClock(r, "create") \/ Ends(r, "accepted"))

CreateLink(r) ==
  /\ pc[r] = "create"
  /\ IF asked[r] \in users /\ Cooled(asked[r], at[r])
     THEN /\ links' = [links EXCEPT ![r] =
               [user |-> asked[r], requestedAt |-> at[r],
                expiresAt |-> at[r] + LinkLifetime, usedAt |-> None]]
          /\ Goto(r, "deliver")
     ELSE Reply(r, "accepted") /\ UNCHANGED links
  /\ UNCHANGED <<tables, sessions, mailed, now, at, dismissed>>

\* The provider may take the mail or not, and the caller cannot tell.
DeliverLink(r) ==
  /\ pc[r] = "deliver"
  /\ mailed' \in {mailed, mailed \cup {r}}
  /\ Reply(r, "accepted")
  /\ UNCHANGED <<tables, links, sessions, now, at, dismissed>>

-------------------------------------------------------------------------------
(* POST /v1/auth/magic-links/verify, from the page the link opens *)

\* A rate limit answered like a used link.  No action uses it.
RefusedAsInvalid == "invalid"
Refused == "unavailable"

Verify(r) == Entered(r, "verify") /\ (ReadClock(r, "consume") \/ Ends(r, Refused))

Consumable(l, time) == links[l].usedAt = None /\ links[l].expiresAt > time /\ links[l].user \in users

\* The unique index on sessions.source_magic_link_id.
Unclaimed(l) == \A s \in Requests : sessions[s].link # l

\* The batch without its second statement.  No action uses it.
SpentNever(l, time) == links
Spent(l, time) == [links EXCEPT ![l].usedAt = time]

Consume(r) ==
  LET l == asked[r] IN
  /\ pc[r] = "consume"
  /\ IF Consumable(l, at[r]) /\ Unclaimed(l)
     THEN /\ sessions' = [sessions EXCEPT ![r] =
               [user |-> links[l].user, link |-> l,
                expiresAt |-> at[r] + SessionLifetime, revokedAt |-> None]]
          /\ links' = Spent(l, at[r])
          /\ Goto(r, "find")
     ELSE /\ Reply(r, IF Consumable(l, at[r]) THEN "error" ELSE "invalid")
          /\ UNCHANGED <<sessions, links>>
  /\ UNCHANGED <<tables, mailed, now, at, dismissed>>

\* findSession, whose last_seen_at is left out.
Live(s, time) ==
  sessions[s].user \in users /\ sessions[s].revokedAt = None /\ sessions[s].expiresAt > time

FindNew(r) ==
  pc[r] = "find" /\ IF Live(r, at[r])
                    THEN /\ Goto(r, "principal")
                         /\ UNCHANGED <<tables, links, sessions, mailed, now, at, dismissed>>
                    ELSE Ends(r, "invalid")

\* The mailboxes are listed before the cookie is set.
SetCookie(r) == pc[r] = "principal" /\ Ends(r, "verified")

-------------------------------------------------------------------------------
(* Requests that bring the cookie of a session *)

Authenticate(r) ==
  \/ Entered(r, "use") /\ ReadClock(r, "lookup")
  \/ Entered(r, "logout") /\ ReadClock(r, "lookup")

FindSession(r) ==
  /\ pc[r] = "lookup"
  /\ IF ~Live(asked[r], at[r]) THEN Ends(r, "expired")
     ELSE IF kind[r] = "use" THEN Ends(r, "served") ELSE ReadClock(r, "revoke")

Revoke(r) ==
  /\ pc[r] = "revoke"
  /\ sessions' = IF sessions[asked[r]].revokedAt # None THEN sessions
                 ELSE [sessions EXCEPT ![asked[r]].revokedAt = at[r]]
  /\ Reply(r, "loggedOut")
  /\ UNCHANGED <<tables, links, mailed, now, at, dismissed>>

-------------------------------------------------------------------------------
ReceiveSignIn(r) ==
  /\ \/ \E u \in Emails : Receive(r, "ask", u)
     \/ \E l \in mailed : Receive(r, "verify", l)
     \/ \E s \in Requests : answer[s] = "verified" /\
          (Receive(r, "use", s) \/ Receive(r, "logout", s))
  /\ dismissed' = [dismissed EXCEPT ![r] =
       {asked[q] : q \in {p \in Requests : kind[p] = "verify" /\ answer[p] = "invalid"}}]
  /\ UNCHANGED <<links, sessions, mailed, now, at>>

Tick ==
  /\ \E t \in Times : t > now /\ now' = t
  /\ UNCHANGED <<tables, requests, links, sessions, mailed, at, dismissed>>

Step(r) ==
  \/ InstallationStep(r) /\ UNCHANGED <<links, sessions, mailed, now, at, dismissed>>
  \/ ReceiveSignIn(r)
  \/ Ask(r) \/ CreateLink(r) \/ DeliverLink(r)
  \/ Verify(r) \/ Consume(r) \/ FindNew(r) \/ SetCookie(r)
  \/ Authenticate(r) \/ FindSession(r) \/ Revoke(r)

Next == Tick \/ \E r \in Requests : Step(r)

Spec == Init /\ [][Next]_vars

-------------------------------------------------------------------------------
(* Properties *)

Steps == {"idle", "row", "counts", "batch", "confirm", "entered", "insert", "inserted", "create",
          "deliver", "consume", "find", "principal", "lookup", "revoke", "done"}

\* The argument that goes with what a request asks for.
Fits(k, what) ==
  CASE k = "setup"                       -> what \in Settings
    [] k = "mailbox"                     -> what \in Addresses
    [] k = "ask"                         -> what \in Emails
    [] k \in {"verify", "use", "logout"} -> what \in Requests
    [] OTHER                             -> what = None

\* Every variable keeps the shape the tables and the requests give it.
TypeOK ==
  /\ users \subseteq Emails /\ mailboxes \subseteq Addresses /\ owners \subseteq Addresses \X Emails
  /\ installation \in Settings \cup {None}
  /\ pc \in [Requests -> Steps]
  /\ kind \in [Requests -> Kinds \cup {None}]
  /\ asked \in [Requests -> Settings \cup Addresses \cup Emails \cup Requests \cup {None}]
  /\ \A r \in Requests : Fits(kind[r], asked[r])
  /\ answer \in [Requests -> Answers \cup {None}]
  /\ links \in [Requests -> Links] /\ sessions \in [Requests -> Sessions]
  /\ mailed \subseteq Requests
  /\ now \in Times /\ at \in [Requests -> Times]
  /\ dismissed \in [Requests -> SUBSET Requests]

\* Of the requests that bring one link, whatever their timing, at most one opens a session,
\* and the link counts as used exactly when one did: the two statements of consumeMagicLink.
LinkIsSpentOnce ==
  \A l \in Requests :
    /\ links[l].usedAt # None <=> \E s \in Requests : sessions[s].link = l
    /\ \A s, t \in Requests : sessions[s].link = l /\ sessions[t].link = l => s = t

\* Two links of a user were asked for at least a cooldown apart, though requests read the
\* clock in one order and insert in another.
LinksAreSpaced ==
  \A k, l \in Requests :
    k # l /\ links[k].user # None /\ links[k].user = links[l].user =>
      \/ links[k].requestedAt + Cooldown <= links[l].requestedAt
      \/ links[l].requestedAt + Cooldown <= links[k].requestedAt

\* Whatever setups competed, only the owner they installed has an account, and who holds a
\* session got the link as that owner.
OnlyTheOwnerSignsIn ==
  /\ OnlyTheOwnerHasAccount
  /\ \A s \in Requests : sessions[s].link # None =>
       /\ installation # None /\ sessions[s].user = installation.owner
       /\ sessions[s].link \in mailed /\ links[sessions[s].link].user = sessions[s].user

\* A link the verify page has called invalid or expired signs nobody in who opens it later.
InvalidIsFinal == \A r \in Requests : answer[r] = "verified" => asked[r] \notin dismissed[r]
================================================================================
