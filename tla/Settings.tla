-------------------------------- MODULE Settings --------------------------------
(***************************************************************************)
(* The settings dialog of a mailbox over the API and the page behind it.   *)
(* The dialog keeps a draft of the settings the page showed when it was    *)
(* opened, and sends what differs from what the page shows now.  The page  *)
(* learns of the mailboxes by refreshes, by the loader and by the answers  *)
(* to saves, in any order; another tab or an API client writes as well;    *)
(* the owner may close the dialog and open it for another mailbox while a  *)
(* save is on its way.  Inboxes are created from hidden mailboxes, and     *)
(* mailboxes blocked and released by rules of the owner.                   *)
(***************************************************************************)
EXTENDS Naturals

CONSTANTS
  Mailboxes,    \* mailboxes of the owner
  Destinations, \* addresses mail is forwarded to
  Preferences,  \* values of the settings that are copied from the answer to a save
  Initially,    \* the settings of a mailbox when the page is loaded
  Null,         \* null
  MaxEvents     \* bound on what the owner, another tab and an API client start

ASSUME SettingsShape ==
  /\ Null \notin Mailboxes \cup Destinations \cup Preferences
  /\ Mailboxes # {} /\ MaxEvents \in Nat

VARIABLES
  rows,     \* D1: the settings of a mailbox
  rules,    \* D1: mailboxes with a recipient rule
  view,     \* what the page shows: settings and blocked
  loads,    \* the refresh and the load in flight
  open,     \* settingsMailboxId
  dialog,   \* the state and the refs of MailboxSettingsDialog
  saving,   \* the save the dialog awaits
  strays,   \* writes the client gave up and the API may still serve
  blocking, \* the mailbox being blocked, and how far
  creating, \* the inbox being created
  events    \* such events so far

database == <<rows, rules>>
settingsVars     == <<rows, rules, view, loads, open, dialog, saving, strays, blocking, creating, events>>

-------------------------------------------------------------------------------
\* preference stands for senderAlias, forwardHtml, forwardSent and renderHtml.
Fields == {"whitelisted", "forwardTo", "preference"}
Values(f) == CASE f = "whitelisted" -> BOOLEAN
               [] f = "forwardTo" -> Destinations \cup {Null}
               [] f = "preference" -> Preferences
Rows == {row \in [Fields -> UNION {Values(f) : f \in Fields}] :
           \A f \in Fields : row[f] \in Values(f)}

ASSUME InitialShape == Initially \in [Mailboxes -> Rows]

\* PATCH /v1/mailboxes/:id: a field that is absent stays.
Patched(row, patch) == [f \in Fields |-> IF f \in DOMAIN patch THEN patch[f] ELSE row[f]]

\* What listMailboxes and getMailboxSettings return.
Listed(m) == [row |-> rows[m], blocked |-> m \in rules]

Lanes == {"refresh", "loader"}
NoLoad == [step |-> "none", got |-> Null]
Asked == [step |-> "asked", got |-> Null]

Event == events < MaxEvents /\ events' = events + 1

\* operationPending or routePending: no field can be edited and nothing submitted.
Busy == saving # Null \/ blocking # Null \/ loads["loader"] # NoLoad

-------------------------------------------------------------------------------
(* The dialog *)

\* entered: what the owner put in since the draft was taken.  unsubmitted: Save was not
\* pressed since, and no answer has changed the draft (both history).
Fresh(m, shown) ==
  [mailbox |-> m, draft |-> shown[m].row, edited |-> FALSE, preserve |-> FALSE,
   entered |-> [f \in {} |-> Null], unsubmitted |-> TRUE]

\* The effect of the dialog, once it is open for m over what the page shows; run when one
\* of those changed.  Without the settings among what it depends on: no action uses it.
OnOpening(d, m, shown) ==
  IF m = open THEN d
  ELSE IF m = Null THEN [d EXCEPT !.preserve = FALSE] ELSE Fresh(m, shown)
Effect(d, m, shown) ==
  IF m = open /\ (m # Null => shown[m].row = view[m].row) THEN d
  ELSE IF m = Null THEN [d EXCEPT !.preserve = FALSE]
  ELSE IF d.mailbox = m /\ d.preserve THEN d ELSE Fresh(m, shown)

SettingsInit ==
  /\ rows = Initially
  /\ rules = {}
  /\ view = [m \in Mailboxes |-> Listed(m)]
  /\ loads = [l \in Lanes |-> NoLoad]
  /\ open = Null
  /\ dialog = [Fresh(CHOOSE m \in Mailboxes : TRUE, view) EXCEPT !.mailbox = Null]
  /\ saving = Null /\ strays = {} /\ blocking = Null /\ creating = Null
  /\ events = 0

Turn(m) ==
  /\ open' = m /\ dialog' = Effect(dialog, m, view)
  /\ UNCHANGED <<database, view, loads, saving, strays, blocking, creating, events>>

OpenSettings(m) == open = Null /\ Turn(m)
CloseSettings == open # Null /\ Turn(Null)

Editing == open # Null /\ ~Busy

Changes(d) ==
  /\ dialog' = d
  /\ UNCHANGED <<database, view, loads, open, saving, strays, blocking, creating, events>>

\* The checkbox of a blocked mailbox is disabled.
EditField(f, value) ==
  /\ Editing
  /\ f = "whitelisted" => ~view[open].blocked
  /\ Changes([dialog EXCEPT !.draft[f] = value, !.edited = @ \/ f = "forwardTo",
              !.entered = [g \in DOMAIN @ \cup {f} |-> IF g = f THEN value ELSE @[g]]])

KeepCurrent ==
  /\ Editing /\ dialog.edited
  /\ Changes([dialog EXCEPT !.draft.forwardTo = view[open].row.forwardTo, !.edited = FALSE,
              !.entered = [g \in DOMAIN @ \ {"forwardTo"} |-> @[g]]])

\* What differs from the page, and the destination when it was edited; or all that
\* differs, which no action uses.
AllThatDiffers == {f \in Fields : dialog.draft[f] # view[open].row[f]}
Differing ==
  {f \in Fields \ {"forwardTo"} : dialog.draft[f] # view[open].row[f]} \cup
  {f \in {"forwardTo"} : dialog.edited}

SubmitSettings ==
  /\ Editing
  /\ Event
  /\ dialog' = [dialog EXCEPT !.preserve = TRUE, !.unsubmitted = FALSE]
  /\ saving' =
       IF Differing = {} THEN Null
       ELSE [mailbox |-> open, patch |-> [f \in Differing |-> dialog.draft[f]],
             step |-> "sent", got |-> Null,
             entered |-> dialog.entered, first |-> dialog.unsubmitted]
  /\ UNCHANGED <<database, view, loads, open, strays, blocking, creating>>

-------------------------------------------------------------------------------
(* A save *)

ServeSave ==
  /\ saving # Null /\ saving.step = "sent"
  /\ rows' = [rows EXCEPT ![saving.mailbox] = Patched(@, saving.patch)]
  /\ saving' = [saving EXCEPT !.step = "written"]
  /\ UNCHANGED <<rules, view, loads, open, dialog, strays, blocking, creating, events>>

\* The answer is read by a second statement.
ReadSaved ==
  /\ saving # Null /\ saving.step = "written"
  /\ saving' = [saving EXCEPT !.step = "read", !.got = Listed(saving.mailbox)]
  /\ UNCHANGED <<database, view, loads, open, dialog, strays, blocking, creating, events>>

\* What the dialog takes from the answer, whichever mailbox it is open for by now.
Answered(d, saved) ==
  [d EXCEPT !.draft.forwardTo = saved.forwardTo, !.draft.preference = saved.preference,
            !.edited = FALSE, !.unsubmitted = FALSE]

\* The page shows the answer, unless it has moved on to another list.
AnswerSave ==
  /\ saving # Null /\ saving.step = "read"
  /\ view' \in {view, [view EXCEPT ![saving.mailbox] = saving.got]}
  /\ dialog' = Effect(Answered(dialog, saving.got.row), open, view')
  /\ saving' = Null
  /\ UNCHANGED <<database, loads, open, strays, blocking, creating, events>>

\* An error, or no answer: the write may have been served, be served later, or never.
FailSave ==
  /\ saving # Null
  /\ strays' = IF saving.step = "sent"
               THEN strays \cup {[mailbox |-> saving.mailbox, patch |-> saving.patch]} ELSE strays
  /\ saving' = Null
  /\ UNCHANGED <<database, view, loads, open, dialog, blocking, creating, events>>

ServeStray ==
  /\ \E s \in strays :
       /\ rows' = [rows EXCEPT ![s.mailbox] = Patched(@, s.patch)]
       /\ strays' = strays \ {s}
  /\ UNCHANGED <<rules, view, loads, open, dialog, saving, blocking, creating, events>>

-------------------------------------------------------------------------------
(* Rules and inboxes *)

Load(lane) == loads' = [loads EXCEPT ![lane] = Asked]

Block ==
  /\ Editing /\ ~view[open].blocked
  /\ Event
  /\ blocking' = [mailbox |-> open, step |-> "sent"]
  /\ UNCHANGED <<database, view, loads, open, dialog, saving, strays, creating>>

ServeBlock ==
  /\ blocking # Null /\ blocking.step = "sent"
  /\ rules' = rules \cup {blocking.mailbox}
  /\ blocking' = [blocking EXCEPT !.step = "saved"]
  /\ UNCHANGED <<rows, view, loads, open, dialog, saving, strays, creating, events>>

\* Once the rule is saved, the page is loaded again.
EndBlock ==
  /\ blocking # Null
  /\ \/ blocking.step = "saved" /\ Load("loader")
     \/ UNCHANGED loads
  /\ blocking' = Null
  /\ UNCHANGED <<database, view, open, dialog, saving, strays, creating, events>>

\* The blacklist of the general settings, which adds rules and removes them.
ChangeRule(m) ==
  /\ Event
  /\ rules' \in {rules \cup {m}, rules \ {m}}
  /\ Load("loader") \/ UNCHANGED loads
  /\ UNCHANGED <<rows, view, open, dialog, saving, strays, blocking, creating>>

\* The New inbox dialog, for a mailbox the page does not show as an inbox: the mailbox is
\* made visible, and then told where to forward.
CreateInbox(m) ==
  /\ creating = Null /\ open = Null /\ ~view[m].row.whitelisted
  /\ Event
  /\ \E d \in Destinations \cup {Null} : creating' = [mailbox |-> m, forwardTo |-> d]
  /\ rows' = [rows EXCEPT ![m].whitelisted = TRUE]
  /\ UNCHANGED <<rules, view, loads, open, dialog, saving, strays, blocking>>

ConfigureInbox ==
  /\ creating # Null
  /\ rows' = [rows EXCEPT ![creating.mailbox] =
                [@ EXCEPT !.whitelisted = TRUE, !.forwardTo = creating.forwardTo]]
  /\ creating' = Null
  /\ Load("loader") \/ UNCHANGED loads
  /\ UNCHANGED <<rules, view, open, dialog, saving, strays, blocking, events>>

EndCreation ==
  /\ creating # Null /\ creating' = Null
  /\ UNCHANGED <<database, view, loads, open, dialog, saving, strays, blocking, events>>

\* Another tab, or a client of the API.
WriteElsewhere(m) ==
  /\ Event
  /\ \E f \in Fields : \E value \in Values(f) \ {rows[m][f]} : rows' = [rows EXCEPT ![m][f] = value]
  /\ UNCHANGED <<rules, view, loads, open, dialog, saving, strays, blocking, creating>>

-------------------------------------------------------------------------------
(* What the page shows *)

Refresh ==
  /\ Load("refresh")
  /\ UNCHANGED <<database, view, open, dialog, saving, strays, blocking, creating, events>>

ServeLoad(lane) ==
  /\ loads[lane].step = "asked"
  /\ loads' = [loads EXCEPT ![lane] = [step |-> "read", got |-> [m \in Mailboxes |-> Listed(m)]]]
  /\ UNCHANGED <<database, view, open, dialog, saving, strays, blocking, creating, events>>

AnswerLoad(lane) ==
  /\ loads[lane].step = "read"
  /\ view' = loads[lane].got
  /\ dialog' = Effect(dialog, open, view')
  /\ loads' = [loads EXCEPT ![lane] = NoLoad]
  /\ UNCHANGED <<database, open, saving, strays, blocking, creating, events>>

FailLoad(lane) ==
  /\ loads[lane] # NoLoad
  /\ loads' = [loads EXCEPT ![lane] = NoLoad]
  /\ UNCHANGED <<database, view, open, dialog, saving, strays, blocking, creating, events>>

-------------------------------------------------------------------------------
SettingsNext ==
  \/ \E m \in Mailboxes : OpenSettings(m) \/ ChangeRule(m) \/ CreateInbox(m) \/ WriteElsewhere(m)
  \/ \E f \in Fields : \E value \in Values(f) : EditField(f, value)
  \/ CloseSettings \/ KeepCurrent \/ SubmitSettings
  \/ ServeSave \/ ReadSaved \/ AnswerSave \/ FailSave \/ ServeStray
  \/ Block \/ ServeBlock \/ EndBlock \/ ConfigureInbox \/ EndCreation
  \/ Refresh \/ \E lane \in Lanes : ServeLoad(lane) \/ AnswerLoad(lane) \/ FailLoad(lane)

SettingsSpec == SettingsInit /\ [][SettingsNext]_settingsVars

-------------------------------------------------------------------------------
(* Properties *)

\* A save sends a destination only if the owner entered it in the dialog of that mailbox,
\* and then that one: whatever was shown, saved or loaded meanwhile, for this mailbox or
\* another, forwarding goes nowhere else.
ForwardingIsAsked ==
  saving # Null /\ "forwardTo" \in DOMAIN saving.patch =>
    /\ "forwardTo" \in DOMAIN saving.entered
    /\ saving.patch.forwardTo = saving.entered.forwardTo

\* The first save after the dialog took its draft sends what the owner entered and nothing
\* else, though the page learnt of changes made elsewhere since it was opened.
FirstSaveIsWhatWasEntered ==
  saving # Null /\ saving.first =>
    \A f \in DOMAIN saving.patch :
      f \in DOMAIN saving.entered /\ saving.patch[f] = saving.entered[f]
================================================================================
