SPECIFICATION ListSpec
CONSTANTS
  Messages = {1, 2, 3}
  Threads = {1, 2}
  Times = {3}
  SentAt <- MCSentAt
  PageSize = 1
  Folders = {"inbox", "archive"}
  MaxChanges = 1
INVARIANTS SummaryIsTrue InboxIsOpen NothingSteadyIsMissed ListRepeatsNothing
CHECK_DEADLOCK FALSE
