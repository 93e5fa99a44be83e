SPECIFICATION Spec
CONSTANTS
  None = None
  q = q a = a b = b r = r
  box = box alice = alice bob = bob carol = carol
  Mails = {q, a, b}
  Replies = {r}
  From <- FromOf
  Addressed <- Rows
  Forwarded = {q, a}
  Ignored = {box}
  SubjectOf <- MailsAlike
  Size <- Sizes
  InboundLimit = 3
  InboundBytes = 6
  LookupLimit = 3
  RowLimit = 2
  PeopleLimit = 3
  ReplyLimit = 2
  InnerBytes = 2
  OuterBytes = 3
INVARIANTS NamedIsJoined AnswersComeHome SubjectLeavesNobodyOut
SYMMETRY Alike
CHECK_DEADLOCK FALSE
