SPECIFICATION Spec
CONSTANTS
  None = None
  Requests = {r1, r2, r3, r4}
  Emails = {owner, rival}
  Addresses = {box, other}
  Cooldown = 1
  LinkLifetime = 1
  SessionLifetime = 1
  MaxTime = 2
INVARIANTS OnlyTheOwnerSignsIn LinkIsSpentOnce LinksAreSpaced InvalidIsFinal
PROPERTIES SettingsAreSetOnce
SYMMETRY NameSymmetry
CHECK_DEADLOCK FALSE
