SPECIFICATION ComposeSpec
CONSTANTS
  None = None
  Keys = {k1, k2, k3}
  Inboxes = {b1, b2}
  Files = {f1, f2}
  Uploads = {u1, u2}
  MaxEdits = 2
  MaxSwitches = 1
INVARIANTS KeyNamesOneDraft DraftIsTakenOnce PostedFilesAreComplete
SYMMETRY NameSymmetry
CHECK_DEADLOCK FALSE
