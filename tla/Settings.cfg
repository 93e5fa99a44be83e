SPECIFICATION SettingsSpec
CONSTANTS
  Null = Null
  shown = shown hidden = hidden owner = owner plain = plain rich = rich
  Mailboxes = {shown, hidden}
  Destinations = {owner}
  Preferences = {plain, rich}
  Initially <- InitialRows
  MaxEvents = 2
INVARIANTS ForwardingIsAsked FirstSaveIsWhatWasEntered
CHECK_DEADLOCK FALSE
