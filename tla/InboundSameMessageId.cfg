SPECIFICATION Spec
CONSTANTS
  None = None
  h1 = h1 h2 = h2 h3 = h3 m1 = m1 m2 = m2
  ownerAddress = ownerAddress otherAddress = otherAddress blacklist = blacklist mid = mid
  Handlers = {h1, h2}
  Mails = {m1, m2}
  Rules = {blacklist}
  Addresses = {ownerAddress}
  Owner = ownerAddress
  MessageIds = {mid}
  Matches <- TwoMatches
  MessageIdOf <- SharedMessageIdOf
  MaxEdits = 0
INVARIANT EveryDeliveryIsCaptured
CHECK_DEADLOCK FALSE
