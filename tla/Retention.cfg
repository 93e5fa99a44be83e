SPECIFICATION Spec
CONSTANTS
  None = None
  first = first
  second = second
  reply = reply
  here = here
  there = there
  Mails = {first, second}
  Replies = {reply}
  Threads = {here, there}
  ThreadOf <- Conversations
  Digest <- Bytes
  Jobs = {j1, j2}
  Reads = {d}
  Policies <- TwoDays
  Batches = {1, 2}
  Lease = 1
  LastDay = 1
  MaxTime = 3
INVARIANTS BytesGoFirst EvidenceIsDetached DownloadsFailOnlyForRetired
SYMMETRY Claimants
CHECK_DEADLOCK FALSE
