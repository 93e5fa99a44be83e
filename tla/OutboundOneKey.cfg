SPECIFICATION FairSpec
CONSTANTS
  None = None
  h1 = h1 h2 = h2 h3 = h3
  compose = compose rival = rival relay = relay relayCc = relayCc
  k1 = k1 k2 = k2 k3 = k3 k4 = k4 t1 = t1 f1 = f1 f2 = f2
  Handlers = {h1, h2, h3}
  Requests = {compose, rival}
  Relays = {}
  Keys = {k1}
  Threads = {t1}
  Files = {f1}
  Raws = {compose, rival}
  KeyOf <- OneKeyKeyOf
  ThreadOf <- OneKeyThreadOf
  FilesOf <- OneKeyFilesOf
  RawOf <- OneKeyRawOf
INVARIANTS AtMostOneProviderCall SentIsReal CompletionIsNotRefused NoOrphanThread AnswersAreTrue
PROPERTIES QueuedIsResumed MeetsContract
CHECK_DEADLOCK FALSE
