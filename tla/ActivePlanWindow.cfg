SPECIFICATION Spec
CONSTANTS
  r1 = r1  r2 = r2  qa = qa  qb = qb  ka = ka  kb = kb
  Requests = {r1, r2}
  Queries = {qa, qb}
  Keys = {ka, kb}
  Builders = {b1}
  KeyOf <- OneKeyShared
  NoSub = NoSub  NoQuery = NoQuery  NoKey = NoKey
  MaxActivePlans = 2
  MutationLogSize = 1
  BytesLimited = FALSE
  MaySkip = FALSE
  NoRows <- Nothing
  MaxQueueDepth = 2
  DeltaCoalescing = TRUE
  MaxVersion = 1
  MaxSubscribes = 2
CHECK_DEADLOCK FALSE
INVARIANT WindowsPerSubscription
