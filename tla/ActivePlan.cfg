SPECIFICATION FairSpec
CONSTANTS
  r1 = r1  r2 = r2  qa = qa  qb = qb  ka = ka  kb = kb
  Requests = {r1, r2}
  Queries = {qa, qb}
  Keys = {ka, kb}
  Builders = {b1}
  KeyOf <- OneKeyEach
  NoSub = NoSub  NoQuery = NoQuery  NoKey = NoKey
  MaxActivePlans = 1
  MutationLogSize = 1
  BytesLimited = FALSE
  MaySkip = TRUE
  NoRows <- Nothing
  MaxQueueDepth = 2
  DeltaCoalescing = TRUE
  MaxVersion = 2
  MaxSubscribes = 2
CHECK_DEADLOCK FALSE
INVARIANTS PlansSound NoBuildForgotten StaleIsTold ServesOwnQuery
PROPERTY WaitingEnds
