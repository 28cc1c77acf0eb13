SPECIFICATION FairSpec
CONSTANTS
  t1 = t1
  t2 = t2
  k1 = k1
  m1 = m1
  p = p
  q = q
  u1 = u1
  u2 = u2
  None = None
  Threads <- MCThreads
  ZipKeys <- MCZipKeys
  MdKeys <- MCMdKeys
  Payloads <- MCPayloads
  Urls <- MCUrls
  Size <- MCSize
  SidecarSize = 1
  Limit = 5
  MaxPuts = 2
  MaxLosses = 1
INVARIANTS
  VerifiedWasServed
  AuthorityFollowsBytes
PROPERTIES
  TrimIsRight
  OperationsEnd
CHECK_DEADLOCK FALSE
