SPECIFICATION FairSpec
CONSTANTS
  c1 = c1
  c2 = c2
  o1 = o1
  o2 = o2
  a1 = a1
  a2 = a2
  Calls = {c1, c2}
  Owners = {o1, o2}
  NoOwner = NoOwner
  Assets = {a1, a2}
  OwnerOf <- Serving
  Paths <- Named
  ByHand = {o2}
  Ttl = 1
CHECK_DEADLOCK FALSE
INVARIANTS
  TypeOK
  Serialised
  NothingStranded
PROPERTIES
  LeasesEnd
  CallEnds
