\* Two nodes with a worker each; both send to and disconnect one client.
CONSTANTS
  n1 = n1
  w1 = w1
  w2 = w2
  n2 = n2
  phone = phone
  tablet = tablet
  browser = browser
  Nodes = {n1, n2}
  Workers = {w1, w2}
  Clients = {phone}
  Accounts = {"kf"}
  NodeOf <- MCNodeOf
  RoleOf <- MCRoleOf
  AccountOf <- MCAccountOf
  SendBuffer = 1
  MaxSends = 2
  MaxUnanswered = 1
  MaxEvents = 2
\* Once MaxEvents events are sent and the clients are gone nothing is left to do.
CHECK_DEADLOCK FALSE
SPECIFICATION FairSpec
CONSTRAINT NobodyListensThere
INVARIANTS
  TypeOK
  InOrder
  RevokedIsTold
PROPERTIES
  ClosedIsLeftAlone
  RevocationDisconnects
