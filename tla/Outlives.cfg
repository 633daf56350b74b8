\* One client: authorized before the revocation, registered after it.
CONSTANTS
  n1 = n1
  w1 = w1
  w2 = w2
  n2 = n2
  phone = phone
  tablet = tablet
  browser = browser
  Nodes = {n1}
  Workers = {w1}
  Clients = {phone}
  Accounts = {"kf"}
  NodeOf <- MCNodeOf
  RoleOf <- MCRoleOf
  AccountOf <- MCAccountOf
  SendBuffer = 1
  MaxSends = 2
  MaxUnanswered = 1
  MaxEvents = 1
\* Once MaxEvents events are sent and the clients are gone nothing is left to do.
CHECK_DEADLOCK FALSE
SPECIFICATION FairSpec
PROPERTIES
  NoneOutlivesItsSession
