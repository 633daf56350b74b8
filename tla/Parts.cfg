\* Three conversations handed out among three agents, from any counters; two
\* connections that log in and change accounts; two clients and two handlers at
\* the rate limiter, with time enough to drop a bucket; four messages; short days;
\* one table of settings and one rule.
CONSTANTS
  Agents = {1, 2, 3}
  MaxConversations = 3
  Limits = {1, 2, 3}
  Counters = {0, 1, 2}
  AIModes = {"human_first", "always_ai", "manual_only"}
  Staff = {"kf"}
  Admins = {}
  Connections = {1, 2}
  Passwords = {1, 2, 3}
  OldHashes = {3}
  Seeded = {"kf"}
  Bootstrap = 1
  MaxTokens = 2
  MaxChanges = 2
  Keys = {"home", "office"}
  Handlers = {1, 2}
  Rate = 1
  Cost = 2
  Full = 3
  ManyKeys = 1
  IdleTime = 5
  MaxLag = 1
  LastTick = 6
  MaxWritten = 4
  Times = {1, 2, 3, 4}
  PageSizes = {1, 2}
  MinutesPerDay = 12
  SettingRows = {"contact_settings"}
  RuleRows = {"rule"}
  GreetingRows = {"contact_settings"}
  Writers = {1, 2}
  Values = {1, 2}
  Default = 1
  Edits <- MCEdits
  MaxVersions = 2
\* Each part but the clock ends where its bounds are.
CHECK_DEADLOCK FALSE
SPECIFICATION PartsSpec
INVARIANTS
  LoopIsDispatch
  PickUpIsDispatch
  SessionsAreCurrent
  NeverAboveRate
  PagesAreComplete
  StoresAgree
PROPERTIES
  ChangesKnowThePassword
  RefusedOnlyAboveRate
  OpensAndCloses
  UndoneOnlyInARace
