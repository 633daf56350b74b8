\* One agent logs in while it is disabled.
CONSTANTS
  Staff = {"kf"}
  Admins = {}
  Connections = {1, 2}
  Passwords = {1}
  OldHashes = {}
  Seeded = {"kf"}
  Bootstrap = 1
  MaxTokens = 2
  MaxChanges = 2
SPECIFICATION SessionSpec
INVARIANT DisabledHasNoSession
