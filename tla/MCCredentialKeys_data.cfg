SPECIFICATION Spec
CONSTANTS
  Credentials = {root, data}
  Rotated = {root}
  Processes = {p1}
  Requests = {r1}
  HistorySize = 2
  MaxKeys = 5
  MaxPasswords = 2
INVARIANTS
  EveryCredentialReadable
