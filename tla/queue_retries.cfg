SPECIFICATION QueueSpec
CONSTANTS
  Wallets = {w1}
  Checked = {}
  Unchecked = {"admin"}
  Clients = {c1}
  Cron = cron
  Manual = {manual}
  BatchLimit = 1
  MaxRetries = 2
  MaxRequests = 2
  MaxFaults = 0
PROPERTIES
  RetriesAreDecided
CHECK_DEADLOCK FALSE
