SPECIFICATION QueueSpec
CONSTANTS
  Wallets = {w1}
  Checked = {}
  Unchecked = {"admin"}
  Clients = {c1}
  Cron = cron
  Manual = {}
  BatchLimit = 2
  MaxRetries = 2
  MaxRequests = 1
  MaxFaults = 0
PROPERTIES
  PendingIsTaken
CHECK_DEADLOCK FALSE
