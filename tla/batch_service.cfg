SPECIFICATION MintingSpec
CONSTANTS
  Wallets = {w1}
  Checked = {}
  Unchecked = {"first_time", "annual"}
  Clients = {}
  Cron = cron
  Manual = {}
  BatchLimit = 2
  MaxRetries = 2
  MaxRequests = 2
  MaxFaults = 1
  Batchers = {timer, threshold}
PROPERTIES
  PendingIsTaken
CHECK_DEADLOCK FALSE
