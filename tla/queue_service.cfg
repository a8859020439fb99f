SPECIFICATION QueueSpec
CONSTANTS
  Wallets = {w1}
  Checked = {"first_time"}
  Unchecked = {"admin"}
  Clients = {c1}
  Cron = cron
  Manual = {manual}
  BatchLimit = 2
  MaxRetries = 2
  MaxRequests = 2
  MaxFaults = 1
INVARIANTS
  QueueTypeOK
  CompletedWasMinted
  FlagTellsTheRun
  ProcessingIsInHand
CHECK_DEADLOCK FALSE
