SPECIFICATION Spec
CONSTANTS
  watcher = watcher
  api = api
  None = None
  Callers <- BothCallers
  MaxReloads = 1
  Outcomes = {}
CHECK_DEADLOCK FALSE
INVARIANT NotificationsDelivered
