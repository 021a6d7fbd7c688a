SPECIFICATION MCSpec
CONSTANTS
  MaxNet = 2
  Failed = Failed
  None = None
  Accounts = {1, 2, 3}
  Spaces = {1, 2}
  SpaceOf <- MCSpaceOf
  Inboxes = {1}
  MaxItems = 2
  ToastLimit = 1
  MaxTimers = 2
  MaxTokens = 2
  People = {1, 2}
  BotOwners = {1}
  MaxExpiries = 1
  Groups = {1, 2}
  MaxScrapes = 2
  BulkAgents = {1, 2}
  Users = {1, 2}
  There <- MCThere
  MaxJobs = 2
INVARIANTS ShellControlsEnd StatusOfSelected SecretIsNewest UserIsOfToken PageOfRole
           JobIsLatest SelectedNotThere
PROPERTIES ToastedOnce
CHECK_DEADLOCK FALSE
