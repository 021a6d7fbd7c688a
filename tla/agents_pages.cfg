SPECIFICATION Spec
CONSTANTS
  MaxNet = 2
  Failed = Failed
  None = None
  k1 = k1
  k2 = k2
  Jobs = {1, 2}
  RowsPerPage = 1
  MaxLog = 2
  Leads = {1, 2}
  LeadOwner <- MCLeadOwner
  Queries = {g1}
  MaxEntries = 3
  Members = {1, 2}
  Keywords = {k1, k2}
  Has <- MCHas
  MaxConditions = 1
  PageSize = 1
  MaxPages = 3
  GroupMembers <- MCGroupMembers
  MaxSends = 1
  MaxRows = 2
  MaxCampaigns = 2
  MaxTasks = 2
  Targets = {1, 2}
INVARIANTS
  PageControlsEnd PagesShowAll FilterSettles AutoClaimed SentAsConfirmed MediaStaysWithMessage UntouchedKeeps HeldIsOfTarget
CHECK_DEADLOCK FALSE
