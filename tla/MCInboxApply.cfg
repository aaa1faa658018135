SPECIFICATION Screens
CONSTANTS
  Urls <- MCUrls
  Patches <- MCPatches
  None = None
  Fields = {"email"}
  Delims = {"one"}
  Cadences = {"rarely"}
  MaxCalls = 2
  Opens = 1
  Careful = TRUE
  item1 = item1
  item2 = item2
  person1 = person1
  NoItem = NoItem
  Items = {item1, item2}
  People = {person1}
  Work <- MCWork
  MatchedPeople <- MCMatched
  RowAdvice <- MCRowAdvice
  DetailAdvice <- MCDetailAdvice
  MaxDecisions = 1
  Rows <- MCRows
  Kickoffs <- MCKickoffs
  LateRows <- MCLate
  Myself = "me"
  MyVerticals = {"vh"}
  FilterSystems = {"s1", "s2"}
  Reminders <- MCReminders
  ConnectorGate <- MCGate
  PageSize = 1
  Uses <- MCUses
  Path <- MCPath
  DetailViews <- MCViews
  Assigned = {"q1"}
  NoRequest = "none"
  MaxPosts <- MCMaxPosts
  Verticals = {"hr", "data"}
  Automatic = {"data"}
  MaxSends = 3
  MaxEntries = 3
  Members <- MCMembers
  MaxMembers = 3
  Journeys <- MCJourneys
  Attempts <- MCAttempts
  Overdue <- MCOverdue
  Mine = {"hr"}
  MaxAttempts1 = 2
  Bulks = {1, 2, 3}
  Fresh = {2, 3}
  NoBulk = 0
  MaxNavs = 3
  Details <- MCDetails
  Histories <- MCHistories
  Probes <- MCProbes
  Bound <- MCBound
  Stamps <- MCStamps
  MaxSaves = 3
  Documents <- MCDocuments
  Letters = {"o"}
  Intake <- MCIntake
  LateIntake <- MCLateIntake
  Flagged = {2}
  Needles = {"", "x", "xy"}
  ShortNeedles = {"x"}
  FlatSize = 3
  BatchSize = 4
  Gap = 3
  Margin = 1
  MaxSearches = 3
  MaxBulk = 1
  OpsRuns <- MCOpsRuns
  OpsTables <- MCOpsTables
  OpsRows <- MCOpsRows
  OpsLimits = {1, 2}
  DefaultLimit = 2
  DayTexts <- MCDayTexts
  MaxOps = 4
  c1 = c1
  c2 = c2
  NoLink = NoLink
  Linked = {c1, c2}
  UploadOnly = {c2}
  Creatable = {"axios_hq", "lever"}
  CatalogSystems = {"lever", "auth0"}
  OwnerEmails = {"e1", "e2"}
  MaxAsks = 2
  UsStates = {"CA", "CO"}
  SlaFields = {"review", "lifecycle"}
  MailTypes = {"access", "delete"}
  LegalTeam = {"e1", "e2"}
  AttemptTables = {"matching_attempts", "notice_attempts"}
  MaxPatches = 2
  Cards = {7, 9}
  OpenCard = 9
  InboxRoom = 1
  QueueRoom = 1
  MaxCommits = 2
  ApiKeys = {"k"}
  MaxRuns = 2
  EntryTabs = {1, 2}
  Principals = {"data_owner", "super_admin"}
  MaxSetups = 1
  MaxLoads = 2
  PaletteTexts <- MCTexts
  PaletteFinds <- MCFinds
  PaletteActions <- MCActions
  PalettePeople <- MCPeople
  PaletteIds <- MCPaletteIds
  Menus = {"requests", "settings"}
  NoteRows <- MCNoteRows
  Replies = {"t"}
  Reviewer = "me"
  LegalMembers = {"leo"}
  Colleagues = {"ann"}
  FoundBy <- MCFound
  Addresses = {"x@x"}
  MaxPosts1 = 2
INVARIANT SentAsShown
CHECK_DEADLOCK FALSE
