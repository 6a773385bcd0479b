CONSTANTS
  FormRows = {1, 2}
  MaxOpenings = 2
  MaxSubmits = 2
  MaxElsewhere = 1
  Zones = {0, 8}
  MaxEdits = 2
  ListRows = {1, 2}
  ListFilters = {"all", "some"}
  ListMatches <- MCMatches
  MaxMoves = 3
  MaxChanges = 1
  GivenMenus = {"admin_overview", "projects"}
  RowMenus = {"projects"}
  MaxChoices = 3
  Users = {"u", "v"}
  Projects = {"p", "q"}
  NULL = "null"
  Managed <- MCManaged
  MaxExpiries = 1
  MaxRequests = 2
  Rows = {1, 2}
  Tabs = {"all", "some"}
  Words = {"", "w"}
  ByTab <- MCMatches
  ByWord <- MCByWord
  MaxLoads = 2
  MaxSaves = 2
  MaxTaps = 4
  Dates = {"d", "e"}
  Months = {"m", "n"}
  MonthOf <- MCMonthOf
  People = {"x", "y"}
  NONE = "none"
  MaxTouches = 3
  MaxZoom <- MCMaxZoom
  MaxActs = 2
  Nonces = {"n"}
  Called = {"EnterpriseWorker/AddOrUpdateWorker", "Project/AddTeam", "Project/TeamExit", "Project/AddWorkerV2",
            "unifiedlog.get", "project.import", "attend/V2/add", "sysFile/V2/uploadImg"}
  Faulted = {"attend/V2/add"}
  MaxClock = 3
  MaxCalls = 2
  MaxOrders = 1
  MaxResets = 1
  PushJobs = {1, 2}
  Pushers = {"f", "g"}
  MaxPushAttempts = 2
  MaxPushUpsets = 2
  Reports = {1, 2}
  ReportConfigs = {"c"}
  Browsers = {"f", "g"}
  MaxRunRetries = 1
  MaxUpsets = 1
  NOBODY = "nobody"
  MapSites = {"p", "q", "r"}
  Placed = {"p", "q"}
  SearchTerms = {"", "q"}
  TermMatches <- MCTermMatches
  Counts = {0, 1, 2}
  MaxReloads = 2
  NOSITE = "nowhere"
  Sites = {"p", "q"}
  Punches = {1, 2, 3}
  SiteOf <- MCSiteOf
  DayOf <- MCDayOf
  FeedCap = 2
  MaxTurns = 2
  MaxNews = 2
  CardProjects = {"p", "q"}
  CardMonths = {"m", "n"}
  MaxPicks = 4
  MapPlaces = {"a", "b"}
  NOPLACE = "no"
  MaxPresses = 4
  Crew = {"x", "y"}
  Yards = {"p", "q"}
  YardOf <- MCYardOf
  MaxClicks = 5
SPECIFICATION EdgesSpec
INVARIANTS
  TypeOK
  FormsKeepToTheirRow
  UntouchedStays
  ListsAreTrue
  ChoicesStay
  MiniPagesAreCurrent
  AnswersAreFiledRight
  ReplaysAreRefused
  PushesAreRight
  RunsKeepApart
CHECK_DEADLOCK FALSE
