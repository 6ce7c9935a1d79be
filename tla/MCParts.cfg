\* The components that share no state: each is explored by itself.
SPECIFICATION PartsSpec
CONSTANTS
  Parts = {"settings", "backups", "imageUpdates", "resources",
           "audit", "alerts", "oidc", "editor", "lists", "session", "form", "engine"}
  \* Server
  Jobs = {"imageUpdateCheck", "aiWatchdog"}
  Counts <- MCCounts
  Secrets = {"clientSecret"}
  LongestDelay = 2147483
  MaxChanges = 2
  Names = {"a"}
  Runs = {"r1", "r2"}
  Keeps = {1, 2}
  MaxTime = 2
  Hosts = {"local", "h1"}
  MaxDigest = 1
  MaxChecks = 2
  Remotes = {"h1"}
  Signatures = {"host", "h1"}
  Interval = 1
  Cooldown = 2
  MaxTicks = 3
  Suspects = {"u1"}
  Lookback = 3
  Threshold = 2
  Limit = 2
  Suppress = 3
  Intervals = {1, 2}
  MaxNow = 5
  MaxRows = 3
  Boxes <- MCBoxes
  Events = {"e1", "e2"}
  Pause = 2
  MaxHours = 2
  MaxSwitched = 1
  Providers = {"p", "q"}
  Signins = {"s1", "s2"}
  Orders = {1, 2}
  Tags = {"x"}
  Wishes <- MCWishes
  Quotas <- MCQuotas
  MaxMishaps = 1
  \* Web application
  Editable = {"a", "b"}
  MaxTexts = 1
  MaxClicks = 1
  DockerHosts = {"local", "h1"}
  RowKeys = {"r1", "r2"}
  PageNames = {"networks", "stacks", "users", "hosts", "audit"}
  FirstRows <- MCFirstRows
  MaxEdits = 1
  Grants <- MCGrants
  MaxGrants = 1
  MaxReloads = 1
  MaxCalls = 2
  Fields = {"f", "g"}
  MaxSaves = 2
  MaxTyped = 1
VIEW PartsView
CHECK_DEADLOCK FALSE
INVARIANTS
  PartsTypeOK
  DockerIsToldRight
  SettingsInForce
  BackupsKept
  UpdatesAreTold
  OncePerCooldown
  BurstsAreFlagged
  EventsAreTold
  ConfigIsOfSettings
  SavesOwnStack
  ListsKeepUp
  SessionIsTrue
  FormKeepsEdits
