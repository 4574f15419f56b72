SPECIFICATION Spec
CONSTANTS
  None = None  Unread = Unread
  one = one  other = other  third = third  s1 = s1  s2 = s2  g1 = g1  g2 = g2
  e1 = e1  e2 = e2  cc = cc  p1 = p1  p2 = p2  a1 = a1  a2 = a2  q1 = q1  m1 = m1  m2 = m2
  Tasks <- Two
  GoalSessions <- TwoSessions  Creator = s1  Limit = 1  StrictChoices <- Strictly
  Mishaps <- Crashes  Uuids <- Generations
  FineOutcomes <- Fine  SchedulerActs = 2
  ShakyOutcomes <- Shaky  RetryChecks = 1  RetryActs = 1
  StoreSessions <- Two  Completing = cc  StoreInstances <- SmallStores
  RecentCap = 2  WriteInterval = 2  LedgerInstances <- SmallLedgers
  Goals <- TwoGoals  Edits <- AllEdits
  Accounts <- TwoAccounts  PoolProcesses <- OneProcess  maxAttempts = 2
  WorkBuddyInstances <- SmallPools  AntigravityInstances <- SmallJobs
  AdvisorTasks <- Three  maxCalls = 2  loopThreshold = 2  everyTurns = 1  overrideWindow = 1
  AdvisorStarts = 3  MaxTurns = 2  MaxSessions = 1  Questions <- OneQuestion  Works <- AllWorks
  Processes <- TwoProcesses  MaxImports = 2  MaxDay = 1  MaxTokens = 1  GeminiStarts = 3
  Providers <- BothProviders  Shared <- SharedOnes  UsageInstances <- SmallFooters
  Tools <- Two  BridgeInstances <- Episodes  OutcomeInstances <- Endings
  ConfigProcesses <- Two  Models <- ConfigModels  Values <- ConfigValues  Unusable <- WithoutKey
  ConfigInstances <- SmallSettings
SYMMETRY Symmetry
INVARIANTS TypeOK LedgerKept NoReplay AdviceCounted CookiesSound AnswerFaithful OutcomesSound
PROPERTIES AllowanceKept OnlyAuthorisedRuns EditsKept AccountsKept UsageFollowed SettingsKept
CHECK_DEADLOCK FALSE
