\* The scripts of MCOperatorScripts, with the instances that the module defines: two
\* callbacks, two runs of what is rerun, one edit of .env.
CONSTANTS
  Accounts = {a1, a2}
  None = None
  Inexact = Inexact
  MaxCallbacks = 2
  Registered <- ThreeChannels
  AccountNames <- TwoEach
  Bare = "default"
  App = "app"
  NoWaba <- SecondWithoutWaba
  Versions = {"old", "new"}
  TooMany = "new"
  Profiles <- ProfileFiles
  Absent = "absent"
  MaxRuns = 2
  Refreshed <- ThreeAccounts
  MaxEdits = 1
  Verified <- TwoChannels
  Deliveries <- ThreeUsers
  Hooks <- FourHooks
  Scenarios <- ThreeScenarios
  Fits <- TextsFit
  GuidedStamp <- TextsAtOnce
  PassiveStamp <- Apart
  Probed <- LineAndPage
  ProbedAccounts <- LineAndPages
  Inbounds <- FiveWebhooks
  Quota = 2
  Swept <- SocialChannels
  Emojis <- FireAndHeart
SPECIFICATION PartsSpec
CHECK_DEADLOCK FALSE
INVARIANTS
  CaptureIsSound
  CompleteIsSubscribed
  InOrderIsApplied
  VerdictIsHeard
  QuietMeansFresh
  NoneIsMissed
  EndIsComplete
  DeliveredWasDrawn
