SPECIFICATION MCSpec
CHECK_DEADLOCK FALSE
CONSTANTS
  web = web
  db = db
  orphan = orphan
  once = once
  Services <- Both
  Others <- Beside
  Label <- Listing
  Timeout = 2
INVARIANTS SuccessWasSeen FailureWasSeen OneLogWriter
PROPERTIES ReportsFaithfully EndsUnlessDockerHangs
