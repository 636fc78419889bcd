SPECIFICATION Spec
CHECK_DEADLOCK FALSE
CONSTANTS
  f1 = f1  f2 = f2  v1 = v1  v2 = v2
  p1 = p1  p2 = p2  t1 = t1  t2 = t2
  Absent = Absent  Link = Link  Dir = Dir  Torn = Torn
  Untracked = Untracked  Malformed = Malformed
  Files = {f1}
  Profiles = {p1, p2}
  Owns <- SameFile
  Scopes <- AllOnly
  Versions = {v1, v2}
  Drafts = {d1}
  Terminals = {t1, t2}
  MaxCommands = 3
  MaxEdits = 1
  MaxReleases = 1
  MaxFaults = 1
PROPERTIES DraftsSurvive
