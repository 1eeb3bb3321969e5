SPECIFICATION FairSpec

CONSTANTS
  None = None
  api = api
  web = web
  script = script
  r1 = r1
  r2 = r2
  w1 = w1
  w2 = w2
  Threads = {api, web, script}
  Api = {api}
  Scripts = {script}
  Requests = {r1, r2}
  Workers = {w1, w2}
  MaxRetries = 1

INVARIANTS
  OnlyCommittedIsSent
  IndexIsCommitted

PROPERTIES
  AnsweredIsIndexed
  RemovalChecksIn
  TasksAreDelayed

CHECK_DEADLOCK FALSE
