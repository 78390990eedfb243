CONSTANTS
  job = job
  bad = bad
  w1 = w1
  w2 = w2
  u1 = u1
  group = group
  ToUsers = ToUsers
  NoJob = NoJob
  Free = Free
  TicksPerMinute = 2
  Horizon = 4
  Jobs <- MCJobs
  Malformed <- MCMalformed
  Cron <- MCCron
  Destination <- AllUsers
  Workers <- TwoWorkers
  Users <- OneUser
  Chats <- OneChat
SPECIFICATION LiveSpec
INVARIANTS
  TypeOK
  OncePerOccurrence
  RunsAreTrue
PROPERTIES
  CatchesUp
