CONSTANTS
  job = job
  bad = bad
  w1 = w1
  w2 = w2
  u1 = u1
  group = group
  ToUsers = ToUsers
  NoJob = NoJob
  Free = Free
  TicksPerMinute = 2
  Horizon = 2
  Jobs <- MCJobs
  Malformed <- MCMalformed
  Cron <- MCCron
  Destination <- TheChat
  Workers <- OneWorker
  Users <- OneUser
  Chats <- OneChat
SPECIFICATION Spec
INVARIANTS
  ClaimsAreRecorded
