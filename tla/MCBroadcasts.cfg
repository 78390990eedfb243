CONSTANTS
  m1 = m1
  m2 = m2
  w1 = w1
  w2 = w2
  u1 = u1
  u2 = u2
  group = group
  ToUsers = ToUsers
  NoMessage = NoMessage
  Free = Free
  Messages <- MCMessages
  Workers <- MCWorkers
  Users <- MCUsers
  Chats <- MCChats
SPECIFICATION LiveSpec
INVARIANTS
  TypeOK
  AtMostOnce
  CountersAreTrue
PROPERTIES
  QueuedIsTaken
