\* One call sends a batch to two chats, while one of them, which waits until
\* a command has been handled, and another write to the bot; one restart.
SPECIFICATION ServiceSpec
CONSTANTS
  NULL = NULL
  u1 = u1
  t1 = t1
  r1 = r1
  r2 = r2
  g1 = g1
  b1 = b1
  c1 = c1
  c2 = c2
  hi = hi
  name1 = name1
  pwd1 = pwd1
  User = {u1}
  Name = {name1}
  Password = {pwd1}
  Template = {t1}
  Recipient = {r1, r2}
  Group = {g1}
  Draft = {}
  Batch = {b1}
  Notification = {n1, n2}
  Chat = {c1, c2}
  Text = {hi}
  Call = {k1}
  Requests <- Send
  InitialStores <- Databases
  Tries = 1
  MaxEdits = 0
  Patient = {c1}
  Commands <- Written
  Limit = 1
  MaxUpdates = 2
  MaxRestarts = 1
INVARIANTS
  SubscribersAreReached
  StoppedChatsAreLeftAlone
