\* A notification is cancelled after its message went out.
SPECIFICATION Spec
CONSTANTS
  NULL = NULL
  u1 = u1
  u2 = u2
  t1 = t1
  t2 = t2
  r1 = r1
  r2 = r2
  g1 = g1
  g2 = g2
  b1 = b1
  b2 = b2
  n1 = n1
  c1 = c1
  c2 = c2
  hi = hi
  name1 = name1
  name2 = name2
  pwd1 = pwd1
  User = {u1, u2}
  Name = {name1, name2}
  Password = {pwd1}
  Template = {t1}
  Recipient = {r1, r2}
  Group = {g1, g2}
  Draft = {}
  Batch = {b1, b2}
  Notification = {n1, n2, n3, n4}
  Chat = {c1, c2}
  Text = {hi}
  Call = {k1, k2}
  Requests <- SendAndCancel
  InitialStores <- Fresh
  Tries = 1
  MaxEdits = 0
PROPERTIES
  CancelOnlyUndelivered
