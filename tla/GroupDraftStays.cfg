\* A confirmed group draft can be confirmed again.
SPECIFICATION Spec
CONSTANTS
  NULL = NULL
  BadId = BadId
  u1 = u1
  u2 = u2
  t1 = t1
  t2 = t2
  tnew1 = tnew1
  r1 = r1
  r2 = r2
  r3 = r3
  g1 = g1
  g2 = g2
  d1 = d1
  d2 = d2
  d3 = d3
  d4 = d4
  b1 = b1
  n1 = n1
  c1 = c1
  hi = hi
  name1 = name1
  name2 = name2
  pwd1 = pwd1
  User = {u1, u2}
  Name = {name1, name2}
  Password = {pwd1}
  Template = {t1, t2, tnew1}
  Recipient = {r1, r2, r3, rnew1}
  Group = {g1, g2, gnew1}
  Draft = {d1, d2, d3, d4, dnew1}
  Batch = {b1}
  Notification = {n1}
  Chat = {c1}
  Text = {hi}
  Call = {k1}
  Requests <- ConfirmGroup
  InitialStores <- Store
INVARIANTS
  ConfirmedGroupDraftsAreGone
