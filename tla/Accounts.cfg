\* Three calls at a time on two accounts.
SPECIFICATION Spec
CONSTANTS
  NULL = NULL
  u1 = u1
  u2 = u2
  name1 = name1
  name2 = name2
  name3 = name3
  pwd1 = pwd1
  pwd2 = pwd2
  User = {u1, u2, u3, u4, u5}
  Name = {name1, name2, name3}
  Password = {pwd1, pwd2}
  Template = {}
  Recipient = {}
  Group = {}
  Draft = {}
  Batch = {}
  Notification = {}
  Chat = {}
  Text = {}
  Call = {k1, k2, k3}
  Requests <- Everything
  InitialStores <- Store
INVARIANTS
  TypeOK
  NamesAreUnique
PROPERTIES
  DeletedForGood
  AnswersAreAtomic
