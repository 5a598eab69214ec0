\* Every kind of object, bodies with every sort of mistake, two templates that
\* may be deleted.
SPECIFICATION Spec
CONSTANTS
  NULL = NULL
  ann = ann
  long33 = long33
  long65 = long65
  long513 = long513
  long1025 = long1025
  n1 = n1
  t1 = t1
  t2 = t2
  lower1 = lower1
  upper1 = upper1
  lower2 = lower2
  lost = lost
  zero = zero
  meText = meText
  idText = idText
  Word = {ann, long33, long65, long513, long1025, zero,
          lower1, upper1, lower2, lost, meText, idText}
  Length <- Lengths
  Unstorable = {zero}
  Bodies <- AllBodies
  Template = {t1, t2}
  Spelled <- SpelledIds
  Spelling <- Canonical
  Me = meText
  Id = idText
INVARIANTS
  AnswersCanBeSentBack
  ConfirmedAsShown
  ErrorsAreEarned
  DraftsCanBeConfirmed
