\* A chat that does not wait, and never asks to stop: lost polls, answers that
\* fail or come late, and a restart.
SPECIFICATION Spec
CONSTANTS
  NULL = NULL
  Chat = {c1}
  Patient = {}
  Commands <- NeverStopping
  Limit = 2
  Tries = 2
  MaxUpdates = 3
  MaxRestarts = 1
INVARIANTS
  TypeOK
  ForgottenWasTaken
  TakenOncePerStart
  SubscriptionLasts
