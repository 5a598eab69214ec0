\* A chat that waits until a command has been handled and no answer to it is on
\* its way, and one that does not, without restarts, under weak fairness of the poller and the tasks.
SPECIFICATION FairSpec
CONSTANTS
  NULL = NULL
  Chat = {c1, c2}
  Patient = {c1}
  Commands <- Switching
  Limit = 1
  Tries = 1
  MaxUpdates = 3
  MaxRestarts = 0
INVARIANTS
  AnswersHold
PROPERTIES
  UpdatesAreHandled
