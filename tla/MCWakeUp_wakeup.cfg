SPECIFICATION FairSpec
CONSTANTS
  task = task
  message = message
  Tasks = {task}
  Sends = {message}
  Above <- MCAbove
  MaxAttempts = 2
  MaxCrashes = 1
  MaxOutages = 1
INVARIANTS TypeOK
PROPERTIES KeepsContract WaitingIsHeard FailingEnds
