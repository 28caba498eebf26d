SPECIFICATION Spec
CONSTANTS
  agent = agent
  doctor = doctor
  h1 = h1
  h2 = h2
  Processes = {agent, doctor}
  Handoffs = {h1, h2}
  Before <- MCBefore
  Handed <- MCHanded
  Base <- MCBase
  LocalChanges = {"local", "one"}
  MaxCrashes = 1
  MaxEdits = 2
INVARIANTS TypeOK IntegratedIsPresent NoPickLeftBehind RepeatIsRecognised
PROPERTIES BranchesKeepCommits
SYMMETRY MCSymmetry
CHECK_DEADLOCK FALSE
