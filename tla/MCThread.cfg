CONSTANTS
  Owners = {o1}
  Handlers = {h1, h2}
  Waits = {TRUE}
  StopModes = {"negative", "zero", "positive"}
SPECIFICATION FairSpec
INVARIANTS NoLostWakeups HandlersInTurn
PROPERTIES CallsReturn
