CONSTANTS
  Owners = {o1}
  Handlers = {h1, h2}
  Waits = {TRUE, FALSE}
  StopModes = {"zero"}
SPECIFICATION Spec
INVARIANTS ZeroWaitsForThread
