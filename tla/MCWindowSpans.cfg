SPECIFICATION MCSpec
CONSTANTS
  MaxTargets = 8
  Malformed = Malformed
  Recordings <- MCRecordings
  Cameras = 2
  MaxEditions = 2
  Tolerances = {0, 1, 2}
  Periods <- MCPeriods
  Tasks <- MCTasks
  Inputs <- MCInputs
  Subjects = {"assembly"}
INVARIANTS
  WindowsStayInValidSpans
