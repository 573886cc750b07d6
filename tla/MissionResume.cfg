\* A process that dies once, in the middle of a turn of the mission.
CONSTANTS
  MaxSteps = 3
  TurnSteps = 2
  MaxTime = 2
  FailureCap = 2
  MaxKills = 1
SPECIFICATION Spec
PROPERTIES
  CrashResumes
\* A mission that is over stays so.
CHECK_DEADLOCK FALSE
