SPECIFICATION Spec
CONSTANTS
  Programs <- MCPrograms
  Percents <- MCPercents
  Errors <- MCErrors
  Outputs = {o1}
  NoOutput = NoOutput
  Chunks = 3
  MaxInFlight = 3
  Builds = {TRUE, FALSE}
INVARIANT ExitAssertion
\* The job ends: finished and deleted, or the host's process crashed.
CHECK_DEADLOCK FALSE
