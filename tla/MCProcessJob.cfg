SPECIFICATION FairSpec
CONSTANTS
  Programs <- MCPrograms
  Percents <- MCPercents
  Errors <- MCErrors
  Outputs = {o1}
  NoOutput = NoOutput
  Chunks = 3
  MaxInFlight = 3
  Builds = {TRUE, FALSE}
INVARIANTS
  TypeOK
  FinalMirror
  PayloadComplete
  IInv
PROPERTIES
  ContractSpec
  EndLeadsToResult
  StartLeadsToPlugin
\* The job ends: finished and deleted, or the host's process crashed.
CHECK_DEADLOCK FALSE
