SPECIFICATION Spec
CONSTANTS
  Views = {v1, v2, v3}
  Plugins = {email, imgur}
  Common <- MCCommon
  MaxShares = 3
SYMMETRY Symmetry
INVARIANTS
  ResultsReported
  OwnPage
  StackShowsShares
  StartedReady
  IInv
\* The views are used up, or the process aborted.
CHECK_DEADLOCK FALSE
