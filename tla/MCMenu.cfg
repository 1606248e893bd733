SPECIFICATION Spec
CONSTANTS
  Inherits <- MCInherits
  Wildcards <- MCWildcards
  PluginTypes <- MCPluginTypes
  Native <- MCNative
  Packages <- MCPackages
  Inputs <- MCInputs
  Disabled <- MCDisabled
  System <- MCSystem
  PageFiles = {"kdeconnect", "saveas"}
  LocalJobs = FALSE
INVARIANTS
  RowsFollowSettings
  OfferedExactly
  MenuShowsRows
  ChosenPlugin
  InboundAsGiven
  JobHasItsData
  IInv
\* An access beyond the rows is the end.
CHECK_DEADLOCK FALSE
