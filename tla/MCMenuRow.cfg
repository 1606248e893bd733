SPECIFICATION Spec
CONSTANTS
  Inherits <- MCInherits
  Wildcards <- MCWildcards
  PluginTypes <- MCPluginTypes
  Native <- MCNative
  Packages <- MCPackages
  Inputs <- MCInputs
  Disabled <- MCDisabled
  System <- MCSystem
  PageFiles = {"kdeconnect", "saveas"}
  LocalJobs = FALSE
INVARIANT TriggeredPlugin
\* An access beyond the rows is the end.
CHECK_DEADLOCK FALSE
