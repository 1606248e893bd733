SPECIFICATION Spec
CONSTANTS
  Dialog = dialog
  Views = {dialog}
  bluetooth = bluetooth
  kdeconnect = kdeconnect
  Plugins = {bluetooth, kdeconnect, saveas}
  Common <- MCCommon
  MaxShares = 3
INVARIANT FinishedEmitted
\* The triggers are used up, or the process aborted.
CHECK_DEADLOCK FALSE
