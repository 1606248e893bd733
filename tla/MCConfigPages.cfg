SPECIFICATION Spec
CONSTANTS
  Devices = {d1, d2}
  MaxChanges = 5
  Accounts = {"mail", "video", "cloud"}
  AccountTypes = {"google", "nextcloud"}
  TypeOf <- MCTypeOf
  MaxGrants = 4
  Servers = {"kde", "own"}
  Repositories = {"purpose", "kio"}
  Listing <- MCListing
  MaxPage = 2
  MaxRefresh = 4
  DiffPages = {p1, p2, p3}
  Launch = launch
INVARIANTS OneRowEach RowsAtRest RowsAnnounced ListWhole ListCurrent CwdRestored
  IInv
PROPERTY ListEnds
CHECK_DEADLOCK FALSE
