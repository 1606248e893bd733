SPECIFICATION Spec
CONSTANTS
  Urls = {doc, photo, page, blob}
  Local = {doc, photo}
  DataUrls = {blob}
  All = all
  Plugins <- MCPlugins
INVARIANT SuccessMeansShared
CHECK_DEADLOCK FALSE
