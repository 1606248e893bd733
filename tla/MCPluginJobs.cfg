SPECIFICATION FairSpec
CONSTANTS
  Urls = {doc, photo, page, blob}
  Local = {doc, photo}
  DataUrls = {blob}
  All = all
  Plugins <- MCPlugins
INVARIANTS PendingCounts SuccessDelivers UrlOfSuccess IInv
PROPERTIES NothingAfterResult ComesToResult ReliableComesToResult
CHECK_DEADLOCK FALSE
