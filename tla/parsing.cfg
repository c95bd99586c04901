SPECIFICATION Spec
CONSTANTS
  Urls <- MCUrls
  Heads <- MCHeads
  Spans <- MCSpans
  FileSize <- MCFileSize
  LongMax = 99999
  Texts <- MCTexts
  Configs <- MCConfigs
  ArgvS <- MCArgvS
  Addresses <- MCAddresses
  Paths <- MCPaths
INVARIANTS UrlDecoded RequestRead JsonRead  TransferAsAsked
CHECK_DEADLOCK FALSE
