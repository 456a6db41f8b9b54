SPECIFICATION FairSpec
CONSTANTS
  a = a
  b = b
  none = none
  Absent = none
  Keys <- MCKeys
  Nodes <- NetNodes
  Urls <- NetUrls
  Canon <- NetCanon
  UrlOrder <- NetUrlOrder
  NodeAt <- NetNodeAt
  OwnKey <- NetOwnKey
  Answers <- NetAnswers
  Advertised <- NetAdvertised
  Syncers <- NetSyncers
  Handlers <- NetHandlers
  Home <- NetHome
  Configured <- NetConfigured
  Pin <- NetPin
  AdHoc <- NetAdHoc
  Announced <- NetAnnounced
  Locking <- NetSyncers
  ListLimit = 2
  MaxFailures = 2
  MaxFaults = 1
INVARIANTS
  TypeOK
  PinsHold
  SeenIsCurrent
PROPERTIES
  NoTwins
  GossipKeepsVerdicts
  FailuresCounted
  PeersSpread
