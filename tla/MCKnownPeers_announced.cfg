SPECIFICATION Spec
CONSTANTS
  a = a
  b = b
  none = none
  Absent = none
  Keys <- MCKeys
  Nodes <- KnownNodes
  Urls <- NetUrls
  Canon <- NetCanon
  UrlOrder <- NetUrlOrder
  NodeAt <- NetNodeAt
  OwnKey <- KnownOwnKey
  Answers <- NetAnswers
  Advertised <- NetAdvertised
  Syncers <- KnownSyncers
  Handlers <- NetHandlers
  Home <- KnownHome
  Configured <- KnownConfigured
  Pin <- KnownPin
  AdHoc <- NetAdHoc
  Announced <- KnownAnnounced
  Locking <- KnownSyncers
  ListLimit = 4
  MaxFailures = 2
  MaxFaults = 0
PROPERTIES
  VerdictsStand
