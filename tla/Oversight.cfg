\* Two alerts one to a page and a batch; three transactions two to a page; a rule; two
\* documents one to a page; every tab of the settings; one match of one listed name.
\* Every bound ends the work that is left to do: a section may come to rest.
CONSTANTS
  Alerts = {1, 2}
  AlertScore <- MCAlertScore
  AlertPageSize = 1
  MaxBatches = 1
  BatchActions = {"close"}
  Transactions = {1, 2, 3}
  TxFlagged = {2, 3}
  TxHour <- MCTxHour
  TxScore <- MCTxScore
  TxClient <- MCTxClient
  TxPageSize = 2
  HoursPerDay = 8
  UtcOffset = 3
  Days = {0, 1}
  ConditionKeys = {"amount", "operator", "value", "currency"}
  MaxRules = 1
  MaxDocuments = 2
  DocTypes = {"identity_proof", "trust_deed"}
  DocPageSize = 1
  Windows = {1, 2}
  Providers = {"Veriff", "Kyckr"}
  MaxProviderCalls = 2
  Services = {"API Server", "Database", "AI Service"}
  PollPeriod = 2
  MaxAge = 5
  Officers = {"ann", "bob"}
  MaxEntries = 3
  LogPageSize = 2
  MaxRecorded = 4
  Roles = {"Analyst", "Admin"}
  MaxUsers = 2
  ListedNames = {"acme"}
  OtherNames = {"nobody"}
  MaxMatches = 1
  MaxSanctionCalls = 2
SPECIFICATION OversightSpec
INVARIANTS
  OversightTypeOK
  
  BatchToldTrue
  
  PagesExist
  DraftsAreHonest
  HealthAsTold
  LastWishHolds
PROPERTIES
  LeftAloneKept
CHECK_DEADLOCK FALSE
