CONSTANTS
  a1 = a1
  a2 = a2
  op = op
  p1 = p1
  p2 = p2
  ds1 = ds1
  ds2 = ds2
  r1 = r1
  r2 = r2
  Zero = Zero
  Account <- Accounts
  IdempotencyKey <- Keys
  Address <- Addresses
  Dataset <- DatasetPairs
  Deployer = op
  InitialPolicy <- PlatformPolicy
  Requests <- ScriptRequests
  Receipts <- ScriptReceipts
  FailureCharges <- None
  Policies <- None
  CoordinatorInputs <- OperatorOnly
  CoordinatorPolicies <- ScriptPolicies
  RelayerInputs <- OperatorOnly
  NewOwners <- None
  DatasetInputs <- ScriptDatasets
  MaxObjects = 3
  MaxTime = 3
  MaxUint = 2
  Operator = op
  MaxSent = 30
  DemoAccount = op
  Env <- AllEnvs
  Run <- Runs
  MaxGiveUps = 2
  Rows = 2
  RowAccount <- RotatedAccounts
  RowKey <- OwnKeys
  Expiry = 9
  Targets <- TwoTargets
  BatchSize = 3
SPECIFICATION ScriptsFairSpec
CONSTRAINT Scenarios
INVARIANTS
  EvidenceTrue
  OnlyOwnUploadAdvanced
  RowsInOrder
  SummaryNeverAhead
  SettledRunSendsNothing
PROPERTIES
  RerunKeepsHashes
  RerunsFinish
  RowsReachTargets
