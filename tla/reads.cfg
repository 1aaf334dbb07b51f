CONSTANTS
  a1 = a1
  a2 = a2
  adm = adm
  ds1 = ds1
  ds2 = ds2
  pr1 = pr1
  Zero = Zero
  Account <- Accounts
  IdempotencyKey <- Keys
  Address <- OneAddress
  Dataset <- DatasetPairs
  Deployer = adm
  InitialPolicy <- OpenPolicy
  Requests <- AllRequests
  Receipts <- SomeReceipts
  FailureCharges <- None
  Policies <- None
  CoordinatorInputs <- OneAddress
  CoordinatorPolicies <- SomePolicies
  RelayerInputs <- None
  NewOwners <- None
  DatasetInputs <- SomeDatasets
  MaxObjects = 6
  MaxTime = 3
  MaxUint = 12
  MaxLimit = 2
  CopyDataset <- CopyDatasets
  ProviderOf <- OneProvider
  Routes <- SomeRoutes
  PageLimits <- PageSizes
  IncludeTerminal = {TRUE, FALSE}
  MaxPagesPerSurface = 6
  DetailConcurrency = 1
SPECIFICATION DRSpec
CONSTRAINT TwoScenarios
INVARIANTS
  TraversalComplete
  FailsOnlyForSize
  QuietAnswersTrue
  OnlyMovedRowsMismatch
  DashboardTrue
