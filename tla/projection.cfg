CONSTANTS
  a1 = a1
  k1 = k1
  k2 = k2
  adm = adm
  coo = coo
  ds1 = ds1
  ds2 = ds2
  pr1 = pr1
  Zero = Zero
  Account <- Accounts
  IdempotencyKey <- Keys
  Address <- Addresses
  Dataset <- DatasetPairs
  Deployer = adm
  InitialPolicy <- PlatformPolicy
  Requests <- UploadRequests
  Receipts <- UploadReceipts
  FailureCharges <- Charges
  Policies <- SamePolicy
  CoordinatorInputs <- Addresses
  CoordinatorPolicies <- SomePolicies
  RelayerInputs <- OnlyCoo
  NewOwners <- NewOwnerSet
  DatasetInputs <- OneDataset
  MaxObjects = 2
  MaxTime = 3
  MaxUint = 9
  CopyDataset <- CopyDatasets
  ProviderOf <- OneProvider
  MaxPending = 6
SPECIFICATION EPSpec
CONSTRAINT TwoScenarios
INVARIANTS
  ProjectionExact
  CountersTrue
  ProjectionReconciles
  CoordinatorAlarmsExact
