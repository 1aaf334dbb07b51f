CONSTANTS
  a1 = a1
  a2 = a2
  k1 = k1
  k2 = k2
  k3 = k3
  adm = adm
  usr = usr
  ds1 = ds1
  ds2 = ds2
  Zero = Zero
  Unsaid = Unsaid
  Other = Other
  Account <- Accounts
  IdempotencyKey <- Keys2
  Address <- Addresses
  Dataset <- DatasetPairs
  Deployer = adm
  InitialPolicy <- LedgerInitialPolicy
  Requests <- LedgerRequests
  Receipts <- LedgerReceipts
  FailureCharges <- LedgerCharges
  Policies <- LedgerPolicies
  CoordinatorInputs <- SetAdm
  CoordinatorPolicies <- LedgerCoordinatorPolicies
  RelayerInputs <- None
  NewOwners <- None
  DatasetInputs <- None
  MaxObjects = 2
  MaxTime = 3
  MaxUint = 3
  MaxLimit = 1
SPECIFICATION Spec
SYMMETRY AccountsAndKeys
INVARIANTS
  TypeOK
  LedgerMatchesUploads
  LiveUploadsReleasable
  IdempotencyKeyNamesOneUpload
  OutcomeConsistent
  ReceiptsAgree
PROPERTIES
  BytesGrowOnlyWithinCap
  ImplementsUploadLedger
