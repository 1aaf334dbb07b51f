CONSTANTS
  a1 = a1
  idem = idem
  adm = adm
  coo = coo
  oth = oth
  usr = usr
  ds = ds
  op1 = op1
  op2 = op2
  h1 = h1
  h2 = h2
  h3 = h3
  Zero = Zero
  Account <- Accounts
  IdempotencyKey <- Keys
  Address <- Addresses
  Dataset <- OneDataset
  Deployer = adm
  InitialPolicy <- PlatformPolicy
  Requests <- UploadRequests
  Receipts <- AllTerms
  FailureCharges <- NoCharge
  Policies <- None
  CoordinatorInputs <- OnlyCoo
  CoordinatorPolicies <- AlwaysAllowed
  RelayerInputs <- None
  NewOwners <- None
  DatasetInputs <- None
  MaxObjects = 1
  MaxTime = 3
  MaxUint = 1
  Self = coo
  OpKey <- OneOperation
  ObjectOf <- FirstObject
  ReceiptHash <- Hashes
  FocReceipts <- OneReceipt
  OtherReceipts <- None
  SessionExpiresAt = 0
  MaxCrashes = 0
SPECIFICATION HCSpec
INVARIANTS
  UnacceptedUploadRetryable
