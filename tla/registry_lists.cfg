CONSTANTS
  a1 = a1
  a2 = a2
  k1 = k1
  k2 = k2
  k3 = k3
  adm = adm
  usr = usr
  ds1 = ds1
  ds2 = ds2
  Zero = Zero
  Unsaid = Unsaid
  Other = Other
  Account <- Accounts
  IdempotencyKey <- ListKeys
  Address <- Addresses
  Dataset <- DatasetPairs
  Deployer = adm
  InitialPolicy <- ListInitialPolicy
  Requests <- ListRequests
  Receipts <- None
  FailureCharges <- None
  Policies <- ListPolicies
  CoordinatorInputs <- SetAdm
  CoordinatorPolicies <- None
  RelayerInputs <- None
  NewOwners <- None
  DatasetInputs <- None
  MaxObjects = 6
  MaxTime = 1
  MaxUint = 3
  MaxLimit = 3
SPECIFICATION Spec
CONSTRAINT KeysInOrder
SYMMETRY JustAccounts
INVARIANTS
  IndexMatchesStatus
  PagesExact
  OnlyStaleCursorsRevert
