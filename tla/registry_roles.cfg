CONSTANTS
  a1 = a1
  a2 = a2
  k1 = k1
  k2 = k2
  k3 = k3
  adm = adm
  usr = usr
  ds1 = ds1
  ds2 = ds2
  Zero = Zero
  Unsaid = Unsaid
  Other = Other
  Account <- RolesAccounts
  IdempotencyKey <- RolesKeys
  Address <- Addresses
  Dataset <- DatasetPairs
  Deployer = adm
  InitialPolicy <- RolesInitialPolicy
  Requests <- RolesRequests
  Receipts <- RolesReceipts
  FailureCharges <- None
  Policies <- RolesPolicies
  CoordinatorInputs <- SetBoth
  CoordinatorPolicies <- RolesCoordinatorPolicies
  RelayerInputs <- SetBoth
  NewOwners <- RolesNewOwners
  DatasetInputs <- RolesDatasetInputs
  MaxObjects = 1
  MaxTime = 3
  MaxUint = 3
  MaxLimit = 1
SPECIFICATION Spec
INVARIANTS
  EnumerationsExact
