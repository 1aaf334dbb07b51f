------------------------ MODULE MCFocPlatformRegistry ------------------------
(* Small instances of FocPlatformRegistry: the inputs each run enumerates. *)
EXTENDS RegistryViews, CoordinatorReceipts, TLC

CONSTANTS a1, a2, k1, k2, k3, adm, usr, ds1, ds2

Accounts  == {a1, a2}
Keys2     == {k1, k2}
Keys3     == {k1, k2, k3}
Addresses == {adm, usr}
DatasetPairs == {ds1, ds2}

PolicyOf(paused, cap, charges) ==
  [paused |-> paused, maxObjectSize |-> 2, maxCopies |-> 2,
   maxCostPerUpload |-> 2, maxActiveBytesPerAccount |-> cap,
   defaultRequestTtl |-> 1, allowFailureCharges |-> charges]

Request(account, key, user, size, copies, cost, expiry) ==
  [accountId |-> account, idempotencyKey |-> key, user |-> user,
   size |-> size, requestedCopies |-> copies, maxCost |-> cost,
   requestExpiresAt |-> expiry]

Receipt(status, size, requested, completed, cost) ==
  [finalizationStatus |-> status, payer |-> adm, hasReceiptHash |-> TRUE,
   size |-> size, requestedCopies |-> requested, completedCopies |-> completed,
   actualCost |-> cost, copies |-> completed]

None == {}
SetAdm == {adm}
SetBoth == {adm, usr, Zero}
Always  == [allowed |-> TRUE, sessionKeyExpiresAt |-> 0]
Session == [allowed |-> TRUE, sessionKeyExpiresAt |-> 2]
Revoked == [allowed |-> FALSE, sessionKeyExpiresAt |-> 0]

\* Accounting: two shapes of upload, every receipt that matches one of them
\* and some that match none; the cap is reached.
LedgerInitialPolicy == PolicyOf(FALSE, 5, FALSE)
LedgerPolicies == {PolicyOf(FALSE, 3, TRUE)}
LedgerRequests ==
  {Request(a, k, usr, shape[1], shape[2], shape[3], e) :
     a \in Accounts \cup {Zero}, k \in Keys2,
     shape \in {<<1, 2, 2>>, <<2, 1, 1>>, <<0, 1, 1>>}, e \in {0}}
LedgerReceipts ==
  {Receipt(s, z, n, m, c) : s \in FinalizationStatus, z \in 1..2, n \in 1..2,
                            m \in 0..2, c \in 0..2}
LedgerCoordinatorPolicies == {Always}
LedgerCharges == 0..1

AccountsAndKeys == Permutations(Accounts) \cup Permutations(Keys2)
JustAccounts    == Permutations(Accounts)

\* The lists: one shape of upload, closed by cancellation or expiry in any
\* order, with one key per object.
ListKeys == 1..MaxObjects
ListInitialPolicy == PolicyOf(FALSE, 2 * MaxObjects, FALSE)
ListPolicies == {ListInitialPolicy}
ListRequests == {Request(a, k, usr, 1, 1, 0, 2) : a \in Accounts, k \in ListKeys}
\* The key plays no part in the lists: take them in order.
KeysInOrder == \A o \in IssuedIds : objects[o].idempotencyKey = o

\* Roles: ownership changes hands, coordinators come with sessions that end
\* and are revoked, relayers are listed and delisted, the platform is paused,
\* datasets are recorded and recorded again.
RolesInitialPolicy == PolicyOf(FALSE, 4, FALSE)
RolesPolicies == {PolicyOf(TRUE, 4, FALSE), PolicyOf(FALSE, 4, FALSE)}
RolesKeys     == {k1}
RolesAccounts == {a1}
RolesRequests == {Request(a1, k1, u, 1, 1, 0, 0) : u \in {usr, Zero}}
RolesReceipts == {Receipt("Committed", 1, 1, 1, 0)}
RolesCoordinatorPolicies == {Session, Revoked}
RolesNewOwners == {usr, Zero}
RolesDatasetInputs ==
  {[accountId |-> a, dataset |-> d, payer |-> adm, createdAt |-> 0] :
     a \in {a1, Zero}, d \in DatasetPairs}
=============================================================================
