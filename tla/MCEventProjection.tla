-------------------------- MODULE MCEventProjection --------------------------
(* Small instances of EventProjection. *)
EXTENDS EventProjection

CONSTANTS a1, k1, k2, adm, coo, ds1, ds2, pr1

Accounts  == {a1}
Keys      == {k1, k2}
Addresses == {adm, coo}
DatasetPairs == {ds1, ds2}
OneProvider  == [d \in DatasetPairs |-> pr1]
CopyDatasets == <<ds1, ds2>>

PlatformPolicy ==
  [paused |-> FALSE, maxObjectSize |-> 2, maxCopies |-> 2,
   maxCostPerUpload |-> 2, maxActiveBytesPerAccount |-> 9,
   defaultRequestTtl |-> 1, allowFailureCharges |-> TRUE]
SamePolicy == {PlatformPolicy}

\* Two shapes of upload, told apart by their key.
Request(key, size, copies, cost) ==
  [accountId |-> a1, idempotencyKey |-> key, user |-> adm, size |-> size,
   requestedCopies |-> copies, maxCost |-> cost, requestExpiresAt |-> 0]
UploadRequests == {Request(k1, 1, 2, 2), Request(k2, 2, 1, 1)}

Receipt(status, size, requested, completed, cost) ==
  [finalizationStatus |-> status, payer |-> adm, hasReceiptHash |-> TRUE,
   size |-> size, requestedCopies |-> requested, completedCopies |-> completed,
   actualCost |-> cost, copies |-> completed]
UploadReceipts ==
  {Receipt("Committed", 1, 2, 2, 1), Receipt("Partial", 1, 2, 1, 2),
   Receipt("Failed", 1, 2, 0, 1), Receipt("Committed", 2, 1, 1, 0)}
Charges == {1}

Allowed == [allowed |-> TRUE, sessionKeyExpiresAt |-> 0]
Session == [allowed |-> TRUE, sessionKeyExpiresAt |-> 1]
Revoked == [allowed |-> FALSE, sessionKeyExpiresAt |-> 0]
SomePolicies  == {Allowed, Session, Revoked}

OneDataset ==
  {[accountId |-> a1, dataset |-> ds1, payer |-> adm, createdAt |-> 0]}
NewOwnerSet == {adm}

OnlyCoo == {coo}

(* The behaviours explored are those of two scenarios.                     *)

PendingNames == {pending[i].name : i \in DOMAIN pending}
SetAgain == {i \in DOMAIN pending : pending[i].name = "CoordinatorUpdated"}

\* Two uploads of both shapes, run by one coordinator the owner allows once.
UploadScenario ==
  /\ Range(coordinatorAddresses) \subseteq {adm}
  /\ coordinatorPolicies[adm] \in {Allowed, Revoked}
  /\ coordinatorAddresses # <<>> => coordinatorPolicies[adm].allowed
  /\ relayerAddresses = <<>> /\ datasetKeys = <<>>
  /\ PendingNames \cap {"OwnershipTransferred", "PolicyUpdated"} = {}
  /\ Cardinality(SetAgain) <= 1 /\ (nextObjectId > 1 => SetAgain \subseteq {1})

\* One upload that is not settled, while the owner administers: sessions that
\* end, a coordinator revoked, a relayer and a dataset.
AdminScenario ==
  /\ Range(coordinatorAddresses) \subseteq {coo}
  /\ coordinatorPolicies[coo] \in {Session, Revoked}
  /\ nextObjectId <= 2 /\ now <= 2 /\ Len(pending) <= 2
  /\ objects[1].status # "None" => objects[1].idempotencyKey = k2
  /\ objects[1].status \notin {"Committed", "Partial", "Failed"}

TwoScenarios == UploadScenario \/ AdminScenario
=============================================================================
