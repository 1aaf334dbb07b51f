---------------------------- MODULE MCDirectReads ----------------------------
(* A small instance of DirectReads and DashboardReport. *)
EXTENDS DashboardReport

CONSTANTS a1, a2, adm, ds1, ds2, pr1

Accounts     == {a1, a2}
Keys         == 1..MaxObjects
OneAddress   == {adm}
DatasetPairs == {ds1, ds2}
OneProvider  == [d \in DatasetPairs |-> pr1]
CopyDatasets == <<ds1, ds2>>

OpenPolicy ==
  [paused |-> FALSE, maxObjectSize |-> 2, maxCopies |-> 2,
   maxCostPerUpload |-> 2, maxActiveBytesPerAccount |-> 12,
   defaultRequestTtl |-> 3, allowFailureCharges |-> FALSE]

Asked(a, key, copies, cost) ==
  [accountId |-> a, idempotencyKey |-> key, user |-> adm, size |-> 1,
   requestedCopies |-> copies, maxCost |-> cost, requestExpiresAt |-> 3]

\* Uploads of one copy fill the list, two of two copies are settled.
AllRequests ==
  {Asked(a1, key, 1, 0) : key \in Keys} \cup {Asked(a, 1, 2, 2) : a \in Accounts}

Receipt(status, completed) ==
  [finalizationStatus |-> status, payer |-> adm, hasReceiptHash |-> TRUE,
   size |-> 1, requestedCopies |-> 2, completedCopies |-> completed,
   actualCost |-> 1, copies |-> completed]
SomeReceipts == {Receipt("Committed", 2), Receipt("Partial", 1)}

None == {}
SomePolicies == {[allowed |-> TRUE, sessionKeyExpiresAt |-> 1],
                 [allowed |-> FALSE, sessionKeyExpiresAt |-> 0]}
SomeDatasets ==
  {[accountId |-> a1, dataset |-> ds1, payer |-> adm, createdAt |-> 0]}
SomeRoutes   == {"object", "datasets", "reconciliation"}
PageSizes    == {1, 2}

(* The behaviours explored are those of two scenarios.                     *)

\* A list of uploads that are requested in the order of their keys.
ListScenario ==
  /\ \A o \in IssuedIds :
       /\ objects[o].idempotencyKey = o /\ objects[o].requestedCopies = 1
       /\ objects[o].status \in {"Requested", "Cancelled"}
  /\ coordinatorAddresses = <<>> /\ datasetKeys = <<>> /\ now = 1
  /\ reader.route \in {"none", "datasets"} /\ reader.limit = 1
  \* A listing of all uploads does not look at what closes them.
  /\ reader.route = "datasets" /\ reader.includeTerminal =>
       moved.objects \subseteq {MaxObjects}
  \* Long lists are read, and uploads are closed only while they are.
  /\ IF reader = NoRequest THEN \A o \in IssuedIds : Live(objects[o].status)
                           ELSE nextObjectId >= MaxObjects

\* Every surface of two uploads that are settled with all or some of their
\* copies; while a request is answered in the last second of the first session
\* only one of them moves.
SettleScenario ==
  /\ nextObjectId <= 3
  /\ \A o \in IssuedIds : objects[o].requestedCopies = 2
  /\ reader.route \in {"none", "object", "reconciliation"}
  /\ reader # NoRequest => reader.limit = 2 /\ reader.includeTerminal /\ now = 1
  /\ Cardinality(moved.objects) <= 1

TwoScenarios == ListScenario \/ SettleScenario
=============================================================================
