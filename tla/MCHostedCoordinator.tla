------------------------- MODULE MCHostedCoordinator -------------------------
(* Small instances of HostedCoordinator. *)
EXTENDS HostedCoordinator, TLC

CONSTANTS a1, idem, adm, coo, oth, usr, ds, op1, op2, h1, h2, h3

Accounts  == {a1}
Keys      == {idem}
Addresses == {adm, coo, oth, usr}
OneDataset == {ds}
None      == {}
NoCharge  == {0}

PlatformPolicy ==
  [paused |-> FALSE, maxObjectSize |-> 1, maxCopies |-> 2,
   maxCostPerUpload |-> 1, maxActiveBytesPerAccount |-> 2,
   defaultRequestTtl |-> 1, allowFailureCharges |-> FALSE]

\* One upload of two copies.
UploadRequests ==
  {[accountId |-> a1, idempotencyKey |-> idem, user |-> usr, size |-> 1,
    requestedCopies |-> 2, maxCost |-> 1, requestExpiresAt |-> 2]}

Terms(status, copies) ==
  [finalizationStatus |-> status, payer |-> adm, hasReceiptHash |-> TRUE,
   size |-> 1, requestedCopies |-> 2, completedCopies |-> copies,
   actualCost |-> 1, copies |-> copies]

AllTerms == {Terms("Committed", 2), Terms("Partial", 1)}
Hashes   == {h1, h2, h3}

\* FOC may answer with either of two receipts of one outcome, which only
\* their hashes tell apart.
TwoReceipts == {[hash |-> h1, terms |-> Terms("Committed", 2)],
                [hash |-> h2, terms |-> Terms("Committed", 2)]}
OneReceipt  == {[hash |-> h1, terms |-> Terms("Committed", 2)]}
ForeignReceipts == {[hash |-> h3, terms |-> Terms("Committed", 2)],
                    [hash |-> h3, terms |-> Terms("Partial", 1)]}

TwoOperations == {op1, op2}
OneOperation  == {op1}
FirstObject   == [k \in OpKey |-> 1]

Coordinators == {coo, oth}
Allowed  == [allowed |-> TRUE, sessionKeyExpiresAt |-> 0]
Revoked  == [allowed |-> FALSE, sessionKeyExpiresAt |-> 0]
CoordinatorModes == {Allowed, Revoked}
OnlyCoo  == {coo}
AlwaysAllowed == {Allowed}

SameOperations == Permutations({op1, op2}) \cup Permutations({h1, h2})
=============================================================================
