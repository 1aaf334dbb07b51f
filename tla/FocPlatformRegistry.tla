------------------------- MODULE FocPlatformRegistry -------------------------
(***************************************************************************)
(* contracts/FocPlatformRegistry.sol: the on-chain ledger of uploads.      *)
(*                                                                         *)
(* Every external function that changes state is one action, whose first   *)
(* parameter is msg.sender.  A call that reverts changes nothing, so a     *)
(* revert is a guard that does not hold.  Views are operators.             *)
(*                                                                         *)
(* Abstracted: the content, metadata, piece and receipt hashes, withCDN,   *)
(* createdAt/updatedAt of an upload, permissionsHash and maxFinalizeDelay  *)
(* (stored, never read by the contract); the bytes of an EIP-712 signature *)
(* are the address ecrecover returns for this request's digest.            *)
(***************************************************************************)
EXTENDS Totals, Sequences, Functions, ActiveIndex

CONSTANTS
  Account,           (* non-zero account ids                               *)
  IdempotencyKey,    (* non-zero idempotency keys                          *)
  Address,           (* non-zero addresses                                 *)
  Dataset,           (* <<provider, dataset>> id pairs                     *)
  Zero,              (* bytes32(0), address(0), and an empty signature     *)
  Deployer,          (* sender of the constructor                          *)
  InitialPolicy,     (* the constructor's policy, scaled to the model      *)
  Requests,          (* inputs of requestUpload                            *)
  Receipts,          (* inputs of finalizeUpload                           *)
  FailureCharges,    (* inputs of failUpload                               *)
  Policies,          (* inputs of setPolicy                                *)
  CoordinatorInputs, CoordinatorPolicies, (* inputs of setCoordinator      *)
  RelayerInputs,     (* inputs of setRelayer                               *)
  NewOwners,         (* inputs of transferOwnership                        *)
  DatasetInputs,     (* inputs of recordDataset                            *)
  MaxTime,           (* bound on block.timestamp                           *)
  MaxUint            (* largest uint256: the width of a cost counter       *)

FinalizationStatus == {"Committed", "Partial", "Failed"}
UploadStatus == {"None", "Requested", "Uploading", "Cancelled", "Expired"}
                  \cup FinalizationStatus

RequestUploadParams ==
  [accountId : Account \cup {Zero}, user : Address \cup {Zero},
   idempotencyKey : IdempotencyKey \cup {Zero},
   size : Nat, requestedCopies : Nat, maxCost : Nat, requestExpiresAt : Nat]

StorageObject ==
  [accountId : Account \cup {Zero}, user : Address \cup {Zero},
   idempotencyKey : IdempotencyKey \cup {Zero},
   size : Nat, requestedCopies : Nat, completedCopies : Nat,
   maxCost : Nat, reservedCost : Nat, actualCost : Nat,
   status : UploadStatus, coordinator : Address \cup {Zero},
   requestExpiresAt : Nat]

AccountUsage ==
  [activeBytes : Nat, activeObjects : Nat, pendingBytes : Nat,
   reservedCost : Nat, totalActualCost : Nat, totalUploadedBytes : Nat,
   totalRequestedUploads : Nat, totalFinalizedUploads : Nat,
   totalFailedUploads : Nat]

UploadReceipt ==
  [finalizationStatus : FinalizationStatus, payer : Address \cup {Zero},
   hasReceiptHash : BOOLEAN, size : Nat, requestedCopies : Nat,
   completedCopies : Nat, actualCost : Nat, copies : Nat]

PolicyConfig ==
  [paused : BOOLEAN, maxObjectSize : Nat, maxCopies : Nat,
   maxCostPerUpload : Nat, maxActiveBytesPerAccount : Nat,
   defaultRequestTtl : Nat, allowFailureCharges : BOOLEAN]

CoordinatorPolicy == [allowed : BOOLEAN, sessionKeyExpiresAt : Nat]

DatasetRecord ==
  [accountId : Account \cup {Zero}, dataset : Dataset,
   payer : Address \cup {Zero}, createdAt : Nat]

ASSUME ConstantsAssumption ==
  /\ Zero \notin Account \cup IdempotencyKey \cup Address
  /\ Deployer \in Address
  /\ InitialPolicy \in PolicyConfig
  /\ Requests \subseteq RequestUploadParams
  /\ Receipts \subseteq UploadReceipt
  /\ FailureCharges \subseteq Nat
  /\ Policies \subseteq PolicyConfig
  /\ CoordinatorPolicies \subseteq CoordinatorPolicy
  /\ CoordinatorInputs \cup RelayerInputs \cup NewOwners
       \subseteq Address \cup {Zero}
  /\ DatasetInputs \subseteq DatasetRecord
  /\ MaxTime \in Nat /\ MaxUint \in Nat

VARIABLES
  now,                    (* block.timestamp                               *)
  owner, policy,
  nextObjectId,
  objects,                (* _objects                                      *)
  receipts,               (* _receiptPayers and the length of _copyReceipts*)
  usage,                  (* _usage                                        *)
  objectByIdempotencyKey, (* _objectByIdempotencyKey                       *)
  coordinatorPolicies,
  relayers,               (* the addresses _relayers maps to true          *)
  coordinatorAddresses, relayerAddresses, accountIds,
  datasets, datasetKeys,
  activeIndexed,          (* ids _activeObjectIndexed maps to true         *)
  activeCount,            (* _activeObjectCount                            *)
  activeList,             (* _activeObjectHead, _activeObjectPrev, ...Next *)
  accountActiveList,      (* _accountActiveObjectHeads, ...Prev, ...Next   *)
  accountObjectList       (* _accountObjectHeads, _accountObjectNext       *)

indexVars   == <<activeIndexed, activeCount, activeList, accountActiveList>>
requestVars == <<nextObjectId, objectByIdempotencyKey, accountIds,
                 accountObjectList>>
uploadVars  == <<objects, receipts, usage, indexVars, requestVars>>
adminVars   == <<owner, policy, coordinatorPolicies, relayers,
                 coordinatorAddresses, relayerAddresses>>
datasetVars == <<datasets, datasetKeys>>
vars        == <<now, uploadVars, adminVars, datasetVars>>

NoObject ==
  [accountId |-> Zero, user |-> Zero, idempotencyKey |-> Zero,
   size |-> 0, requestedCopies |-> 0, completedCopies |-> 0,
   maxCost |-> 0, reservedCost |-> 0, actualCost |-> 0,
   status |-> "None", coordinator |-> Zero, requestExpiresAt |-> 0]

NoUsage ==
  [activeBytes |-> 0, activeObjects |-> 0, pendingBytes |-> 0,
   reservedCost |-> 0, totalActualCost |-> 0, totalUploadedBytes |-> 0,
   totalRequestedUploads |-> 0, totalFinalizedUploads |-> 0,
   totalFailedUploads |-> 0]

(* The constructor. *)
Init ==
  /\ now = 1
  /\ owner = Deployer
  /\ policy = InitialPolicy
  /\ nextObjectId = 1
  /\ objects = [o \in ObjectId |-> NoObject]
  /\ receipts = [o \in ObjectId |-> [payer |-> Zero, copies |-> 0]]
  /\ usage = [a \in Account |-> NoUsage]
  /\ objectByIdempotencyKey =
       [a \in Account |-> [k \in IdempotencyKey |-> 0]]
  /\ coordinatorPolicies =
       [c \in Address |-> [allowed |-> FALSE, sessionKeyExpiresAt |-> 0]]
  /\ relayers = {}
  /\ coordinatorAddresses = <<>> /\ relayerAddresses = <<>>
  /\ accountIds = <<>>
  /\ datasets = [a \in Account |->
                  [d \in Dataset |-> [payer |-> Zero, createdAt |-> 0,
                                      updatedAt |-> 0]]]
  /\ datasetKeys = <<>>
  /\ activeIndexed = {} /\ activeCount = 0
  /\ activeList = EmptyList({GlobalList})
  /\ accountActiveList = EmptyList(Account)
  /\ accountObjectList = [heads |-> [a \in Account |-> 0],
                          next  |-> [o \in ObjectId |-> 0]]

-----------------------------------------------------------------------------
(* Shared checks *)

Stored(status)   == status \in {"Committed", "Partial"}
Live(status)     == status \in {"Requested", "Uploading"}
Terminal(status) == status \in {"Cancelled", "Expired"} \cup FinalizationStatus

RequestedBytes(x) == x.size * x.requestedCopies
StoredBytes(obj)  == obj.size * obj.completedCopies

(* A plausible bug: the push is not guarded. *)
AddKnown_unguarded(list, x) == Append(list, x)

(* A plausible bug: the last moment is taken for one more block. *)
Expired_one_late(o) == now > objects[o].requestExpiresAt + 1

(* A plausible bug: any number of copies passes for a partial upload. *)
CopiesMatchStatus_any_partial(obj, r) ==
  CASE r.finalizationStatus = "Committed" ->
         r.completedCopies = obj.requestedCopies
    [] r.finalizationStatus = "Partial" -> r.completedCopies # 0
    [] r.finalizationStatus = "Failed" -> r.completedCopies = 0

(* A push to an enumeration list that is guarded by its _known... mapping. *)
AddKnown(list, x) == IF x \in Range(list) THEN list ELSE Append(list, x)

ActiveCoordinator(c) ==
  /\ coordinatorPolicies[c].allowed
  /\ \/ coordinatorPolicies[c].sessionKeyExpiresAt = 0
     \/ now <= coordinatorPolicies[c].sessionKeyExpiresAt

MutableObject(o) ==
  objects[o].status # "None" /\ ~Terminal(objects[o].status)

Expired(o) == now > objects[o].requestExpiresAt

ValidRequest(p) ==
  /\ p.accountId # Zero /\ p.idempotencyKey # Zero
  /\ p.size # 0 /\ p.size <= policy.maxObjectSize
  /\ p.requestedCopies # 0 /\ p.requestedCopies <= policy.maxCopies
  /\ p.maxCost <= policy.maxCostPerUpload

(* signer = Zero: no signature, the sender itself must be entitled. *)
AuthorizedRequest(caller, p, signer) ==
  IF signer = Zero THEN (p.user # Zero /\ caller = p.user) \/ caller \in relayers
                   ELSE p.user # Zero /\ signer = p.user

FailureChargeAllowed(reservedCost, charge) ==
  charge <= reservedCost /\ (policy.allowFailureCharges \/ charge = 0)

ValidReceipt(obj, r) ==
  /\ r.payer # Zero /\ r.hasReceiptHash
  /\ r.size = obj.size /\ r.requestedCopies = obj.requestedCopies
  /\ r.completedCopies = r.copies
  /\ r.actualCost <= obj.maxCost
  /\ r.finalizationStatus = "Failed" =>
       FailureChargeAllowed(obj.reservedCost, r.actualCost)

CopiesMatchStatus(obj, r) ==
  CASE r.finalizationStatus = "Committed" ->
         r.completedCopies = obj.requestedCopies
    [] r.finalizationStatus = "Partial" ->
         r.completedCopies # 0 /\ r.completedCopies < obj.requestedCopies
    [] r.finalizationStatus = "Failed" -> r.completedCopies = 0
-----------------------------------------------------------------------------
(* Usage accounting.  uint256 arithmetic is checked: an addition that does *)
(* not fit and a subtraction that would go below zero revert.              *)

Fits(x) == x <= MaxUint

(* A plausible bug: pending bytes are released for one copy only. *)
ReleaseUsage_one_copy(u, obj) ==
  [u EXCEPT !.pendingBytes = @ - obj.size,
            !.reservedCost = @ - obj.reservedCost]

(* A plausible bug: the account is treated as if it had one open upload. *)
ReleaseUsage_whole_account(u, obj) ==
  [u EXCEPT !.pendingBytes = 0, !.reservedCost = 0]

(* A plausible bug: an unchecked block releases the policy's most copies. *)
ReleaseUsage_max_copies(u, obj) ==
  [u EXCEPT !.pendingBytes = @ - obj.size * policy.maxCopies,
            !.reservedCost = @ - obj.reservedCost]

ReserveUsage(u, p) ==
  [u EXCEPT !.reservedCost = @ + p.maxCost,
            !.pendingBytes = @ + RequestedBytes(p),
            !.totalRequestedUploads = @ + 1]

Releasable(u, obj) ==
  u.pendingBytes >= RequestedBytes(obj) /\ u.reservedCost >= obj.reservedCost

ReleaseUsage(u, obj) ==
  [u EXCEPT !.pendingBytes = @ - RequestedBytes(obj),
            !.reservedCost = @ - obj.reservedCost]

ChargeUsage(u, charge) == [u EXCEPT !.totalActualCost = @ + charge]

(* obj is the object after the outcome was written to it. *)
OutcomeUsage(u, obj) ==
  IF Stored(obj.status)
  THEN [u EXCEPT !.activeBytes = @ + StoredBytes(obj),
                 !.activeObjects = @ + 1,
                 !.totalUploadedBytes = @ + StoredBytes(obj),
                 !.totalFinalizedUploads = @ + 1]
  ELSE [u EXCEPT !.totalFailedUploads = @ + 1]

-----------------------------------------------------------------------------
(* The object lists *)

(* A plausible bug: the account list is relinked, the global one is not. *)
RemoveActiveObject_account_only(o) ==
  /\ activeIndexed' = activeIndexed \ {o}
  /\ activeCount' = activeCount - 1
  /\ activeList' = activeList
  /\ accountActiveList' = Unlink(accountActiveList, objects[o].accountId, o)

(* A plausible bug: the object is unmarked and left for readers to skip. *)
RemoveActiveObject_lazy(o) ==
  /\ activeIndexed' = activeIndexed \ {o}
  /\ activeCount' = activeCount - 1
  /\ UNCHANGED <<activeList, accountActiveList>>

IndexRequestedObject(o, a) ==
  /\ accountIds' = AddKnown(accountIds, a)
  /\ accountObjectList' =
       [heads |-> [accountObjectList.heads EXCEPT ![a] = o],
        next  |-> [accountObjectList.next EXCEPT
                     ![o] = accountObjectList.heads[a]]]
  /\ activeIndexed' = activeIndexed \cup {o}
  /\ activeCount' = activeCount + 1
  /\ activeList' = PushFront(activeList, GlobalList, o)
  /\ accountActiveList' = PushFront(accountActiveList, a, o)

RemoveActiveObject(o) ==
  IF o \notin activeIndexed THEN UNCHANGED indexVars
  ELSE /\ activeCount > 0
       /\ activeIndexed' = activeIndexed \ {o}
       /\ activeCount' = activeCount - 1
       /\ activeList' = Unlink(activeList, GlobalList, o)
       /\ accountActiveList' =
            Unlink(accountActiveList, objects[o].accountId, o)

-----------------------------------------------------------------------------
(* Uploads *)

(* A plausible bug: bytes of uploads still in flight are not counted. *)
WithinCap_ignores_pending(u, bytes) ==
  u.activeBytes + bytes <= policy.maxActiveBytesPerAccount

(* A plausible bug: a key may be used again once its upload is over. *)
Unclaimed_after_terminal(a, k) ==
  LET o == objectByIdempotencyKey[a][k]
  IN  o # 0 => Terminal(objects[o].status)

WithinCap(u, bytes) ==
  u.activeBytes + u.pendingBytes + bytes <= policy.maxActiveBytesPerAccount

Unclaimed(a, k) == objectByIdempotencyKey[a][k] = 0

ExpiryOf(p) == IF p.requestExpiresAt = 0 THEN now + policy.defaultRequestTtl
                                         ELSE p.requestExpiresAt

RequestedObject(p) ==
  [accountId |-> p.accountId, user |-> p.user,
   idempotencyKey |-> p.idempotencyKey,
   size |-> p.size, requestedCopies |-> p.requestedCopies,
   completedCopies |-> 0, maxCost |-> p.maxCost, reservedCost |-> p.maxCost,
   actualCost |-> 0, status |-> "Requested", coordinator |-> Zero,
   requestExpiresAt |-> ExpiryOf(p)]

(* The call does not revert. *)
RequestAccepted(caller, p, signer) ==
  LET a == p.accountId
  IN  /\ nextObjectId <= MaxObjects
      /\ ~policy.paused
      /\ ValidRequest(p)
      /\ AuthorizedRequest(caller, p, signer)
      /\ ExpiryOf(p) > now
      /\ Unclaimed(a, p.idempotencyKey)
      /\ WithinCap(usage[a], RequestedBytes(p))
      /\ Fits(usage[a].reservedCost + p.maxCost)

RequestUpload(caller, p, signer) ==
  LET o == nextObjectId
      a == p.accountId
  IN  /\ RequestAccepted(caller, p, signer)
      /\ nextObjectId' = o + 1
      /\ objectByIdempotencyKey' =
           [objectByIdempotencyKey EXCEPT ![a][p.idempotencyKey] = o]
      /\ objects' = [objects EXCEPT ![o] = RequestedObject(p)]
      /\ usage' = [usage EXCEPT ![a] = ReserveUsage(@, p)]
      /\ IndexRequestedObject(o, a)
      /\ UNCHANGED <<now, receipts, adminVars, datasetVars>>

StartAccepted(c, o) ==
  ActiveCoordinator(c) /\ objects[o].status = "Requested" /\ ~Expired(o)

StartUpload(c, o) ==
  /\ StartAccepted(c, o)
  /\ objects' = [objects EXCEPT ![o].status = "Uploading",
                                ![o].coordinator = c]
  /\ UNCHANGED <<now, receipts, usage, indexVars, requestVars, adminVars,
                 datasetVars>>

(* The object after finalizeUpload wrote the receipt to it. *)
FinalizedObject(obj, c, r) ==
  [obj EXCEPT !.status = r.finalizationStatus, !.coordinator = c,
              !.completedCopies = r.completedCopies,
              !.actualCost = r.actualCost]

ReceiptAccepted(c, o, r) ==
  LET obj  == objects[o]
      a    == obj.accountId
      done == FinalizedObject(obj, c, r)
  IN  /\ ActiveCoordinator(c)
      /\ MutableObject(o)
      /\ ~Expired(o)
      /\ ValidReceipt(obj, r)
      /\ CopiesMatchStatus(obj, r)
      /\ r.actualCost <= obj.reservedCost
      /\ Releasable(usage[a], obj)
      /\ Fits(usage[a].totalActualCost + r.actualCost)
      /\ Stored(r.finalizationStatus) =>
           usage[a].activeBytes + StoredBytes(done)
             <= policy.maxActiveBytesPerAccount
      /\ o \in activeIndexed => activeCount > 0

FinalizeUpload(c, o, r) ==
  LET obj  == objects[o]
      a    == obj.accountId
      done == FinalizedObject(obj, c, r)
  IN  /\ ReceiptAccepted(c, o, r)
      /\ objects' = [objects EXCEPT ![o] = done]
      /\ receipts' = [receipts EXCEPT ![o] = [payer  |-> r.payer,
                                              copies |-> @.copies + r.copies]]
      /\ RemoveActiveObject(o)
      /\ usage' = [usage EXCEPT ![a] =
                     OutcomeUsage(ChargeUsage(ReleaseUsage(@, obj),
                                              r.actualCost), done)]
      /\ UNCHANGED <<now, requestVars, adminVars, datasetVars>>

FailUpload(c, o, charge) ==
  LET obj  == objects[o]
      a    == obj.accountId
      done == [obj EXCEPT !.status = "Failed", !.coordinator = c,
                          !.actualCost = charge]
  IN  /\ ActiveCoordinator(c)
      /\ MutableObject(o)
      /\ ~Expired(o)
      /\ FailureChargeAllowed(obj.reservedCost, charge)
      /\ Releasable(usage[a], obj)
      /\ Fits(usage[a].totalActualCost + charge)
      /\ objects' = [objects EXCEPT ![o] = done]
      /\ RemoveActiveObject(o)
      /\ usage' = [usage EXCEPT ![a] =
                     OutcomeUsage(ChargeUsage(ReleaseUsage(@, obj), charge),
                                  done)]
      /\ UNCHANGED <<now, receipts, requestVars, adminVars, datasetVars>>

(* What cancelUpload and expireUpload do once they may. *)
CloseUnsettled(o, status) ==
  LET obj == objects[o]
      a   == obj.accountId
  IN  /\ Releasable(usage[a], obj)
      /\ objects' = [objects EXCEPT ![o].status = status]
      /\ RemoveActiveObject(o)
      /\ usage' = [usage EXCEPT ![a] = ReleaseUsage(@, obj)]
      /\ UNCHANGED <<now, receipts, requestVars, adminVars, datasetVars>>

CancelUpload(caller, o) ==
  /\ MutableObject(o)
  /\ \/ caller = owner
     \/ caller \in relayers
     \/ objects[o].user # Zero /\ caller = objects[o].user
  /\ CloseUnsettled(o, "Cancelled")

ExpireUpload(o) ==
  /\ MutableObject(o)
  /\ Expired(o)
  /\ CloseUnsettled(o, "Expired")

-----------------------------------------------------------------------------
(* Administration *)

TransferOwnership(caller, newOwner) ==
  /\ caller = owner
  /\ newOwner # Zero
  /\ owner' = newOwner
  /\ UNCHANGED <<now, uploadVars, policy, coordinatorPolicies, relayers,
                 coordinatorAddresses, relayerAddresses, datasetVars>>

SetPolicy(caller, newPolicy) ==
  /\ caller = owner
  /\ newPolicy.maxObjectSize # 0 /\ newPolicy.maxCopies # 0
  /\ newPolicy.defaultRequestTtl # 0
  /\ policy' = newPolicy
  /\ UNCHANGED <<now, uploadVars, owner, coordinatorPolicies, relayers,
                 coordinatorAddresses, relayerAddresses, datasetVars>>

SetCoordinator(caller, c, coordinatorPolicy) ==
  /\ caller = owner
  /\ c # Zero
  /\ coordinatorPolicies' = [coordinatorPolicies EXCEPT ![c] = coordinatorPolicy]
  /\ coordinatorAddresses' = AddKnown(coordinatorAddresses, c)
  /\ UNCHANGED <<now, uploadVars, owner, policy, relayers, relayerAddresses,
                 datasetVars>>

SetRelayer(caller, relayer, allowed) ==
  /\ caller = owner
  /\ relayer # Zero
  /\ relayers' = IF allowed THEN relayers \cup {relayer}
                            ELSE relayers \ {relayer}
  /\ relayerAddresses' = AddKnown(relayerAddresses, relayer)
  /\ UNCHANGED <<now, uploadVars, owner, policy, coordinatorPolicies,
                 coordinatorAddresses, datasetVars>>

DatasetAccepted(c, d) == ActiveCoordinator(c) /\ d.accountId # Zero

RecordDataset(c, d) ==
  /\ DatasetAccepted(c, d)
  /\ datasets' =
       [datasets EXCEPT ![d.accountId][d.dataset] =
          [payer |-> d.payer, updatedAt |-> now,
           createdAt |-> IF d.createdAt = 0 THEN now ELSE d.createdAt]]
  /\ datasetKeys' = AddKnown(datasetKeys, <<d.accountId, d.dataset>>)
  /\ UNCHANGED <<now, uploadVars, adminVars>>

(* A later block; several transactions may share a timestamp. *)
Tick ==
  /\ now < MaxTime
  /\ now' = now + 1
  /\ UNCHANGED <<uploadVars, adminVars, datasetVars>>

(* The calls of the owner, and the datasets coordinators record. *)
Administration ==
  \E caller \in Address :
    \/ \E newOwner \in NewOwners : TransferOwnership(caller, newOwner)
    \/ \E newPolicy \in Policies : SetPolicy(caller, newPolicy)
    \/ \E c \in CoordinatorInputs, cp \in CoordinatorPolicies :
         SetCoordinator(caller, c, cp)
    \/ \E r \in RelayerInputs, allowed \in BOOLEAN :
         SetRelayer(caller, r, allowed)
    \/ \E d \in DatasetInputs : RecordDataset(caller, d)

Next ==
  \/ Tick
  \/ \E caller \in Address, p \in Requests, signer \in Address \cup {Zero} :
       RequestUpload(caller, p, signer)
  \/ \E o \in ObjectId :
       \/ \E c \in Address : StartUpload(c, o)
       \/ \E c \in Address, r \in Receipts : FinalizeUpload(c, o, r)
       \/ \E c \in Address, charge \in FailureCharges : FailUpload(c, o, charge)
       \/ \E caller \in Address : CancelUpload(caller, o)
       \/ ExpireUpload(o)
  \/ Administration

Spec == Init /\ [][Next]_vars

-----------------------------------------------------------------------------
(* Correctness *)

TypeOK ==
  /\ now \in Nat
  /\ owner \in Address
  /\ policy \in PolicyConfig
  /\ nextObjectId \in 1..(MaxObjects + 1)
  /\ objects \in [ObjectId -> StorageObject]
  /\ receipts \in [ObjectId -> [payer : Address \cup {Zero}, copies : Nat]]
  /\ usage \in [Account -> AccountUsage]
  /\ objectByIdempotencyKey \in [Account -> [IdempotencyKey -> NodeId]]
  /\ coordinatorPolicies \in [Address -> CoordinatorPolicy]
  /\ relayers \subseteq Address
  /\ coordinatorAddresses \in Seq(Address)
  /\ relayerAddresses \in Seq(Address)
  /\ accountIds \in Seq(Account)
  /\ datasets \in [Account -> [Dataset -> [payer : Address \cup {Zero},
                                           createdAt : Nat, updatedAt : Nat]]]
  /\ datasetKeys \in Seq(Account \X Dataset)
  /\ activeIndexed \subseteq ObjectId
  /\ activeCount \in Nat
  /\ activeList \in ListType({GlobalList})
  /\ accountActiveList \in ListType(Account)
  /\ accountObjectList \in [heads : [Account -> NodeId],
                            next  : [ObjectId -> NodeId]]

\* The registry's state as the abstract ledger sees it.
Phase(status) ==
  CASE status = "None"  -> "absent"
    [] Live(status)     -> "open"
    [] Stored(status)   -> "stored"
    [] status = "Failed" -> "failed"
    [] OTHER            -> "released"

BookEntry(obj) ==
  [phase |-> Phase(obj.status), account |-> obj.accountId,
   key |-> obj.idempotencyKey, deadline |-> obj.requestExpiresAt,
   bytes |-> RequestedBytes(obj), cost |-> obj.reservedCost,
   stored |-> StoredBytes(obj), charge |-> obj.actualCost]

Book == [o \in ObjectId |-> BookEntry(objects[o])]

PublishedTotals ==
  [a \in Account |->
    [pendingBytes |-> usage[a].pendingBytes,
     reservedCost |-> usage[a].reservedCost,
     activeBytes  |-> usage[a].activeBytes,
     actualCost   |-> usage[a].totalActualCost,
     requested    |-> usage[a].totalRequestedUploads,
     finalized    |-> usage[a].totalFinalizedUploads,
     failed       |-> usage[a].totalFailedUploads]]

Ledger == INSTANCE UploadLedger WITH
            UploadId <- ObjectId, book <- Book, totals <- PublishedTotals

\* getAccountUsage never drifts: after any sequence of requests, receipts,
\* failures, cancellations and expiries, each counter of each account is the
\* sum over that account's uploads.
LedgerMatchesUploads ==
  /\ PublishedTotals = Ledger!TotalsOf(Book)
  /\ \A a \in Account :
       /\ usage[a].totalUploadedBytes = usage[a].activeBytes
       /\ usage[a].activeObjects = usage[a].totalFinalizedUploads

\* Closing an upload never reverts on a counter: what a live upload reserved
\* is still in its account's pendingBytes and reservedCost, so expireUpload
\* and cancelUpload cannot be blocked by an underflow.
LiveUploadsReleasable ==
  \A o \in ObjectId :
    Live(objects[o].status) => Releasable(usage[objects[o].accountId], objects[o])

\* An idempotency key stands for one upload for ever: objectByIdempotencyKey
\* names exactly the upload that was requested with it, whatever became of
\* that upload.
IdempotencyKeyNamesOneUpload ==
  /\ \A a \in Account, k \in IdempotencyKey :
       LET o == objectByIdempotencyKey[a][k]
       IN  o # 0 => /\ o < nextObjectId
                    /\ objects[o].accountId = a
                    /\ objects[o].idempotencyKey = k
  /\ \A o \in ObjectId : o < nextObjectId =>
       objectByIdempotencyKey[objects[o].accountId][objects[o].idempotencyKey] = o

\* What an upload shows agrees with how it ended: full copies if Committed,
\* some but not all if Partial, none otherwise; it is charged at most its
\* reservation and not at all when it was closed unsettled; copy receipts and
\* a payer were recorded once, and only by a receipt.
OutcomeConsistent ==
  \A o \in ObjectId :
    LET obj == objects[o]
    IN  /\ CASE obj.status = "Committed" -> obj.completedCopies = obj.requestedCopies
             [] obj.status = "Partial"   -> /\ 0 < obj.completedCopies
                                            /\ obj.completedCopies < obj.requestedCopies
             [] OTHER                    -> obj.completedCopies = 0
        /\ obj.actualCost <= obj.reservedCost
        /\ ~Stored(obj.status) /\ obj.status # "Failed" => obj.actualCost = 0
        /\ receipts[o].copies = obj.completedCopies
        /\ Stored(obj.status) => receipts[o].payer # Zero
        /\ receipts[o].payer # Zero => Stored(obj.status) \/ obj.status = "Failed"
        /\ obj.coordinator = Zero =>
             obj.status \in {"None", "Requested", "Cancelled", "Expired"}

\* The active indexes list exactly the live uploads, globally and per
\* account, newest first, and a cursor that names a removed upload still
\* leads to every older live one.
LiveIds      == {o \in ObjectId : Live(objects[o].status)}
IssuedIds    == {o \in ObjectId : o < nextObjectId}
IssuedTo(a)  == {o \in IssuedIds : objects[o].accountId = a}

\* Ids are issued in order; one not yet issued has no trace anywhere.
IssuedInOrder ==
  \A o \in ObjectId :
    IF o < nextObjectId
    THEN /\ objects[o].status # "None"
         /\ objects[o].accountId \in Account
         /\ objects[o].idempotencyKey \in IdempotencyKey
    ELSE /\ objects[o] = NoObject
         /\ activeList.prev[o] = 0
         /\ accountActiveList.prev[o] = 0

IndexMatchesStatus ==
  /\ IssuedInOrder
  /\ activeIndexed = LiveIds
  /\ activeCount = Cardinality(LiveIds)
  /\ WellLinked(activeList, GlobalList, LiveIds, IssuedIds)
  /\ \A a \in Account :
       WellLinked(accountActiveList, a, LiveIds \cap IssuedTo(a), IssuedTo(a))

\* A list enumerates a set without repetition, so that offset paging over it
\* meets each element once.
Enumerates(list, S) ==
  /\ Range(list) = S
  /\ \A i, j \in DOMAIN list : list[i] = list[j] => i = j

\* The enumeration lists are exact: accounts that ever requested an upload,
\* datasets that were ever recorded; every coordinator or relayer in force is
\* listed, and none of them twice.
EnumerationsExact ==
  /\ Enumerates(accountIds, {a \in Account : IssuedTo(a) # {}})
  /\ Enumerates(datasetKeys, {k \in Account \X Dataset :
                                datasets[k[1]][k[2]].updatedAt # 0})
  /\ Enumerates(coordinatorAddresses, Range(coordinatorAddresses))
  /\ Enumerates(relayerAddresses, Range(relayerAddresses))
  /\ {c \in Address : coordinatorPolicies[c].allowed}
       \subseteq Range(coordinatorAddresses)
  /\ relayers \subseteq Range(relayerAddresses)

\* The bytes an account holds or has in flight grow only up to the cap in
\* force at that step; in particular settling an upload never takes more room
\* than its request was granted, so a cap that is not lowered is never passed.
BytesGrowOnlyWithinCap ==
  [][\A a \in Account :
       LET held == usage[a].activeBytes + usage[a].pendingBytes
       IN  held' > held => held' <= policy.maxActiveBytesPerAccount]_vars

\* The contract implements the abstract ledger: ids are claimed once, closed
\* once, settled only before their deadline and within their reservation.
ImplementsUploadLedger == Ledger!Spec
=============================================================================
