--------------------------- MODULE EventProjection ---------------------------
(***************************************************************************)
(* An indexer of the registry: the events FocPlatformRegistry.sol emits    *)
(* with each transaction, handed to applyRegistryEvents of ReadModel in    *)
(* batches, and the operator's report of Reconciliation on the result.     *)
(*                                                                         *)
(* The indexer may start late: the events before are lost to it.  A batch  *)
(* is a prefix of the log; when every event has a position the answers of  *)
(* two log queries may be joined in either order, otherwise the caller     *)
(* keeps the order (docs/deployment.md, Projection Boundaries).            *)
(***************************************************************************)
EXTENDS FocPlatformRegistry, ReadModel

CONSTANTS
  CopyDataset,   (* the dataset of a receipt's i-th copy                   *)
  ProviderOf,    (* the provider of a dataset                              *)
  MaxPending     (* bound on the events not yet projected                  *)

Reconcile == INSTANCE Reconciliation

VARIABLES
  pending,       (* events emitted and not yet projected, in log order     *)
  model,         (* the read model                                         *)
  from           (* what the registry listed when the indexer started      *)

indexerVars == <<pending, model, from>>
EPvars      == <<vars, indexerVars>>

NotStarted == [object |-> 0, coordinators |-> 0, relayers |-> 0, datasets |-> 0]

EPInit ==
  /\ Init
  /\ pending = <<>>
  /\ model = CreateRegistryReadModel
  /\ from = NotStarted

Started == from # NotStarted

-----------------------------------------------------------------------------
(* The events of each transaction *)

Emit(events) ==
  /\ Started => Len(pending) + Len(events) <= MaxPending
  /\ pending' = IF Started THEN pending \o events ELSE <<>>
  /\ UNCHANGED <<model, from>>

UsageReleased(o, charge) ==
  [name |-> "UsageReleased", accountId |-> objects[o].accountId, objectId |-> o,
   releasedCost |-> objects[o].reservedCost - charge]

RequestEvents(p) ==
  <<[name |-> "UsageReserved", accountId |-> p.accountId,
     objectId |-> nextObjectId, reservedCost |-> p.maxCost],
    [name |-> "UploadRequested", objectId |-> nextObjectId,
     accountId |-> p.accountId, user |-> p.user,
     idempotencyKey |-> p.idempotencyKey, size |-> p.size,
     requestedCopies |-> p.requestedCopies, maxCost |-> p.maxCost,
     requestExpiresAt |-> p.requestExpiresAt]>>

(* The event carries the expiry the contract settled on. *)
RequestedEvents(p) ==
  RequestEvents([p EXCEPT !.requestExpiresAt = ExpiryOf(p)])

FinalizationEvents(o, r) ==
  LET obj   == objects[o]
      delta == IF Stored(r.finalizationStatus) THEN obj.size * r.completedCopies
                                               ELSE 0
  IN  [i \in 1..r.copies |-> [name |-> "CopyRecorded", objectId |-> o,
                              dataset |-> CopyDataset[i]]]
        \o <<UsageReleased(o, r.actualCost),
             [name |-> "UsageFinalized", accountId |-> obj.accountId,
              objectId |-> o, actualCost |-> r.actualCost,
              activeBytesDelta |-> delta],
             [name |-> "ReceiptPayerRecorded", objectId |-> o, payer |-> r.payer],
             [name |-> "UploadFinalized", objectId |-> o,
              accountId |-> obj.accountId,
              finalizationStatus |-> r.finalizationStatus,
              completedCopies |-> r.completedCopies,
              actualCost |-> r.actualCost]>>

FailureEvents(o, charge) ==
  <<UsageReleased(o, charge),
    [name |-> "UploadFailed", objectId |-> o,
     accountId |-> objects[o].accountId, chargedCost |-> charge]>>

ClosingEvents(o, name) ==
  <<UsageReleased(o, 0), [name |-> name, objectId |-> o]>>

(* What the owner and the coordinators set; a policy or an owner is not    *)
(* projected.                                                              *)
AdministrationEmits ==
  \E caller \in Address :
    \/ \E newOwner \in NewOwners :
         /\ TransferOwnership(caller, newOwner)
         /\ Emit(<<[name |-> "OwnershipTransferred"]>>)
    \/ \E newPolicy \in Policies :
         SetPolicy(caller, newPolicy) /\ Emit(<<[name |-> "PolicyUpdated"]>>)
    \/ \E c \in CoordinatorInputs, cp \in CoordinatorPolicies :
         /\ SetCoordinator(caller, c, cp)
         /\ Emit(<<[name |-> "CoordinatorUpdated", coordinator |-> c,
                    policy |-> cp]>>)
    \/ \E r \in RelayerInputs, allowed \in BOOLEAN :
         /\ SetRelayer(caller, r, allowed)
         /\ Emit(<<[name |-> "RelayerUpdated", relayer |-> r,
                    allowed |-> allowed]>>)
    \/ \E d \in DatasetInputs :
         /\ RecordDataset(caller, d)
         /\ Emit(<<[name |-> "DatasetRecorded", payer |-> d.payer,
                    key |-> <<d.accountId, d.dataset>>]>>)

UploadEmits ==
  \/ \E caller \in Address, p \in Requests, signer \in Address \cup {Zero} :
       RequestUpload(caller, p, signer) /\ Emit(RequestedEvents(p))
  \/ \E o \in ObjectId :
       \/ \E c \in Address :
            /\ StartUpload(c, o)
            /\ Emit(<<[name |-> "UploadStarted", objectId |-> o,
                       coordinator |-> c]>>)
       \/ \E c \in Address, r \in Receipts :
            FinalizeUpload(c, o, r) /\ Emit(FinalizationEvents(o, r))
       \/ \E c \in Address, charge \in FailureCharges :
            FailUpload(c, o, charge) /\ Emit(FailureEvents(o, charge))
       \/ \E caller \in Address :
            CancelUpload(caller, o) /\ Emit(ClosingEvents(o, "UploadCancelled"))
       \/ ExpireUpload(o) /\ Emit(ClosingEvents(o, "UploadExpired"))

-----------------------------------------------------------------------------
(* The indexer *)

StartIndexing ==
  /\ ~Started
  /\ from' = [object |-> nextObjectId,
              coordinators |-> Len(coordinatorAddresses),
              relayers |-> Len(relayerAddresses), datasets |-> Len(datasetKeys)]
  /\ UNCHANGED <<vars, pending, model>>

Log(events, position) == [event |-> events, position |-> position]

(* The first n pending events, with their positions, the part after split  *)
(* first.                                                                  *)
PositionedBatch(n, split) ==
  LET log == [i \in 1..n |-> Log(pending[i], i)]
  IN  SubSeq(log, split + 1, n) \o SubSeq(log, 1, split)

(* In order, the last one without its position. *)
BareBatch(n) ==
  [i \in 1..n |-> Log(pending[i], IF i = n THEN 0 ELSE i)]

Index(n, batch) ==
  /\ model' = ApplyRegistryEvents(batch, model)
  /\ pending' = SubSeq(pending, n + 1, Len(pending))
  /\ UNCHANGED <<vars, from>>

IndexEvents ==
  \E n \in 1..Len(pending) :
    \/ \E split \in 0..(n - 1) : Index(n, PositionedBatch(n, split))
    \/ Index(n, BareBatch(n))

EPNext ==
  \/ Tick /\ UNCHANGED indexerVars
  \/ AdministrationEmits
  \/ UploadEmits
  \/ StartIndexing
  \/ IndexEvents

EPSpec == EPInit /\ [][EPNext]_EPvars

-----------------------------------------------------------------------------
(* Correctness *)

CaughtUp == Started /\ pending = <<>>

Seen(o) == from.object <= o /\ o < nextObjectId

\* The registry's own row of an object, with the fields a projection has.
RegistryRow(o) ==
  Patched(objects[o], [receiptHash  |-> receipts[o].payer # Zero,
                       receiptPayer |-> receipts[o].payer])

\* A field that no event of the object sets stands for zero.
ProjectedRow(o) ==
  Patched([completedCopies |-> 0, actualCost |-> 0, receiptHash |-> FALSE,
           receiptPayer |-> Zero], model.objects[o])

RowAgrees(o) ==
  \A f \in RequestFields \cup {"reservedCost", "status", "completedCopies",
                               "actualCost", "receiptHash", "receiptPayer"} :
    ProjectedRow(o)[f] = RegistryRow(o)[f]

\* Once every event is projected, in whatever batches and orders it came, the
\* read model shows what the registry holds: of each upload requested since
\* the indexer started its row, payer, copies and key, and of every
\* coordinator, relayer and dataset set since then its current value.
ProjectionExact ==
  CaughtUp =>
    /\ \A o \in ObjectId : Seen(o) =>
         /\ o \in DOMAIN model.objects /\ RowAgrees(o)
         /\ Len(Lookup(model.copyReceipts, o, <<>>)) = receipts[o].copies
         /\ Lookup(model.receiptPayers, o, Zero) = receipts[o].payer
         /\ model.idempotency[<<objects[o].accountId,
                                objects[o].idempotencyKey>>] = o
    /\ \A c \in DOMAIN model.coordinators :
         model.coordinators[c] = coordinatorPolicies[c]
    /\ \A r \in DOMAIN model.relayers : model.relayers[r] = (r \in relayers)
    /\ \A k \in DOMAIN model.datasets :
         model.datasets[k].payer = datasets[k[1]][k[2]].payer
    /\ \A i \in DOMAIN coordinatorAddresses : i > from.coordinators =>
         coordinatorAddresses[i] \in DOMAIN model.coordinators
    /\ \A i \in DOMAIN relayerAddresses : i > from.relayers =>
         relayerAddresses[i] \in DOMAIN model.relayers
    /\ \A i \in DOMAIN datasetKeys : i > from.datasets =>
         datasetKeys[i] \in DOMAIN model.datasets

\* A projection of the whole history has every counter of getAccountUsage.
CountersReconstructed ==
  CaughtUp /\ from.object = 1 =>
    \A a \in Account : Lookup(model.usage, a, NewUsage) = usage[a]

SeenLive(a) ==
  {o \in ObjectId : Seen(o) /\ objects[o].accountId = a /\ Live(objects[o].status)}

\* A projection that starts late has exactly the bytes in flight of the
\* uploads it has seen requested, and never reports more cost reserved than
\* they reserve: what it has not seen can only lower it, down to zero.
PartialHistoryBounded ==
  CaughtUp => \A a \in Account :
    LET u == Lookup(model.usage, a, NewUsage)
    IN  /\ u.pendingBytes
             = Total([o \in SeenLive(a) |-> RequestedBytes(objects[o])])
        /\ u.reservedCost
             <= Total([o \in SeenLive(a) |-> objects[o].reservedCost])

\* The counters are as good as the history that was folded: exact if it is
\* whole, and bounded by what was seen if it is not.
CountersTrue == CountersReconstructed /\ PartialHistoryBounded

\* The operator's report on a complete projection raises no error about an
\* object or an account: the counters, copies, payer and hash that the
\* contract keeps are the ones the checks expect.
Report == Reconcile!BuildAdminSurfaces(model, EmptyMap, EmptyMap, now)

ProjectionReconciles ==
  CaughtUp /\ from.object = 1 =>
    \A e \in Reconcile!Errors(Report) :
      e.code \in {"uploading_object_disallowed_coordinator",
                  "uploading_object_expired_coordinator"}

\* The report agrees with the contract on who may still settle an upload: it
\* raises an error about the coordinator of an uploading object exactly when
\* the contract would refuse that coordinator.
CoordinatorAlarmsExact ==
  CaughtUp /\ from = [object |-> 1, coordinators |-> 0, relayers |-> 0,
                      datasets |-> 0] =>
    \A o \in ObjectId : objects[o].status = "Uploading" =>
      (Reconcile!ChecksAbout(Reconcile!Errors(Report), o) = {}
         <=> ActiveCoordinator(objects[o].coordinator))
=============================================================================
