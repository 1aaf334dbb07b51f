------------------------------ MODULE ReadModel ------------------------------
(***************************************************************************)
(* src/registry/read-model.mjs: the projection of the registry's events    *)
(* onto a read model, a pure function of the events it is given.           *)
(*                                                                         *)
(* A JavaScript object used as a map is a function on the keys present;    *)
(* an object row has the fields that were set.  Hashes, timestamps and the *)
(* last... fields are left out; receiptHash is whether one was recorded.   *)
(***************************************************************************)
EXTENDS Integers, Sequences, FiniteSets

EmptyMap == <<>>
Put(f, key, value) ==
  [k \in DOMAIN f \cup {key} |-> IF k = key THEN value ELSE f[k]]
Lookup(f, key, default) == IF key \in DOMAIN f THEN f[key] ELSE default

CreateRegistryReadModel ==
  [objects |-> EmptyMap, usage |-> EmptyMap, copyReceipts |-> EmptyMap,
   receiptPayers |-> EmptyMap, datasets |-> EmptyMap,
   coordinators |-> EmptyMap, relayers |-> EmptyMap, idempotency |-> EmptyMap]

NewUsage ==
  [activeBytes |-> 0, activeObjects |-> 0, pendingBytes |-> 0,
   reservedCost |-> 0, totalActualCost |-> 0, totalUploadedBytes |-> 0,
   totalRequestedUploads |-> 0, totalFinalizedUploads |-> 0,
   totalFailedUploads |-> 0]

EnsureUsage(m, a) == Lookup(m.usage, a, NewUsage)
WithUsage(m, a, u) == [m EXCEPT !.usage = Put(@, a, u)]

(* Object.assign(row, patch) *)
Patched(row, patch) ==
  [f \in DOMAIN row \cup DOMAIN patch |->
     IF f \in DOMAIN patch THEN patch[f] ELSE row[f]]

PatchObject(m, o, patch) ==
  [m EXCEPT !.objects = Put(@, o, Patched(Lookup(@, o, EmptyMap), patch))]

SubtractClamped(current, value) ==
  IF current < value THEN 0 ELSE current - value

-----------------------------------------------------------------------------
(* One operator per event that has an effect *)

ApplyUsageReserved(m, e) ==
  WithUsage(m, e.accountId,
    [EnsureUsage(m, e.accountId) EXCEPT !.reservedCost = @ + e.reservedCost])

RequestFields ==
  {"accountId", "user", "idempotencyKey", "size", "requestedCopies", "maxCost",
   "requestExpiresAt"}

ApplyUploadRequested(m, e) ==
  LET row == [accountId |-> e.accountId, user |-> e.user,
              idempotencyKey |-> e.idempotencyKey, size |-> e.size,
              requestedCopies |-> e.requestedCopies, maxCost |-> e.maxCost,
              requestExpiresAt |-> e.requestExpiresAt,
              reservedCost |-> e.maxCost, status |-> "Requested"]
      placed == [m EXCEPT
                   !.objects = Put(@, e.objectId, row),
                   !.idempotency = Put(@, <<e.accountId, e.idempotencyKey>>,
                                       e.objectId)]
  IN  WithUsage(placed, e.accountId,
        [EnsureUsage(m, e.accountId) EXCEPT
           !.pendingBytes = @ + e.size * e.requestedCopies,
           !.totalRequestedUploads = @ + 1])

ApplyCopyRecorded(m, e) ==
  [m EXCEPT !.copyReceipts =
     Put(@, e.objectId, Append(Lookup(@, e.objectId, <<>>), e.dataset))]

ApplyReceiptPayerRecorded(m, e) ==
  PatchObject([m EXCEPT !.receiptPayers = Put(@, e.objectId, e.payer)],
              e.objectId, [receiptPayer |-> e.payer])

(* A plausible bug: the cost released is the refund, not the reservation. *)
ApplyUsageReleased_refund_only(m, e) ==
  LET obj == Lookup(m.objects, e.objectId, EmptyMap)
  IN  WithUsage(m, e.accountId,
        [EnsureUsage(m, e.accountId) EXCEPT
           !.reservedCost = SubtractClamped(@, e.releasedCost),
           !.pendingBytes = IF "size" \in DOMAIN obj
             THEN SubtractClamped(@, obj.size * obj.requestedCopies) ELSE @])

(* A plausible bug: an unknown upload is taken to release its whole account. *)
ApplyUsageReleased_unknown_clears(m, e) ==
  LET obj == Lookup(m.objects, e.objectId, EmptyMap)
  IN  WithUsage(m, e.accountId,
        [EnsureUsage(m, e.accountId) EXCEPT
           !.reservedCost =
             SubtractClamped(@, Lookup(obj, "reservedCost", e.releasedCost)),
           !.pendingBytes = IF "size" \in DOMAIN obj
             THEN SubtractClamped(@, obj.size * obj.requestedCopies) ELSE 0])

(* The shape of the request is known only if its event was seen. *)
ApplyUsageReleased(m, e) ==
  LET obj == Lookup(m.objects, e.objectId, EmptyMap)
  IN  WithUsage(m, e.accountId,
        [EnsureUsage(m, e.accountId) EXCEPT
           !.reservedCost =
             SubtractClamped(@, Lookup(obj, "reservedCost", e.releasedCost)),
           !.pendingBytes = IF "size" \in DOMAIN obj
             THEN SubtractClamped(@, obj.size * obj.requestedCopies) ELSE @])

ApplyUsageFinalized(m, e) ==
  LET delta   == e.activeBytesDelta
      charged == [EnsureUsage(m, e.accountId) EXCEPT
                    !.totalActualCost = @ + e.actualCost]
  IN  WithUsage(m, e.accountId,
        IF delta > 0 THEN [charged EXCEPT !.activeBytes = @ + delta,
                                          !.activeObjects = @ + 1,
                                          !.totalUploadedBytes = @ + delta]
                     ELSE charged)

ApplyUploadFinalized(m, e) ==
  LET u == EnsureUsage(m, e.accountId)
  IN  WithUsage(PatchObject(m, e.objectId,
                  [status |-> e.finalizationStatus,
                   completedCopies |-> e.completedCopies,
                   actualCost |-> e.actualCost, receiptHash |-> TRUE]),
                e.accountId,
                IF e.finalizationStatus = "Failed"
                THEN [u EXCEPT !.totalFailedUploads = @ + 1]
                ELSE [u EXCEPT !.totalFinalizedUploads = @ + 1])

ApplyUploadFailed(m, e) ==
  WithUsage(PatchObject(m, e.objectId, [status |-> "Failed",
                                        actualCost |-> e.chargedCost]),
            e.accountId,
            [EnsureUsage(m, e.accountId) EXCEPT
               !.totalActualCost = @ + e.chargedCost,
               !.totalFailedUploads = @ + 1])

ApplyRegistryEvent(m, e) ==
  CASE e.name = "UsageReserved"        -> ApplyUsageReserved(m, e)
    [] e.name = "UploadRequested"      -> ApplyUploadRequested(m, e)
    [] e.name = "UploadStarted"        ->
         PatchObject(m, e.objectId, [status |-> "Uploading",
                                     coordinator |-> e.coordinator])
    [] e.name = "CopyRecorded"         -> ApplyCopyRecorded(m, e)
    [] e.name = "ReceiptPayerRecorded" -> ApplyReceiptPayerRecorded(m, e)
    [] e.name = "UsageReleased"        -> ApplyUsageReleased(m, e)
    [] e.name = "UsageFinalized"       -> ApplyUsageFinalized(m, e)
    [] e.name = "UploadFinalized"      -> ApplyUploadFinalized(m, e)
    [] e.name = "UploadFailed"         -> ApplyUploadFailed(m, e)
    [] e.name = "UploadCancelled"      ->
         PatchObject(m, e.objectId, [status |-> "Cancelled"])
    [] e.name = "UploadExpired"        ->
         PatchObject(m, e.objectId, [status |-> "Expired"])
    [] e.name = "CoordinatorUpdated"   ->
         [m EXCEPT !.coordinators = Put(@, e.coordinator, e.policy)]
    [] e.name = "RelayerUpdated"       ->
         [m EXCEPT !.relayers = Put(@, e.relayer, e.allowed)]
    [] e.name = "DatasetRecorded"      ->
         [m EXCEPT !.datasets = Put(@, e.key, [payer |-> e.payer])]
    [] OTHER                           -> m

-----------------------------------------------------------------------------
(* A decoded log is [event, position]; position 0: no block number or no   *)
(* log index.                                                              *)

HasLogPosition(log) == log.position # 0

CompareLogPosition(left, right) == left.position < right.position

(* The sort is stable: at the same position, the order of the batch. *)
ComesBefore(batch, i, j) ==
  \/ CompareLogPosition(batch[i], batch[j])
  \/ ~CompareLogPosition(batch[j], batch[i]) /\ i < j

Sorted(batch) ==
  LET placed == {[log |-> batch[j],
                  place |-> 1 + Cardinality({i \in DOMAIN batch : ComesBefore(batch, i, j)})]
                  : j \in DOMAIN batch}
  IN  [n \in DOMAIN batch |-> (CHOOSE p \in placed : p.place = n).log]

(* A plausible bug: the logs are sorted although some have no position. *)
OrderedRegistryEvents_always_sorted(batch) == Sorted(batch)

OrderedRegistryEvents(batch) ==
  IF \A i \in DOMAIN batch : HasLogPosition(batch[i]) THEN Sorted(batch) ELSE batch

ApplyInTurn(events, m) ==
  LET applied[i \in 0..Len(events)] ==
        IF i = 0 THEN m ELSE ApplyRegistryEvent(applied[i - 1], events[i])
  IN  applied[Len(events)]

ApplyRegistryEvents(batch, m) ==
  LET ordered == OrderedRegistryEvents(batch)
  IN  ApplyInTurn([i \in DOMAIN ordered |-> ordered[i].event], m)
=============================================================================
