---------------------------- MODULE Reconciliation ----------------------------
(***************************************************************************)
(* src/admin/reconciliation.mjs: the operator's surfaces and the checks of *)
(* a read model, a pure function of the model, of the time and of what the *)
(* caller supplies as evidence and quotas (maps by object and by account). *)
(*                                                                         *)
(* Lists whose order is presentation are sets; a check names the object or *)
(* the account it is about, and copy tells the copies of one object apart. *)
(***************************************************************************)
EXTENDS Integers, Sequences, FiniteSets, Functions, Totals

CONSTANTS Zero,        (* the zero address, and an absent field             *)
          ProviderOf   (* the provider of each <<provider, dataset>> pair   *)

StoredStatuses  == {"Committed", "Partial"}
PendingStatuses == {"Requested", "Uploading"}

(* r.f ?? default *)
FieldOf(r, f, default) == IF f \in DOMAIN r THEN r[f] ELSE default

-----------------------------------------------------------------------------
(* Rows *)

NormalizeObject(obj) ==
  [accountId       |-> FieldOf(obj, "accountId", Zero),
   status          |-> FieldOf(obj, "status", "Unknown"),
   size            |-> FieldOf(obj, "size", 0),
   requestedCopies |-> FieldOf(obj, "requestedCopies", 0),
   completedCopies |-> FieldOf(obj, "completedCopies", 0),
   reservedCost    |-> FieldOf(obj, "reservedCost", FieldOf(obj, "maxCost", 0)),
   coordinator     |-> FieldOf(obj, "coordinator", Zero),
   receiptHash     |-> FieldOf(obj, "receiptHash", FALSE)]

ActiveBytes(obj) ==
  IF obj.status \in StoredStatuses THEN obj.size * obj.completedCopies ELSE 0

RequestedBytes(obj) == obj.size * obj.requestedCopies

ExpectedCopies(obj) ==
  CASE obj.status = "Partial" -> obj.completedCopies
    [] obj.status = "Failed"  -> 0
    [] OTHER                  -> obj.requestedCopies

BuildObjectDetail(model, evidence, o) ==
  LET obj    == NormalizeObject(model.objects[o])
      copies == FieldOf(model.copyReceipts, o, <<>>)
  IN  [object |-> obj,
       copyReceipts |-> copies,
       receiptPayer |-> FieldOf(model.receiptPayers, o,
                          FieldOf(model.objects[o], "receiptPayer", Zero)),
       expectedCopies |-> ExpectedCopies(obj),
       datasetKeys |-> [i \in DOMAIN copies |-> <<obj.accountId, copies[i]>>],
       recorded |-> [i \in DOMAIN copies |->
                       <<obj.accountId, copies[i]>> \in DOMAIN model.datasets],
       focEvidence |-> FieldOf(evidence, o, Zero)]

BuildObjectDetails(model, evidence) ==
  [o \in DOMAIN model.objects |-> BuildObjectDetail(model, evidence, o)]

(* A plausible bug: only uploads that have started count as pending. *)
Pending_uploading_only(obj) == obj.status = "Uploading"

Pending(obj) == obj.status \in PendingStatuses

UsageRow(model, details, a) ==
  LET mine    == {o \in DOMAIN details : details[o].object.accountId = a}
      pending == {o \in mine : Pending(details[o].object)}
      u       == FieldOf(model.usage, a, <<>>)
  IN  [activeBytes  |-> FieldOf(u, "activeBytes", 0),
       pendingBytes |-> FieldOf(u, "pendingBytes", 0),
       reservedCost |-> FieldOf(u, "reservedCost", 0),
       projectedActiveBytes |-> Total([o \in mine |-> ActiveBytes(details[o].object)]),
       projectedPendingBytes |-> Total([o \in pending |-> RequestedBytes(details[o].object)]),
       projectedReservedCost |-> Total([o \in pending |-> details[o].object.reservedCost])]

BuildUsageRows(model, details) ==
  [a \in DOMAIN model.usage
           \cup ({details[o].object.accountId : o \in DOMAIN details} \ {Zero})
     |-> UsageRow(model, details, a)]

(* The copies that name a dataset: <<object, index>> pairs. *)
CopiesIn(details, key) ==
  {c \in UNION {{<<o, i>> : i \in DOMAIN details[o].datasetKeys} :
                  o \in DOMAIN details} :
     details[c[1]].datasetKeys[c[2]] = key /\ key[1] # Zero}

BuildDatasetRows(model, details) ==
  LET named == UNION {Range(details[o].datasetKeys) : o \in DOMAIN details}
  IN  [key \in DOMAIN model.datasets \cup {k \in named : k[1] # Zero} |->
         [copyCount |-> Cardinality(CopiesIn(details, key)),
          objectIds |-> {c[1] : c \in CopiesIn(details, key)},
          missingDatasetRecord |-> key \notin DOMAIN model.datasets]]

BuildProviderRows(datasetRows, details) ==
  LET KeysOf(p) == {key \in DOMAIN datasetRows : ProviderOf[key[2]] = p}
      ObjectsOf(p) == {o \in DOMAIN details :
                         \E d \in Range(details[o].copyReceipts) : ProviderOf[d] = p}
  IN  [p \in {ProviderOf[key[2]] : key \in DOMAIN datasetRows}
               \cup {p \in Range(ProviderOf) : ObjectsOf(p) # {}} |->
         [datasetKeys |-> KeysOf(p), objectIds |-> ObjectsOf(p),
          accounts |-> {key[1] : key \in KeysOf(p)},
          copyCount |-> Total([key \in KeysOf(p) |-> datasetRows[key].copyCount]),
          missingDatasetRecords |->
            Cardinality({key \in KeysOf(p) : datasetRows[key].missingDatasetRecord})]]

(* A plausible bug: the last second of a session counts as expired. *)
CoordinatorSessionStatus_one_early(row, now) ==
  IF ~row.allowed THEN "disabled"
  ELSE IF row.sessionKeyExpiresAt # 0 /\ now >= row.sessionKeyExpiresAt
       THEN "expired" ELSE "active"

CoordinatorSessionStatus(row, now) ==
  IF ~row.allowed THEN "disabled"
  ELSE IF row.sessionKeyExpiresAt # 0 /\ now > row.sessionKeyExpiresAt
       THEN "expired" ELSE "active"

(* A coordinator that only an object names has no policy: not allowed. *)
BuildCoordinatorRows(model, details, now) ==
  LET Served(c) == {o \in DOMAIN details : details[o].object.coordinator = c}
      PolicyOf(c) == FieldOf(model.coordinators, c,
                             [allowed |-> FALSE, sessionKeyExpiresAt |-> 0])
  IN  [c \in DOMAIN model.coordinators
               \cup ({details[o].object.coordinator : o \in DOMAIN details} \ {Zero})
         |-> [allowed |-> PolicyOf(c).allowed,
              missingPolicy |-> c \notin DOMAIN model.coordinators,
              sessionStatus |-> CoordinatorSessionStatus(PolicyOf(c), now),
              objectCount |-> Cardinality(Served(c)),
              activeObjectIds |-> {o \in Served(c) :
                details[o].object.status \in PendingStatuses}]]

-----------------------------------------------------------------------------
(* Checks *)

Check(severity, code, o) ==
  [severity |-> severity, code |-> code, about |-> o, copy |-> 0]
CheckIf(condition, severity, code, about) ==
  IF condition THEN {Check(severity, code, about)} ELSE {}

FocEvidenceChecks(detail, o) ==
  LET evidence == detail.focEvidence
  IN  IF evidence = Zero THEN {Check("info", "foc_evidence_not_checked", o)}
      ELSE IF ~evidence.verified THEN {Check("error", "foc_evidence_failed", o)}
      ELSE CheckIf(evidence.verifiedCopies # Len(detail.copyReceipts),
                   "error", "foc_copy_evidence_mismatch", o)

StoredChecks(detail, o) ==
  CheckIf(Len(detail.copyReceipts) # detail.object.completedCopies,
          "error", "copy_receipt_count_mismatch", o)
    \cup CheckIf(~detail.object.receiptHash, "error", "missing_receipt_hash", o)
    \cup CheckIf(detail.receiptPayer = Zero, "error", "missing_receipt_payer", o)
    \cup FocEvidenceChecks(detail, o)

ObjectChecks(detail, o) ==
  {[Check("warning", "missing_dataset_record", o) EXCEPT !.copy = i] :
     i \in {i \in DOMAIN detail.recorded : ~detail.recorded[i]}}
    \cup CheckIf(/\ detail.object.status = "Committed"
                 /\ detail.object.completedCopies # detail.object.requestedCopies,
                 "error", "committed_copy_count_mismatch", o)
    \cup IF detail.object.status \in StoredStatuses THEN StoredChecks(detail, o)
         ELSE CheckIf(/\ detail.object.status \in {"Failed", "Cancelled", "Expired"}
                      /\ Len(detail.copyReceipts) > 0,
                      "warning", "terminal_object_has_copy_receipts", o)

UsageChecks(row, quotas, a) ==
  CheckIf(row.activeBytes # row.projectedActiveBytes,
          "error", "usage_active_bytes_mismatch", a)
    \cup CheckIf(row.pendingBytes # row.projectedPendingBytes,
                 "error", "usage_pending_bytes_mismatch", a)
    \cup CheckIf(row.reservedCost # row.projectedReservedCost,
                 "error", "usage_reserved_cost_mismatch", a)
    \cup CheckIf(a \in DOMAIN quotas /\ row.activeBytes > quotas[a],
                 "warning", "account_over_quota", a)

CoordinatorChecks(detail, coordinatorRows, o) ==
  LET c   == detail.object.coordinator
      row == coordinatorRows[c]
  IN  IF detail.object.status # "Uploading" THEN {}
      ELSE IF c = Zero
           THEN {Check("error", "uploading_object_missing_coordinator", o)}
      ELSE IF ~row.allowed
           THEN {Check("error", "uploading_object_disallowed_coordinator", o)}
      ELSE CheckIf(row.sessionStatus = "expired",
                   "error", "uploading_object_expired_coordinator", o)

StatusForChecks(checks) ==
  IF \E c \in checks : c.severity = "error" THEN "mismatch"
  ELSE IF \E c \in checks : c.severity = "warning" THEN "warning"
  ELSE IF \E c \in checks : c.code = "foc_evidence_not_checked"
       THEN "pending_external_evidence"
  ELSE "matched"

ChecksAbout(checks, x) == {c \in checks : c.about = x}

-----------------------------------------------------------------------------
BuildAdminSurfaces(model, evidence, quotas, now) ==
  LET details      == BuildObjectDetails(model, evidence)
      usageRows    == BuildUsageRows(model, details)
      datasetRows  == BuildDatasetRows(model, details)
      coordinators == BuildCoordinatorRows(model, details, now)
      objectChecks == UNION {ObjectChecks(details[o], o) : o \in DOMAIN details}
      usageChecks  == UNION {UsageChecks(usageRows[a], quotas, a) : a \in DOMAIN usageRows}
      coordinatorChecks ==
        UNION {CoordinatorChecks(details[o], coordinators, o) : o \in DOMAIN details}
      checks == objectChecks \cup usageChecks \cup coordinatorChecks
  IN  [objectDetails |-> details,
       issues |-> [o \in DOMAIN details |-> ChecksAbout(checks, o)],
       usage |-> usageRows, datasets |-> datasetRows,
       providers |-> BuildProviderRows(datasetRows, details),
       coordinators |-> coordinators,
       relayers |-> model.relayers,
       checks |-> checks,
       status |-> StatusForChecks(checks)]

Errors(surfaces) == {c \in surfaces.checks : c.severity = "error"}
=============================================================================
