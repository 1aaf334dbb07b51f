--------------------------- MODULE DashboardReport ---------------------------
(***************************************************************************)
(* The page-scoped reconciliation of src/worker/calibration-demo.mjs: the  *)
(* dashboard puts one page of objects into an otherwise empty read model,  *)
(* builds the operator's surfaces from it (module Reconciliation), and     *)
(* drops the checks that need what it did not read.  Here in every state   *)
(* of the registry, all reads at one block and no admin request under way; *)
(* the requests of DirectReads show what reads at several blocks do.       *)
(***************************************************************************)
EXTENDS DirectReads

(* A plausible bug: the usage checks, added to the list later, are shown. *)
OmittedCodes_without_usage ==
  {"missing_dataset_record", "uploading_object_missing_coordinator",
   "uploading_object_disallowed_coordinator", "uploading_object_expired_coordinator"}

(* PAGE_SCOPED_RECONCILIATION_OMITTED_CODES *)
OmittedCodes ==
  {"missing_dataset_record", "usage_active_bytes_mismatch",
   "usage_pending_bytes_mismatch", "usage_reserved_cost_mismatch",
   "account_over_quota", "uploading_object_missing_coordinator",
   "uploading_object_disallowed_coordinator", "uploading_object_expired_coordinator"}

(* The model that holds these reads, all made at one block. *)
ModelOf(reads) ==
  LET Keys(kind) == {read[2] : read \in {r \in reads : r[1] = kind}}
  IN  [objects       |-> [o \in Keys("object") |-> GetStorageObject(o)],
       copyReceipts  |-> [o \in Keys("copies") |-> GetCopyReceipts(o)],
       receiptPayers |-> [o \in Keys("payer") |-> receipts[o].payer],
       usage         |-> [a \in Keys("accounts") |-> usage[a]],
       datasets      |-> [k \in Keys("datasets") |->
                            [payer |-> datasets[k[1]][k[2]].payer]],
       coordinators  |-> [c \in Keys("coordinators") |-> coordinatorPolicies[c]],
       relayers      |-> [r \in Keys("relayers") |-> r \in relayers],
       idempotency   |-> Projection!EmptyMap]

ChecksOf(m) == Reconcile!BuildAdminSurfaces(m, <<>>, <<>>, now).checks

(* What the page reads of the objects it lists. *)
PageReads(ids) == UNION {DetailReads("objects", o) : o \in ids}

PageChecks(ids) ==
  {c \in ChecksOf(ModelOf(PageReads(ids))) : c.code \notin OmittedCodes}

(* A plausible bug: a session is shown as over in its last second. *)
SessionStatus_one_early(p) ==
  IF ~p.allowed THEN "disabled"
  ELSE IF p.sessionKeyExpiresAt # 0 /\ now >= p.sessionKeyExpiresAt
       THEN "expired" ELSE "active"

(* coordinatorSessionStatus, the dashboard's own. *)
SessionStatus(p) ==
  IF ~p.allowed THEN "disabled"
  ELSE IF p.sessionKeyExpiresAt # 0 /\ now > p.sessionKeyExpiresAt
       THEN "expired" ELSE "active"

-----------------------------------------------------------------------------
ListReads == UNION {{<<s, x>> : x \in Range(OffsetList(s))} : s \in OffsetSurfaces}

AllReads == PageReads(IssuedIds) \cup ListReads

\* The report of a page is the full report cut down to the page's objects and
\* to the checks it does not declare as omitted: what a page leaves unread
\* raises no check of its own and hides none it claims to make.
PageReportExact ==
  reader = NoRequest =>
  \A cursor \in 0..nextObjectId - 1, limit \in PageLimits :
    LET ids == Range(ListAllStorageObjectIds(cursor, limit).ids)
    IN  PageChecks(ids) = {c \in ChecksOf(ModelOf(AllReads)) :
                             c.about \in ids /\ c.code \notin OmittedCodes}

\* The dashboard shows a session as active exactly as long as the registry
\* accepts the coordinator.
SessionStatusTrue ==
  \A c \in Range(coordinatorAddresses) :
    SessionStatus(coordinatorPolicies[c]) = "active" <=> ActiveCoordinator(c)

\* What the dashboard says of a page is what the whole registry says: the
\* checks of its objects, and which coordinators may still settle them.
DashboardTrue == PageReportExact /\ SessionStatusTrue
=============================================================================
