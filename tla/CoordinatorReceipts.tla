------------------------- MODULE CoordinatorReceipts -------------------------
(***************************************************************************)
(* src/coordinator/receipts.mjs: how the coordinator turns FOC's answer to *)
(* an upload into the receipt it settles the upload with, beside the       *)
(* registry that has to accept it.  HostedCoordinator leaves the content   *)
(* of receipts open; here they are compared, in every state the registry   *)
(* can be in, with what finalizeUpload requires.                           *)
(*                                                                         *)
(* An answer of FOC: the outcome it names (Unsaid if it names none, Other  *)
(* for a word that is no outcome), the copies it lists, the number of      *)
(* copies it claims (Unsaid: the listed ones), the cost, the payer, and    *)
(* whether it identifies the piece.  The payer, which the configuration or *)
(* the session may name as well, is any address, the zero address, or no   *)
(* address at all (Other).  A receipt always has a hash, FOC's or a        *)
(* derived one.                                                            *)
(***************************************************************************)
EXTENDS FocPlatformRegistry

CONSTANTS Unsaid, Other

ASSUME UnsaidAssumption ==
  Unsaid \notin FinalizationStatus /\ Other \notin Address \cup {Zero}

NoReceipt == [error |-> TRUE]

(* The answers FOC may give for an object, around its terms.               *)
SynapseResults(obj) ==
  [finalizationStatus : FinalizationStatus \cup {Unsaid, Other},
   copies : 0..obj.requestedCopies + 1,
   completedCopies : (0..obj.requestedCopies + 1) \cup {Unsaid},
   actualCost : 0..obj.maxCost + 1, payer : Address \cup {Zero, Other},
   hasPieceCid : BOOLEAN]

-----------------------------------------------------------------------------
(* Plausible bugs, used to show that the properties notice them. *)

\* a partial receipt may complete all copies
StatusFitsCopies_partial_of_all(status, completed, requested) ==
  CASE status = "Committed" -> completed = requested
    [] status = "Partial"   -> completed # 0 /\ completed <= requested
    [] status = "Failed"    -> completed = 0

\* an answer that names no outcome is taken to be complete
ResolveFinalizationStatus_committed(result, completed, requested) ==
  IF result.finalizationStatus # Unsaid THEN result.finalizationStatus
                                        ELSE "Committed"

-----------------------------------------------------------------------------
CompletedCopies(result) ==
  IF result.completedCopies = Unsaid THEN result.copies ELSE result.completedCopies

(* resolveFinalizationStatus *)
ResolveFinalizationStatus(result, completed, requested) ==
  IF result.finalizationStatus # Unsaid THEN result.finalizationStatus
  ELSE IF completed = 0                 THEN "Failed"
  ELSE IF completed = requested         THEN "Committed"
                                        ELSE "Partial"

(* validateFinalizationStatusForCopies *)
StatusFitsCopies(status, completed, requested) ==
  CASE status = "Committed" -> completed = requested
    [] status = "Partial"   -> completed # 0 /\ completed < requested
    [] status = "Failed"    -> completed = 0

(* mapSynapseResultToUploadReceipt; validateRegistryRequest has made sure  *)
(* that the request agrees with the object it is about.                    *)
MapSynapseResult(result, request) ==
  LET completed == CompletedCopies(result)
      status == ResolveFinalizationStatus(result, completed, request.requestedCopies)
  IN  IF /\ result.payer # Other
         /\ completed = result.copies
         /\ result.actualCost <= request.maxCost
         /\ completed <= request.requestedCopies
         /\ status \in FinalizationStatus
         /\ StatusFitsCopies(status, completed, request.requestedCopies)
         /\ result.hasPieceCid \/ status = "Failed"
      THEN [finalizationStatus |-> status, payer |-> result.payer,
            hasReceiptHash |-> TRUE, size |-> request.size,
            requestedCopies |-> request.requestedCopies,
            completedCopies |-> completed, actualCost |-> result.actualCost,
            copies |-> result.copies]
      ELSE NoReceipt

-----------------------------------------------------------------------------
(* Correctness *)

Settleable(obj, receipt) ==
  ValidReceipt(obj, receipt) /\ CopiesMatchStatus(obj, receipt)

Uploading == {objects[o] : o \in {x \in ObjectId : objects[x].status = "Uploading"}}

\* Whatever FOC answers, the registry settles the upload with the receipt the
\* coordinator makes of it, but for two kinds that it refuses for their terms
\* until the request expires: a receipt that names the zero address as payer,
\* which isAddress admits, and a failed outcome with a cost under a policy
\* without charges for failures.  Nothing else the coordinator lets through is
\* refused, and neither of the two is ever settled.
ReceiptsSettle ==
  \A obj \in Uploading : \A result \in SynapseResults(obj) :
    LET receipt == MapSynapseResult(result, obj)
        chargedFailure ==
          /\ receipt.finalizationStatus = "Failed" /\ receipt.actualCost > 0
          /\ ~policy.allowFailureCharges
    IN  receipt # NoReceipt =>
          (Settleable(obj, receipt) <=> receipt.payer # Zero /\ ~chargedFailure)

\* The coordinator gives an answer of FOC up, and records a failure for bytes
\* that may be stored, only if no receipt with these copies, this cost and
\* the outcome FOC names could settle the upload, or FOC does not tell the
\* piece, names no address as payer or contradicts itself.
RefusalsHopeless ==
  \A obj \in Uploading : \A result \in SynapseResults(obj) :
    /\ MapSynapseResult(result, obj) = NoReceipt
    /\ result.hasPieceCid /\ Other \notin {result.finalizationStatus, result.payer}
    /\ CompletedCopies(result) = result.copies
    => \A status \in FinalizationStatus :
         result.finalizationStatus \in {status, Unsaid} =>
           ~Settleable(obj,
              [finalizationStatus |-> status, payer |-> result.payer,
               hasReceiptHash |-> TRUE, size |-> obj.size,
               requestedCopies |-> obj.requestedCopies,
               completedCopies |-> result.copies,
               actualCost |-> result.actualCost, copies |-> result.copies])

\* FOC's answers become receipts as the contract would have them: no receipt
\* it refuses but the two kinds ReceiptsSettle names, and no refusal of an
\* answer it would settle with.
ReceiptsAgree == ReceiptsSettle /\ RefusalsHopeless
=============================================================================
