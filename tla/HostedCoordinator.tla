-------------------------- MODULE HostedCoordinator --------------------------
(***************************************************************************)
(* src/coordinator/local-hosted-coordinator.mjs: the process that takes    *)
(* the bytes of an upload, sends them to FOC and settles the upload in     *)
(* the registry, composed with the registry (every step of the chain is a  *)
(* step of FocPlatformRegistry).                                           *)
(*                                                                         *)
(* executeUpload is an async function: it runs from one await to the next  *)
(* without interference, so an action is one such stretch.  At most one    *)
(* call per idempotency operation is past the check of the store, so calls *)
(* are indexed by the operation key.  A call that meets a running,         *)
(* completed or failed entry answers at once and changes nothing.          *)
(*                                                                         *)
(* The registry adapter and FOC are external.  A transaction the adapter   *)
(* sent may be mined at any later time or never; the adapter reports       *)
(* success only for a mined one, and may report an error for any.  Two     *)
(* identical pending transactions are one: the second to be mined would    *)
(* revert.  The coordinator's clock is the chain's.                        *)
(*                                                                         *)
(* Abstracted: validation of the bytes (a rejected call changes nothing),  *)
(* the metadata, the wording of errors, and the comparison of the request  *)
(* with the registry's (a mismatch acts like a failed read).               *)
(***************************************************************************)
EXTENDS FocPlatformRegistry

CONSTANTS
  Self,             (* the coordinator's address                           *)
  OpKey,            (* idempotency operations: account, object and key     *)
  ObjectOf,         (* the object of each operation                        *)
  ReceiptHash,      (* receiptHash and pieceCidHash of a receipt           *)
  FocReceipts,      (* receipts an answer of FOC can be mapped to          *)
  OtherReceipts,    (* receipts other coordinators finalize with           *)
  SessionExpiresAt, (* expiry of the session key, 0 for none               *)
  MaxCrashes        (* bound on restarts of the process                    *)

HashedReceipt == [hash : ReceiptHash, terms : Receipts]

ASSUME CoordinatorAssumption ==
  /\ Self \in Address
  /\ IsFiniteSet(OpKey) /\ ObjectOf \in [OpKey -> ObjectId]
  /\ Zero \notin ReceiptHash
  /\ FocReceipts \cup OtherReceipts \subseteq HashedReceipt
  /\ Zero \notin HashedReceipt
  /\ 0 \in FailureCharges
  /\ SessionExpiresAt \in Nat /\ MaxCrashes \in Nat

VARIABLES
  store,        (* idempotencyStore                                        *)
  call,         (* per operation, the call that is running, if any         *)
  focCalls,     (* focClient.upload calls of this process, per operation   *)
  sent,         (* transactions handed to the network and not yet mined    *)
  receiptHash,  (* the object fields receiptHash and pieceCidHash          *)
  accepted,     (* how often FOC accepted the bytes of an object           *)
  crashes

processVars == <<store, call, focCalls>>
worldVars   == <<sent, receiptHash, accepted, crashes>>
allVars     == <<vars, processVars, worldVars>>

Entry(state, r) == [state |-> state, receipt |-> r]
Absent          == Entry("absent", Zero)
Running         == Entry("running", Zero)
Failed          == Entry("failed", Zero)
Completed(r)    == Entry("completed", r)

StoreEntry ==
  {Absent, Running, Failed}
    \cup [state : {"completed", "pending_finalize"}, receipt : FocReceipts]

Idle == [at |-> "idle", receipt |-> Zero, mined |-> FALSE]

(* The await at which a call is suspended. *)
Call ==
  {Idle}
    \cup [at : {"read", "start", "recheck", "upload", "fail"},
          receipt : {Zero}, mined : BOOLEAN]
    \cup [at : {"readPending", "finalize", "recover"},
          receipt : FocReceipts, mined : BOOLEAN]

Transaction(op, k, r) == [op |-> op, key |-> k, receipt |-> r]

SentTransaction ==
  [op : {"start", "fail"}, key : OpKey, receipt : {Zero}]
    \cup [op : {"finalize"}, key : OpKey, receipt : FocReceipts]

HCInit ==
  /\ Init
  /\ store = [k \in OpKey |-> Absent]
  /\ call = [k \in OpKey |-> Idle]
  /\ focCalls = [k \in OpKey |-> 0]
  /\ sent = {}
  /\ receiptHash = [o \in ObjectId |-> Zero]
  /\ accepted = [o \in ObjectId |-> 0]
  /\ crashes = 0

-----------------------------------------------------------------------------
(* Checks of the coordinator *)

ObjectStatus(k) == objects[ObjectOf[k]].status

(* assertActiveSessionKey: identities do not change, the expiry bites. *)
SessionActive == SessionExpiresAt = 0 \/ now <= SessionExpiresAt

(* assertUploadRequestNotExpired; an expiry of 0 is none. *)
RequestExpired(k) ==
  LET expiry == objects[ObjectOf[k]].requestExpiresAt
  IN  expiry # 0 /\ now > expiry

(* A plausible bug: the status alone is compared. *)
MatchesReceipt_status_only(k, r) ==
  objects[ObjectOf[k]].status = r.terms.finalizationStatus

(* uploadObjectMatchesReceipt *)
MatchesReceipt(k, r) ==
  LET obj == objects[ObjectOf[k]]
  IN  /\ obj.status = r.terms.finalizationStatus
      /\ receiptHash[ObjectOf[k]] = r.hash
      /\ obj.completedCopies = r.terms.completedCopies
      /\ obj.actualCost = r.terms.actualCost

-----------------------------------------------------------------------------
(* What a stretch of executeUpload ends with *)

Await(k, at, r) ==
  call' = [call EXCEPT ![k] = [at |-> at, receipt |-> r, mined |-> FALSE]]

(* The call is over, with a result or an error; the store keeps entry. *)
Return(k, entry) ==
  /\ store' = [store EXCEPT ![k] = entry]
  /\ call' = [call EXCEPT ![k] = Idle]
  /\ UNCHANGED <<focCalls, sent>>

AwaitRead(k, at, r) ==
  /\ Await(k, at, r)
  /\ UNCHANGED <<store, focCalls, sent>>

(* A transaction is sent and its answer awaited. *)
Send(op, k, r) ==
  /\ sent' = sent \cup {Transaction(op, k, r)}
  /\ Await(k, op, r)
  /\ UNCHANGED <<store, focCalls>>

(* The second expiry check of executePreparedUpload, then the bytes go to  *)
(* FOC.                                                                    *)
SendBytes(k) ==
  IF RequestExpired(k) THEN Return(k, Failed)
  ELSE /\ focCalls' = [focCalls EXCEPT ![k] = @ + 1]
       /\ Await(k, "upload", Zero)
       /\ UNCHANGED <<store, sent>>
-----------------------------------------------------------------------------
(* Plausible bugs, used to show that the properties notice them. *)

\* A failure whose recording failed is reported without an answer.
FailAnswered_unrecorded_hangs(k) ==
  /\ call[k].at = "fail"
  /\ call[k].mined
  /\ Return(k, Failed)

\* An FOC error is treated like an error before FOC: the key is freed.
BytesNotStored_key_freed(k) == Return(k, Absent)

\* The object of the first read is trusted when startUpload was refused.
Rechecked_requested_is_enough(k) == ~Terminal(ObjectStatus(k))

\* The receipt is not attached to the error that ends the call.
PendingFinalize_no_receipt(r) == Entry("pending_finalize", Zero)

\* A session that ends while a receipt is pending frees the key.
SessionEnded_pending_dropped(r) == Absent

-----------------------------------------------------------------------------
(* executeUpload, from one await to the next *)

PendingFinalize(r) == Entry("pending_finalize", r)

(* A CoordinatorConfigError puts a pending entry back. *)
SessionEnded(r) == PendingFinalize(r)

(* An operation without an entry needs an active session; a pending one is *)
(* taken up again.  The entry is set to running before the first await.    *)
ExecuteUpload(k) ==
  /\ \/ /\ store[k] = Absent
        /\ SessionActive
        /\ Await(k, "read", Zero)
     \/ /\ store[k].state = "pending_finalize"
        /\ Await(k, "readPending", store[k].receipt)
  /\ store' = [store EXCEPT ![k] = Running]
  /\ UNCHANGED <<focCalls, sent>>

(* executePreparedUpload: the object is read, the call goes on with it.    *)
ObjectRead(k) ==
  /\ call[k].at = "read"
  /\ \/ Return(k, Absent)              (* failed read, mismatched request  *)
     \/ IF Terminal(ObjectStatus(k)) \/ RequestExpired(k) THEN Return(k, Failed)
        ELSE IF ObjectStatus(k) = "Uploading" THEN SendBytes(k)
        ELSE Send("start", k, Zero)

(* startOrResumeUploading *)
StartAnswered(k) ==
  /\ call[k].at = "start"
  /\ \/ call[k].mined /\ SendBytes(k)
     \/ AwaitRead(k, "recheck", Zero)

Rechecked(k) == ObjectStatus(k) = "Uploading"

ObjectReadAgain(k) ==
  /\ call[k].at = "recheck"
  /\ \/ Return(k, Absent)              (* failed read: startUpload's error *)
     \/ IF Terminal(ObjectStatus(k)) THEN Return(k, Failed)
        ELSE IF Rechecked(k) THEN SendBytes(k)
        ELSE Return(k, Absent)

(* focClient.upload failed, or its answer maps to no receipt.              *)
BytesNotStored(k) ==
  IF SessionActive THEN Send("fail", k, Zero) ELSE Return(k, Absent)

BytesStored(k, r) ==
  IF SessionActive THEN Send("finalize", k, r) ELSE Return(k, PendingFinalize(r))

(* FOC may have accepted the bytes although the call failed.               *)
UploadAnswered(k) ==
  /\ call[k].at = "upload"
  /\ \E taken \in {0, 1} :
       /\ accepted' = [accepted EXCEPT ![ObjectOf[k]] = @ + taken]
       /\ IF RequestExpired(k) THEN Return(k, Failed)
          ELSE \/ BytesNotStored(k)
               \/ taken = 1 /\ \E r \in FocReceipts : BytesStored(k, r)

(* finalizePreparedReceipt *)
FinalizeAnswered(k) ==
  /\ call[k].at = "finalize"
  /\ \/ call[k].mined /\ Return(k, Completed(call[k].receipt))
     \/ AwaitRead(k, "recover", call[k].receipt)

(* recoverFinalizedUpload, after finalizeUpload reported an error.         *)
RecoveryRead(k) ==
  LET r == call[k].receipt
  IN  /\ call[k].at = "recover"
      /\ \/ Return(k, PendingFinalize(r))
         \/ MatchesReceipt(k, r) /\ Return(k, Completed(r))

(* A plausible bug: a pending receipt is sent again without asking whether *)
(* the request still stands.                                               *)
PendingRead_ignores_expiry(k) ==
  LET r == call[k].receipt
  IN  /\ call[k].at = "readPending"
      /\ IF MatchesReceipt(k, r) THEN Return(k, Completed(r))
         ELSE IF SessionActive THEN Send("finalize", k, r)
         ELSE Return(k, SessionEnded(r))

(* finalizePendingReceipt *)
PendingReadFailed(k) ==
  /\ call[k].at = "readPending"
  /\ Return(k, PendingFinalize(call[k].receipt))

PendingRead(k) ==
  LET r == call[k].receipt
  IN  /\ call[k].at = "readPending"
      /\ IF MatchesReceipt(k, r) THEN Return(k, Completed(r))
         ELSE IF RequestExpired(k) THEN Return(k, Failed)
         ELSE IF SessionActive THEN Send("finalize", k, r)
         ELSE Return(k, SessionEnded(r))

(* failPreparedUpload: an error while recording is kept in the details.    *)
FailAnswered(k) ==
  /\ call[k].at = "fail"
  /\ Return(k, Failed)

-----------------------------------------------------------------------------
(* The world around the process *)

(* A transaction of the coordinator is mined, perhaps long after the call  *)
(* that sent it was told an error, or died.                                *)
Mined(t) ==
  LET k == t.key
      o == ObjectOf[k]
  IN  /\ \/ t.op = "start" /\ StartUpload(Self, o) /\ UNCHANGED receiptHash
         \/ t.op = "fail" /\ FailUpload(Self, o, 0) /\ UNCHANGED receiptHash
         \/ /\ t.op = "finalize"
            /\ FinalizeUpload(Self, o, t.receipt.terms)
            /\ receiptHash' = [receiptHash EXCEPT ![o] = t.receipt.hash]
      /\ sent' = sent \ {t}
      /\ call' = IF call[k].at = t.op /\ call[k].receipt = t.receipt
                 THEN [call EXCEPT ![k].mined = TRUE] ELSE call
      /\ UNCHANGED <<store, focCalls, accepted, crashes>>

OtherCoordinator(c) ==
  \E o \in ObjectId :
    \/ StartUpload(c, o) /\ UNCHANGED receiptHash
    \/ /\ \E charge \in FailureCharges : FailUpload(c, o, charge)
       /\ UNCHANGED receiptHash
    \/ \E r \in OtherReceipts :
         /\ FinalizeUpload(c, o, r.terms)
         /\ receiptHash' = [receiptHash EXCEPT ![o] = r.hash]

UserOrOwner ==
  /\ \/ \E caller \in Address, p \in Requests, signer \in Address \cup {Zero} :
          RequestUpload(caller, p, signer)
     \/ \E o \in ObjectId :
          ExpireUpload(o) \/ \E caller \in Address : CancelUpload(caller, o)
     \/ Administration
  /\ UNCHANGED receiptHash

BlockTime == Tick /\ UNCHANGED <<processVars, worldVars>>

OthersTransact ==
  /\ UserOrOwner \/ \E c \in Address \ {Self} : OtherCoordinator(c)
  /\ UNCHANGED <<processVars, sent, accepted, crashes>>

(* The process restarts with an empty store; FOC may still accept the      *)
(* bytes that were on their way.                                           *)
Crash ==
  /\ crashes < MaxCrashes
  /\ crashes' = crashes + 1
  /\ store' = [k \in OpKey |-> Absent]
  /\ call' = [k \in OpKey |-> Idle]
  /\ focCalls' = [k \in OpKey |-> 0]
  /\ \E taken \in SUBSET {k \in OpKey : call[k].at = "upload"} :
       accepted' = [o \in ObjectId |->
         accepted[o] + Cardinality({k \in taken : ObjectOf[k] = o})]
  /\ UNCHANGED <<vars, sent, receiptHash>>

-----------------------------------------------------------------------------
Continue(k) ==
  /\ \/ UploadAnswered(k)
     \/ /\ \/ ObjectRead(k) \/ StartAnswered(k) \/ ObjectReadAgain(k)
           \/ FinalizeAnswered(k) \/ RecoveryRead(k)
           \/ PendingReadFailed(k) \/ PendingRead(k) \/ FailAnswered(k)
        /\ UNCHANGED accepted
  /\ UNCHANGED <<vars, receiptHash, crashes>>

(* Clients name an upload that was requested. *)
Execute(k) ==
  ObjectStatus(k) # "None" /\ ExecuteUpload(k) /\ UNCHANGED <<vars, receiptHash, accepted, crashes>>

HCNext ==
  \/ \E k \in OpKey : Execute(k) \/ Continue(k)
  \/ \E t \in sent : Mined(t)
  \/ BlockTime \/ OthersTransact \/ Crash

HCSpec == HCInit /\ [][HCNext]_allVars

(* Every await settles: adapters answer or time out. *)
CallsSettle == \A k \in OpKey : WF_allVars(Continue(k))

(* Clients call again, a read of the object is answered now and then, and  *)
(* time passes.                                                            *)
ClientsRetry ==
  /\ \A k \in OpKey :
       /\ WF_allVars(Execute(k))
       /\ SF_allVars(PendingRead(k) /\ UNCHANGED <<vars, receiptHash, accepted, crashes>>)
  /\ WF_allVars(BlockTime)

HCLiveSpec == HCSpec /\ CallsSettle /\ ClientsRetry

-----------------------------------------------------------------------------
(* Correctness *)

\* The receipt an operation holds: of its running call or kept in the store.
Held(k) == IF call[k].receipt # Zero THEN call[k].receipt
           ELSE IF store[k].state = "pending_finalize" THEN store[k].receipt
           ELSE Zero

HCTypeOK ==
  /\ store \in [OpKey -> StoreEntry]
  /\ call \in [OpKey -> Call]
  /\ focCalls \in [OpKey -> Nat]
  /\ sent \subseteq SentTransaction
  /\ receiptHash \in [ObjectId -> ReceiptHash \cup {Zero}]
  /\ accepted \in [ObjectId -> Nat]
  /\ crashes \in 0..MaxCrashes
  /\ \A k \in OpKey : store[k].state = "running" <=> call[k] # Idle

\* However often an operation is called again, during the life of a process
\* FOC is handed its bytes once: errors before FOC free the key, every way
\* out after FOC settles the key, keeps the receipt, or comes with a session
\* that admits no further call.
BytesSentOncePerOperation == \A k \in OpKey : focCalls[k] <= 1

\* The registry's record of the object is the one receipt r wrote.
SettledBy(k, r) ==
  LET obj == objects[ObjectOf[k]]
  IN  <<obj.status, receiptHash[ObjectOf[k]], obj.completedCopies, obj.actualCost>>
        = <<r.terms.finalizationStatus, r.hash, r.terms.completedCopies,
            r.terms.actualCost>>

\* An operation that answered with a result did settle its upload: the
\* registry shows the status, hash, copies and cost of this operation's
\* receipt, for ever, also when the answer to finalizeUpload was lost and
\* another operation or another coordinator tried to settle the same object.
ResultIsOnChain ==
  \A k \in OpKey :
    store[k].state = "completed" => SettledBy(k, store[k].receipt)

\* Bytes leave only for an upload that was started on the chain, whatever
\* the answer to startUpload was.
BytesLeaveAfterStart ==
  \A k \in OpKey :
    call[k].at = "upload" => ObjectStatus(k) \notin {"None", "Requested"}

\* A receipt of stored bytes is given up only when it is on the chain or the
\* request has expired, not because a call failed or the session ended.
ReceiptKeptUntilSettled ==
  [][\A k \in OpKey :
       Held(k) # Zero /\ crashes' = crashes
         => \/ Held(k)' = Held(k)
            \/ SettledBy(k, Held(k))
            \/ RequestExpired(k)]_allVars

\* No call hangs: every attempt comes to an answer, whichever of its steps,
\* the recording of its failure included, goes wrong.
CallsReturn ==
  \A k \in OpKey : store[k].state = "running" ~> store[k].state # "running"

\* If clients call again, a pending receipt does not stay pending: it is
\* settled or its request expires.
PendingResolved ==
  \A k \in OpKey : store[k].state = "pending_finalize"
                     ~> store[k].state \notin {"pending_finalize", "running"}

\* docs/production-hardening-runbook.md:167, of an upload that remains
\* Uploading: "If bytes were not accepted by FOC, retry through the same
\* idempotency key."
UnacceptedUploadRetryable ==
  \A k \in OpKey :
    /\ ObjectStatus(k) = "Uploading"
    /\ accepted[ObjectOf[k]] = 0
    /\ ~RequestExpired(k)
    => store[k].state # "failed"

\* docs/coordinator.md:32: the coordinator "keeps only reconstructable,
\* in-memory idempotency state": after a restart it does not send again what
\* FOC has accepted.
AcceptedBytesNotSentAgain == \A o \in ObjectId : accepted[o] <= 1
=============================================================================
