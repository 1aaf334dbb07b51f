--------------------------- MODULE CalibrationDemo ---------------------------
(***************************************************************************)
(* scripts/run-calibration-registry-demo.mjs: the script that walks one    *)
(* upload through the registry with the operator's key and writes the      *)
(* evidence file the public dashboard quotes.  It sends one transaction at *)
(* a time and waits for it.  A run may be stopped at any await, may give   *)
(* up waiting for a transaction that is mined later, may be started again  *)
(* with another environment, and may overlap with another run.             *)
(*                                                                         *)
(* An environment tells the piece (content and the default idempotency     *)
(* key), the dataset (part of the request's metadata hash), the retrieval  *)
(* URL (part of the receipt hash), the relayer, and --write.  The hashes   *)
(* the registry stores and FocPlatformRegistry abstracts are in details.   *)
(* A read is taken at the moment its value is used; counters and dashboard *)
(* pages, which the script quotes and never checks, are left out.          *)
(***************************************************************************)
EXTENDS OperatorTransactions

CONSTANTS
  Env,            (* the environments the script is run with               *)
  DemoAccount,
  Run,            (* runs that may be under way at the same time           *)
  MaxGiveUps      (* bound on the runs that are stopped or time out        *)

VARIABLES
  details,        (* per object: what its request and receipt hashes cover *)
  run,            (* per Run: the state of the script                      *)
  evidence,       (* what the file at config.evidencePath says, or said    *)
                  (* when it was whole                                     *)
  onDisk,         (* the file is "whole" (or was never written), "empty",  *)
                  (* or "cut": there is text in it that is not JSON        *)
  giveUps,
  lapses          (* history: "overlap", two runs were under way at once;  *)
                  (* "elsewhere", a run kept its hashes out of the file or *)
                  (* the file was about another piece; "cut", a run was    *)
                  (* stopped while it wrote                                *)

demoVars == <<vars, poolVars, details, run, evidence, onDisk, giveUps, lapses>>

Sendable == {"setCoordinator", "setRelayer", "requestUpload", "startUpload",
               "recordDataset", "finalizeUpload"}
NoHashes == [f \in Sendable |-> 0]

(* loadConfig *)
RequestParams(env) ==
  [accountId |-> DemoAccount, user |-> Operator, idempotencyKey |-> env.piece,
   size |-> 1, requestedCopies |-> 1, maxCost |-> 0, requestExpiresAt |-> 0]
Receipt(env) ==
  [finalizationStatus |-> "Committed", payer |-> Operator,
   hasReceiptHash |-> TRUE, size |-> 1, requestedCopies |-> 1,
   completedCopies |-> 1, actualCost |-> 0, copies |-> 1]
DatasetOf(env) ==
  [accountId |-> DemoAccount, dataset |-> env.dataset, payer |-> Operator,
   createdAt |-> 0]
RequestHashes(env) == <<env.piece, env.dataset>>
ReceiptHashes(env) == <<env.piece, env.dataset, env.url>>

(* The script sends what the registry may be sent. *)
ASSUME DemoAssumption ==
  /\ DemoAccount \in Account /\ MaxGiveUps \in Nat
  /\ \A env \in Env :
       /\ env.piece \in IdempotencyKey /\ env.dataset \in Dataset
       /\ env.relayer \in RelayerInputs /\ env.write \in BOOLEAN
       /\ RequestParams(env) \in Requests /\ Receipt(env) \in Receipts
       /\ DatasetOf(env) \in DatasetInputs
  /\ Operator \in CoordinatorInputs /\ StandingPolicy \in CoordinatorPolicies

NoDetails  == [request |-> <<>>, receipt |-> <<>>]
NoEvidence == [id |-> 0, env |-> <<>>, hashes |-> NoHashes]
Idle == [pc |-> "idle", env |-> <<>>, id |-> 0, seen |-> "None",
         waiting |-> 0, hashes |-> NoHashes]

DemoInit ==
  /\ PoolInit
  /\ details = [o \in ObjectId |-> NoDetails]
  /\ run = [r \in Run |-> Idle]
  /\ evidence = NoEvidence /\ onDisk = "whole"
  /\ giveUps = 0
  /\ lapses = {}

-----------------------------------------------------------------------------
(* Plausible bugs, used to show that the properties notice them. *)

\* the request is compared without its hashes
RequestMatches_without_hashes(env, o) ==
  objects[o].idempotencyKey = env.piece

\* a committed upload is taken to be this configuration's
EvidenceMatches_if_committed(env, o) == Stored(objects[o].status)

\* the file is taken to be about this upload
SameIdentity_always(file, env, o) == TRUE

\* the file is overwritten with what this run sent
MergeHashes_current_only(existing, current) == current

\* a file that cannot be read is taken for one that is not there
Readable_always == TRUE

\* a file that is not there is no excuse
Readable_if_there == onDisk = "whole" /\ evidence.id # 0

-----------------------------------------------------------------------------
(* Checks *)

Committed(status) == Stored(status)          (* isCommittedStorageObject *)

(* collectStorageObjectRequestMismatches finds nothing. *)
RequestMatches(env, o) ==
  /\ o # 0
  /\ objects[o].accountId = DemoAccount /\ objects[o].user = Operator
  /\ objects[o].idempotencyKey = env.piece
  /\ details[o].request = RequestHashes(env)

(* collectCalibrationEvidenceMismatches finds nothing. *)
EvidenceMatches(env, o) ==
  /\ RequestMatches(env, o)
  /\ objects[o].completedCopies = 1 /\ objects[o].actualCost = 0
  /\ details[o].receipt = ReceiptHashes(env)
  /\ receipts[o] = [payer |-> Operator, copies |-> 1]
  /\ datasets[DemoAccount][env.dataset].payer = Operator

NeedsStart(status) == status = "Requested"

(* matchesDemoEvidenceIdentity: one registry, one account. *)
SameIdentity(file, env, o) == file.id = o /\ file.env.piece = env.piece

MergeHashes(existing, current) ==
  [f \in Sendable |-> IF current[f] # 0 THEN current[f] ELSE existing[f]]

(* JSON.parse of the file; one that is not there counts as empty evidence. *)
Readable == onDisk = "whole"
FileText == IF onDisk = "whole" THEN evidence ELSE NoEvidence

ReusableHashes(file, env, o) ==
  IF file.id # 0 /\ SameIdentity(file, env, o) THEN file.hashes ELSE NoHashes

-----------------------------------------------------------------------------
(* Steps of a run *)

restUnchanged == UNCHANGED <<vars, details, evidence, onDisk, giveUps, lapses>>

At(r, pc) == run[r].pc = pc /\ run[r].waiting = 0

Become(r, next) == run' = [run EXCEPT ![r] = next]

Go(r, pc) ==
  /\ Become(r, [run[r] EXCEPT !.pc = pc])
  /\ restUnchanged /\ UNCHANGED poolVars

(* sendAndWait: the wait ends in Receive, Revert or GiveUp. *)
Send(r, t, pc) ==
  /\ Submit(t)
  /\ Become(r, [run[r] EXCEPT !.pc = pc, !.waiting = NewHash])
  /\ restUnchanged

Begin(r, env) ==
  LET o == objectByIdempotencyKey[DemoAccount][env.piece]
      started == [Idle EXCEPT !.env = env, !.id = o]
  IN  /\ run[r] = Idle
      /\ owner = Operator
      /\ IF o = 0 THEN Become(r, [started EXCEPT !.pc = "coordinator"])
         ELSE /\ RequestMatches(env, o)
              /\ Committed(objects[o].status) => EvidenceMatches(env, o)
              /\ Become(r, [started EXCEPT
                   !.seen = objects[o].status,
                   !.pc = IF Committed(objects[o].status) THEN "relayer"
                                                          ELSE "coordinator"])
      /\ lapses' = lapses
           \cup (IF \E q \in Run : run[q] # Idle THEN {"overlap"} ELSE {})
           \cup (IF ~env.write \/ (evidence.id # 0 /\ evidence.env.piece # env.piece)
                 THEN {"elsewhere"} ELSE {})
      /\ UNCHANGED <<vars, poolVars, details, evidence, onDisk, giveUps>>

EnsureCoordinator(r) ==
  /\ At(r, "coordinator")
  /\ IF coordinatorPolicies[Operator] = StandingPolicy THEN Go(r, "relayer")
     ELSE Send(r, [fn |-> "setCoordinator"], "relayer")

EnsureRelayer(r) ==
  LET next == IF run[r].id = 0 THEN "request" ELSE "start"
      relayer == run[r].env.relayer
  IN  /\ At(r, "relayer")
      /\ IF relayer \in relayers THEN Go(r, next)
         ELSE Send(r, [fn |-> "setRelayer", relayer |-> relayer], next)

Request(r) ==
  /\ At(r, "request")
  /\ Send(r, [fn |-> "requestUpload", params |-> RequestParams(run[r].env),
              hashes |-> RequestHashes(run[r].env)], "object")

(* The object is read (again); a request that does not match ends the run. *)
Reread(r, o, pc) ==
  /\ RequestMatches(run[r].env, o)
  /\ Become(r, [run[r] EXCEPT !.id = o, !.seen = objects[o].status, !.pc = pc])
  /\ restUnchanged /\ UNCHANGED poolVars

ReadRequested(r) ==
  /\ At(r, "object")
  /\ Reread(r, objectByIdempotencyKey[DemoAccount][run[r].env.piece], "start")

Start(r) ==
  /\ At(r, "start")
  /\ IF NeedsStart(run[r].seen)
     THEN Send(r, [fn |-> "startUpload", id |-> run[r].id,
                   hashes |-> RequestHashes(run[r].env)], "started")
     ELSE Go(r, "settle")

ReadStarted(r) == At(r, "started") /\ Reread(r, run[r].id, "settle")

(* An upload found committed is checked; any other gets its dataset. *)
Settle(r) ==
  LET s == run[r]
  IN  /\ At(r, "settle")
      /\ IF Committed(s.seen)
         THEN EvidenceMatches(s.env, s.id) /\ Go(r, "merge")
         ELSE Send(r, [fn |-> "recordDataset", dataset |-> DatasetOf(s.env)],
                   "recorded")

ReadRecorded(r) == At(r, "recorded") /\ Reread(r, run[r].id, "finalize")

Finalize(r) ==
  LET s == run[r]
  IN  /\ At(r, "finalize")
      /\ IF Committed(s.seen) THEN Go(r, "merge")
         ELSE Send(r, [fn |-> "finalizeUpload", id |-> s.id,
                       receipt |-> Receipt(s.env),
                       hashes |-> ReceiptHashes(s.env)], "merge")

(* The final reads, and with --write their check and the old file's        *)
(* hashes; a file that is not there has none, one that cannot be parsed    *)
(* ends the run (Throws).                                                  *)
Merge(r) ==
  LET s == run[r]
  IN  /\ At(r, "merge")
      /\ s.env.write
      /\ EvidenceMatches(s.env, s.id) /\ Readable
      /\ Become(r, [s EXCEPT !.pc = "write",
                      !.hashes = MergeHashes(
                                   ReusableHashes(FileText, s.env, s.id), @)])
      /\ restUnchanged /\ UNCHANGED poolVars

(* writeFile empties the file, ...                                         *)
Truncate(r) ==
  /\ At(r, "write")
  /\ onDisk' = "empty"
  /\ Become(r, [run[r] EXCEPT !.pc = "writing"])
  /\ UNCHANGED <<vars, poolVars, details, evidence, giveUps, lapses>>

(* ... then writes from its start: what another run wrote in between may   *)
(* be longer and stick out behind.                                         *)
Write(r) ==
  /\ At(r, "writing")
  /\ \/ /\ evidence' =
             [id |-> run[r].id, env |-> run[r].env, hashes |-> run[r].hashes]
        /\ onDisk' = "whole"
     \/ onDisk # "empty" /\ onDisk' = "cut" /\ UNCHANGED evidence
  /\ Become(r, Idle)
  /\ UNCHANGED <<vars, poolVars, details, giveUps, lapses>>

(* Without --write the evidence is only returned. *)
Return(r) ==
  /\ At(r, "merge") /\ ~run[r].env.write
  /\ Become(r, Idle)
  /\ restUnchanged /\ UNCHANGED poolVars

Receive(r) ==
  LET h == run[r].waiting
  IN  /\ h # 0 /\ Succeeded(h)
      /\ Become(r, [run[r] EXCEPT !.waiting = 0, !.hashes[sent[h].fn] = h])
      /\ restUnchanged /\ UNCHANGED poolVars

(* A throw: a reverted transaction, or a check that fails. *)
Throws(r) ==
  LET s == run[r]
  IN  \/ s.waiting # 0 /\ Mined(s.waiting) /\ ~Succeeded(s.waiting)
      \/ At(r, "object") /\ ~RequestMatches(s.env,
                               objectByIdempotencyKey[DemoAccount][s.env.piece])
      \/ s.pc \in {"started", "recorded"} /\ s.waiting = 0
           /\ ~RequestMatches(s.env, s.id)
      \/ At(r, "settle") /\ Committed(s.seen) /\ ~EvidenceMatches(s.env, s.id)
      \/ /\ At(r, "merge") /\ s.env.write
         /\ ~EvidenceMatches(s.env, s.id) \/ ~Readable

Throw(r) ==
  /\ Throws(r)
  /\ Become(r, Idle)
  /\ restUnchanged /\ UNCHANGED poolVars

(* The process is stopped, the node cannot be reached or refuses a nonce   *)
(* already in use, or the wait for a receipt times out.  A file it has     *)
(* emptied stays empty or gets a part of its text: no part of an object's  *)
(* JSON is JSON.                                                           *)
GiveUp(r) ==
  /\ run[r].pc # "idle"
  /\ giveUps < MaxGiveUps
  /\ giveUps' = giveUps + 1
  /\ Become(r, Idle)
  /\ IF run[r].pc = "writing"
     THEN /\ \/ onDisk' = "cut"
             \/ onDisk # "empty" /\ UNCHANGED onDisk
          /\ lapses' = lapses \cup {"cut"}
     ELSE UNCHANGED <<onDisk, lapses>>
  /\ UNCHANGED <<vars, poolVars, details, evidence>>

Step(r) ==
  \/ EnsureCoordinator(r) \/ EnsureRelayer(r) \/ Request(r) \/ ReadRequested(r)
  \/ Start(r) \/ ReadStarted(r) \/ Settle(r) \/ ReadRecorded(r) \/ Finalize(r)
  \/ Merge(r) \/ Truncate(r) \/ Write(r) \/ Return(r) \/ Receive(r)
  \/ Throw(r)

-----------------------------------------------------------------------------
(* The chain *)

(* The hashes the mined call stored; those of other scripts are not kept.  *)
StoredDetails(t) ==
  IF "hashes" \notin DOMAIN t THEN details
  ELSE CASE t.fn = "requestUpload" ->
              [details EXCEPT ![nextObjectId].request = t.hashes]
         [] t.fn = "finalizeUpload" -> [details EXCEPT ![t.id].receipt = t.hashes]
         [] OTHER -> details

MineNext ==
  /\ \E ok \in BOOLEAN :
       /\ Mine(ok)
       /\ details' = IF ok THEN StoredDetails(sent[Len(outcome) + 1]) ELSE details
  /\ UNCHANGED <<run, evidence, onDisk, giveUps, lapses>>

Passing ==
  /\ \/ Tick
     \/ \E o \in ObjectId : ExpireUpload(o)
  /\ UNCHANGED <<poolVars, details, run, evidence, onDisk, giveUps, lapses>>

DemoRuns ==
  \E r \in Run : Step(r) \/ GiveUp(r) \/ \E env \in Env : Begin(r, env)

-----------------------------------------------------------------------------
(* Correctness *)

\* Whatever runs were stopped, repeated with another environment or
\* overlapped, the upload the file names is committed on chain with exactly
\* the request and the receipt of the environment it was written from, and
\* the dataset it quotes is recorded.
EvidenceOnChain ==
  evidence.id # 0 =>
    LET o == evidence.id
        env == evidence.env
    IN  /\ objects[o].status = "Committed"
        /\ details[o] = [request |-> RequestHashes(env),
                         receipt |-> ReceiptHashes(env)]
        /\ datasets[DemoAccount][env.dataset].payer = Operator

\* A run never carries on somebody else's upload: every transaction that
\* starts or finalizes an upload was sent by a run whose environment is the
\* one the upload was requested with, even if the configuration changed
\* between a stopped run and the next one under the same idempotency key.
OnlyOwnUploadAdvanced ==
  \A h \in DOMAIN sent :
    sent[h].fn \in {"startUpload", "finalizeUpload"}
      /\ "hashes" \in DOMAIN sent[h] =>
      LET asked == details[sent[h].id].request
      IN  asked = <<sent[h].hashes[1], sent[h].hashes[2]>>

\* The transaction hashes in the file tell how the upload it names came
\* about: each succeeded, and those about an upload are about that upload,
\* also when they were taken over from the file of an earlier run.
EvidenceHashesBelong ==
  LET o == evidence.id
      tx(f) == sent[evidence.hashes[f]]
      has(f) == evidence.hashes[f] # 0
  IN  /\ \A f \in Sendable : has(f) => Succeeded(evidence.hashes[f]) /\ tx(f).fn = f
      /\ has("requestUpload") =>
           tx("requestUpload").params.idempotencyKey = objects[o].idempotencyKey
      /\ \A f \in {"startUpload", "finalizeUpload"} : has(f) => tx(f).id = o
      /\ has("recordDataset") =>
           tx("recordDataset").dataset = DatasetOf(evidence.env)

\* A rerun keeps what the file already tells.  As long as no two runs overlap,
\* no text the file ever gets has lost a transaction hash that its last whole
\* text told of the same upload, whatever was stopped in between; and outside
\* the moment between the two steps of writeFile that last text is still
\* there, unless a run was stopped in that very moment.  A file that is cut so
\* is lost to its readers, but no rerun puts one with fewer hashes in its
\* place.
RerunKeepsHashes ==
  []["overlap" \notin lapses =>
       /\ evidence.id # 0 /\ evidence'.id = evidence.id =>
            \A f \in Sendable : evidence.hashes[f] # 0 => evidence'.hashes[f] # 0
       /\ \/ onDisk' = "whole" \/ "cut" \in lapses'
          \/ \E r \in Run : run'[r].pc = "writing"]_demoVars

\* If no run was given up, none overlapped another, and all of them wrote to
\* a file about their own upload, the file names all four transactions that
\* made the upload, however often it was written.
HistoryComplete ==
  evidence.id # 0 /\ giveUps = 0 /\ lapses = {} =>
    \A f \in Sendable \ {"setCoordinator", "setRelayer"} : evidence.hashes[f] # 0

\* The evidence file is true: what it says is on the chain, its hashes tell
\* how that came about, and all of it, unless a run was stopped or overlapped.
EvidenceTrue == EvidenceOnChain /\ EvidenceHashesBelong /\ HistoryComplete

\* The script can no longer commit an upload of the demo: it was cancelled or
\* expired, or its deadline passed before it was committed.
OutOfReach ==
  \E o \in ObjectId :
    /\ objects[o].accountId = DemoAccount
    /\ \/ objects[o].status \in {"Cancelled", "Expired"}
       \/ objects[o].status \in {"Requested", "Uploading"} /\ Expired(o)

\* Running the script again always gets there: whatever step a run was
\* stopped at, whatever transaction it left behind, and whatever the seeder
\* did in between, there is a whole evidence file in the end, but for two
\* cases no rerun repairs: the upload was closed, or its deadline passed,
\* before it was committed, and every rerun reverts at finalizeUpload; or a
\* run was stopped while it wrote the file, and every rerun throws when it
\* reads it.
RerunsFinish ==
  <>(\/ evidence.id # 0 /\ onDisk = "whole"
     \/ OutOfReach
     \/ onDisk = "cut")
=============================================================================
