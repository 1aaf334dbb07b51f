---------------------------- MODULE FixtureSeeder ----------------------------
(***************************************************************************)
(* scripts/seed-calibration-registry-fixtures.mjs: the script that fills   *)
(* the public registry with synthetic rows for the dashboard.  It plans a  *)
(* phase from what it read, sends the plan in batches of consecutive       *)
(* nonces and waits for a whole batch.  A run may be stopped anywhere, may *)
(* time out and leave transactions behind, and is repeated with the same   *)
(* seed, perhaps with other --committed and --uploading counts.            *)
(*                                                                         *)
(* The rows of a seed are RowParams; what else the seed determines         *)
(* (hashes, synthetic ids) is the same in every run and left out, with the *)
(* comparison of a row with its object, which can then not fail.           *)
(***************************************************************************)
EXTENDS OperatorTransactions

CONSTANTS
  Rows,          (* number of fixture rows: --objects                      *)
  RowAccount,    (* row -> account                                         *)
  RowKey,        (* row -> idempotency key                                 *)
  Expiry,        (* --request-expires-at                                   *)
  Targets,       (* the [row -> target status] of the runs                 *)
  BatchSize,
  MaxGiveUps

VARIABLES
  seeder,        (* the state of the script                                *)
  summary,       (* the file of the last run that ended: row -> status     *)
  asked,         (* row -> furthest target a run was started with          *)
  giveUps

seedVars == <<vars, poolVars, seeder, summary, asked, giveUps>>

Row == 1..Rows

(* buildFixtureRows *)
RowParams(w) ==
  [accountId |-> RowAccount[w], user |-> RowAccount[w],
   idempotencyKey |-> RowKey[w], size |-> 1, requestedCopies |-> 1,
   maxCost |-> 0, requestExpiresAt |-> Expiry]
RowReceipt ==
  [finalizationStatus |-> "Committed", payer |-> Operator,
   hasReceiptHash |-> TRUE, size |-> 1, requestedCopies |-> 1,
   completedCopies |-> 1, actualCost |-> 0, copies |-> 1]
RowDataset(w) ==
  [accountId |-> RowAccount[w], dataset |-> CHOOSE d \in Dataset : TRUE,
   payer |-> Operator, createdAt |-> 0]

(* How far an upload has come: STATUS, where all ended ones are 3 or more. *)
Rank(status) == CASE status = "None" -> 0
                  [] status = "Requested" -> 1
                  [] status = "Uploading" -> 2
                  [] OTHER -> 3

ObjectOf(w) == objectByIdempotencyKey[RowAccount[w]][RowKey[w]]
StatusOf(o) == IF o = 0 THEN "None" ELSE objects[o].status

NothingSeen == [w \in Row |-> [id |-> 0, status |-> "None"]]
NoSummary   == [w \in Row |-> "None"]
Idle == [pc |-> "idle", targets |-> NoSummary, row |-> 0, seen |-> NothingSeen,
         plans |-> <<>>, awaiting |-> {}, sentAny |-> FALSE, settled |-> FALSE]

SeedInit ==
  /\ PoolInit
  /\ seeder = Idle /\ summary = NoSummary
  /\ asked = NoSummary /\ giveUps = 0

(* The rows of a set, in order. *)
RowsIn(S) ==
  LET upTo[w \in 0..Rows] ==
        IF w = 0 THEN <<>>
        ELSE IF w \in S THEN Append(upTo[w - 1], w) ELSE upTo[w - 1]
  IN  upTo[Rows]

-----------------------------------------------------------------------------
(* Plausible bugs, used to show that the properties notice them. *)

\* every requested row is started
StartPlans_all_rows(seen, targets) ==
  LET todo == RowsIn({w \in Row : seen[w].status = "Requested"})
  IN  [i \in DOMAIN todo |->
         [fn |-> "startUpload", id |-> seen[todo[i]].id, row |-> todo[i]]]

\* only rows that are to stay Uploading are started
StartPlans_exact_target(seen, targets) ==
  LET todo == RowsIn({w \in Row : /\ targets[w] = "Uploading"
                                  /\ seen[w].status = "Requested"})
  IN  [i \in DOMAIN todo |->
         [fn |-> "startUpload", id |-> seen[todo[i]].id, row |-> todo[i]]]

\* rows beyond Uploading are finalized again
ToFinalize_not_below(status) == Rank(status) >= 2

\* the receipts of a batch are awaited and not looked at
BatchAccepted_unchecked(hashes) == TRUE

\* the receipt is sent before the dataset
FinalizationPair_receipt_first(w, o) ==
  <<[fn |-> "finalizeUpload", id |-> o, receipt |-> RowReceipt, row |-> w],
    [fn |-> "recordDataset", dataset |-> RowDataset(w), row |-> w]>>

-----------------------------------------------------------------------------
(* Plans *)

RequestPlans(seen) ==
  LET todo == RowsIn({w \in Row : seen[w].id = 0})
  IN  [i \in DOMAIN todo |->
         [fn |-> "requestUpload", params |-> RowParams(todo[i]), row |-> todo[i]]]

StartPlans(seen, targets) ==
  LET todo == RowsIn({w \in Row : /\ Rank(targets[w]) >= 2
                                  /\ seen[w].status = "Requested"})
  IN  [i \in DOMAIN todo |->
         [fn |-> "startUpload", id |-> seen[todo[i]].id, row |-> todo[i]]]

ToFinalize(status) == status = "Uploading"

FinalizationPair(w, o) ==
  <<[fn |-> "recordDataset", dataset |-> RowDataset(w), row |-> w],
    [fn |-> "finalizeUpload", id |-> o, receipt |-> RowReceipt, row |-> w]>>

FinalizationPlans(seen, targets) ==
  LET todo == RowsIn({w \in Row : /\ Rank(targets[w]) >= 3
                                  /\ ToFinalize(seen[w].status)})
  IN  [j \in 1..(2 * Len(todo)) |->
         LET w == todo[(j + 1) \div 2]
         IN  FinalizationPair(w, seen[w].id)[IF j % 2 = 1 THEN 1 ELSE 2]]

-----------------------------------------------------------------------------
(* Steps of a run *)

restUnchanged == UNCHANGED <<vars, asked, giveUps>>

At(pc) == seeder.pc = pc

Become(next) == seeder' = next /\ UNCHANGED <<poolVars, summary>> /\ restUnchanged

(* Every row is where the run wants it, and nothing is on its way. *)
AtTargets(targets) ==
  /\ ~Unmined
  /\ coordinatorPolicies[Operator] = StandingPolicy /\ Operator \in relayers
  /\ \A w \in Row : Rank(StatusOf(ObjectOf(w))) >= Rank(targets[w])

Begin(targets) ==
  /\ seeder = Idle
  /\ owner = Operator
  /\ seeder' = [Idle EXCEPT !.pc = "coordinator", !.targets = targets,
                            !.settled = AtTargets(targets)]
  /\ asked' = [w \in Row |-> IF Rank(targets[w]) > Rank(asked[w])
                             THEN targets[w] ELSE asked[w]]
  /\ UNCHANGED <<vars, poolVars, summary, giveUps>>

(* Planned transactions are sent one by one until the batch is full. *)
SendOne ==
  /\ seeder.plans # <<>> /\ Cardinality(seeder.awaiting) < BatchSize
  /\ Submit(Head(seeder.plans))
  /\ seeder' = [seeder EXCEPT !.plans = Tail(@), !.sentAny = TRUE,
                              !.awaiting = @ \cup {NewHash}]
  /\ UNCHANGED summary /\ restUnchanged

BatchSent ==
  /\ seeder.awaiting # {}
  /\ seeder.plans = <<>> \/ Cardinality(seeder.awaiting) = BatchSize

BatchAccepted(hashes) == \A h \in hashes : outcome[h]

(* All receipts of the batch are there; a reverted one ends the run. *)
AwaitBatch ==
  /\ BatchSent
  /\ \A h \in seeder.awaiting : Mined(h)
  /\ IF BatchAccepted(seeder.awaiting)
     THEN Become([seeder EXCEPT !.awaiting = {}])
     ELSE Become(Idle)

Ready(pc) == At(pc) /\ seeder.plans = <<>> /\ seeder.awaiting = {}

Plan(plans, pc) == Become([seeder EXCEPT !.plans = plans, !.pc = pc])

EnsureCoordinator ==
  /\ Ready("coordinator")
  /\ Plan(IF coordinatorPolicies[Operator] = StandingPolicy THEN <<>>
          ELSE <<[fn |-> "setCoordinator"]>>, "relayer")

EnsureRelayer ==
  /\ Ready("relayer")
  /\ seeder' = [seeder EXCEPT
       !.plans = IF Operator \in relayers THEN <<>>
                 ELSE <<[fn |-> "setRelayer", relayer |-> Operator]>>,
       !.pc = "read", !.row = 1]
  /\ UNCHANGED <<poolVars, summary>> /\ restUnchanged

(* One row at a time: the object by its key, then its status. *)
ReadRow(pc, wanted) ==
  LET w == seeder.row
      o == IF seeder.seen[w].id = 0 THEN ObjectOf(w) ELSE seeder.seen[w].id
  IN  /\ Ready(pc) /\ w <= Rows
      /\ Become([seeder EXCEPT
           !.row = @ + 1,
           !.seen[w] = IF w \in wanted THEN [id |-> o, status |-> StatusOf(o)] ELSE @])

ReadExisting == ReadRow("read", Row)
ReadCreated  == ReadRow("created", Row)
ReadStarted  == ReadRow("started", {w \in Row : Rank(seeder.targets[w]) >= 3})

AllRead(pc) == Ready(pc) /\ seeder.row > Rows

RequestMissing ==
  /\ AllRead("read")
  /\ Become([seeder EXCEPT !.plans = RequestPlans(seeder.seen),
                           !.pc = "created", !.row = 1])

(* The planned rows are taken to be Uploading once the batches succeeded. *)
StartRequested ==
  /\ AllRead("created")
  /\ Plan(StartPlans(seeder.seen, seeder.targets), "starting")

MarkStarted ==
  /\ Ready("starting")
  /\ Become([seeder EXCEPT !.pc = "started", !.row = 1,
       !.seen = [w \in Row |->
          IF seeder.seen[w].status = "Requested" /\ Rank(seeder.targets[w]) >= 2
          THEN [seeder.seen[w] EXCEPT !.status = "Uploading"]
          ELSE seeder.seen[w]]])

FinalizeUploading ==
  /\ AllRead("started")
  /\ Plan(FinalizationPlans(seeder.seen, seeder.targets), "finalizing")

(* The finalized rows are taken to be Committed; the summary is written    *)
(* from the statuses the script holds.                                     *)
WriteSummary ==
  LET finalized(w) == /\ Rank(seeder.targets[w]) >= 3
                      /\ ToFinalize(seeder.seen[w].status)
  IN  /\ Ready("finalizing")
      /\ summary' = [w \in Row |-> IF finalized(w) THEN "Committed"
                                   ELSE seeder.seen[w].status]
      /\ seeder' = Idle
      /\ UNCHANGED poolVars /\ restUnchanged

(* The process is stopped, or a call or a wait for a receipt times out. *)
GiveUp ==
  /\ seeder # Idle
  /\ giveUps < MaxGiveUps
  /\ giveUps' = giveUps + 1
  /\ seeder' = Idle
  /\ UNCHANGED <<vars, poolVars, summary, asked>>

Step ==
  \/ EnsureCoordinator \/ EnsureRelayer \/ ReadExisting \/ RequestMissing
  \/ ReadCreated \/ StartRequested \/ MarkStarted \/ ReadStarted
  \/ FinalizeUploading \/ WriteSummary \/ SendOne \/ AwaitBatch

(* The owner cancels an upload by hand. *)
CancelRow ==
  /\ \E o \in ObjectId : CancelUpload(owner, o)
  /\ UNCHANGED <<poolVars, seeder, summary, asked, giveUps>>

SeederRuns == Step \/ GiveUp \/ \E targets \in Targets : Begin(targets)

-----------------------------------------------------------------------------
(* Correctness *)

\* No row is moved past what was asked for: whatever a stopped run left in
\* the pool, an upload is only started or committed if some run wanted its
\* row to be at least there.
NeverPastTarget ==
  \A w \in Row :
    LET status == StatusOf(ObjectOf(w))
    IN  status \in {"Uploading", "Committed"} => Rank(status) <= Rank(asked[w])

\* The summary never claims more than the chain holds: a row it shows as
\* committed is committed, and one it shows as requested or uploading came at
\* least that far, although the statuses are the script's own bookkeeping,
\* not read back, and the owner may have cancelled an upload meanwhile.
SummaryNeverAhead ==
  \A w \in Row :
    LET status == StatusOf(ObjectOf(w))
    IN  /\ Rank(summary[w]) <= Rank(status)
        /\ summary[w] = "Committed" => status = "Committed"

\* Seeding is idempotent for a seed: a run that starts when every row has
\* reached its target and nothing is pending sends no transaction.
SettledRunSendsNothing == seeder.settled => ~seeder.sentAny

\* A committed row has its dataset on record: the two transactions may fall
\* into different batches, and a run may be stopped between them, but the
\* receipt never comes without the dataset.
CommittedHasDataset ==
  \A w \in Row :
    StatusOf(ObjectOf(w)) = "Committed" =>
      datasets[RowAccount[w]][RowDataset(w).dataset].updatedAt # 0

\* No row is ahead of what was asked for, or of its own dataset.
RowsInOrder == NeverPastTarget /\ CommittedHasDataset

\* Running the seeder again always gets every row to its target, whatever
\* batch a run was stopped in and whatever it or the demo left in the pool.
RowsReachTargets ==
  <>(\E targets \in Targets : \A w \in Row :
       Rank(StatusOf(ObjectOf(w))) >= Rank(targets[w]))
=============================================================================
