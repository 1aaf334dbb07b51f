--------------------------- MODULE OperatorScripts ---------------------------
(***************************************************************************)
(* The two scripts of the repository that write to the public registry,    *)
(* run with one key: run-calibration-registry-demo.mjs (CalibrationDemo)   *)
(* and seed-calibration-registry-fixtures.mjs (FixtureSeeder).  They share *)
(* the registry, the signer's pool of transactions, and its policy as a    *)
(* coordinator and a relayer, which each of them sets up if it is not      *)
(* there.                                                                  *)
(***************************************************************************)
EXTENDS CalibrationDemo

CONSTANTS Rows, RowAccount, RowKey, Expiry, Targets, BatchSize

VARIABLES seeder, summary, asked

Seeder == INSTANCE FixtureSeeder

(* Each row has a key of its own, which is not one of the demo's. *)
ASSUME RowsAssumption ==
  /\ Rows \in Nat
  /\ RowAccount \in [Seeder!Row -> Account]
  /\ RowKey \in [Seeder!Row -> IdempotencyKey]
  /\ \A v, w \in Seeder!Row :
       RowAccount[v] = RowAccount[w] /\ RowKey[v] = RowKey[w] => v = w
  /\ \A w \in Seeder!Row, env \in Env :
       ~(RowAccount[w] = DemoAccount /\ RowKey[w] = env.piece)
  /\ Targets \subseteq [Seeder!Row -> {"Requested", "Uploading", "Committed"}]
  /\ \A w \in Seeder!Row : /\ Seeder!RowParams(w) \in Requests
                           /\ Seeder!RowDataset(w) \in DatasetInputs
  /\ Seeder!RowReceipt \in Receipts /\ Operator \in RelayerInputs

seederVars  == <<seeder, summary, asked>>
seedVars    == <<vars, poolVars, giveUps, seederVars>>
scriptsVars == <<demoVars, seederVars>>

ScriptsInit == DemoInit /\ Seeder!SeedInit

ScriptsNext ==
  \/ (DemoRuns \/ MineNext \/ Passing) /\ UNCHANGED seederVars
  \/ /\ Seeder!SeederRuns \/ Seeder!CancelRow
     /\ UNCHANGED <<details, run, evidence, onDisk, lapses>>

ScriptsSpec == ScriptsInit /\ [][ScriptsNext]_scriptsVars

(* The chain mines what it was sent, and runs go on.  The operator runs    *)
(* the scripts again and again, the demo with --write and as long as its   *)
(* upload may be committed or is; who does not let runs overlap starts one *)
(* script after another.                                                   *)
BeginDemo ==
  /\ seeder = Seeder!Idle /\ ~OutOfReach
  /\ \E r \in Run, env \in Env : env.write /\ Begin(r, env)

BeginSeeder ==
  /\ "overlap" \in lapses \/ \A r \in Run : run[r] = Idle
  /\ \E targets \in Targets : Seeder!Begin(targets)

ScriptsFairSpec ==
  /\ ScriptsSpec
  /\ WF_demoVars(MineNext)
  /\ \A r \in Run : WF_demoVars(Step(r))
  /\ SF_demoVars(BeginDemo)
  /\ WF_seedVars(Seeder!Step)
  /\ SF_seedVars(BeginSeeder)

-----------------------------------------------------------------------------
(* What FixtureSeeder states, of a registry that both scripts write to. *)

\* No row is moved past what some run of the seeder asked for, and a committed
\* row has its dataset on record, wherever a run was stopped.
RowsInOrder == Seeder!RowsInOrder

\* The seeder's summary never claims more than the chain holds.
SummaryNeverAhead == Seeder!SummaryNeverAhead

\* A run of the seeder that starts with every row at its target and nothing
\* pending sends no transaction.
SettledRunSendsNothing == Seeder!SettledRunSendsNothing

\* Running the seeder again gets every row to its target.
RowsReachTargets == Seeder!RowsReachTargets
=============================================================================
